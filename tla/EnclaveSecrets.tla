--------------------------- MODULE EnclaveSecrets ---------------------------
(***************************************************************************)
(* The secrets services of a set of enclaves                               *)
(* (node/enclave/src/secrets/mod.rs) with daemons that may call any        *)
(* operation at any time, with any box that was ever produced and any list *)
(* of ids beside it: nothing here depends on what the daemons or the       *)
(* network do.                                                             *)
(*                                                                         *)
(* put_secrets, generate_secrets and get_secrets read the clock, then      *)
(* await (verification of a report, or the enclave's own report) and only  *)
(* then lock the maps.  Each is therefore a Begin action that records the  *)
(* time it read and a Commit action that does the locked part; any other   *)
(* step may happen in between.                                             *)
(*                                                                         *)
(* Wall clocks of different enclaves are not synchronised.  Nothing is     *)
(* persisted: Restart loses the store, the authorizations, the calls in    *)
(* flight and the keypair.                                                 *)
(***************************************************************************)
EXTENDS SecretStore, FiniteSets

CONSTANTS MaxTime,      \* bound: the clocks stop here
          MaxCalls,     \* bound: calls in flight, of all enclaves together
          MaxBoxes,     \* bound: boxes ever produced
          MaxConsents   \* bound: policy approvals (distinct key/key/secret)

VARIABLES
    clock,           \* clock[e]: Utc::now() as enclave e reads it
    life,            \* life[e]: how often e has restarted
    storage,         \* storage[e]: secrets_storage
    authorizations,  \* authorizations[e]: the authorization table
    calls,           \* calls[e]: calls of e between Begin and Commit
    minted,          \* minted[e]: values drawn in this life of e
    boxes,           \* every SecretsBox produced so far; gossip loses none
                     \* for ever and may replay any
    consents,        \* history: <<own key, key approved, secret>>, one for
                     \* every approval any enclave's policy runner ever gave
    unlisted         \* history: <<own key, secret>>, one for every secret
                     \* stored from a box whose list did not name it

vars == <<clock, life, storage, authorizations, calls, minted, boxes, consents,
          unlisted>>

Key(e) == <<e, life[e]>>

\* Keys for which a genuine attestation report can exist.
IssuedKeys == {k \in Keys : k[2] <= life[k[1]]}

\* What a caller asks for: some ids, each with its consumer.
Requests == UNION {[S -> Consumers] : S \in SUBSET SecretIds \ {{}}}

PutCall == [op : {"put"}, time : Nat, box : SecretsBox, ids : SUBSET SecretIds,
            attestedKey : Keys, consumer : Consumers]
GenerateCall == [op : {"generate"}, time : Nat, requests : Requests]
GetCall == [op : {"get"}, time : Nat, requests : Requests, requester : Keys]

-----------------------------------------------------------------------------
Init ==
    /\ clock = [e \in Enclaves |-> 0]
    /\ life = [e \in Enclaves |-> 0]
    /\ storage = [e \in Enclaves |-> EmptyStore]
    /\ authorizations = [e \in Enclaves |-> NoAuthorizations]
    /\ calls = [e \in Enclaves |-> {}]
    /\ minted = [e \in Enclaves |-> 0]
    /\ boxes = {}
    /\ consents = {}
    /\ unlisted = {}

Tick(e) ==
    /\ clock[e] < MaxTime
    /\ clock' = [clock EXCEPT ![e] = @ + 1]
    /\ UNCHANGED <<life, storage, authorizations, calls, minted, boxes, consents,
                   unlisted>>

\* Mutant: the keypair is kept over a restart although the store is lost.
RestartSameKey(e) ==
    /\ storage' = [storage EXCEPT ![e] = EmptyStore]
    /\ authorizations' = [authorizations EXCEPT ![e] = NoAuthorizations]
    /\ calls' = [calls EXCEPT ![e] = {}]
    /\ UNCHANGED <<clock, life, minted, boxes, consents, unlisted>>

\* The process is replaced: all state is in memory and the keypair is new.
\* (Bound: once one enclave has restarted MaxRestarts times, none restarts.)
Restart(e) ==
    /\ \A x \in Enclaves : life[x] < MaxRestarts
    /\ life' = [life EXCEPT ![e] = @ + 1]
    /\ storage' = [storage EXCEPT ![e] = EmptyStore]
    /\ authorizations' = [authorizations EXCEPT ![e] = NoAuthorizations]
    /\ calls' = [calls EXCEPT ![e] = {}]
    /\ minted' = [minted EXCEPT ![e] = 0]
    /\ UNCHANGED <<clock, boxes, consents, unlisted>>

\* The runner executed the policy of s for the environment with key k and
\* the policy said yes.  (A denial stores nothing.)
store_authorization(e, k, s, c) ==
    /\ consents' = consents \cup {<<Key(e), k, s>>}
    /\ Cardinality(consents') <= MaxConsents
    /\ authorizations' =
           [authorizations EXCEPT ![e] = Granted(@, k, s, c, clock[e])]
    /\ UNCHANGED <<clock, life, storage, calls, minted, boxes, unlisted>>

Begin(e, call) ==
    /\ Cardinality(UNION {{x} \X calls[x] : x \in Enclaves}) < MaxCalls
    /\ calls' = [calls EXCEPT ![e] = @ \cup {call}]
    /\ UNCHANGED <<clock, life, storage, authorizations, minted, boxes, consents,
                   unlisted>>

End(e, call) == calls' = [calls EXCEPT ![e] = @ \ {call}]

-----------------------------------------------------------------------------
\* One bundle per call: the daemon finalizes a request with one response.
\* The list of ids is whatever the daemon passes.
PutBegin(e, box, ids, k, c) ==
    Begin(e, [op |-> "put", time |-> clock[e], box |-> box, ids |-> ids,
              attestedKey |-> k, consumer |-> c])

\* Everything that decrypts is merged, whether the list named it or not.
PutCommit(e, call) ==
    /\ call.op = "put"
    /\ storage' =
           IF BundleAccepted(authorizations[e], Key(e), call.box, call.ids,
                             call.attestedKey, call.consumer, clock[e])
           THEN [storage EXCEPT ![e] = Merged(@, call.box.contents, call.time)]
           ELSE storage
    /\ unlisted' = unlisted \cup
           {<<Key(e), s>> : s \in {x \in SecretIds \ call.ids :
                                      storage'[e][x] # storage[e][x]}}
    /\ End(e, call)
    /\ UNCHANGED <<clock, life, authorizations, minted, boxes, consents>>

GenerateBegin(e, requests) ==
    Begin(e, [op |-> "generate", time |-> clock[e], requests |-> requests])

\* The ids are visited in an arbitrary order.  The first authorized one that
\* the store already has ends the call with an error, and so does a failing
\* random source; what was generated before stays.
GenerateCommit(e, call) ==
    /\ call.op = "generate"
    /\ LET authorized == Generable(authorizations[e], Key(e), call.requests, clock[e])
       IN  \E G \in SUBSET (authorized \ Ids(storage[e])) :
               /\ storage' = [storage EXCEPT ![e] =
                      Inserted(@, G, <<Key(e), minted[e]>>, call.time)]
               /\ minted' = [minted EXCEPT ![e] = IF G = {} THEN @ ELSE @ + 1]
    /\ End(e, call)
    /\ UNCHANGED <<clock, life, authorizations, boxes, consents, unlisted>>

GetBegin(e, requests, k) ==
    Begin(e, [op |-> "get", time |-> clock[e], requests |-> requests,
              requester |-> k])

GetCommit(e, call) ==
    /\ call.op = "get"
    /\ boxes' = boxes \cup
           {[sender |-> Key(e), recipient |-> call.requester,
             contents |-> Packed(storage[e], authorizations[e], call.requester,
                                 call.requests, call.time, clock[e])]}
    /\ Cardinality(boxes') <= MaxBoxes
    /\ End(e, call)
    /\ UNCHANGED <<clock, life, storage, authorizations, minted, consents, unlisted>>

-----------------------------------------------------------------------------
Next ==
    \E e \in Enclaves :
        \/ Tick(e)
        \/ Restart(e)
        \/ \E k \in IssuedKeys, s \in SecretIds, c \in Consumers :
               store_authorization(e, k, s, c)
        \/ \E box \in boxes, ids \in SUBSET SecretIds, k \in IssuedKeys,
              c \in Consumers :
               PutBegin(e, box, ids, k, c)
        \/ \E requests \in Requests : GenerateBegin(e, requests)
        \/ \E requests \in Requests, k \in IssuedKeys : GetBegin(e, requests, k)
        \/ \E call \in calls[e] :
               \/ PutCommit(e, call)
               \/ GenerateCommit(e, call)
               \/ GetCommit(e, call)

Spec == Init /\ [][Next]_vars

-----------------------------------------------------------------------------
\* Type invariant.
TypeOK ==
    /\ clock \in [Enclaves -> Nat]
    /\ life \in [Enclaves -> 0 .. MaxRestarts]
    /\ storage \in [Enclaves -> Store]
    /\ authorizations \in [Enclaves -> Authorizations]
    /\ calls \in [Enclaves -> SUBSET (PutCall \cup GenerateCall \cup GetCall)]
    /\ minted \in [Enclaves -> Nat]
    /\ boxes \subseteq SecretsBox
    /\ consents \subseteq Keys \X Keys \X SecretIds
    /\ unlisted \subseteq Keys \X SecretIds

\* Every copy of a secret: in a store or in a box (under way or kept).
Copies(s) ==
    {storage[e][s] : e \in Enclaves} \cup {box.contents[s] : box \in boxes}

\* A stored secret was drawn by this life of its enclave, which its own policy
\* approved; or another key approved this enclave for it, and this enclave
\* approved that key too unless the secret was not on the list it checked.
HeldByConsent ==
    \A e \in Enclaves, s \in SecretIds :
        storage[e][s] # Absent =>
            \/ /\ storage[e][s].data[1] = Key(e)
               /\ <<Key(e), Key(e), s>> \in consents
            \/ \E k \in Keys \ {Key(e)} :
                   /\ <<k, Key(e), s>> \in consents
                   /\ \/ <<Key(e), k, s>> \in consents
                      \/ <<Key(e), s>> \in unlisted

\* A secret is in an enclave's store only if this life of the enclave drew it
\* itself with its own policy's approval, or if another enclave approved this
\* life as a receiver of the secret: no daemon can bypass this by replaying a
\* box, by changing its list of ids, by naming another report or by letting
\* the enclave restart.  The receiver's own approval of the source, which
\* put_secrets checks for the ids on the list, is there as well, except for a
\* secret that was in the box and not on the list.
Custody == TypeOK /\ HeldByConsent

\* One life of an enclave draws at most one value for a secret, and every copy
\* of it, wherever it went, keeps its expiry and its generation timestamp:
\* concurrent generate calls and calls that waited cannot produce a second.
OneMintPerLife ==
    \A s \in SecretIds : \A x, y \in Copies(s) :
        x # Absent /\ y # Absent /\ x.data[1] = y.data[1] => x = y

\* What one step may do to the stores of the enclaves that keep running.
Advances ==
    \A e \in Enclaves, s \in SecretIds :
        life'[e] = life[e] /\ storage[e][s] # Absent =>
            \/ storage'[e][s] = storage[e][s]
            \/ /\ storage'[e][s] # Absent
               /\ storage'[e][s].generation_timestamp
                      > storage[e][s].generation_timestamp

\* A running enclave never loses a secret and never goes back to an older or
\* equally old value: put_secrets replaces only by strictly newer timestamps
\* and generate_secrets never overwrites, however old the time it read.
NoRollback == [][Advances]_vars

\* The stores and what was put into boxes, as the registers of SecretLedger.
Given == [s \in SecretIds |-> {box.contents[s] : box \in boxes} \ {Absent}]

Ledger == INSTANCE SecretLedger WITH
    Holders <- Enclaves, Values <- StoredSecret, held <- storage, sent <- Given

\* All enclaves together implement the ledger of secrets: a value is drawn by
\* an enclave that had none and is unlike every copy there is, any other
\* value in a store came out of a box and is newer than what it replaced, and
\* only a restart empties a store.
ImplementsLedger == Ledger!Spec
=============================================================================
