---------------------------- MODULE SecretStore ----------------------------
(***************************************************************************)
(* The data an enclave's secrets service works on, and the pure part of    *)
(* its operations (node/enclave/src/secrets/mod.rs).  EnclaveSecrets and   *)
(* SecretSharing keep the variables.                                       *)
(*                                                                         *)
(* A store is a function from every secret id to the stored secret or      *)
(* Absent.  An authorization table is a function from authorization ids to *)
(* expiry times, where 0 stands for "no entry": the code treats an entry   *)
(* whose expiry is not after the current time exactly like a missing one.  *)
(***************************************************************************)
EXTENDS Integers

CONSTANTS SecretIds,    \* identities whose secrets the nodes handle
          Consumers,    \* worker bundles that may be given a secret
          Enclaves,     \* the enclaves, one per node
          MaxRestarts,  \* bound: how often an enclave restarts
          Absent,       \* "no entry" in a store or in the contents of a box
          AuthTTL       \* lifetime of an authorization (3600 s in the code)

ASSUME AuthTTLAssumption == AuthTTL \in Nat \ {0}

ASSUME MaxRestartsAssumption == MaxRestarts \in Nat

\* The ephemeral key-exchange keypair is generated once per enclave process:
\* a key names an enclave and one of its lives.
Keys == Enclaves \X (0 .. MaxRestarts)

\* A secret value is 32 random bytes: the key of the life that drew it and
\* how many values that life had drawn before stand for it.
Data == Keys \X Nat

StoredSecret == [data : Data, expiry : Nat, generation_timestamp : Nat]

ASSUME AbsentAssumption == Absent \notin StoredSecret

Store == [SecretIds -> StoredSecret \cup {Absent}]

EmptyStore == [s \in SecretIds |-> Absent]

Ids(store) == {s \in SecretIds : store[s] # Absent}

\* The authorization id is a hash of these three components.
AuthorizationId == Keys \X SecretIds \X Consumers

Authorizations == [AuthorizationId -> Nat]

NoAuthorizations == [a \in AuthorizationId |-> 0]

\* A SecretsBox: `contents' is the plaintext.  Only the keypair of `recipient'
\* decrypts it and only that of `sender' encrypts it: the two keys are the
\* associated data of the ciphertext.  The list contained_secret_ids travels
\* beside it in the clear and is not authenticated, so that whoever passes
\* the box on may change it: the operations take it as an argument of its own.
SecretsBox == [sender : Keys, recipient : Keys, contents : Store]

-----------------------------------------------------------------------------
\* store_authorization: one secret, as execute_policy is called by the daemon.
Granted(auths, key, s, c, time) ==
    [auths EXCEPT ![<<key, s, c>>] = time + AuthTTL]

check_authorization(auths, key, s, c, time) == auths[<<key, s, c>>] > time

\* A secret without expiry (0) is live for ever.
Live(secret, time) ==
    /\ secret # Absent
    /\ secret.expiry = 0 \/ secret.expiry > time

\* The ids check_secrets reports as present and unexpired.
check_secrets(store, time) == {s \in SecretIds : Live(store[s], time)}

-----------------------------------------------------------------------------
\* Mutant: an equally old secret replaces the stored one.
ReplacesEqual(old, new, time) ==
    /\ Live(new, time)
    /\ \/ old = Absent
       \/ new.generation_timestamp >= old.generation_timestamp

\* put_secrets, for the secrets of one box: does the incoming one replace
\* what the store has?
Replaces(old, new, time) ==
    /\ Live(new, time)
    /\ \/ old = Absent
       \/ new.generation_timestamp > old.generation_timestamp

\* Mutant: whatever the box contains is inserted.
MergedAnyAge(store, incoming, time) ==
    [s \in SecretIds |->
        IF Live(incoming[s], time) THEN incoming[s] ELSE store[s]]

Merged(store, incoming, time) ==
    [s \in SecretIds |->
        IF Replaces(store[s], incoming[s], time) THEN incoming[s] ELSE store[s]]

\* Mutant: the keypair survives a restart, so that boxes for an earlier life
\* still decrypt.
BundleAcceptedOldKey(auths, ownKey, box, ids, attestedKey, c, time) ==
    /\ attestedKey = box.sender
    /\ \A s \in ids : check_authorization(auths, attestedKey, s, c, time)
    /\ box.recipient[1] = ownKey[1]

\* The checks of one bundle: the box is bound to the attested key, every
\* secret of the list `ids' it came with is authorized for the one consumer
\* of the bundle, and the box decrypts under our own key.
BundleAccepted(auths, ownKey, box, ids, attestedKey, c, time) ==
    /\ attestedKey = box.sender
    /\ \A s \in ids : check_authorization(auths, attestedKey, s, c, time)
    /\ box.recipient = ownKey

\* The secrets get_secrets packs for a requester: `requests' maps each
\* requested id to its consumer.  Authorization is judged at `time', liveness
\* at the earlier time the call read.
Packed(store, auths, requester, requests, readTime, time) ==
    [s \in SecretIds |->
        IF /\ s \in DOMAIN requests
           /\ check_authorization(auths, requester, s, requests[s], time)
           /\ Live(store[s], readTime)
        THEN store[s] ELSE Absent]

\* generate_secrets: the requested ids the enclave itself is authorized for...
Generable(auths, ownKey, requests, time) ==
    {s \in DOMAIN requests :
        check_authorization(auths, ownKey, s, requests[s], time)}

\* ...and the store after new values for the ids in G were inserted.
Inserted(store, G, value, time) ==
    [s \in SecretIds |->
        IF s \in G
        THEN [data |-> value, expiry |-> 0, generation_timestamp |-> time]
        ELSE store[s]]
=============================================================================
