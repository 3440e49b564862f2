------------------------ MODULE EnclaveSecretsProofs ------------------------
(***************************************************************************)
(* Proofs about EnclaveSecrets, for any number of enclaves, secrets,       *)
(* consumers, restarts, clock values, calls in flight and boxes.           *)
(***************************************************************************)
EXTENDS EnclaveSecrets, TLAPS

\* A put in flight carries a box that some enclave produced, and a get in
\* flight a key that was issued.
CallsOK ==
    \A e \in Enclaves : \A call \in calls[e] :
        /\ call.op = "put" => call.box \in boxes
        /\ call.op = "get" => call.requester \in IssuedKeys

\* No box names a key of a life that has not begun.
BoxKeysIssued == \A box \in boxes : box.sender \in IssuedKeys

\* Every authorization goes back to an approval given in this life.
AuthConsent ==
    \A e \in Enclaves, k \in Keys, s \in SecretIds, c \in Consumers :
        authorizations[e][<<k, s, c>>] > 0 => <<Key(e), k, s>> \in consents

\* Whatever a box holds, its sender approved its recipient for.
BoxConsent ==
    \A box \in boxes, s \in SecretIds :
        box.contents[s] # Absent => <<box.sender, box.recipient, s>> \in consents

\* What a running enclave has sent is never newer than what it stores.
SelfDominates ==
    \A e \in Enclaves, s \in SecretIds : \A box \in boxes :
        box.sender = Key(e) /\ box.contents[s] # Absent =>
            /\ storage[e][s] # Absent
            /\ box.contents[s].generation_timestamp
                   <= storage[e][s].generation_timestamp

\* Values come from lives that have begun, and a running enclave still
\* stores a value of every secret it ever drew.
Minters ==
    \A s \in SecretIds : \A x \in Copies(s) :
        x # Absent =>
            /\ x.data[1] \in IssuedKeys
            /\ \A e \in Enclaves : x.data[1] = Key(e) => storage[e][s] # Absent

IInv ==
    /\ TypeOK
    /\ CallsOK
    /\ BoxKeysIssued
    /\ AuthConsent
    /\ BoxConsent
    /\ SelfDominates
    /\ Minters
    /\ OneMintPerLife
    /\ HeldByConsent
-----------------------------------------------------------------------------
(* Facts about the operators of SecretStore.                               *)

\* put_secrets turns a store into a store, whatever the box holds.
LEMMA MergedType ==
    ASSUME NEW store \in Store, NEW incoming \in Store, NEW time \in Nat
    PROVE  Merged(store, incoming, time) \in Store
BY DEF Merged, Store

\* generate_secrets turns a store into a store.
LEMMA InsertedType ==
    ASSUME NEW store \in Store, NEW G, NEW value \in Data, NEW time \in Nat
    PROVE  Inserted(store, G, value, time) \in Store
BY DEF Inserted, Store, StoredSecret

\* What get_secrets packs is a store.
LEMMA PackedType ==
    ASSUME NEW store \in Store, NEW auths, NEW requester, NEW requests,
           NEW readTime, NEW time
    PROVE  Packed(store, auths, requester, requests, readTime, time) \in Store
BY DEF Packed, Store

\* A grant turns an authorization table into one.
LEMMA GrantedType ==
    ASSUME NEW auths \in Authorizations, NEW k \in Keys, NEW s \in SecretIds,
           NEW c \in Consumers, NEW time \in Nat
    PROVE  Granted(auths, k, s, c, time) \in Authorizations
BY AuthTTLAssumption DEF Granted, Authorizations, AuthorizationId

\* Tables and stores are well-formed when an enclave starts.
LEMMA EmptyTypes == EmptyStore \in Store /\ NoAuthorizations \in Authorizations
BY DEF EmptyStore, Store, NoAuthorizations, Authorizations

\* The key of a running enclave has been issued.
LEMMA KeyIssued ==
    ASSUME TypeOK, NEW e \in Enclaves
    PROVE  Key(e) \in Keys /\ Key(e) \in IssuedKeys
BY MaxRestartsAssumption DEF TypeOK, Key, Keys, IssuedKeys

-----------------------------------------------------------------------------
(* Type correctness.                                                       *)

\* Initially every variable has its type.
LEMMA InitTypeOK == Init => TypeOK
BY EmptyTypes, MaxRestartsAssumption DEF Init, TypeOK

\* Every operation, commit and restart keeps the types.
LEMMA NextTypeOK == TypeOK /\ [Next]_vars => TypeOK'
<1> SUFFICES ASSUME TypeOK, [Next]_vars PROVE TypeOK'
  OBVIOUS
<1> USE MaxRestartsAssumption
<1>1. ASSUME NEW e \in Enclaves, Tick(e) PROVE TypeOK'
  BY <1>1 DEF TypeOK, Tick
<1>2. ASSUME NEW e \in Enclaves, Restart(e) PROVE TypeOK'
  BY <1>2, EmptyTypes DEF TypeOK, Restart
<1>3. ASSUME NEW e \in Enclaves, NEW k \in IssuedKeys, NEW s \in SecretIds,
             NEW c \in Consumers, store_authorization(e, k, s, c)
      PROVE  TypeOK'
  <2>1. k \in Keys /\ Key(e) \in Keys
    BY KeyIssued DEF IssuedKeys
  <2>2. authorizations' \in [Enclaves -> Authorizations]
    BY <1>3, <2>1, GrantedType DEF TypeOK, store_authorization
  <2>3. consents' \subseteq Keys \X Keys \X SecretIds
    BY <1>3, <2>1 DEF TypeOK, store_authorization
  <2> QED BY <1>3, <2>2, <2>3 DEF TypeOK, store_authorization
<1>4. ASSUME NEW e \in Enclaves, NEW box \in boxes, NEW k \in IssuedKeys,
             NEW ids \in SUBSET SecretIds, NEW c \in Consumers,
             PutBegin(e, box, ids, k, c)
      PROVE  TypeOK'
  <2>1. [op |-> "put", time |-> clock[e], box |-> box, ids |-> ids,
         attestedKey |-> k, consumer |-> c] \in PutCall
    BY DEF PutCall, TypeOK, IssuedKeys
  <2> QED BY <1>4, <2>1 DEF TypeOK, PutBegin, Begin
<1>5. ASSUME NEW e \in Enclaves, NEW requests \in Requests,
             GenerateBegin(e, requests)
      PROVE  TypeOK'
  <2>1. [op |-> "generate", time |-> clock[e], requests |-> requests]
            \in GenerateCall
    BY DEF GenerateCall, TypeOK
  <2> QED BY <1>5, <2>1 DEF TypeOK, GenerateBegin, Begin
<1>6. ASSUME NEW e \in Enclaves, NEW requests \in Requests,
             NEW k \in IssuedKeys, GetBegin(e, requests, k)
      PROVE  TypeOK'
  <2>1. [op |-> "get", time |-> clock[e], requests |-> requests,
         requester |-> k] \in GetCall
    BY DEF GetCall, TypeOK, IssuedKeys
  <2> QED BY <1>6, <2>1 DEF TypeOK, GetBegin, Begin
<1>7. ASSUME NEW e \in Enclaves, NEW call \in calls[e], PutCommit(e, call)
      PROVE  TypeOK'
  <2>1. call \in PutCall
    BY <1>7 DEF TypeOK, PutCommit, PutCall, GenerateCall, GetCall
  <2>2. Merged(storage[e], call.box.contents, call.time) \in Store
    BY <2>1, MergedType DEF TypeOK, PutCall, SecretsBox
  <2>3. storage' \in [Enclaves -> Store]
    BY <1>7, <2>2 DEF TypeOK, PutCommit
  <2>4. unlisted' \subseteq Keys \X SecretIds
    BY <1>7, KeyIssued DEF TypeOK, PutCommit
  <2> QED BY <1>7, <2>3, <2>4 DEF TypeOK, PutCommit, End
<1>8. ASSUME NEW e \in Enclaves, NEW call \in calls[e], GenerateCommit(e, call)
      PROVE  TypeOK'
  <2>1. call.time \in Nat
    BY <1>8 DEF TypeOK, GenerateCommit, PutCall, GenerateCall, GetCall
  <2>2. PICK G \in SUBSET (Generable(authorizations[e], Key(e), call.requests,
                                     clock[e]) \ Ids(storage[e])) :
            /\ storage' = [storage EXCEPT ![e] =
                   Inserted(@, G, <<Key(e), minted[e]>>, call.time)]
            /\ minted' = [minted EXCEPT ![e] = IF G = {} THEN @ ELSE @ + 1]
    BY <1>8 DEF GenerateCommit
  <2>3. <<Key(e), minted[e]>> \in Data
    BY KeyIssued DEF Data, TypeOK
  <2>4. Inserted(storage[e], G, <<Key(e), minted[e]>>, call.time) \in Store
    BY <2>1, <2>3, InsertedType DEF TypeOK
  <2> QED BY <1>8, <2>2, <2>4 DEF TypeOK, GenerateCommit, End
<1>9. ASSUME NEW e \in Enclaves, NEW call \in calls[e], GetCommit(e, call)
      PROVE  TypeOK'
  <2>1. call \in GetCall
    BY <1>9 DEF TypeOK, GetCommit, PutCall, GenerateCall, GetCall
  <2>2. boxes' \subseteq SecretsBox
    BY <1>9, <2>1, KeyIssued, PackedType
       DEF TypeOK, GetCommit, SecretsBox, GetCall
  <2> QED BY <1>9, <2>2 DEF TypeOK, GetCommit, End
<1>10. CASE UNCHANGED vars
  BY <1>10 DEF TypeOK, vars
<1> QED
  BY <1>1, <1>2, <1>3, <1>4, <1>5, <1>6, <1>7, <1>8, <1>9, <1>10 DEF Next

\* Type correctness: every reachable state of the enclaves is well-formed.
THEOREM TypeCorrect == Spec => []TypeOK
<1> QED BY InitTypeOK, NextTypeOK, PTL DEF Spec

-----------------------------------------------------------------------------
(* The inductive invariant.  IInv without TypeOK and CallsOK:              *)
Secrecy ==
    /\ BoxKeysIssued
    /\ AuthConsent
    /\ BoxConsent
    /\ SelfDominates
    /\ Minters
    /\ OneMintPerLife
    /\ HeldByConsent

\* Steps that touch neither maps nor keys nor boxes keep it.
LEMMA QuietStep ==
    ASSUME Secrecy, UNCHANGED <<life, storage, authorizations, boxes, consents>>,
           unlisted \subseteq unlisted'
    PROVE  Secrecy'
<1>1. /\ IssuedKeys' = IssuedKeys
      /\ \A e \in Enclaves : Key(e)' = Key(e)
      /\ \A s \in SecretIds : Copies(s)' = Copies(s)
  BY DEF IssuedKeys, Key, Copies
<1>2. BoxKeysIssued' /\ AuthConsent' /\ BoxConsent' /\ SelfDominates'
  BY <1>1 DEF Secrecy, BoxKeysIssued, AuthConsent, BoxConsent, SelfDominates
<1>3. Minters' /\ OneMintPerLife'
  BY <1>1 DEF Secrecy, Minters, OneMintPerLife
<1>4. HeldByConsent'
  BY <1>1 DEF Secrecy, HeldByConsent
<1> QED BY <1>2, <1>3, <1>4 DEF Secrecy

\* A clock that advances changes nothing an approval depends on.
LEMMA TickStep ==
    ASSUME IInv, NEW e \in Enclaves, Tick(e)
    PROVE  CallsOK' /\ Secrecy'
<1>1. Secrecy'
  BY QuietStep DEF IInv, Secrecy, Tick
<1>2. CallsOK'
  BY DEF IInv, CallsOK, Tick, IssuedKeys
<1> QED BY <1>1, <1>2

\* A call that has only read the clock disturbs nothing.
LEMMA BeginStep ==
    ASSUME IInv, NEW e \in Enclaves, NEW call, Begin(e, call),
           call.op = "put" => call.box \in boxes,
           call.op = "get" => call.requester \in IssuedKeys
    PROVE  CallsOK' /\ Secrecy'
<1>1. Secrecy'
  BY QuietStep DEF IInv, Secrecy, Begin
<1>2. CallsOK'
  BY DEF IInv, CallsOK, Begin, IssuedKeys, TypeOK
<1> QED BY <1>1, <1>2

\* A new authorization comes with the approval it stands for.
LEMMA AuthorizationStep ==
    ASSUME IInv, NEW e \in Enclaves, NEW k \in IssuedKeys, NEW s \in SecretIds,
           NEW c \in Consumers, store_authorization(e, k, s, c)
    PROVE  CallsOK' /\ Secrecy'
<1> USE DEF IInv, store_authorization
<1>1. CallsOK'
  BY DEF CallsOK, IssuedKeys
<1>2. BoxKeysIssued' /\ SelfDominates' /\ Minters' /\ OneMintPerLife'
  BY DEF BoxKeysIssued, SelfDominates, Minters, OneMintPerLife, Copies, Key,
         IssuedKeys
<1>3. AuthConsent'
  <2> SUFFICES ASSUME NEW e1 \in Enclaves, NEW k1 \in Keys,
                      NEW s1 \in SecretIds, NEW c1 \in Consumers,
                      authorizations'[e1][<<k1, s1, c1>>] > 0
               PROVE  <<Key(e1), k1, s1>> \in consents'
    BY DEF AuthConsent, Key
  <2>1. CASE e1 = e /\ <<k1, s1, c1>> = <<k, s, c>>
    BY <2>1
  <2>2. CASE ~(e1 = e /\ <<k1, s1, c1>> = <<k, s, c>>)
    <3>1. authorizations'[e1][<<k1, s1, c1>>] = authorizations[e1][<<k1, s1, c1>>]
      BY <2>2 DEF TypeOK, Authorizations, AuthorizationId, Granted
    <3> QED BY <3>1 DEF AuthConsent
  <2> QED BY <2>1, <2>2
<1>4. BoxConsent'
  BY DEF BoxConsent
<1>5. HeldByConsent'
  BY DEF HeldByConsent, Key
<1> QED BY <1>1, <1>2, <1>3, <1>4, <1>5 DEF Secrecy

\* A restart begins a life whose key occurs nowhere yet.
LEMMA RestartStep ==
    ASSUME IInv, TypeOK', NEW e \in Enclaves, Restart(e)
    PROVE  CallsOK' /\ Secrecy'
<1> USE DEF IInv, Restart
<1> USE MaxRestartsAssumption
<1>1. IssuedKeys \subseteq IssuedKeys'
  BY DEF IssuedKeys, TypeOK, Keys
<1>2. Key(e)' \notin IssuedKeys
  BY DEF IssuedKeys, Key, TypeOK, Keys
<1>3. \A x \in Enclaves \ {e} : Key(x)' = Key(x)
  BY DEF Key, TypeOK
<1>4. /\ storage'[e] = EmptyStore
      /\ \A x \in Enclaves \ {e} : storage'[x] = storage[x]
  BY DEF TypeOK
<1>5. \A s \in SecretIds : storage'[e][s] = Absent
  BY <1>4 DEF EmptyStore
<1>6. \A s \in SecretIds : Copies(s)' \subseteq Copies(s) \cup {Absent}
  BY <1>4, <1>5 DEF Copies
<1>7. CallsOK'
  BY <1>1 DEF CallsOK, TypeOK
<1>8. BoxKeysIssued'
  BY <1>1 DEF BoxKeysIssued
<1>9. AuthConsent'
  <2>1. \A a \in AuthorizationId : authorizations'[e][a] = 0
    BY DEF TypeOK, NoAuthorizations
  <2>2. \A x \in Enclaves \ {e} : authorizations'[x] = authorizations[x]
    BY DEF TypeOK
  <2> QED BY <1>3, <2>1, <2>2 DEF AuthConsent, AuthorizationId
<1>10. BoxConsent'
  BY DEF BoxConsent
<1>11. SelfDominates'
  BY <1>2, <1>3, <1>4 DEF SelfDominates, BoxKeysIssued
<1>12. Minters'
  BY <1>1, <1>2, <1>3, <1>4, <1>6 DEF Minters
<1>13. OneMintPerLife'
  BY <1>6 DEF OneMintPerLife
<1>14. HeldByConsent'
  BY <1>3, <1>4, <1>5 DEF HeldByConsent
<1> QED BY <1>7, <1>8, <1>9, <1>10, <1>11, <1>12, <1>13, <1>14 DEF Secrecy

\* put_secrets: an accepted box is not the enclave's own, since that would be
\* no newer than the store; so another enclave approved of the transfer, and
\* this one did for every secret on the list.
LEMMA PutStep ==
    ASSUME IInv, TypeOK', NEW e \in Enclaves, NEW call \in calls[e],
           PutCommit(e, call)
    PROVE  CallsOK' /\ Secrecy'
<1> USE DEF IInv, PutCommit
<1> DEFINE contents == call.box.contents
<1>1. CallsOK' /\ BoxKeysIssued' /\ AuthConsent' /\ BoxConsent'
  BY DEF CallsOK, BoxKeysIssued, AuthConsent, BoxConsent, End, Key, IssuedKeys,
         TypeOK
<1>2. call \in PutCall /\ call.box \in boxes
  BY DEF TypeOK, CallsOK, PutCall, GenerateCall, GetCall
<1>3. CASE storage' = storage
  BY <1>1, <1>3, QuietStep DEF Secrecy
<1>4. CASE storage' # storage
  <2>1. /\ BundleAccepted(authorizations[e], Key(e), call.box, call.ids,
                          call.attestedKey, call.consumer, clock[e])
        /\ storage' = [storage EXCEPT ![e] = Merged(@, contents, call.time)]
    BY <1>4
  <2>2. \A x \in Enclaves \ {e} : storage'[x] = storage[x]
    BY <2>1 DEF TypeOK
  <2>3. \A s \in SecretIds :
            \/ storage'[e][s] = storage[e][s]
            \/ /\ Replaces(storage[e][s], contents[s], call.time)
               /\ storage'[e][s] = contents[s]
    BY <2>1 DEF TypeOK, Merged
  <2>4. \A x \in Enclaves : Key(x)' = Key(x)
    BY DEF Key
  <2>5. IssuedKeys' = IssuedKeys
    BY DEF IssuedKeys
  <2>6. \A x \in Enclaves, s \in SecretIds :
            storage[x][s] # Absent =>
                /\ storage'[x][s] # Absent
                /\ storage[x][s].generation_timestamp
                       <= storage'[x][s].generation_timestamp
    <3> SUFFICES ASSUME NEW x \in Enclaves, NEW s \in SecretIds,
                        storage[x][s] # Absent
                 PROVE  /\ storage'[x][s] # Absent
                        /\ storage[x][s].generation_timestamp
                               <= storage'[x][s].generation_timestamp
      OBVIOUS
    <3>1. storage[x][s] \in StoredSecret
      BY DEF TypeOK, Store
    <3>2. contents[s] \in StoredSecret \cup {Absent}
      BY <1>2 DEF PutCall, SecretsBox, Store
    <3>3. CASE storage'[x][s] = storage[x][s]
      BY <3>1, <3>3 DEF StoredSecret
    <3>4. CASE /\ x = e
               /\ Replaces(storage[e][s], contents[s], call.time)
               /\ storage'[e][s] = contents[s]
      BY <3>1, <3>2, <3>4 DEF Replaces, Live, StoredSecret
    <3> QED BY <2>2, <2>3, <3>3, <3>4
  <2>7. \A s \in SecretIds : Copies(s)' \subseteq Copies(s)
    BY <1>2, <2>2, <2>3 DEF Copies
  <2>8. SelfDominates'
    <3> SUFFICES ASSUME NEW x \in Enclaves, NEW s \in SecretIds, NEW box \in boxes,
                        box.sender = Key(x), box.contents[s] # Absent
                 PROVE  /\ storage'[x][s] # Absent
                        /\ box.contents[s].generation_timestamp
                               <= storage'[x][s].generation_timestamp
      BY <2>4 DEF SelfDominates
    <3>1. /\ storage[x][s] # Absent
          /\ box.contents[s].generation_timestamp
                 <= storage[x][s].generation_timestamp
      BY DEF SelfDominates
    <3>2. /\ box.contents[s] \in StoredSecret
          /\ storage[x][s] \in StoredSecret
          /\ storage'[x][s] \in StoredSecret
      BY <2>6, <3>1 DEF TypeOK, SecretsBox, Store
    <3> QED BY <2>6, <3>1, <3>2 DEF StoredSecret
  <2>9. Minters'
    BY <2>4, <2>5, <2>6, <2>7 DEF Minters
  <2>10. OneMintPerLife'
    BY <2>7 DEF OneMintPerLife
  <2>11. HeldByConsent'
    <3> SUFFICES ASSUME NEW s \in SecretIds, storage'[e][s] # storage[e][s]
                 PROVE  \E k \in Keys \ {Key(e)} :
                            /\ <<k, Key(e), s>> \in consents
                            /\ \/ <<Key(e), k, s>> \in consents
                               \/ <<Key(e), s>> \in unlisted'
      BY <2>2, <2>4 DEF HeldByConsent
    <3> DEFINE k == call.attestedKey
    <3>1. Replaces(storage[e][s], contents[s], call.time) /\ contents[s] # Absent
      BY <2>3 DEF Replaces, Live
    <3>2. k \in Keys /\ k = call.box.sender /\ call.box.recipient = Key(e)
      BY <1>2, <2>1 DEF BundleAccepted, PutCall
    <3>3. <<k, Key(e), s>> \in consents
      BY <1>2, <3>1, <3>2 DEF BoxConsent
    <3> DEFINE approved == \/ <<Key(e), k, s>> \in consents
                           \/ <<Key(e), s>> \in unlisted'
    <3>4. ASSUME s \in call.ids PROVE approved
      <4>1. authorizations[e][<<k, s, call.consumer>>] > clock[e]
        BY <2>1, <3>4 DEF BundleAccepted, check_authorization
      <4>2. authorizations[e][<<k, s, call.consumer>>] > 0
        BY <1>2, <3>2, <4>1
           DEF TypeOK, Authorizations, AuthorizationId, PutCall
      <4>3. <<Key(e), k, s>> \in consents
        BY <1>2, <3>2, <4>2 DEF AuthConsent, PutCall
      <4> QED BY <4>3
    <3>5. ASSUME s \notin call.ids PROVE approved
      BY <3>5
    <3>6. approved
      BY <3>4, <3>5
    <3>7. k # Key(e)
      <4> SUFFICES ASSUME k = Key(e) PROVE FALSE
        OBVIOUS
      <4>1. /\ storage[e][s] # Absent
            /\ contents[s].generation_timestamp
                   <= storage[e][s].generation_timestamp
        BY <1>2, <3>1, <3>2 DEF SelfDominates
      <4>2. contents[s] \in StoredSecret /\ storage[e][s] \in StoredSecret
        BY <1>2, <3>1, <4>1 DEF TypeOK, PutCall, SecretsBox, Store
      <4> QED BY <3>1, <4>1, <4>2 DEF Replaces, StoredSecret
    <3> QED BY <3>2, <3>3, <3>6, <3>7
  <2> QED BY <1>1, <2>8, <2>9, <2>10, <2>11 DEF Secrecy
<1> QED BY <1>3, <1>4

\* generate_secrets: the new value is the first of this life for its secret.
LEMMA GenerateStep ==
    ASSUME IInv, TypeOK', NEW e \in Enclaves, NEW call \in calls[e],
           GenerateCommit(e, call)
    PROVE  CallsOK' /\ Secrecy'
<1> USE DEF IInv, GenerateCommit
<1> DEFINE fresh == Generable(authorizations[e], Key(e), call.requests, clock[e])
                        \ Ids(storage[e])
           new == [data |-> <<Key(e), minted[e]>>, expiry |-> 0,
                   generation_timestamp |-> call.time]
<1>1. CallsOK' /\ BoxKeysIssued' /\ AuthConsent' /\ BoxConsent'
  BY DEF CallsOK, BoxKeysIssued, AuthConsent, BoxConsent, End, Key, IssuedKeys,
         TypeOK
<1>2. call \in GenerateCall
  BY DEF TypeOK, PutCall, GenerateCall, GetCall
<1>3. PICK G \in SUBSET fresh :
          storage' = [storage EXCEPT ![e] =
              Inserted(@, G, <<Key(e), minted[e]>>, call.time)]
  OBVIOUS
<1>4. \A x \in Enclaves \ {e} : storage'[x] = storage[x]
  BY <1>3 DEF TypeOK
<1>5. \A s \in SecretIds :
          storage'[e][s] = IF s \in G THEN new ELSE storage[e][s]
  BY <1>3 DEF TypeOK, Inserted
<1>6. \A s \in G : s \in SecretIds /\ storage[e][s] = Absent
  <2>1. \A s \in G : s \in DOMAIN call.requests /\ s \notin Ids(storage[e])
    BY DEF Generable
  <2>2. DOMAIN call.requests \subseteq SecretIds
    BY <1>2 DEF GenerateCall, Requests
  <2> QED BY <2>1, <2>2 DEF Ids
<1>7. /\ \A x \in Enclaves : Key(x)' = Key(x)
      /\ IssuedKeys' = IssuedKeys
      /\ Key(e) \in IssuedKeys
  BY KeyIssued DEF Key, IssuedKeys
<1>8. new # Absent /\ new.data[1] = Key(e)
  <2>1. new \in StoredSecret
    BY <1>2, KeyIssued DEF StoredSecret, GenerateCall, TypeOK, Data
  <2> QED BY <2>1, AbsentAssumption
<1>9. \A x \in Enclaves, s \in SecretIds :
          storage[x][s] # Absent => storage'[x][s] = storage[x][s]
  BY <1>4, <1>5, <1>6
<1>10. \A s \in SecretIds :
           Copies(s)' \subseteq Copies(s) \cup (IF s \in G THEN {new} ELSE {})
  BY <1>4, <1>5 DEF Copies
<1>11. SelfDominates'
  BY <1>7, <1>9 DEF SelfDominates
<1>12. Minters'
  <2> SUFFICES ASSUME NEW s \in SecretIds, NEW x \in Copies(s)', x # Absent
               PROVE  /\ x.data[1] \in IssuedKeys
                      /\ \A z \in Enclaves :
                             x.data[1] = Key(z) => storage'[z][s] # Absent
    BY <1>7 DEF Minters
  <2>1. CASE x \in Copies(s)
    BY <2>1, <1>9 DEF Minters
  <2>2. CASE s \in G /\ x = new
    <3>1. \A z \in Enclaves : Key(z) = Key(e) => z = e
      BY DEF Key
    <3> QED BY <2>2, <3>1, <1>5, <1>7, <1>8
  <2> QED BY <2>1, <2>2, <1>10
<1>13. OneMintPerLife'
  <2> SUFFICES ASSUME NEW s \in SecretIds, NEW x \in Copies(s)',
                      NEW y \in Copies(s)', x # Absent, y # Absent,
                      x.data[1] = y.data[1]
               PROVE  x = y
    BY DEF OneMintPerLife
  <2>1. CASE s \notin G
    BY <2>1, <1>10 DEF OneMintPerLife
  <2>2. CASE s \in G
    <3>1. \A z \in Copies(s) : z # Absent => z.data[1] # Key(e)
      BY <2>2, <1>6 DEF Minters
    <3>2. CASE x \in Copies(s) /\ y \in Copies(s)
      BY <3>2 DEF OneMintPerLife
    <3> QED BY <3>1, <3>2, <1>8, <1>10
  <2> QED BY <2>1, <2>2
<1>14. HeldByConsent'
  <2> SUFFICES ASSUME NEW s \in G
               PROVE  <<Key(e), Key(e), s>> \in consents
    <3>1. \A z \in Enclaves, s \in SecretIds :
              \/ storage'[z][s] = storage[z][s]
              \/ z = e /\ s \in G /\ storage'[z][s].data[1] = Key(e)
      BY <1>4, <1>5, <1>8
    <3> QED BY <3>1, <1>7 DEF HeldByConsent
  <2>1. /\ s \in DOMAIN call.requests
        /\ authorizations[e][<<Key(e), s, call.requests[s]>>] > clock[e]
    BY DEF Generable, check_authorization
  <2>2. call.requests[s] \in Consumers
    BY <1>2, <2>1 DEF GenerateCall, Requests
  <2>3. authorizations[e][<<Key(e), s, call.requests[s]>>] > 0
    <3>1. <<Key(e), s, call.requests[s]>> \in AuthorizationId
      BY <1>6, <2>2, KeyIssued DEF AuthorizationId
    <3> QED BY <2>1, <3>1 DEF TypeOK, Authorizations
  <2> QED BY <1>6, <2>2, <2>3, KeyIssued DEF AuthConsent
<1> QED BY <1>1, <1>11, <1>12, <1>13, <1>14 DEF Secrecy

\* get_secrets: a box holds copies of what its sender stores, for a key its
\* sender approved.
LEMMA GetStep ==
    ASSUME IInv, TypeOK', NEW e \in Enclaves, NEW call \in calls[e],
           GetCommit(e, call)
    PROVE  CallsOK' /\ Secrecy'
<1> USE DEF IInv, GetCommit
<1> DEFINE box == [sender |-> Key(e), recipient |-> call.requester,
                   contents |-> Packed(storage[e], authorizations[e],
                                       call.requester, call.requests,
                                       call.time, clock[e])]
<1>1. call \in GetCall
  BY DEF TypeOK, PutCall, GenerateCall, GetCall
<1>2. boxes' = boxes \cup {box}
  OBVIOUS
<1>3. /\ \A x \in Enclaves : Key(x)' = Key(x)
      /\ IssuedKeys' = IssuedKeys
      /\ Key(e) \in IssuedKeys
  BY KeyIssued DEF Key, IssuedKeys
<1>4. \A s \in SecretIds :
          box.contents[s] # Absent => box.contents[s] = storage[e][s]
  BY DEF Packed
<1>5. \A s \in SecretIds : Copies(s)' \subseteq Copies(s) \cup {Absent}
  BY <1>2, <1>4 DEF Copies
<1>6. CallsOK'
  BY <1>2, <1>3 DEF CallsOK, End, TypeOK
<1>7. BoxKeysIssued'
  BY <1>2, <1>3 DEF BoxKeysIssued
<1>8. AuthConsent'
  BY <1>3 DEF AuthConsent
<1>9. BoxConsent'
  <2> SUFFICES ASSUME NEW s \in SecretIds, box.contents[s] # Absent
               PROVE  <<Key(e), call.requester, s>> \in consents
    BY <1>2 DEF BoxConsent
  <2>1. /\ s \in DOMAIN call.requests
        /\ authorizations[e][<<call.requester, s, call.requests[s]>>] > clock[e]
    BY DEF Packed, check_authorization
  <2>2. call.requests[s] \in Consumers /\ call.requester \in Keys
    BY <1>1, <2>1 DEF GetCall, Requests
  <2>3. authorizations[e][<<call.requester, s, call.requests[s]>>] > 0
    BY <2>1, <2>2 DEF TypeOK, Authorizations, AuthorizationId
  <2> QED BY <2>2, <2>3 DEF AuthConsent
<1>10. SelfDominates'
  <2> SUFFICES ASSUME NEW x \in Enclaves, NEW s \in SecretIds,
                      box.sender = Key(x), box.contents[s] # Absent
               PROVE  /\ storage[x][s] # Absent
                      /\ box.contents[s].generation_timestamp
                             <= storage[x][s].generation_timestamp
    BY <1>2, <1>3 DEF SelfDominates
  <2>1. x = e
    BY DEF Key
  <2>2. box.contents[s] = storage[e][s] /\ storage[e][s] \in StoredSecret
    BY <1>4 DEF TypeOK, Store
  <2> QED BY <2>1, <2>2, AbsentAssumption DEF StoredSecret
<1>11. Minters'
  BY <1>3, <1>5 DEF Minters
<1>12. OneMintPerLife'
  BY <1>5 DEF OneMintPerLife
<1>13. HeldByConsent'
  BY <1>3 DEF HeldByConsent
<1> QED BY <1>6, <1>7, <1>8, <1>9, <1>10, <1>11, <1>12, <1>13 DEF Secrecy

-----------------------------------------------------------------------------
\* Enclaves start without secrets, authorizations, calls or boxes.
LEMMA InitIInv == Init => IInv
<1> SUFFICES ASSUME Init PROVE IInv
  OBVIOUS
<1>1. TypeOK
  BY InitTypeOK
<1>2. \A e \in Enclaves, s \in SecretIds : storage[e][s] = Absent
  BY DEF Init, EmptyStore
<1>3. \A e \in Enclaves, a \in AuthorizationId : authorizations[e][a] = 0
  BY DEF Init, NoAuthorizations
<1>4. \A s \in SecretIds : Copies(s) \subseteq {Absent}
  BY <1>2 DEF Init, Copies
<1>5. AuthConsent
  BY <1>3 DEF AuthConsent, AuthorizationId
<1> QED
  BY <1>1, <1>2, <1>4, <1>5
     DEF Init, IInv, CallsOK, BoxKeysIssued, BoxConsent, SelfDominates,
         Minters, OneMintPerLife, HeldByConsent

\* Every step keeps the inductive invariant.
LEMMA NextIInv == IInv /\ [Next]_vars => IInv'
<1> SUFFICES ASSUME IInv, [Next]_vars PROVE IInv'
  OBVIOUS
<1>1. TypeOK'
  BY NextTypeOK DEF IInv
<1> SUFFICES CallsOK' /\ Secrecy'
  BY <1>1 DEF IInv, Secrecy
<1>2. ASSUME NEW e \in Enclaves, NEW box \in boxes, NEW k \in IssuedKeys,
             NEW ids \in SUBSET SecretIds, NEW c \in Consumers,
             PutBegin(e, box, ids, k, c)
      PROVE  CallsOK' /\ Secrecy'
  BY <1>2, BeginStep DEF PutBegin
<1>3. ASSUME NEW e \in Enclaves, NEW requests \in Requests,
             GenerateBegin(e, requests)
      PROVE  CallsOK' /\ Secrecy'
  BY <1>3, BeginStep DEF GenerateBegin
<1>4. ASSUME NEW e \in Enclaves, NEW requests \in Requests,
             NEW k \in IssuedKeys, GetBegin(e, requests, k)
      PROVE  CallsOK' /\ Secrecy'
  BY <1>4, BeginStep DEF GetBegin
<1>5. CASE UNCHANGED vars
  <2>1. Secrecy'
    BY <1>5, QuietStep DEF IInv, Secrecy, vars
  <2>2. CallsOK'
    BY <1>5 DEF IInv, CallsOK, IssuedKeys, vars
  <2> QED BY <2>1, <2>2
<1> QED
  BY <1>1, <1>2, <1>3, <1>4, <1>5, TickStep, RestartStep, AuthorizationStep,
     PutStep, GenerateStep, GetStep
     DEF Next

\* The inductive invariant holds of every behaviour of the enclaves.
THEOREM Invariance == Spec => []IInv
<1> QED BY InitIInv, NextIInv, PTL DEF Spec

\* No secret reaches an enclave without the approval of its source, and none
\* that was on the list put_secrets checked without the receiver's too,
\* whatever the daemons replay, relabel, delay or reorder, for any number of
\* restarts.
THEOREM CustodyHolds == Spec => []Custody
<1>1. IInv => Custody
  BY DEF IInv, Custody
<1> QED BY <1>1, Invariance, PTL

\* One life of an enclave draws one value per secret.
THEOREM OneMintPerLifeHolds == Spec => []OneMintPerLife
<1>1. IInv => OneMintPerLife
  BY DEF IInv
<1> QED BY <1>1, Invariance, PTL

-----------------------------------------------------------------------------
\* No step takes a running enclave back to an older value.
LEMMA StepAdvances == TypeOK /\ [Next]_vars => Advances
<1> SUFFICES ASSUME TypeOK, [Next]_vars PROVE Advances
  OBVIOUS
<1>1. ASSUME NEW e \in Enclaves, NEW call \in calls[e], PutCommit(e, call)
      PROVE  Advances
  <2>1. CASE storage' = storage
    BY <2>1 DEF Advances
  <2>2. CASE storage' = [storage EXCEPT ![e] =
                             Merged(@, call.box.contents, call.time)]
    <3>1. \A x \in Enclaves \ {e} : storage'[x] = storage[x]
      BY <2>2 DEF TypeOK
    <3>2. \A s \in SecretIds :
              \/ storage'[e][s] = storage[e][s]
              \/ /\ Replaces(storage[e][s], call.box.contents[s], call.time)
                 /\ storage'[e][s] = call.box.contents[s]
      BY <2>2 DEF TypeOK, Merged
    <3> QED BY <3>1, <3>2 DEF Advances, Replaces, Live
  <2> QED BY <1>1, <2>1, <2>2 DEF PutCommit
<1>2. ASSUME NEW e \in Enclaves, NEW call \in calls[e], GenerateCommit(e, call)
      PROVE  Advances
  <2>1. PICK G \in SUBSET (Generable(authorizations[e], Key(e), call.requests,
                                     clock[e]) \ Ids(storage[e])) :
            storage' = [storage EXCEPT ![e] =
                Inserted(@, G, <<Key(e), minted[e]>>, call.time)]
    BY <1>2 DEF GenerateCommit
  <2>2. \A x \in Enclaves \ {e} : storage'[x] = storage[x]
    BY <2>1 DEF TypeOK
  <2>3. \A s \in SecretIds : s \notin G => storage'[e][s] = storage[e][s]
    BY <2>1 DEF TypeOK, Inserted
  <2>4. \A s \in G : s \notin Ids(storage[e])
    OBVIOUS
  <2> QED BY <2>2, <2>3, <2>4 DEF Advances, Ids
<1>3. ASSUME NEW e \in Enclaves, Restart(e)
      PROVE  Advances
  BY <1>3 DEF Restart, Advances, TypeOK
<1>4. CASE UNCHANGED storage
  BY <1>4 DEF Advances
<1> QED
  BY <1>1, <1>2, <1>3, <1>4
     DEF Next, vars, Tick, store_authorization, Begin, PutBegin, GenerateBegin,
         GetBegin, GetCommit

\* A running enclave's store never goes back.
THEOREM NoRollbackHolds == Spec => NoRollback
<1>1. TypeOK /\ [Next]_vars => [Advances]_vars
  BY StepAdvances
<1> QED BY <1>1, TypeCorrect, PTL DEF Spec, NoRollback

-----------------------------------------------------------------------------
(* EnclaveSecrets implements SecretLedger.                                 *)

\* Empty stores are empty registers, and nothing has been given out.
LEMMA InitLedger == Init => Ledger!Init
<1> SUFFICES ASSUME Init PROVE Ledger!Init
  OBVIOUS
<1>1. storage \in [Enclaves -> Ledger!Registers]
  BY DEF Init, EmptyStore, Ledger!Registers
<1>2. \A e \in Enclaves : \A s \in SecretIds : storage[e][s] = Absent
  BY DEF Init, EmptyStore
<1>3. Given = [s \in SecretIds |-> {}]
  BY DEF Init, Given
<1> QED BY <1>1, <1>2, <1>3 DEF Ledger!Init

\* The registers of the ledger have their type in every step.
LEMMA RegistersType == TypeOK' => storage' \in [Enclaves -> Ledger!Registers]
BY DEF TypeOK, Store, Ledger!Registers

\* put_secrets takes over values from a box that some enclave produced.
LEMMA PutAdopts ==
    ASSUME IInv, TypeOK', NEW e \in Enclaves, NEW call \in calls[e],
           PutCommit(e, call)
    PROVE  UNCHANGED storage \/ Ledger!Adopt(e)
<1> SUFFICES ASSUME storage' = [storage EXCEPT ![e] =
                                    Merged(@, call.box.contents, call.time)]
             PROVE  Ledger!Adopt(e)
  BY DEF PutCommit
<1>1. call.box \in boxes
  BY DEF IInv, CallsOK, PutCommit
<1>2. UNCHANGED Given
  BY DEF PutCommit, Given
<1>3. \A x \in Enclaves \ {e} : storage'[x] = storage[x]
  BY DEF IInv, TypeOK
<1>4. \A s \in SecretIds :
          \/ storage'[e][s] = storage[e][s]
          \/ /\ Replaces(storage[e][s], call.box.contents[s], call.time)
             /\ storage'[e][s] = call.box.contents[s]
  BY DEF IInv, TypeOK, Merged
<1>5. \A s \in SecretIds :
          call.box.contents[s] # Absent => call.box.contents[s] \in Given[s]
  BY <1>1 DEF Given
<1> QED
  BY <1>2, <1>3, <1>4, <1>5, RegistersType
     DEF Ledger!Adopt, Ledger!Touches, Ledger!Kept, Replaces, Live

\* generate_secrets draws values nobody has a copy of: a copy with the key of
\* this life would mean that the enclave already stores the secret.
LEMMA GenerateDraws ==
    ASSUME IInv, TypeOK', NEW e \in Enclaves, NEW call \in calls[e],
           GenerateCommit(e, call)
    PROVE  Ledger!Draw(e)
<1>1. PICK G \in SUBSET (Generable(authorizations[e], Key(e), call.requests,
                                   clock[e]) \ Ids(storage[e])) :
          storage' = [storage EXCEPT ![e] =
              Inserted(@, G, <<Key(e), minted[e]>>, call.time)]
  BY DEF GenerateCommit
<1>2. UNCHANGED Given
  BY DEF GenerateCommit, Given
<1>3. \A x \in Enclaves \ {e} : storage'[x] = storage[x]
  BY <1>1 DEF IInv, TypeOK
<1>4. ASSUME NEW s \in SecretIds
      PROVE  \/ storage'[e][s] = storage[e][s]
             \/ /\ storage[e][s] = Absent
                /\ storage'[e][s].data = <<Key(e), minted[e]>>
  BY <1>1 DEF IInv, TypeOK, Inserted, Ids
<1>5. ASSUME NEW s \in SecretIds, storage[e][s] = Absent,
             NEW v \in Ledger!Known(s) \ {Absent}
      PROVE  v.data # <<Key(e), minted[e]>>
  <2>1. v \in Copies(s) /\ v # Absent
    BY <1>5 DEF Ledger!Known, Given, Copies
  <2>2. v.data[1] # Key(e)
    BY <1>5, <2>1 DEF IInv, Minters
  <2> QED BY <2>2
<1> QED
  BY <1>2, <1>3, <1>4, <1>5, RegistersType
     DEF Ledger!Draw, Ledger!Touches, Ledger!Kept

\* get_secrets gives out values the enclave stores.
LEMMA GetGives ==
    ASSUME IInv, NEW e \in Enclaves, NEW call \in calls[e], GetCommit(e, call)
    PROVE  Ledger!Give(e)
<1> DEFINE packed == Packed(storage[e], authorizations[e], call.requester,
                            call.requests, call.time, clock[e])
           new == [sender |-> Key(e), recipient |-> call.requester,
                   contents |-> packed]
           S == {s \in SecretIds : packed[s] # Absent}
<1>1. boxes' = boxes \cup {new}
  BY DEF GetCommit
<1>2. \A s \in SecretIds : packed[s] # Absent => packed[s] = storage[e][s]
  BY DEF Packed
<1>3. S \in SUBSET {s \in SecretIds : storage[e][s] # Absent}
  BY <1>2
<1>4. \A s \in SecretIds : {box.contents[s] : box \in boxes'}
                               = {box.contents[s] : box \in boxes} \cup {packed[s]}
  <2>1. new.contents = packed
    OBVIOUS
  <2> HIDE DEF new, packed
  <2> QED BY <1>1, <2>1
<1>5. \A s \in SecretIds :
          Given'[s] = Given[s] \cup (IF s \in S THEN {storage[e][s]} ELSE {})
  BY <1>2, <1>4 DEF Given
<1>6. Given' = [s \in SecretIds |->
                   Given[s] \cup (IF s \in S THEN {storage[e][s]} ELSE {})]
  BY <1>5 DEF Given
<1>7. UNCHANGED storage
  BY DEF GetCommit
<1> QED BY <1>3, <1>6, <1>7 DEF Ledger!Give

\* Every step is a step of the ledger or leaves the ledger alone.
LEMMA StepLedger ==
    IInv /\ TypeOK' /\ [Next]_vars => [Ledger!Next]_(Ledger!ledger)
<1> SUFFICES ASSUME IInv, TypeOK', [Next]_vars
             PROVE  [Ledger!Next]_(Ledger!ledger)
  OBVIOUS
<1>1. ASSUME NEW e \in Enclaves, NEW call \in calls[e], PutCommit(e, call)
      PROVE  [Ledger!Next]_(Ledger!ledger)
  <2>1. UNCHANGED Given
    BY <1>1 DEF PutCommit, Given
  <2> QED BY <1>1, <2>1, PutAdopts DEF Ledger!Next, Ledger!ledger
<1>2. ASSUME NEW e \in Enclaves, NEW call \in calls[e], GenerateCommit(e, call)
      PROVE  [Ledger!Next]_(Ledger!ledger)
  BY <1>2, GenerateDraws DEF Ledger!Next
<1>3. ASSUME NEW e \in Enclaves, NEW call \in calls[e], GetCommit(e, call)
      PROVE  [Ledger!Next]_(Ledger!ledger)
  BY <1>3, GetGives DEF Ledger!Next
<1>4. ASSUME NEW e \in Enclaves, Restart(e)
      PROVE  [Ledger!Next]_(Ledger!ledger)
  BY <1>4 DEF Restart, Ledger!Next, Ledger!Forget, Ledger!Nothing, EmptyStore,
              Given
<1>5. CASE UNCHANGED <<storage, boxes>>
  BY <1>5 DEF Ledger!ledger, Given
<1> QED
  BY <1>1, <1>2, <1>3, <1>4, <1>5
     DEF Next, vars, Tick, store_authorization, Begin, PutBegin, GenerateBegin,
         GetBegin

\* The enclaves implement the ledger of secrets, for any number of enclaves,
\* secrets and restarts and whatever the daemons do.
THEOREM LedgerImplemented == Spec => ImplementsLedger
<1>1. IInv /\ TypeOK' /\ [Next]_vars => [Ledger!Next]_(Ledger!ledger)
  BY StepLedger
<1>2. IInv => TypeOK
  BY DEF IInv
<1> QED
  BY <1>1, <1>2, InitLedger, Invariance, PTL
     DEF Spec, ImplementsLedger, Ledger!Spec
=============================================================================
