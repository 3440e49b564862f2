------------------------ MODULE SecretSharingProofs ------------------------
(***************************************************************************)
(* Proofs about SecretSharing, for any nodes, calls and secrets, whatever  *)
(* the network does to the messages.                                       *)
(***************************************************************************)
EXTENDS SharingLedger, TLAPS

\* No secret that the nodes generate has an expiry time.
Permanent(store) ==
    \A s \in SecretIds : store[s] # Absent => store[s].expiry = 0

Forever ==
    \A n \in Enclaves :
        /\ Permanent(storage[n])
        /\ \A message \in inbox[n] :
               message.type = "response" => Permanent(message.box.contents)
        /\ \A task \in tasks[n] :
               task.stage = "put" => Permanent(task.box.contents)

\* The request x of node n: its number has been given out, and its caller has
\* published what it was missing.
Published(n, x) ==
    /\ x.id <= request_counter[n]
    /\ CallerNode[x.caller] = n
    /\ x.requests = caller[x.caller].missing
    /\ caller[x.caller].status \notin {"idle", "policy", "publish"}

\* A request is in the pending map or with one finalizer, never with two.
Ownership ==
    \A n \in Enclaves :
        /\ \A p \in pending[n] : Published(n, p) /\ p.id \in timers[n]
        /\ \A t \in tasks[n] : Published(n, t)
        /\ \A p, q \in pending[n] : p.id = q.id => p = q
        /\ \A t, u \in tasks[n] : t.id = u.id => t = u
        /\ \A p \in pending[n], t \in tasks[n] : p.id # t.id

\* Somebody will answer a caller that waits.
HasOwner(c) == \E x \in pending[CallerNode[c]] \cup tasks[CallerNode[c]] : x.caller = c

WaitingOwned == \A c \in Callers : caller[c].status = "waiting" => HasOwner(c)

\* What a call needs and does not ask for is in the enclave; once it has been
\* told "ok", everything is.
Available(c) ==
    LET stored == Ids(storage[CallerNode[c]])
    IN  /\ DOMAIN CallerNeeds[c] \subseteq DOMAIN caller[c].missing \cup stored
        /\ caller[c].status = "ok" => DOMAIN CallerNeeds[c] \subseteq stored

AllAvailable == \A c \in Callers : Available(c)

IInv ==
    /\ TypeOK
    /\ Forever
    /\ Ownership
    /\ WaitingOwned
    /\ AllAvailable

-----------------------------------------------------------------------------
(* Facts about the operators of SecretStore and SecretSharing.             *)

\* A request map is a function on a set of ids that is not empty.
LEMMA RequestFacts ==
    ASSUME NEW r \in Requests
    PROVE  /\ DOMAIN r \subseteq SecretIds /\ DOMAIN r # {}
           /\ r \in [DOMAIN r -> Consumers]
<1>1. PICK S \in (SUBSET SecretIds) \ {{}} : r \in [S -> Consumers]
  BY DEF Requests
<1>2. DOMAIN r = S
  BY <1>1
<1> QED BY <1>1, <1>2

\* Its restriction to some of its ids is one too.
LEMMA RestrictedType ==
    ASSUME NEW r \in Requests, NEW S \in SUBSET DOMAIN r, S # {}
    PROVE  Restricted(r, S) \in Requests /\ DOMAIN Restricted(r, S) = S
<1>1. S \subseteq SecretIds /\ r \in [DOMAIN r -> Consumers]
  BY RequestFacts
<1>2. Restricted(r, S) \in [S -> Consumers]
  BY <1>1 DEF Restricted
<1> QED BY <1>1, <1>2 DEF Requests, Restricted

\* Without expiry times, check_secrets reports whatever is stored.
LEMMA PermanentChecked ==
    ASSUME NEW store, NEW time, Permanent(store)
    PROVE  check_secrets(store, time) = Ids(store)
BY DEF Permanent, check_secrets, Live, Ids

\* put_secrets keeps every id that is stored.
LEMMA MergedStore ==
    ASSUME NEW store \in Store, NEW incoming \in Store, NEW time
    PROVE  /\ Merged(store, incoming, time) \in Store
           /\ Ids(store) \subseteq Ids(Merged(store, incoming, time))
           /\ Permanent(store) /\ Permanent(incoming) =>
                  Permanent(Merged(store, incoming, time))
BY DEF Merged, Store, Ids, Permanent, Replaces, Live

\* So does generate_secrets.
LEMMA InsertedStore ==
    ASSUME NEW store \in Store, NEW G, NEW value \in Data, NEW time \in Nat
    PROVE  /\ Inserted(store, G, value, time) \in Store
           /\ Ids(store) \subseteq Ids(Inserted(store, G, value, time))
           /\ Permanent(store) => Permanent(Inserted(store, G, value, time))
<1> DEFINE new == [data |-> value, expiry |-> 0, generation_timestamp |-> time]
<1>1. new \in StoredSecret /\ new # Absent /\ new.expiry = 0
  BY AbsentAssumption DEF StoredSecret
<1>2. Inserted(store, G, value, time) =
          [s \in SecretIds |-> IF s \in G THEN new ELSE store[s]]
  BY DEF Inserted
<1> HIDE DEF new
<1> QED BY <1>1, <1>2 DEF Store, Ids, Permanent

\* get_secrets packs secrets of the store.
LEMMA PackedStore ==
    ASSUME NEW store \in Store, NEW auths, NEW key, NEW requests, NEW t1, NEW t2
    PROVE  /\ Packed(store, auths, key, requests, t1, t2) \in Store
           /\ Permanent(store) =>
                  Permanent(Packed(store, auths, key, requests, t1, t2))
BY DEF Packed, Store, Permanent

\* The key of a node is a key.
LEMMA KeyType == \A n \in Enclaves : Key(n) \in Keys
BY MaxRestartsAssumption DEF Key, Keys

\* Approvals keep the type of the authorization tables.
LEMMA ApproveType ==
    ASSUME TypeOK, NEW n \in Enclaves, NEW k, NEW requests, NEW A,
           Approve(n, k, requests, A)
    PROVE  authorizations' \in [Enclaves -> Authorizations]
<1>1. now + AuthTTL \in Nat
  BY AuthTTLAssumption, SharingAssumption DEF TypeOK
<1>2. [a \in AuthorizationId |->
          IF a[1] = k /\ a[2] \in A /\ requests[a[2]] = a[3]
          THEN now + AuthTTL ELSE authorizations[n][a]] \in Authorizations
  BY <1>1 DEF TypeOK, Authorizations
<1> QED BY <1>2 DEF TypeOK, Approve

\* Answering touches the status of one caller only, and leaves it answered.
LEMMA AnswerEffect ==
    ASSUME TypeOK, NEW c \in Callers, NEW result \in Answered, Answer(c, result)
    PROVE  /\ caller' \in [Callers -> [status : Status, missing : Requests]]
           /\ \A d \in Callers :
                  /\ caller'[d].missing = caller[d].missing
                  /\ \/ caller'[d].status = caller[d].status
                     \/ d = c /\ caller[d].status = "waiting" /\ caller'[d].status = result
           /\ caller'[c].status # "waiting"
<1>1. caller[c] \in [status : Status, missing : Requests]
  BY DEF TypeOK
<1>2. result \in Status /\ result # "waiting"
  BY DEF Answered, Status
<1>3. CASE caller[c].status = "waiting"
  <2>1. caller' = [caller EXCEPT ![c] = [caller[c] EXCEPT !.status = result]]
    BY <1>3 DEF Answer, TypeOK
  <2>2. [caller[c] EXCEPT !.status = result] \in [status : Status, missing : Requests]
    BY <1>1, <1>2
  <2>3. \A d \in Callers : d # c => caller'[d] = caller[d]
    BY <2>1 DEF TypeOK
  <2>4. caller'[c].status = result /\ caller'[c].missing = caller[c].missing
    BY <1>1, <2>1 DEF TypeOK
  <2>5. caller' \in [Callers -> [status : Status, missing : Requests]]
    BY <2>1, <2>2 DEF TypeOK
  <2> QED BY <1>2, <1>3, <2>3, <2>4, <2>5
<1>4. CASE caller[c].status # "waiting"
  BY <1>4 DEF Answer, TypeOK
<1> QED BY <1>3, <1>4

\* Setting the status of one caller.
LEMMA StatusEffect ==
    ASSUME TypeOK, NEW c \in Callers, NEW result \in Status,
           caller' = [caller EXCEPT ![c].status = result]
    PROVE  /\ caller' \in [Callers -> [status : Status, missing : Requests]]
           /\ \A d \in Callers :
                  /\ caller'[d].missing = caller[d].missing
                  /\ d # c => caller'[d] = caller[d]
           /\ caller'[c].status = result
<1>1. caller[c] \in [status : Status, missing : Requests]
  BY DEF TypeOK
<1>2. caller' = [caller EXCEPT ![c] = [caller[c] EXCEPT !.status = result]]
  BY DEF TypeOK
<1>3. [caller[c] EXCEPT !.status = result] \in [status : Status, missing : Requests]
  BY <1>1
<1>4. \A d \in Callers : d # c => caller'[d] = caller[d]
  BY <1>2 DEF TypeOK
<1>5. caller'[c].status = result /\ caller'[c].missing = caller[c].missing
  BY <1>1, <1>2 DEF TypeOK
<1> QED BY <1>2, <1>3, <1>4, <1>5 DEF TypeOK

-----------------------------------------------------------------------------
(* Type correctness.                                                       *)

\* The kinds of task and message are told apart by their tags.
LEMMA TaskFacts ==
    ASSUME TypeOK, NEW n \in Enclaves, NEW task \in tasks[n]
    PROVE  /\ task.id \in Nat \ {0} /\ task.caller \in Callers
           /\ task.requests \in Requests
           /\ task.stage = "put" => task \in PutTask
<1>1. task \in GenerateTask \cup PutTask
  BY DEF TypeOK
<1> QED BY <1>1 DEF GenerateTask, PutTask

\* Likewise for messages.
LEMMA MessageFacts ==
    ASSUME TypeOK, NEW n \in Enclaves, NEW message \in inbox[n]
    PROVE  /\ message.type = "request" => message \in RequestMessage
           /\ message.type = "response" => message \in ResponseMessage
<1>1. message \in RequestMessage \cup ResponseMessage
  BY DEF TypeOK
<1> QED BY <1>1 DEF RequestMessage, ResponseMessage

\* A message that is sent is added to the inboxes of the others.
LEMMA GossipType ==
    ASSUME TypeOK, NEW n \in Enclaves,
           NEW message \in RequestMessage \cup ResponseMessage, Gossip(n, message)
    PROVE  inbox' \in [Enclaves -> SUBSET (RequestMessage \cup ResponseMessage)]
BY DEF TypeOK, Gossip

\* One that is received leaves the inbox.
LEMMA ReceiveType ==
    ASSUME TypeOK, NEW n \in Enclaves, NEW message, Receive(n, message)
    PROVE  /\ inbox' \in [Enclaves -> SUBSET (RequestMessage \cup ResponseMessage)]
           /\ \A m \in Enclaves : inbox'[m] \subseteq inbox[m]
BY DEF TypeOK, Receive

\* What a finalizer passes on.
LEMMA AdvanceEffect ==
    ASSUME TypeOK, NEW n \in Enclaves, NEW task \in tasks[n],
           NEW stage \in {"generate", "check"}, Advance(n, task, stage)
    PROVE  /\ tasks' \in [Enclaves -> SUBSET (GenerateTask \cup PutTask)]
           /\ \A m \in Enclaves : m # n => tasks'[m] = tasks[m]
           /\ \E new : /\ tasks'[n] = (tasks[n] \ {task}) \cup {new}
                       /\ new.id = task.id /\ new.caller = task.caller
                       /\ new.requests = task.requests /\ new.stage = stage
<1> DEFINE new == [stage |-> stage, id |-> task.id, caller |-> task.caller,
                   requests |-> task.requests]
<1>1. new \in GenerateTask
  BY TaskFacts DEF GenerateTask
<1>2. tasks' = [tasks EXCEPT ![n] = (tasks[n] \ {task}) \cup {new}]
  BY DEF Advance, TypeOK
<1>3. /\ new.id = task.id /\ new.caller = task.caller
      /\ new.requests = task.requests /\ new.stage = stage
  OBVIOUS
<1> HIDE DEF new
<1>4. tasks' \in [Enclaves -> SUBSET (GenerateTask \cup PutTask)]
  BY <1>1, <1>2 DEF TypeOK
<1>5. /\ \A m \in Enclaves : m # n => tasks'[m] = tasks[m]
      /\ tasks'[n] = (tasks[n] \ {task}) \cup {new}
  BY <1>2 DEF TypeOK
<1> QED BY <1>3, <1>4, <1>5

\* A finalizer that ends answers its caller.
LEMMA FinishEffect ==
    ASSUME TypeOK, NEW n \in Enclaves, NEW task \in tasks[n],
           NEW result \in Answered, Finish(n, task, result)
    PROVE  /\ tasks' \in [Enclaves -> SUBSET (GenerateTask \cup PutTask)]
           /\ \A m \in Enclaves :
                  tasks'[m] = IF m = n THEN tasks[n] \ {task} ELSE tasks[m]
           /\ caller' \in [Callers -> [status : Status, missing : Requests]]
           /\ \A d \in Callers :
                  /\ caller'[d].missing = caller[d].missing
                  /\ \/ caller'[d].status = caller[d].status
                     \/ /\ d = task.caller /\ caller[d].status = "waiting"
                        /\ caller'[d].status = result
           /\ caller'[task.caller].status # "waiting"
<1>1. task.caller \in Callers
  BY TaskFacts
<1>2. Answer(task.caller, result)
  BY DEF Finish
<1>3. tasks' = [tasks EXCEPT ![n] = @ \ {task}]
  BY DEF Finish
<1>4. /\ tasks' \in [Enclaves -> SUBSET (GenerateTask \cup PutTask)]
      /\ \A m \in Enclaves :
             tasks'[m] = IF m = n THEN tasks[n] \ {task} ELSE tasks[m]
  BY <1>3 DEF TypeOK
<1> QED BY <1>1, <1>2, <1>3, <1>4, AnswerEffect

\* The steps of a call.
LEMMA CallerTypeOK ==
    ASSUME TypeOK, NEW c \in Callers, CallerStep(c)
    PROVE  TypeOK'
<1>1. /\ CallerNode[c] \in Enclaves /\ CallerNeeds[c] \in Requests
      /\ caller[c] \in [status : Status, missing : Requests]
  BY SharingAssumption DEF TypeOK
<1>2. CASE CheckLocal(c)
  <2> DEFINE needs == CallerNeeds[c]
             missing == DOMAIN needs \ check_secrets(storage[CallerNode[c]], now)
  <2>1. CASE caller' = [caller EXCEPT ![c].status = "failed"]
    BY <1>2, <2>1, StatusEffect DEF CheckLocal, TypeOK, Status, enclaves
  <2>2. CASE missing = {} /\ caller' = [caller EXCEPT ![c] =
                                 [status |-> "ok", missing |-> needs]]
    BY <1>1, <1>2, <2>2 DEF CheckLocal, TypeOK, Status, enclaves
  <2>3. CASE missing # {} /\ caller' = [caller EXCEPT ![c] =
                [status |-> "policy", missing |-> Restricted(needs, missing)]]
    <3>1. Restricted(needs, missing) \in Requests
      BY <1>1, <2>3, RestrictedType
    <3>2. [status |-> "policy", missing |-> Restricted(needs, missing)]
              \in [status : Status, missing : Requests]
      BY <3>1 DEF Status
    <3>3. caller' \in [Callers -> [status : Status, missing : Requests]]
      BY <2>3, <3>2 DEF TypeOK
    <3> QED BY <1>2, <3>3 DEF CheckLocal, TypeOK, enclaves
  <2> QED BY <1>2, <2>1, <2>2, <2>3 DEF CheckLocal
<1>3. CASE SelfPolicy(c)
  <2>1. PICK A \in SUBSET DOMAIN caller[c].missing :
            /\ Approve(CallerNode[c], Key(CallerNode[c]), caller[c].missing, A)
            /\ caller' = [caller EXCEPT ![c].status =
                   IF A = DOMAIN caller[c].missing THEN "publish" ELSE "denied"]
    BY <1>3 DEF SelfPolicy
  <2>2. authorizations' \in [Enclaves -> Authorizations]
    BY <1>1, <2>1, ApproveType
  <2>3. PICK result \in {"publish", "denied"} :
            caller' = [caller EXCEPT ![c].status = result]
    BY <2>1
  <2>4. caller' \in [Callers -> [status : Status, missing : Requests]]
    BY <2>3, StatusEffect DEF Status
  <2> QED BY <1>3, <2>2, <2>4 DEF SelfPolicy, TypeOK
<1>4. CASE Publish(c)
  <2> DEFINE n == CallerNode[c]
             id == request_counter[n] + 1
             missing == caller[c].missing
             request == [id |-> id, caller |-> c, requests |-> missing]
             message == [type |-> "request", id |-> id, requests |-> missing,
                         requester |-> Key(n)]
  <2>1. id \in Nat \ {0} /\ missing \in Requests
    BY <1>1 DEF TypeOK
  <2>2. request \in PendingRequest /\ message \in RequestMessage
    BY <1>1, <2>1, KeyType DEF PendingRequest, RequestMessage
  <2>3. /\ request_counter' = [request_counter EXCEPT ![n] = id]
        /\ pending' = [pending EXCEPT ![n] = @ \cup {request}]
        /\ timers' = [timers EXCEPT ![n] = @ \cup {id}]
        /\ UNCHANGED <<enclaves, online, tasks, serving>>
        /\ \/ Gossip(n, message) /\ caller' = [caller EXCEPT ![c].status = "waiting"]
           \/ UNCHANGED inbox /\ caller' = [caller EXCEPT ![c].status = "unsent"]
    BY <1>4 DEF Publish
  <2> HIDE DEF request, message, id
  <2>4. inbox' \in [Enclaves -> SUBSET (RequestMessage \cup ResponseMessage)]
    BY <1>1, <2>2, <2>3, GossipType DEF TypeOK
  <2>5. caller' \in [Callers -> [status : Status, missing : Requests]]
    BY <2>3, StatusEffect DEF Status
  <2> QED BY <1>1, <2>1, <2>2, <2>3, <2>4, <2>5 DEF TypeOK, enclaves
<1> QED BY <1>2, <1>3, <1>4 DEF CallerStep

\* The steps of the network loop and of the timeout tasks.
LEMMA NodeTypeOK ==
    ASSUME TypeOK, NEW n \in Enclaves,
           \/ StopNetwork(n)
           \/ \E id \in timers[n] : Timeout(n, id)
           \/ \E message \in inbox[n] :
                  HandleRequest(n, message) \/ HandleResponse(n, message)
           \/ SendResponse(n)
    PROVE  TypeOK'
<1>1. CASE StopNetwork(n)
  BY <1>1 DEF StopNetwork, TypeOK, enclaves
<1>2. ASSUME NEW id \in timers[n], Timeout(n, id) PROVE TypeOK'
  <2> DEFINE waiting == {p \in pending[n] : p.id = id}
             taken == {[stage |-> "policy", id |-> id, caller |-> p.caller,
                        requests |-> p.requests] : p \in waiting}
  <2>1. waiting \subseteq PendingRequest /\ id \in Nat \ {0}
    BY DEF TypeOK
  <2>2. taken \subseteq GenerateTask
    BY <2>1 DEF PendingRequest, GenerateTask
  <2>3. /\ timers' = [timers EXCEPT ![n] = @ \ {id}]
        /\ pending' = [pending EXCEPT ![n] = @ \ waiting]
        /\ tasks' = [tasks EXCEPT ![n] = @ \cup taken]
        /\ UNCHANGED <<enclaves, online, request_counter, serving, inbox, caller>>
    BY <1>2 DEF Timeout
  <2> HIDE DEF waiting, taken
  <2> QED BY <2>2, <2>3 DEF TypeOK, enclaves
<1>3. ASSUME NEW message \in inbox[n], HandleRequest(n, message) PROVE TypeOK'
  <2>1. message \in RequestMessage
    BY <1>3, MessageFacts DEF HandleRequest
  <2>2. /\ message.id \in Nat \ {0} /\ message.requests \in Requests
        /\ message.requester \in Keys
    BY <2>1 DEF RequestMessage
  <2>3. PICK A \in SUBSET gather_local(n, message.requests) :
            /\ Approve(n, message.requester, message.requests, A)
            /\ serving' = [serving EXCEPT ![n] =
                   IF A = {} THEN Idle
                   ELSE [id |-> message.id, requester |-> message.requester,
                         requests |-> Restricted(message.requests, A)]]
    BY <1>3 DEF HandleRequest
  <2>4. A # {} => Restricted(message.requests, A) \in Requests
    BY <2>2, RestrictedType DEF gather_local
  <2>5. serving' \in [Enclaves -> Serving \cup {Idle}]
    BY <2>2, <2>3, <2>4 DEF TypeOK, Serving
  <2>6. authorizations' \in [Enclaves -> Authorizations]
    BY <2>3, ApproveType
  <2>7. inbox' \in [Enclaves -> SUBSET (RequestMessage \cup ResponseMessage)]
    BY <1>3, ReceiveType DEF HandleRequest
  <2> QED BY <1>3, <2>5, <2>6, <2>7 DEF HandleRequest, TypeOK
<1>4. ASSUME NEW message \in inbox[n], HandleResponse(n, message) PROVE TypeOK'
  <2>1. message \in ResponseMessage
    BY <1>4, MessageFacts DEF HandleResponse
  <2>2. inbox' \in [Enclaves -> SUBSET (RequestMessage \cup ResponseMessage)]
    BY <1>4, ReceiveType DEF HandleResponse
  <2>3. UNCHANGED <<now, storage, online, request_counter, timers, serving, caller>>
    BY <1>4 DEF HandleResponse
  <2>4. CASE UNCHANGED <<authorizations, pending, tasks>>
    BY <2>2, <2>3, <2>4 DEF TypeOK
  <2>5. ASSUME NEW p \in pending[n], NEW A, Approve(n, message.responder, p.requests, A),
               UNCHANGED <<pending, tasks>>
        PROVE  TypeOK'
    <3>1. authorizations' \in [Enclaves -> Authorizations]
      BY <2>5, ApproveType
    <3> QED BY <2>2, <2>3, <2>5, <3>1 DEF TypeOK
  <2>6. ASSUME NEW p \in pending[n], NEW A, Approve(n, message.responder, p.requests, A),
               pending' = [pending EXCEPT ![n] = @ \ {p}],
               tasks' = [tasks EXCEPT ![n] = @ \cup
                   {[stage |-> "put", id |-> p.id, caller |-> p.caller,
                     requests |-> p.requests, box |-> message.box,
                     attestedKey |-> message.responder]}]
        PROVE  TypeOK'
    <3> DEFINE task == [stage |-> "put", id |-> p.id, caller |-> p.caller,
                        requests |-> p.requests, box |-> message.box,
                        attestedKey |-> message.responder]
    <3>1. authorizations' \in [Enclaves -> Authorizations]
      BY <2>6, ApproveType
    <3>2. task \in PutTask
      BY <2>1 DEF TypeOK, PendingRequest, ResponseMessage, PutTask
    <3>3. tasks' = [tasks EXCEPT ![n] = @ \cup {task}]
      BY <2>6
    <3> HIDE DEF task
    <3>4. tasks' \in [Enclaves -> SUBSET (GenerateTask \cup PutTask)]
      BY <3>2, <3>3 DEF TypeOK
    <3>5. pending' \in [Enclaves -> SUBSET PendingRequest]
      BY <2>6 DEF TypeOK
    <3> QED BY <2>2, <2>3, <3>1, <3>4, <3>5 DEF TypeOK
  <2> QED BY <1>4, <2>4, <2>5, <2>6 DEF HandleResponse
<1>5. CASE SendResponse(n)
  <2> DEFINE box == [sender |-> Key(n), recipient |-> serving[n].requester,
                     contents |-> Packed(storage[n], authorizations[n],
                                         serving[n].requester,
                                         serving[n].requests, now, now)]
             message == [type |-> "response", id |-> serving[n].id,
                         responder |-> Key(n), box |-> box]
  <2>1. serving[n] \in Serving
    BY <1>5 DEF SendResponse, TypeOK
  <2>2. serving[n].id \in Nat \ {0} /\ serving[n].requester \in Keys
    BY <2>1 DEF Serving
  <2>3. storage[n] \in Store
    BY DEF TypeOK
  <2>4. box \in SecretsBox
    BY <2>2, <2>3, KeyType, PackedStore DEF SecretsBox
  <2>5. \/ Gossip(n, message)
        \/ UNCHANGED inbox
    BY <1>5 DEF SendResponse
  <2> HIDE DEF box
  <2>6. message \in ResponseMessage
    BY <2>2, <2>4, KeyType DEF ResponseMessage
  <2> HIDE DEF message
  <2>7. inbox' \in [Enclaves -> SUBSET (RequestMessage \cup ResponseMessage)]
    BY <2>5, <2>6, GossipType DEF TypeOK
  <2> QED BY <1>5, <2>7 DEF SendResponse, TypeOK, enclaves
<1> QED BY <1>1, <1>2, <1>3, <1>4, <1>5

\* The stores change well: they keep their types and what they hold, and get
\* no expiry times.
StoresGrow ==
    /\ storage' \in [Enclaves -> Store]
    /\ \A m \in Enclaves : Ids(storage[m]) \subseteq Ids(storage'[m])
    /\ (\A m \in Enclaves : Permanent(storage[m])) =>
           (\A m \in Enclaves : Permanent(storage'[m]))

\* Generating inserts secrets and removes none.
LEMMA GenerateStore ==
    ASSUME TypeOK, NEW n \in Enclaves, NEW task \in tasks[n], Generate(n, task)
    PROVE  StoresGrow
<1>1. PICK G : storage' = [storage EXCEPT ![n] =
                               Inserted(@, G, <<Key(n), task.id>>, now)]
  BY DEF Generate
<1>2. <<Key(n), task.id>> \in Data /\ now \in Nat /\ storage[n] \in Store
  BY TaskFacts, KeyType, SharingAssumption DEF Data, TypeOK
<1>3. PICK new : /\ new = Inserted(storage[n], G, <<Key(n), task.id>>, now)
                 /\ new \in Store /\ Ids(storage[n]) \subseteq Ids(new)
                 /\ Permanent(storage[n]) => Permanent(new)
  BY <1>2, InsertedStore
<1>4. /\ storage' \in [Enclaves -> Store] /\ storage'[n] = new
      /\ \A m \in Enclaves : m # n => storage'[m] = storage[m]
  BY <1>1, <1>3 DEF TypeOK
<1> QED BY <1>3, <1>4 DEF StoresGrow

\* Putting merges the contents of the accepted box.
LEMMA PutStore ==
    ASSUME TypeOK, Forever, NEW n \in Enclaves, NEW task \in tasks[n], Put(n, task)
    PROVE  StoresGrow
<1>1. task \in PutTask /\ task.stage = "put"
  BY TaskFacts DEF Put
<1>2. task.box.contents \in Store /\ Permanent(task.box.contents) /\ storage[n] \in Store
  BY <1>1 DEF PutTask, SecretsBox, Forever, TypeOK
<1>3. PICK new : /\ new = Merged(storage[n], task.box.contents, now)
                 /\ new \in Store /\ Ids(storage[n]) \subseteq Ids(new)
                 /\ Permanent(storage[n]) => Permanent(new)
  BY <1>2, MergedStore
<1>4. CASE UNCHANGED storage
  BY <1>4 DEF StoresGrow, TypeOK
<1>5. CASE storage' = [storage EXCEPT ![n] = new]
  <2>1. /\ storage' \in [Enclaves -> Store] /\ storage'[n] = new
        /\ \A m \in Enclaves : m # n => storage'[m] = storage[m]
    BY <1>3, <1>5 DEF TypeOK
  <2> QED BY <1>3, <2>1 DEF StoresGrow
<1> QED BY <1>3, <1>4, <1>5 DEF Put

\* Every step of a finalizer hands the request on or answers; it answers "ok"
\* only with all requested secrets in the store.
LEMMA TaskEffect ==
    ASSUME TypeOK, Forever, NEW n \in Enclaves, NEW task \in tasks[n],
           TaskStep(n, task)
    PROVE  /\ UNCHANGED <<now, online, request_counter, pending, timers, serving, inbox>>
           /\ authorizations' \in [Enclaves -> Authorizations]
           /\ StoresGrow
           /\ \/ \E stage \in {"generate", "check"} :
                     Advance(n, task, stage) /\ UNCHANGED caller
              \/ \E result \in Answered :
                     /\ Finish(n, task, result)
                     /\ result = "ok" => DOMAIN task.requests \subseteq Ids(storage'[n])
<1>1. "failed" \in Answered /\ "failed" # "ok" /\ "ok" \in Answered
  BY DEF Answered
<1>2. UNCHANGED storage => StoresGrow
  BY DEF StoresGrow, TypeOK
<1>3. UNCHANGED authorizations => authorizations' \in [Enclaves -> Authorizations]
  BY DEF TypeOK
<1>4. CASE SelfAuthorize(n, task)
  <2>1. authorizations' \in [Enclaves -> Authorizations]
    BY <1>4, ApproveType DEF SelfAuthorize
  <2> QED BY <1>1, <1>2, <1>4, <2>1 DEF SelfAuthorize
<1>5. CASE Generate(n, task)
  BY <1>1, <1>3, <1>5, GenerateStore DEF Generate
<1>6. CASE Put(n, task)
  BY <1>1, <1>3, <1>6, PutStore DEF Put
<1>7. CASE check_and_respond(n, task)
  <2>1. check_secrets(storage[n], now) = Ids(storage[n])
    BY PermanentChecked DEF Forever
  <2>2. UNCHANGED <<enclaves, online, request_counter, pending, timers, serving, inbox>>
    BY <1>7 DEF check_and_respond
  <2>3. \E result \in Answered :
            /\ Finish(n, task, result)
            /\ result = "ok" => DOMAIN task.requests \subseteq Ids(storage'[n])
    BY <1>1, <1>7, <2>1, <2>2 DEF check_and_respond, enclaves
  <2> QED BY <1>2, <1>3, <2>2, <2>3 DEF enclaves
<1>8. CASE EnclaveFails(n, task)
  BY <1>1, <1>2, <1>3, <1>8 DEF EnclaveFails, enclaves
<1> QED BY <1>4, <1>5, <1>6, <1>7, <1>8 DEF TaskStep

\* Hence finalizers keep the types.
LEMMA TaskTypeOK ==
    ASSUME TypeOK, Forever, NEW n \in Enclaves, NEW task \in tasks[n],
           TaskStep(n, task)
    PROVE  TypeOK'
<1>1. /\ tasks' \in [Enclaves -> SUBSET (GenerateTask \cup PutTask)]
      /\ caller' \in [Callers -> [status : Status, missing : Requests]]
  <2>1. ASSUME NEW stage \in {"generate", "check"}, Advance(n, task, stage),
               UNCHANGED caller
        PROVE  <1>1!1 /\ <1>1!2
    BY <2>1, AdvanceEffect DEF TypeOK
  <2>2. ASSUME NEW result \in Answered, Finish(n, task, result)
        PROVE  <1>1!1 /\ <1>1!2
    BY <2>2, FinishEffect
  <2> QED BY <2>1, <2>2, TaskEffect
<1>2. /\ UNCHANGED <<now, online, request_counter, pending, timers, serving, inbox>>
      /\ authorizations' \in [Enclaves -> Authorizations]
      /\ storage' \in [Enclaves -> Store]
  BY TaskEffect DEF StoresGrow
<1> QED BY <1>1, <1>2 DEF TypeOK

-----------------------------------------------------------------------------
(* The inductive invariant.                                                *)

\* Requests that stay where they are keep their owners, as long as only calls
\* that have not published change.
LEMMA OwnersKept ==
    ASSUME TypeOK, Ownership, WaitingOwned,
           UNCHANGED <<request_counter, pending, timers, tasks>>,
           \A d \in Callers :
               \/ caller'[d] = caller[d]
               \/ /\ caller[d].status \in {"idle", "policy", "publish"}
                  /\ caller'[d].status # "waiting"
    PROVE  Ownership' /\ WaitingOwned'
<1>1. ASSUME NEW n \in Enclaves, NEW x \in pending[n] \cup tasks[n]
      PROVE  Published(n, x)'
  <2>1. Published(n, x)
    BY DEF Ownership
  <2>2. x.caller \in Callers
    BY TaskFacts DEF TypeOK, PendingRequest
  <2> QED BY <2>1, <2>2 DEF Published
<1>2. Ownership'
  BY <1>1 DEF Ownership
<1>3. WaitingOwned'
  BY DEF WaitingOwned, HasOwner
<1> QED BY <1>2, <1>3

\* What is available stays so while stores only grow.
LEMMA AvailableKept ==
    ASSUME AllAvailable,
           \A m \in Enclaves : Ids(storage[m]) \subseteq Ids(storage'[m]),
           \A d \in Callers :
               /\ caller'[d].missing = caller[d].missing
               /\ caller'[d].status = "ok" =>
                      \/ caller[d].status = "ok"
                      \/ DOMAIN CallerNeeds[d] \subseteq Ids(storage'[CallerNode[d]])
    PROVE  AllAvailable'
<1> SUFFICES ASSUME NEW c \in Callers PROVE Available(c)'
  BY DEF AllAvailable
<1>1. CallerNode[c] \in Enclaves
  BY SharingAssumption
<1>2. Available(c)
  BY DEF AllAvailable
<1> QED BY <1>1, <1>2 DEF Available

\* Received boxes and put tasks that come from others keep no expiry times.
LEMMA ForeverKept ==
    ASSUME Forever, UNCHANGED <<storage, tasks>>,
           \A m \in Enclaves : \A message \in inbox'[m] :
               \/ message \in inbox[m]
               \/ message.type = "response" => Permanent(message.box.contents)
    PROVE  Forever'
BY DEF Forever, Permanent

\* The steps of a call before it publishes.
LEMMA QuietCallStep ==
    ASSUME IInv, TypeOK', NEW c \in Callers, CheckLocal(c) \/ SelfPolicy(c)
    PROVE  IInv'
<1> USE DEF IInv
<1>1. UNCHANGED <<storage, request_counter, pending, timers, tasks, inbox>>
  BY DEF CheckLocal, SelfPolicy, enclaves
<1>2. CallerNode[c] \in Enclaves /\ CallerNeeds[c] \in Requests
      /\ caller[c] \in [status : Status, missing : Requests]
  BY SharingAssumption DEF TypeOK
<1>3. /\ \A d \in Callers : d # c => caller'[d] = caller[d]
      /\ caller[c].status \in {"idle", "policy", "publish"}
      /\ caller'[c].status # "waiting"
      /\ Available(c)'
  <2>1. CASE SelfPolicy(c)
    <3>1. PICK result \in {"publish", "denied"} :
              caller' = [caller EXCEPT ![c].status = result]
      BY <2>1 DEF SelfPolicy
    <3>2. /\ \A d \in Callers : d # c => caller'[d] = caller[d]
          /\ caller'[c].status = result /\ caller'[c].missing = caller[c].missing
      BY <3>1, StatusEffect DEF Status
    <3>3. Available(c)
      BY DEF AllAvailable
    <3> QED BY <1>1, <2>1, <3>2, <3>3 DEF SelfPolicy, Available
  <2>2. CASE CheckLocal(c)
    <3> DEFINE needs == CallerNeeds[c]
               stored == Ids(storage[CallerNode[c]])
               missing == DOMAIN needs \ stored
    <3>1. check_secrets(storage[CallerNode[c]], now) = stored
      BY <1>2, PermanentChecked DEF Forever
    <3>2. CASE caller' = [caller EXCEPT ![c].status = "failed"]
      <4>1. /\ \A d \in Callers : d # c => caller'[d] = caller[d]
            /\ caller'[c].status = "failed" /\ caller'[c].missing = caller[c].missing
        BY <3>2, StatusEffect DEF Status
      <4>2. Available(c)
        BY DEF AllAvailable
      <4> QED BY <1>1, <2>2, <4>1, <4>2 DEF CheckLocal, Available
    <3>3. CASE missing = {} /\ caller' = [caller EXCEPT ![c] =
                                   [status |-> "ok", missing |-> needs]]
      <4>1. /\ \A d \in Callers : d # c => caller'[d] = caller[d]
            /\ caller'[c].status = "ok" /\ caller'[c].missing = needs
        BY <3>3 DEF TypeOK
      <4> QED BY <1>1, <2>2, <3>3, <4>1 DEF CheckLocal, Available
    <3>4. CASE missing # {} /\ caller' = [caller EXCEPT ![c] =
                  [status |-> "policy", missing |-> Restricted(needs, missing)]]
      <4>1. /\ \A d \in Callers : d # c => caller'[d] = caller[d]
            /\ caller'[c].status = "policy"
            /\ caller'[c].missing = Restricted(needs, missing)
        BY <3>4 DEF TypeOK
      <4>2. DOMAIN Restricted(needs, missing) = missing
        BY <1>2, <3>4, RestrictedType
      <4> QED BY <1>1, <2>2, <4>1, <4>2 DEF CheckLocal, Available
    <3> QED BY <2>2, <3>1, <3>2, <3>3, <3>4 DEF CheckLocal
  <2> QED BY <2>1, <2>2
<1>4. Ownership' /\ WaitingOwned'
  BY <1>1, <1>3, OwnersKept
<1>5. AllAvailable'
  <2> SUFFICES ASSUME NEW d \in Callers, d # c PROVE Available(d)'
    BY <1>3 DEF AllAvailable
  <2> QED BY <1>1, <1>3 DEF AllAvailable, Available
<1>6. Forever'
  BY <1>1, ForeverKept
<1> QED BY <1>4, <1>5, <1>6

\* A call that publishes becomes the owner of a fresh number.
LEMMA PublishStep ==
    ASSUME IInv, TypeOK', NEW c \in Callers, Publish(c)
    PROVE  IInv'
<1> USE DEF IInv
<1>0. CallerNode[c] \in Enclaves
  BY SharingAssumption
<1>1. PICK n \in Enclaves : n = CallerNode[c]
  BY <1>0
<1>2. PICK id \in Nat : id = request_counter[n] + 1
  BY DEF TypeOK
<1>3. PICK request : request = [id |-> id, caller |-> c, requests |-> caller[c].missing]
  OBVIOUS
<1>4. request.id = id /\ request.caller = c /\ request.requests = caller[c].missing
  BY <1>3
<1>5. /\ request_counter' = [request_counter EXCEPT ![n] = id]
      /\ pending' = [pending EXCEPT ![n] = @ \cup {request}]
      /\ timers' = [timers EXCEPT ![n] = @ \cup {id}]
      /\ UNCHANGED <<storage, tasks>>
      /\ caller[c].status = "publish"
  BY <1>1, <1>2, <1>3 DEF Publish, enclaves
<1>6. PICK result \in {"waiting", "unsent"} : caller' = [caller EXCEPT ![c].status = result]
  BY DEF Publish
<1>7. /\ \A d \in Callers : d # c => caller'[d] = caller[d]
      /\ \A d \in Callers : caller'[d].missing = caller[d].missing
      /\ caller'[c].status = result
  BY <1>6, StatusEffect DEF Status
<1>8. /\ \A m \in Enclaves : m # n =>
             /\ request_counter'[m] = request_counter[m]
             /\ pending'[m] = pending[m] /\ timers'[m] = timers[m]
      /\ request_counter'[n] = id
      /\ pending'[n] = pending[n] \cup {request}
      /\ timers'[n] = timers[n] \cup {id}
  BY <1>5 DEF TypeOK
<1>9. ASSUME NEW m \in Enclaves, NEW x \in pending[m] \cup tasks[m]
      PROVE  /\ Published(m, x)' /\ x.caller # c /\ x.id \in Nat
             /\ m = n => x.id < id
  <2>1. Published(m, x) /\ x.caller \in Callers /\ x.id \in Nat
    BY TaskFacts DEF Ownership, TypeOK, PendingRequest
  <2>2. x.caller # c
    BY <1>5, <2>1 DEF Published
  <2>3. caller'[x.caller] = caller[x.caller]
    BY <1>7, <2>1, <2>2
  <2>4. request_counter[m] \in Nat
    BY DEF TypeOK
  <2>5. x.id <= request_counter[m] /\ request_counter[m] <= request_counter'[m]
    BY <1>2, <1>8, <2>1, <2>4 DEF Published
  <2>6. x.id <= request_counter'[m]
    BY <1>2, <1>8, <2>1, <2>4, <2>5
  <2>7. Published(m, x)'
    BY <2>1, <2>3, <2>6 DEF Published
  <2> QED BY <1>2, <2>1, <2>2, <2>4, <2>5, <2>7
<1>10. Published(n, request)'
  BY <1>1, <1>4, <1>7, <1>8 DEF Published
<1>11. Ownership'
  <2>1. ASSUME NEW m \in Enclaves, m # n
        PROVE  /\ \A p \in pending'[m] : Published(m, p)' /\ p.id \in timers'[m]
               /\ \A t \in tasks'[m] : Published(m, t)'
               /\ \A p, q \in pending'[m] : p.id = q.id => p = q
               /\ \A t, u \in tasks'[m] : t.id = u.id => t = u
               /\ \A p \in pending'[m], t \in tasks'[m] : p.id # t.id
    BY <1>5, <1>8, <1>9, <2>1 DEF Ownership
  <2>2. /\ \A p \in pending'[n] : Published(n, p)' /\ p.id \in timers'[n]
        /\ \A t \in tasks'[n] : Published(n, t)'
        /\ \A p, q \in pending'[n] : p.id = q.id => p = q
        /\ \A t, u \in tasks'[n] : t.id = u.id => t = u
        /\ \A p \in pending'[n], t \in tasks'[n] : p.id # t.id
    BY <1>4, <1>5, <1>8, <1>9, <1>10 DEF Ownership
  <2> QED BY <2>1, <2>2 DEF Ownership
<1>12. WaitingOwned'
  <2>1. HasOwner(c)'
    BY <1>1, <1>4, <1>8 DEF HasOwner
  <2>2. ASSUME NEW d \in Callers, d # c, caller'[d].status = "waiting"
        PROVE  HasOwner(d)'
    <3>1. HasOwner(d) /\ CallerNode[d] \in Enclaves
      BY <1>7, <2>2, SharingAssumption DEF WaitingOwned
    <3> QED BY <1>5, <1>8, <3>1 DEF HasOwner
  <2> QED BY <2>1, <2>2 DEF WaitingOwned
<1>13. AllAvailable'
  BY <1>5, <1>7, AvailableKept
<1>14. Forever'
  <2>1. \A m \in Enclaves : \A message \in inbox'[m] :
            message \in inbox[m] \/ message.type = "request"
    BY <1>0 DEF Publish, Gossip
  <2> QED BY <1>5, <2>1, ForeverKept
<1> QED BY <1>11, <1>12, <1>13, <1>14

\* A request that leaves the pending map for a finalizer keeps one owner.
LEMMA TakenOver ==
    ASSUME IInv, NEW n \in Enclaves, NEW p \in pending[n], NEW new,
           new.id = p.id, new.caller = p.caller, new.requests = p.requests,
           pending' = [pending EXCEPT ![n] = @ \ {p}],
           tasks' = [tasks EXCEPT ![n] = @ \cup {new}],
           timers[n] \ {p.id} \subseteq timers'[n],
           \A m \in Enclaves : m # n => timers'[m] = timers[m],
           UNCHANGED <<request_counter, caller>>
    PROVE  Ownership' /\ WaitingOwned'
<1> USE DEF IInv
<1>1. /\ \A m \in Enclaves : m # n => pending'[m] = pending[m] /\ tasks'[m] = tasks[m]
      /\ pending'[n] = pending[n] \ {p}
      /\ tasks'[n] = tasks[n] \cup {new}
  BY DEF TypeOK
<1>2. \A m \in Enclaves : \A x : Published(m, x) => Published(m, x)'
  BY DEF Published
<1>3. Published(n, new)'
  BY DEF Published, Ownership
<1>4. Ownership'
  <2>1. ASSUME NEW m \in Enclaves, m # n
        PROVE  /\ \A q \in pending'[m] : Published(m, q)' /\ q.id \in timers'[m]
               /\ \A t \in tasks'[m] : Published(m, t)'
               /\ \A q, r \in pending'[m] : q.id = r.id => q = r
               /\ \A t, u \in tasks'[m] : t.id = u.id => t = u
               /\ \A q \in pending'[m], t \in tasks'[m] : q.id # t.id
    BY <1>1, <1>2, <2>1 DEF Ownership
  <2>2. /\ \A q \in pending'[n] : Published(n, q)' /\ q.id \in timers'[n]
        /\ \A t \in tasks'[n] : Published(n, t)'
        /\ \A q, r \in pending'[n] : q.id = r.id => q = r
        /\ \A t, u \in tasks'[n] : t.id = u.id => t = u
        /\ \A q \in pending'[n], t \in tasks'[n] : q.id # t.id
    BY <1>1, <1>2, <1>3 DEF Ownership
  <2> QED BY <2>1, <2>2 DEF Ownership
<1>5. WaitingOwned'
  <2> SUFFICES ASSUME NEW d \in Callers, caller[d].status = "waiting"
               PROVE  HasOwner(d)'
    BY DEF WaitingOwned
  <2>1. HasOwner(d) /\ CallerNode[d] \in Enclaves
    BY SharingAssumption DEF WaitingOwned
  <2> QED BY <1>1, <2>1 DEF HasOwner
<1> QED BY <1>4, <1>5

\* The timeout task takes the request over if nobody has.
LEMMA TimeoutStep ==
    ASSUME IInv, TypeOK', NEW n \in Enclaves, NEW id \in timers[n], Timeout(n, id)
    PROVE  IInv'
<1> USE DEF IInv
<1> DEFINE waiting == {p \in pending[n] : p.id = id}
           Taken(p) == [stage |-> "policy", id |-> id, caller |-> p.caller,
                        requests |-> p.requests]
<1>1. /\ timers' = [timers EXCEPT ![n] = @ \ {id}]
      /\ pending' = [pending EXCEPT ![n] = @ \ waiting]
      /\ tasks' = [tasks EXCEPT ![n] = @ \cup {Taken(p) : p \in waiting}]
      /\ UNCHANGED <<storage, request_counter, inbox, caller>>
  BY DEF Timeout, enclaves
<1>2. /\ \A m \in Enclaves : m # n => timers'[m] = timers[m]
      /\ timers'[n] = timers[n] \ {id}
  BY <1>1 DEF TypeOK
<1>3. CASE waiting = {}
  <2>1. pending' = pending /\ tasks' = tasks
    BY <1>1, <1>3 DEF TypeOK
  <2>2. \A m \in Enclaves : \A x : Published(m, x) => Published(m, x)'
    BY <1>1 DEF Published
  <2>3. Ownership'
    <3>1. ASSUME NEW m \in Enclaves, NEW p \in pending[m]
          PROVE  p.id \in timers'[m]
      BY <1>2, <1>3 DEF Ownership
    <3> QED BY <2>1, <2>2, <3>1 DEF Ownership
  <2>4. WaitingOwned'
    BY <1>1, <2>1 DEF WaitingOwned, HasOwner
  <2>5. Forever'
    BY <1>1, <2>1, ForeverKept
  <2> QED BY <1>1, <2>3, <2>4, <2>5, AvailableKept
<1>4. CASE waiting # {}
  <2>1. PICK p \in pending[n] : p.id = id
    BY <1>4
  <2>2. waiting = {p}
    BY <2>1 DEF Ownership
  <2>3. PICK new : new = Taken(p)
    OBVIOUS
  <2>4. /\ new.id = p.id /\ new.caller = p.caller /\ new.requests = p.requests
        /\ new.stage = "policy"
    BY <2>1, <2>3
  <2>5. /\ pending' = [pending EXCEPT ![n] = @ \ {p}]
        /\ tasks' = [tasks EXCEPT ![n] = @ \cup {new}]
    <3>1. {Taken(q) : q \in waiting} = {new}
      BY <2>2, <2>3
    <3> QED BY <1>1, <2>2, <3>1
  <2> HIDE DEF waiting, Taken
  <2>6. Ownership' /\ WaitingOwned'
    <3> HIDE DEF IInv
    <3>1. /\ timers[n] \ {p.id} \subseteq timers'[n]
          /\ \A m \in Enclaves : m # n => timers'[m] = timers[m]
          /\ UNCHANGED <<request_counter, caller>>
      BY <1>1, <1>2, <2>1
    <3>2. new.id = p.id /\ new.caller = p.caller /\ new.requests = p.requests
      BY <2>4
    <3> QED BY <2>5, <3>1, <3>2, TakenOver
  <2>7. Forever'
    <3>1. \A m \in Enclaves : \A t \in tasks'[m] : t \in tasks[m] \/ t = new
      BY <2>5 DEF TypeOK
    <3> QED BY <1>1, <2>4, <3>1 DEF Forever, Permanent
  <2> QED BY <1>1, <2>6, <2>7, AvailableKept
<1> QED BY <1>3, <1>4

\* A response that is valid takes its request over; the box it brings has no
\* expiry times.
LEMMA ResponseStep ==
    ASSUME IInv, TypeOK', NEW n \in Enclaves, NEW message \in inbox[n],
           HandleResponse(n, message)
    PROVE  IInv'
<1> USE DEF IInv
<1>1. /\ UNCHANGED <<storage, request_counter, timers, caller>>
      /\ message.type = "response"
      /\ \A m \in Enclaves : inbox'[m] \subseteq inbox[m]
  BY ReceiveType DEF HandleResponse
<1>2. AllAvailable'
  BY <1>1, AvailableKept
<1>3. CASE UNCHANGED <<pending, tasks>>
  <2>1. Ownership' /\ WaitingOwned'
    BY <1>1, <1>3, OwnersKept
  <2>2. Forever'
    BY <1>1, <1>3, ForeverKept
  <2> QED BY <1>2, <2>1, <2>2
<1>4. ASSUME NEW p \in pending[n],
             pending' = [pending EXCEPT ![n] = @ \ {p}],
             tasks' = [tasks EXCEPT ![n] = @ \cup
                 {[stage |-> "put", id |-> p.id, caller |-> p.caller,
                   requests |-> p.requests, box |-> message.box,
                   attestedKey |-> message.responder]}]
      PROVE  IInv'
  <2>1. PICK new : new = [stage |-> "put", id |-> p.id, caller |-> p.caller,
                          requests |-> p.requests, box |-> message.box,
                          attestedKey |-> message.responder]
    OBVIOUS
  <2>2. /\ new.id = p.id /\ new.caller = p.caller /\ new.requests = p.requests
        /\ new.box = message.box
    BY <2>1
  <2>3. tasks' = [tasks EXCEPT ![n] = @ \cup {new}]
    BY <1>4, <2>1
  <2> HIDE DEF IInv
  <2>4. Ownership' /\ WaitingOwned'
    <3>1. UNCHANGED <<timers, request_counter, caller>>
      BY <1>1
    <3>2. /\ timers[n] \ {p.id} \subseteq timers'[n]
          /\ \A m \in Enclaves : m # n => timers'[m] = timers[m]
      BY <3>1
    <3>3. pending' = [pending EXCEPT ![n] = @ \ {p}]
      BY <1>4
    <3> QED BY <2>2, <2>3, <3>1, <3>2, <3>3, TakenOver
  <2> USE DEF IInv
  <2>5. Forever'
    <3>1. \A m \in Enclaves : \A t \in tasks'[m] : t \in tasks[m] \/ t = new
      BY <2>3 DEF TypeOK
    <3>2. Permanent(new.box.contents)
      BY <1>1, <2>2 DEF Forever
    <3> QED BY <1>1, <3>1, <3>2 DEF Forever, Permanent
  <2> QED BY <1>2, <2>4, <2>5
<1> QED BY <1>3, <1>4 DEF HandleResponse

\* The remaining steps of a node do not touch requests of its own.
LEMMA ServeStep ==
    ASSUME IInv, TypeOK', NEW n \in Enclaves,
           \/ StopNetwork(n) \/ SendResponse(n)
           \/ \E message \in inbox[n] : HandleRequest(n, message)
    PROVE  IInv'
<1> USE DEF IInv
<1>1. UNCHANGED <<storage, request_counter, pending, timers, tasks, caller>>
  BY DEF StopNetwork, SendResponse, HandleRequest, enclaves
<1>2. Ownership' /\ WaitingOwned' /\ AllAvailable'
  BY <1>1, OwnersKept, AvailableKept
<1>3. Forever'
  <2>1. CASE \A m \in Enclaves : inbox'[m] \subseteq inbox[m]
    BY <1>1, <2>1, ForeverKept
  <2>2. ASSUME SendResponse(n), ~UNCHANGED inbox PROVE Forever'
    <3>1. PICK contents : contents = Packed(storage[n], authorizations[n],
                                            serving[n].requester,
                                            serving[n].requests, now, now)
      OBVIOUS
    <3>2. Permanent(contents)
      BY <3>1, PackedStore DEF Forever, TypeOK
    <3>3. PICK message : /\ message = [type |-> "response", id |-> serving[n].id,
                                       responder |-> Key(n),
                                       box |-> [sender |-> Key(n),
                                                recipient |-> serving[n].requester,
                                                contents |-> contents]]
                         /\ Gossip(n, message)
      BY <2>2, <3>1 DEF SendResponse
    <3>4. message.box.contents = contents
      BY <3>3
    <3>5. \A m \in Enclaves : \A x \in inbox'[m] : x \in inbox[m] \/ x = message
      BY <3>3 DEF Gossip
    <3> QED BY <1>1, <3>2, <3>4, <3>5, ForeverKept
  <2>3. ASSUME NEW message \in inbox[n], HandleRequest(n, message)
        PROVE  \A m \in Enclaves : inbox'[m] \subseteq inbox[m]
    BY <2>3, ReceiveType DEF HandleRequest
  <2>4. StopNetwork(n) => UNCHANGED inbox
    BY DEF StopNetwork
  <2> QED BY <2>1, <2>2, <2>3, <2>4
<1> QED BY <1>2, <1>3

\* A finalizer hands its request on, or answers its caller and is gone.
LEMMA FinalizerStep ==
    ASSUME IInv, TypeOK', NEW n \in Enclaves, NEW task \in tasks[n],
           TaskStep(n, task)
    PROVE  IInv'
<1> USE DEF IInv
<1>1. /\ UNCHANGED <<request_counter, pending, timers, inbox>>
      /\ StoresGrow
  BY TaskEffect
<1>2. Published(n, task) /\ task.caller \in Callers
  BY TaskFacts DEF Ownership
<1>3. ASSUME NEW stage \in {"generate", "check"}, Advance(n, task, stage),
             UNCHANGED caller
      PROVE  IInv'
  <2>1. \A m \in Enclaves : m # n => tasks'[m] = tasks[m]
    BY <1>3, AdvanceEffect
  <2>2. PICK new : /\ tasks'[n] = (tasks[n] \ {task}) \cup {new}
                   /\ new.id = task.id /\ new.caller = task.caller
                   /\ new.requests = task.requests /\ new.stage = stage
    BY <1>3, AdvanceEffect
  <2>3. \A m \in Enclaves : \A x : Published(m, x) => Published(m, x)'
    BY <1>1, <1>3 DEF Published
  <2>4. Published(n, new)'
    BY <1>1, <1>2, <1>3, <2>2 DEF Published
  <2>5. Ownership'
    BY <1>1, <2>1, <2>2, <2>3, <2>4 DEF Ownership
  <2>6. WaitingOwned'
    <3> SUFFICES ASSUME NEW d \in Callers, caller[d].status = "waiting"
                 PROVE  HasOwner(d)'
      BY <1>3 DEF WaitingOwned
    <3>1. HasOwner(d) /\ CallerNode[d] \in Enclaves
      BY SharingAssumption DEF WaitingOwned
    <3> QED BY <1>1, <2>1, <2>2, <3>1 DEF HasOwner
  <2>7. Forever'
    <3>1. \A m \in Enclaves : Permanent(storage'[m])
      BY <1>1 DEF StoresGrow, Forever
    <3>2. \A m \in Enclaves : \A t \in tasks'[m] :
              t \in tasks[m] \/ t.stage # "put"
      BY <1>3, <2>1, <2>2
    <3> QED BY <1>1, <3>1, <3>2 DEF Forever
  <2>8. AllAvailable'
    BY <1>1, <1>3, AvailableKept DEF StoresGrow
  <2> QED BY <2>5, <2>6, <2>7, <2>8
<1>4. ASSUME NEW result \in Answered, Finish(n, task, result),
             result = "ok" => DOMAIN task.requests \subseteq Ids(storage'[n])
      PROVE  IInv'
  <2>1. /\ \A m \in Enclaves :
               tasks'[m] = IF m = n THEN tasks[n] \ {task} ELSE tasks[m]
        /\ \A d \in Callers :
               /\ caller'[d].missing = caller[d].missing
               /\ \/ caller'[d].status = caller[d].status
                  \/ /\ d = task.caller /\ caller[d].status = "waiting"
                     /\ caller'[d].status = result
        /\ caller'[task.caller].status # "waiting"
    <3> HIDE DEF IInv
    <3>1. TypeOK
      BY DEF IInv
    <3>2. Finish(n, task, result)
      BY <1>4
    <3>3. \A m \in Enclaves :
              tasks'[m] = IF m = n THEN tasks[n] \ {task} ELSE tasks[m]
      BY <3>1, <3>2, FinishEffect
    <3>4. /\ \A d \in Callers :
                 /\ caller'[d].missing = caller[d].missing
                 /\ \/ caller'[d].status = caller[d].status
                    \/ /\ d = task.caller /\ caller[d].status = "waiting"
                       /\ caller'[d].status = result
          /\ caller'[task.caller].status # "waiting"
      BY <3>1, <3>2, FinishEffect
    <3> QED BY <3>3, <3>4
  <2>2. ASSUME NEW m \in Enclaves, NEW x \in pending[m] \cup tasks[m]
        PROVE  Published(m, x)'
    <3>1. Published(m, x) /\ x.caller \in Callers
      BY TaskFacts DEF Ownership, TypeOK, PendingRequest
    <3>2. result \notin {"idle", "policy", "publish"}
      BY DEF Answered
    <3> QED BY <1>1, <2>1, <3>1, <3>2 DEF Published
  <2>3. Ownership'
    BY <1>1, <2>1, <2>2 DEF Ownership
  <2>4. WaitingOwned'
    <3> SUFFICES ASSUME NEW d \in Callers, caller'[d].status = "waiting"
                 PROVE  HasOwner(d)'
      BY DEF WaitingOwned
    <3>1. d # task.caller /\ caller[d].status = "waiting"
      BY <2>1
    <3>2. HasOwner(d) /\ CallerNode[d] \in Enclaves
      BY <3>1, SharingAssumption DEF WaitingOwned
    <3> QED BY <1>1, <2>1, <3>1, <3>2 DEF HasOwner
  <2>5. Forever'
    <3>1. \A m \in Enclaves : Permanent(storage'[m])
      BY <1>1 DEF StoresGrow, Forever
    <3>2. \A m \in Enclaves : tasks'[m] \subseteq tasks[m]
      BY <2>1
    <3> QED BY <1>1, <3>1, <3>2 DEF Forever
  <2>6. AllAvailable'
    <3>1. result = "ok" =>
              DOMAIN CallerNeeds[task.caller] \subseteq
                  Ids(storage'[CallerNode[task.caller]])
      <4>1. /\ task.requests = caller[task.caller].missing
            /\ CallerNode[task.caller] = n
        BY <1>2 DEF Published
      <4>2. Available(task.caller)
        BY <1>2 DEF AllAvailable
      <4> QED BY <1>1, <1>4, <4>1, <4>2 DEF Available, StoresGrow
    <3> QED BY <1>1, <2>1, <3>1, AvailableKept DEF StoresGrow
  <2> QED BY <2>3, <2>4, <2>5, <2>6
<1> QED BY <1>3, <1>4, TaskEffect

\* Initially no request is out and nobody has been answered.
LEMMA InitIInv == Init => IInv
<1> SUFFICES ASSUME Init PROVE IInv
  OBVIOUS
<1>1. \A n \in Enclaves : InitialStore(n) \in Store /\ Permanent(InitialStore(n))
  <2> SUFFICES ASSUME NEW n \in Enclaves
               PROVE  InitialStore(n) \in Store /\ Permanent(InitialStore(n))
    OBVIOUS
  <2> DEFINE secret == [data |-> <<Key(n), 0>>, expiry |-> 0,
                        generation_timestamp |-> 0]
  <2>1. secret \in StoredSecret /\ secret.expiry = 0
    BY KeyType DEF StoredSecret, Data
  <2>2. InitialStore(n) = [s \in SecretIds |-> IF n \in Holders THEN secret ELSE Absent]
    BY DEF InitialStore
  <2> HIDE DEF secret
  <2> QED BY <2>1, <2>2 DEF Store, Permanent
<1>2. \A c \in Callers : /\ caller[c].status = "idle"
                         /\ caller[c].missing = CallerNeeds[c]
                         /\ caller[c] \in [status : Status, missing : Requests]
  BY SharingAssumption DEF Init, Status
<1>3. TypeOK
  <2>1. caller \in [Callers -> [status : Status, missing : Requests]]
    BY <1>2 DEF Init
  <2>2. storage \in [Enclaves -> Store]
    BY <1>1 DEF Init
  <2> QED BY <2>1, <2>2, SharingAssumption
          DEF Init, TypeOK, Authorizations, NoAuthorizations
<1>4. Forever /\ Ownership
  BY <1>1 DEF Init, Forever, Ownership
<1>5. WaitingOwned /\ AllAvailable
  BY <1>2 DEF WaitingOwned, AllAvailable, Available
<1> QED BY <1>3, <1>4, <1>5 DEF IInv

\* Every step keeps the invariant.
LEMMA NextIInv == IInv /\ [Next]_vars => IInv'
<1> SUFFICES ASSUME IInv, [Next]_vars PROVE IInv'
  OBVIOUS
<1>1. TypeOK /\ Forever
  BY DEF IInv
<1>2. ASSUME UNCHANGED <<storage, request_counter, pending, timers, tasks, inbox, caller>>,
             TypeOK'
      PROVE  IInv'
  BY <1>2, OwnersKept, AvailableKept, ForeverKept DEF IInv
<1>3. CASE Tick
  <2>1. TypeOK'
    BY <1>1, <1>3, SharingAssumption DEF Tick, TypeOK
  <2> QED BY <1>2, <1>3, <2>1 DEF Tick
<1>4. ASSUME NEW c \in Callers, CallerStep(c) PROVE IInv'
  BY <1>1, <1>4, CallerTypeOK, QuietCallStep, PublishStep DEF CallerStep
<1>5. ASSUME NEW n \in Enclaves, NEW id \in timers[n], Timeout(n, id) PROVE IInv'
  BY <1>1, <1>5, NodeTypeOK, TimeoutStep
<1>6. ASSUME NEW n \in Enclaves, NEW message \in inbox[n], HandleResponse(n, message)
      PROVE  IInv'
  BY <1>1, <1>6, NodeTypeOK, ResponseStep
<1>7. ASSUME NEW n \in Enclaves,
             \/ StopNetwork(n) \/ SendResponse(n)
             \/ \E message \in inbox[n] : HandleRequest(n, message)
      PROVE  IInv'
  BY <1>1, <1>7, NodeTypeOK, ServeStep
<1>8. ASSUME NEW n \in Enclaves, NEW task \in tasks[n], TaskStep(n, task)
      PROVE  IInv'
  BY <1>1, <1>8, TaskTypeOK, FinalizerStep
<1>9. CASE UNCHANGED vars
  BY <1>1, <1>2, <1>9 DEF vars, TypeOK
<1> QED BY <1>3, <1>4, <1>5, <1>6, <1>7, <1>8, <1>9 DEF Next

-----------------------------------------------------------------------------
(* What holds of every run.                                                *)

\* The inductive invariant holds in every state.
LEMMA Inductive == Spec => []IInv
<1>1. Init => IInv
  BY InitIInv
<1>2. IInv /\ [Next]_vars => IInv'
  BY NextIInv
<1> QED BY <1>1, <1>2, PTL DEF Spec

\* A request of SecretsService is in the pending map or with one finalizer,
\* and nobody who waits for an answer has been forgotten.
THEOREM RequestsOwned == Spec => []OneOwner
<1>1. IInv => OneOwner
  <2> SUFFICES ASSUME IInv PROVE OneOwner
    OBVIOUS
  <2>1. TypeOK /\ \A n \in Enclaves : \A p \in pending[n] : p.id \in timers[n]
    BY DEF IInv, Ownership
  <2>2. ASSUME NEW n \in Enclaves, NEW id, NEW x \in Owners(n, id), NEW y \in Owners(n, id)
        PROVE  x = y
    BY DEF IInv, Ownership, Owners
  <2>3. ASSUME NEW c \in Callers, caller[c].status = "waiting"
        PROVE  \E id \in 1 .. request_counter[CallerNode[c]] :
                   \E x \in Owners(CallerNode[c], id) : x.caller = c
    <3>1. CallerNode[c] \in Enclaves
      BY SharingAssumption
    <3>2. PICK x \in pending[CallerNode[c]] \cup tasks[CallerNode[c]] : x.caller = c
      BY <2>3 DEF IInv, WaitingOwned, HasOwner
    <3>3. x.id \in Nat \ {0} /\ Published(CallerNode[c], x)
      BY <2>1, <3>1, <3>2, TaskFacts DEF IInv, Ownership, TypeOK, PendingRequest
    <3>4. x.id \in 1 .. request_counter[CallerNode[c]]
      BY <2>1, <3>1, <3>3 DEF Published, TypeOK
    <3> QED BY <3>2, <3>4 DEF Owners
  <2> QED BY <2>1, <2>2, <2>3 DEF OneOwner
<1> QED BY <1>1, Inductive, PTL

\* get_secrets answers Ok only when every secret the call needs is in the
\* enclave, and it stays there.
THEOREM OkIsAvailable == Spec => []OkMeansAvailable
<1>1. IInv => OkMeansAvailable
  <2> SUFFICES ASSUME IInv, NEW c \in Callers, caller[c].status = "ok"
               PROVE  DOMAIN CallerNeeds[c] \subseteq
                          check_secrets(storage[CallerNode[c]], now)
    BY DEF OkMeansAvailable
  <2>1. CallerNode[c] \in Enclaves
    BY SharingAssumption
  <2>2. check_secrets(storage[CallerNode[c]], now) = Ids(storage[CallerNode[c]])
    BY <2>1, PermanentChecked DEF IInv, Forever
  <2> QED BY <2>2 DEF IInv, AllAvailable, Available
<1> QED BY <1>1, Inductive, PTL

-----------------------------------------------------------------------------
(* SecretSharing implements SecretLedger.                                  *)

\* Requests of node n for which its enclave may still generate.
Draws(task) == task.stage \in {"policy", "generate"}

Unspent(n) == {p.id : p \in pending[n]} \cup {t.id : t \in {u \in tasks[n] : Draws(u)}}

\* No request can lead to the value with this data any more.
Spent(data) ==
    \A n \in Enclaves : data[1] = Key(n) =>
        data[2] <= request_counter[n] /\ data[2] \notin Unspent(n)

\* Every copy of s, in a store or given out.
Copies(s) == {storage[n][s] : n \in Enclaves} \cup sent[s]

Given(contents) == \A s \in SecretIds : contents[s] # Absent => contents[s] \in sent[s]

\* Copies come from requests that draw no more, and boxes that wait to be
\* received or stored contain what was given out.
LedgerInv ==
    /\ sent \in [SecretIds -> SUBSET StoredSecret]
    /\ \A s \in SecretIds : \A v \in Copies(s) \ {Absent} : Spent(v.data)
    /\ \A n \in Enclaves :
           /\ \A message \in inbox[n] :
                  message.type = "response" => Given(message.box.contents)
           /\ \A task \in tasks[n] : task.stage = "put" => Given(task.box.contents)

\* What a step may do to the numbers of requests: new ones are larger.
NumbersGrow ==
    \A n \in Enclaves :
        /\ request_counter[n] <= request_counter'[n]
        /\ \A id \in Unspent(n)' : id \in Unspent(n) \/ id > request_counter[n]

\* The numbers of requests.
LEMMA NumberTypes ==
    ASSUME TypeOK, NEW n \in Enclaves
    PROVE  /\ request_counter[n] \in Nat
           /\ \A id \in Unspent(n) : id \in Nat \ {0}
<1>1. request_counter[n] \in Nat /\ \A p \in pending[n] : p.id \in Nat \ {0}
  BY DEF TypeOK, PendingRequest
<1>2. \A t \in tasks[n] : t.id \in Nat \ {0}
  BY TaskFacts
<1> QED BY <1>1, <1>2 DEF Unspent

\* What is spent stays so.
LEMMA SpentKept ==
    ASSUME TypeOK, TypeOK', NumbersGrow, NEW v \in StoredSecret, Spent(v.data)
    PROVE  Spent(v.data)'
<1>1. v.data[2] \in Nat
  BY DEF StoredSecret, Data
<1> SUFFICES ASSUME NEW n \in Enclaves, v.data[1] = Key(n)
             PROVE  v.data[2] <= request_counter'[n] /\ v.data[2] \notin Unspent(n)'
  BY DEF Spent
<1>2. v.data[2] <= request_counter[n] /\ v.data[2] \notin Unspent(n)
  BY DEF Spent
<1>3. request_counter[n] \in Nat /\ request_counter'[n] \in Nat
  BY DEF TypeOK
<1>4. request_counter[n] <= request_counter'[n]
  BY DEF NumbersGrow
<1>5. v.data[2] <= request_counter'[n]
  BY <1>1, <1>2, <1>3, <1>4
<1>6. ASSUME v.data[2] \in Unspent(n)' PROVE FALSE
  <2>1. v.data[2] > request_counter[n]
    BY <1>2, <1>6 DEF NumbersGrow
  <2> QED BY <1>1, <1>2, <1>3, <2>1
<1> QED BY <1>5, <1>6

\* Copies are secrets.
LEMMA CopiesType ==
    ASSUME TypeOK, LedgerInv, NEW s \in SecretIds
    PROVE  Copies(s) \subseteq StoredSecret \cup {Absent}
<1>1. \A n \in Enclaves : storage[n][s] \in StoredSecret \cup {Absent}
  BY DEF TypeOK, Store
<1>2. sent[s] \subseteq StoredSecret
  BY DEF LedgerInv
<1> QED BY <1>1, <1>2 DEF Copies

\* What a step must do to keep the invariant.
LEMMA LedgerInvKept ==
    ASSUME TypeOK, TypeOK', LedgerInv, NumbersGrow,
           sent' \in [SecretIds -> SUBSET StoredSecret],
           \A s \in SecretIds : sent[s] \subseteq sent'[s],
           \A s \in SecretIds : \A v \in Copies(s)' \ {Absent} :
               v \in Copies(s) \/ Spent(v.data)',
           \A n \in Enclaves : \A message \in inbox'[n] :
               \/ message \in inbox[n] \/ message.type # "response"
               \/ Given(message.box.contents)',
           \A n \in Enclaves : \A task \in tasks'[n] :
               \/ task \in tasks[n] \/ task.stage # "put"
               \/ Given(task.box.contents)
    PROVE  LedgerInv'
<1>1. ASSUME NEW s \in SecretIds, NEW v \in Copies(s)' \ {Absent}
      PROVE  Spent(v.data)'
  <2>1. CASE v \in Copies(s)
    <3>1. v \in StoredSecret
      BY <1>1, <2>1, CopiesType
    <3>2. Spent(v.data)
      BY <1>1, <2>1 DEF LedgerInv
    <3> QED BY <3>1, <3>2, SpentKept
  <2> QED BY <1>1, <2>1
<1>2. \A contents : Given(contents) => Given(contents)'
  BY DEF Given
<1>3. ASSUME NEW n \in Enclaves
      PROVE  /\ \A message \in inbox'[n] :
                    message.type = "response" => Given(message.box.contents)'
             /\ \A task \in tasks'[n] : task.stage = "put" => Given(task.box.contents)'
  BY <1>2 DEF LedgerInv
<1> QED BY <1>1, <1>3 DEF LedgerInv

\* A step that gossips no response gives nothing out.
LEMMA NothingCarried ==
    ASSUME LedgerInv, Record,
           \A n \in Enclaves : \A message \in inbox'[n] :
               message \in inbox[n] \/ message.type # "response"
    PROVE  UNCHANGED sent
<1>1. Gossiped = {}
  BY DEF Gossiped
<1>2. \A s \in SecretIds : Carried(s) = {}
  BY <1>1 DEF Carried
<1>3. sent' = [s \in SecretIds |-> sent[s]]
  BY <1>2 DEF Record
<1> QED BY <1>3 DEF LedgerInv

\* A step that neither touches a store nor gossips a response.
LEMMA QuietLedger ==
    ASSUME TypeOK, TypeOK', LedgerInv, NumbersGrow, Record, UNCHANGED storage,
           \A n \in Enclaves : \A message \in inbox'[n] :
               message \in inbox[n] \/ message.type # "response",
           \A n \in Enclaves : \A task \in tasks'[n] :
               \/ task \in tasks[n] \/ task.stage # "put"
               \/ Given(task.box.contents)
    PROVE  LedgerInv' /\ UNCHANGED <<storage, sent>>
<1>1. UNCHANGED sent
  BY NothingCarried
<1>2. \A s \in SecretIds : Copies(s)' = Copies(s)
  BY <1>1 DEF Copies
<1>3. sent' \in [SecretIds -> SUBSET StoredSecret]
  BY <1>1 DEF LedgerInv
<1>4. LedgerInv'
  BY <1>1, <1>2, <1>3, LedgerInvKept
<1> QED BY <1>1, <1>4

\* Numbers that only disappear.
LEMMA NumbersStay ==
    ASSUME TypeOK, UNCHANGED request_counter,
           \A n \in Enclaves : Unspent(n)' \subseteq Unspent(n)
    PROVE  NumbersGrow
<1>1. \A n \in Enclaves : request_counter[n] \in Nat
  BY DEF TypeOK
<1> QED BY <1>1 DEF NumbersGrow

\* A call publishes its request under a new number.
LEMMA PublishLedger ==
    ASSUME TypeOK, TypeOK', LedgerInv, Record, NEW c \in Callers, Publish(c)
    PROVE  LedgerInv' /\ UNCHANGED <<storage, sent>>
<1>1. PICK n \in Enclaves : n = CallerNode[c]
  BY SharingAssumption
<1>2. PICK id : id = request_counter[n] + 1
  OBVIOUS
<1>3. PICK new : new = [id |-> id, caller |-> c, requests |-> caller[c].missing]
  OBVIOUS
<1>4. new.id = id
  BY <1>3
<1>5. /\ request_counter' = [request_counter EXCEPT ![n] = id]
      /\ pending' = [pending EXCEPT ![n] = @ \cup {new}]
      /\ UNCHANGED <<storage, tasks>>
  BY <1>1, <1>2, <1>3 DEF Publish, enclaves
<1>6. NumbersGrow
  <2> SUFFICES ASSUME NEW m \in Enclaves
               PROVE  /\ request_counter[m] <= request_counter'[m]
                      /\ \A i \in Unspent(m)' : i \in Unspent(m) \/ i > request_counter[m]
    BY DEF NumbersGrow
  <2>1. request_counter[m] \in Nat
    BY DEF TypeOK
  <2>2. CASE m = n
    <3>1. request_counter'[m] = id /\ pending'[m] = pending[m] \cup {new}
      BY <1>5, <2>2 DEF TypeOK
    <3>2. request_counter[m] < id
      BY <1>2, <2>1, <2>2
    <3>3. request_counter[m] <= id /\ id > request_counter[m]
      BY <1>2, <2>1, <2>2
    <3>4. Unspent(m)' = Unspent(m) \cup {id}
      BY <1>4, <1>5, <3>1 DEF Unspent, Draws
    <3> QED BY <3>1, <3>3, <3>4
  <2>3. CASE m # n
    <3>1. request_counter'[m] = request_counter[m] /\ pending'[m] = pending[m]
      BY <1>5, <2>3 DEF TypeOK
    <3>2. Unspent(m)' = Unspent(m)
      BY <1>5, <3>1 DEF Unspent, Draws
    <3> QED BY <2>1, <3>1, <3>2
  <2> QED BY <2>2, <2>3
<1>7. ASSUME NEW m \in Enclaves, NEW message \in inbox'[m]
      PROVE  message \in inbox[m] \/ message.type # "response"
  <2>1. PICK request : request = [type |-> "request", id |-> id,
                                  requests |-> caller[c].missing, requester |-> Key(n)]
    OBVIOUS
  <2>2. request.type # "response"
    BY <2>1
  <2>3. UNCHANGED inbox \/ Gossip(n, request)
    BY <1>1, <1>2, <2>1 DEF Publish
  <2> QED BY <1>7, <2>2, <2>3 DEF Gossip
<1> QED BY <1>5, <1>6, <1>7, QuietLedger

\* A timeout takes the request over under its number.
LEMMA TimeoutLedger ==
    ASSUME TypeOK, TypeOK', LedgerInv, Record, NEW n \in Enclaves, NEW id, Timeout(n, id)
    PROVE  LedgerInv' /\ UNCHANGED <<storage, sent>>
<1>1. PICK waiting : waiting = {p \in pending[n] : p.id = id}
  OBVIOUS
<1>2. PICK new : new = {[stage |-> "policy", id |-> id, caller |-> p.caller,
                         requests |-> p.requests] : p \in waiting}
  OBVIOUS
<1>3. \A t \in new : t.id = id /\ t.stage = "policy" /\ \E p \in pending[n] : p.id = id
  BY <1>1, <1>2
<1>4. /\ pending' = [pending EXCEPT ![n] = @ \ waiting]
      /\ tasks' = [tasks EXCEPT ![n] = @ \cup new]
      /\ UNCHANGED <<storage, inbox, request_counter>>
  BY <1>1, <1>2 DEF Timeout, enclaves
<1>5. ASSUME NEW m \in Enclaves PROVE Unspent(m)' \subseteq Unspent(m)
  <2>1. pending'[m] \subseteq pending[m]
    BY <1>4 DEF TypeOK
  <2>2. \A t \in tasks'[m] : t \in tasks[m] \/ (m = n /\ t \in new)
    BY <1>4 DEF TypeOK
  <2> QED BY <1>3, <2>1, <2>2 DEF Unspent, Draws
<1>6. NumbersGrow
  BY <1>4, <1>5, NumbersStay
<1>7. \A m \in Enclaves : \A t \in tasks'[m] : t \in tasks[m] \/ t.stage # "put"
  BY <1>3, <1>4 DEF TypeOK
<1> QED BY <1>4, <1>6, <1>7, QuietLedger

\* A response that is accepted goes on to a finalizer, with its box.
LEMMA ResponseLedger ==
    ASSUME TypeOK, TypeOK', LedgerInv, Record, NEW n \in Enclaves,
           NEW message \in inbox[n], HandleResponse(n, message)
    PROVE  LedgerInv' /\ UNCHANGED <<storage, sent>>
<1>1. /\ UNCHANGED <<storage, request_counter>>
      /\ \A m \in Enclaves : inbox'[m] \subseteq inbox[m]
  BY ReceiveType DEF HandleResponse
<1>2. Given(message.box.contents)
  BY DEF HandleResponse, LedgerInv
<1>3. \/ UNCHANGED <<pending, tasks>>
      \/ \E p \in pending[n] : \E new :
             /\ pending' = [pending EXCEPT ![n] = @ \ {p}]
             /\ new.stage = "put" /\ new.box = message.box
             /\ tasks' = [tasks EXCEPT ![n] = @ \cup {new}]
  <2>1. CASE UNCHANGED <<pending, tasks>>
    BY <2>1
  <2>2. CASE ~UNCHANGED <<pending, tasks>>
    <3>1. PICK p \in pending[n] :
              /\ pending' = [pending EXCEPT ![n] = @ \ {p}]
              /\ tasks' = [tasks EXCEPT ![n] = @ \cup
                     {[stage |-> "put", id |-> p.id, caller |-> p.caller,
                       requests |-> p.requests, box |-> message.box,
                       attestedKey |-> message.responder]}]
      BY <2>2 DEF HandleResponse
    <3>2. PICK new : new = [stage |-> "put", id |-> p.id, caller |-> p.caller,
                            requests |-> p.requests, box |-> message.box,
                            attestedKey |-> message.responder]
      OBVIOUS
    <3>3. new.stage = "put" /\ new.box = message.box
      BY <3>2
    <3> QED BY <3>1, <3>2, <3>3
  <2> QED BY <2>1, <2>2
<1>4. /\ \A m \in Enclaves : pending'[m] \subseteq pending[m]
      /\ \A m \in Enclaves : \A t \in tasks'[m] :
             t \in tasks[m] \/ (t.stage = "put" /\ t.box = message.box)
  <2>1. CASE UNCHANGED <<pending, tasks>>
    BY <2>1
  <2>2. ASSUME NEW p \in pending[n], NEW new,
               pending' = [pending EXCEPT ![n] = @ \ {p}],
               new.stage = "put", new.box = message.box,
               tasks' = [tasks EXCEPT ![n] = @ \cup {new}]
        PROVE  <1>4
    BY <2>2 DEF TypeOK
  <2> QED BY <1>3, <2>1, <2>2
<1>5. \A m \in Enclaves : Unspent(m)' \subseteq Unspent(m)
  BY <1>4 DEF Unspent, Draws
<1>6. NumbersGrow
  BY <1>1, <1>5, NumbersStay
<1>7. \A m \in Enclaves : \A t \in tasks'[m] :
          t \in tasks[m] \/ t.stage # "put" \/ Given(t.box.contents)
  BY <1>2, <1>4
<1> QED BY <1>1, <1>6, <1>7, QuietLedger

\* Steps that leave requests, stores and responses alone.
LEMMA IdleLedger ==
    ASSUME TypeOK, TypeOK', LedgerInv, Record,
           UNCHANGED <<storage, request_counter, pending, tasks>>,
           \A m \in Enclaves : inbox'[m] \subseteq inbox[m]
    PROVE  LedgerInv' /\ UNCHANGED <<storage, sent>>
<1>1. \A m \in Enclaves : Unspent(m)' = Unspent(m)
  BY DEF Unspent, Draws
<1>2. NumbersGrow
  BY <1>1, NumbersStay
<1> QED BY <1>2, QuietLedger

\* The stores of the ledger.
LEMMA RegistersType == TypeOK => storage \in [Enclaves -> Ledger!Registers]
BY DEF TypeOK, Store, Ledger!Registers

\* A finalizer's numbers: one that is done draws no more, and one that goes on
\* to generate comes from the policy check.
LEMMA TaskNumbers ==
    ASSUME TypeOK, NEW n \in Enclaves, NEW task \in tasks[n],
           UNCHANGED <<request_counter, pending>>,
           \/ Advance(n, task, "check")
           \/ Advance(n, task, "generate") /\ task.stage = "policy"
           \/ \E result \in Answered : Finish(n, task, result)
    PROVE  /\ NumbersGrow
           /\ \A m \in Enclaves : \A t \in tasks'[m] : t \in tasks[m] \/ t.stage # "put"
           /\ \A t \in tasks'[n] :
                  (t \in tasks[n] /\ t # task) \/ t.stage \in {"generate", "check"}
<1>1. CASE \E result \in Answered : Finish(n, task, result)
  <2>1. \A m \in Enclaves : tasks'[m] = IF m = n THEN tasks[n] \ {task} ELSE tasks[m]
    BY <1>1, FinishEffect
  <2>2. \A m \in Enclaves : Unspent(m)' \subseteq Unspent(m)
    BY <2>1 DEF Unspent, Draws
  <2> QED BY <2>1, <2>2, NumbersStay
<1>2. ASSUME NEW stage \in {"generate", "check"}, Advance(n, task, stage),
             stage = "generate" => task.stage = "policy"
      PROVE  /\ NumbersGrow
             /\ \A m \in Enclaves : \A t \in tasks'[m] : t \in tasks[m] \/ t.stage # "put"
             /\ \A t \in tasks'[n] :
                    (t \in tasks[n] /\ t # task) \/ t.stage \in {"generate", "check"}
  <2>1. PICK new : /\ tasks'[n] = (tasks[n] \ {task}) \cup {new}
                   /\ new.id = task.id /\ new.stage = stage
    BY <1>2, AdvanceEffect
  <2>2. \A m \in Enclaves : m # n => tasks'[m] = tasks[m]
    BY <1>2, AdvanceEffect
  <2>3. ASSUME NEW m \in Enclaves PROVE Unspent(m)' \subseteq Unspent(m)
    <3>1. CASE m = n
      <4>1. Draws(new) => Draws(task)
        BY <1>2, <2>1 DEF Draws
      <4>2. \A t \in tasks'[m] : Draws(t) =>
                \E u \in tasks[m] : u.id = t.id /\ Draws(u)
        BY <2>1, <3>1, <4>1
      <4> QED BY <4>2 DEF Unspent, Draws
    <3>2. CASE m # n
      BY <2>2, <3>2 DEF Unspent, Draws
    <3> QED BY <3>1, <3>2
  <2>4. NumbersGrow
    BY <2>3, NumbersStay
  <2> QED BY <1>2, <2>1, <2>2, <2>4
<1> QED BY <1>1, <1>2

\* A step of a finalizer gossips nothing.
LEMMA TaskGossip ==
    ASSUME TypeOK, Forever, LedgerInv, Record, NEW n \in Enclaves, NEW task \in tasks[n],
           TaskStep(n, task)
    PROVE  UNCHANGED <<request_counter, pending, inbox, sent>>
<1>1. UNCHANGED <<request_counter, pending, inbox>>
  BY TaskEffect
<1>2. UNCHANGED sent
  BY <1>1, NothingCarried
<1> QED BY <1>1, <1>2

\* generate_secrets draws values nobody has a copy of: the number of the request
\* has drawn nothing yet, and no other owner of the request will.
LEMMA GenerateLedger ==
    ASSUME IInv, TypeOK', LedgerInv, Record, NEW n \in Enclaves, NEW task \in tasks[n],
           Generate(n, task)
    PROVE  LedgerInv' /\ Ledger!Draw(n)
<1>0. TypeOK /\ Forever /\ Ownership
  BY DEF IInv
<1>1. UNCHANGED <<request_counter, pending, inbox, sent>>
  BY <1>0, TaskGossip DEF TaskStep
<1>2. PICK G \in SUBSET (Generable(authorizations[n], Key(n), task.requests, now)
                            \ Ids(storage[n])) :
          storage' = [storage EXCEPT ![n] = Inserted(@, G, <<Key(n), task.id>>, now)]
  BY DEF Generate
<1>3. /\ Advance(n, task, "check") \/ Finish(n, task, "failed")
      /\ task.stage = "generate"
  BY DEF Generate
<1>4. "failed" \in Answered
  BY DEF Answered
<1>5. /\ NumbersGrow
      /\ \A m \in Enclaves : \A t \in tasks'[m] : t \in tasks[m] \/ t.stage # "put"
  BY <1>0, <1>1, <1>3, <1>4, TaskNumbers
<1>6. ASSUME NEW s \in SecretIds
      PROVE  \/ storage'[n][s] = storage[n][s]
             \/ /\ storage[n][s] = Absent
                /\ storage'[n][s].data = <<Key(n), task.id>>
  BY <1>0, <1>2 DEF TypeOK, Inserted, Ids
<1>7. \A m \in Enclaves \ {n} : storage'[m] = storage[m]
  BY <1>0, <1>2 DEF TypeOK
<1>8. task.id \in Unspent(n)
  BY <1>3 DEF Unspent, Draws
<1>9. task.id \notin Unspent(n)'
  <2>1. \A p \in pending'[n] : p.id # task.id
    BY <1>0, <1>1 DEF Ownership
  <2>2. \A t \in tasks'[n] : t.stage = "check" \/ t.id # task.id
    <3>1. CASE Finish(n, task, "failed")
      <4>1. tasks'[n] = tasks[n] \ {task}
        BY <1>0, <1>4, <3>1, FinishEffect
      <4> QED BY <1>0, <4>1 DEF Ownership
    <3>2. CASE Advance(n, task, "check")
      <4>1. PICK new : tasks'[n] = (tasks[n] \ {task}) \cup {new} /\ new.stage = "check"
        BY <1>0, <3>2, AdvanceEffect
      <4> QED BY <1>0, <4>1 DEF Ownership
    <3> QED BY <1>3, <3>1, <3>2
  <2> QED BY <2>1, <2>2 DEF Unspent, Draws
<1>10. Spent(<<Key(n), task.id>>)'
  <2>1. task.id <= request_counter'[n]
    BY <1>0, <1>1 DEF Ownership, Published
  <2>2. \A m \in Enclaves : Key(m) = Key(n) => m = n
    BY DEF Key
  <2> QED BY <1>9, <2>1, <2>2 DEF Spent
<1>11. ASSUME NEW s \in SecretIds, NEW v \in Copies(s)' \ {Absent}
       PROVE  v \in Copies(s) \/ Spent(v.data)'
  <2>1. CASE v \in sent'[s]
    BY <1>1, <2>1 DEF Copies
  <2>2. ASSUME NEW m \in Enclaves, v = storage'[m][s]
       PROVE  v \in Copies(s) \/ Spent(v.data)'
    BY <1>6, <1>7, <1>10, <2>2 DEF Copies
  <2> QED BY <1>11, <2>1, <2>2 DEF Copies
<1>12. LedgerInv'
  <2>1. sent' \in [SecretIds -> SUBSET StoredSecret]
    BY <1>1 DEF LedgerInv
  <2> QED BY <1>0, <1>1, <1>5, <1>11, <2>1, LedgerInvKept
<1>13. ASSUME NEW s \in SecretIds, NEW v \in Ledger!Known(s) \ {Absent}
       PROVE  v.data # <<Key(n), task.id>>
  <2>1. Spent(v.data)
    BY <1>13 DEF LedgerInv, Copies, Ledger!Known
  <2> QED BY <1>8, <2>1 DEF Spent
<1>14. storage' \in [Enclaves -> Ledger!Registers]
  BY RegistersType DEF TypeOK, Store, Ledger!Registers
<1> QED
  BY <1>1, <1>6, <1>7, <1>12, <1>13, <1>14
     DEF Ledger!Draw, Ledger!Touches, Ledger!Kept

\* put_secrets takes over values that some enclave gave out, where they are
\* newer.
LEMMA PutLedger ==
    ASSUME IInv, TypeOK', LedgerInv, Record, NEW n \in Enclaves, NEW task \in tasks[n],
           Put(n, task)
    PROVE  LedgerInv' /\ Ledger!Adopt(n)
<1>0. TypeOK /\ Forever /\ Ownership
  BY DEF IInv
<1>1. UNCHANGED <<request_counter, pending, inbox, sent>>
  BY <1>0, TaskGossip DEF TaskStep
<1>2. /\ Advance(n, task, "check") \/ Finish(n, task, "failed")
      /\ task.stage = "put"
  BY DEF Put
<1>3. "failed" \in Answered
  BY DEF Answered
<1>4. /\ NumbersGrow
      /\ \A m \in Enclaves : \A t \in tasks'[m] : t \in tasks[m] \/ t.stage # "put"
  BY <1>0, <1>1, <1>2, <1>3, TaskNumbers
<1>5. Given(task.box.contents)
  BY <1>2 DEF LedgerInv
<1>6. \/ UNCHANGED storage
      \/ storage' = [storage EXCEPT ![n] = Merged(storage[n], task.box.contents, now)]
  BY DEF Put
<1>7. \A m \in Enclaves \ {n} : storage'[m] = storage[m]
  BY <1>0, <1>6 DEF TypeOK
<1>8. ASSUME NEW s \in SecretIds
      PROVE  \/ storage'[n][s] = storage[n][s]
             \/ /\ Replaces(storage[n][s], task.box.contents[s], now)
                /\ storage'[n][s] = task.box.contents[s]
  BY <1>0, <1>6 DEF TypeOK, Merged
<1>9. ASSUME NEW s \in SecretIds
      PROVE  \/ storage'[n][s] = storage[n][s]
             \/ /\ storage'[n][s] \in sent[s]
                /\ storage[n][s] # Absent =>
                       storage'[n][s].generation_timestamp
                           > storage[n][s].generation_timestamp
  BY <1>5, <1>8 DEF Given, Replaces, Live
<1>10. ASSUME NEW s \in SecretIds, NEW v \in Copies(s)' PROVE v \in Copies(s)
  <2>1. CASE v \in sent'[s]
    BY <1>1, <2>1 DEF Copies
  <2>2. ASSUME NEW m \in Enclaves, v = storage'[m][s] PROVE v \in Copies(s)
    BY <1>7, <1>9, <2>2 DEF Copies
  <2> QED BY <1>10, <2>1, <2>2 DEF Copies
<1>11. LedgerInv'
  <2>1. sent' \in [SecretIds -> SUBSET StoredSecret]
    BY <1>1 DEF LedgerInv
  <2> QED BY <1>0, <1>1, <1>4, <1>10, <2>1, LedgerInvKept
<1>12. storage' \in [Enclaves -> Ledger!Registers]
  BY DEF TypeOK, Store, Ledger!Registers
<1> QED
  BY <1>1, <1>7, <1>9, <1>11, <1>12 DEF Ledger!Adopt, Ledger!Touches, Ledger!Kept

\* The other steps of a finalizer leave the stores alone.
LEMMA OtherTaskLedger ==
    ASSUME IInv, TypeOK', LedgerInv, Record, NEW n \in Enclaves, NEW task \in tasks[n],
           SelfAuthorize(n, task) \/ check_and_respond(n, task) \/ EnclaveFails(n, task)
    PROVE  LedgerInv' /\ UNCHANGED <<storage, sent>>
<1>0. TypeOK /\ Forever
  BY DEF IInv
<1>1. UNCHANGED <<request_counter, pending, inbox, sent>>
  BY <1>0, TaskGossip DEF TaskStep
<1>2. "failed" \in Answered /\ "ok" \in Answered
  BY DEF Answered
<1>3. \/ Advance(n, task, "generate") /\ task.stage = "policy"
      \/ \E result \in Answered : Finish(n, task, result)
  BY <1>2 DEF SelfAuthorize, check_and_respond, EnclaveFails
<1>4. UNCHANGED storage
  BY DEF SelfAuthorize, check_and_respond, EnclaveFails, enclaves
<1>5. /\ NumbersGrow
      /\ \A m \in Enclaves : \A t \in tasks'[m] : t \in tasks[m] \/ t.stage # "put"
  BY <1>0, <1>1, <1>3, TaskNumbers
<1> QED BY <1>0, <1>1, <1>4, <1>5, QuietLedger

\* A response gives out what the enclave stores.
LEMMA SendLedger ==
    ASSUME TypeOK, TypeOK', LedgerInv, Record, NEW n \in Enclaves, SendResponse(n)
    PROVE  LedgerInv' /\ (Ledger!Give(n) \/ UNCHANGED <<storage, sent>>)
<1>1. UNCHANGED <<storage, request_counter, pending, tasks>>
  BY DEF SendResponse, enclaves
<1>2. CASE UNCHANGED inbox
  BY <1>1, <1>2, IdleLedger
<1>3. CASE ~UNCHANGED inbox
  <2>1. PICK packed : packed = Packed(storage[n], authorizations[n], serving[n].requester,
                                      serving[n].requests, now, now)
    OBVIOUS
  <2>2. PICK box : box = [sender |-> Key(n), recipient |-> serving[n].requester,
                          contents |-> packed]
    OBVIOUS
  <2>3. PICK new : new = [type |-> "response", id |-> serving[n].id,
                          responder |-> Key(n), box |-> box]
    OBVIOUS
  <2>4. new.type = "response" /\ new.box = box /\ box.contents = packed
    BY <2>2, <2>3
  <2>5. Gossip(n, new)
    BY <1>3, <2>1, <2>2, <2>3 DEF SendResponse
  <2>6. \A m \in Enclaves : inbox'[m] \subseteq inbox[m] \cup {new}
    BY <2>5 DEF Gossip
  <2>7. Gossiped \subseteq {new}
    BY <2>6 DEF Gossiped
  <2>8. \A s \in SecretIds : packed[s] # Absent => packed[s] = storage[n][s]
    BY <2>1 DEF Packed
  <2>9. CASE Gossiped = {}
    <3>1. \A m \in Enclaves : \A message \in inbox'[m] :
              message \in inbox[m] \/ message.type # "response"
      BY <2>9 DEF Gossiped
    <3>2. \A m \in Enclaves : Unspent(m)' = Unspent(m)
      BY <1>1 DEF Unspent, Draws
    <3>3. NumbersGrow
      BY <1>1, <3>2, NumbersStay
    <3> QED BY <1>1, <3>1, <3>3, QuietLedger
  <2>10. CASE Gossiped # {}
    <3>1. Gossiped = {new}
      BY <2>7, <2>10
    <3>2. \A s \in SecretIds : Carried(s) = {packed[s]} \ {Absent}
      BY <2>4, <3>1 DEF Carried
    <3> DEFINE S == {s \in SecretIds : packed[s] # Absent}
    <3>3. S \in SUBSET {s \in SecretIds : storage[n][s] # Absent}
      BY <2>8
    <3>4. \A s \in SecretIds : Carried(s) = IF s \in S THEN {storage[n][s]} ELSE {}
      BY <2>8, <3>2
    <3>5. sent' = [s \in SecretIds |->
                      sent[s] \cup (IF s \in S THEN {storage[n][s]} ELSE {})]
      BY <3>4 DEF Record
    <3>6. Ledger!Give(n)
      BY <1>1, <3>3, <3>5 DEF Ledger!Give
    <3>7. \A s \in SecretIds : packed[s] # Absent => packed[s] \in sent'[s]
      BY <2>8, <3>5
    <3>8. sent' \in [SecretIds -> SUBSET StoredSecret]
      <4>1. \A s \in SecretIds : storage[n][s] \in StoredSecret \cup {Absent}
        BY DEF TypeOK, Store
      <4>2. \A s \in S : s \in SecretIds /\ storage[n][s] \in StoredSecret
        BY <3>3, <4>1
      <4> HIDE DEF S
      <4>3. sent \in [SecretIds -> SUBSET StoredSecret]
        BY DEF LedgerInv
      <4> QED BY <3>5, <4>2, <4>3
    <3>9. \A s \in SecretIds : sent[s] \subseteq sent'[s]
      BY <3>5
    <3>10. ASSUME NEW s \in SecretIds, NEW v \in Copies(s)' PROVE v \in Copies(s)
      BY <1>1, <3>3, <3>5 DEF Copies
    <3>11. \A m \in Enclaves : \A message \in inbox'[m] :
               message \in inbox[m] \/ Given(message.box.contents)'
      BY <2>4, <2>6, <3>7 DEF Given
    <3>12. NumbersGrow
      <4>1. \A m \in Enclaves : Unspent(m)' = Unspent(m)
        BY <1>1 DEF Unspent, Draws
      <4> QED BY <1>1, <4>1, NumbersStay
    <3>13. LedgerInv'
      BY <1>1, <3>8, <3>9, <3>10, <3>11, <3>12, LedgerInvKept
    <3> QED BY <3>6, <3>13
  <2> QED BY <2>9, <2>10
<1> QED BY <1>2, <1>3

\* Every step keeps the invariant, and is a step of the ledger or leaves the
\* ledger alone.
LEMMA StepLedger ==
    IInv /\ TypeOK' /\ LedgerInv /\ [HistoryNext]_history
        => LedgerInv' /\ [Ledger!Next]_(Ledger!ledger)
<1> SUFFICES ASSUME IInv, TypeOK', LedgerInv, [HistoryNext]_history
             PROVE  LedgerInv' /\ [Ledger!Next]_(Ledger!ledger)
  OBVIOUS
<1>0. TypeOK /\ Forever
  BY DEF IInv
<1>1. UNCHANGED <<storage, sent>> => [Ledger!Next]_(Ledger!ledger)
  BY DEF Ledger!ledger
<1>2. CASE UNCHANGED history
  <2>1. UNCHANGED <<storage, sent, inbox, tasks, pending, request_counter>>
    BY <1>2 DEF history, vars
  <2>2. LedgerInv'
    BY <2>1 DEF LedgerInv, Copies, Spent, Unspent, Given, Draws
  <2> QED BY <1>1, <2>1, <2>2
<1>3. CASE HistoryNext
  <2>0. Next /\ Record
    BY <1>3 DEF HistoryNext
  <2>1. CASE Tick \/ \E c \in Callers : CheckLocal(c) \/ SelfPolicy(c)
    <3>1. UNCHANGED <<storage, request_counter, pending, tasks, inbox>>
      BY <2>1 DEF Tick, CheckLocal, SelfPolicy, enclaves
    <3> QED BY <1>0, <1>1, <2>0, <3>1, IdleLedger
  <2>2. ASSUME NEW c \in Callers, Publish(c)
        PROVE  LedgerInv' /\ [Ledger!Next]_(Ledger!ledger)
    BY <1>0, <1>1, <2>0, <2>2, PublishLedger
  <2>3. ASSUME NEW n \in Enclaves,
               StopNetwork(n) \/ \E message \in inbox[n] : HandleRequest(n, message)
        PROVE  LedgerInv' /\ [Ledger!Next]_(Ledger!ledger)
    <3>1. UNCHANGED <<storage, request_counter, pending, tasks>>
      BY <2>3 DEF StopNetwork, HandleRequest, enclaves
    <3>2. \A m \in Enclaves : inbox'[m] \subseteq inbox[m]
      BY <1>0, <2>3, ReceiveType DEF StopNetwork, HandleRequest
    <3> QED BY <1>0, <1>1, <2>0, <3>1, <3>2, IdleLedger
  <2>4. ASSUME NEW n \in Enclaves, NEW id, Timeout(n, id)
        PROVE  LedgerInv' /\ [Ledger!Next]_(Ledger!ledger)
    BY <1>0, <1>1, <2>0, <2>4, TimeoutLedger
  <2>5. ASSUME NEW n \in Enclaves, NEW message \in inbox[n], HandleResponse(n, message)
        PROVE  LedgerInv' /\ [Ledger!Next]_(Ledger!ledger)
    BY <1>0, <1>1, <2>0, <2>5, ResponseLedger
  <2>6. ASSUME NEW n \in Enclaves, SendResponse(n)
        PROVE  LedgerInv' /\ [Ledger!Next]_(Ledger!ledger)
    BY <1>0, <1>1, <2>0, <2>6, SendLedger DEF Ledger!Next
  <2>7. ASSUME NEW n \in Enclaves, NEW task \in tasks[n], Generate(n, task)
        PROVE  LedgerInv' /\ [Ledger!Next]_(Ledger!ledger)
    BY <2>0, <2>7, GenerateLedger DEF Ledger!Next
  <2>8. ASSUME NEW n \in Enclaves, NEW task \in tasks[n], Put(n, task)
        PROVE  LedgerInv' /\ [Ledger!Next]_(Ledger!ledger)
    BY <2>0, <2>8, PutLedger DEF Ledger!Next
  <2>9. ASSUME NEW n \in Enclaves, NEW task \in tasks[n],
               SelfAuthorize(n, task) \/ check_and_respond(n, task) \/ EnclaveFails(n, task)
        PROVE  LedgerInv' /\ [Ledger!Next]_(Ledger!ledger)
    BY <1>1, <2>0, <2>9, OtherTaskLedger
  <2> QED
    BY <2>0, <2>1, <2>2, <2>3, <2>4, <2>5, <2>6, <2>7, <2>8, <2>9
       DEF Next, CallerStep, TaskStep
<1> QED BY <1>2, <1>3

\* The secrets that some nodes have at the start are their own.
LEMMA InitLedger == HistoryInit => LedgerInv /\ Ledger!Init
<1> SUFFICES ASSUME HistoryInit PROVE LedgerInv /\ Ledger!Init
  OBVIOUS
<1>1. IInv /\ TypeOK
  BY InitIInv DEF HistoryInit, IInv
<1>2. /\ storage = [n \in Enclaves |-> InitialStore(n)]
      /\ request_counter = [n \in Enclaves |-> 0]
      /\ \A n \in Enclaves : pending[n] = {} /\ tasks[n] = {} /\ inbox[n] = {}
      /\ sent = [s \in SecretIds |-> {}]
  BY DEF HistoryInit, Init
<1>3. ASSUME NEW n \in Enclaves, NEW s \in SecretIds, storage[n][s] # Absent
      PROVE  storage[n][s].data = <<Key(n), 0>>
  BY <1>2, <1>3 DEF InitialStore
<1>4. ASSUME NEW n \in Enclaves PROVE Spent(<<Key(n), 0>>)
  <2>1. \A m \in Enclaves : Unspent(m) = {} /\ 0 <= request_counter[m]
    BY <1>2 DEF Unspent
  <2> QED BY <2>1 DEF Spent
<1>5. LedgerInv
  <2>1. ASSUME NEW s \in SecretIds, NEW v \in Copies(s) \ {Absent} PROVE Spent(v.data)
    <3>1. sent[s] = {}
      BY <1>2
    <3>2. PICK n \in Enclaves : v = storage[n][s]
      BY <2>1, <3>1 DEF Copies
    <3> QED BY <1>3, <1>4, <2>1, <3>2
  <2>2. sent \in [SecretIds -> SUBSET StoredSecret]
    BY <1>2
  <2> QED BY <1>2, <2>1, <2>2 DEF LedgerInv
<1>6. storage \in [Enclaves -> Ledger!Registers]
  BY <1>1, RegistersType
<1>7. \A m, n \in Enclaves : <<Key(m), 0>> = <<Key(n), 0>> => m = n
  BY DEF Key
<1> QED BY <1>2, <1>3, <1>5, <1>6, <1>7 DEF Ledger!Init

\* With whatever callers, timeouts, peers and the network do, for any number of
\* nodes, calls and secrets: the enclaves implement the ledger of secrets.
THEOREM SharingImplementsLedger == HistorySpec => NodesImplementLedger
<1>1. HistoryInit => IInv /\ LedgerInv /\ Ledger!Init
  BY InitIInv, InitLedger DEF HistoryInit
<1>2. IInv /\ LedgerInv /\ [HistoryNext]_history =>
          IInv' /\ LedgerInv' /\ [Ledger!Next]_(Ledger!ledger)
  <2> SUFFICES ASSUME IInv, LedgerInv, [HistoryNext]_history
               PROVE  IInv' /\ LedgerInv' /\ [Ledger!Next]_(Ledger!ledger)
    OBVIOUS
  <2>1. [Next]_vars
    BY DEF HistoryNext, history
  <2>2. IInv' /\ TypeOK'
    BY <2>1, NextIInv DEF IInv
  <2> QED BY <2>2, StepLedger
<1> QED BY <1>1, <1>2, PTL DEF HistorySpec, NodesImplementLedger, Ledger!Spec
=============================================================================
