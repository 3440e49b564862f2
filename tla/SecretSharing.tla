--------------------------- MODULE SecretSharing ---------------------------
(***************************************************************************)
(* How daemons obtain secrets for their work orders: the SecretsService    *)
(* (node/daemon/src/services/secrets.rs), the gossip loop that feeds it    *)
(* (node/daemon/src/network.rs) and the enclave of each node.              *)
(*                                                                         *)
(* A caller checks its enclave, asks its peers for what is missing and     *)
(* waits.  The first policy-approved response is put into the enclave; if  *)
(* none comes before the timeout the enclave generates the secrets.  The   *)
(* caller is answered through a one-shot responder that is handed from the *)
(* pending map to exactly one finalizer.                                   *)
(*                                                                         *)
(* One enclave RPC is one step here (EnclaveSecrets has the finer grain).  *)
(* The daemons run the code, so the list of ids beside a box names what is *)
(* in it (EnclaveSecrets lets daemons pass any list).                      *)
(* handle_incoming_secret_batch_response keeps the pending map locked over *)
(* its policy checks, so it is one step; the request handler is two, with  *)
(* the network loop of the node busy in between.  Messages may be delayed, *)
(* reordered or lost (never delivered); gossipsub suppresses duplicates.   *)
(* Policies are arbitrary programs run in a VM that may fail: verdicts are *)
(* chosen nondeterministically.                                            *)
(***************************************************************************)
EXTENDS SecretStore, FiniteSets

CONSTANTS Callers,      \* calls of get_secrets
          CallerNode,   \* CallerNode[c]: the node c runs on
          CallerNeeds,  \* CallerNeeds[c]: each needed id with its consumer
          Holders,      \* nodes that have all secrets from the start
          MaxTime       \* bound: the clock stops here

Requests == UNION {[S -> Consumers] : S \in (SUBSET SecretIds) \ {{}}}

ASSUME SharingAssumption ==
    /\ SecretIds \subseteq Nat    \* the order of the BTreeMap keys
    /\ CallerNode \in [Callers -> Enclaves]
    /\ CallerNeeds \in [Callers -> Requests]
    /\ Holders \subseteq Enclaves
    /\ MaxTime \in Nat

VARIABLES
    now,             \* wall-clock time
    storage,         \* storage[n]: secrets_storage of n's enclave
    authorizations,  \* authorizations[n]: its authorization table
    online,          \* online[n]: n's network loop runs
    request_counter, \* request_counter[n]
    pending,         \* pending[n]: requests waiting for responses
    timers,          \* timers[n]: ids whose timeout task still sleeps
    tasks,           \* tasks[n]: finalizers that have taken a request over
    serving,         \* serving[n]: the peer request n's loop is busy with
    inbox,           \* inbox[n]: gossip messages n has not received
    caller           \* caller[c]: progress of the call

vars == <<now, storage, authorizations, online, request_counter, pending,
          timers, tasks, serving, inbox, caller>>

enclaves == <<now, storage, authorizations>>

Key(n) == <<n, 0>>

Idle == [id |-> 0]

Serving == [id : Nat \ {0}, requester : Keys, requests : Requests]

PendingRequest == [id : Nat \ {0}, caller : Callers, requests : Requests]

GenerateTask == [stage : {"policy", "generate", "check"}, id : Nat \ {0},
                 caller : Callers, requests : Requests]

PutTask == [stage : {"put"}, id : Nat \ {0}, caller : Callers,
            requests : Requests, box : SecretsBox, attestedKey : Keys]

RequestMessage == [type : {"request"}, id : Nat \ {0}, requests : Requests, requester : Keys]

ResponseMessage == [type : {"response"}, id : Nat \ {0}, box : SecretsBox, responder : Keys]

Status == {"idle", "policy", "publish", "waiting",   \* under way
           "ok", "denied", "unsent", "failed"}       \* answered

Answered == {"ok", "denied", "unsent", "failed"}

-----------------------------------------------------------------------------
InitialStore(n) ==
    [s \in SecretIds |->
        IF n \in Holders
        THEN [data |-> <<Key(n), 0>>, expiry |-> 0, generation_timestamp |-> 0]
        ELSE Absent]

Init ==
    /\ now = 0
    /\ storage = [n \in Enclaves |-> InitialStore(n)]
    /\ authorizations = [n \in Enclaves |-> NoAuthorizations]
    /\ online = [n \in Enclaves |-> TRUE]
    /\ request_counter = [n \in Enclaves |-> 0]
    /\ pending = [n \in Enclaves |-> {}]
    /\ timers = [n \in Enclaves |-> {}]
    /\ tasks = [n \in Enclaves |-> {}]
    /\ serving = [n \in Enclaves |-> Idle]
    /\ inbox = [n \in Enclaves |-> {}]
    /\ caller = [c \in Callers |-> [status |-> "idle", missing |-> CallerNeeds[c]]]

Restricted(requests, S) == [s \in S |-> requests[s]]

\* check_policy_for_env approved the ids in A for the environment with key k:
\* n's enclave stores the authorizations.
Approve(n, k, requests, A) ==
    authorizations' = [authorizations EXCEPT ![n] =
        [a \in AuthorizationId |->
            IF a[1] = k /\ a[2] \in A /\ requests[a[2]] = a[3]
            THEN now + AuthTTL ELSE @[a]]]

Gossip(n, message) ==
    inbox' = [m \in Enclaves |->
                 IF m = n THEN inbox[m] ELSE inbox[m] \cup {message}]

\* The responder is consumed; its receiver is gone if publishing failed.
Answer(c, result) ==
    caller' = IF caller[c].status = "waiting"
              THEN [caller EXCEPT ![c].status = result] ELSE caller

Tick ==
    /\ now < MaxTime
    /\ now' = now + 1
    /\ UNCHANGED <<storage, authorizations, online, request_counter, pending,
                   timers, tasks, serving, inbox, caller>>

\* The shutdown signal ends the network loop; other tasks run on.
StopNetwork(n) ==
    /\ online[n] /\ serving[n] = Idle
    /\ online' = [online EXCEPT ![n] = FALSE]
    /\ UNCHANGED <<enclaves, request_counter, pending, timers, tasks, serving,
                   inbox, caller>>

-----------------------------------------------------------------------------
(* get_secrets                                                             *)

\* check_local: nothing missing means success at once, a failing check_secrets
\* ends the call.
CheckLocal(c) ==
    LET needs == CallerNeeds[c]
        missing == DOMAIN needs \ check_secrets(storage[CallerNode[c]], now)
    IN  /\ caller[c].status = "idle"
        /\ \/ caller' = [caller EXCEPT ![c] =
                  IF missing = {}
                  THEN [status |-> "ok", missing |-> needs]
                  ELSE [status |-> "policy", missing |-> Restricted(needs, missing)]]
           \/ caller' = [caller EXCEPT ![c].status = "failed"]
        /\ UNCHANGED <<enclaves, online, request_counter, pending, timers, tasks,
                       serving, inbox>>

\* The policies are run one after the other for the node itself; the first
\* that does not approve ends the call.
SelfPolicy(c) ==
    /\ caller[c].status = "policy"
    /\ \E A \in SUBSET DOMAIN caller[c].missing :
           /\ Approve(CallerNode[c], Key(CallerNode[c]), caller[c].missing, A)
           /\ caller' = [caller EXCEPT ![c].status =
                  IF A = DOMAIN caller[c].missing THEN "publish" ELSE "denied"]
    /\ UNCHANGED <<now, storage, online, request_counter, pending, timers, tasks,
                   serving, inbox>>

\* The request becomes pending and its timeout task starts before publishing
\* is tried, which fails once the network loop has ended.  (It cannot fail
\* because the channel is full: every publication sends through a new clone
\* of the sender, for which a futures channel keeps a slot.)
Publish(c) ==
    LET n == CallerNode[c]
        id == request_counter[n] + 1
        missing == caller[c].missing
    IN  /\ caller[c].status = "publish"
        /\ request_counter' = [request_counter EXCEPT ![n] = id]
        /\ pending' = [pending EXCEPT ![n] = @ \cup
               {[id |-> id, caller |-> c, requests |-> missing]}]
        /\ timers' = [timers EXCEPT ![n] = @ \cup {id}]
        /\ IF online[n]
           THEN /\ Gossip(n, [type |-> "request", id |-> id, requests |-> missing,
                               requester |-> Key(n)])
                /\ caller' = [caller EXCEPT ![c].status = "waiting"]
           ELSE /\ caller' = [caller EXCEPT ![c].status = "unsent"]
                /\ UNCHANGED inbox
        /\ UNCHANGED <<enclaves, online, tasks, serving>>

\* Mutant: the timeout task gives up while the network is down.
TimeoutWhileOnline(n, id) ==
    LET waiting == {p \in pending[n] : p.id = id}
    IN  /\ online[n]
        /\ timers' = [timers EXCEPT ![n] = @ \ {id}]
        /\ pending' = [pending EXCEPT ![n] = @ \ waiting]
        /\ tasks' = [tasks EXCEPT ![n] = @ \cup
               {[stage |-> "policy", id |-> id, caller |-> p.caller,
                 requests |-> p.requests] : p \in waiting}]
        /\ UNCHANGED <<enclaves, online, request_counter, serving, inbox, caller>>

\* The timeout task of request id wakes up.
Timeout(n, id) ==
    LET waiting == {p \in pending[n] : p.id = id}
    IN  /\ timers' = [timers EXCEPT ![n] = @ \ {id}]
        /\ pending' = [pending EXCEPT ![n] = @ \ waiting]
        /\ tasks' = [tasks EXCEPT ![n] = @ \cup
               {[stage |-> "policy", id |-> id, caller |-> p.caller,
                 requests |-> p.requests] : p \in waiting}]
        /\ UNCHANGED <<enclaves, online, request_counter, serving, inbox, caller>>

-----------------------------------------------------------------------------
(* The network loop: peers' requests and responses                         *)

Receive(n, message) ==
    /\ online[n] /\ serving[n] = Idle
    /\ inbox' = [inbox EXCEPT ![n] = @ \ {message}]

\* What the own enclave has of the requested secrets.
gather_local(n, requests) == DOMAIN requests \cap check_secrets(storage[n], now)

\* The policy checks of a peer's request; nothing is sent if no secret is found
\* (or the enclave cannot be asked) or none is approved.
HandleRequest(n, message) ==
    /\ message.type = "request"
    /\ Receive(n, message)
    /\ \E A \in SUBSET gather_local(n, message.requests) :
           /\ Approve(n, message.requester, message.requests, A)
           /\ serving' = [serving EXCEPT ![n] =
                  IF A = {} THEN Idle
                  ELSE [id |-> message.id, requester |-> message.requester,
                        requests |-> Restricted(message.requests, A)]]
    /\ UNCHANGED <<now, storage, online, request_counter, pending, timers,
                   tasks, caller>>

\* The enclave packs what is still live and authorized, possibly nothing; if
\* its get_secrets fails, nothing is sent.
SendResponse(n) ==
    /\ serving[n] # Idle
    /\ \/ Gossip(n, [type |-> "response", id |-> serving[n].id,
                     responder |-> Key(n),
                     box |-> [sender |-> Key(n), recipient |-> serving[n].requester,
                              contents |-> Packed(storage[n], authorizations[n],
                                                  serving[n].requester,
                                                  serving[n].requests, now, now)]])
       \/ UNCHANGED inbox
    /\ serving' = [serving EXCEPT ![n] = Idle]
    /\ UNCHANGED <<enclaves, online, request_counter, pending, timers, tasks,
                   caller>>

\* Mutant: the request stays pending when a finalizer takes it over.
HandleResponseKeepsPending(n, message) ==
    LET contained == Ids(message.box.contents)
        waiting == {p \in pending[n] : p.id = message.id}
    IN  /\ message.type = "response"
        /\ Receive(n, message)
        /\ IF waiting = {}
           THEN UNCHANGED <<authorizations, tasks>>
           ELSE \E p \in waiting, A \in SUBSET contained :
                   /\ A \subseteq DOMAIN p.requests
                   /\ Approve(n, message.responder, p.requests, A)
                   /\ tasks' = IF A # contained THEN tasks
                               ELSE [tasks EXCEPT ![n] = @ \cup
                                  {[stage |-> "put", id |-> p.id,
                                    caller |-> p.caller, requests |-> p.requests,
                                    box |-> message.box,
                                    attestedKey |-> message.responder]}]
        /\ UNCHANGED <<now, storage, online, request_counter, pending, timers,
                       serving, caller>>

\* A response is looked up by request id alone.  Every contained id must have
\* been requested and be approved for the responder, or the response is
\* ignored; a valid one meets the threshold and moves the request from the
\* pending map to a finalizer.
HandleResponse(n, message) ==
    LET contained == Ids(message.box.contents)
        waiting == {p \in pending[n] : p.id = message.id}
    IN  /\ message.type = "response"
        /\ Receive(n, message)
        /\ IF waiting = {}
           THEN UNCHANGED <<authorizations, pending, tasks>>
           ELSE \E p \in waiting, A \in SUBSET contained :
                   /\ A \subseteq DOMAIN p.requests
                   /\ Approve(n, message.responder, p.requests, A)
                   /\ IF A = contained
                      THEN /\ pending' = [pending EXCEPT ![n] = @ \ {p}]
                           /\ tasks' = [tasks EXCEPT ![n] = @ \cup
                                  {[stage |-> "put", id |-> p.id,
                                    caller |-> p.caller, requests |-> p.requests,
                                    box |-> message.box,
                                    attestedKey |-> message.responder]}]
                      ELSE UNCHANGED <<pending, tasks>>
        /\ UNCHANGED <<now, storage, online, request_counter, timers, serving,
                       caller>>

-----------------------------------------------------------------------------
(* The finalizers                                                          *)

Advance(n, task, stage) ==
    tasks' = [tasks EXCEPT ![n] = (@ \ {task}) \cup
        {[stage |-> stage, id |-> task.id, caller |-> task.caller,
          requests |-> task.requests]}]

Finish(n, task, result) ==
    /\ tasks' = [tasks EXCEPT ![n] = @ \ {task}]
    /\ Answer(task.caller, result)

\* generate_secrets_flow asks the policies again.  A denial is skipped over,
\* an error ends the request.
SelfAuthorize(n, task) ==
    /\ task.stage = "policy"
    /\ \E A \in SUBSET DOMAIN task.requests :
           Approve(n, Key(n), task.requests, A)
    /\ \/ Advance(n, task, "generate") /\ UNCHANGED caller
       \/ Finish(n, task, "failed")
    /\ UNCHANGED <<now, storage, online, request_counter, pending, timers, serving,
                   inbox>>

\* The enclave generates; an authorized secret that exists is an error, and
\* what was generated before it stays.
Generate(n, task) ==
    LET authorized == Generable(authorizations[n], Key(n), task.requests, now)
        fresh == authorized \ Ids(storage[n])
    IN  /\ task.stage = "generate"
        /\ \E G \in SUBSET fresh :
               /\ storage' = [storage EXCEPT ![n] =
                      Inserted(@, G, <<Key(n), task.id>>, now)]
               /\ IF authorized \subseteq G
                  THEN Advance(n, task, "check") /\ UNCHANGED caller
                  ELSE Finish(n, task, "failed")
        /\ UNCHANGED <<now, authorizations, online, request_counter, pending,
                       timers, serving, inbox>>

FirstId(S) == CHOOSE s \in S : \A x \in S : s <= x

\* finalize_request_threshold: the consumer of the first contained secret
\* stands for all; an empty box is skipped, and storing nothing is a failure.
Put(n, task) ==
    LET contained == Ids(task.box.contents)
        accepted == /\ contained # {}
                    /\ BundleAccepted(authorizations[n], Key(n), task.box,
                                      contained, task.attestedKey,
                                      task.requests[FirstId(contained)], now)
        merged == Merged(storage[n], task.box.contents, now)
    IN  /\ task.stage = "put"
        /\ storage' = IF accepted THEN [storage EXCEPT ![n] = merged] ELSE storage
        /\ IF accepted /\ merged # storage[n]
           THEN Advance(n, task, "check") /\ UNCHANGED caller
           ELSE Finish(n, task, "failed")
        /\ UNCHANGED <<now, authorizations, online, request_counter, pending,
                       timers, serving, inbox>>

\* Mutant: one available secret is taken for all.
check_and_respond_any(n, task) ==
    /\ task.stage = "check"
    /\ Finish(n, task,
              IF DOMAIN task.requests \cap check_secrets(storage[n], now) # {}
              THEN "ok" ELSE "failed")
    /\ UNCHANGED <<enclaves, online, request_counter, pending, timers, serving,
                   inbox>>

\* The enclave is asked once more: success only if every requested secret is
\* there and live.
check_and_respond(n, task) ==
    /\ task.stage = "check"
    /\ Finish(n, task,
              IF DOMAIN task.requests \subseteq check_secrets(storage[n], now)
              THEN "ok" ELSE "failed")
    /\ UNCHANGED <<enclaves, online, request_counter, pending, timers, serving,
                   inbox>>

\* A call of the enclave fails; the finalizer passes the error on.
EnclaveFails(n, task) ==
    /\ task.stage # "policy"
    /\ Finish(n, task, "failed")
    /\ UNCHANGED <<enclaves, online, request_counter, pending, timers, serving,
                   inbox>>

-----------------------------------------------------------------------------
CallerStep(c) == CheckLocal(c) \/ SelfPolicy(c) \/ Publish(c)

TaskStep(n, task) ==
    \/ SelfAuthorize(n, task)
    \/ Generate(n, task)
    \/ Put(n, task)
    \/ check_and_respond(n, task)
    \/ EnclaveFails(n, task)

Next ==
    \/ Tick
    \/ \E c \in Callers : CallerStep(c)
    \/ \E n \in Enclaves :
           \/ StopNetwork(n)
           \/ \E id \in timers[n] : Timeout(n, id)
           \/ \E message \in inbox[n] :
                  HandleRequest(n, message) \/ HandleResponse(n, message)
           \/ SendResponse(n)
           \/ \E task \in tasks[n] : TaskStep(n, task)

\* Spawned tasks, timers and enclave calls make progress (the runtime polls
\* every ready task; RPCs and policy runs return).  Nothing is assumed of the
\* network, nor that anyone calls get_secrets.
Fairness ==
    /\ \A c \in Callers : WF_vars(SelfPolicy(c) \/ Publish(c))
    /\ \A n \in Enclaves :
           /\ WF_vars(\E id \in timers[n] : Timeout(n, id))
           /\ WF_vars(\E task \in tasks[n] : TaskStep(n, task))

Spec == Init /\ [][Next]_vars /\ Fairness

-----------------------------------------------------------------------------
\* Type invariant.
TypeOK ==
    /\ now \in 0 .. MaxTime
    /\ storage \in [Enclaves -> Store]
    /\ authorizations \in [Enclaves -> Authorizations]
    /\ online \in [Enclaves -> BOOLEAN]
    /\ request_counter \in [Enclaves -> Nat]
    /\ pending \in [Enclaves -> SUBSET PendingRequest]
    /\ timers \in [Enclaves -> SUBSET (Nat \ {0})]
    /\ tasks \in [Enclaves -> SUBSET (GenerateTask \cup PutTask)]
    /\ serving \in [Enclaves -> Serving \cup {Idle}]
    /\ inbox \in [Enclaves -> SUBSET (RequestMessage \cup ResponseMessage)]
    /\ caller \in [Callers -> [status : Status, missing : Requests]]

\* The holders of request id on node n: the pending map or a finalizer.
Owners(n, id) ==
    {p \in pending[n] : p.id = id} \cup {t \in tasks[n] : t.id = id}

\* A timeout and a response that race for a request never both take it: the
\* responder is in at most one place, and in the pending map only while the
\* timeout task that will take it sleeps.  A waiting caller's responder has
\* not been dropped.
OneOwner ==
    /\ TypeOK
    /\ \A n \in Enclaves, id \in 1 .. Cardinality(Callers) :
           \A x, y \in Owners(n, id) : x = y
    /\ \A n \in Enclaves : \A p \in pending[n] : p.id \in timers[n]
    /\ \A c \in Callers : caller[c].status = "waiting" =>
           \E id \in 1 .. request_counter[CallerNode[c]] :
               \E x \in Owners(CallerNode[c], id) : x.caller = c

\* get_secrets answers Ok only when every secret the call needs, whether it
\* was local at the start, received or generated, is in the node's enclave,
\* and stays there.
OkMeansAvailable ==
    \A c \in Callers : caller[c].status = "ok" =>
        DOMAIN CallerNeeds[c] \subseteq check_secrets(storage[CallerNode[c]], now)

\* Every call of get_secrets is answered, although messages may be lost, the
\* network loop may stop and responses may be invalid.
EveryCallAnswered ==
    \A c \in Callers :
        caller[c].status # "idle" ~> caller[c].status \in Answered

\* "The requester validates each response against the policy again and stores
\* accepted bundles into its own secrets enclave": a bundle that passed the
\* policy check is one the own enclave can decrypt.
AcceptedBundlesAreOurs ==
    \A n \in Enclaves : \A task \in tasks[n] :
        task.stage = "put" => task.box.recipient = Key(n)
=============================================================================
