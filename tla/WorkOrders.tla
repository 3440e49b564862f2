----------------------------- MODULE WorkOrders -----------------------------
(***************************************************************************)
(* Submission of work orders and the way of their events to the enclave:   *)
(* the start of the node (main.rs), the orchestrator                       *)
(* (services/work_order_orchestrator.rs) with the policy check of the      *)
(* runner service (services/runner.rs), the web3 listeners, requests over  *)
(* HTTP, and the two tasks of main.rs that forward scheduled events and    *)
(* send batches.                                                           *)
(*                                                                         *)
(* A submission awaits the network, policies, secrets and the enclave      *)
(* between its duplicate check and the moment it becomes active, so that   *)
(* submissions of the same order overlap.  The forwarder holds the read    *)
(* lock of active_work_orders while it waits for room in the event queue.  *)
(* The secrets service and the enclave appear as the outcomes the          *)
(* orchestrator sees; sources of bundles and policies serve what they like *)
(* at each fetch.                                                          *)
(***************************************************************************)
EXTENDS Integers, Sequences, FiniteSets, PolicyManager, Gateways

CONSTANTS Orders,       \* work orders, by the hash of their envelope
          EventsOf,     \* EventsOf[o]: the kinds of event o subscribes to
          PointerOf,    \* PointerOf[o]: where the bundle of o is
          IdentitiesOf, \* IdentitiesOf[o]: the identities o asks for, in order
          Web3Of,       \* Web3Of[o]: its web3 event
          Submissions,  \* bound: calls of submit_work_order
          OrderOf,      \* OrderOf[s]: the order that submission s carries
          Requests,     \* bound: HTTP requests to workers
          Served,       \* what sources of bundles serve
          Manifests,    \* what sources of policies serve
          Logs,         \* what gateways send
          Attachments,  \* vm_attachments
          MaxAttempts,  \* MAX_ATTEMPTS to connect to the enclave
          Capacity,     \* DAEMON_EVENT_QUEUE_CAPACITY
          BatchSize,    \* EVENT_BATCH_SIZE
          StreamSize,   \* logs that a subscription buffers for a listener
          MaxEvents,    \* bound: scheduled events and logs that occur
          MaxDrops      \* bound: log streams that end

Kinds == {"launch", "web3", "http", "scheduled"}

ASSUME WorkOrdersAssumption ==
    /\ EventsOf \in [Orders -> SUBSET Kinds]
    /\ OrderOf \in [Submissions -> Orders]
    /\ None \notin Orders
    /\ \A o \in Orders : /\ Len(IdentitiesOf[o]) \in Nat
                         /\ DOMAIN IdentitiesOf[o] = 1 .. Len(IdentitiesOf[o])
    /\ Capacity \in Nat \ {0}
    /\ BatchSize \in Nat \ {0}
    /\ StreamSize \in Nat \ {0}
    /\ MaxAttempts \in Nat \ {0}
    /\ MaxEvents \in Nat /\ MaxDrops \in Nat

Event == [order : Orders, kind : {"launch", "web3", "scheduled"}]

VARIABLES
    phase,         \* of main: "connect", "attach", "up", "shutdown" (signal sent),
                   \* "exited" (main returned) or "failed" (it panicked)
    boot,          \* attempts to connect, then VMs attached so far
    attached,      \* the VM registry
    submission,    \* submission[s]: progress of the call
    policy_worker, \* policy_worker[s]: the enclave runs a policy worker for s
    active,        \* active_work_orders
    mounts,        \* http_mounts
    request,       \* request[r]: the order whose worker the request waits for
    starts,        \* starts[o]: run_worker calls the enclave carried out
    schedules,     \* schedules[o]: schedules handed to the scheduler
    occurred,      \* number of scheduled events and logs, for the bound
    fired,         \* the scheduler's event channel, a queue of orders
    forwarder,     \* the event the forwarder waits to queue
    gateways,      \* providers of the shared gateway and of each listener's own
    listener,      \* listener[s]: the listener task that submission s started
    drops,         \* number of streams that ended, for the bound
    signalled,     \* listeners that the shutdown signal reached
    queue,         \* the daemon's event queue
    receiving,     \* the batch task runs, and with it the queue's receiver
    batch,         \* events taken from the queue
    sending,       \* the batch task awaits deliver_batch_events
    queued,        \* history: every event that entered the queue
    handed,        \* history: every event passed to deliver_batch_events
    received,      \* history: places in queued of the events the enclave got
    missed         \* history: places of those it did not get from a failed call

start == <<boot, attached>>
http == <<mounts, request>>
workers == <<starts, schedules>>
timer == <<fired, forwarder>>
web3 == <<gateways, listener, drops, signalled>>
intake == <<queue, queued>>
pipeline == <<receiving, batch, sending, handed, received, missed>>

vars == <<phase, start, submission, policy_worker, active, http, workers, occurred, timer,
          web3, intake, pipeline>>

\* A submission's stage, bundle, the identity it is at, the verdict of the policy
\* and, as a history, what policies approved.
NewSubmission == [stage |-> "idle", bundle |-> None, index |-> 1, verdict |-> None,
                  approved |-> {}]

\* A listener's position, its open stream, the logs in the stream that it has
\* not taken, the log it waits to queue, and as histories the logs that were
\* put into its streams, those it queued, and those its stream skipped.
NoListener == [pc |-> "none", open |-> FALSE, stream |-> <<>>, holding |-> None,
               seen |-> <<>>, delivered |-> <<>>, lagged |-> {}]

SharedGateway == "shared"

Idle == [s \in Submissions |-> NewSubmission]
NoRequest == [r \in Requests |-> None]
NoneOf == [o \in Orders |-> 0]
NoProvider == [g \in Submissions \cup {SharedGateway} |-> <<>>]
NotListening == [s \in Submissions |-> NoListener]

Init ==
    /\ phase = "connect" /\ boot = 0 /\ attached = {}
    /\ submission = Idle
    /\ policy_worker = [s \in Submissions |-> FALSE]
    /\ active = {} /\ mounts = {} /\ request = NoRequest
    /\ starts = NoneOf /\ schedules = NoneOf
    /\ occurred = 0 /\ fired = <<>> /\ forwarder = None
    /\ gateways = NoProvider /\ listener = NotListening
    /\ drops = 0 /\ signalled = {}
    /\ queue = <<>> /\ receiving = TRUE
    /\ batch = <<>> /\ sending = FALSE
    /\ queued = <<>> /\ handed = <<>> /\ received = <<>> /\ missed = {}

\* Send to the queue: waits for room, and fails once the receiver is gone.
Enqueue(event) ==
    /\ receiving => Len(queue) < Capacity
    /\ IF receiving
       THEN queue' = Append(queue, event) /\ queued' = Append(queued, event)
       ELSE UNCHANGED intake

Running == phase \in {"up", "shutdown"}

-----------------------------------------------------------------------------
(* The start of the node                                                   *)

Booting == UNCHANGED <<submission, policy_worker, active, http, workers, occurred, timer, web3,
                       intake, pipeline>>

\* The enclave is tried a number of times, then main panics.
ConnectEnclave ==
    /\ phase = "connect"
    /\ \/ phase' = "attach" /\ boot' = 0
       \/ /\ boot' = boot + 1
          /\ phase' = IF boot' >= MaxAttempts THEN "failed" ELSE phase
    /\ UNCHANGED attached
    /\ Booting

\* The configured VMs, and in any case the default one.
ToAttach ==
    IF \E i \in 1..Len(Attachments) : Attachments[i] = DefaultVm
    THEN Attachments ELSE Append(Attachments, DefaultVm)

\* attach_configured_vms: a VM that the enclave does not attach is left out, a
\* call that fails ends the start.
AttachVm ==
    /\ phase = "attach"
    /\ \/ /\ boot' = boot + 1
          /\ attached' \in {attached, attached \cup {ToAttach[boot + 1]}}
          /\ phase' = IF boot' = Len(ToAttach) THEN "up" ELSE phase
       \/ phase' = "failed" /\ UNCHANGED start
    /\ Booting

-----------------------------------------------------------------------------
(* submit_work_order                                                       *)

At(s, stage) == Running /\ submission[s].stage = stage

To(s, stage) == submission' = [submission EXCEPT ![s].stage = stage]

Fail(s) == submission' = [submission EXCEPT ![s] = [NewSubmission EXCEPT !.stage = "error"]]

\* An active order is a duplicate, reported as success.  The servers take no new
\* calls after the signal.
CheckDuplicate(s) ==
    /\ phase = "up" /\ At(s, "idle")
    /\ To(s, IF OrderOf[s] \in active THEN "duplicate" ELSE "fetch")
    /\ UNCHANGED <<phase, start, policy_worker, active, http, workers, occurred, timer, web3,
                   intake, pipeline>>

\* The stage at the i-th identity of s, or after the last one.
NextCheck(s, i) ==
    IF i <= Len(IdentitiesOf[OrderOf[s]]) THEN "authorize"
    ELSE IF i = 1 THEN "run" ELSE "secrets"

Checking == UNCHANGED <<phase, start, active, http, schedules, occurred, timer, web3,
                        intake, pipeline>>

\* What the fetch of an order's bundle, and of a policy, may come to.
Bundles == [o \in Orders |->
    {FetchWorkerBundle(PointerOf[o], "work order", None, served) : served \in Served \cup {None}}]

Policies ==
    {GetPolicy(manifest, served) : manifest \in Manifests \cup {None},
                                   served \in Served \cup {None}}

\* The bundle, whose VM must be attached.
FetchBundle(s, bundle) ==
    /\ At(s, "fetch")
    /\ IF bundle.form # "dsse" \/ bundle.vm \notin attached
       THEN Fail(s)
       ELSE submission' = [submission EXCEPT ![s].bundle = bundle,
                                             ![s].stage = NextCheck(s, 1)]
    /\ UNCHANGED <<policy_worker, starts>>
    /\ Checking

\* The policy of the next identity, and a worker for it in the default VM.
Authorize(s, policy) ==
    /\ At(s, "authorize")
    /\ \/ /\ policy.form = "dsse"
          /\ DefaultVm \in attached
          /\ policy_worker' = [policy_worker EXCEPT ![s] = TRUE]
          /\ To(s, "execute")
       \/ Fail(s) /\ UNCHANGED policy_worker
    /\ UNCHANGED starts
    /\ Checking

\* What is left of submission s once the policy of its identity has answered.
Judged(s, verdict) ==
    LET r == submission[s]
        approval == [identity |-> IdentitiesOf[OrderOf[s]][r.index], bundle |-> r.bundle]
    IN  [r EXCEPT !.verdict = verdict, !.stage = "terminate",
                  !.approved = IF verdict = "approve" THEN @ \cup {approval} ELSE @]

\* Mutant: an error of the policy is returned at once.
ExecutePolicyReturns(s, verdict) ==
    /\ At(s, "execute")
    /\ IF verdict = "error" THEN Fail(s)
       ELSE submission' = [submission EXCEPT ![s] = Judged(s, verdict)]
    /\ UNCHANGED <<policy_worker, starts>>
    /\ Checking

\* execute_policy: the worker approves the bundle, denies it, or fails.
ExecutePolicy(s, verdict) ==
    /\ At(s, "execute")
    /\ submission' = [submission EXCEPT ![s] = Judged(s, verdict)]
    /\ UNCHANGED <<policy_worker, starts>>
    /\ Checking

\* Submission s at its next identity.
NextIdentity(s) ==
    LET i == submission[s].index + 1
    IN  [submission[s] EXCEPT !.stage = NextCheck(s, i), !.index = i, !.verdict = None]

\* Mutant: only an error of the policy ends the submission.
TerminatePolicyLenient(s) ==
    /\ At(s, "terminate")
    /\ policy_worker' = [policy_worker EXCEPT ![s] = FALSE]
    /\ IF submission[s].verdict = "error" THEN Fail(s)
       ELSE submission' = [submission EXCEPT ![s] = NextIdentity(s)]
    /\ UNCHANGED starts
    /\ Checking

\* The worker is terminated in any case, as far as the enclave can; then the
\* verdict counts.
TerminatePolicy(s) ==
    /\ At(s, "terminate")
    /\ policy_worker' = [policy_worker EXCEPT ![s] = FALSE]
    /\ IF submission[s].verdict # "approve" THEN Fail(s)
       ELSE submission' = [submission EXCEPT ![s] = NextIdentity(s)]
    /\ UNCHANGED starts
    /\ Checking

\* check_secrets, and get_secrets for those that are missing or expired: either
\* may fail.
EnsureSecrets(s) ==
    /\ At(s, "secrets")
    /\ To(s, "run") \/ Fail(s)
    /\ UNCHANGED <<policy_worker, starts>>
    /\ Checking

\* Mutant: the worker is mounted as soon as it runs.
RunWorkerMounts(s) ==
    /\ At(s, "run")
    /\ starts' = [starts EXCEPT ![OrderOf[s]] = @ + 1]
    /\ mounts' = mounts \cup {OrderOf[s]}
    /\ To(s, "activate")
    /\ UNCHANGED <<phase, start, policy_worker, active, request, schedules, occurred, timer,
                   web3, intake, pipeline>>

\* run_worker in the enclave.
RunWorker(s) ==
    /\ At(s, "run")
    /\ \/ /\ starts' = [starts EXCEPT ![OrderOf[s]] = @ + 1]
          /\ To(s, "activate")
       \/ Fail(s) /\ UNCHANGED starts
    /\ UNCHANGED policy_worker
    /\ Checking

\* The write lock waits while the forwarder holds the read lock.
Activate(s) ==
    /\ At(s, "activate")
    /\ forwarder = None
    /\ active' = active \cup {OrderOf[s]}
    /\ To(s, IF "launch" \in EventsOf[OrderOf[s]] THEN "launch" ELSE "set up")
    /\ UNCHANGED <<phase, start, policy_worker, http, workers, occurred, timer, web3, intake,
                   pipeline>>

\* Mutant: the launch event is skipped when the queue is full.
QueueLaunchTry(s) ==
    /\ At(s, "launch")
    /\ \/ Enqueue([order |-> OrderOf[s], kind |-> "launch"])
       \/ Len(queue) = Capacity /\ UNCHANGED intake
    /\ To(s, IF receiving THEN "set up" ELSE "set up without listeners")
    /\ UNCHANGED <<phase, start, policy_worker, active, http, workers, occurred, timer, web3,
                   pipeline>>

\* If the launch event cannot be queued the web3 listeners are left out.
QueueLaunch(s) ==
    /\ At(s, "launch")
    /\ Enqueue([order |-> OrderOf[s], kind |-> "launch"])
    /\ To(s, IF receiving THEN "set up" ELSE "set up without listeners")
    /\ UNCHANGED <<phase, start, policy_worker, active, http, workers, occurred, timer, web3,
                   pipeline>>

\* The order of s is mounted and its listener task started.
Offered(s) ==
    LET o == OrderOf[s]
        listens == "web3" \in EventsOf[o] /\ submission[s].stage = "set up"
    IN  /\ mounts' = IF "http" \in EventsOf[o] THEN mounts \cup {o} ELSE mounts
        /\ listener' = IF listens THEN [listener EXCEPT ![s].pc = "connect"] ELSE listener

\* Mounting, the listener task and the schedule.  If the scheduler refuses, the
\* submission fails and the order stays active.
SetUp(s) ==
    LET o == OrderOf[s]
        wanted == EventsOf[o]
    IN  /\ At(s, "set up") \/ At(s, "set up without listeners")
        /\ Offered(s)
        /\ \/ To(s, "ok") /\ schedules' = [schedules EXCEPT ![o] =
                  IF "scheduled" \in wanted THEN @ + 1 ELSE @]
           \/ "scheduled" \in wanted /\ Fail(s) /\ UNCHANGED schedules
        /\ UNCHANGED <<phase, start, policy_worker, active, request, starts, occurred, timer,
                       gateways, drops, signalled, intake, pipeline>>

\* The client of submission s disconnects, and the future of its call is dropped
\* where it waits.  Nothing is undone, and what it waits for may still happen: the
\* enclave may start or end the worker, and before the scheduler is asked the
\* order has been mounted and its listener started.
ClientGone(s) ==
    LET o == OrderOf[s]
        stage == submission[s].stage
    IN  /\ Running /\ stage \notin {"idle", "ok", "duplicate", "error", "dropped"}
        /\ To(s, "dropped")
        /\ policy_worker' \in {policy_worker,
               [policy_worker EXCEPT ![s] = (stage = "authorize" /\ DefaultVm \in attached)
                                            \/ stage = "execute"]}
        /\ \/ UNCHANGED <<starts, schedules, mounts, listener>>
           \/ /\ stage = "run"
              /\ starts' = [starts EXCEPT ![o] = @ + 1]
              /\ UNCHANGED <<schedules, mounts, listener>>
           \/ /\ stage \in {"set up", "set up without listeners"}
              /\ "scheduled" \in EventsOf[o]
              /\ Offered(s)
              /\ schedules' \in {schedules, [schedules EXCEPT ![o] = @ + 1]}
              /\ UNCHANGED starts
        /\ UNCHANGED <<phase, start, active, request, occurred, timer, gateways, drops, signalled,
                       intake, pipeline>>

-----------------------------------------------------------------------------
(* HTTP requests                                                           *)

Asking == UNCHANGED <<phase, start, submission, policy_worker, active, mounts, workers, occurred,
                      timer, web3, intake, pipeline>>

\* universal_http_handler: the mount is looked up, and then the worker asked; a
\* request for what is not mounted is answered at once.  The server takes no
\* new requests after the signal.
HttpRequest(r, o) ==
    /\ phase = "up" /\ request[r] = None
    /\ o \in mounts
    /\ request' = [request EXCEPT ![r] = o]
    /\ Asking

HttpReply(r) ==
    /\ Running /\ request[r] # None
    /\ request' = [request EXCEPT ![r] = None]
    /\ Asking

-----------------------------------------------------------------------------
(* Scheduled events                                                        *)

\* The scheduler fires an event of o.
Fire(o) ==
    /\ Running /\ schedules[o] > 0
    /\ occurred < MaxEvents
    /\ occurred' = occurred + 1
    /\ fired' = Append(fired, o)
    /\ UNCHANGED <<phase, start, submission, policy_worker, active, http, workers, forwarder, web3,
                   intake, pipeline>>

\* The forwarder looks the order up; a fired event of an unknown order is
\* dropped.  It stops at shutdown.
TakeFired ==
    /\ phase = "up"
    /\ forwarder = None /\ fired # <<>>
    /\ fired' = Tail(fired)
    /\ forwarder' = IF Head(fired) \in active
                    THEN [order |-> Head(fired), kind |-> "scheduled"] ELSE None
    /\ UNCHANGED <<phase, start, submission, policy_worker, active, http, workers, occurred, web3,
                   intake, pipeline>>

QueueFired ==
    /\ Running /\ forwarder # None
    /\ Enqueue(forwarder)
    /\ forwarder' = None
    /\ UNCHANGED <<phase, start, submission, policy_worker, active, http, workers, occurred, fired,
                   web3, pipeline>>

-----------------------------------------------------------------------------
(* Web3 listeners                                                          *)

EventOf(s) == Web3Of[OrderOf[s]]

GatewayOf(s) == IF Shared(EventOf(s)) THEN SharedGateway ELSE s

Matches(s, item) == LogMatchesConfig(item.log, EventOf(s))

Listens(s, pc) == Running /\ listener[s].pc = pc

Listening == UNCHANGED <<phase, start, submission, policy_worker, active, http, workers, timer,
                         signalled, pipeline>>

ListenAt(s, pc) == listener' = [listener EXCEPT ![s].pc = pc]

\* Mutant: a delay that begins after the signal does not notice it.
DelayDeaf(s) == "delay"

\* Every delay also waits for the shutdown signal, which may have come before.
Delay(s) == IF s \in signalled THEN "stopped" ELSE "delay"

\* subscribe_logs: a new stream, of the logs from now on.
Subscribed(l) == [l EXCEPT !.pc = "stream", !.open = TRUE]

\* A turn of the outer loop: the provider that the gateway has, or connections
\* to its URLs, and a subscription.  A listener without a gateway ends.
ListenerConnect(s) ==
    LET g == GatewayOf(s)
        urls == GatewaysForEvent(EventOf(s))
        Subscribe(providers) ==
            \/ providers[1] = "live" /\ listener' = [listener EXCEPT ![s] = Subscribed(@)]
            \/ ListenAt(s, Delay(s))
    IN  /\ Listens(s, "connect")
        /\ IF ~Resolves(EventOf(s)) THEN ListenAt(s, "stopped") /\ UNCHANGED gateways
           ELSE IF HasProvider(gateways[g]) THEN Subscribe(gateways[g]) /\ UNCHANGED gateways
           ELSE \E n \in 0..Len(urls) :
                    /\ gateways' = [gateways EXCEPT ![g] = Connected(n)]
                    /\ IF AllConnected(urls, n) THEN Subscribe(Connected(n))
                       ELSE ListenAt(s, Delay(s))
        /\ UNCHANGED <<occurred, drops, intake>>
        /\ Listening

\* The next log of the stream, or its end.  The signal has priority.
ListenerNext(s) ==
    LET l == listener[s]
    IN  /\ Listens(s, "stream") /\ s \notin signalled
        /\ \/ /\ l.stream # <<>>
              /\ listener' = [listener EXCEPT ![s] =
                     IF Matches(s, Head(l.stream))
                     THEN [l EXCEPT !.stream = Tail(@), !.pc = "queue", !.holding = Head(l.stream)]
                     ELSE [l EXCEPT !.stream = Tail(@)]]
           \/ l.stream = <<>> /\ ~l.open /\ ListenAt(s, Delay(s))
        /\ UNCHANGED <<occurred, gateways, drops, intake>>
        /\ Listening

\* Mutant: a full queue drops the log.
ListenerQueueTry(s) ==
    LET l == listener[s]
    IN  /\ Listens(s, "queue")
        /\ \/ /\ Enqueue([order |-> OrderOf[s], kind |-> "web3"])
              /\ listener' = [listener EXCEPT ![s] =
                     [l EXCEPT !.pc = "stream", !.holding = None,
                               !.delivered = IF receiving THEN Append(@, l.holding) ELSE @]]
           \/ /\ Len(queue) = Capacity
              /\ listener' = [listener EXCEPT ![s] = [l EXCEPT !.pc = "stream", !.holding = None]]
              /\ UNCHANGED intake
        /\ UNCHANGED <<occurred, gateways, drops>>
        /\ Listening

\* The listener waits for room; after an error the log is dropped.
ListenerQueue(s) ==
    LET l == listener[s]
    IN  /\ Listens(s, "queue")
        /\ Enqueue([order |-> OrderOf[s], kind |-> "web3"])
        /\ listener' = [listener EXCEPT ![s] =
               [l EXCEPT !.pc = "stream", !.holding = None,
                         !.delivered = IF receiving THEN Append(@, l.holding) ELSE @]]
        /\ UNCHANGED <<occurred, gateways, drops>>
        /\ Listening

ListenerWake(s) ==
    /\ Listens(s, "delay")
    /\ ListenAt(s, "connect")
    /\ UNCHANGED <<occurred, gateways, drops, intake>>
    /\ Listening

ListenerStop(s) ==
    /\ Listens(s, "stream") \/ Listens(s, "delay")
    /\ s \in signalled
    /\ ListenAt(s, "stopped")
    /\ UNCHANGED <<occurred, gateways, drops, intake>>
    /\ Listening

\* The subscription buffers a number of logs; a listener that does not keep up
\* skips the oldest.
Logged(l, item) ==
    IF Len(l.stream) < StreamSize
    THEN [l EXCEPT !.stream = Append(@, item), !.seen = Append(@, item)]
    ELSE [l EXCEPT !.stream = Append(Tail(@), item), !.seen = Append(@, item),
                   !.lagged = @ \cup {Head(l.stream)}]

\* A log of the chain reaches the open streams of a gateway.
Log(g, log) ==
    LET item == [id |-> occurred + 1, log |-> log]
        reached == {s \in Submissions : GatewayOf(s) = g /\ listener[s].open}
    IN  /\ Running /\ occurred < MaxEvents
        /\ reached # {}
        /\ occurred' = occurred + 1
        /\ listener' = [s \in Submissions |->
               IF s \in reached THEN Logged(listener[s], item) ELSE listener[s]]
        /\ UNCHANGED <<gateways, drops, intake>>
        /\ Listening

\* The streams of a gateway end, with or without its connection.
StreamsEnd(g) ==
    /\ Running /\ drops < MaxDrops
    /\ \E s \in Submissions : GatewayOf(s) = g /\ listener[s].open
    /\ drops' = drops + 1
    /\ listener' = [s \in Submissions |->
           IF GatewayOf(s) = g THEN [listener[s] EXCEPT !.open = FALSE] ELSE listener[s]]
    /\ gateways' \in {gateways, [gateways EXCEPT ![g] = Dead(@)]}
    /\ UNCHANGED <<occurred, intake>>
    /\ Listening

-----------------------------------------------------------------------------
(* The batch task                                                          *)

\* Mutant: a batch is sent only when it is full.
TakeQueuedUntilFull ==
    /\ phase = "up" /\ receiving /\ ~sending
    /\ queue # <<>>
    /\ queue' = Tail(queue)
    /\ batch' = Append(batch, Head(queue))
    /\ sending' = (Len(batch') >= BatchSize)
    /\ UNCHANGED <<phase, start, submission, policy_worker, active, http, workers, occurred, timer,
                   web3, receiving, queued, handed, received, missed>>

\* Taking an event sends the batch if it is full or the queue is empty.
TakeQueued ==
    /\ phase = "up" /\ receiving /\ ~sending
    /\ queue # <<>>
    /\ queue' = Tail(queue)
    /\ batch' = Append(batch, Head(queue))
    /\ sending' = (Len(batch') >= BatchSize \/ queue' = <<>>)
    /\ UNCHANGED <<phase, start, submission, policy_worker, active, http, workers, occurred, timer,
                   web3, receiving, queued, handed, received, missed>>

\* deliver_batch_events: n events of the batch reach the enclave, which takes them
\* in order.  All do if the call succeeds; if it fails, any number of them may
\* have.
Delivered(n) ==
    LET before == Len(handed)
    IN  /\ handed' = handed \o batch
        /\ received' = received \o [i \in 1..n |-> before + i]
        /\ missed' = missed \cup ((before + n + 1) .. (before + Len(batch)))

\* Mutant: after an error the batch is kept for a retry behind later events.
SendBatchRetries ==
    /\ sending
    /\ \E n \in 0..Len(batch) : Delivered(n)
    /\ batch' \in {<<>>, batch}
    /\ sending' = FALSE
    /\ UNCHANGED <<phase, start, submission, policy_worker, active, http, workers, occurred, timer,
                   web3, queue, receiving, queued>>

\* After an error the batch is dropped.
SendBatch ==
    /\ sending
    /\ \E n \in 0..Len(batch) : Delivered(n)
    /\ batch' = <<>>
    /\ sending' = FALSE
    /\ UNCHANGED <<phase, start, submission, policy_worker, active, http, workers, occurred, timer,
                   web3, queue, receiving, queued>>

-----------------------------------------------------------------------------
\* The shutdown signal, which listeners that start later do not get.
Shutdown ==
    /\ phase = "up"
    /\ phase' = "shutdown"
    /\ signalled' = {s \in Submissions : listener[s].pc # "none"}
    /\ UNCHANGED <<start, submission, policy_worker, active, http, workers, occurred, timer,
                   gateways, listener, drops, intake, pipeline>>

\* Mutant: the receiver outlives the batch task.
EndBatchTaskKeepsQueue ==
    /\ phase = "shutdown" /\ receiving /\ ~sending
    /\ batch # <<>>
    /\ \E n \in 0..Len(batch) : Delivered(n)
    /\ batch' = <<>>
    /\ UNCHANGED <<phase, start, submission, policy_worker, active, http, workers, occurred, timer,
                   web3, intake, receiving, sending>>

\* The batch task sends what it has and ends; what is queued is lost.
EndBatchTask ==
    /\ phase = "shutdown" /\ receiving /\ ~sending
    /\ \E n \in 0..Len(batch) : Delivered(n)
    /\ batch' = <<>>
    /\ queue' = <<>>
    /\ receiving' = FALSE
    /\ UNCHANGED <<phase, start, submission, policy_worker, active, http, workers, occurred, timer,
                   web3, sending, queued>>

\* main returns without waiting for any task: what is in memory is
\* gone, what runs in the enclave runs on.
Exit ==
    /\ phase = "shutdown"
    /\ phase' = "exited"
    /\ boot' = 0 /\ attached' = {}
    /\ submission' = Idle
    /\ active' = {} /\ mounts' = {} /\ request' = NoRequest
    /\ schedules' = NoneOf
    /\ occurred' = 0 /\ fired' = <<>> /\ forwarder' = None
    /\ gateways' = NoProvider /\ listener' = NotListening
    /\ drops' = 0 /\ signalled' = {}
    /\ queue' = <<>> /\ receiving' = TRUE
    /\ batch' = <<>> /\ sending' = FALSE
    /\ queued' = <<>> /\ handed' = <<>> /\ received' = <<>> /\ missed' = {}
    /\ UNCHANGED <<policy_worker, starts>>

PolicyStep(s) ==
    \/ \E bundle \in Bundles[OrderOf[s]] : FetchBundle(s, bundle)
    \/ \E policy \in Policies : Authorize(s, policy)
    \/ \E verdict \in {"approve", "deny", "error"} : ExecutePolicy(s, verdict)
    \/ TerminatePolicy(s)

SubmissionStep(s) ==
    \/ PolicyStep(s) \/ EnsureSecrets(s) \/ RunWorker(s)
    \/ Activate(s) \/ QueueLaunch(s) \/ SetUp(s)

ListenerStep(s) ==
    \/ ListenerConnect(s) \/ ListenerNext(s)
    \/ ListenerQueue(s) \/ ListenerWake(s) \/ ListenerStop(s)

Forward == TakeFired \/ QueueFired

BatchStep == Running /\ (TakeQueued \/ SendBatch \/ EndBatchTask)

Next ==
    \/ ConnectEnclave \/ AttachVm
    \/ \E s \in Submissions :
          CheckDuplicate(s) \/ SubmissionStep(s) \/ ClientGone(s) \/ ListenerStep(s)
    \/ \E r \in Requests : HttpReply(r) \/ \E o \in Orders : HttpRequest(r, o)
    \/ \E o \in Orders : Fire(o)
    \/ \E g \in DOMAIN gateways : StreamsEnd(g) \/ \E log \in Logs : Log(g, log)
    \/ Forward
    \/ BatchStep
    \/ Shutdown
    \/ Exit

\* Tasks are polled and awaited calls return.  Submissions, requests and events
\* need not happen, no client need disconnect, nor need the node be shut down.
Fairness ==
    /\ \A s \in Submissions : WF_vars(SubmissionStep(s)) /\ WF_vars(ListenerStep(s))
    /\ WF_vars(Forward)
    /\ WF_vars(BatchStep)

Spec == Init /\ [][Next]_vars /\ Fairness

-----------------------------------------------------------------------------
Stages == {"idle", "fetch", "authorize", "execute", "terminate", "secrets", "run",
           "activate", "launch", "set up", "set up without listeners", "ok", "duplicate",
           "error", "dropped"}

Identities == UNION {{IdentitiesOf[o][i] : i \in DOMAIN IdentitiesOf[o]} : o \in Orders}

Approval == [identity : Identities, bundle : Served]

Submission == [stage : Stages, bundle : Served \cup {None}, index : Nat \ {0},
               verdict : {None, "approve", "deny", "error"}, approved : SUBSET Approval]

Item == [id : Nat, log : Logs]

Listener == [pc : {"none", "connect", "stream", "queue", "delay", "stopped"},
             open : BOOLEAN, stream : Seq(Item), holding : Item \cup {None},
             seen : Seq(Item), delivered : Seq(Item \cup {None}), lagged : SUBSET Item]

\* Type invariant.
TypeOK ==
    /\ phase \in {"connect", "attach", "up", "shutdown", "exited", "failed"}
    /\ submission \in [Submissions -> Submission]
    /\ policy_worker \in [Submissions -> BOOLEAN]
    /\ active \subseteq Orders /\ mounts \subseteq Orders
    /\ request \in [Requests -> Orders \cup {None}]
    /\ starts \in [Orders -> Nat]
    /\ schedules \in [Orders -> Nat]
    /\ occurred \in 0 .. MaxEvents
    /\ fired \in Seq(Orders)
    /\ forwarder \in Event \cup {None}
    /\ listener \in [Submissions -> Listener]
    /\ gateways \in [Submissions \cup {SharedGateway} -> Seq({"live", "dead"})]
    /\ queue \in Seq(Event) /\ Len(queue) <= Capacity
    /\ receiving \in BOOLEAN /\ sending \in BOOLEAN
    /\ batch \in Seq(Event) /\ Len(batch) <= BatchSize
    /\ queued \in Seq(Event) /\ handed \in Seq(Event)
    /\ received \in Seq(Nat) /\ missed \subseteq Nat

\* The launch event of o is among the first n events that were queued.
Launched(o, n) ==
    \E i \in 1 .. n : queued[i].order = o /\ queued[i].kind = "launch"

\* The launch event of an order that asks for one is in the daemon's queue before
\* any of its other events, and before its worker is offered over HTTP, although
\* listeners, the scheduler, requests and other submissions act concurrently and
\* clients disconnect.  This is the order in the queue: a request does not pass
\* through it, so the worker may get a request before the launch event that was
\* queued earlier.  Only at shutdown, when nothing can be queued any more, is the
\* launch event left out.
LaunchFirst ==
    \A o \in Orders :
        "launch" \in EventsOf[o] /\ receiving =>
            /\ \A i \in DOMAIN queued : queued[i].order = o => Launched(o, i)
            /\ (\E r \in Requests : request[r] = o) => Launched(o, Len(queued))

\* Until the node shuts down every event that entered the queue is still on its
\* way, or was passed to the enclave in one call.  The enclave gets no event twice
\* and none after a later one, and misses one only if the call that carried it
\* failed: such a call is not repeated.
EventsAccounted ==
    /\ receiving => queued = handed \o batch \o queue
    /\ \A i, j \in DOMAIN received : i < j => received[i] < received[j]
    /\ \A k \in 1 .. Len(handed) :
           k \in missed <=> \A i \in DOMAIN received : received[i] # k

\* Nothing refers to an order before it is active: the forwarder never meets
\* an unknown one, and a mounted or listening order has a started worker.
ActiveFirst ==
    /\ TypeOK
    /\ \A i \in DOMAIN fired : fired[i] \in active
    /\ mounts \subseteq active
    /\ \A s \in Submissions : listener[s].pc # "none" => OrderOf[s] \in active
    /\ \A o \in active : starts[o] > 0

\* A worker runs only with a bundle that the pointer of its order admits, in a
\* VM that is attached, and that the policy of every identity of its order
\* approved, for this submission and for this very bundle: sources may serve
\* something else at every fetch, and policies may deny or fail.
AuthorizedStart ==
    \A s \in Submissions :
        LET r == submission[s]
            o == OrderOf[s]
        IN  r.stage \in {"activate", "launch", "set up", "set up without listeners", "ok"} =>
                /\ r.bundle.vm \in attached
                /\ PointerOf[o].hash \in {None, r.bundle}
                /\ \A i \in DOMAIN IdentitiesOf[o] :
                      [identity |-> IdentitiesOf[o][i], bundle |-> r.bundle] \in r.approved

\* A policy worker runs only as long as its submission uses it: whatever the
\* policy or the enclave answers, its termination has been tried before the
\* submission goes on or fails.  It is left running only if the node exits, or if
\* the client disconnects while the submission is at an identity; a client that
\* leaves later leaves none behind.
PolicyWorkersEnd ==
    \A s \in Submissions :
        policy_worker[s] /\ phase # "exited" =>
            \/ submission[s].stage \in {"execute", "terminate"}
            \/ /\ submission[s].stage = "dropped"
               /\ submission[s].index \in DOMAIN IdentitiesOf[OrderOf[s]]

Occurs(item, items) == \E i \in DOMAIN items : items[i] = item

\* The log that a listener waits to queue.
Held(l) == IF l.pc = "queue" THEN <<l.holding>> ELSE <<>>

\* Until the node shuts down every log that reaches a stream of a listener and
\* matches is queued, or on its way, or was skipped by its stream, which happens
\* only to a log behind which a bufferful of logs has come: a full queue delays
\* logs, and the end of a stream comes after its logs.  Logs between two streams
\* are missed.  No log is delivered twice, after a later one, or after it was
\* skipped, also when the listener has connected again.
LogsAccounted ==
    \A s \in Submissions :
        LET l == listener[s]
        IN  /\ receiving => \A i \in DOMAIN l.seen :
                   \/ ~Matches(s, l.seen[i])
                   \/ Occurs(l.seen[i], l.delivered) \/ Occurs(l.seen[i], Held(l))
                   \/ Occurs(l.seen[i], l.stream) \/ l.seen[i] \in l.lagged
            /\ \A i \in DOMAIN l.seen :
                  l.seen[i] \in l.lagged =>
                      i + StreamSize <= Len(l.seen) /\ ~Occurs(l.seen[i], l.delivered)
            /\ \A i, j \in DOMAIN l.delivered :
                  i < j => l.delivered[i].id < l.delivered[j].id

\* A listener that was there when the node was told to shut down ends, although
\* it may be waiting for room in the queue, for a connection or for a retry.
ListenersStop ==
    signalled # {} ~> \/ \A s \in signalled : listener[s].pc = "stopped"
                      \/ phase = "exited"

\* Every submission returns, unless its client disconnects, although the queue may
\* be full and the forwarder may hold the lock of active_work_orders while it waits
\* for room.
EverySubmissionReturns ==
    \A s \in Submissions :
        submission[s].stage # "idle" ~>
            \/ submission[s].stage \in {"ok", "duplicate", "error", "dropped"}
            \/ phase = "exited"

\* What is queued is passed to the enclave, or the node shuts down: a partly
\* filled batch does not wait for more.
QueuedIsHanded == Len(queued) > Len(handed) ~> Len(queued) = Len(handed) \/ phase # "up"

\* "The launch event triggers your worker exactly once": no order is launched
\* twice.
LaunchedOnce ==
    \A o \in Orders :
        Len(SelectSeq(queued, LAMBDA e : e.order = o /\ e.kind = "launch")) <= 1
=============================================================================
