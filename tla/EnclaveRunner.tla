--------------------------- MODULE EnclaveRunner ---------------------------
(***************************************************************************)
(* The runner of the enclave (node/enclave/src/runner): which VMs are      *)
(* attached, which VM runs which worker, and the task that delivers        *)
(* events.  Its three maps are behind read-write locks of their own.       *)
(*                                                                         *)
(* Most operations look their worker up in worker_map, release it, and     *)
(* hold the write lock of vms during a whole RPC to the VM; run, terminate *)
(* and detach also write worker_map before they release vms.  The event    *)
(* task holds the read lock of worker_map while it waits to read vms.      *)
(*                                                                         *)
(* A lock that is taken and released without an await in between is one    *)
(* step that needs the lock to be free.  Two holders last longer and are   *)
(* variables: the call in vms_lock, and an event task at stage "lookup",   *)
(* which holds worker_map for reading.                                     *)
(***************************************************************************)
EXTENDS Integers, Sequences

CONSTANTS Workers,   \* worker ids (hashes of work orders or policies)
          VMs,       \* VM ids
          Calls,     \* bound: the RPCs the enclave receives, one each
          Ops,       \* the kinds of RPC it receives
          Deployed,  \* Deployed[w]: the attached VM that runs w at the start
          None       \* no worker, no VM, no lock holder

Operations == {"attach", "detach", "run", "terminate", "invoke", "logs", "deliver"}

ASSUME RunnerAssumption ==
    /\ Ops \subseteq Operations
    /\ Deployed \in [Workers -> VMs \cup {None}]
    /\ None \notin Workers \cup VMs \cup Calls

VARIABLES
    vms,              \* attached VMs
    worker_map,       \* worker_map[w]: the VM w runs on
    dead_worker_map,  \* dead_worker_map[w]: the VM w ran on
    event_queue,      \* events for workers, in order
    event_task,       \* the event task: its stage, worker and VM
    vms_lock,         \* the call that holds the write lock of vms
    call,             \* call[c]: progress of the RPC c
    running,          \* running[v]: the workers VM v runs
    lost              \* history: <<v, w>> if the runner cannot know whether v
                      \* runs w, or has dropped the entry that said so

vars == <<vms, worker_map, dead_worker_map, event_queue, event_task, vms_lock,
          call, running, lost>>

Idle == [stage |-> "idle"]

NotReceived == [stage |-> "none"]

-----------------------------------------------------------------------------
Init ==
    /\ vms = {Deployed[w] : w \in Workers} \ {None}
    /\ worker_map = Deployed
    /\ dead_worker_map = [w \in Workers |-> None]
    /\ event_queue = <<>>
    /\ event_task = Idle
    /\ vms_lock = None
    /\ call = [c \in Calls |-> NotReceived]
    /\ running = [v \in VMs |-> {w \in Workers : Deployed[w] = v}]
    /\ lost = {}

\* worker_map can be written only while the event task does not read it.
WorkerMapFree == event_task.stage # "lookup"

At(c, stage) == call[c].stage = stage

To(c, stage) == call' = [call EXCEPT ![c].stage = stage]

\* The answer itself (a result or an error) is left out.
Return(c) == To(c, "done")

\* What an RPC names: run_worker takes any worker and any VM.
Requests ==
    [op : {"run"}, worker : Workers, vm : VMs]
        \cup [op : {"attach", "detach"}, worker : {None}, vm : VMs]
        \cup [op : {"terminate", "invoke", "logs", "deliver"}, worker : Workers,
              vm : {None}]

Receive(c, request) ==
    /\ At(c, "none")
    /\ call' = [call EXCEPT ![c] =
           [op |-> request.op, worker |-> request.worker, vm |-> request.vm,
            stage |-> CASE request.op \in {"terminate", "invoke", "logs"} -> "find"
                        [] request.op = "deliver" -> "queue"
                        [] OTHER -> "lock"]]
    /\ UNCHANGED <<vms, worker_map, dead_worker_map, event_queue, event_task,
                   vms_lock, running, lost>>

-----------------------------------------------------------------------------
(* Finding the VM of a worker                                              *)

Find(c) ==
    LET v == worker_map[call[c].worker]
    IN  /\ At(c, "find")
        /\ IF v # None
           THEN call' = [call EXCEPT ![c].stage = "lock", ![c].vm = v]
           ELSE IF call[c].op = "logs" THEN To(c, "find dead") ELSE Return(c)
        /\ UNCHANGED <<vms, worker_map, dead_worker_map, event_queue, event_task,
                       vms_lock, running, lost>>

\* get_worker_vm_id for the log operations, if the worker is not active.
FindDead(c) ==
    LET v == dead_worker_map[call[c].worker]
    IN  /\ At(c, "find dead")
        /\ IF v # None
           THEN call' = [call EXCEPT ![c].stage = "lock", ![c].vm = v]
           ELSE Return(c)
        /\ UNCHANGED <<vms, worker_map, dead_worker_map, event_queue, event_task,
                       vms_lock, running, lost>>

\* vms.write().await and get_mut.
Lock(c) ==
    /\ At(c, "lock") /\ call[c].op # "attach"
    /\ vms_lock = None
    /\ IF call[c].vm \in vms
       THEN vms_lock' = c /\ To(c, "locked")
       ELSE Return(c) /\ UNCHANGED vms_lock
    /\ UNCHANGED <<vms, worker_map, dead_worker_map, event_queue, event_task,
                   running, lost>>

Unlock == vms_lock' = None

-----------------------------------------------------------------------------
(* The operations on an attached VM                                        *)

\* The connection was made before; if it failed the call returns an error.
attach_vm(c) ==
    /\ At(c, "lock") /\ call[c].op = "attach"
    /\ \/ vms_lock = None /\ vms' = vms \cup {call[c].vm} /\ Return(c)
       \/ UNCHANGED vms /\ Return(c)
    /\ UNCHANGED <<worker_map, dead_worker_map, event_queue, event_task, vms_lock,
                   running, lost>>

DetachRemove(c) ==
    /\ At(c, "locked") /\ call[c].op = "detach"
    /\ vms' = vms \ {call[c].vm}
    /\ To(c, "write")
    /\ UNCHANGED <<worker_map, dead_worker_map, event_queue, event_task, vms_lock,
                   running, lost>>

\* The workers of the VM are forgotten, not stopped.
DetachRetain(c) ==
    LET v == call[c].vm
    IN  /\ At(c, "write") /\ call[c].op = "detach"
        /\ WorkerMapFree
        /\ worker_map' = [w \in Workers |->
               IF worker_map[w] = v THEN None ELSE worker_map[w]]
        /\ lost' = lost \cup {<<v, w>> : w \in {x \in Workers : worker_map[x] = v}}
        /\ Unlock /\ Return(c)
        /\ UNCHANGED <<vms, dead_worker_map, event_queue, event_task, running>>

\* An RPC that started or stopped a worker and brought no answer: the VM may
\* have acted or not.
NoAnswer(c) ==
    LET v == call[c].vm
        w == call[c].worker
    IN  /\ \E W \in {running[v] \cup {w}, running[v] \ {w}} :
               running' = [running EXCEPT ![v] = W]
        /\ lost' = lost \cup {<<v, w>>}

\* Mutant: vms is released before the worker is recorded.
StartWorkerUnlocks(c) ==
    /\ At(c, "locked") /\ call[c].op = "run"
    /\ \/ /\ running' = [running EXCEPT ![call[c].vm] = @ \cup {call[c].worker}]
          /\ To(c, "write")
          /\ Unlock
          /\ UNCHANGED lost
       \/ NoAnswer(c) /\ Return(c) /\ Unlock
    /\ UNCHANGED <<vms, worker_map, dead_worker_map, event_queue, event_task>>

\* start_worker in the VM: the worker runs, or the RPC fails.
StartWorker(c) ==
    /\ At(c, "locked") /\ call[c].op = "run"
    /\ \/ /\ running' = [running EXCEPT ![call[c].vm] = @ \cup {call[c].worker}]
          /\ To(c, "write")
          /\ UNCHANGED <<vms_lock, lost>>
       \/ NoAnswer(c) /\ Return(c) /\ Unlock
    /\ UNCHANGED <<vms, worker_map, dead_worker_map, event_queue, event_task>>

\* The runner has heard of the worker of c in the VM of c, and the entry that
\* is replaced or removed may have named another VM.
Settled(c) ==
    LET w == call[c].worker
    IN  (lost \cup {<<u, w>> : u \in {worker_map[w]} \ {None}})
            \ {<<call[c].vm, w>>}

\* Mutant: an entry that exists is kept.
RecordWorkerOnce(c) ==
    LET w == call[c].worker
    IN  /\ At(c, "write") /\ call[c].op = "run"
        /\ WorkerMapFree
        /\ worker_map' = [worker_map EXCEPT ![w] =
               IF @ = None THEN call[c].vm ELSE @]
        /\ lost' = lost \ {<<call[c].vm, w>>}
        /\ Unlock /\ Return(c)
        /\ UNCHANGED <<vms, dead_worker_map, event_queue, event_task, running>>

\* An entry for another VM is overwritten; that VM goes on running the worker.
RecordWorker(c) ==
    /\ At(c, "write") /\ call[c].op = "run"
    /\ WorkerMapFree
    /\ worker_map' = [worker_map EXCEPT ![call[c].worker] = call[c].vm]
    /\ lost' = Settled(c)
    /\ Unlock /\ Return(c)
    /\ UNCHANGED <<vms, dead_worker_map, event_queue, event_task, running>>

\* stop_worker in the VM: stopped or not there any more, or the RPC fails.
StopWorker(c) ==
    /\ At(c, "locked") /\ call[c].op = "terminate"
    /\ \/ /\ running' = [running EXCEPT ![call[c].vm] = @ \ {call[c].worker}]
          /\ To(c, "write")
          /\ UNCHANGED <<vms_lock, lost>>
       \/ NoAnswer(c) /\ Return(c) /\ Unlock
    /\ UNCHANGED <<vms, worker_map, dead_worker_map, event_queue, event_task>>

\* The entry may name another VM by now, which goes on running the worker.
RemoveWorker(c) ==
    /\ At(c, "write") /\ call[c].op = "terminate"
    /\ WorkerMapFree
    /\ worker_map' = [worker_map EXCEPT ![call[c].worker] = None]
    /\ lost' = Settled(c)
    /\ To(c, "bury")
    /\ UNCHANGED <<vms, dead_worker_map, event_queue, event_task, vms_lock, running>>

BuryWorker(c) ==
    /\ At(c, "bury")
    /\ dead_worker_map' = [dead_worker_map EXCEPT ![call[c].worker] = call[c].vm]
    /\ Unlock /\ Return(c)
    /\ UNCHANGED <<vms, worker_map, event_queue, event_task, running, lost>>

\* Mutant: an error of the VM leaves vms locked.
UseVmKeepsLock(c) ==
    /\ At(c, "locked") /\ call[c].op \in {"invoke", "logs"}
    /\ \/ Return(c) /\ Unlock
       \/ Return(c) /\ UNCHANGED vms_lock
    /\ UNCHANGED <<vms, worker_map, dead_worker_map, event_queue, event_task, running,
                   lost>>

\* execute_policy, invoke_http_worker, check_worker_status and the log
\* operations: one RPC to the VM, then vms is released.
UseVm(c) ==
    /\ At(c, "locked") /\ call[c].op \in {"invoke", "logs"}
    /\ Unlock /\ Return(c)
    /\ UNCHANGED <<vms, worker_map, dead_worker_map, event_queue, event_task, running,
                   lost>>

\* The daemon gives the RPC up (its own caller went away) and the handler is
\* dropped at its await, with the lock it holds.  Only futures of submissions,
\* invocations and log requests are ever dropped.
Drop(c) ==
    LET starts == call[c].op \in {"run", "terminate"}
    IN  /\ call[c].stage \in {"find", "find dead", "lock", "locked", "write", "bury"}
        /\ call[c].op \in {"run", "terminate", "invoke", "logs"}
        /\ \/ starts /\ At(c, "locked") /\ NoAnswer(c)
           \/ /\ starts /\ At(c, "write")
              /\ lost' = lost \cup {<<call[c].vm, call[c].worker>>}
              /\ UNCHANGED running
           \/ /\ ~(starts /\ call[c].stage \in {"locked", "write"})
              /\ UNCHANGED <<running, lost>>
        /\ vms_lock' = IF vms_lock = c THEN None ELSE vms_lock
        /\ Return(c)
        /\ UNCHANGED <<vms, worker_map, dead_worker_map, event_queue, event_task>>

\* The cleanup task drops an entry after five minutes.
CleanupDead(w) ==
    /\ dead_worker_map[w] # None
    /\ dead_worker_map' = [dead_worker_map EXCEPT ![w] = None]
    /\ UNCHANGED <<vms, worker_map, event_queue, event_task, vms_lock, call, running,
                   lost>>

-----------------------------------------------------------------------------
(* Events                                                                  *)

\* Nothing is checked here: the worker may be unknown.
deliver_batch_events(c) ==
    /\ At(c, "queue")
    /\ event_queue' = Append(event_queue, call[c].worker)
    /\ Return(c)
    /\ UNCHANGED <<vms, worker_map, dead_worker_map, event_task, vms_lock, running,
                   lost>>

\* Mutant: an event for an unknown worker ends the event task.
TakeEventBreaks ==
    LET w == Head(event_queue)
    IN  /\ event_task = Idle /\ event_queue # <<>>
        /\ event_queue' = Tail(event_queue)
        /\ event_task' = IF worker_map[w] = None THEN [stage |-> "ended"]
                         ELSE [stage |-> "lookup", worker |-> w, vm |-> worker_map[w]]
        /\ UNCHANGED <<vms, worker_map, dead_worker_map, vms_lock, call, running,
                       lost>>

\* The read lock of worker_map is kept if the worker is known; an event for an
\* unknown worker is dropped.
TakeEvent ==
    LET w == Head(event_queue)
    IN  /\ event_task = Idle /\ event_queue # <<>>
        /\ event_queue' = Tail(event_queue)
        /\ event_task' = IF worker_map[w] = None THEN Idle
                         ELSE [stage |-> "lookup", worker |-> w, vm |-> worker_map[w]]
        /\ UNCHANGED <<vms, worker_map, dead_worker_map, vms_lock, call, running,
                       lost>>

\* vms.read().await; both locks are released.
LookupClient ==
    /\ event_task.stage = "lookup"
    /\ vms_lock = None
    /\ event_task' = IF event_task.vm \in vms
                     THEN [event_task EXCEPT !.stage = "invoke"] ELSE Idle
    /\ UNCHANGED <<vms, worker_map, dead_worker_map, event_queue, vms_lock, call,
                   running, lost>>

\* The VM answers or fails; either way the event is done.
InvokeWorker ==
    /\ event_task.stage = "invoke"
    /\ event_task' = Idle
    /\ UNCHANGED <<vms, worker_map, dead_worker_map, event_queue, vms_lock, call,
                   running, lost>>

-----------------------------------------------------------------------------
CallStep(c) ==
    \/ Find(c) \/ FindDead(c) \/ Lock(c)
    \/ attach_vm(c)
    \/ DetachRemove(c) \/ DetachRetain(c)
    \/ StartWorker(c) \/ RecordWorker(c)
    \/ StopWorker(c) \/ RemoveWorker(c) \/ BuryWorker(c)
    \/ UseVm(c)
    \/ deliver_batch_events(c)

EventStep == TakeEvent \/ LookupClient \/ InvokeWorker

Next ==
    \/ \E c \in Calls :
           \/ CallStep(c)
           \/ Drop(c)
           \/ \E request \in {r \in Requests : r.op \in Ops} : Receive(c, request)
    \/ \E w \in Workers : CleanupDead(w)
    \/ EventStep

\* The runtime polls every task, RPCs to VMs return, and the locks are fair:
\* each call competes for them once.
Fairness == WF_vars(EventStep) /\ \A c \in Calls : WF_vars(CallStep(c))

Spec == Init /\ [][Next]_vars /\ Fairness

-----------------------------------------------------------------------------
Stages == {"none", "find", "find dead", "lock", "locked", "write", "bury", "queue",
           "done"}

\* Type invariant.
TypeOK ==
    /\ vms \subseteq VMs
    /\ worker_map \in [Workers -> VMs \cup {None}]
    /\ dead_worker_map \in [Workers -> VMs \cup {None}]
    /\ event_queue \in Seq(Workers)
    /\ event_task \in {Idle} \cup
           [stage : {"lookup", "invoke"}, worker : Workers, vm : VMs]
    /\ vms_lock \in Calls \cup {None}
    /\ call \in [Calls -> {NotReceived} \cup
           [op : Operations, worker : Workers \cup {None}, vm : VMs \cup {None},
            stage : Stages]]
    /\ running \in [VMs -> SUBSET Workers]
    /\ lost \subseteq VMs \X Workers

\* worker_map and vms are two maps behind two locks, and still nobody who holds
\* the lock of vms sees a worker mapped to a VM that is gone: it is free or a
\* detach is about to forget that VM's workers.
WorkerMapConsistent ==
    /\ TypeOK
    /\ \A w \in Workers : worker_map[w] # None =>
           \/ worker_map[w] \in vms
           \/ /\ vms_lock # None
              /\ call[vms_lock].op = "detach" /\ call[vms_lock].stage = "write"
              /\ call[vms_lock].vm = worker_map[w]

\* When no operation is under way, worker_map says of a VM and a worker exactly
\* whether the one runs the other, through concurrent starts, stops, failures
\* and dropped calls, with four exceptions: the last RPC to start or stop the
\* worker there brought no answer or was given up, the VM was detached, the
\* worker was started in another VM over it, or a stop that had looked up
\* another VM removed the entry.  A start or stop that succeeds repairs it.
MapMatchesVms ==
    vms_lock = None =>
        \A v \in VMs, w \in Workers :
            <<v, w>> \notin lost => (worker_map[w] = v <=> w \in running[v])

\* The event task holds worker_map and waits for vms, a call holds vms and
\* waits for worker_map.
LockInversion ==
    /\ event_task.stage = "lookup"
    /\ vms_lock # None
    /\ call[vms_lock].stage = "write"

\* Every RPC is answered, whatever VMs are detached and whatever fails in
\* between, unless that one inversion of locks happens: it is the only way in
\* which the runner's locks can hang a call.
EveryCallReturns ==
    \A c \in Calls :
        call[c].stage # "none" ~> call[c].stage = "done" \/ LockInversion

\* The event task gets through its queue, although workers and VMs disappear
\* while their events wait, unless the locks are inverted.
EventsDrainOrHang ==
    (event_queue # <<>>) ~>
        (event_queue = <<>> /\ event_task = Idle) \/ LockInversion

\* "The launch event triggers your worker exactly once, immediately after it
\* has been successfully deployed": the event task gets through its queue, always.
EventsDrain ==
    (event_queue # <<>>) ~> (event_queue = <<>> /\ event_task = Idle)
=============================================================================
