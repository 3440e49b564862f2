------------------------ MODULE EnclaveRunnerProofs ------------------------
(***************************************************************************)
(* Proofs about EnclaveRunner, for any sets of workers, VMs and RPCs: the  *)
(* lock discipline of the runner keeps its maps and the VMs in agreement.  *)
(***************************************************************************)
EXTENDS EnclaveRunner, TLAPS

Holding == {"locked", "write", "bury"}

\* A call that works on a worker names one, and a call that has got as far as
\* the lock of vms names a VM.
Named ==
    \A c \in Calls : call[c].stage # "none" =>
        /\ call[c].op \notin {"attach", "detach"} => call[c].worker \in Workers
        /\ call[c].stage \in {"lock"} \cup Holding => call[c].vm \in VMs
        /\ call[c].stage \in {"find", "find dead", "queue"} =>
               call[c].op \notin {"attach", "detach"}

\* The calls past vms.write() are the one that vms_lock names.
LockOwner == \A c \in Calls : call[c].stage \in Holding <=> vms_lock = c

\* Only a call that changes worker_map waits to write it.
Writers ==
    \A c \in Calls :
        /\ At(c, "write") => call[c].op \in {"detach", "run", "terminate"}
        /\ At(c, "bury") => call[c].op = "terminate"

\* The VM under the lock is attached, until a detach has removed it.
LockedVm ==
    \A c \in Calls :
        /\ call[c].stage \in Holding
        /\ ~(call[c].op = "detach" /\ At(c, "write"))
        => call[c].vm \in vms

\* c has changed what its VM runs and has not written worker_map yet.
InFlight(c, v, w) ==
    /\ At(c, "write") /\ call[c].op \in {"run", "terminate"}
    /\ call[c].vm = v /\ call[c].worker = w

\* What a call in flight has done to its VM.
Done ==
    \A c \in Calls :
        /\ At(c, "write") /\ call[c].op = "run" => call[c].worker \in running[call[c].vm]
        /\ At(c, "write") /\ call[c].op = "terminate" =>
               call[c].worker \notin running[call[c].vm]

Agrees(v, w) == worker_map[w] = v <=> w \in running[v]

\* The map is right about every pair that is neither lost nor in flight.
Agreement ==
    \A v \in VMs, w \in Workers :
        \/ Agrees(v, w)
        \/ <<v, w>> \in lost
        \/ \E c \in Calls : InFlight(c, v, w)

TypeInv == TypeOK /\ Named

Locks == LockOwner /\ Writers /\ LockedVm

IInv ==
    /\ TypeInv
    /\ Locks
    /\ WorkerMapConsistent
    /\ Done
    /\ Agreement

-----------------------------------------------------------------------------
(* What a step does to the calls.                                          *)

CallRecord == [op : Operations, worker : Workers \cup {None}, vm : VMs \cup {None},
               stage : Stages]

\* A call that was received has all fields.
LEMMA Received ==
    ASSUME TypeOK, NEW c \in Calls, call[c].stage # "none"
    PROVE  call[c] \in CallRecord
BY DEF TypeOK, NotReceived, CallRecord

\* A change of stage leaves the rest of the call, and the other calls, alone.
LEMMA ToEffect ==
    ASSUME TypeOK, NEW c \in Calls, call[c].stage # "none", NEW stage \in Stages,
           To(c, stage)
    PROVE  /\ call' \in [Calls -> {NotReceived} \cup CallRecord]
           /\ call'[c].stage = stage /\ call'[c].op = call[c].op
           /\ call'[c].worker = call[c].worker /\ call'[c].vm = call[c].vm
           /\ \A d \in Calls \ {c} : call'[d] = call[d]
<1>1. call[c] \in CallRecord
  BY Received
<1> QED BY <1>1 DEF TypeOK, To, CallRecord

\* So does the VM that a lookup returned.
LEMMA FoundEffect ==
    ASSUME TypeOK, NEW c \in Calls, call[c].stage # "none", NEW v \in VMs,
           call' = [call EXCEPT ![c].stage = "lock", ![c].vm = v]
    PROVE  /\ call' \in [Calls -> {NotReceived} \cup CallRecord]
           /\ call'[c].stage = "lock" /\ call'[c].op = call[c].op
           /\ call'[c].worker = call[c].worker /\ call'[c].vm = v
           /\ \A d \in Calls \ {c} : call'[d] = call[d]
<1>1. call[c] \in CallRecord
  BY Received
<1> QED BY <1>1 DEF TypeOK, CallRecord, Stages

\* The steps that find a VM or give up before the lock of vms, and those that
\* end a call there.
Outside(c) == Find(c) \/ FindDead(c) \/ attach_vm(c) \/ deliver_batch_events(c)

\* The steps of the holder of the lock that leave vms alone.
Inside(c) ==
    DetachRetain(c) \/ StartWorker(c) \/ RecordWorker(c) \/ StopWorker(c)
        \/ RemoveWorker(c) \/ BuryWorker(c) \/ UseVm(c)

\* Every step of a call is one of these.
LEMMA StepKinds ==
    ASSUME NEW c \in Calls, CallStep(c)
    PROVE  Outside(c) \/ Lock(c) \/ DetachRemove(c) \/ Inside(c)
BY DEF CallStep, Outside, Inside

\* A call outside the lock stays outside, and what it names is right.
LEMMA OutsideEffect ==
    ASSUME TypeInv, NEW c \in Calls, Outside(c)
    PROVE  /\ call[c].stage \in {"find", "find dead", "lock", "queue"}
           /\ call' \in [Calls -> {NotReceived} \cup CallRecord]
           /\ call'[c].stage \in {"find dead", "lock", "done"}
           /\ call'[c].op = call[c].op /\ call'[c].worker = call[c].worker
           /\ call'[c].stage = "lock" => call'[c].vm \in VMs
           /\ call'[c].stage = "find dead" => call[c].op \notin {"attach", "detach"}
           /\ \A d \in Calls \ {c} : call'[d] = call[d]
<1> USE DEF TypeInv, At, Return
<1>1. call[c].stage \in {"find", "find dead", "lock", "queue"}
  BY DEF Outside, Find, FindDead, attach_vm, deliver_batch_events
<1>2. CASE Find(c) \/ FindDead(c)
  <2>1. call[c].worker \in Workers /\ call[c].op \notin {"attach", "detach"}
    BY <1>2 DEF Find, FindDead, Named
  <2>2. \/ \E v \in VMs : call' = [call EXCEPT ![c].stage = "lock", ![c].vm = v]
        \/ To(c, "find dead") \/ To(c, "done")
    BY <1>2, <2>1 DEF Find, FindDead, TypeOK
  <2>3. ASSUME NEW v \in VMs, call' = [call EXCEPT ![c].stage = "lock", ![c].vm = v]
        PROVE  /\ call' \in [Calls -> {NotReceived} \cup CallRecord]
               /\ call'[c].stage = "lock" /\ call'[c].op = call[c].op
               /\ call'[c].worker = call[c].worker /\ call'[c].vm \in VMs
               /\ \A d \in Calls \ {c} : call'[d] = call[d]
    BY <1>1, <2>3, FoundEffect
  <2>4. CASE To(c, "find dead")
    BY <1>1, <2>1, <2>4, ToEffect DEF Stages
  <2>5. CASE To(c, "done")
    BY <1>1, <2>1, <2>5, ToEffect DEF Stages
  <2> QED BY <1>1, <2>1, <2>2, <2>3, <2>4, <2>5
<1>3. CASE attach_vm(c) \/ deliver_batch_events(c)
  BY <1>1, <1>3, ToEffect DEF attach_vm, deliver_batch_events, Stages
<1> QED BY <1>2, <1>3 DEF Outside

\* The holder of the lock goes on to write the maps, or lets go.
LEMMA InsideEffect ==
    ASSUME TypeInv, NEW c \in Calls, Inside(c)
    PROVE  /\ call[c].stage \in Holding
           /\ call' \in [Calls -> {NotReceived} \cup CallRecord]
           /\ call'[c].stage \in {"write", "bury", "done"}
           /\ call'[c].op = call[c].op /\ call'[c].worker = call[c].worker
           /\ call'[c].vm = call[c].vm
           /\ \A d \in Calls \ {c} : call'[d] = call[d]
           /\ vms_lock' = IF call'[c].stage = "done" THEN None ELSE vms_lock
           /\ call'[c].stage = "write" => call[c].op \in {"run", "terminate"}
           /\ call'[c].stage = "bury" => call[c].op = "terminate"
           /\ vms' = vms
<1> USE DEF Inside, DetachRetain, StartWorker, RecordWorker, StopWorker, RemoveWorker,
            BuryWorker, UseVm
<1>1. call[c].stage \in Holding
  BY DEF At, Holding
<1>2. PICK stage \in {"write", "bury", "done"} : To(c, stage)
  BY DEF Return
<1>3. /\ call' \in [Calls -> {NotReceived} \cup CallRecord]
      /\ call'[c].stage = stage
      /\ call'[c].op = call[c].op /\ call'[c].worker = call[c].worker
      /\ call'[c].vm = call[c].vm
      /\ \A d \in Calls \ {c} : call'[d] = call[d]
  BY <1>1, <1>2, ToEffect DEF TypeInv, Stages, Holding
<1>4. \A other \in Stages : To(c, other) => other = stage
  BY <1>1, <1>3, ToEffect DEF TypeInv, Holding
<1>5. /\ vms_lock' = IF stage = "done" THEN None ELSE vms_lock
      /\ stage = "write" => call[c].op \in {"run", "terminate"}
      /\ stage = "bury" => call[c].op = "terminate"
  BY <1>4 DEF Return, Unlock, Stages
<1> QED BY <1>1, <1>3, <1>5

\* A dropped call is over.
LEMMA DropEffect ==
    ASSUME TypeInv, NEW c \in Calls, Drop(c)
    PROVE  /\ call' \in [Calls -> {NotReceived} \cup CallRecord]
           /\ call[c].stage # "none" /\ call'[c].stage = "done"
           /\ call'[c].op = call[c].op /\ call'[c].worker = call[c].worker
           /\ \A d \in Calls \ {c} : call'[d] = call[d]
BY ToEffect DEF TypeInv, Drop, Return, Stages

-----------------------------------------------------------------------------
(* Type correctness.                                                       *)

\* Initially every variable has its type.
LEMMA InitTypeInv == Init => TypeInv
<1> SUFFICES ASSUME Init PROVE TypeInv
  OBVIOUS
<1>1. TypeOK
  BY RunnerAssumption DEF Init, TypeOK
<1>2. Named
  BY DEF Init, Named, NotReceived
<1> QED BY <1>1, <1>2 DEF TypeInv

\* An RPC without an answer leaves the VM with workers.
LEMMA NoAnswerType ==
    ASSUME TypeOK, NEW c \in Calls, call[c].vm \in VMs, call[c].worker \in Workers,
           NoAnswer(c)
    PROVE  running' \in [VMs -> SUBSET Workers] /\ lost' \subseteq VMs \X Workers
<1>1. PICK W \in SUBSET Workers : running' = [running EXCEPT ![call[c].vm] = W]
  BY DEF TypeOK, NoAnswer
<1>2. running' \in [VMs -> SUBSET Workers]
  BY <1>1 DEF TypeOK
<1>3. lost' \subseteq VMs \X Workers
  BY DEF TypeOK, NoAnswer
<1> QED BY <1>2, <1>3

\* Every step of a call keeps the types.
LEMMA CallTypeInv ==
    ASSUME TypeInv, NEW c \in Calls, CallStep(c) \/ Drop(c)
    PROVE  TypeInv'
<1> USE RunnerAssumption
<1> USE DEF Return, Unlock
<1>1. CASE Outside(c)
  <2>1. Named'
    BY <1>1, OutsideEffect DEF Named, TypeInv, Holding
  <2>2. TypeOK'
    <3>1. call[c].stage = "queue" => call[c].worker \in Workers
      BY <1>1, OutsideEffect DEF TypeInv, Named
    <3>2. call[c].stage = "lock" => call[c].vm \in VMs
      BY DEF TypeInv, Named
    <3>3. call' \in [Calls -> {NotReceived} \cup CallRecord]
      BY <1>1, OutsideEffect
    <3>5. vms' \subseteq VMs
      BY <1>1, <3>2 DEF Outside, Find, FindDead, attach_vm, deliver_batch_events, At,
         TypeInv, TypeOK
    <3>6. event_queue' \in Seq(Workers)
      <4>1. event_queue \in Seq(Workers)
        BY DEF TypeInv, TypeOK
      <4>2. CASE deliver_batch_events(c)
        BY <3>1, <4>1, <4>2 DEF deliver_batch_events, At
      <4> QED BY <1>1, <4>1, <4>2 DEF Outside, Find, FindDead, attach_vm
    <3>7. UNCHANGED <<worker_map, dead_worker_map, event_task, vms_lock, running, lost>>
      BY <1>1 DEF Outside, Find, FindDead, attach_vm, deliver_batch_events
    <3> QED BY <3>3, <3>5, <3>6, <3>7 DEF TypeInv, TypeOK, CallRecord
  <2> QED BY <2>1, <2>2 DEF TypeInv
<1>2. CASE Lock(c)
  <2>1. PICK stage \in {"locked", "done"} : To(c, stage)
    BY <1>2 DEF Lock
  <2>2. /\ call' \in [Calls -> {NotReceived} \cup CallRecord]
        /\ call'[c].stage = stage /\ call'[c].op = call[c].op
        /\ call'[c].worker = call[c].worker /\ call'[c].vm = call[c].vm
        /\ \A d \in Calls \ {c} : call'[d] = call[d]
    BY <1>2, <2>1, ToEffect DEF Lock, At, Stages, TypeInv
  <2>3. Named'
    BY <1>2, <2>2 DEF Named, TypeInv, Lock, At, Holding
  <2>4. TypeOK'
    BY <1>2, <2>2 DEF Lock, TypeInv, TypeOK, CallRecord
  <2> QED BY <2>3, <2>4 DEF TypeInv
<1>3. CASE DetachRemove(c)
  <2>1. /\ call' \in [Calls -> {NotReceived} \cup CallRecord]
        /\ call'[c].stage = "write" /\ call'[c].op = call[c].op
        /\ call'[c].worker = call[c].worker /\ call'[c].vm = call[c].vm
        /\ \A d \in Calls \ {c} : call'[d] = call[d]
    BY <1>3, ToEffect DEF DetachRemove, At, Stages, TypeInv
  <2>2. Named'
    BY <1>3, <2>1 DEF Named, TypeInv, DetachRemove, At, Holding
  <2>3. TypeOK'
    BY <1>3, <2>1 DEF DetachRemove, TypeInv, TypeOK, CallRecord
  <2> QED BY <2>2, <2>3 DEF TypeInv
<1>4. CASE Inside(c)
  <2>1. Named'
    BY <1>4, InsideEffect DEF Named, TypeInv, Holding
  <2>2. /\ call[c].vm \in VMs
        /\ call[c].op # "detach" /\ call[c].op # "attach" => call[c].worker \in Workers
    BY <1>4, InsideEffect DEF Named, TypeInv, Holding
  <2>3. call' \in [Calls -> {NotReceived} \cup CallRecord] /\ vms' = vms
    BY <1>4, InsideEffect
  <2>4. CASE DetachRetain(c)
    <3>1. lost' \subseteq VMs \X Workers
      BY <2>2, <2>4 DEF DetachRetain, TypeInv, TypeOK
    <3>2. worker_map' \in [Workers -> VMs \cup {None}]
      BY <2>4 DEF DetachRetain, TypeInv, TypeOK
    <3>3. UNCHANGED <<dead_worker_map, event_queue, event_task, running>> /\ vms_lock' = None
      BY <2>4 DEF DetachRetain
    <3> QED BY <2>1, <2>3, <3>1, <3>2, <3>3 DEF TypeInv, TypeOK, CallRecord
  <2>5. CASE StartWorker(c) \/ StopWorker(c)
    <3>1. running' \in [VMs -> SUBSET Workers] /\ lost' \subseteq VMs \X Workers
      BY <2>2, <2>5, NoAnswerType DEF StartWorker, StopWorker, TypeInv, TypeOK
    <3>2. /\ UNCHANGED <<worker_map, dead_worker_map, event_queue, event_task>>
          /\ vms_lock' \in {None, vms_lock}
      BY <2>5 DEF StartWorker, StopWorker
    <3> QED BY <2>1, <2>3, <3>1, <3>2 DEF TypeInv, TypeOK, CallRecord
  <2>6. CASE RecordWorker(c) \/ RemoveWorker(c)
    <3>1. lost' \subseteq VMs \X Workers
      BY <2>2, <2>6 DEF RecordWorker, RemoveWorker, Settled, TypeInv, TypeOK
    <3>2. worker_map' \in [Workers -> VMs \cup {None}]
      BY <2>2, <2>6 DEF RecordWorker, RemoveWorker, TypeInv, TypeOK
    <3>3. /\ UNCHANGED <<dead_worker_map, event_queue, event_task, running>>
          /\ vms_lock' \in {None, vms_lock}
      BY <2>6 DEF RecordWorker, RemoveWorker
    <3> QED BY <2>1, <2>3, <3>1, <3>2, <3>3 DEF TypeInv, TypeOK, CallRecord
  <2>7. CASE BuryWorker(c) \/ UseVm(c)
    <3>1. dead_worker_map' \in [Workers -> VMs \cup {None}]
      BY <2>2, <2>7 DEF BuryWorker, UseVm, TypeInv, TypeOK
    <3>2. UNCHANGED <<worker_map, event_queue, event_task, running, lost>> /\ vms_lock' = None
      BY <2>7 DEF BuryWorker, UseVm
    <3> QED BY <2>1, <2>3, <3>1, <3>2 DEF TypeInv, TypeOK, CallRecord
  <2> QED BY <1>4, <2>4, <2>5, <2>6, <2>7 DEF Inside
<1>5. CASE Drop(c)
  <2>1. Named'
    BY <1>5, DropEffect DEF Named, TypeInv, Holding
  <2>2. call' \in [Calls -> {NotReceived} \cup CallRecord]
    BY <1>5, DropEffect
  <2>3. call[c].worker \in Workers /\ (call[c].stage \in {"locked", "write"} => call[c].vm \in VMs)
    BY <1>5 DEF Drop, Named, TypeInv, Holding
  <2>4. running' \in [VMs -> SUBSET Workers] /\ lost' \subseteq VMs \X Workers
    <3>1. CASE At(c, "locked") /\ NoAnswer(c)
      BY <2>3, <3>1, NoAnswerType DEF At, TypeInv
    <3>2. CASE /\ At(c, "write") /\ UNCHANGED running
               /\ lost' = lost \cup {<<call[c].vm, call[c].worker>>}
      BY <2>3, <3>2 DEF At, TypeInv, TypeOK
    <3>3. CASE UNCHANGED <<running, lost>>
      BY <3>3 DEF TypeInv, TypeOK
    <3> QED BY <1>5, <3>1, <3>2, <3>3 DEF Drop
  <2>5. /\ UNCHANGED <<vms, worker_map, dead_worker_map, event_queue, event_task>>
        /\ vms_lock' \in {None, vms_lock}
    BY <1>5 DEF Drop
  <2>6. TypeOK'
    BY <2>2, <2>4, <2>5 DEF TypeInv, TypeOK, CallRecord
  <2> QED BY <2>1, <2>6 DEF TypeInv
<1> QED BY <1>1, <1>2, <1>3, <1>4, <1>5, StepKinds

\* What a received call looks like.
LEMMA ReceiveEffect ==
    ASSUME TypeOK, NEW c \in Calls, NEW request \in Requests, Receive(c, request)
    PROVE  /\ call[c].stage = "none"
           /\ call' \in [Calls -> {NotReceived} \cup CallRecord]
           /\ call'[c].stage \in {"find", "queue", "lock"}
           /\ call'[c].op \notin {"attach", "detach"} => call'[c].worker \in Workers
           /\ call'[c].stage = "lock" => call'[c].vm \in VMs
           /\ call'[c].stage # "lock" => call'[c].op \notin {"attach", "detach"}
           /\ \A d \in Calls \ {c} : call'[d] = call[d]
<1>1. PICK stage \in {"find", "queue", "lock"} :
          /\ call' = [call EXCEPT ![c] = [op |-> request.op, worker |-> request.worker,
                                          vm |-> request.vm, stage |-> stage]]
          /\ stage # "lock" <=> request.op \in {"terminate", "invoke", "logs", "deliver"}
  BY DEF Receive, Requests
<1>2. /\ request.op \in Operations /\ request.worker \in Workers \cup {None}
      /\ request.vm \in VMs \cup {None}
      /\ request.op \notin {"attach", "detach"} => request.worker \in Workers
      /\ request.op \in {"attach", "detach", "run"} => request.vm \in VMs
      /\ request.op \in {"attach", "detach", "run", "terminate", "invoke", "logs", "deliver"}
  BY DEF Requests, Operations
<1>3. PICK new : new = [op |-> request.op, worker |-> request.worker, vm |-> request.vm,
                        stage |-> stage]
  OBVIOUS
<1>4. /\ new \in CallRecord /\ new.op = request.op /\ new.worker = request.worker
      /\ new.vm = request.vm /\ new.stage = stage
  BY <1>2, <1>3 DEF CallRecord, Stages
<1>5. call' \in [Calls -> {NotReceived} \cup CallRecord]
      /\ call'[c] = new /\ \A d \in Calls \ {c} : call'[d] = call[d]
  BY <1>1, <1>3, <1>4 DEF TypeOK, CallRecord
<1>6. call[c].stage = "none"
  BY DEF Receive, At
<1> QED BY <1>1, <1>2, <1>4, <1>5, <1>6

\* So does every other step.
LEMMA NextTypeInv == TypeInv /\ [Next]_vars => TypeInv'
<1> SUFFICES ASSUME TypeInv, [Next]_vars PROVE TypeInv'
  OBVIOUS
<1> USE RunnerAssumption
<1>1. ASSUME NEW c \in Calls, CallStep(c) \/ Drop(c) PROVE TypeInv'
  BY <1>1, CallTypeInv
<1>2. ASSUME NEW c \in Calls, NEW request \in Requests, Receive(c, request)
      PROVE  TypeInv'
  <2>1. Named'
    BY <1>2, ReceiveEffect DEF TypeInv, Named, Holding
  <2>2. TypeOK'
    BY <1>2, ReceiveEffect DEF Receive, TypeInv, TypeOK, CallRecord
  <2> QED BY <2>1, <2>2 DEF TypeInv
<1>3. ASSUME UNCHANGED call PROVE Named'
  BY <1>3 DEF TypeInv, Named
<1>4. ASSUME NEW w \in Workers, CleanupDead(w) PROVE TypeInv'
  BY <1>3, <1>4 DEF CleanupDead, TypeInv, TypeOK
<1>5. CASE TakeEvent
  <2>1. Head(event_queue) \in Workers /\ Tail(event_queue) \in Seq(Workers)
    BY <1>5 DEF TakeEvent, TypeInv, TypeOK
  <2> QED BY <1>3, <1>5, <2>1 DEF TakeEvent, TypeInv, TypeOK
<1>6. CASE LookupClient
  BY <1>3, <1>6 DEF LookupClient, TypeInv, TypeOK, Idle
<1>7. CASE InvokeWorker
  BY <1>3, <1>7 DEF InvokeWorker, TypeInv, TypeOK
<1>8. CASE UNCHANGED vars
  BY <1>3, <1>8 DEF vars, TypeInv, TypeOK
<1> QED BY <1>1, <1>2, <1>4, <1>5, <1>6, <1>7, <1>8 DEF Next, EventStep

-----------------------------------------------------------------------------
(* The locks.  Of two calls only one is past vms.write(), and the VM it    *)
(* works on stays attached.                                                *)

\* Steps of a call keep the lock discipline.
LEMMA CallLocks ==
    ASSUME TypeInv, Locks, NEW c \in Calls, CallStep(c) \/ Drop(c)
    PROVE  Locks'
<1> USE RunnerAssumption
<1> USE DEF Locks, LockOwner, Writers, LockedVm, At, Return, Unlock, Holding
<1>1. CASE Outside(c)
  <2>1. vms \subseteq vms' /\ vms_lock' = vms_lock
    BY <1>1 DEF Outside, Find, FindDead, attach_vm, deliver_batch_events
  <2>2. /\ call[c].stage \notin Holding /\ call'[c].stage \notin Holding
        /\ \A d \in Calls \ {c} : call'[d] = call[d]
    BY <1>1, OutsideEffect
  <2> QED BY <2>1, <2>2
<1>2. CASE Lock(c)
  <2>1. ASSUME NEW stage \in Stages, To(c, stage)
        PROVE  /\ call'[c].stage = stage /\ call'[c].op = call[c].op
               /\ call'[c].vm = call[c].vm
               /\ \A d \in Calls \ {c} : call'[d] = call[d]
    BY <1>2, <2>1, ToEffect DEF Lock, TypeInv
  <2>2. \A d \in Calls : call[d].stage \notin Holding
    BY <1>2 DEF Lock
  <2>3. CASE vms_lock' = c /\ To(c, "locked") /\ call[c].vm \in vms
    BY <1>2, <2>1, <2>2, <2>3 DEF Lock, Stages
  <2>4. CASE vms_lock' = vms_lock /\ To(c, "done")
    BY <1>2, <2>1, <2>2, <2>4 DEF Lock, Stages
  <2> QED BY <1>2, <2>3, <2>4 DEF Lock
<1>3. CASE DetachRemove(c)
  <2>1. /\ call'[c].stage = "write" /\ call'[c].op = call[c].op
        /\ \A d \in Calls \ {c} : call'[d] = call[d]
    BY <1>3, ToEffect DEF DetachRemove, Stages, TypeInv
  <2> QED BY <1>3, <2>1 DEF DetachRemove
<1>4. CASE Inside(c)
  BY <1>4, InsideEffect
<1>5. CASE Drop(c)
  <2>1. /\ vms' = vms
        /\ vms_lock' = IF vms_lock = c THEN None ELSE vms_lock
    BY <1>5 DEF Drop
  <2> QED BY <1>5, <2>1, DropEffect
<1> QED BY <1>1, <1>2, <1>3, <1>4, <1>5, StepKinds

\* So do the steps of everyone else.
LEMMA NextLocks == TypeInv /\ Locks /\ [Next]_vars => Locks'
<1> SUFFICES ASSUME TypeInv, Locks, [Next]_vars PROVE Locks'
  OBVIOUS
<1>1. ASSUME NEW c \in Calls, CallStep(c) \/ Drop(c) PROVE Locks'
  BY <1>1, CallLocks
<1>2. ASSUME NEW c \in Calls, NEW request \in Requests, Receive(c, request)
      PROVE  Locks'
  <2>1. UNCHANGED <<vms, vms_lock>>
    BY <1>2 DEF Receive
  <2> QED BY <1>2, <2>1, ReceiveEffect
          DEF TypeInv, Locks, LockOwner, Writers, LockedVm, At, Holding
<1>3. CASE UNCHANGED <<vms, vms_lock, call>>
  BY <1>3 DEF Locks, LockOwner, Writers, LockedVm, At
<1>4. EventStep \/ (\E w \in Workers : CleanupDead(w)) \/ UNCHANGED vars =>
          UNCHANGED <<vms, vms_lock, call>>
  BY DEF EventStep, TakeEvent, LookupClient, InvokeWorker, CleanupDead, vars
<1> QED BY <1>1, <1>2, <1>3, <1>4 DEF Next

-----------------------------------------------------------------------------
(* The maps and the VMs.                                                   *)

\* Steps of a call leave the two maps as consistent as they were.
LEMMA CallConsistent ==
    ASSUME TypeInv, TypeInv', Locks, WorkerMapConsistent, NEW c \in Calls,
           CallStep(c) \/ Drop(c)
    PROVE  WorkerMapConsistent'
<1> USE RunnerAssumption
<1> USE DEF At, Return, Unlock, Holding
<1> SUFFICES ASSUME NEW w \in Workers, worker_map'[w] # None,
                    worker_map'[w] \notin vms'
             PROVE  /\ vms_lock' # None
                    /\ call'[vms_lock'].op = "detach"
                    /\ call'[vms_lock'].stage = "write"
                    /\ call'[vms_lock'].vm = worker_map'[w]
  BY DEF WorkerMapConsistent, TypeInv
<1>1. CASE DetachRemove(c)
  <2>1. /\ call'[c].stage = "write" /\ call'[c].op = call[c].op
        /\ call'[c].vm = call[c].vm
    BY <1>1, ToEffect DEF DetachRemove, Stages, TypeInv
  <2>2. vms_lock = c
    BY <1>1 DEF DetachRemove, Locks, LockOwner
  <2>3. worker_map[w] \in vms
    BY <1>1, <2>2 DEF DetachRemove, WorkerMapConsistent
  <2> QED BY <1>1, <2>1, <2>2, <2>3 DEF DetachRemove
<1>2. CASE DetachRetain(c)
  <2>1. vms_lock = c
    BY <1>2 DEF DetachRetain, Locks, LockOwner
  <2>2. worker_map'[w] = worker_map[w] /\ worker_map[w] # call[c].vm /\ vms' = vms
    BY <1>2 DEF DetachRetain
  <2> QED BY <2>1, <2>2 DEF WorkerMapConsistent
<1>3. CASE RecordWorker(c)
  <2>1. vms_lock = c /\ call[c].vm \in vms
    BY <1>3 DEF RecordWorker, Locks, LockOwner, LockedVm
  <2> QED BY <1>3, <2>1 DEF RecordWorker, WorkerMapConsistent, TypeInv, TypeOK
<1>4. CASE StartWorker(c) \/ StopWorker(c) \/ RemoveWorker(c) \/ BuryWorker(c) \/ UseVm(c)
  <2>1. vms_lock = c /\ ~(call[c].op = "detach" /\ call[c].stage = "write")
    BY <1>4 DEF StartWorker, StopWorker, RemoveWorker, BuryWorker, UseVm, Locks,
       LockOwner
  <2>2. worker_map'[w] = worker_map[w] /\ vms' = vms
    BY <1>4 DEF StartWorker, StopWorker, RemoveWorker, BuryWorker, UseVm, TypeInv, TypeOK
  <2> QED BY <2>1, <2>2 DEF WorkerMapConsistent
<1>5. CASE Outside(c) \/ Lock(c) \/ Drop(c)
  <2>1. worker_map' = worker_map /\ vms \subseteq vms'
    BY <1>5 DEF Outside, Find, FindDead, Lock, attach_vm, deliver_batch_events, Drop
  <2>2. /\ vms_lock # None /\ vms_lock \in Calls
        /\ call[vms_lock].op = "detach" /\ call[vms_lock].stage = "write"
        /\ call[vms_lock].vm = worker_map[w]
    BY <2>1 DEF WorkerMapConsistent, TypeInv, TypeOK
  <2>3. vms_lock # c
    BY <1>5, <2>2 DEF Outside, Find, FindDead, Lock, attach_vm, deliver_batch_events,
       Drop
  <2>4. vms_lock' = vms_lock
    BY <1>5, <2>2, <2>3 DEF Outside, Find, FindDead, Lock, attach_vm,
       deliver_batch_events, Drop
  <2>5. call'[vms_lock] = call[vms_lock]
    <3>1. CASE Outside(c)
      BY <2>2, <2>3, <3>1, OutsideEffect
    <3>2. CASE Drop(c)
      BY <2>2, <2>3, <3>2, DropEffect
    <3>3. CASE Lock(c)
      BY <2>2, <3>3 DEF Lock
    <3> QED BY <1>5, <3>1, <3>2, <3>3
  <2> QED BY <2>1, <2>2, <2>4, <2>5
<1> QED BY <1>1, <1>2, <1>3, <1>4, <1>5, StepKinds DEF Inside

\* While c holds the lock, no other call is in flight.
LEMMA OnlyHolder ==
    ASSUME Locks, NEW c \in Calls, call[c].stage \in Holding
    PROVE  \A d \in Calls \ {c} : call[d].stage \notin Holding
BY DEF Locks, LockOwner

\* Steps that neither start nor stop anything nor touch the map keep the
\* agreement, if what was in flight still is or is given up.
LEMMA QuietAgreement ==
    ASSUME Done, Agreement, UNCHANGED <<worker_map, running>>, lost \subseteq lost',
           \A d \in Calls :
               \/ /\ ~At(d, "write")'
                  /\ \A v \in VMs, w \in Workers : InFlight(d, v, w) => <<v, w>> \in lost'
               \/ call'[d] = call[d]
               \/ call'[d].op = "detach" /\ ~At(d, "write")
    PROVE  Done' /\ Agreement'
<1>1. Done'
  BY DEF Done, At
<1>2. ASSUME NEW v \in VMs, NEW w \in Workers
      PROVE  Agrees(v, w)' \/ <<v, w>> \in lost' \/ \E d \in Calls : InFlight(d, v, w)'
  <2>1. Agrees(v, w)' <=> Agrees(v, w)
    BY DEF Agrees
  <2>2. ASSUME NEW d \in Calls, InFlight(d, v, w)
        PROVE  <<v, w>> \in lost' \/ InFlight(d, v, w)'
    BY <2>2 DEF InFlight, At
  <2> QED BY <2>1, <2>2 DEF Agreement
<1> QED BY <1>1, <1>2 DEF Agreement

\* Steps of a call keep the agreement of the map with the VMs.
LEMMA CallAgreement ==
    ASSUME TypeInv, TypeInv', Locks, Done, Agreement, NEW c \in Calls,
           CallStep(c) \/ Drop(c)
    PROVE  Done' /\ Agreement'
<1> USE RunnerAssumption
<1> USE DEF Return, Unlock
<1>0. PICK v, w : v = call[c].vm /\ w = call[c].worker
  OBVIOUS
<1>1. CASE Outside(c)
  <2>1. UNCHANGED <<worker_map, running, lost>>
    BY <1>1 DEF Outside, Find, FindDead, attach_vm, deliver_batch_events
  <2>2. /\ ~At(c, "write") /\ ~At(c, "write")'
        /\ \A d \in Calls \ {c} : call'[d] = call[d]
    BY <1>1, OutsideEffect DEF At
  <2> QED BY <2>1, <2>2, QuietAgreement DEF InFlight
<1>2. CASE Lock(c)
  <2>1. UNCHANGED <<worker_map, running, lost>>
    BY <1>2 DEF Lock
  <2>2. PICK stage \in {"locked", "done"} : To(c, stage)
    BY <1>2 DEF Lock
  <2>3. /\ ~At(c, "write") /\ ~At(c, "write")'
        /\ \A d \in Calls \ {c} : call'[d] = call[d]
    BY <1>2, <2>2, ToEffect DEF Lock, At, TypeInv, Stages
  <2> QED BY <2>1, <2>3, QuietAgreement DEF InFlight
<1>3. CASE DetachRemove(c)
  <2>1. UNCHANGED <<worker_map, running, lost>>
    BY <1>3 DEF DetachRemove
  <2>2. /\ ~At(c, "write") /\ call'[c].op = "detach"
        /\ \A d \in Calls \ {c} : call'[d] = call[d]
    BY <1>3, ToEffect DEF DetachRemove, At, TypeInv, Stages
  <2> QED BY <2>1, <2>2, QuietAgreement
<1>4. CASE BuryWorker(c) \/ UseVm(c)
  <2>1. UNCHANGED <<worker_map, running, lost>>
    BY <1>4 DEF BuryWorker, UseVm
  <2>2. /\ ~At(c, "write") /\ ~At(c, "write")'
        /\ \A d \in Calls \ {c} : call'[d] = call[d]
    BY <1>4, ToEffect DEF BuryWorker, UseVm, At, TypeInv, Stages
  <2> QED BY <2>1, <2>2, QuietAgreement DEF InFlight
<1>5. ASSUME NoAnswer(c), call[c].stage = "locked", call'[c].stage = "done",
             \A d \in Calls \ {c} : call'[d] = call[d], UNCHANGED worker_map
      PROVE  Done' /\ Agreement'
  <2>1. \A d \in Calls : ~At(d, "write") /\ ~At(d, "write")'
    BY <1>5, OnlyHolder DEF At, Holding
  <2>2. Done'
    BY <2>1 DEF Done
  <2>3. ASSUME NEW u \in VMs, NEW x \in Workers, <<u, x>> \notin lost'
        PROVE  Agrees(u, x)'
    <3>1. <<u, x>> # <<v, w>> /\ <<u, x>> \notin lost
      BY <1>0, <1>5, <2>3 DEF NoAnswer
    <3>2. Agrees(u, x)
      BY <2>1, <3>1 DEF Agreement, InFlight
    <3>3. PICK W \in {running[v] \cup {w}, running[v] \ {w}} :
              running' = [running EXCEPT ![v] = W]
      BY <1>0, <1>5 DEF NoAnswer
    <3>4. x \in running'[u] <=> x \in running[u]
      BY <3>1, <3>3 DEF TypeInv, TypeOK
    <3> QED BY <1>5, <3>2, <3>4 DEF Agrees
  <2> QED BY <2>2, <2>3 DEF Agreement
<1>6. CASE StartWorker(c) \/ StopWorker(c)
  <2>1. call[c].stage = "locked" /\ UNCHANGED worker_map
    BY <1>6 DEF StartWorker, StopWorker, At
  <2>2. ASSUME NEW stage \in Stages, To(c, stage)
        PROVE  /\ call'[c].stage = stage /\ call'[c].op = call[c].op
               /\ call'[c].worker = w /\ call'[c].vm = v
               /\ \A d \in Calls \ {c} : call'[d] = call[d]
    BY <1>0, <2>1, <2>2, ToEffect DEF TypeInv
  <2>3. CASE NoAnswer(c) /\ To(c, "done")
    BY <1>5, <2>1, <2>2, <2>3 DEF Stages
  <2>4. CASE /\ To(c, "write") /\ UNCHANGED lost
             /\ \/ call[c].op = "run" /\ running' = [running EXCEPT ![v] = @ \cup {w}]
                \/ call[c].op = "terminate" /\ running' = [running EXCEPT ![v] = @ \ {w}]
    <3>1. v \in VMs /\ w \in Workers
      BY <1>0, <2>1, <2>4 DEF TypeInv, Named, Holding
    <3>2. /\ call'[c].stage = "write" /\ call'[c].op = call[c].op
          /\ call'[c].worker = w /\ call'[c].vm = v
          /\ \A d \in Calls \ {c} : call'[d] = call[d]
      BY <2>2, <2>4 DEF Stages
    <3>3. /\ \A d \in Calls : ~At(d, "write")
          /\ \A d \in Calls \ {c} : ~At(d, "write")'
      BY <2>1, <3>2, OnlyHolder DEF At, Holding
    <3>4. /\ call[c].op = "run" => w \in running'[v]
          /\ call[c].op = "terminate" => w \notin running'[v]
      BY <2>4, <3>1 DEF TypeInv, TypeOK
    <3>5. Done'
      BY <3>2, <3>3, <3>4 DEF Done
    <3>6. ASSUME NEW u \in VMs, NEW x \in Workers, <<u, x>> # <<v, w>>,
                 <<u, x>> \notin lost'
          PROVE  Agrees(u, x)'
      <4>1. Agrees(u, x)
        BY <2>4, <3>3, <3>6 DEF Agreement, InFlight
      <4>2. x \in running'[u] <=> x \in running[u]
        BY <2>4, <3>6 DEF TypeInv, TypeOK
      <4> QED BY <2>1, <4>1, <4>2 DEF Agrees
    <3>7. InFlight(c, v, w)'
      BY <2>4, <3>2 DEF InFlight, At
    <3> QED BY <3>5, <3>6, <3>7 DEF Agreement
  <2> QED BY <1>0, <1>6, <2>3, <2>4 DEF StartWorker, StopWorker
<1>7. CASE DetachRetain(c)
  <2>1. /\ call[c].stage \in Holding /\ ~At(c, "write")'
        /\ \A d \in Calls \ {c} : call'[d] = call[d]
    BY <1>7, ToEffect DEF DetachRetain, At, Holding, TypeInv, Stages
  <2>2. \A d \in Calls : ~At(d, "write")' /\ (At(d, "write") => call[d].op = "detach")
    BY <1>7, <2>1, OnlyHolder DEF At, Holding, DetachRetain
  <2>3. Done'
    BY <2>2 DEF Done
  <2>4. ASSUME NEW u \in VMs, NEW x \in Workers, <<u, x>> \notin lost'
        PROVE  Agrees(u, x)'
    <3>1. /\ <<u, x>> \notin lost /\ ~(u = v /\ worker_map[x] = v)
          /\ worker_map'[x] = (IF worker_map[x] = v THEN None ELSE worker_map[x])
          /\ running' = running
      BY <1>0, <1>7, <2>4 DEF DetachRetain
    <3>2. Agrees(u, x)
      BY <2>2, <3>1 DEF Agreement, InFlight
    <3> QED BY <3>1, <3>2 DEF Agrees
  <2> QED BY <2>3, <2>4 DEF Agreement
<1>8. CASE RecordWorker(c) \/ RemoveWorker(c)
  <2>1. PICK stage \in {"bury", "done"} : To(c, stage)
    BY <1>8 DEF RecordWorker, RemoveWorker
  <2>2. /\ At(c, "write") /\ ~At(c, "write")'
        /\ \A d \in Calls \ {c} : call'[d] = call[d]
    BY <1>8, <2>1, ToEffect DEF RecordWorker, RemoveWorker, At, TypeInv, Stages
  <2>3. \A d \in Calls : ~At(d, "write")' /\ (At(d, "write") => d = c)
    BY <2>2, OnlyHolder DEF At, Holding
  <2>4. Done'
    BY <2>3 DEF Done
  <2>5. v \in VMs /\ w \in Workers
    BY <1>0, <1>8 DEF RecordWorker, RemoveWorker, At, TypeInv, Named, Holding
  <2>6. /\ running' = running
        /\ lost' = (lost \cup {<<u, w>> : u \in {worker_map[w]} \ {None}}) \ {<<v, w>>}
        /\ \/ /\ worker_map' = [worker_map EXCEPT ![w] = v]
              /\ w \in running[v]
           \/ /\ worker_map' = [worker_map EXCEPT ![w] = None]
              /\ w \notin running[v]
    BY <1>0, <1>8 DEF RecordWorker, RemoveWorker, Settled, Done
  <2>7. ASSUME NEW u \in VMs, NEW x \in Workers, <<u, x>> \notin lost'
        PROVE  Agrees(u, x)'
    <3>1. CASE <<u, x>> = <<v, w>>
      BY <2>5, <2>6, <3>1 DEF Agrees, TypeInv, TypeOK
    <3>2. CASE <<u, x>> # <<v, w>>
      <4>1. <<u, x>> \notin lost /\ (x = w => worker_map[w] # u)
        BY <2>6, <2>7, <3>2
      <4>2. Agrees(u, x)
        BY <1>0, <2>3, <3>2, <4>1 DEF Agreement, InFlight
      <4>3. worker_map'[x] = u <=> worker_map[x] = u
        BY <2>5, <2>6, <3>2, <4>1 DEF TypeInv, TypeOK
      <4> QED BY <2>6, <4>2, <4>3 DEF Agrees
    <3> QED BY <3>1, <3>2
  <2> QED BY <2>4, <2>7 DEF Agreement
<1>9. CASE Drop(c)
  <2>1. /\ call'[c].stage = "done" /\ \A d \in Calls \ {c} : call'[d] = call[d]
        /\ UNCHANGED worker_map
    BY <1>9, DropEffect DEF Drop
  <2>2. CASE At(c, "locked") /\ NoAnswer(c)
    BY <1>5, <2>1, <2>2 DEF At
  <2>3. CASE /\ At(c, "write") /\ UNCHANGED running
             /\ lost' = lost \cup {<<call[c].vm, call[c].worker>>}
    BY <2>1, <2>3, QuietAgreement DEF InFlight, At
  <2>4. CASE /\ ~(call[c].op \in {"run", "terminate"} /\ call[c].stage \in {"locked", "write"})
             /\ UNCHANGED <<running, lost>>
    BY <2>1, <2>4, QuietAgreement DEF InFlight, At
  <2> QED BY <1>9, <2>2, <2>3, <2>4 DEF Drop
<1> QED
  BY <1>1, <1>2, <1>3, <1>4, <1>6, <1>7, <1>8, <1>9, StepKinds DEF Inside

-----------------------------------------------------------------------------
(* The invariant.                                                          *)

\* The workers deployed at the start run in attached VMs.
LEMMA InitIInv == Init => IInv
<1> SUFFICES ASSUME Init PROVE IInv
  OBVIOUS
<1> USE RunnerAssumption
<1>1. TypeInv
  BY InitTypeInv
<1>2. WorkerMapConsistent
  BY <1>1 DEF Init, WorkerMapConsistent, TypeInv
<1>3. \A c \in Calls : call[c].stage = "none" /\ vms_lock # c
  BY DEF Init, NotReceived
<1>4. Locks
  BY <1>3 DEF Locks, LockOwner, Writers, LockedVm, At, Holding
<1>5. Done
  BY <1>3 DEF Done, At
<1>6. Agreement
  BY DEF Init, Agreement, Agrees
<1> QED BY <1>1, <1>2, <1>4, <1>5, <1>6 DEF IInv

\* Every step of the runner keeps it.
LEMMA NextIInv == IInv /\ [Next]_vars => IInv'
<1> SUFFICES ASSUME IInv, [Next]_vars PROVE IInv'
  OBVIOUS
<1>1. TypeInv /\ TypeInv' /\ Locks /\ Locks'
  BY NextTypeInv, NextLocks DEF IInv
<1>2. ASSUME NEW c \in Calls, CallStep(c) \/ Drop(c)
      PROVE  WorkerMapConsistent' /\ Done' /\ Agreement'
  BY <1>1, <1>2, CallConsistent, CallAgreement DEF IInv
<1>3. ASSUME NEW c \in Calls, NEW request \in Requests, Receive(c, request)
      PROVE  WorkerMapConsistent' /\ Done' /\ Agreement'
  <2>1. /\ call'[c].stage \in {"find", "queue", "lock"}
        /\ \A d \in Calls \ {c} : call'[d] = call[d]
        /\ call[c].stage = "none"
    BY <1>1, <1>3, ReceiveEffect DEF TypeInv
  <2>2. UNCHANGED <<vms, worker_map, vms_lock, running, lost>>
    BY <1>3 DEF Receive
  <2>3. vms_lock # c
    BY <1>1, <2>1 DEF Locks, LockOwner, Holding
  <2>4. WorkerMapConsistent'
    BY <1>1, <2>1, <2>2, <2>3 DEF IInv, WorkerMapConsistent, TypeInv, TypeOK
  <2>5. Done' /\ Agreement'
    BY <2>1, <2>2, QuietAgreement DEF IInv, InFlight, At
  <2> QED BY <2>4, <2>5
<1>4. CASE UNCHANGED <<vms, worker_map, vms_lock, call, running, lost>>
  <2>1. WorkerMapConsistent'
    BY <1>1, <1>4 DEF IInv, WorkerMapConsistent, TypeInv
  <2>2. Done' /\ Agreement'
    BY <1>4, QuietAgreement DEF IInv
  <2> QED BY <1>1, <2>1, <2>2 DEF IInv
<1>5. EventStep \/ (\E w \in Workers : CleanupDead(w)) \/ UNCHANGED vars =>
          UNCHANGED <<vms, worker_map, vms_lock, call, running, lost>>
  BY DEF EventStep, TakeEvent, LookupClient, InvokeWorker, CleanupDead, vars
<1> QED BY <1>1, <1>2, <1>3, <1>4, <1>5 DEF Next, IInv

\* The two maps of the runner, behind two locks, are consistent for whoever
\* holds the lock of vms, with any number of concurrent RPCs.
THEOREM MapsConsistent == Spec => []WorkerMapConsistent
<1>1. IInv => WorkerMapConsistent
  BY DEF IInv
<1> QED BY <1>1, InitIInv, NextIInv, PTL DEF Spec

\* When the lock of vms is free, worker_map is right about every VM and worker
\* for which no RPC was lost, no detach forgot and no start or stop for
\* another VM took the entry away.
THEOREM MapMatches == Spec => []MapMatchesVms
<1>1. IInv => MapMatchesVms
  <2> SUFFICES ASSUME IInv, vms_lock = None, NEW v \in VMs, NEW w \in Workers,
                      <<v, w>> \notin lost
               PROVE  worker_map[w] = v <=> w \in running[v]
    BY DEF MapMatchesVms
  <2>1. \A d \in Calls : ~At(d, "write")
    BY RunnerAssumption DEF IInv, Locks, LockOwner, Holding, At
  <2> QED BY <2>1 DEF IInv, Agreement, Agrees, InFlight
<1> QED BY <1>1, InitIInv, NextIInv, PTL DEF Spec
=============================================================================
