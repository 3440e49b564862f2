----------------------------- MODULE WorkerdVm -----------------------------
(***************************************************************************)
(* The workerd VM (vm/workerd/src/vmm/mod.rs) with the log manager of      *)
(* vm/base/src/logging.rs: a gRPC server that starts one workerd process   *)
(* per worker, waits for its socket, stops it, probes it, passes           *)
(* invocations on and streams its logs.  RPCs run concurrently.            *)
(*                                                                         *)
(* An instance is one execution of start_worker that spawned a process;    *)
(* the workers map has the latest instance of every worker id.  Nothing    *)
(* ever leaves the map.  A process is killed when the last reference to    *)
(* its WorkerData goes (kill_on_drop).  An RPC that is refused (an unknown *)
(* id, a worker that is not running) changes nothing and is left out.      *)
(*                                                                         *)
(* kill() sends the signal and waits until the process is reaped, under    *)
(* the lock of the process; a start_worker that waits so also has its      *)
(* entry of the map locked.                                                *)
(***************************************************************************)
EXTENDS LogBuffer, FiniteSets

CONSTANTS
    Ids,          \* worker ids
    MaxStarts,    \* bound: executions of start_worker
    MaxCalls,     \* bound: other RPCs
    ChannelCap,   \* capacity of the response channel of a log stream
    Tails,        \* values of tail_lines
    LineLens,     \* lengths of log lines
    MaxEvents,    \* bound: starts (which count twice), RPCs and log lines together
    None

\* Instances and RPCs are numbered in the order they begin.
Insts == 1..MaxStarts
Calls == 1..MaxCalls

ASSUME WorkerdAssumption ==
    /\ MaxStarts \in Nat /\ MaxCalls \in Nat /\ MaxEvents \in Nat /\ ChannelCap \in Nat
    /\ Tails \subseteq Nat /\ LineLens \subseteq Nat
    /\ None \notin Insts \cup Ids

VARIABLES
    workers,     \* the map: the latest instance of an id
    idOf,        \* the id an instance was started with
    proc,        \* the process of an instance
    socket,      \* its socket file exists
    status,      \* its WorkerStatus
    boot,        \* where its start_worker is
    call,        \* the other RPCs
    buffer,      \* its LogBuffer
    writing,     \* the lines its log_stream tasks have pushed and not broadcast
    active,      \* active_workers: the instance whose buffer an id has
    dead,        \* dead_worker_logs: histories kept after a stop
    acked,       \* instances a stop_worker was acknowledged for
    misprobed,   \* live instances a probe failed to connect to
    unkilled     \* instances that a start_worker gave up and failed to kill

vmVars == <<workers, idOf, proc, socket, status>>
logVars == <<buffer, writing, active, dead>>
auxVars == <<acked, misprobed, unkilled>>
vars == <<vmVars, boot, call, logVars, auxVars>>

\* The two log_stream tasks of an instance, one per pipe.
Readers == 2

Booting == {"loop", "late", "killing", "settle"}

Down == {"Stopped", "Error"}

Idle == [op |-> None, pc |-> "idle", id |-> None, inst |-> None, tail |-> <<>>, live |-> <<>>,
         open |-> {}, from |-> None, begin |-> 1, skipped |-> {},
         streamer |-> [next |-> 1, lagged |-> FALSE]]

Done == [Idle EXCEPT !.pc = "done"]

\* The instances something refers to: the map and the RPCs that cloned an
\* entry of it.  The others are dropped, which kills their process and
\* removes their directory.
Referenced(map, calls) ==
    {map[id] : id \in Ids} \cup {calls[c].inst : c \in Calls}

Drop(map, calls, procs) ==
    [i \in Insts |-> IF i \in Referenced(map, calls) \/ procs[i] = "none" THEN procs[i]
                     ELSE "exited"]

DropFiles(map, calls) == [i \in Insts |-> socket[i] /\ i \in Referenced(map, calls)]

\* A start_worker has the lock of a process while it waits for its end.
Locked(j) == \E i \in Insts : boot[i] = "killing" /\ workers[idOf[i]] = j

\* The bounds: i is the next instance, c the next RPC to begin.
Used ==
    2 * Cardinality({i \in Insts : boot[i] # "idle"})
        + Cardinality({c \in Calls : call[c].pc # "idle"})
        + FoldFunction(LAMBDA b, sum : b.pushed + sum, 0, buffer)

NextInst(i) ==
    /\ boot[i] = "idle" /\ Used + 1 < MaxEvents
    /\ \A j \in Insts : boot[j] = "idle" => i <= j

NextCall(c) ==
    /\ call[c].pc = "idle" /\ Used < MaxEvents
    /\ \A d \in Calls : call[d].pc = "idle" => c <= d

\* An RPC that returns lets go of its instance.
Return(c) ==
    /\ call' = [call EXCEPT ![c] = Done]
    /\ proc' = Drop(workers, call', proc)
    /\ socket' = DropFiles(workers, call')

-----------------------------------------------------------------------------
(* start_worker *)

\* The code, the directory, the configuration and the binary are good (with
\* any other outcome nothing is touched): spawn the process, register a new
\* log buffer, start the readers, and put the worker into the map.  An earlier
\* instance of the id loses its entry.  The insertion waits for a start_worker
\* that has the entry locked.
Spawn(i, id) ==
    /\ NextInst(i)
    /\ ~Locked(workers[id])
    /\ boot' = [boot EXCEPT ![i] = "loop"]
    /\ idOf' = [idOf EXCEPT ![i] = id]
    /\ workers' = [workers EXCEPT ![id] = i]
    /\ status' = [status EXCEPT ![i] = "Starting"]
    /\ proc' = Drop(workers', call, [proc EXCEPT ![i] = "up"])
    /\ socket' = DropFiles(workers', call)
    /\ active' = [active EXCEPT ![id] = i]
    /\ UNCHANGED <<call, buffer, writing, dead, auxVars>>

\* One turn of the wait loop.  It looks at the process of the entry the map
\* has now, and at the socket path of its own.
StartCheck(i) ==
    LET j == workers[idOf[i]] IN
    /\ boot[i] = "loop" /\ ~Locked(j)
    /\ \/ /\ proc[j] = "exited"
          /\ status' = [status EXCEPT ![j] = "Error"]
          /\ boot' = [boot EXCEPT ![i] = "failed"]
       \/ /\ proc[j] # "exited"
          /\ boot' = [boot EXCEPT ![i] = IF socket[i] THEN "settle" ELSE "late"]
          /\ UNCHANGED status
    /\ UNCHANGED <<workers, idOf, proc, socket, call, logVars, auxVars>>

\* Mutant: a timeout kills nothing.
StartTimeoutKeepsProcess(i) ==
    LET j == workers[idOf[i]] IN
    /\ boot[i] = "late"
    /\ status' = [status EXCEPT ![j] = IF @ = "Starting" THEN "Error" ELSE @]
    /\ boot' = [boot EXCEPT ![i] = "failed"]
    /\ UNCHANGED <<workers, idOf, socket, proc, call, logVars, auxVars>>

\* Mutant: only a worker that is still starting is given up.
StartTimeoutWaitsOn(i) ==
    LET j == workers[idOf[i]] IN
    /\ boot[i] = "late" /\ ~Locked(j)
    /\ status[j] = "Starting"
    /\ status' = [status EXCEPT ![j] = "Error"]
    /\ proc' = [proc EXCEPT ![j] = IF @ = "up" THEN "killed" ELSE @]
    /\ boot' = [boot EXCEPT ![i] = "killing"]
    /\ UNCHANGED <<workers, idOf, socket, call, logVars, auxVars>>

\* The startup timeout has passed: a worker that is still starting gets the
\* error status, and then its process the signal.  A signal that cannot be
\* sent is logged and that is all.
StartTimeout(i) ==
    LET j == workers[idOf[i]] IN
    /\ boot[i] = "late" /\ ~Locked(j)
    /\ \/ /\ status[j] # "Starting"
          /\ boot' = [boot EXCEPT ![i] = "failed"]
          /\ UNCHANGED <<status, proc, unkilled>>
       \/ /\ status[j] = "Starting"
          /\ status' = [status EXCEPT ![j] = "Error"]
          /\ proc' = [proc EXCEPT ![j] = IF @ = "up" THEN "killed" ELSE @]
          /\ boot' = [boot EXCEPT ![i] = "killing"]
          /\ UNCHANGED unkilled
       \/ /\ status[j] = "Starting" /\ proc[j] = "up"
          /\ status' = [status EXCEPT ![j] = "Error"]
          /\ unkilled' = unkilled \cup {j}
          /\ boot' = [boot EXCEPT ![i] = "failed"]
          /\ UNCHANGED proc
    /\ UNCHANGED <<workers, idOf, socket, call, logVars, acked, misprobed>>

\* kill() returns: the process has been reaped.
StartKilled(i) ==
    /\ boot[i] = "killing" /\ proc[workers[idOf[i]]] = "exited"
    /\ boot' = [boot EXCEPT ![i] = "failed"]
    /\ UNCHANGED <<vmVars, call, logVars, auxVars>>

\* Mutant: the status is not looked at again.
StartSettleRegardless(i) ==
    LET j == workers[idOf[i]] IN
    /\ boot[i] = "settle" /\ ~Locked(j)
    /\ \/ /\ proc[j] = "exited"
          /\ status' = [status EXCEPT ![j] = "Error"]
          /\ boot' = [boot EXCEPT ![i] = "failed"]
       \/ /\ proc[j] # "exited"
          /\ status' = [status EXCEPT ![j] = "Running"]
          /\ boot' = [boot EXCEPT ![i] = "ok"]
    /\ UNCHANGED <<workers, idOf, proc, socket, call, logVars, auxVars>>

\* The socket was there 200 ms ago.
StartSettle(i) ==
    LET j == workers[idOf[i]] IN
    /\ boot[i] = "settle" /\ ~Locked(j)
    /\ \/ /\ proc[j] = "exited"
          /\ status' = [status EXCEPT ![j] = "Error"]
          /\ boot' = [boot EXCEPT ![i] = "failed"]
       \/ /\ proc[j] # "exited"
          /\ status' = [status EXCEPT ![j] = IF @ = "Starting" THEN "Running" ELSE @]
          /\ boot' = [boot EXCEPT ![i] = "ok"]
    /\ UNCHANGED <<workers, idOf, proc, socket, call, logVars, auxVars>>

\* The caller gives the RPC up and the server drops its future; the worker
\* stays in the map as it is, and a signal that was sent has been sent.
StartCancelled(i) ==
    /\ boot[i] \in Booting
    /\ boot' = [boot EXCEPT ![i] = "failed"]
    /\ UNCHANGED <<vmVars, call, logVars, auxVars>>

-----------------------------------------------------------------------------
(* The process (external) *)

Listen(i) ==
    /\ proc[i] = "up" /\ ~socket[i]
    /\ socket' = [socket EXCEPT ![i] = TRUE]
    /\ UNCHANGED <<workers, idOf, proc, status, boot, call, logVars, auxVars>>

Exit(i) ==
    /\ proc[i] = "up"
    /\ proc' = [proc EXCEPT ![i] = "exited"]
    /\ UNCHANGED <<workers, idOf, socket, status, boot, call, logVars, auxVars>>

\* A process that was sent the signal dies.
Die(i) ==
    /\ proc[i] = "killed"
    /\ proc' = [proc EXCEPT ![i] = "exited"]
    /\ UNCHANGED <<workers, idOf, socket, status, boot, call, logVars, auxVars>>

-----------------------------------------------------------------------------
(* stop_worker *)

\* A worker that is starting or running will be killed; one that is down, or
\* that a probe took for down, is acknowledged at once.
StopBegin(c, id) ==
    LET i == workers[id] IN
    /\ NextCall(c) /\ i # None
    /\ IF status[i] \notin Down
       THEN /\ call' = [call EXCEPT ![c].op = "stop", ![c].pc = "kill", ![c].id = id,
                                    ![c].inst = i]
            /\ UNCHANGED acked
       ELSE /\ call' = [call EXCEPT ![c] = Done]
            /\ acked' = acked \cup {i}
    /\ UNCHANGED <<vmVars, boot, logVars, misprobed, unkilled>>

\* Mutant: the kill is requested and not awaited, or fails silently.
StopKillUnchecked(c) ==
    /\ call[c].op = "stop" /\ call[c].pc = "kill"
    /\ call' = [call EXCEPT ![c].pc = "mark"]
    /\ UNCHANGED <<vmVars, boot, logVars, auxVars>>

\* kill().await under the lock of the process, which is gone when it returns.
StopKill(c) ==
    /\ call[c].op = "stop" /\ call[c].pc = "kill" /\ ~Locked(call[c].inst)
    /\ proc' = [proc EXCEPT ![call[c].inst] = "exited"]
    /\ call' = [call EXCEPT ![c].pc = "mark"]
    /\ UNCHANGED <<workers, idOf, socket, status, boot, logVars, auxVars>>

\* The signal cannot be sent: the RPC fails and the worker stays as it is.
StopKillFails(c) ==
    /\ call[c].op = "stop" /\ call[c].pc = "kill" /\ ~Locked(call[c].inst)
    /\ proc[call[c].inst] = "up"
    /\ Return(c)
    /\ UNCHANGED <<workers, idOf, status, boot, logVars, auxVars>>

\* Set the status and move the logs of the id, whichever instance has them
\* now, to the dead ones (terminate_worker holds both maps).
StopMark(c) ==
    LET i == call[c].inst
        id == call[c].id
    IN
    /\ call[c].op = "stop" /\ call[c].pc = "mark"
    /\ status' = [status EXCEPT ![i] = "Stopped"]
    /\ IF active[id] # None
       THEN /\ dead' = [dead EXCEPT ![id] = [inst |-> active[id],
                                             history |-> buffer[active[id]].history]]
            /\ active' = [active EXCEPT ![id] = None]
       ELSE UNCHANGED <<dead, active>>
    /\ acked' = acked \cup {i}
    /\ Return(c)
    /\ UNCHANGED <<workers, idOf, boot, buffer, writing, misprobed, unkilled>>

-----------------------------------------------------------------------------
(* probe_worker *)

\* try_wait under the lock: a process that has exited makes the status Error,
\* unless the worker was stopped.
ProbeBegin(c, id) ==
    LET i == workers[id] IN
    /\ NextCall(c) /\ i # None /\ ~Locked(i)
    /\ IF proc[i] = "exited"
       THEN /\ status' = [status EXCEPT ![i] = IF @ = "Stopped" THEN @ ELSE "Error"]
            /\ call' = [call EXCEPT ![c] = Done]
       ELSE /\ call' = [call EXCEPT ![c].op = "probe", ![c].pc = "connect", ![c].id = id,
                                    ![c].inst = i]
            /\ UNCHANGED status
    /\ UNCHANGED <<workers, idOf, proc, socket, boot, logVars, auxVars>>

\* The connection succeeds: the status is read, and Running is stored in a
\* step of its own if it was Starting.  Or it fails (no socket yet, no
\* process, no free descriptor, a full backlog): Error, unless Starting.
ProbeConnect(c) ==
    LET i == call[c].inst IN
    /\ call[c].op = "probe" /\ call[c].pc = "connect"
    /\ \/ /\ proc[i] = "up" /\ socket[i]
          /\ IF status[i] = "Starting"
             THEN call' = [call EXCEPT ![c].pc = "promote"] /\ UNCHANGED <<proc, socket>>
             ELSE Return(c)
          /\ UNCHANGED <<status, misprobed>>
       \/ /\ status' = [status EXCEPT ![i] = IF @ = "Starting" THEN @ ELSE "Error"]
          /\ misprobed' = IF proc[i] = "up" /\ status[i] # "Starting"
                          THEN misprobed \cup {i} ELSE misprobed
          /\ Return(c)
    /\ UNCHANGED <<workers, idOf, boot, logVars, acked, unkilled>>

ProbePromote(c) ==
    /\ call[c].op = "probe" /\ call[c].pc = "promote"
    /\ status' = [status EXCEPT ![call[c].inst] = "Running"]
    /\ Return(c)
    /\ UNCHANGED <<workers, idOf, boot, logVars, auxVars>>

-----------------------------------------------------------------------------
(* invoke_worker and invoke_http *)

\* Only a running worker is invoked; the request then goes to its socket and
\* nothing bounds the time of the answer.
InvokeBegin(c, id) ==
    LET i == workers[id] IN
    /\ NextCall(c) /\ i # None
    /\ status[i] = "Running"
    /\ call' = [call EXCEPT ![c].op = "invoke", ![c].pc = "sent", ![c].id = id, ![c].inst = i]
    /\ UNCHANGED <<vmVars, boot, logVars, auxVars>>

\* The worker answers, or the connection breaks.
InvokeEnd(c) ==
    /\ call[c].op = "invoke" /\ call[c].pc = "sent"
    /\ Return(c)
    /\ UNCHANGED <<workers, idOf, status, boot, logVars, auxVars>>

-----------------------------------------------------------------------------
(* The logs *)

\* A log_stream task reads a line and pushes it; lines in the pipe outlive
\* the process.
ReadLine(i, len) ==
    /\ Cardinality(writing[i]) < Readers /\ proc[i] # "none"
    /\ Used < MaxEvents
    /\ buffer' = [buffer EXCEPT ![i] = Push(@, len)]
    /\ writing' = [writing EXCEPT ![i] = @ \cup {buffer[i].pushed + 1}]
    /\ UNCHANGED <<vmVars, boot, call, active, dead, auxVars>>

SendLine(i, n) ==
    /\ buffer' = [buffer EXCEPT ![i] = Broadcast(@, n)]
    /\ writing' = [writing EXCEPT ![i] = @ \ {n}]
    /\ UNCHANGED <<vmVars, boot, call, active, dead, auxVars>>

\* The cleanup task: a dead worker's logs are five minutes old.
ExpireLogs(id) ==
    /\ dead[id] # None
    /\ dead' = [dead EXCEPT ![id] = None]
    /\ UNCHANGED <<vmVars, boot, call, buffer, writing, active, auxVars>>

\* stream_worker_logs: the historical lines go into the channel before its
\* receiver is handed to the caller: with more lines than the channel holds
\* the RPC never returns.
StreamBegin(c, id, tail) ==
    LET i == IF active[id] # None THEN active[id] ELSE dead[id].inst
        history == IF active[id] # None THEN buffer[i].history ELSE dead[id].history
        lines == GetTail(history, tail)
    IN
    /\ NextCall(c)
    /\ active[id] # None \/ dead[id] # None
    /\ call' = [call EXCEPT ![c].op = "stream", ![c].id = id,
                            ![c].pc = IF Len(lines) > ChannelCap THEN "stuck" ELSE "subscribe",
                            ![c].tail = [k \in 1..Len(lines) |-> <<i, lines[k].n>>],
                            ![c].open = {<<i, n>> : n \in writing[i]}]
    /\ UNCHANGED <<vmVars, boot, logVars, auxVars>>

\* Follow the buffer that is active now; a stopped worker has none.
StreamSubscribe(c) ==
    LET i == active[call[c].id] IN
    /\ call[c].pc = "subscribe"
    /\ call' = IF i = None THEN [call EXCEPT ![c] = Done]
               ELSE [call EXCEPT ![c].pc = "follow", ![c].from = i,
                                 ![c].begin = Len(buffer[i].sent) + 1,
                                 ![c].streamer = CreateStreamer(buffer[i])]
    /\ UNCHANGED <<vmVars, boot, logVars, auxVars>>

\* next_log: the next line; after a lag the oldest one there is; a second lag
\* in the same call ends the stream.
StreamNext(c) ==
    LET s == call[c].streamer
        b == buffer[call[c].from]
    IN
    /\ call[c].pc = "follow" /\ s.next <= Len(b.sent)
    /\ call' =
         IF ~Lagged(b, s)
         THEN [call EXCEPT ![c].live = Append(@, <<call[c].from, b.sent[s.next]>>),
                           ![c].streamer = [next |-> s.next + 1, lagged |-> FALSE]]
         ELSE IF s.lagged THEN [call EXCEPT ![c] = Done]
         ELSE [call EXCEPT ![c].streamer = CatchUp(b, s),
                           ![c].skipped = @ \cup s.next..(CatchUp(b, s).next - 1)]
    /\ UNCHANGED <<vmVars, boot, logVars, auxVars>>

\* The caller goes away.
StreamLeave(c) ==
    /\ call[c].pc = "follow"
    /\ call' = [call EXCEPT ![c] = Done]
    /\ UNCHANGED <<vmVars, boot, logVars, auxVars>>

\* Everything that was sent is read and nobody is left who could send: neither
\* the log manager nor the worker's data has the buffer, and the readers come
\* to the end of the pipes of a process that has exited.
StreamClosed(c) ==
    LET i == call[c].from IN
    /\ call[c].pc = "follow" /\ call[c].streamer.next > Len(buffer[i].sent)
    /\ active[call[c].id] # i /\ i \notin Referenced(workers, call)
    /\ proc[i] = "exited" /\ writing[i] = {}
    /\ call' = [call EXCEPT ![c] = Done]
    /\ UNCHANGED <<vmVars, boot, logVars, auxVars>>

-----------------------------------------------------------------------------
Init ==
    /\ workers = [id \in Ids |-> None]
    /\ idOf = [i \in Insts |-> None]
    /\ proc = [i \in Insts |-> "none"]
    /\ socket = [i \in Insts |-> FALSE]
    /\ status = [i \in Insts |-> "Unspecified"]
    /\ boot = [i \in Insts |-> "idle"]
    /\ call = [c \in Calls |-> Idle]
    /\ buffer = [i \in Insts |-> NewBuffer]
    /\ writing = [i \in Insts |-> {}]
    /\ active = [id \in Ids |-> None]
    /\ dead = [id \in Ids |-> None]
    /\ acked = {}
    /\ misprobed = {}
    /\ unkilled = {}

StartStep(i) == StartCheck(i) \/ StartTimeout(i) \/ StartKilled(i) \/ StartSettle(i)

Next ==
    \/ \E i \in Insts :
          \/ StartStep(i) \/ StartCancelled(i)
          \/ Listen(i) \/ Exit(i) \/ Die(i)
          \/ \E id \in Ids : Spawn(i, id)
          \/ \E len \in LineLens : ReadLine(i, len)
          \/ \E n \in writing[i] : SendLine(i, n)
    \/ \E c \in Calls :
          \/ StopKill(c) \/ StopKillFails(c) \/ StopMark(c)
          \/ ProbeConnect(c) \/ ProbePromote(c)
          \/ InvokeEnd(c)
          \/ StreamSubscribe(c) \/ StreamNext(c) \/ StreamLeave(c) \/ StreamClosed(c)
          \/ \E id \in Ids : StopBegin(c, id) \/ ProbeBegin(c, id) \/ InvokeBegin(c, id)
          \/ \E id \in Ids, tail \in Tails : StreamBegin(c, id, tail)
    \/ \E id \in Ids : ExpireLogs(id)

\* A start_worker whose caller waits goes on: the loop has a timer; and the
\* kernel ends a process that was sent SIGKILL.
Fairness == \A i \in Insts : WF_vars(StartStep(i)) /\ WF_vars(Die(i))

Spec == Init /\ [][Next]_vars /\ Fairness

-----------------------------------------------------------------------------
(* Properties *)

\* A line as a stream delivers it: the instance and the number.
StreamLine == Insts \X Nat

Call ==
    [op : {None, "stop", "probe", "invoke", "stream"},
     pc : {"idle", "kill", "mark", "connect", "promote", "sent", "stuck", "subscribe",
           "follow", "done"},
     id : Ids \cup {None}, inst : Insts \cup {None},
     tail : Seq(StreamLine), live : Seq(StreamLine), open : SUBSET StreamLine,
     from : Insts \cup {None}, begin : Nat \ {0}, skipped : SUBSET Nat,
     streamer : [next : Nat \ {0}, lagged : BOOLEAN]]

\* Every variable has its type.
TypeOK ==
    /\ workers \in [Ids -> Insts \cup {None}]
    /\ idOf \in [Insts -> Ids \cup {None}]
    /\ proc \in [Insts -> {"none", "up", "killed", "exited"}]
    /\ socket \in [Insts -> BOOLEAN]
    /\ status \in [Insts -> {"Unspecified", "Starting", "Running"} \cup Down]
    /\ boot \in [Insts -> Booting \cup {"idle", "ok", "failed"}]
    /\ \A i \in Insts : boot[i] = "idle" <=> status[i] = "Unspecified"
    /\ buffer \in [Insts -> Buffers]
    /\ writing \in [Insts -> SUBSET Nat]
    /\ active \in [Ids -> Insts \cup {None}]
    /\ dead \in [Ids -> [inst : Insts, history : Seq(Lines)] \cup {None}]
    /\ acked \subseteq Insts /\ misprobed \subseteq Insts /\ unkilled \subseteq Insts
    /\ call \in [Calls -> Call]

\* The two reader tasks of a worker write to one buffer: its history stays a
\* gapless tail of what was written, its byte count is exact, and it exceeds
\* the limits by the newest line at most (write_log evicts before it adds).
LogBounds == \A i \in Insts : Bounded(buffer[i])

\* A caller that follows a worker's logs is sent a line twice only if
\* write_log was between its two halves with that line when the history was
\* read; no streamer sees a line twice; and of the lines it has passed it has
\* sent all but two kinds: those broadcast before it subscribed, which are in
\* the history or, pushed after that was read, are lost, and those it lagged
\* behind.
FollowedLines ==
    \A c \in Calls :
        LET live == call[c].live
            i == call[c].from
        IN  /\ \A k \in 1..Len(call[c].tail), l \in 1..Len(live) :
                  call[c].tail[k] = live[l] => live[l] \in call[c].open
            /\ \A k, l \in 1..Len(live) : live[k] = live[l] => k = l
            /\ call[c].pc = "follow" =>
                  \A p \in call[c].begin..(call[c].streamer.next - 1) :
                      \/ p \in call[c].skipped
                      \/ \E l \in 1..Len(live) : live[l] = <<i, buffer[i].sent[p]>>

\* The instances that are taken for down, or given up, while they are up.
Spared == misprobed \cup unkilled

\* A process that outlives its start_worker can still be stopped: it belongs
\* to the entry of its id and that is starting or running.  The exceptions are
\* one that a probe took for dead when it failed to connect, and one that
\* start_worker gave up and could not send the signal; one that was sent it is
\* as good as gone.
NoOrphan ==
    /\ TypeOK
    /\ \A i \in Insts :
          (proc[i] = "up" /\ boot[i] \notin Booting) =>
              \/ \E c \in Calls : call[c].inst = i
              \/ /\ workers[idOf[i]] = i
                 /\ status[i] \notin Down \/ i \in Spared

\* stop_worker says it has stopped a worker: the process has gone, or the
\* signal of a start_worker that gave it up is on its way.  The exceptions are
\* those of NoOrphan: stop_worker looks at the status and returns without a
\* look at the process.
StopMeansGone == \A i \in acked : proc[i] = "up" => i \in Spared

\* A worker that is down is never running again, except by a probe that read
\* the status before it went down and stores Running after.
DownForGood ==
    [][\A i \in Insts :
          (status[i] \in Down /\ status'[i] \notin Down) =>
              \E c \in Calls : call[c].inst = i /\ call[c].pc = "promote"]_vars

\* Every start_worker returns, whatever other instances, probes and stops do
\* to the entry it watches.
EveryStartReturns == \A i \in Insts : boot[i] \in Booting ~> boot[i] \notin Booting
=============================================================================
