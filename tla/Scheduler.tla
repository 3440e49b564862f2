----------------------------- MODULE Scheduler -----------------------------
(***************************************************************************)
(* The scheduler of the daemon (node/daemon/src/services/scheduler.rs):    *)
(* one task that waits for commands until the next event is due and then   *)
(* fires every event that is ready.                                        *)
(*                                                                         *)
(* recv() is polled before the timer, so an event fires only when no       *)
(* command waits.  Nothing forces an event to fire on time: the task may   *)
(* be late by any amount.  The monotonic and the UTC clock are one clock   *)
(* here.  The heap is a set: events with the same fire time leave it in an *)
(* unspecified order, and all ready ones leave it in the same step.        *)
(***************************************************************************)
EXTENDS Integers, Sequences

CONSTANTS WorkOrders,   \* work orders that ask for scheduled events
          Schedules,    \* the schedules they ask for
          MinInterval,  \* min_schedule_interval_ms
          None,         \* an optional field that is not given
          MaxTime,      \* bound: the clock stops here
          MaxCommands   \* bound: commands ever sent

Option(S) == S \cup {None}

\* catch_up and max_lateness are the policy for late ticks.  The loop below
\* reads neither.
Schedule == [period : Nat, phase : Nat, start_at : Option(Nat),
             end_at : Option(Nat), max_occurrences : Option(Nat),
             catch_up : {"skip", "coalesce", "queue"}, max_lateness : Option(Nat)]

ASSUME SchedulerAssumption ==
    /\ None \notin Nat
    /\ Schedules \subseteq Schedule
    /\ MinInterval \in Nat

VARIABLES
    now,                \* Instant::now() and Utc::now()
    commands,           \* the command channel
    open,               \* the handle that sends commands still exists
    running,            \* the loop of run() has not ended
    scheduled_events,   \* the heap
    work_order_events,  \* work orders with an entry in the tracking map
    ledger,             \* history: what became of every accepted schedule
    sent                \* number of commands sent, for the bound

vars == <<now, commands, open, running, scheduled_events,
          work_order_events, ledger, sent>>

Command ==
    [op : {"add"}, work_order : WorkOrders, schedule : Schedules]
        \cup [op : {"remove"}, work_order : WorkOrders] \cup [op : {"stop"}]

\* id: position in the ledger.
ScheduledEvent == [id : Nat \ {0}, work_order : WorkOrders, schedule : Schedules,
                   next_fire_time : Nat, occurrence_count : Nat]

LedgerEntry == [work_order : WorkOrders, schedule : Schedules, fires : Nat,
                last : Nat, cancelled : BOOLEAN]

-----------------------------------------------------------------------------
validate_schedule(schedule) ==
    /\ schedule.period >= MinInterval
    /\ schedule.start_at # None => schedule.start_at >= now
    /\ schedule.start_at # None /\ schedule.end_at # None =>
           schedule.end_at > schedule.start_at
    /\ schedule.max_occurrences # 0

\* The phase counts only when there is a start time still to come.
calculate_next_fire_time(schedule) ==
    IF schedule.start_at # None /\ now < schedule.start_at
    THEN schedule.start_at + schedule.phase
    ELSE now + schedule.period

\* Mutant: off by one occurrence.
should_reschedule_late(event) ==
    /\ event.schedule.max_occurrences # None =>
           event.occurrence_count <= event.schedule.max_occurrences
    /\ event.schedule.end_at # None => now < event.schedule.end_at

\* Asked after the occurrence has been counted.
should_reschedule(event) ==
    /\ event.schedule.max_occurrences # None =>
           event.occurrence_count < event.schedule.max_occurrences
    /\ event.schedule.end_at # None => now < event.schedule.end_at

-----------------------------------------------------------------------------
Init ==
    /\ now = 0
    /\ commands = <<>>
    /\ open = TRUE
    /\ running = TRUE
    /\ scheduled_events = {}
    /\ work_order_events = {}
    /\ ledger = <<>>
    /\ sent = 0

Tick ==
    /\ now < MaxTime
    /\ now' = now + 1
    /\ UNCHANGED <<commands, open, running, scheduled_events,
                   work_order_events, ledger, sent>>

\* The methods of SchedulerHandle.
Send(command) ==
    /\ open
    /\ sent < MaxCommands
    /\ sent' = sent + 1
    /\ commands' = Append(commands, command)
    /\ UNCHANGED <<now, open, running, scheduled_events,
                   work_order_events, ledger>>

DropHandle ==
    /\ open
    /\ open' = FALSE
    /\ UNCHANGED <<now, commands, running, scheduled_events,
                   work_order_events, ledger, sent>>

-----------------------------------------------------------------------------
\* One turn of the loop that receives a command.
Receive(op) ==
    /\ running
    /\ commands # <<>> /\ Head(commands).op = op
    /\ commands' = Tail(commands)
    /\ UNCHANGED <<now, open, running, sent>>

\* A schedule that does not validate is logged and dropped.
add_scheduled_event ==
    LET command == Head(commands)
    IN  /\ Receive("add")
        /\ IF validate_schedule(command.schedule)
           THEN /\ scheduled_events' = scheduled_events \cup
                       {[id |-> Len(ledger) + 1, work_order |-> command.work_order,
                         schedule |-> command.schedule,
                         next_fire_time |-> calculate_next_fire_time(command.schedule),
                         occurrence_count |-> 0]}
                /\ work_order_events' = work_order_events \cup {command.work_order}
                /\ ledger' = Append(ledger,
                       [work_order |-> command.work_order,
                        schedule |-> command.schedule,
                        fires |-> 0, last |-> 0, cancelled |-> FALSE])
           ELSE UNCHANGED <<scheduled_events, work_order_events, ledger>>

\* Mutant: only the tracking map is cleaned up, the heap is left to the check
\* that fire_ready_events makes.
remove_work_order_lazily ==
    LET w == Head(commands).work_order
    IN  /\ Receive("remove")
        /\ work_order_events' = work_order_events \ {w}
        /\ ledger' = [i \in DOMAIN ledger |->
               IF ledger[i].work_order = w
               THEN [ledger[i] EXCEPT !.cancelled = TRUE] ELSE ledger[i]]
        /\ UNCHANGED scheduled_events

remove_work_order ==
    LET w == Head(commands).work_order
    IN  /\ Receive("remove")
        /\ work_order_events' = work_order_events \ {w}
        /\ scheduled_events' = {e \in scheduled_events : e.work_order # w}
        /\ ledger' = [i \in DOMAIN ledger |->
               IF ledger[i].work_order = w
               THEN [ledger[i] EXCEPT !.cancelled = TRUE] ELSE ledger[i]]

\* handle_command returns Ok and the loop goes on.
Stop ==
    /\ Receive("stop")
    /\ UNCHANGED <<scheduled_events, work_order_events, ledger>>

ChannelClosed ==
    /\ running /\ ~open /\ commands = <<>>
    /\ running' = FALSE
    /\ UNCHANGED <<now, commands, open, scheduled_events,
                   work_order_events, ledger, sent>>

Counted(event) == [event EXCEPT !.occurrence_count = @ + 1]

Rescheduled(event) ==
    [event EXCEPT !.next_fire_time = calculate_next_fire_time(event.schedule)]

\* Every event in `firing' is sent to the event channel once.
Fired(firing) ==
    [i \in DOMAIN ledger |->
        IF \E e \in firing : e.id = i
        THEN [ledger[i] EXCEPT !.fires = @ + 1, !.last = now] ELSE ledger[i]]

\* Mutant: the next fire time is computed from the missed one, so that a late
\* scheduler fires in bursts.
fire_ready_events_burst ==
    LET ready == {e \in scheduled_events : e.next_fire_time <= now}
        firing == {e \in ready : e.work_order \in work_order_events}
    IN  /\ running /\ open /\ commands = <<>>
        /\ ready # {}
        /\ scheduled_events' = (scheduled_events \ ready) \cup
               {[e EXCEPT !.next_fire_time = @ + e.schedule.period] :
                   e \in {f \in {Counted(g) : g \in firing} : should_reschedule(f)}}
        /\ ledger' = Fired(firing)
        /\ UNCHANGED <<now, commands, open, running, work_order_events,
                       sent>>

\* Mutant: an event that was missed is not ready any more.
fire_ready_events_exact ==
    LET ready == {e \in scheduled_events : e.next_fire_time = now}
        firing == {e \in ready : e.work_order \in work_order_events}
    IN  /\ running /\ open /\ commands = <<>>
        /\ ready # {}
        /\ scheduled_events' = (scheduled_events \ ready) \cup
               {Rescheduled(e) :
                   e \in {f \in {Counted(g) : g \in firing} : should_reschedule(f)}}
        /\ ledger' = Fired(firing)
        /\ UNCHANGED <<now, commands, open, running, work_order_events,
                       sent>>

\* The wait for a command timed out.
fire_ready_events ==
    LET ready == {e \in scheduled_events : e.next_fire_time <= now}
        firing == {e \in ready : e.work_order \in work_order_events}
    IN  /\ running /\ open /\ commands = <<>>
        /\ ready # {}
        /\ scheduled_events' = (scheduled_events \ ready) \cup
               {Rescheduled(e) :
                   e \in {f \in {Counted(g) : g \in firing} : should_reschedule(f)}}
        /\ ledger' = Fired(firing)
        /\ UNCHANGED <<now, commands, open, running, work_order_events,
                       sent>>

-----------------------------------------------------------------------------
HandleCommand == add_scheduled_event \/ remove_work_order \/ Stop

Next ==
    \/ Tick
    \/ \E command \in Command : Send(command)
    \/ DropHandle
    \/ HandleCommand
    \/ ChannelClosed
    \/ fire_ready_events

\* The scheduler task is polled whenever a command or its timer is ready, and
\* time passes.  Nobody has to send commands.
Fairness ==
    /\ WF_vars(HandleCommand)
    /\ WF_vars(ChannelClosed)
    /\ WF_vars(fire_ready_events)
    /\ WF_vars(Tick)

Spec == Init /\ [][Next]_vars /\ Fairness

-----------------------------------------------------------------------------
\* Type invariant.
TypeOK ==
    /\ now \in Nat
    /\ commands \in Seq(Command)
    /\ open \in BOOLEAN /\ running \in BOOLEAN
    /\ scheduled_events \subseteq ScheduledEvent
    /\ work_order_events \subseteq WorkOrders
    /\ ledger \in Seq(LedgerEntry)
    /\ sent \in Nat

\* A schedule that has had its occurrences or has passed its end time.
Finished(i) ==
    \/ ledger[i].schedule.max_occurrences = ledger[i].fires
    \/ /\ ledger[i].schedule.end_at # None
       /\ ledger[i].fires > 0 /\ ledger[i].last >= ledger[i].schedule.end_at

\* Over any history of additions, removals, late turns and re-additions, the
\* heap holds exactly the accepted schedules that are neither removed nor
\* finished, each once, with the right count: no tick is scheduled twice, none
\* is forgotten, and a removed work order leaves nothing behind.
HeapMatchesLedger ==
    /\ TypeOK
    /\ \A i \in DOMAIN ledger :
           (\E e \in scheduled_events : e.id = i)
               <=> ~ledger[i].cancelled /\ ~Finished(i)
    /\ \A e \in scheduled_events :
           /\ e.id \in DOMAIN ledger
           /\ e.occurrence_count = ledger[e.id].fires
           /\ \A f \in scheduled_events : e.id = f.id => e = f

\* No schedule fires more often than its max_occurrences, whatever the
\* lateness of the scheduler.
OccurrencesBounded ==
    \A i \in DOMAIN ledger :
        ledger[i].schedule.max_occurrences # None =>
            ledger[i].fires <= ledger[i].schedule.max_occurrences

\* A step fires a schedule at most once, never before its start time and
\* never less than a period after the last time, however late that was; a
\* removed one never again.
FiresInTime ==
    \A i \in DOMAIN ledger :
        LET was == ledger[i]
            is == ledger'[i]
        IN  is.fires # was.fires =>
                /\ is.fires = was.fires + 1
                /\ ~was.cancelled
                /\ was.schedule.start_at # None => now >= was.schedule.start_at
                /\ was.fires > 0 => now - was.last >= was.schedule.period

PeriodKept == [][FiresInTime]_vars

\* What the policy of a schedule lets happen to a tick that comes late: with
\* the default "skip", or past max_lateness, it may be dropped.
MayDrop(schedule) == schedule.catch_up = "skip" \/ schedule.max_lateness # None

\* A due tick of a schedule whose policy asks for late ticks fires or its work
\* order is removed, unless the scheduler ends, even when commands keep its
\* task busy for a while.  (The code fires the late ticks of every other
\* schedule too, against their policy; this claims nothing about those.)
DueEventFires ==
    \A i \in 1 .. MaxCommands, k \in 0 .. MaxTime :
        (\E e \in scheduled_events :
            /\ e.id = i /\ e.occurrence_count = k /\ e.next_fire_time <= now
            /\ ~MayDrop(e.schedule))
        ~> \/ i \in DOMAIN ledger /\ (ledger[i].fires > k \/ ledger[i].cancelled)
           \/ ~running

-----------------------------------------------------------------------------
\* "end_at: ISO 8601 timestamp when scheduling should stop": nothing fires at
\* or after it.
EndHonoured ==
    [][\A i \in DOMAIN ledger :
          ledger'[i].fires # ledger[i].fires
              /\ ledger[i].schedule.end_at # None =>
                  now < ledger[i].schedule.end_at]_vars
=============================================================================
