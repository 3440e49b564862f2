-------------------------- MODULE SchedulerProofs --------------------------
(***************************************************************************)
(* Proofs about Scheduler, for any work orders and schedules and any       *)
(* history of commands, late turns and ticks.                              *)
(***************************************************************************)
EXTENDS Scheduler, TLAPS

\* A heap entry carries the schedule that its ledger entry records, and its
\* work order is tracked: no event that is ready is dropped unfired.
EntriesRecorded ==
    \A e \in scheduled_events :
        /\ e.id \in DOMAIN ledger
        /\ e.work_order = ledger[e.id].work_order
        /\ e.schedule = ledger[e.id].schedule
        /\ e.work_order \in work_order_events

\* The next fire time respects the start time, and the period since the last
\* time.
NextInTime ==
    \A e \in scheduled_events :
        /\ e.schedule.start_at # None => e.next_fire_time >= e.schedule.start_at
        /\ e.occurrence_count > 0 =>
               e.next_fire_time >= ledger[e.id].last + e.schedule.period

IInv ==
    /\ HeapMatchesLedger
    /\ OccurrencesBounded
    /\ EntriesRecorded
    /\ NextInTime

-----------------------------------------------------------------------------
(* Facts about the operators of Scheduler.                                 *)

\* The next fire time of a schedule is a time.
LEMMA FireTimeType ==
    ASSUME NEW schedule \in Schedules, now \in Nat
    PROVE  calculate_next_fire_time(schedule) \in Nat
BY SchedulerAssumption DEF calculate_next_fire_time, Schedule, Option

\* The event that fire_ready_events puts back into the heap for e.
Again(e) == Rescheduled(Counted(e))

\* It differs from e in its count and its time only.
LEMMA AgainFields ==
    ASSUME NEW e \in ScheduledEvent, now \in Nat
    PROVE  /\ Again(e) \in ScheduledEvent
           /\ Again(e).id = e.id /\ Again(e).work_order = e.work_order
           /\ Again(e).schedule = e.schedule
           /\ Again(e).occurrence_count = e.occurrence_count + 1
           /\ Again(e).next_fire_time = calculate_next_fire_time(e.schedule)
<1>1. calculate_next_fire_time(e.schedule) \in Nat
  BY FireTimeType DEF ScheduledEvent
<1>2. /\ Counted(e) \in ScheduledEvent
      /\ Counted(e).id = e.id /\ Counted(e).work_order = e.work_order
      /\ Counted(e).schedule = e.schedule
      /\ Counted(e).occurrence_count = e.occurrence_count + 1
  BY DEF Counted, ScheduledEvent
<1> DEFINE f == Counted(e)
<1>3. Again(e) = [f EXCEPT !.next_fire_time = calculate_next_fire_time(e.schedule)]
  BY <1>2 DEF Again, Rescheduled
<1> HIDE DEF f
<1>4. f \in ScheduledEvent /\ f.id = e.id /\ f.work_order = e.work_order
      /\ f.schedule = e.schedule /\ f.occurrence_count = e.occurrence_count + 1
  BY <1>2 DEF f
<1> QED BY <1>1, <1>3, <1>4 DEF ScheduledEvent

\* A counted event is rescheduled if it has occurrences and time left.
LEMMA RescheduleCounted ==
    ASSUME NEW e \in ScheduledEvent
    PROVE  should_reschedule(Counted(e)) <=>
               /\ e.schedule.max_occurrences # None =>
                      e.occurrence_count + 1 < e.schedule.max_occurrences
               /\ e.schedule.end_at # None => now < e.schedule.end_at
BY DEF should_reschedule, Counted, ScheduledEvent

\* A ledger that is updated entry by entry is a ledger of the same length.
LEMMA UpdatedLedger ==
    ASSUME NEW old \in Seq(LedgerEntry), NEW new, DOMAIN new = DOMAIN old,
           new = [i \in DOMAIN old |-> new[i]],
           \A i \in DOMAIN old : new[i] \in LedgerEntry
    PROVE  new \in Seq(LedgerEntry) /\ Len(new) = Len(old)
OBVIOUS

\* What removing work order w makes of entry i.
LEMMA CancelledEntry ==
    ASSUME TypeOK, NEW w, NEW new,
           new = [i \in DOMAIN ledger |->
                     IF ledger[i].work_order = w
                     THEN [ledger[i] EXCEPT !.cancelled = TRUE] ELSE ledger[i]]
    PROVE  /\ new \in Seq(LedgerEntry) /\ Len(new) = Len(ledger)
           /\ DOMAIN new = DOMAIN ledger
           /\ \A i \in DOMAIN ledger :
                  /\ new[i].work_order = ledger[i].work_order
                  /\ new[i].schedule = ledger[i].schedule
                  /\ new[i].fires = ledger[i].fires /\ new[i].last = ledger[i].last
                  /\ new[i].cancelled <=> ledger[i].cancelled \/ ledger[i].work_order = w
<1>1. \A i \in DOMAIN ledger : ledger[i] \in LedgerEntry
  BY DEF TypeOK
<1>2. \A i \in DOMAIN ledger : new[i] \in LedgerEntry
  BY <1>1 DEF LedgerEntry
<1>3. new \in Seq(LedgerEntry) /\ Len(new) = Len(ledger)
  BY <1>2, UpdatedLedger DEF TypeOK
<1> QED BY <1>1, <1>3 DEF LedgerEntry

\* An entry with other numbers is an entry.
LEMMA CountedEntry ==
    ASSUME NEW x \in LedgerEntry, NEW count \in Nat, NEW time \in Nat,
           NEW y, y = [x EXCEPT !.fires = count, !.last = time]
    PROVE  y \in LedgerEntry
BY DEF LedgerEntry

\* What firing makes of entry i.
LEMMA FiredEntry ==
    ASSUME TypeOK, NEW firing, NEW new, new = Fired(firing)
    PROVE  /\ new \in Seq(LedgerEntry) /\ Len(new) = Len(ledger)
           /\ DOMAIN new = DOMAIN ledger
           /\ \A i \in DOMAIN ledger :
                  /\ new[i].work_order = ledger[i].work_order
                  /\ new[i].schedule = ledger[i].schedule
                  /\ new[i].cancelled = ledger[i].cancelled
                  /\ IF \E e \in firing : e.id = i
                     THEN new[i].fires = ledger[i].fires + 1 /\ new[i].last = now
                     ELSE new[i] = ledger[i]
<1>1. \A i \in DOMAIN ledger : ledger[i] \in LedgerEntry
  BY DEF TypeOK
<1>2. DOMAIN new = DOMAIN ledger /\ new = [i \in DOMAIN ledger |-> new[i]]
  BY DEF Fired
<1>3. ASSUME NEW i \in DOMAIN ledger
      PROVE  /\ new[i] \in LedgerEntry
             /\ new[i].work_order = ledger[i].work_order
             /\ new[i].schedule = ledger[i].schedule
             /\ new[i].cancelled = ledger[i].cancelled
             /\ IF \E e \in firing : e.id = i
                THEN new[i].fires = ledger[i].fires + 1 /\ new[i].last = now
                ELSE new[i] = ledger[i]
  <2>1. CASE \E e \in firing : e.id = i
    <3>1. new[i] = [ledger[i] EXCEPT !.fires = @ + 1, !.last = now]
      BY <2>1 DEF Fired
    <3>2. now \in Nat
      BY DEF TypeOK
    <3>3. ledger[i] \in LedgerEntry
      BY <1>1
    <3>4. new[i] \in LedgerEntry
      <4>1. PICK count \in Nat : count = ledger[i].fires + 1
        BY <3>3 DEF LedgerEntry
      <4>2. new[i] = [ledger[i] EXCEPT !.fires = count, !.last = now]
        BY <3>1, <3>3, <4>1 DEF LedgerEntry
      <4> QED BY <3>2, <3>3, <4>1, <4>2, CountedEntry
    <3>5. /\ new[i].work_order = ledger[i].work_order
          /\ new[i].schedule = ledger[i].schedule
          /\ new[i].cancelled = ledger[i].cancelled
          /\ new[i].fires = ledger[i].fires + 1 /\ new[i].last = now
      BY <3>1, <3>3 DEF LedgerEntry
    <3> QED BY <2>1, <3>4, <3>5
  <2>2. CASE ~\E e \in firing : e.id = i
    BY <1>1, <2>2 DEF Fired
  <2> QED BY <2>1, <2>2
<1>4. new \in Seq(LedgerEntry) /\ Len(new) = Len(ledger)
  BY <1>2, <1>3, UpdatedLedger DEF TypeOK
<1> QED BY <1>2, <1>3, <1>4

-----------------------------------------------------------------------------
(* Type correctness.                                                       *)

\* Initially every variable has its type.
LEMMA InitTypeOK == Init => TypeOK
BY DEF Init, TypeOK

\* Receiving takes the first command.
LEMMA ReceiveEffect ==
    ASSUME TypeOK, NEW op, Receive(op)
    PROVE  /\ Head(commands) \in Command /\ Head(commands).op = op
           /\ commands' \in Seq(Command)
           /\ UNCHANGED <<now, open, running, sent>>
BY DEF TypeOK, Receive

\* Every step keeps the types.
LEMMA NextTypeOK == TypeOK /\ [Next]_vars => TypeOK'
<1> SUFFICES ASSUME TypeOK, [Next]_vars PROVE TypeOK'
  OBVIOUS
<1>1. CASE Tick
  BY <1>1 DEF Tick, TypeOK
<1>2. ASSUME NEW command \in Command, Send(command) PROVE TypeOK'
  BY <1>2 DEF Send, TypeOK
<1>3. CASE DropHandle
  BY <1>3 DEF DropHandle, TypeOK
<1>4. CASE add_scheduled_event
  <2>1. /\ Head(commands) \in Command /\ Head(commands).op = "add"
        /\ commands' \in Seq(Command) /\ UNCHANGED <<now, open, running, sent>>
    BY <1>4, ReceiveEffect DEF add_scheduled_event
  <2>2. Head(commands).work_order \in WorkOrders /\ Head(commands).schedule \in Schedules
    BY <2>1 DEF Command
  <2>3. calculate_next_fire_time(Head(commands).schedule) \in Nat
    BY <2>2, FireTimeType DEF TypeOK
  <2>4. CASE validate_schedule(Head(commands).schedule)
    <3>1. scheduled_events' \subseteq ScheduledEvent
      BY <1>4, <2>2, <2>3, <2>4 DEF add_scheduled_event, TypeOK, ScheduledEvent
    <3>2. ledger' \in Seq(LedgerEntry)
      <4>1. [work_order |-> Head(commands).work_order,
             schedule |-> Head(commands).schedule,
             fires |-> 0, last |-> 0, cancelled |-> FALSE] \in LedgerEntry
        BY <2>2 DEF LedgerEntry
      <4> QED BY <1>4, <2>4, <4>1 DEF add_scheduled_event, TypeOK
    <3> QED BY <1>4, <2>1, <2>2, <2>4, <3>1, <3>2 DEF add_scheduled_event, TypeOK
  <2>5. CASE ~validate_schedule(Head(commands).schedule)
    BY <1>4, <2>1, <2>5 DEF add_scheduled_event, TypeOK
  <2> QED BY <2>4, <2>5
<1>5. CASE remove_work_order
  <2>1. commands' \in Seq(Command) /\ UNCHANGED <<now, open, running, sent>>
    BY <1>5, ReceiveEffect DEF remove_work_order
  <2>2. ledger' \in Seq(LedgerEntry)
    BY <1>5, CancelledEntry DEF remove_work_order
  <2> QED BY <1>5, <2>1, <2>2 DEF remove_work_order, TypeOK
<1>6. CASE Stop
  BY <1>6, ReceiveEffect DEF Stop, TypeOK
<1>7. CASE ChannelClosed
  BY <1>7 DEF ChannelClosed, TypeOK
<1>8. CASE fire_ready_events
  <2>1. ledger' \in Seq(LedgerEntry)
    BY <1>8, FiredEntry DEF fire_ready_events
  <2>2. scheduled_events' \subseteq ScheduledEvent
    BY <1>8, AgainFields DEF fire_ready_events, TypeOK, Again
  <2> QED BY <1>8, <2>1, <2>2 DEF fire_ready_events, TypeOK
<1>9. CASE UNCHANGED vars
  BY <1>9 DEF vars, TypeOK
<1> QED
  BY <1>1, <1>2, <1>3, <1>4, <1>5, <1>6, <1>7, <1>8, <1>9 DEF Next, HandleCommand

-----------------------------------------------------------------------------
(* The inductive invariant.                                                *)

\* The numbers of a schedule.
LEMMA ScheduleFields ==
    ASSUME NEW schedule \in Schedules
    PROVE  /\ schedule.period \in Nat /\ schedule.phase \in Nat
           /\ schedule.start_at \in Nat \cup {None}
           /\ schedule.end_at \in Nat \cup {None}
           /\ schedule.max_occurrences \in Nat \cup {None}
BY SchedulerAssumption DEF Schedule, Option

\* Steps that touch neither the heap nor the ledger keep it.
LEMMA QuietStep ==
    ASSUME IInv, TypeOK', UNCHANGED <<scheduled_events, work_order_events, ledger>>
    PROVE  IInv'
<1>1. \A i : Finished(i)' <=> Finished(i)
  BY DEF Finished
<1>2. HeapMatchesLedger'
  BY <1>1 DEF IInv, HeapMatchesLedger
<1>3. OccurrencesBounded' /\ EntriesRecorded' /\ NextInTime'
  BY DEF IInv, OccurrencesBounded, EntriesRecorded, NextInTime
<1> QED BY <1>2, <1>3 DEF IInv

\* A schedule that validates gets an entry with a number of its own, that is
\* not finished: it asks for at least one occurrence.
LEMMA AddStep ==
    ASSUME IInv, TypeOK', add_scheduled_event,
           validate_schedule(Head(commands).schedule)
    PROVE  IInv'
<1> USE SchedulerAssumption
<1>1. TypeOK
  BY DEF IInv, HeapMatchesLedger
<1>0. PICK n \in Nat : n = Len(ledger) + 1
  BY <1>1 DEF TypeOK
<1> DEFINE command == Head(commands)
           new == [id |-> n, work_order |-> command.work_order,
                   schedule |-> command.schedule,
                   next_fire_time |-> calculate_next_fire_time(command.schedule),
                   occurrence_count |-> 0]
           entry == [work_order |-> command.work_order, schedule |-> command.schedule,
                     fires |-> 0, last |-> 0, cancelled |-> FALSE]
<1>2. command.work_order \in WorkOrders /\ command.schedule \in Schedules
  BY <1>1, ReceiveEffect DEF add_scheduled_event, Command
<1>3. /\ scheduled_events' = scheduled_events \cup {new}
      /\ work_order_events' = work_order_events \cup {command.work_order}
      /\ ledger' = Append(ledger, entry)
      /\ now' = now
  BY <1>0 DEF add_scheduled_event, Receive
<1>4. entry \in LedgerEntry
  BY <1>2 DEF LedgerEntry
<1>5. /\ DOMAIN ledger = 1 .. n - 1 /\ DOMAIN ledger' = 1 .. n
      /\ \A i \in DOMAIN ledger : ledger'[i] = ledger[i]
      /\ ledger'[n] = entry
  BY <1>0, <1>1, <1>3, <1>4 DEF TypeOK
<1>6. /\ \A e \in scheduled_events : e.id \in DOMAIN ledger /\ e.id # n
      /\ new.id = n
  BY <1>5 DEF IInv, EntriesRecorded
<1>7. /\ entry.fires = 0 /\ entry.cancelled = FALSE
      /\ entry.schedule = command.schedule /\ entry.work_order = command.work_order
      /\ new.occurrence_count = 0 /\ new.schedule = command.schedule
      /\ new.work_order = command.work_order
      /\ new.next_fire_time = calculate_next_fire_time(command.schedule)
  OBVIOUS
<1> HIDE DEF new, entry
<1>8. HeapMatchesLedger'
  <2>1. \A i \in DOMAIN ledger : Finished(i)' <=> Finished(i)
    BY <1>5 DEF Finished
  <2>2. ~Finished(n)'
    BY <1>5, <1>7 DEF Finished, validate_schedule
  <2>3. \A i \in DOMAIN ledger' :
            (\E e \in scheduled_events' : e.id = i)
                <=> ~ledger'[i].cancelled /\ ~Finished(i)'
    <3>1. ASSUME NEW i \in DOMAIN ledger
          PROVE  (\E e \in scheduled_events' : e.id = i)
                     <=> ~ledger'[i].cancelled /\ ~Finished(i)'
      BY <1>3, <1>5, <1>6, <2>1 DEF IInv, HeapMatchesLedger
    <3>2. (\E e \in scheduled_events' : e.id = n)
              <=> ~ledger'[n].cancelled /\ ~Finished(n)'
      BY <1>3, <1>5, <1>6, <1>7, <2>2
    <3> QED BY <1>5, <3>1, <3>2
  <2>4. \A e \in scheduled_events' :
            /\ e.id \in DOMAIN ledger'
            /\ e.occurrence_count = ledger'[e.id].fires
            /\ \A f \in scheduled_events' : e.id = f.id => e = f
    BY <1>3, <1>5, <1>6, <1>7 DEF IInv, HeapMatchesLedger
  <2> QED BY <2>3, <2>4 DEF HeapMatchesLedger
<1>9. OccurrencesBounded'
  BY <1>2, <1>5, <1>7, ScheduleFields DEF IInv, OccurrencesBounded
<1>10. EntriesRecorded'
  BY <1>3, <1>5, <1>6, <1>7 DEF IInv, EntriesRecorded
<1>11. NextInTime'
  <2>1. new.schedule.start_at # None => new.next_fire_time >= new.schedule.start_at
    BY <1>1, <1>2, <1>7, ScheduleFields
       DEF calculate_next_fire_time, validate_schedule, TypeOK
  <2> QED BY <1>3, <1>5, <1>6, <1>7, <2>1 DEF IInv, NextInTime
<1> QED BY <1>8, <1>9, <1>10, <1>11 DEF IInv

\* A work order that is removed takes all of its entries along.
LEMMA RemoveStep ==
    ASSUME IInv, TypeOK', remove_work_order
    PROVE  IInv'
<1> DEFINE w == Head(commands).work_order
<1>1. TypeOK
  BY DEF IInv, HeapMatchesLedger
<1>2. /\ scheduled_events' = {e \in scheduled_events : e.work_order # w}
      /\ work_order_events' = work_order_events \ {w}
  BY DEF remove_work_order
<1>3. /\ DOMAIN ledger' = DOMAIN ledger
      /\ \A i \in DOMAIN ledger :
             /\ ledger'[i].work_order = ledger[i].work_order
             /\ ledger'[i].schedule = ledger[i].schedule
             /\ ledger'[i].fires = ledger[i].fires /\ ledger'[i].last = ledger[i].last
             /\ ledger'[i].cancelled <=> ledger[i].cancelled \/ ledger[i].work_order = w
  BY <1>1, CancelledEntry DEF remove_work_order
<1> HIDE DEF w
<1>4. HeapMatchesLedger'
  <2>1. \A i \in DOMAIN ledger : Finished(i)' <=> Finished(i)
    BY <1>3 DEF Finished
  <2>2. ASSUME NEW i \in DOMAIN ledger
        PROVE  (\E e \in scheduled_events' : e.id = i)
                   <=> ~ledger'[i].cancelled /\ ~Finished(i)'
    <3>1. (\E e \in scheduled_events' : e.id = i) <=>
              (\E e \in scheduled_events : e.id = i) /\ ledger[i].work_order # w
      BY <1>2 DEF IInv, EntriesRecorded
    <3> QED BY <1>3, <2>1, <3>1 DEF IInv, HeapMatchesLedger
  <2> QED BY <1>2, <1>3, <2>2 DEF IInv, HeapMatchesLedger
<1>5. OccurrencesBounded' /\ EntriesRecorded' /\ NextInTime'
  BY <1>2, <1>3 DEF IInv, OccurrencesBounded, EntriesRecorded, NextInTime
<1> QED BY <1>4, <1>5 DEF IInv

\* Everything that is ready belongs to a tracked work order, so it is what
\* fires; an event goes back exactly if its entry is not finished.
LEMMA FireStep ==
    ASSUME IInv, TypeOK', fire_ready_events
    PROVE  IInv' /\ FiresInTime
<1> DEFINE ready == {e \in scheduled_events : e.next_fire_time <= now}
           back == {e \in ready : should_reschedule(Counted(e))}
<1>1. TypeOK /\ now \in Nat
  BY DEF IInv, HeapMatchesLedger, TypeOK
<1>2. ready = {e \in ready : e.work_order \in work_order_events}
  BY DEF IInv, EntriesRecorded
<1>3. scheduled_events' = (scheduled_events \ ready) \cup {Again(e) : e \in back}
  BY <1>2 DEF fire_ready_events, Again
<1>4. ledger' = Fired(ready) /\ work_order_events' = work_order_events
  BY <1>2 DEF fire_ready_events
<1>5. /\ DOMAIN ledger' = DOMAIN ledger
      /\ \A i \in DOMAIN ledger :
             /\ ledger'[i].work_order = ledger[i].work_order
             /\ ledger'[i].schedule = ledger[i].schedule
             /\ ledger'[i].cancelled = ledger[i].cancelled
             /\ IF \E e \in ready : e.id = i
                THEN ledger'[i].fires = ledger[i].fires + 1 /\ ledger'[i].last = now
                ELSE ledger'[i] = ledger[i]
  BY <1>1, <1>4, FiredEntry
<1>6. \A e \in ready :
          /\ Again(e).id = e.id /\ Again(e).work_order = e.work_order
          /\ Again(e).schedule = e.schedule
          /\ Again(e).occurrence_count = e.occurrence_count + 1
          /\ Again(e).next_fire_time = calculate_next_fire_time(e.schedule)
  BY <1>1, AgainFields DEF TypeOK
<1>7. \A e \in scheduled_events :
          /\ e \in ScheduledEvent
          /\ e.id \in DOMAIN ledger
          /\ e.occurrence_count = ledger[e.id].fires
          /\ e.schedule = ledger[e.id].schedule
          /\ \A f \in scheduled_events : e.id = f.id => e = f
  BY <1>1 DEF IInv, HeapMatchesLedger, EntriesRecorded, TypeOK
<1>8. \A i \in DOMAIN ledger : ledger[i] \in LedgerEntry
  BY <1>1 DEF TypeOK
<1>9. \A e \in ready : e \in scheduled_events /\ e.next_fire_time <= now
  OBVIOUS
<1>10. back \subseteq ready /\ ready \subseteq scheduled_events
  OBVIOUS
<1>11. ASSUME NEW e \in ready
       PROVE  e \in back <=> ~Finished(e.id)'
  <2>1. /\ ~Finished(e.id)
        /\ e.schedule.max_occurrences # None =>
               e.occurrence_count <= e.schedule.max_occurrences
    BY <1>7, <1>9 DEF IInv, HeapMatchesLedger, OccurrencesBounded
  <2>2. e \in back <=>
            /\ e.schedule.max_occurrences # None =>
                   e.occurrence_count + 1 < e.schedule.max_occurrences
            /\ e.schedule.end_at # None => now < e.schedule.end_at
    BY <1>7, <1>9, RescheduleCounted
  <2>3. /\ ledger'[e.id].fires = e.occurrence_count + 1 /\ ledger'[e.id].last = now
        /\ ledger'[e.id].schedule = e.schedule
    BY <1>5, <1>7, <1>9
  <2>4. e.occurrence_count \in Nat /\ e.schedule \in Schedules
    BY <1>7, <1>9 DEF ScheduledEvent
  <2>5. e.schedule.max_occurrences # e.occurrence_count
    BY <1>7, <1>9, <2>1 DEF Finished
  <2>6. Finished(e.id)' <=>
            \/ e.schedule.max_occurrences = e.occurrence_count + 1
            \/ e.schedule.end_at # None /\ now >= e.schedule.end_at
    BY <2>3, <2>4 DEF Finished
  <2>7. e.schedule.max_occurrences # None =>
            (e.occurrence_count + 1 < e.schedule.max_occurrences
                <=> e.schedule.max_occurrences # e.occurrence_count + 1)
    BY <2>1, <2>4, <2>5, ScheduleFields
  <2>8. e.schedule.max_occurrences = None =>
            e.schedule.max_occurrences # e.occurrence_count + 1
    BY <2>4, SchedulerAssumption
  <2>9. e.schedule.end_at # None =>
            (now < e.schedule.end_at <=> ~(now >= e.schedule.end_at))
    BY <1>1, <2>4, ScheduleFields
  <2> HIDE DEF ready, back
  <2> QED BY <2>2, <2>6, <2>7, <2>8, <2>9
<1> HIDE DEF ready, back
<1>12. HeapMatchesLedger'
  <2>1. ASSUME NEW i \in DOMAIN ledger
        PROVE  (\E e \in scheduled_events' : e.id = i)
                   <=> ~ledger'[i].cancelled /\ ~Finished(i)'
    <3>1. CASE \E e \in ready : e.id = i
      <4>1. PICK e \in ready : e.id = i
        BY <3>1
      <4>2. (\E f \in scheduled_events' : f.id = i) <=> e \in back
        BY <1>3, <1>6, <1>7, <1>10, <4>1
      <4>3. ~ledger[i].cancelled
        BY <1>10, <4>1 DEF IInv, HeapMatchesLedger
      <4> QED BY <1>5, <1>11, <4>1, <4>2, <4>3
    <3>2. CASE ~\E e \in ready : e.id = i
      <4>1. ledger'[i] = ledger[i]
        BY <1>5, <3>2
      <4>2. Finished(i)' <=> Finished(i)
        BY <4>1 DEF Finished
      <4>3. (\E f \in scheduled_events' : f.id = i) <=>
                (\E f \in scheduled_events : f.id = i)
        BY <1>3, <1>6, <1>10, <3>2
      <4> QED BY <4>1, <4>2, <4>3 DEF IInv, HeapMatchesLedger
    <3> QED BY <3>1, <3>2
  <2>2. ASSUME NEW e \in scheduled_events'
        PROVE  /\ e.id \in DOMAIN ledger'
               /\ e.occurrence_count = ledger'[e.id].fires
               /\ \A f \in scheduled_events' : e.id = f.id => e = f
    <3>1. CASE e \in scheduled_events \ ready
      BY <1>3, <1>5, <1>6, <1>7, <1>10, <3>1
    <3>2. CASE \E g \in back : e = Again(g)
      BY <1>3, <1>5, <1>6, <1>7, <1>10, <3>2
    <3> QED BY <1>3, <3>1, <3>2
  <2> QED BY <1>5, <2>1, <2>2 DEF HeapMatchesLedger
<1>13. OccurrencesBounded'
  <2> SUFFICES ASSUME NEW i \in DOMAIN ledger,
                      ledger[i].schedule.max_occurrences # None
               PROVE  ledger'[i].fires <= ledger[i].schedule.max_occurrences
    BY <1>5 DEF OccurrencesBounded
  <2>1. CASE \E e \in ready : e.id = i
    <3>1. PICK e \in ready : e.id = i
      BY <2>1
    <3>2. ~Finished(i)
      BY <1>10, <3>1 DEF IInv, HeapMatchesLedger
    <3>3. /\ ledger[i].schedule.max_occurrences # ledger[i].fires
          /\ ledger[i].fires <= ledger[i].schedule.max_occurrences
      BY <3>2 DEF Finished, IInv, OccurrencesBounded
    <3>4. ledger[i].schedule \in Schedules /\ ledger[i].fires \in Nat
      BY <1>8 DEF LedgerEntry
    <3> QED BY <1>5, <2>1, <3>3, <3>4, ScheduleFields
  <2>2. CASE ~\E e \in ready : e.id = i
    BY <1>5, <2>2 DEF IInv, OccurrencesBounded
  <2> QED BY <2>1, <2>2
<1>14. EntriesRecorded'
  BY <1>3, <1>4, <1>5, <1>6, <1>10 DEF IInv, EntriesRecorded
<1>15. NextInTime'
  <2>1. ASSUME NEW e \in scheduled_events \ ready
        PROVE  ledger'[e.id] = ledger[e.id]
    BY <1>5, <1>7, <1>10
  <2>2. ASSUME NEW e \in ready
        PROVE  /\ Again(e).schedule.start_at # None =>
                      Again(e).next_fire_time >= Again(e).schedule.start_at
               /\ Again(e).next_fire_time >=
                      ledger'[Again(e).id].last + Again(e).schedule.period
    <3>1. e.schedule \in Schedules /\ e.next_fire_time \in Nat
      BY <1>7, <1>10 DEF ScheduledEvent
    <3>2. e.schedule.start_at # None => now >= e.schedule.start_at
      BY <1>1, <1>9, <1>10, <3>1, ScheduleFields DEF IInv, NextInTime
    <3>3. calculate_next_fire_time(e.schedule) = now + e.schedule.period
      BY <1>1, <3>1, <3>2, ScheduleFields DEF calculate_next_fire_time
    <3>4. ledger'[e.id].last = now
      BY <1>5, <1>7, <1>10
    <3> QED BY <1>1, <1>6, <3>1, <3>2, <3>3, <3>4, ScheduleFields
  <2> QED BY <1>3, <1>10, <2>1, <2>2 DEF IInv, NextInTime
<1>16. FiresInTime
  <2> SUFFICES ASSUME NEW i \in DOMAIN ledger, ledger'[i].fires # ledger[i].fires
               PROVE  /\ ledger'[i].fires = ledger[i].fires + 1
                      /\ ~ledger[i].cancelled
                      /\ ledger[i].schedule.start_at # None =>
                             now >= ledger[i].schedule.start_at
                      /\ ledger[i].fires > 0 =>
                             now - ledger[i].last >= ledger[i].schedule.period
    BY DEF FiresInTime
  <2>1. PICK e \in ready : e.id = i
    BY <1>5
  <2>2. ledger'[i].fires = ledger[i].fires + 1 /\ ~ledger[i].cancelled
    BY <1>5, <1>10, <2>1 DEF IInv, HeapMatchesLedger
  <2>3. /\ e.next_fire_time \in Nat /\ e.next_fire_time <= now
        /\ e.schedule = ledger[i].schedule /\ e.schedule \in Schedules
        /\ e.occurrence_count = ledger[i].fires
        /\ ledger[i].last \in Nat
    BY <1>7, <1>8, <1>9, <1>10, <2>1 DEF ScheduledEvent, LedgerEntry
  <2>4. /\ e.schedule.start_at # None => e.next_fire_time >= e.schedule.start_at
        /\ e.occurrence_count > 0 =>
               e.next_fire_time >= ledger[i].last + e.schedule.period
    BY <1>10, <2>1 DEF IInv, NextInTime
  <2> QED BY <1>1, <2>2, <2>3, <2>4, ScheduleFields
<1> QED BY <1>12, <1>13, <1>14, <1>15, <1>16 DEF IInv

\* The empty heap matches the empty ledger.
LEMMA InitIInv == Init => IInv
<1> SUFFICES ASSUME Init PROVE IInv
  OBVIOUS
<1>1. TypeOK
  BY InitTypeOK
<1>2. scheduled_events = {} /\ DOMAIN ledger = {}
  BY DEF Init
<1> QED
  BY <1>1, <1>2
     DEF IInv, HeapMatchesLedger, OccurrencesBounded, EntriesRecorded, NextInTime

\* Every step keeps the invariant.
LEMMA NextIInv == IInv /\ [Next]_vars => IInv'
<1> SUFFICES ASSUME IInv, [Next]_vars PROVE IInv'
  OBVIOUS
<1>1. TypeOK /\ TypeOK'
  BY NextTypeOK DEF IInv, HeapMatchesLedger
<1>2. CASE Tick
  BY <1>1, <1>2, QuietStep DEF Tick
<1>3. ASSUME NEW command \in Command, Send(command) PROVE IInv'
  BY <1>1, <1>3, QuietStep DEF Send
<1>4. CASE DropHandle
  BY <1>1, <1>4, QuietStep DEF DropHandle
<1>5. CASE add_scheduled_event
  <2>1. CASE validate_schedule(Head(commands).schedule)
    BY <1>1, <1>5, <2>1, AddStep
  <2>2. CASE ~validate_schedule(Head(commands).schedule)
    BY <1>1, <1>5, <2>2, QuietStep DEF add_scheduled_event
  <2> QED BY <2>1, <2>2
<1>6. CASE remove_work_order
  BY <1>1, <1>6, RemoveStep
<1>7. CASE Stop
  BY <1>1, <1>7, QuietStep DEF Stop
<1>8. CASE ChannelClosed
  BY <1>1, <1>8, QuietStep DEF ChannelClosed
<1>9. CASE fire_ready_events
  BY <1>1, <1>9, FireStep
<1>10. CASE UNCHANGED vars
  BY <1>1, <1>10, QuietStep DEF vars
<1> QED
  BY <1>2, <1>3, <1>4, <1>5, <1>6, <1>7, <1>8, <1>9, <1>10 DEF Next, HandleCommand

\* Only fire_ready_events counts an occurrence, and it does so in time.
LEMMA StepFiresInTime == IInv /\ [Next]_vars => [FiresInTime]_vars
<1> SUFFICES ASSUME IInv, Next PROVE FiresInTime
  OBVIOUS
<1>1. TypeOK /\ TypeOK'
  BY NextTypeOK DEF IInv, HeapMatchesLedger
<1>2. CASE fire_ready_events
  BY <1>1, <1>2, FireStep
<1>3. CASE remove_work_order
  <2>1. \A i \in DOMAIN ledger : ledger'[i].fires = ledger[i].fires
    BY <1>1, <1>3, CancelledEntry DEF remove_work_order
  <2> QED BY <2>1 DEF FiresInTime
<1>4. CASE add_scheduled_event
  <2>1. CASE UNCHANGED ledger
    BY <2>1 DEF FiresInTime
  <2>2. CASE validate_schedule(Head(commands).schedule)
    <3>1. PICK entry : ledger' = Append(ledger, entry)
      BY <1>4, <2>2 DEF add_scheduled_event
    <3>2. \A i \in DOMAIN ledger : ledger'[i] = ledger[i]
      BY <1>1, <3>1 DEF TypeOK
    <3> QED BY <3>2 DEF FiresInTime
  <2> QED BY <1>4, <2>1, <2>2 DEF add_scheduled_event
<1>5. CASE UNCHANGED ledger
  BY <1>5 DEF FiresInTime
<1> QED
  BY <1>2, <1>3, <1>4, <1>5
     DEF Next, HandleCommand, Tick, Send, DropHandle, Stop, ChannelClosed

-----------------------------------------------------------------------------
(* What holds of every run of the scheduler.                               *)

\* The inductive invariant holds in every state.
LEMMA Inductive == Spec => []IInv
<1>1. Init => IInv
  BY InitIInv
<1>2. IInv /\ [Next]_vars => IInv'
  BY NextIInv
<1> QED BY <1>1, <1>2, PTL DEF Spec

\* The heap of scheduler.rs holds exactly the accepted schedules that are
\* neither removed nor finished, each once, with the right count.
THEOREM HeapExact == Spec => []HeapMatchesLedger
<1>1. IInv => HeapMatchesLedger
  BY DEF IInv
<1> QED BY <1>1, Inductive, PTL

\* No schedule fires more often than its max_occurrences.
THEOREM Bounded == Spec => []OccurrencesBounded
<1>1. IInv => OccurrencesBounded
  BY DEF IInv
<1> QED BY <1>1, Inductive, PTL

\* A schedule fires at most once in a step, not before its start time, not
\* within a period of the last time and not once it is removed, however late
\* the scheduler runs.
THEOREM InTime == Spec => PeriodKept
<1>1. IInv /\ [Next]_vars => [FiresInTime]_vars
  BY StepFiresInTime
<1> QED BY <1>1, Inductive, PTL DEF Spec, PeriodKept

=============================================================================
