-------------------------- MODULE WorkOrdersProofs --------------------------
(***************************************************************************)
(* Proofs about WorkOrders, for any orders, submissions and requests,      *)
(* queues of any capacity, and sources that serve what they like.          *)
(***************************************************************************)
EXTENDS WorkOrders, SequenceTheorems, TLAPS

\* Stages in which a submission has a bundle, those in which it is at an
\* identity, and those after the last one.
Idles == {"idle", "fetch", "duplicate", "error", "dropped"}
Asks == {"authorize", "execute", "terminate"}

Approves(s, i) ==
    [identity |-> IdentitiesOf[OrderOf[s]][i], bundle |-> submission[s].bundle]
        \in submission[s].approved

\* What a submission has established by its stage: its bundle is admitted, the
\* policies of the identities it has passed approved that bundle, and a worker
\* for a policy runs only between its start and its termination.
Checked(s) ==
    LET r == submission[s]
        o == OrderOf[s]
    IN  /\ r.stage \in {"idle", "fetch"} => r.index = 1
        /\ r.stage \notin Idles =>
               /\ r.bundle \in Served /\ r.bundle.vm \in attached
               /\ PointerOf[o].hash \in {None, r.bundle}
               /\ \A i \in DOMAIN IdentitiesOf[o] : i < r.index => Approves(s, i)
        /\ r.stage \in Asks => r.index \in DOMAIN IdentitiesOf[o]
        /\ r.stage = "terminate" /\ r.verdict = "approve" => Approves(s, r.index)
        /\ r.stage \notin Idles \cup Asks => r.index > Len(IdentitiesOf[o])
        /\ policy_worker[s] /\ phase # "exited" =>
               \/ r.stage \in {"execute", "terminate"}
               \/ r.stage = "dropped" /\ r.index \in DOMAIN IdentitiesOf[o]

AllChecked == \A s \in Submissions : Checked(s)

\* Order o is active, and its launch event has been queued if it asks for one.
Ready(o) ==
    /\ o \in active
    /\ "launch" \in EventsOf[o] /\ receiving => Launched(o, Len(queued))

\* Whatever produces events or takes requests for an order comes after its
\* activation and its launch event.
ReadyFirst ==
    /\ \A s \in Submissions :
           /\ submission[s].stage = "activate" => starts[OrderOf[s]] > 0
           /\ submission[s].stage = "launch" => OrderOf[s] \in active
           /\ submission[s].stage = "set up" => Ready(OrderOf[s])
           /\ submission[s].stage = "set up without listeners" =>
                  Ready(OrderOf[s]) /\ ~receiving
           /\ listener[s].pc # "none" => Ready(OrderOf[s])
    /\ \A o \in active : starts[o] > 0
    /\ \A o \in Orders : schedules[o] > 0 => Ready(o)
    /\ \A i \in DOMAIN fired : Ready(fired[i])
    /\ forwarder # None => Ready(forwarder.order)
    /\ \A o \in mounts : Ready(o)
    /\ \A r \in Requests : request[r] # None => Ready(request[r])

\* No event of an order precedes its launch event.
LaunchLeads ==
    \A o \in Orders : "launch" \in EventsOf[o] /\ receiving =>
        \A i \in DOMAIN queued : queued[i].order = o => Launched(o, i)

\* The enclave gets or misses only what was handed over.
Places ==
    /\ \A i \in DOMAIN received : received[i] <= Len(handed)
    /\ \A k \in missed : k <= Len(handed)

\* A batch that is not being sent has room.
BatchHasRoom == ~sending => Len(batch) < BatchSize

IInv ==
    /\ TypeOK
    /\ AllChecked
    /\ ReadyFirst
    /\ LaunchLeads
    /\ EventsAccounted
    /\ Places
    /\ BatchHasRoom

USE DEF start, http, workers, timer, web3, intake, pipeline

-----------------------------------------------------------------------------
(* Facts about the operators of WorkOrders.                                *)

\* The order of a submission.
LEMMA OrderType == \A s \in Submissions : OrderOf[s] \in Orders
BY WorkOrdersAssumption

\* A fresh submission is one.
LEMMA NewType == NewSubmission \in Submission
BY DEF NewSubmission, Submission, Stages

\* Only the stage of one submission changes.
LEMMA ToEffect ==
    ASSUME submission \in [Submissions -> Submission], NEW s \in Submissions,
           NEW stage \in Stages, To(s, stage)
    PROVE  /\ submission' \in [Submissions -> Submission]
           /\ \A t \in Submissions : t # s => submission'[t] = submission[t]
           /\ submission'[s].stage = stage
           /\ submission'[s].bundle = submission[s].bundle
           /\ submission'[s].index = submission[s].index
           /\ submission'[s].verdict = submission[s].verdict
           /\ submission'[s].approved = submission[s].approved
<1>1. PICK r \in Submission : r = submission[s]
  OBVIOUS
<1>2. PICK new : new = [r EXCEPT !.stage = stage]
  OBVIOUS
<1>3. /\ new \in Submission /\ new.stage = stage
      /\ new.bundle = r.bundle /\ new.index = r.index
      /\ new.verdict = r.verdict /\ new.approved = r.approved
  BY <1>2 DEF Submission
<1>4. submission' = [submission EXCEPT ![s] = new]
  BY <1>1, <1>2 DEF To
<1>5. /\ submission' \in [Submissions -> Submission] /\ submission'[s] = new
      /\ \A t \in Submissions : t # s => submission'[t] = submission[t]
  BY <1>3, <1>4
<1> QED BY <1>1, <1>3, <1>5

\* A submission that fails keeps nothing.
LEMMA FailEffect ==
    ASSUME submission \in [Submissions -> Submission], NEW s \in Submissions, Fail(s)
    PROVE  /\ submission' \in [Submissions -> Submission]
           /\ \A t \in Submissions : t # s => submission'[t] = submission[t]
           /\ submission'[s].stage = "error"
<1>1. PICK new : new = [NewSubmission EXCEPT !.stage = "error"]
  OBVIOUS
<1>2. new \in Submission /\ new.stage = "error"
  BY <1>1, NewType DEF Submission, Stages
<1>3. submission' = [submission EXCEPT ![s] = new]
  BY <1>1 DEF Fail
<1> QED BY <1>2, <1>3

\* A bundle that a fetch for an order accepts is one that a source serves and
\* the pointer of the order admits.
LEMMA BundleFacts ==
    ASSUME NEW o \in Orders, NEW bundle \in Bundles[o], bundle.form = "dsse"
    PROVE  bundle \in Served /\ PointerOf[o].hash \in {None, bundle}
<1>1. PICK served \in Served \cup {None} :
          bundle = FetchWorkerBundle(PointerOf[o], "work order", None, served)
  BY DEF Bundles
<1>2. Failure.form # "dsse" /\ Panic.form # "dsse"
  BY DEF Failure, Panic
<1>3. bundle # Failure /\ bundle # Panic
  BY <1>2
<1>4. ~FileResolves("work order")
  BY DEF FileResolves
<1> QED BY <1>1, <1>3, <1>4 DEF FetchWorkerBundle, Wrapped

\* The stage after an identity.
LEMMA NextCheckFacts ==
    ASSUME NEW s \in Submissions, NEW i \in Nat \ {0}
    PROVE  \/ /\ NextCheck(s, i) = "authorize"
              /\ i \in DOMAIN IdentitiesOf[OrderOf[s]]
           \/ /\ NextCheck(s, i) \in {"run", "secrets"}
              /\ i > Len(IdentitiesOf[OrderOf[s]])
BY WorkOrdersAssumption, OrderType DEF NextCheck

\* It is a stage.
LEMMA NextCheckType == \A s, i : NextCheck(s, i) \in Stages
BY DEF NextCheck, Stages

\* Counting keeps the type of a table of counters.
LEMMA CountType ==
    ASSUME NEW S, NEW f \in [S -> Nat], NEW x \in S
    PROVE  [f EXCEPT ![x] = @ + 1] \in [S -> Nat]
<1>1. PICK n \in Nat : n = f[x] + 1
  OBVIOUS
<1>2. [f EXCEPT ![x] = n] \in [S -> Nat]
  OBVIOUS
<1> QED BY <1>1, <1>2

\* A submission that goes on with the i-th identity.
LEMMA GoOnEffect ==
    ASSUME submission \in [Submissions -> Submission], NEW s \in Submissions,
           submission' = [submission EXCEPT ![s] = NextIdentity(s)]
    PROVE  /\ submission' \in [Submissions -> Submission]
           /\ \A t \in Submissions : t # s => submission'[t] = submission[t]
           /\ submission'[s].stage = NextCheck(s, submission[s].index + 1)
           /\ submission'[s].bundle = submission[s].bundle
           /\ submission'[s].index = submission[s].index + 1
           /\ submission'[s].approved = submission[s].approved
<1>1. PICK r \in Submission : r = submission[s]
  OBVIOUS
<1>2. PICK i \in Nat \ {0} : i = r.index + 1
  BY DEF Submission
<1>0. PICK stage \in Stages : stage = NextCheck(s, i)
  BY NextCheckFacts DEF Stages
<1>3. PICK new : new = [r EXCEPT !.stage = stage, !.index = i, !.verdict = None]
  OBVIOUS
<1>4. /\ new \in Submission /\ new.stage = stage /\ new.bundle = r.bundle
      /\ new.index = i /\ new.approved = r.approved
  BY <1>3 DEF Submission
<1>5. NextIdentity(s) = new
  BY <1>0, <1>1, <1>2, <1>3 DEF NextIdentity
<1>6. /\ submission' \in [Submissions -> Submission] /\ submission'[s] = new
      /\ \A t \in Submissions : t # s => submission'[t] = submission[t]
  BY <1>4, <1>5
<1> QED BY <1>0, <1>1, <1>2, <1>4, <1>6

\* A submission that has its bundle: one that a source serves, that the pointer
\* of its order admits, and whose VM is attached.
LEMMA FetchedEffect ==
    ASSUME submission \in [Submissions -> Submission], NEW s \in Submissions,
           NEW bundle \in Bundles[OrderOf[s]], FetchBundle(s, bundle), ~Fail(s)
    PROVE  /\ submission' \in [Submissions -> Submission]
           /\ \A t \in Submissions : t # s => submission'[t] = submission[t]
           /\ submission'[s].stage = NextCheck(s, 1)
           /\ submission'[s].bundle = bundle
           /\ submission'[s].index = submission[s].index
           /\ bundle \in Served /\ bundle.vm \in attached
           /\ PointerOf[OrderOf[s]].hash \in {None, bundle}
<1>1. PICK r \in Submission : r = submission[s]
  OBVIOUS
<1>2. PICK stage \in Stages : stage = NextCheck(s, 1)
  BY NextCheckType
<1>3. bundle.form = "dsse" /\ bundle.vm \in attached
  BY DEF FetchBundle
<1>4. bundle \in Served /\ PointerOf[OrderOf[s]].hash \in {None, bundle}
  BY <1>3, BundleFacts, OrderType
<1>5. PICK new : new = [r EXCEPT !.bundle = bundle, !.stage = stage]
  OBVIOUS
<1>6. /\ new \in Submission /\ new.stage = stage /\ new.bundle = bundle
      /\ new.index = r.index
  BY <1>4, <1>5 DEF Submission
<1>7. submission' = [submission EXCEPT ![s] = new]
  BY <1>1, <1>2, <1>5 DEF FetchBundle, Submission
<1>8. /\ submission' \in [Submissions -> Submission] /\ submission'[s] = new
      /\ \A t \in Submissions : t # s => submission'[t] = submission[t]
  BY <1>6, <1>7
<1> QED BY <1>1, <1>2, <1>3, <1>4, <1>6, <1>8

\* A submission whose policy has answered.
LEMMA JudgedEffect ==
    ASSUME submission \in [Submissions -> Submission], NEW s \in Submissions,
           NEW verdict \in {"approve", "deny", "error"},
           submission[s].index \in DOMAIN IdentitiesOf[OrderOf[s]],
           submission[s].bundle \in Served,
           submission' = [submission EXCEPT ![s] = Judged(s, verdict)]
    PROVE  /\ submission' \in [Submissions -> Submission]
           /\ \A t \in Submissions : t # s => submission'[t] = submission[t]
           /\ submission'[s].stage = "terminate"
           /\ submission'[s].bundle = submission[s].bundle
           /\ submission'[s].index = submission[s].index
           /\ submission'[s].verdict = verdict
           /\ submission[s].approved \subseteq submission'[s].approved
           /\ verdict = "approve" =>
                  [identity |-> IdentitiesOf[OrderOf[s]][submission[s].index],
                   bundle |-> submission[s].bundle] \in submission'[s].approved
<1>1. PICK r \in Submission : r = submission[s]
  OBVIOUS
<1>2. PICK approval : approval = [identity |-> IdentitiesOf[OrderOf[s]][r.index],
                                  bundle |-> r.bundle]
  OBVIOUS
<1>3. approval \in Approval
  <2>1. IdentitiesOf[OrderOf[s]][r.index] \in Identities
    BY <1>1, OrderType DEF Identities
  <2> QED BY <1>1, <1>2, <2>1 DEF Approval
<1>4. PICK approved : approved = IF verdict = "approve" THEN r.approved \cup {approval}
                                 ELSE r.approved
  OBVIOUS
<1>5. approved \in SUBSET Approval
  BY <1>3, <1>4 DEF Submission
<1>6. PICK new : new = [r EXCEPT !.verdict = verdict, !.stage = "terminate",
                                 !.approved = approved]
  OBVIOUS
<1>7. /\ new \in Submission /\ new.stage = "terminate" /\ new.bundle = r.bundle
      /\ new.index = r.index /\ new.verdict = verdict /\ new.approved = approved
  BY <1>5, <1>6 DEF Submission, Stages
<1>8. Judged(s, verdict) = new
  BY <1>1, <1>2, <1>4, <1>6 DEF Judged, Submission
<1>9. /\ submission' \in [Submissions -> Submission] /\ submission'[s] = new
      /\ \A t \in Submissions : t # s => submission'[t] = submission[t]
  BY <1>7, <1>8
<1> QED BY <1>1, <1>2, <1>4, <1>7, <1>9

\* Sequences that grow at their end and shrink at their front.
LEMMA SequenceFacts ==
    ASSUME NEW S, NEW q \in Seq(S)
    PROVE  /\ \A x \in S : /\ Append(q, x) \in Seq(S)
                           /\ Len(Append(q, x)) = Len(q) + 1
           /\ q # <<>> => /\ Head(q) \in S /\ Tail(q) \in Seq(S)
                          /\ Len(q) \in Nat \ {0} /\ Len(Tail(q)) = Len(q) - 1
OBVIOUS

\* Sending to the queue appends, if there is still a receiver.
LEMMA EnqueueEffect ==
    ASSUME TypeOK, NEW event \in Event, Enqueue(event)
    PROVE  /\ queue' \in Seq(Event) /\ Len(queue') <= Capacity
           /\ queued' \in Seq(Event)
           /\ receiving => queue' = Append(queue, event) /\ queued' = Append(queued, event)
           /\ ~receiving => UNCHANGED intake
<1>1. Capacity \in Nat
  BY WorkOrdersAssumption
<1>2. CASE receiving
  <2>1. /\ queue \in Seq(Event) /\ queued \in Seq(Event)
        /\ queue' = Append(queue, event) /\ queued' = Append(queued, event)
        /\ Len(queue) < Capacity
    BY <1>2 DEF TypeOK, Enqueue
  <2>2. queue' \in Seq(Event) /\ queued' \in Seq(Event) /\ Len(queue') = Len(queue) + 1
    BY <2>1, SequenceFacts
  <2>3. Len(queue) \in Nat
    BY <2>1
  <2> QED BY <1>1, <1>2, <2>1, <2>2, <2>3
<1>3. CASE ~receiving
  BY <1>3 DEF TypeOK, Enqueue
<1> QED BY <1>2, <1>3

\* Only the position of one listener changes.
LEMMA ListenAtEffect ==
    ASSUME TypeOK, NEW s \in Submissions,
           NEW pc \in {"none", "connect", "stream", "queue", "delay", "stopped"},
           ListenAt(s, pc)
    PROVE  /\ listener' \in [Submissions -> Listener]
           /\ \A t \in Submissions : t # s => listener'[t] = listener[t]
<1>1. PICK l \in Listener : l = listener[s]
  BY DEF TypeOK
<1>2. PICK new : new = [l EXCEPT !.pc = pc]
  OBVIOUS
<1>3. new \in Listener
  BY <1>2 DEF Listener
<1>4. listener' = [listener EXCEPT ![s] = new]
  BY <1>1, <1>2 DEF ListenAt, TypeOK
<1> QED BY <1>3, <1>4 DEF TypeOK

\* A listener that gets a log.
LEMMA LoggedType ==
    ASSUME NEW l \in Listener, NEW item \in Item
    PROVE  Logged(l, item) \in Listener /\ Logged(l, item).pc = l.pc
<1>1. PICK q \in Seq(Item) : q = l.stream
  BY DEF Listener
<1>2. Append(q, item) \in Seq(Item) /\ Append(l.seen, item) \in Seq(Item)
  BY SequenceFacts DEF Listener
<1>3. PICK seen \in Seq(Item) : seen = Append(l.seen, item)
  BY <1>2
<1>4. CASE Len(q) < StreamSize
  <2>1. PICK stream \in Seq(Item) : stream = Append(q, item)
    BY <1>2
  <2>2. PICK new : new = [l EXCEPT !.stream = stream, !.seen = seen]
    OBVIOUS
  <2>3. new \in Listener /\ new.pc = l.pc
    BY <2>2 DEF Listener
  <2> QED BY <1>1, <1>3, <1>4, <2>1, <2>2, <2>3 DEF Logged
<1>5. CASE ~(Len(q) < StreamSize)
  <2>0. q # <<>>
    <3>1. StreamSize \in Nat \ {0} /\ Len(q) \in Nat
      BY WorkOrdersAssumption
    <3> QED BY <1>5, <3>1
  <2>1. Head(q) \in Item /\ Tail(q) \in Seq(Item)
    BY <2>0, SequenceFacts
  <2>2. PICK stream \in Seq(Item) : stream = Append(Tail(q), item)
    BY <2>1, SequenceFacts
  <2>3. PICK lagged \in SUBSET Item : lagged = l.lagged \cup {Head(q)}
    BY <2>1 DEF Listener
  <2>4. PICK new : new = [l EXCEPT !.stream = stream, !.seen = seen, !.lagged = lagged]
    OBVIOUS
  <2>5. new \in Listener /\ new.pc = l.pc
    BY <2>4 DEF Listener
  <2> QED BY <1>1, <1>3, <1>5, <2>2, <2>3, <2>4, <2>5 DEF Logged
<1> QED BY <1>4, <1>5

\* The steps of a listener, and of what feeds it, change listeners that exist.
LEMMA ListenerEffect ==
    ASSUME TypeOK,
           \/ \E s \in Submissions : ListenerStep(s)
           \/ \E g \in DOMAIN gateways : StreamsEnd(g) \/ \E log \in Logs : Log(g, log)
    PROVE  /\ listener' \in [Submissions -> Listener]
           /\ \A s \in Submissions : listener'[s].pc # "none" => listener[s].pc # "none"
<1>1. ASSUME NEW s \in Submissions,
             NEW pc \in {"none", "connect", "stream", "queue", "delay", "stopped"},
             ListenAt(s, pc), listener[s].pc # "none"
      PROVE  /\ listener' \in [Submissions -> Listener]
             /\ \A t \in Submissions : listener'[t].pc # "none" => listener[t].pc # "none"
  BY <1>1, ListenAtEffect
<1>2. ASSUME NEW s \in Submissions, NEW new \in Listener,
             listener' = [listener EXCEPT ![s] = new], listener[s].pc # "none"
      PROVE  /\ listener' \in [Submissions -> Listener]
             /\ \A t \in Submissions : listener'[t].pc # "none" => listener[t].pc # "none"
  BY <1>2 DEF TypeOK
<1>3. ASSUME NEW s \in Submissions
      PROVE  Delay(s) \in {"none", "connect", "stream", "queue", "delay", "stopped"}
  BY DEF Delay
<1>4. ASSUME NEW s \in Submissions, ListenerConnect(s)
      PROVE  /\ listener' \in [Submissions -> Listener]
             /\ \A t \in Submissions : listener'[t].pc # "none" => listener[t].pc # "none"
  <2>1. listener[s].pc # "none"
    BY <1>4 DEF ListenerConnect, Listens
  <2>2. PICK new : new = Subscribed(listener[s])
    OBVIOUS
  <2>3. new \in Listener
    <3>1. listener[s] \in Listener
      BY DEF TypeOK
    <3> QED BY <2>2, <3>1 DEF Subscribed, Listener
  <2>4. \/ ListenAt(s, "stopped") \/ ListenAt(s, Delay(s))
        \/ listener' = [listener EXCEPT ![s] = new]
    BY <1>4, <2>2 DEF ListenerConnect
  <2> QED BY <1>1, <1>2, <1>3, <2>1, <2>3, <2>4
<1>5. ASSUME NEW s \in Submissions, ListenerNext(s)
      PROVE  /\ listener' \in [Submissions -> Listener]
             /\ \A t \in Submissions : listener'[t].pc # "none" => listener[t].pc # "none"
  <2>1. listener[s].pc # "none"
    BY <1>5 DEF ListenerNext, Listens
  <2>2. CASE ListenAt(s, Delay(s))
    BY <1>1, <1>3, <2>1, <2>2
  <2>3. CASE listener[s].stream # <<>>
    <3>1. PICK l \in Listener : l = listener[s]
      BY DEF TypeOK
    <3>2. l.stream \in Seq(Item) /\ l.stream # <<>>
      BY <2>3, <3>1 DEF Listener
    <3>0. Head(l.stream) \in Item /\ Tail(l.stream) \in Seq(Item)
      BY <3>2, SequenceFacts
    <3>3. PICK first \in Item, rest \in Seq(Item) :
              first = Head(l.stream) /\ rest = Tail(l.stream)
      BY <3>0
    <3>4. PICK held : held = [l EXCEPT !.stream = rest, !.pc = "queue", !.holding = first]
      OBVIOUS
    <3>5. PICK skipped : skipped = [l EXCEPT !.stream = rest]
      OBVIOUS
    <3>6. held \in Listener /\ skipped \in Listener
      BY <3>4, <3>5 DEF Listener
    <3>7. \/ listener' = [listener EXCEPT ![s] = held]
          \/ listener' = [listener EXCEPT ![s] = skipped]
      BY <1>5, <2>3, <3>1, <3>3, <3>4, <3>5 DEF ListenerNext
    <3> QED BY <1>2, <2>1, <3>6, <3>7
  <2> QED BY <1>5, <2>2, <2>3 DEF ListenerNext
<1>6. ASSUME NEW s \in Submissions, ListenerQueue(s)
      PROVE  /\ listener' \in [Submissions -> Listener]
             /\ \A t \in Submissions : listener'[t].pc # "none" => listener[t].pc # "none"
  <2>1. listener[s].pc # "none"
    BY <1>6 DEF ListenerQueue, Listens
  <2>2. PICK l \in Listener : l = listener[s]
    BY DEF TypeOK
  <2>0. /\ l.delivered \in Seq(Item \cup {None})
        /\ Append(l.delivered, l.holding) \in Seq(Item \cup {None})
    BY SequenceFacts DEF Listener
  <2>3. PICK delivered \in Seq(Item \cup {None}) :
            delivered = IF receiving THEN Append(l.delivered, l.holding) ELSE l.delivered
    BY <2>0
  <2>4. PICK new : new = [l EXCEPT !.pc = "stream", !.holding = None,
                                   !.delivered = delivered]
    OBVIOUS
  <2>5. new \in Listener
    BY <2>4 DEF Listener
  <2>6. listener' = [listener EXCEPT ![s] = new]
    BY <1>6, <2>2, <2>3, <2>4 DEF ListenerQueue
  <2> QED BY <1>2, <2>1, <2>5, <2>6
<1>7. ASSUME NEW s \in Submissions, ListenerWake(s) \/ ListenerStop(s)
      PROVE  /\ listener' \in [Submissions -> Listener]
             /\ \A t \in Submissions : listener'[t].pc # "none" => listener[t].pc # "none"
  BY <1>1, <1>7 DEF ListenerWake, ListenerStop, Listens
<1>8. ASSUME NEW g \in DOMAIN gateways, StreamsEnd(g)
      PROVE  /\ listener' \in [Submissions -> Listener]
             /\ \A t \in Submissions : listener'[t].pc # "none" => listener[t].pc # "none"
  <2>1. ASSUME NEW s \in Submissions
        PROVE  /\ [listener[s] EXCEPT !.open = FALSE] \in Listener
               /\ [listener[s] EXCEPT !.open = FALSE].pc = listener[s].pc
    <3>1. listener[s] \in Listener
      BY DEF TypeOK
    <3> QED BY <3>1 DEF Listener
  <2>2. \A s \in Submissions : listener[s] \in Listener
    BY DEF TypeOK
  <2>3. listener' = [s \in Submissions |->
            IF GatewayOf(s) = g THEN [listener[s] EXCEPT !.open = FALSE] ELSE listener[s]]
    BY <1>8 DEF StreamsEnd
  <2> QED BY <2>1, <2>2, <2>3
<1>9. ASSUME NEW g \in DOMAIN gateways, NEW log \in Logs, Log(g, log)
      PROVE  /\ listener' \in [Submissions -> Listener]
             /\ \A t \in Submissions : listener'[t].pc # "none" => listener[t].pc # "none"
  <2>0. occurred + 1 \in Nat
    BY WorkOrdersAssumption DEF TypeOK
  <2>1. PICK item \in Item : item = [id |-> occurred + 1, log |-> log]
    BY <2>0 DEF Item
  <2>2. PICK reached : reached = {s \in Submissions : GatewayOf(s) = g /\ listener[s].open}
    OBVIOUS
  <2>3. listener' = [s \in Submissions |->
            IF s \in reached THEN Logged(listener[s], item) ELSE listener[s]]
    BY <1>9, <2>1, <2>2 DEF Log
  <2>4. ASSUME NEW s \in Submissions
        PROVE  listener'[s] \in Listener /\ listener'[s].pc = listener[s].pc
    <3>1. PICK l \in Listener : l = listener[s]
      BY DEF TypeOK
    <3>2. Logged(l, item) \in Listener /\ Logged(l, item).pc = l.pc
      BY LoggedType
    <3>3. listener'[s] = IF s \in reached THEN Logged(l, item) ELSE l
      BY <2>3, <3>1
    <3> QED BY <3>1, <3>2, <3>3
  <2>5. listener' = [s \in Submissions |-> listener'[s]]
    BY <2>3
  <2> QED BY <2>4, <2>5
<1> QED BY <1>4, <1>5, <1>6, <1>7, <1>8, <1>9 DEF ListenerStep

\* What a call of deliver_batch_events does to the places.
LEMMA DeliveredPlaces ==
    ASSUME TypeOK, EventsAccounted, Places, NEW n \in 0 .. Len(batch), Delivered(n)
    PROVE  /\ received' \in Seq(Nat) /\ missed' \subseteq Nat
           /\ handed' = handed \o batch
           /\ Places'
           /\ \A i, j \in DOMAIN received' : i < j => received'[i] < received'[j]
           /\ \A k \in 1 .. Len(handed') :
                  k \in missed' <=> \A i \in DOMAIN received' : received'[i] # k
<1>1. /\ handed \in Seq(Event) /\ batch \in Seq(Event)
      /\ received \in Seq(Nat) /\ missed \subseteq Nat
  BY DEF TypeOK
<1>2. PICK h \in Nat, b \in Nat, m \in Nat :
          h = Len(handed) /\ b = Len(batch) /\ m = Len(received)
  BY <1>1
<1>3. n \in Nat /\ n <= b
  BY <1>2
<1>4. PICK old \in Seq(Nat) : old = received
  BY <1>1
<1>5. PICK got : got = [i \in 1 .. n |-> h + i]
  OBVIOUS
<1>6. got \in Seq(Nat) /\ Len(got) = n /\ \A i \in 1 .. n : got[i] = h + i
  BY <1>3, <1>5
<1>7. PICK all : all = old \o got
  OBVIOUS
<1>8. /\ all \in Seq(Nat) /\ DOMAIN all = 1 .. (m + n)
      /\ \A i \in 1 .. (m + n) : all[i] = IF i <= m THEN old[i] ELSE got[i - m]
  <2>1. /\ all \in Seq(Nat) /\ Len(all) = Len(old) + Len(got)
        /\ \A i \in 1 .. Len(old) + Len(got) :
              all[i] = IF i <= Len(old) THEN old[i] ELSE got[i - Len(old)]
    BY <1>6, <1>7, ConcatProperties
  <2>2. Len(old) = m /\ Len(got) = n
    BY <1>2, <1>4, <1>6
  <2>3. DOMAIN all = 1 .. Len(all)
    BY <2>1
  <2> QED BY <2>1, <2>2, <2>3
<1>9. received' = all /\ missed' = missed \cup ((h + n + 1) .. (h + b))
  BY <1>2, <1>4, <1>5, <1>7 DEF Delivered
<1>10. handed' = handed \o batch /\ Len(handed') = h + b
  BY <1>1, <1>2, ConcatProperties DEF Delivered
<1>11. /\ DOMAIN old = 1 .. m
       /\ \A i \in 1 .. m : old[i] \in Nat /\ old[i] <= h
       /\ \A i, j \in 1 .. m : i < j => old[i] < old[j]
       /\ \A k \in missed : k <= h
       /\ \A k \in 1 .. h : k \in missed <=> \A i \in 1 .. m : old[i] # k
  BY <1>2, <1>4 DEF EventsAccounted, Places
<1>12. ASSUME NEW i \in 1 .. (m + n), i > m PROVE all[i] = h + (i - m)
  <2>1. i - m \in 1 .. n
    BY <1>2, <1>3, <1>12
  <2> QED BY <1>6, <1>8, <1>12, <2>1
<1>13. ASSUME NEW i \in 1 .. (m + n), i <= m
       PROVE  i \in 1 .. m /\ all[i] = old[i] /\ all[i] <= h
  BY <1>2, <1>3, <1>8, <1>11, <1>13
<1>14. ASSUME NEW i \in 1 .. (m + n), NEW j \in 1 .. (m + n), i < j PROVE all[i] < all[j]
  <2>1. CASE j <= m
    BY <1>2, <1>11, <1>13, <1>14, <2>1
  <2>2. CASE i <= m /\ j > m
    BY <1>2, <1>3, <1>8, <1>12, <1>13, <1>14, <2>2
  <2>3. CASE i > m
    BY <1>2, <1>3, <1>12, <1>14, <2>3
  <2> QED BY <1>2, <1>3, <2>1, <2>2, <2>3
<1>15. ASSUME NEW k \in 1 .. (h + b)
       PROVE  k \in missed' <=> \A i \in 1 .. (m + n) : all[i] # k
  <2>1. CASE k <= h
    <3>1. k \in missed' <=> k \in missed
      BY <1>2, <1>3, <1>9, <2>1
    <3>2. (\A i \in 1 .. m : old[i] # k) <=> \A i \in 1 .. (m + n) : all[i] # k
      <4>1. \A i \in 1 .. m : i \in 1 .. (m + n) /\ all[i] = old[i]
        BY <1>2, <1>3, <1>8
      <4>2. ASSUME NEW i \in 1 .. (m + n), i > m PROVE all[i] # k
        BY <1>2, <1>3, <1>12, <2>1, <4>2
      <4>3. \A i \in 1 .. (m + n) : i > m \/ i \in 1 .. m
        BY <1>2, <1>3
      <4> QED BY <4>1, <4>2, <4>3
    <3> QED BY <1>2, <1>11, <2>1, <3>1, <3>2
  <2>2. CASE k > h /\ k <= h + n
    <3>1. k \notin missed'
      BY <1>2, <1>3, <1>9, <1>11, <2>2
    <3>2. m + (k - h) \in 1 .. (m + n) /\ m + (k - h) > m /\ m + (k - h) \in Nat
      BY <1>2, <1>3, <2>2
    <3>3. all[m + (k - h)] = k
      BY <1>2, <1>12, <3>2
    <3> QED BY <3>1, <3>2, <3>3
  <2>3. CASE k > h + n
    <3>1. k \in missed'
      BY <1>2, <1>3, <1>9, <2>3
    <3>2. ASSUME NEW i \in 1 .. (m + n) PROVE all[i] # k
      BY <1>2, <1>3, <1>8, <1>12, <1>13, <2>3
    <3> QED BY <3>1, <3>2
  <2> QED BY <1>2, <1>3, <2>1, <2>2, <2>3
<1>16. Places'
  <2>1. \A i \in 1 .. (m + n) : all[i] <= h + b
    <3>1. ASSUME NEW i \in 1 .. (m + n) PROVE all[i] <= h + b
      <4>1. CASE i <= m
        <5>1. all[i] <= h /\ all[i] \in Nat
          BY <1>8, <1>13, <4>1
        <5> QED BY <1>2, <5>1
      <4>2. CASE i > m
        BY <1>2, <1>3, <1>12, <4>2
      <4> QED BY <1>2, <1>3, <4>1, <4>2
    <3> QED BY <3>1
  <2>2. \A k \in missed' : k <= h + b
    BY <1>1, <1>2, <1>3, <1>9, <1>11
  <2> QED BY <1>8, <1>9, <1>10, <2>1, <2>2 DEF Places
<1>17. missed' \subseteq Nat
  <2>1. (h + n + 1) .. (h + b) \subseteq Nat
    BY <1>2, <1>3
  <2> QED BY <1>1, <1>9, <2>1
<1> QED BY <1>8, <1>9, <1>10, <1>14, <1>15, <1>16, <1>17

-----------------------------------------------------------------------------
(* Type correctness.                                                       *)

\* What the initial state, and that after main has returned, are made of.
LEMMA InitialTypes ==
    /\ Idle \in [Submissions -> Submission]
    /\ NoRequest \in [Requests -> Orders \cup {None}]
    /\ NoneOf \in [Orders -> Nat]
    /\ NoProvider \in [Submissions \cup {SharedGateway} -> Seq({"live", "dead"})]
    /\ NotListening \in [Submissions -> Listener]
    /\ <<>> \in Seq(Event) /\ Len(<<>>) = 0 /\ <<>> \in Seq(Orders) /\ <<>> \in Seq(Nat)
    /\ 0 <= Capacity /\ 0 <= BatchSize /\ 0 \in 0 .. MaxEvents
<1>1. NoListener \in Listener
  BY DEF NoListener, Listener
<1>2. NoProvider \in [Submissions \cup {SharedGateway} -> Seq({"live", "dead"})]
  BY DEF NoProvider
<1>3. 0 <= Capacity /\ 0 <= BatchSize /\ 0 \in 0 .. MaxEvents
  BY WorkOrdersAssumption
<1> QED BY <1>1, <1>2, <1>3, NewType DEF Idle, NoRequest, NoneOf, NotListening

\* Steps up to the start of the worker.
LEMMA CheckingTypeOK ==
    ASSUME TypeOK, AllChecked, NEW s \in Submissions,
           CheckDuplicate(s) \/ PolicyStep(s) \/ EnsureSecrets(s) \/ RunWorker(s)
    PROVE  TypeOK'
<1>1. submission \in [Submissions -> Submission] /\ OrderOf[s] \in Orders
  BY OrderType DEF TypeOK
<1>2. CASE CheckDuplicate(s)
  <2>1. PICK stage \in {"duplicate", "fetch"} : To(s, stage)
    BY <1>2 DEF CheckDuplicate
  <2>2. submission' \in [Submissions -> Submission]
    BY <1>1, <2>1, ToEffect DEF Stages
  <2> QED BY <1>2, <2>2 DEF CheckDuplicate, TypeOK
<1>3. ASSUME submission' \in [Submissions -> Submission], Checking,
             policy_worker' \in [Submissions -> BOOLEAN], starts' \in [Orders -> Nat]
      PROVE  TypeOK'
  BY <1>3 DEF TypeOK, Checking
<1>4. /\ UNCHANGED policy_worker => policy_worker' \in [Submissions -> BOOLEAN]
      /\ UNCHANGED starts => starts' \in [Orders -> Nat]
      /\ \A b \in BOOLEAN : policy_worker' = [policy_worker EXCEPT ![s] = b] =>
             policy_worker' \in [Submissions -> BOOLEAN]
  BY DEF TypeOK
<1>5. Fail(s) => submission' \in [Submissions -> Submission]
  BY <1>1, FailEffect
<1>6. ASSUME NEW bundle \in Bundles[OrderOf[s]], FetchBundle(s, bundle) PROVE TypeOK'
  <2>1. CASE Fail(s)
    BY <1>3, <1>4, <1>5, <1>6, <2>1 DEF FetchBundle
  <2>2. CASE ~Fail(s)
    <3>1. submission' \in [Submissions -> Submission]
      BY <1>1, <1>6, <2>2, FetchedEffect
    <3> QED BY <1>3, <1>4, <1>6, <3>1 DEF FetchBundle
  <2> QED BY <2>1, <2>2
<1>7. ASSUME NEW policy, Authorize(s, policy) PROVE TypeOK'
  <2>1. submission' \in [Submissions -> Submission]
    BY <1>1, <1>5, <1>7, ToEffect DEF Authorize, Stages
  <2> QED BY <1>3, <1>4, <1>7, <2>1 DEF Authorize
<1>8. ASSUME NEW verdict \in {"approve", "deny", "error"}, ExecutePolicy(s, verdict)
      PROVE  TypeOK'
  <2>1. /\ submission[s].index \in DOMAIN IdentitiesOf[OrderOf[s]]
        /\ submission[s].bundle \in Served
    BY <1>8 DEF AllChecked, Checked, ExecutePolicy, At, Idles, Asks
  <2>2. submission' \in [Submissions -> Submission]
    BY <1>1, <1>8, <2>1, JudgedEffect DEF ExecutePolicy
  <2> QED BY <1>3, <1>4, <1>8, <2>2 DEF ExecutePolicy
<1>9. CASE TerminatePolicy(s)
  <2>1. submission' \in [Submissions -> Submission]
    BY <1>1, <1>5, <1>9, GoOnEffect DEF TerminatePolicy
  <2> QED BY <1>3, <1>4, <1>9, <2>1 DEF TerminatePolicy
<1>10. CASE EnsureSecrets(s)
  <2>1. submission' \in [Submissions -> Submission]
    BY <1>1, <1>5, <1>10, ToEffect DEF EnsureSecrets, Stages
  <2> QED BY <1>3, <1>4, <1>10, <2>1 DEF EnsureSecrets
<1>11. CASE RunWorker(s)
  <2>1. submission' \in [Submissions -> Submission]
    BY <1>1, <1>5, <1>11, ToEffect DEF RunWorker, Stages
  <2>2. starts' \in [Orders -> Nat]
    <3>1. UNCHANGED starts \/ starts' = [starts EXCEPT ![OrderOf[s]] = @ + 1]
      BY <1>11 DEF RunWorker
    <3>2. starts \in [Orders -> Nat]
      BY DEF TypeOK
    <3> QED BY <1>1, <3>1, <3>2, CountType
  <2> QED BY <1>3, <1>4, <1>11, <2>1, <2>2 DEF RunWorker
<1> QED BY <1>2, <1>6, <1>7, <1>8, <1>9, <1>10, <1>11 DEF PolicyStep

\* Steps after it.
LEMMA StartedTypeOK ==
    ASSUME TypeOK, NEW s \in Submissions, Activate(s) \/ QueueLaunch(s) \/ SetUp(s)
    PROVE  TypeOK'
<1>1. submission \in [Submissions -> Submission] /\ OrderOf[s] \in Orders
  BY OrderType DEF TypeOK
<1>2. CASE Activate(s)
  <2>1. submission' \in [Submissions -> Submission]
    BY <1>1, <1>2, ToEffect DEF Activate, Stages
  <2> QED BY <1>1, <1>2, <2>1 DEF Activate, TypeOK
<1>3. CASE QueueLaunch(s)
  <2>1. submission' \in [Submissions -> Submission]
    BY <1>1, <1>3, ToEffect DEF QueueLaunch, Stages
  <2>2. PICK event \in Event : Enqueue(event)
    BY <1>1, <1>3 DEF QueueLaunch, Event
  <2>3. queue' \in Seq(Event) /\ Len(queue') <= Capacity /\ queued' \in Seq(Event)
    BY <2>2, EnqueueEffect
  <2> QED BY <1>3, <2>1, <2>3 DEF QueueLaunch, TypeOK
<1>4. CASE SetUp(s)
  <2>1. submission' \in [Submissions -> Submission]
    BY <1>1, <1>4, ToEffect, FailEffect DEF SetUp, Stages
  <2>2. listener' \in [Submissions -> Listener]
    <3>1. ListenAt(s, "connect") \/ UNCHANGED listener
      BY <1>4 DEF SetUp, Offered, ListenAt
    <3> QED BY <3>1, ListenAtEffect DEF TypeOK
  <2>3. schedules' \in [Orders -> Nat]
    <3>1. \/ UNCHANGED schedules
          \/ schedules' = [schedules EXCEPT ![OrderOf[s]] = @ + 1]
          \/ schedules' = [schedules EXCEPT ![OrderOf[s]] = @]
      BY <1>4 DEF SetUp
    <3>2. schedules \in [Orders -> Nat]
      BY DEF TypeOK
    <3> QED BY <1>1, <3>1, <3>2, CountType
  <2>4. mounts' \subseteq Orders
    BY <1>1, <1>4 DEF SetUp, Offered, TypeOK
  <2> QED BY <1>4, <2>1, <2>2, <2>3, <2>4 DEF SetUp, TypeOK
<1> QED BY <1>2, <1>3, <1>4

\* Listeners, and what feeds them.
LEMMA ListenerTypeOK ==
    ASSUME TypeOK,
           \/ \E s \in Submissions : ListenerStep(s)
           \/ \E g \in DOMAIN gateways : StreamsEnd(g) \/ \E log \in Logs : Log(g, log)
    PROVE  TypeOK'
<1>1. listener' \in [Submissions -> Listener]
  BY ListenerEffect
<1>2. Listening
  BY DEF ListenerStep, ListenerConnect, ListenerNext, ListenerQueue, ListenerWake,
         ListenerStop, StreamsEnd, Log
<1>3. occurred' \in 0 .. MaxEvents
  <2>1. UNCHANGED occurred \/ (occurred < MaxEvents /\ occurred' = occurred + 1)
    BY DEF ListenerStep, ListenerConnect, ListenerNext, ListenerQueue, ListenerWake,
           ListenerStop, StreamsEnd, Log
  <2> QED BY <2>1, WorkOrdersAssumption DEF TypeOK
<1>4. queue' \in Seq(Event) /\ Len(queue') <= Capacity /\ queued' \in Seq(Event)
  <2>1. CASE UNCHANGED intake
    BY <2>1 DEF TypeOK
  <2>2. ASSUME NEW s \in Submissions, ListenerQueue(s) PROVE <1>4
    <3>1. PICK event \in Event : Enqueue(event)
      BY <2>2, OrderType DEF ListenerQueue, Event
    <3> QED BY <3>1, EnqueueEffect
  <2> QED BY <2>1, <2>2
          DEF ListenerStep, ListenerConnect, ListenerNext, ListenerWake,
              ListenerStop, StreamsEnd, Log
<1>5. gateways' \in [Submissions \cup {SharedGateway} -> Seq({"live", "dead"})]
  <2>1. CASE UNCHANGED gateways
    BY <2>1 DEF TypeOK
  <2>2. \A n \in Nat : Connected(n) \in Seq({"live", "dead"})
    BY DEF Connected
  <2>3. ASSUME NEW s \in Submissions, ListenerConnect(s) PROVE <1>5
    <3>1. \/ UNCHANGED gateways
          \/ \E n \in Nat : gateways' = [gateways EXCEPT ![GatewayOf(s)] = Connected(n)]
      BY <2>3 DEF ListenerConnect
    <3> QED BY <2>1, <2>2, <3>1 DEF TypeOK
  <2>4. ASSUME NEW g \in DOMAIN gateways, StreamsEnd(g) PROVE <1>5
    <3>1. gateways[g] \in Seq({"live", "dead"})
      BY DEF TypeOK
    <3>2. Dead(gateways[g]) \in Seq({"live", "dead"})
      <4>1. PICK q \in Seq({"live", "dead"}) : q = gateways[g]
        BY <3>1
      <4>2. Len(q) \in Nat /\ q \in [1 .. Len(q) -> {"live", "dead"}]
        OBVIOUS
      <4>3. [q EXCEPT ![1] = "dead"] \in [1 .. Len(q) -> {"live", "dead"}]
        BY <4>2
      <4>4. [q EXCEPT ![1] = "dead"] \in Seq({"live", "dead"})
        BY <4>2, <4>3
      <4> QED BY <4>1, <4>4 DEF Dead
    <3>3. \/ UNCHANGED gateways
          \/ gateways' = [gateways EXCEPT ![g] = Dead(gateways[g])]
      BY <2>4 DEF StreamsEnd
    <3> QED BY <2>1, <3>2, <3>3 DEF TypeOK
  <2> QED BY <2>1, <2>3, <2>4
          DEF ListenerStep, ListenerNext, ListenerQueue, ListenerWake, ListenerStop, Log
<1> QED BY <1>1, <1>2, <1>3, <1>4, <1>5 DEF Listening, TypeOK

\* The start and the end of the node, requests, the scheduler and the tasks
\* of main.
LEMMA MainTypeOK ==
    ASSUME TypeOK, EventsAccounted, Places, BatchHasRoom,
           \/ ConnectEnclave \/ AttachVm \/ Shutdown \/ Exit \/ Forward \/ BatchStep
           \/ \E r \in Requests : HttpReply(r) \/ \E o \in Orders : HttpRequest(r, o)
           \/ \E o \in Orders : Fire(o)
    PROVE  TypeOK'
<1>1. CASE ConnectEnclave \/ AttachVm
  BY <1>1 DEF ConnectEnclave, AttachVm, Booting, TypeOK
<1>2. CASE Shutdown
  BY <1>2 DEF Shutdown, TypeOK
<1>3. ASSUME NEW r \in Requests, HttpReply(r) \/ \E o \in Orders : HttpRequest(r, o)
      PROVE  TypeOK'
  BY <1>3 DEF HttpReply, HttpRequest, Asking, TypeOK
<1>4. ASSUME NEW o \in Orders, Fire(o) PROVE TypeOK'
  <2>1. fired' \in Seq(Orders)
    BY <1>4, SequenceFacts DEF Fire, TypeOK
  <2>2. occurred' \in 0 .. MaxEvents
    BY <1>4, WorkOrdersAssumption DEF Fire, TypeOK
  <2> QED BY <1>4, <2>1, <2>2 DEF Fire, TypeOK
<1>5. CASE TakeFired
  <2>1. fired' \in Seq(Orders) /\ Head(fired) \in Orders
    BY <1>5, SequenceFacts DEF TakeFired, TypeOK
  <2>2. forwarder' \in Event \cup {None}
    BY <1>5, <2>1 DEF TakeFired, Event
  <2> QED BY <1>5, <2>1, <2>2 DEF TakeFired, TypeOK
<1>6. CASE QueueFired
  <2>1. forwarder \in Event
    BY <1>6 DEF QueueFired, TypeOK
  <2>2. queue' \in Seq(Event) /\ Len(queue') <= Capacity /\ queued' \in Seq(Event)
    BY <1>6, <2>1, EnqueueEffect DEF QueueFired
  <2> QED BY <1>6, <2>2 DEF QueueFired, TypeOK
<1>7. CASE TakeQueued
  <2>1. queue \in Seq(Event) /\ queue # <<>> /\ batch \in Seq(Event)
    BY <1>7 DEF TakeQueued, TypeOK
  <2>2. /\ Head(queue) \in Event /\ Tail(queue) \in Seq(Event)
        /\ Len(queue) \in Nat \ {0} /\ Len(Tail(queue)) = Len(queue) - 1
    BY <2>1, SequenceFacts
  <2>3. /\ batch' \in Seq(Event) /\ Len(batch') = Len(batch) + 1
        /\ queue' \in Seq(Event) /\ Len(queue') = Len(queue) - 1
    BY <1>7, <2>1, <2>2, SequenceFacts DEF TakeQueued
  <2>4. Len(batch') <= BatchSize /\ Len(queue') <= Capacity
    <3>1. BatchSize \in Nat /\ Capacity \in Nat /\ Len(batch) \in Nat
      BY <2>1, WorkOrdersAssumption
    <3>2. Len(batch) < BatchSize /\ Len(queue) <= Capacity
      BY <1>7 DEF TakeQueued, BatchHasRoom, TypeOK
    <3> QED BY <2>2, <2>3, <3>1, <3>2
  <2>5. sending' \in BOOLEAN
    BY <1>7 DEF TakeQueued
  <2> QED BY <1>7, <2>3, <2>4, <2>5 DEF TakeQueued, TypeOK
<1>8. CASE SendBatch \/ EndBatchTask
  <2>1. /\ handed' = handed \o batch /\ batch' = <<>>
        /\ queue' = queue \/ queue' = <<>>
    BY <1>8 DEF SendBatch, EndBatchTask, Delivered
  <2>5. received' \in Seq(Nat) /\ missed' \subseteq Nat
    BY <1>8, DeliveredPlaces DEF SendBatch, EndBatchTask
  <2>2. handed' \in Seq(Event) /\ batch' \in Seq(Event) /\ Len(batch') = 0
    BY <2>1 DEF TypeOK
  <2>3. queue' \in Seq(Event) /\ Len(queue') <= Capacity
    BY <2>1, InitialTypes DEF TypeOK
  <2>4. Len(batch') <= BatchSize
    BY <2>2, WorkOrdersAssumption
  <2> QED BY <1>8, <2>2, <2>3, <2>4, <2>5 DEF SendBatch, EndBatchTask, TypeOK
<1>9. CASE Exit
  BY <1>9, InitialTypes DEF Exit, TypeOK
<1> QED BY <1>1, <1>2, <1>3, <1>4, <1>5, <1>6, <1>7, <1>8, <1>9 DEF Forward, BatchStep

-----------------------------------------------------------------------------
(* What submissions have established.                                      *)

\* It outlasts every step that leaves submissions and policy workers alone,
\* detaches no VM and does not come back from the exit.
LEMMA CheckedKept ==
    ASSUME AllChecked, UNCHANGED <<submission, policy_worker>>,
           attached \subseteq attached', phase = "exited" => phase' = "exited"
    PROVE  AllChecked'
<1> SUFFICES ASSUME NEW s \in Submissions PROVE Checked(s)'
  BY DEF AllChecked
<1>1. Checked(s)
  BY DEF AllChecked
<1>2. \A i : Approves(s, i) => Approves(s, i)'
  BY DEF Approves
<1> QED BY <1>1, <1>2 DEF Checked

\* A step of one submission is of no concern to the others.
LEMMA OthersChecked ==
    ASSUME AllChecked, NEW s \in Submissions,
           \A t \in Submissions : t # s => /\ submission'[t] = submission[t]
                                           /\ policy_worker'[t] = policy_worker[t],
           UNCHANGED <<attached, phase>>, Checked(s)'
    PROVE  AllChecked'
<1> SUFFICES ASSUME NEW t \in Submissions, t # s PROVE Checked(t)'
  BY DEF AllChecked
<1>1. Checked(t)
  BY DEF AllChecked
<1>2. \A i : Approves(t, i) => Approves(t, i)'
  BY DEF Approves
<1> QED BY <1>1, <1>2 DEF Checked

\* A submission that is done with the identities stays so; one that ends
\* early has nothing to show.
LEMMA MovedChecked ==
    ASSUME TypeOK, AllChecked, NEW s \in Submissions, NEW stage \in Stages, To(s, stage),
           UNCHANGED <<attached, phase, policy_worker>>, ~policy_worker[s],
           \/ stage = "duplicate"
           \/ stage = "fetch" /\ submission[s].stage = "idle"
           \/ submission[s].stage \notin Idles \cup Asks /\ stage \notin Idles \cup Asks
    PROVE  AllChecked'
<1>1. /\ \A t \in Submissions : t # s => submission'[t] = submission[t]
      /\ submission'[s].stage = stage
      /\ submission'[s].bundle = submission[s].bundle
      /\ submission'[s].index = submission[s].index
      /\ submission'[s].approved = submission[s].approved
  BY ToEffect DEF TypeOK
<1>2. \A i : Approves(s, i) => Approves(s, i)'
  BY <1>1 DEF Approves
<1>3. Checked(s)'
  BY <1>1, <1>2 DEF AllChecked, Checked, Idles, Asks
<1> QED BY <1>1, <1>3, OthersChecked

\* A submission that fails has nothing to show, and no worker for a policy.
LEMMA FailedChecked ==
    ASSUME TypeOK, AllChecked, NEW s \in Submissions, Fail(s),
           UNCHANGED <<attached, phase>>, policy_worker'[s] = FALSE,
           \A t \in Submissions : t # s => policy_worker'[t] = policy_worker[t]
    PROVE  AllChecked'
<1>1. /\ \A t \in Submissions : t # s => submission'[t] = submission[t]
      /\ submission'[s].stage = "error"
  BY FailEffect DEF TypeOK
<1>2. Checked(s)'
  BY <1>1 DEF Checked, Idles, Asks
<1> QED BY <1>1, <1>2, OthersChecked

\* The steps of a submission.
LEMMA SubmissionChecked ==
    ASSUME TypeOK, AllChecked, NEW s \in Submissions,
           CheckDuplicate(s) \/ SubmissionStep(s)
    PROVE  AllChecked'
<1>1. /\ submission \in [Submissions -> Submission] /\ OrderOf[s] \in Orders
      /\ submission[s] \in Submission
      /\ policy_worker \in [Submissions -> BOOLEAN]
  BY OrderType DEF TypeOK
<1>2. UNCHANGED <<attached, phase>>
  BY DEF CheckDuplicate, SubmissionStep, PolicyStep, FetchBundle, Authorize, ExecutePolicy,
         TerminatePolicy, EnsureSecrets, RunWorker, Activate, QueueLaunch, SetUp, Checking
<1>3. Running
  BY DEF CheckDuplicate, SubmissionStep, PolicyStep, FetchBundle, Authorize, ExecutePolicy,
         TerminatePolicy, EnsureSecrets, RunWorker, Activate, QueueLaunch, SetUp, At
<1>4. Checked(s) /\ phase # "exited"
  BY <1>3 DEF AllChecked, Running
<1>5. submission[s].stage \notin {"execute", "terminate"} => ~policy_worker[s]
  <2>1. submission[s].stage # "dropped"
    BY DEF CheckDuplicate, SubmissionStep, PolicyStep, FetchBundle, Authorize, ExecutePolicy,
           TerminatePolicy, EnsureSecrets, RunWorker, Activate, QueueLaunch, SetUp, At
  <2> QED BY <1>4, <2>1 DEF Checked
<1>6. ASSUME Fail(s), UNCHANGED policy_worker,
             submission[s].stage \notin {"execute", "terminate"}
      PROVE  AllChecked'
  <2>1. policy_worker'[s] = FALSE
    BY <1>1, <1>5, <1>6
  <2> QED BY <1>2, <1>6, <2>1, FailedChecked
<1>7. ASSUME NEW stage \in Stages, To(s, stage), UNCHANGED policy_worker,
             submission[s].stage \notin Idles \cup Asks, stage \notin Idles \cup Asks
      PROVE  AllChecked'
  <2>1. ~policy_worker[s]
    BY <1>5, <1>7 DEF Asks
  <2> QED BY <1>2, <1>7, <2>1, MovedChecked
<1>8. CASE CheckDuplicate(s)
  <2>1. PICK stage \in {"duplicate", "fetch"} : To(s, stage)
    BY <1>8 DEF CheckDuplicate
  <2>2. ~policy_worker[s] /\ submission[s].stage = "idle" /\ UNCHANGED policy_worker
    BY <1>5, <1>8 DEF CheckDuplicate, At
  <2> QED BY <1>2, <2>1, <2>2, MovedChecked DEF Stages
<1>9. ASSUME NEW bundle \in Bundles[OrderOf[s]], FetchBundle(s, bundle) PROVE AllChecked'
  <2>0. submission[s].stage = "fetch" /\ UNCHANGED policy_worker
    BY <1>9 DEF FetchBundle, At
  <2>1. CASE Fail(s)
    BY <1>6, <2>0, <2>1
  <2>2. CASE ~Fail(s)
    <3>1. /\ \A t \in Submissions : t # s => submission'[t] = submission[t]
          /\ submission'[s].stage = NextCheck(s, 1)
          /\ submission'[s].bundle = bundle
          /\ submission'[s].index = submission[s].index
          /\ bundle \in Served /\ bundle.vm \in attached
          /\ PointerOf[OrderOf[s]].hash \in {None, bundle}
      BY <1>1, <1>9, <2>2, FetchedEffect
    <3>2. submission[s].index = 1
      BY <1>4, <2>0 DEF Checked
    <3>3. \/ NextCheck(s, 1) = "authorize" /\ 1 \in DOMAIN IdentitiesOf[OrderOf[s]]
          \/ NextCheck(s, 1) \in {"run", "secrets"} /\ 1 > Len(IdentitiesOf[OrderOf[s]])
      BY NextCheckFacts
    <3>4. \A i \in DOMAIN IdentitiesOf[OrderOf[s]] : ~(i < 1)
      BY <1>1, WorkOrdersAssumption
    <3>5. ~policy_worker'[s]
      BY <1>5, <2>0
    <3>6. Checked(s)'
      BY <1>2, <3>1, <3>2, <3>3, <3>4, <3>5 DEF Checked, Idles, Asks
    <3> QED BY <1>2, <2>0, <3>1, <3>6, OthersChecked
  <2> QED BY <2>1, <2>2
<1>10. ASSUME NEW policy, Authorize(s, policy) PROVE AllChecked'
  <2>1. submission[s].stage = "authorize"
    BY <1>10 DEF Authorize, At
  <2>2. CASE Fail(s) /\ UNCHANGED policy_worker
    BY <1>6, <2>1, <2>2
  <2>3. CASE To(s, "execute") /\ policy_worker' = [policy_worker EXCEPT ![s] = TRUE]
    <3>1. /\ \A t \in Submissions : t # s => submission'[t] = submission[t]
          /\ submission'[s].stage = "execute"
          /\ submission'[s].bundle = submission[s].bundle
          /\ submission'[s].index = submission[s].index
          /\ submission'[s].approved = submission[s].approved
      BY <1>1, <2>3, ToEffect DEF Stages
    <3>2. \A i : Approves(s, i) => Approves(s, i)'
      BY <3>1 DEF Approves
    <3>3. Checked(s)'
      BY <1>2, <1>4, <2>1, <3>1, <3>2 DEF Checked, Idles, Asks
    <3>4. \A t \in Submissions : t # s => policy_worker'[t] = policy_worker[t]
      BY <1>1, <2>3
    <3> QED BY <1>2, <3>1, <3>3, <3>4, OthersChecked
  <2> QED BY <1>10, <2>2, <2>3 DEF Authorize
<1>11. ASSUME NEW verdict \in {"approve", "deny", "error"}, ExecutePolicy(s, verdict)
       PROVE  AllChecked'
  <2>1. submission[s].stage = "execute" /\ UNCHANGED policy_worker
    BY <1>11 DEF ExecutePolicy, At
  <2>2. /\ submission[s].index \in DOMAIN IdentitiesOf[OrderOf[s]]
        /\ submission[s].bundle \in Served
    BY <1>4, <2>1 DEF Checked, Idles, Asks
  <2>3. submission' = [submission EXCEPT ![s] = Judged(s, verdict)]
    BY <1>11 DEF ExecutePolicy
  <2>4. /\ \A t \in Submissions : t # s => submission'[t] = submission[t]
        /\ submission'[s].stage = "terminate"
        /\ submission'[s].bundle = submission[s].bundle
        /\ submission'[s].index = submission[s].index
        /\ submission'[s].verdict = verdict
        /\ submission[s].approved \subseteq submission'[s].approved
        /\ verdict = "approve" =>
               [identity |-> IdentitiesOf[OrderOf[s]][submission[s].index],
                bundle |-> submission[s].bundle] \in submission'[s].approved
    BY <1>1, <2>2, <2>3, JudgedEffect
  <2>5. \A i : Approves(s, i) => Approves(s, i)'
    <3>1. /\ submission'[s].bundle = submission[s].bundle
          /\ submission[s].approved \subseteq submission'[s].approved
      BY <2>4
    <3> QED BY <3>1 DEF Approves
  <2>6. submission'[s].verdict = "approve" => Approves(s, submission[s].index)'
    BY <2>4 DEF Approves
  <2>7. Checked(s)'
    BY <1>2, <1>4, <2>1, <2>2, <2>4, <2>5, <2>6 DEF Checked, Idles, Asks
  <2> QED BY <1>2, <2>1, <2>4, <2>7, OthersChecked
<1>12. CASE TerminatePolicy(s)
  <2>1. /\ submission[s].stage = "terminate"
        /\ policy_worker' = [policy_worker EXCEPT ![s] = FALSE]
    BY <1>12 DEF TerminatePolicy, At
  <2>2. /\ policy_worker'[s] = FALSE
        /\ \A t \in Submissions : t # s => policy_worker'[t] = policy_worker[t]
    BY <1>1, <2>1
  <2>3. CASE Fail(s)
    BY <1>2, <2>2, <2>3, FailedChecked
  <2>4. CASE ~Fail(s)
    <3>1. /\ submission[s].verdict = "approve"
          /\ submission' = [submission EXCEPT ![s] = NextIdentity(s)]
      BY <1>12, <2>4 DEF TerminatePolicy
    <3>2. PICK i \in Nat \ {0} : i = submission[s].index + 1
      BY <1>1 DEF Submission
    <3>3. /\ \A t \in Submissions : t # s => submission'[t] = submission[t]
          /\ submission'[s].stage = NextCheck(s, i)
          /\ submission'[s].bundle = submission[s].bundle
          /\ submission'[s].index = i
          /\ submission'[s].approved = submission[s].approved
      BY <1>1, <3>1, <3>2, GoOnEffect
    <3>4. \A j : Approves(s, j) => Approves(s, j)'
      BY <3>3 DEF Approves
    <3>5. /\ submission[s].bundle \in Served /\ submission[s].bundle.vm \in attached
          /\ PointerOf[OrderOf[s]].hash \in {None, submission[s].bundle}
          /\ \A j \in DOMAIN IdentitiesOf[OrderOf[s]] :
                 j < submission[s].index => Approves(s, j)
          /\ Approves(s, submission[s].index)
      BY <1>4, <2>1, <3>1 DEF Checked, Idles, Asks
    <3>6. \A j \in DOMAIN IdentitiesOf[OrderOf[s]] :
              j < i => j < submission[s].index \/ j = submission[s].index
      BY <1>1, <3>2, WorkOrdersAssumption DEF Submission
    <3>7. \A j \in DOMAIN IdentitiesOf[OrderOf[s]] : j < i => Approves(s, j)'
      BY <3>4, <3>5, <3>6
    <3>8. \/ NextCheck(s, i) = "authorize" /\ i \in DOMAIN IdentitiesOf[OrderOf[s]]
          \/ NextCheck(s, i) \in {"run", "secrets"} /\ i > Len(IdentitiesOf[OrderOf[s]])
      BY NextCheckFacts
    <3>9. Checked(s)'
      BY <1>2, <2>2, <3>3, <3>5, <3>7, <3>8 DEF Checked, Idles, Asks
    <3> QED BY <1>2, <2>2, <3>3, <3>9, OthersChecked
  <2> QED BY <2>3, <2>4
<1>13. CASE EnsureSecrets(s)
  <2>1. submission[s].stage = "secrets" /\ UNCHANGED policy_worker
    BY <1>13 DEF EnsureSecrets, At
  <2>2. To(s, "run") \/ Fail(s)
    BY <1>13 DEF EnsureSecrets
  <2> QED BY <1>6, <1>7, <2>1, <2>2 DEF Stages, Idles, Asks
<1>14. CASE RunWorker(s)
  <2>1. submission[s].stage = "run" /\ UNCHANGED policy_worker
    BY <1>14 DEF RunWorker, At
  <2>2. To(s, "activate") \/ Fail(s)
    BY <1>14 DEF RunWorker
  <2> QED BY <1>6, <1>7, <2>1, <2>2 DEF Stages, Idles, Asks
<1>15. CASE Activate(s)
  <2>1. submission[s].stage = "activate" /\ UNCHANGED policy_worker
    BY <1>15 DEF Activate, At
  <2>2. PICK stage \in {"launch", "set up"} : To(s, stage)
    BY <1>15 DEF Activate
  <2> QED BY <1>7, <2>1, <2>2 DEF Stages, Idles, Asks
<1>16. CASE QueueLaunch(s)
  <2>1. submission[s].stage = "launch" /\ UNCHANGED policy_worker
    BY <1>16 DEF QueueLaunch, At
  <2>2. PICK stage \in {"set up", "set up without listeners"} : To(s, stage)
    BY <1>16 DEF QueueLaunch
  <2> QED BY <1>7, <2>1, <2>2 DEF Stages, Idles, Asks
<1>17. CASE SetUp(s)
  <2>1. /\ submission[s].stage \in {"set up", "set up without listeners"}
        /\ UNCHANGED policy_worker
    BY <1>17 DEF SetUp, At
  <2>2. To(s, "ok") \/ Fail(s)
    BY <1>17 DEF SetUp
  <2> QED BY <1>6, <1>7, <2>1, <2>2 DEF Stages, Idles, Asks
<1> QED
  BY <1>8, <1>9, <1>10, <1>11, <1>12, <1>13, <1>14, <1>15, <1>16, <1>17
     DEF SubmissionStep, PolicyStep

-----------------------------------------------------------------------------
(* The queue and the batches.                                              *)

\* What was handed over, the batch and the queue, in order.
Parts(a, b, q) == a \o b \o q

\* A sequence of one element.
LEMMA OneElement == \A S : \A e \in S : <<e>> \in Seq(S)
OBVIOUS

\* Moving the first event from the queue to the batch changes nothing in their
\* concatenation.
LEMMA ShiftedSequence ==
    \A S : \A a, b, q \in Seq(S) :
        q # <<>> => Parts(a, Append(b, Head(q)), Tail(q)) = Parts(a, b, q)
<1> SUFFICES ASSUME NEW S, NEW a \in Seq(S), NEW b \in Seq(S), NEW q \in Seq(S), q # <<>>
             PROVE  a \o Append(b, Head(q)) \o Tail(q) = a \o b \o q
  BY DEF Parts
<1>1. Head(q) \in S /\ Tail(q) \in Seq(S)
  BY HeadTailProperties
<1>2. PICK first \in S, rest \in Seq(S) : first = Head(q) /\ rest = Tail(q)
  BY <1>1
<1>0. <<first>> \in Seq(S)
  BY OneElement
<1>3. PICK one \in Seq(S) : one = <<first>>
  BY <1>0
<1>4. q = one \o rest
  <2>1. Len(q) \in Nat \ {0} /\ q = SubSeq(q, 1, Len(q)) /\ Head(q) = q[1]
    OBVIOUS
  <2>2. SubSeq(q, 1, Len(q)) = <<q[1]>> \o SubSeq(q, 2, Len(q))
    BY <2>1, SubSeqRecursiveFirst
  <2>3. Tail(q) = SubSeq(q, 2, Len(q))
    BY TailIsSubSeq
  <2> QED BY <1>2, <1>3, <2>1, <2>2, <2>3
<1>5. Append(b, first) = b \o one
  BY <1>3, AppendIsConcat
<1>6. PICK ab \in Seq(S) : ab = a \o b
  BY ConcatProperties
<1>7. a \o (b \o one) = ab \o one
  BY <1>6, ConcatAssociative
<1>8. (ab \o one) \o rest = ab \o (one \o rest)
  BY ConcatAssociative
<1> QED BY <1>2, <1>4, <1>5, <1>6, <1>7, <1>8

\* An event that is appended to the last part is appended to the whole.
LEMMA AppendedSequence ==
    \A a, b, q \in Seq(Event) : \A e \in Event :
        Append(Parts(a, b, q), e) = Parts(a, b, Append(q, e))
<1> DEFINE S == Event
<1> SUFFICES ASSUME NEW a \in Seq(S), NEW b \in Seq(S), NEW q \in Seq(S), NEW e \in S
             PROVE  Append(a \o b \o q, e) = a \o b \o Append(q, e)
  BY DEF Parts
<1>1. PICK ab \in Seq(S) : ab = a \o b
  BY ConcatProperties
<1>0. <<e>> \in Seq(S)
  BY OneElement
<1>2. PICK one \in Seq(S) : one = <<e>>
  BY <1>0
<1>3. PICK abq \in Seq(S) : abq = ab \o q
  BY ConcatProperties
<1>4. Append(abq, e) = abq \o one
  BY <1>2, AppendIsConcat
<1>5. Append(q, e) = q \o one
  BY <1>2, AppendIsConcat
<1>6. (ab \o q) \o one = ab \o (q \o one)
  BY ConcatAssociative
<1> QED BY <1>1, <1>3, <1>4, <1>5, <1>6

\* A batch that is handed over.
LEMMA HandedSequence ==
    \A S : \A a, b, q \in Seq(S) : Parts(a \o b, <<>>, q) = Parts(a, b, q)
<1> SUFFICES ASSUME NEW S, NEW a \in Seq(S), NEW b \in Seq(S), NEW q \in Seq(S)
             PROVE  (a \o b) \o <<>> \o q = a \o b \o q
  BY DEF Parts
<1>1. a \o b \in Seq(S)
  BY ConcatProperties
<1> QED BY <1>1, ConcatEmptySeq

\* Queueing an event.
LEMMA QueuedAccounted ==
    ASSUME TypeOK, EventsAccounted, Places, BatchHasRoom, NEW event \in Event, Enqueue(event),
           UNCHANGED pipeline
    PROVE  EventsAccounted' /\ Places' /\ BatchHasRoom'
<1>1. CASE receiving
  <2>1. queue' = Append(queue, event) /\ queued' = Append(queued, event)
    BY <1>1, EnqueueEffect
  <2>2. queue \in Seq(Event) /\ batch \in Seq(Event) /\ handed \in Seq(Event)
    BY DEF TypeOK
  <2>3. Append(Parts(handed, batch, queue), event) = Parts(handed, batch, Append(queue, event))
    BY <2>2, AppendedSequence
  <2>4. queued = Parts(handed, batch, queue)
    BY <1>1 DEF EventsAccounted, Parts
  <2>5. queued' = Parts(handed', batch', queue')
    BY <2>1, <2>3, <2>4
  <2>6. EventsAccounted'
    BY <2>5 DEF EventsAccounted, Parts
  <2> QED BY <2>6 DEF BatchHasRoom, Places
<1>2. CASE ~receiving
  BY <1>2 DEF EventsAccounted, BatchHasRoom, Places
<1> QED BY <1>1, <1>2

\* The batch task.
LEMMA BatchAccounted ==
    ASSUME TypeOK, EventsAccounted, Places, BatchHasRoom, TakeQueued \/ SendBatch \/ EndBatchTask
    PROVE  EventsAccounted' /\ Places' /\ BatchHasRoom'
<1>1. /\ queue \in Seq(Event) /\ batch \in Seq(Event) /\ handed \in Seq(Event)
      /\ BatchSize \in Nat \ {0}
  BY WorkOrdersAssumption DEF TypeOK
<1>2. CASE TakeQueued
  <2>1. /\ queue' = Tail(queue) /\ batch' = Append(batch, Head(queue)) /\ queue # <<>>
        /\ sending' = (Len(batch') >= BatchSize \/ queue' = <<>>)
        /\ UNCHANGED <<queued, handed, receiving>>
    BY <1>2 DEF TakeQueued
  <2>2. Parts(handed, Append(batch, Head(queue)), Tail(queue)) = Parts(handed, batch, queue)
    BY <1>1, <2>1, ShiftedSequence
  <2>0. receiving => queued = Parts(handed, batch, queue)
    BY DEF EventsAccounted, Parts
  <2>6. receiving' => queued' = Parts(handed', batch', queue')
    BY <2>0, <2>1, <2>2
  <2>3. EventsAccounted' /\ Places'
    BY <1>2, <2>6 DEF EventsAccounted, Places, Parts, TakeQueued
  <2>4. Len(batch') \in Nat
    <3>1. Head(queue) \in Event
      BY <1>1, <2>1, HeadTailProperties
    <3> QED BY <1>1, <2>1, <3>1, AppendProperties
  <2>5. BatchHasRoom'
    <3>1. sending' \/ ~(Len(batch') >= BatchSize)
      BY <2>1
    <3> QED BY <1>1, <2>4, <3>1 DEF BatchHasRoom
  <2> QED BY <2>3, <2>5
<1>3. CASE SendBatch
  <2>1. Parts(handed \o batch, <<>>, queue) = Parts(handed, batch, queue)
    BY <1>1, HandedSequence
  <2>2. receiving => queued = Parts(handed, batch, queue)
    BY DEF EventsAccounted, Parts
  <2>0. PICK n \in 0 .. Len(batch) : Delivered(n)
    BY <1>3 DEF SendBatch
  <2>3. /\ handed' = handed \o batch /\ batch' = <<>>
        /\ UNCHANGED <<queue, queued, receiving>>
    BY <1>3, <2>0 DEF SendBatch, Delivered
  <2>6. receiving' => queued' = Parts(handed', batch', queue')
    BY <2>1, <2>2, <2>3
  <2>4. EventsAccounted' /\ Places'
    BY <2>0, <2>6, DeliveredPlaces DEF EventsAccounted, Parts
  <2>5. BatchHasRoom'
    BY <1>1, <2>3 DEF BatchHasRoom
  <2> QED BY <2>4, <2>5
<1>4. CASE EndBatchTask
  <2>1. PICK n \in 0 .. Len(batch) : Delivered(n)
    BY <1>4 DEF EndBatchTask
  <2>2. receiving' = FALSE /\ batch' = <<>>
    BY <1>4 DEF EndBatchTask
  <2>3. EventsAccounted' /\ Places'
    BY <2>1, <2>2, DeliveredPlaces DEF EventsAccounted
  <2> QED BY <1>1, <2>2, <2>3 DEF BatchHasRoom
<1> QED BY <1>2, <1>3, <1>4

-----------------------------------------------------------------------------
(* Activation and the launch event.                                        *)

\* The steps of a running node only add active orders and queued events.
Grows ==
    /\ active \subseteq active'
    /\ receiving' => receiving
    /\ queued' = queued \/ \E event \in Event : queued' = Append(queued, event)

\* The queued events are the same up to the length of the old queue.
LEMMA GrownQueue ==
    ASSUME TypeOK, Grows
    PROVE  /\ Len(queued) \in Nat /\ Len(queued') \in Nat
           /\ Len(queued) <= Len(queued')
           /\ \A i \in 1 .. Len(queued) : queued'[i] = queued[i]
           /\ \A o, n : n \in 0 .. Len(queued) => (Launched(o, n) => Launched(o, n)')
<1>1. queued \in Seq(Event)
  BY DEF TypeOK
<1>2. /\ Len(queued) \in Nat /\ Len(queued') \in Nat
      /\ Len(queued) <= Len(queued')
      /\ \A i \in 1 .. Len(queued) : queued'[i] = queued[i]
  <2>1. CASE queued' = queued
    BY <1>1, <2>1
  <2>2. ASSUME NEW event \in Event, queued' = Append(queued, event) PROVE <1>2
    BY <1>1, <2>2
  <2> QED BY <2>1, <2>2 DEF Grows
<1>3. ASSUME NEW o, NEW n \in 0 .. Len(queued), Launched(o, n) PROVE Launched(o, n)'
  <2>1. PICK i \in 1 .. n : queued[i].order = o /\ queued[i].kind = "launch"
    BY <1>3 DEF Launched
  <2>2. queued'[i] = queued[i]
    BY <1>2, <2>1
  <2> QED BY <2>1, <2>2 DEF Launched
<1> QED BY <1>2, <1>3

\* What is ready stays ready.
LEMMA ReadyGrows ==
    ASSUME TypeOK, Grows, NEW o, Ready(o)
    PROVE  Ready(o)'
<1>1. o \in active'
  BY DEF Ready, Grows
<1>2. ASSUME "launch" \in EventsOf[o], receiving' PROVE Launched(o, Len(queued))'
  <2>1. Launched(o, Len(queued))
    BY <1>2 DEF Ready, Grows
  <2>2. PICK i \in 1 .. Len(queued) : queued[i].order = o /\ queued[i].kind = "launch"
    BY <2>1 DEF Launched
  <2>3. i \in 1 .. Len(queued') /\ queued'[i] = queued[i]
    BY GrownQueue
  <2> QED BY <2>2, <2>3 DEF Launched
<1> QED BY <1>1, <1>2 DEF Ready

\* What a stage of a submission says about its order.
StageReady(s) ==
    /\ submission[s].stage = "activate" => starts[OrderOf[s]] > 0
    /\ submission[s].stage = "launch" => OrderOf[s] \in active
    /\ submission[s].stage = "set up" => Ready(OrderOf[s])
    /\ submission[s].stage = "set up without listeners" =>
           Ready(OrderOf[s]) /\ ~receiving

\* Whatever a step makes a producer of events must be ready.
LEMMA ReadyKept ==
    ASSUME TypeOK, ReadyFirst, Grows,
           \A o \in Orders : starts[o] > 0 => starts'[o] > 0,
           \A s \in Submissions :
               submission'[s].stage = submission[s].stage \/ StageReady(s)',
           \A s \in Submissions :
               listener'[s].pc # "none" => listener[s].pc # "none" \/ Ready(OrderOf[s])',
           \A o \in active' : o \in active \/ starts'[o] > 0,
           \A o \in Orders : schedules'[o] > 0 => schedules[o] > 0 \/ Ready(o)',
           \A i \in DOMAIN fired' :
               (\E j \in DOMAIN fired : fired'[i] = fired[j]) \/ Ready(fired[i])',
           forwarder' # None => forwarder' = forwarder \/ Ready(forwarder.order)',
           \A o \in mounts' : o \in mounts \/ Ready(o)',
           \A r \in Requests :
               request'[r] # None => request'[r] = request[r] \/ Ready(request[r])'
    PROVE  ReadyFirst'
<1>1. \A o : Ready(o) => Ready(o)'
  BY ReadyGrows
<1>2. ASSUME NEW s \in Submissions PROVE StageReady(s)'
  <2>1. CASE submission'[s].stage = submission[s].stage
    BY <1>1, <2>1, OrderType DEF ReadyFirst, StageReady, Grows
  <2> QED BY <2>1
<1>3. ASSUME NEW s \in Submissions, listener'[s].pc # "none" PROVE Ready(OrderOf[s])'
  BY <1>1, <1>3 DEF ReadyFirst
<1>4. \A o \in active' : starts'[o] > 0
  <2>1. active \subseteq Orders /\ \A o \in active : starts[o] > 0
    BY DEF ReadyFirst, TypeOK
  <2> QED BY <2>1
<1>5. \A o \in Orders : schedules'[o] > 0 => Ready(o)'
  BY <1>1 DEF ReadyFirst
<1>6. \A i \in DOMAIN fired' : Ready(fired[i])'
  BY <1>1 DEF ReadyFirst
<1>7. forwarder' # None => Ready(forwarder.order)'
  BY <1>1 DEF ReadyFirst
<1>8. \A o \in mounts' : Ready(o)'
  BY <1>1 DEF ReadyFirst
<1>9. \A r \in Requests : request'[r] # None => Ready(request[r])'
  BY <1>1 DEF ReadyFirst
<1> QED BY <1>2, <1>3, <1>4, <1>5, <1>6, <1>7, <1>8, <1>9 DEF ReadyFirst, StageReady

\* Nothing is queued: no event comes before its launch event.
LEMMA LeadsKept ==
    ASSUME LaunchLeads, UNCHANGED queued, receiving' => receiving
    PROVE  LaunchLeads'
BY DEF LaunchLeads, Launched

\* An event is queued that is the launch event of its order or comes after it.
LEMMA LeadsQueued ==
    ASSUME TypeOK, LaunchLeads, NEW event \in Event, Enqueue(event), UNCHANGED receiving,
           event.kind = "launch" \/ Ready(event.order)
    PROVE  LaunchLeads'
<1>1. CASE ~receiving
  BY <1>1 DEF LaunchLeads
<1>2. CASE receiving
  <2>1. queued \in Seq(Event) /\ queued' = Append(queued, event)
    BY <1>2, EnqueueEffect DEF TypeOK
  <2>2. PICK n \in Nat : n = Len(queued)
    BY <2>1
  <2>3. /\ DOMAIN queued = 1 .. n /\ DOMAIN queued' = 1 .. n + 1
        /\ queued'[n + 1] = event
        /\ \A i \in 1 .. n : queued'[i] = queued[i]
    BY <2>1, <2>2
  <2> SUFFICES ASSUME NEW o \in Orders, "launch" \in EventsOf[o],
                      NEW i \in 1 .. n + 1, queued'[i].order = o
               PROVE  Launched(o, i)'
    BY <2>3 DEF LaunchLeads
  <2>4. \A m \in 0 .. n : Launched(o, m) => \A k \in m .. n + 1 : Launched(o, k)'
    <3> SUFFICES ASSUME NEW m \in 0 .. n, Launched(o, m), NEW k \in m .. n + 1
                 PROVE  Launched(o, k)'
      OBVIOUS
    <3>1. PICK j \in 1 .. m : queued[j].order = o /\ queued[j].kind = "launch"
      BY DEF Launched
    <3>2. j \in 1 .. k /\ queued'[j] = queued[j]
      BY <2>3
    <3> QED BY <3>1, <3>2 DEF Launched
  <2>5. CASE i \in 1 .. n
    <3>1. Launched(o, i)
      BY <1>2, <2>3, <2>5 DEF LaunchLeads
    <3> QED BY <2>4, <2>5, <3>1
  <2>6. CASE i = n + 1
    <3>1. CASE event.kind = "launch"
      BY <2>3, <2>6, <3>1 DEF Launched
    <3>2. CASE Ready(event.order)
      <4>1. Launched(o, n)
        BY <1>2, <2>2, <2>3, <2>6, <3>2 DEF Ready
      <4> QED BY <2>4, <2>6, <4>1
    <3> QED BY <3>1, <3>2
  <2> QED BY <2>5, <2>6
<1> QED BY <1>1, <1>2

\* Where the steps up to the start of the worker lead.
LEMMA CheckingStages ==
    ASSUME TypeOK, AllChecked, NEW s \in Submissions,
           CheckDuplicate(s) \/ PolicyStep(s) \/ EnsureSecrets(s) \/ RunWorker(s)
    PROVE  /\ Checking
           /\ \A t \in Submissions : t # s => submission'[t] = submission[t]
           /\ \/ /\ submission'[s].stage \in Idles \cup Asks \cup {"secrets", "run"}
                 /\ UNCHANGED starts
              \/ /\ submission'[s].stage = "activate"
                 /\ starts' = [starts EXCEPT ![OrderOf[s]] = @ + 1]
<1>1. submission \in [Submissions -> Submission]
  BY DEF TypeOK
<1>2. ASSUME NEW stage \in Stages, To(s, stage)
      PROVE  /\ \A t \in Submissions : t # s => submission'[t] = submission[t]
             /\ submission'[s].stage = stage
  BY <1>1, <1>2, ToEffect
<1>3. ASSUME Fail(s)
      PROVE  /\ \A t \in Submissions : t # s => submission'[t] = submission[t]
             /\ submission'[s].stage = "error"
  BY <1>1, <1>3, FailEffect
<1>4. \A i : NextCheck(s, i) \in {"authorize", "run", "secrets"}
  BY DEF NextCheck
<1>5. CASE CheckDuplicate(s)
  <2>1. PICK stage \in {"duplicate", "fetch"} : To(s, stage)
    BY <1>5 DEF CheckDuplicate
  <2>2. /\ \A t \in Submissions : t # s => submission'[t] = submission[t]
        /\ submission'[s].stage = stage
    BY <1>2, <2>1 DEF Stages
  <2> QED BY <1>5, <2>2 DEF CheckDuplicate, Checking, Idles
<1>6. ASSUME NEW bundle \in Bundles[OrderOf[s]], FetchBundle(s, bundle)
      PROVE  /\ Checking /\ UNCHANGED starts
             /\ \A t \in Submissions : t # s => submission'[t] = submission[t]
             /\ submission'[s].stage \in Idles \cup Asks \cup {"secrets", "run"}
  <2>0. Checking /\ UNCHANGED starts
    BY <1>6 DEF FetchBundle
  <2>1. CASE Fail(s)
    BY <1>3, <2>0, <2>1 DEF Idles
  <2>2. CASE ~Fail(s)
    <3>1. /\ \A t \in Submissions : t # s => submission'[t] = submission[t]
          /\ submission'[s].stage = NextCheck(s, 1)
      BY <1>1, <1>6, <2>2, FetchedEffect
    <3> QED BY <1>4, <2>0, <3>1 DEF Asks
  <2> QED BY <2>1, <2>2
<1>7. ASSUME NEW policy, Authorize(s, policy)
      PROVE  /\ Checking /\ UNCHANGED starts
             /\ \A t \in Submissions : t # s => submission'[t] = submission[t]
             /\ submission'[s].stage \in Idles \cup Asks \cup {"secrets", "run"}
  BY <1>2, <1>3, <1>7 DEF Authorize, Stages, Idles, Asks
<1>8. ASSUME NEW verdict \in {"approve", "deny", "error"}, ExecutePolicy(s, verdict)
      PROVE  /\ Checking /\ UNCHANGED starts
             /\ \A t \in Submissions : t # s => submission'[t] = submission[t]
             /\ submission'[s].stage \in Idles \cup Asks \cup {"secrets", "run"}
  <2>1. /\ submission[s].index \in DOMAIN IdentitiesOf[OrderOf[s]]
        /\ submission[s].bundle \in Served
    BY <1>8 DEF AllChecked, Checked, ExecutePolicy, At, Idles, Asks
  <2>2. /\ \A t \in Submissions : t # s => submission'[t] = submission[t]
        /\ submission'[s].stage = "terminate"
    BY <1>1, <1>8, <2>1, JudgedEffect DEF ExecutePolicy
  <2> QED BY <1>8, <2>2 DEF ExecutePolicy, Asks
<1>9. CASE TerminatePolicy(s)
  <2>1. \/ Fail(s)
        \/ submission' = [submission EXCEPT ![s] = NextIdentity(s)]
    BY <1>9 DEF TerminatePolicy
  <2>2. /\ \A t \in Submissions : t # s => submission'[t] = submission[t]
        /\ submission'[s].stage \in {"error", "authorize", "run", "secrets"}
    BY <1>1, <1>3, <1>4, <2>1, GoOnEffect
  <2> QED BY <1>9, <2>2 DEF TerminatePolicy, Idles, Asks
<1>10. CASE EnsureSecrets(s)
  BY <1>2, <1>3, <1>10 DEF EnsureSecrets, Stages, Idles
<1>11. CASE RunWorker(s)
  <2>1. Checking
    BY <1>11 DEF RunWorker
  <2>2. CASE Fail(s) /\ UNCHANGED starts
    BY <1>3, <2>1, <2>2 DEF Idles
  <2>3. CASE To(s, "activate") /\ starts' = [starts EXCEPT ![OrderOf[s]] = @ + 1]
    BY <1>2, <2>1, <2>3 DEF Stages
  <2> QED BY <1>11, <2>2, <2>3 DEF RunWorker
<1> QED BY <1>5, <1>6, <1>7, <1>8, <1>9, <1>10, <1>11 DEF PolicyStep

\* The steps up to the start of the worker.
LEMMA CheckingReady ==
    ASSUME TypeOK, AllChecked, ReadyFirst, LaunchLeads, NEW s \in Submissions,
           CheckDuplicate(s) \/ PolicyStep(s) \/ EnsureSecrets(s) \/ RunWorker(s)
    PROVE  ReadyFirst' /\ LaunchLeads'
<1>1. /\ Checking
      /\ \A t \in Submissions : t # s => submission'[t] = submission[t]
      /\ \/ /\ submission'[s].stage \in Idles \cup Asks \cup {"secrets", "run"}
            /\ UNCHANGED starts
         \/ /\ submission'[s].stage = "activate"
            /\ starts' = [starts EXCEPT ![OrderOf[s]] = @ + 1]
  BY CheckingStages
<1>2. UNCHANGED <<active, mounts, request, schedules, fired, forwarder, listener, queued,
                  receiving>>
  BY <1>1 DEF Checking
<1>3. Grows
  BY <1>2 DEF Grows
<1>4. /\ \A o \in Orders : starts[o] > 0 => starts'[o] > 0
      /\ submission'[s].stage = "activate" => starts'[OrderOf[s]] > 0
  <2>1. starts \in [Orders -> Nat] /\ OrderOf[s] \in Orders
    BY OrderType DEF TypeOK
  <2>2. CASE UNCHANGED starts
    BY <1>1, <2>2, <2>1 DEF Idles, Asks
  <2>3. CASE starts' = [starts EXCEPT ![OrderOf[s]] = @ + 1]
    <3>1. PICK n \in Nat \ {0} : n = starts[OrderOf[s]] + 1
      BY <2>1
    <3>2. starts' = [starts EXCEPT ![OrderOf[s]] = n]
      BY <2>3, <3>1
    <3> QED BY <2>1, <3>2
  <2> QED BY <1>1, <2>2, <2>3
<1>5. \A t \in Submissions : submission'[t].stage = submission[t].stage \/ StageReady(t)'
  BY <1>1, <1>4 DEF StageReady, Idles, Asks
<1>6. ReadyFirst'
  BY <1>2, <1>3, <1>4, <1>5, ReadyKept
<1>7. LaunchLeads'
  BY <1>2, LeadsKept
<1> QED BY <1>6, <1>7

\* Activation.
LEMMA ActivateReady ==
    ASSUME TypeOK, ReadyFirst, LaunchLeads, NEW s \in Submissions, Activate(s)
    PROVE  ReadyFirst' /\ LaunchLeads'
<1>1. /\ active' = active \cup {OrderOf[s]} /\ submission[s].stage = "activate"
      /\ UNCHANGED <<mounts, request, starts, schedules, fired, forwarder, listener, queued,
                     receiving>>
  BY DEF Activate, At
<1>2. Grows
  BY <1>1 DEF Grows
<1>3. PICK stage \in {"launch", "set up"} :
          /\ To(s, stage)
          /\ stage = "set up" => "launch" \notin EventsOf[OrderOf[s]]
  BY DEF Activate
<1>4. /\ \A t \in Submissions : t # s => submission'[t] = submission[t]
      /\ submission'[s].stage = stage
  <2>1. submission \in [Submissions -> Submission] /\ stage \in Stages
    BY DEF TypeOK, Stages
  <2> QED BY <1>3, <2>1, ToEffect
<1>5. starts[OrderOf[s]] > 0
  BY <1>1 DEF ReadyFirst
<1>6. stage = "set up" => Ready(OrderOf[s])'
  BY <1>1, <1>3 DEF Ready
<1>7. \A t \in Submissions : submission'[t].stage = submission[t].stage \/ StageReady(t)'
  BY <1>1, <1>4, <1>6 DEF StageReady
<1>8. \A o \in active' : o \in active \/ starts'[o] > 0
  BY <1>1, <1>5
<1>9. ReadyFirst'
  BY <1>1, <1>2, <1>7, <1>8, ReadyKept
<1>10. LaunchLeads'
  BY <1>1, LeadsKept
<1> QED BY <1>9, <1>10

\* Sending to the queue of a running node.
LEMMA EnqueueGrows ==
    ASSUME TypeOK, NEW event \in Event, Enqueue(event), UNCHANGED <<active, receiving>>
    PROVE  Grows
<1>1. /\ receiving => queued' = Append(queued, event)
      /\ ~receiving => UNCHANGED intake
  BY EnqueueEffect
<1>2. queued' = queued \/ queued' = Append(queued, event)
  BY <1>1 DEF TypeOK
<1> QED BY <1>2 DEF Grows

\* An interval from 1 contains its end.
LEMMA LastIndex == \A n \in Nat : n + 1 \in 1 .. (n + 1)
OBVIOUS

\* Its elements are below whatever is above its end.
LEMMA BelowLast == \A n, k \in Nat : k > n => \A i \in 1 .. n : i < k
OBVIOUS

\* The launch event.
LEMMA LaunchReady ==
    ASSUME TypeOK, ReadyFirst, LaunchLeads, NEW s \in Submissions, QueueLaunch(s)
    PROVE  ReadyFirst' /\ LaunchLeads'
<1>1. /\ submission[s].stage = "launch"
      /\ UNCHANGED <<active, mounts, request, starts, schedules, fired, forwarder, listener,
                     receiving>>
  BY DEF QueueLaunch, At
<1>2. OrderOf[s] \in Orders /\ OrderOf[s] \in active
  BY <1>1, OrderType DEF ReadyFirst
<1>3. PICK event \in Event : event = [order |-> OrderOf[s], kind |-> "launch"]
  BY <1>2 DEF Event
<1>4. event.order = OrderOf[s] /\ event.kind = "launch"
  BY <1>3
<1>5. Enqueue(event)
  BY <1>3 DEF QueueLaunch
<1>6. Grows
  BY <1>1, <1>5, EnqueueGrows
<1>7. PICK stage \in {"set up", "set up without listeners"} :
          /\ To(s, stage)
          /\ stage = "set up" <=> receiving
  BY DEF QueueLaunch
<1>8. /\ \A t \in Submissions : t # s => submission'[t] = submission[t]
      /\ submission'[s].stage = stage
  <2>1. submission \in [Submissions -> Submission] /\ stage \in Stages
    BY DEF TypeOK, Stages
  <2> QED BY <1>7, <2>1, ToEffect
<1>9. Ready(OrderOf[s])'
  <2>1. CASE receiving
    <3>1. queued' = Append(queued, event) /\ queued \in Seq(Event)
      BY <1>5, <2>1, EnqueueEffect DEF TypeOK
    <3>2. PICK n \in Nat : n = Len(queued)
      BY <3>1, LenProperties
    <3>3. Len(queued') = n + 1 /\ queued'[n + 1] = event
      BY <3>1, <3>2, AppendProperties
    <3>5. n + 1 \in 1 .. (n + 1)
      BY LastIndex
    <3>4. Launched(OrderOf[s], Len(queued))'
      BY <1>4, <3>3, <3>5 DEF Launched
    <3> QED BY <1>1, <1>2, <3>4 DEF Ready
  <2>2. CASE ~receiving
    BY <1>1, <1>2, <2>2 DEF Ready
  <2> QED BY <2>1, <2>2
<1>10. \A t \in Submissions : submission'[t].stage = submission[t].stage \/ StageReady(t)'
  BY <1>1, <1>7, <1>8, <1>9 DEF StageReady
<1>11. ReadyFirst'
  BY <1>1, <1>6, <1>10, ReadyKept
<1>12. LaunchLeads'
  BY <1>1, <1>4, <1>5, LeadsQueued
<1> QED BY <1>11, <1>12

\* Mounting, listening and scheduling.
LEMMA SetUpReady ==
    ASSUME TypeOK, ReadyFirst, LaunchLeads, NEW s \in Submissions, SetUp(s)
    PROVE  ReadyFirst' /\ LaunchLeads'
<1>1. /\ submission[s].stage \in {"set up", "set up without listeners"}
      /\ UNCHANGED <<active, request, starts, fired, forwarder, queued, receiving>>
  BY DEF SetUp, At
<1>2. Grows
  BY <1>1 DEF Grows
<1>3. Ready(OrderOf[s])'
  <2>1. Ready(OrderOf[s])
    BY <1>1 DEF ReadyFirst
  <2> QED BY <1>2, <2>1, ReadyGrows
<1>4. \A o \in mounts' : o \in mounts \/ Ready(o)'
  BY <1>3 DEF SetUp, Offered
<1>5. \A t \in Submissions :
          listener'[t].pc # "none" => listener[t].pc # "none" \/ Ready(OrderOf[t])'
  <2>1. ListenAt(s, "connect") \/ UNCHANGED listener
    BY DEF SetUp, Offered, ListenAt
  <2>2. \A t \in Submissions : t # s => listener'[t] = listener[t]
    BY <2>1, ListenAtEffect
  <2> QED BY <1>3, <2>2
<1>6. \A o \in Orders : schedules'[o] > 0 => schedules[o] > 0 \/ Ready(o)'
  <2>1. \/ UNCHANGED schedules
        \/ schedules' = [schedules EXCEPT ![OrderOf[s]] = @ + 1]
        \/ schedules' = [schedules EXCEPT ![OrderOf[s]] = @]
    BY DEF SetUp
  <2>2. \A o \in Orders : o # OrderOf[s] => schedules'[o] = schedules[o]
    BY <2>1 DEF TypeOK
  <2> QED BY <1>3, <2>2
<1>7. \A t \in Submissions : submission'[t].stage = submission[t].stage \/ StageReady(t)'
  <2>1. submission \in [Submissions -> Submission]
    BY DEF TypeOK
  <2>2. To(s, "ok") \/ Fail(s)
    BY DEF SetUp
  <2>3. /\ \A t \in Submissions : t # s => submission'[t] = submission[t]
        /\ submission'[s].stage \in {"ok", "error"}
    BY <2>1, <2>2, ToEffect, FailEffect DEF Stages
  <2> QED BY <2>3 DEF StageReady
<1>8. ReadyFirst'
  BY <1>1, <1>2, <1>4, <1>5, <1>6, <1>7, ReadyKept
<1>9. LaunchLeads'
  BY <1>1, LeadsKept
<1> QED BY <1>8, <1>9

\* A dropped submission starts only what it might have started next.
LEMMA GoneEffect ==
    ASSUME TypeOK, NEW s \in Submissions, ClientGone(s)
    PROVE  /\ Running /\ submission' \in [Submissions -> Submission]
           /\ \A t \in Submissions : t # s => submission'[t] = submission[t]
           /\ submission[s].stage \notin {"idle", "ok", "duplicate", "error", "dropped"}
           /\ submission'[s].stage = "dropped" /\ submission'[s].index = submission[s].index
           /\ policy_worker' \in [Submissions -> BOOLEAN]
           /\ \A t \in Submissions : t # s => policy_worker'[t] = policy_worker[t]
           /\ policy_worker'[s] =>
                  policy_worker[s] \/ submission[s].stage \in {"authorize", "execute"}
           /\ ListenAt(s, "connect") \/ UNCHANGED listener
           /\ mounts' \in {mounts, mounts \cup {OrderOf[s]}}
           /\ \/ schedules' = schedules
              \/ schedules' = [schedules EXCEPT ![OrderOf[s]] = @ + 1]
           /\ starts' = starts \/ starts' = [starts EXCEPT ![OrderOf[s]] = @ + 1]
           /\ \/ submission[s].stage \in {"set up", "set up without listeners"}
              \/ UNCHANGED <<listener, mounts, schedules>>
           /\ UNCHANGED <<phase, boot, attached, active, request, occurred, fired, forwarder,
                          gateways, drops, signalled, intake, pipeline>>
<1>1. To(s, "dropped") /\ submission \in [Submissions -> Submission]
  BY DEF ClientGone, TypeOK
<1>2. /\ submission' \in [Submissions -> Submission]
      /\ \A t \in Submissions : t # s => submission'[t] = submission[t]
      /\ submission'[s].stage = "dropped" /\ submission'[s].index = submission[s].index
  BY <1>1, ToEffect DEF Stages
<1>3. PICK up \in BOOLEAN :
          /\ up => submission[s].stage \in {"authorize", "execute"}
          /\ policy_worker' \in {policy_worker, [policy_worker EXCEPT ![s] = up]}
  BY DEF ClientGone
<1>4. /\ policy_worker' \in [Submissions -> BOOLEAN]
      /\ \A t \in Submissions : t # s => policy_worker'[t] = policy_worker[t]
      /\ policy_worker'[s] =>
             policy_worker[s] \/ submission[s].stage \in {"authorize", "execute"}
  BY <1>3 DEF TypeOK
<1>5. /\ ListenAt(s, "connect") \/ UNCHANGED listener
      /\ mounts' \in {mounts, mounts \cup {OrderOf[s]}}
  BY DEF ClientGone, Offered, ListenAt
<1>6. /\ \/ schedules' = schedules
         \/ schedules' = [schedules EXCEPT ![OrderOf[s]] = @ + 1]
      /\ starts' = starts \/ starts' = [starts EXCEPT ![OrderOf[s]] = @ + 1]
  BY DEF ClientGone
<1>7. /\ Running
      /\ submission[s].stage \notin {"idle", "ok", "duplicate", "error", "dropped"}
      /\ \/ submission[s].stage \in {"set up", "set up without listeners"}
         \/ UNCHANGED <<listener, mounts, schedules>>
      /\ UNCHANGED <<phase, boot, attached, active, request, occurred, fired, forwarder,
                     gateways, drops, signalled, intake, pipeline>>
  BY DEF ClientGone
<1> QED BY <1>2, <1>4, <1>5, <1>6, <1>7

\* A client that disconnects.
LEMMA GoneTypeOK ==
    ASSUME TypeOK, NEW s \in Submissions, ClientGone(s)
    PROVE  TypeOK'
<1>1. /\ OrderOf[s] \in Orders /\ mounts \subseteq Orders
      /\ schedules \in [Orders -> Nat] /\ starts \in [Orders -> Nat]
      /\ listener \in [Submissions -> Listener]
  BY OrderType DEF TypeOK
<1>2. schedules' \in [Orders -> Nat]
  <2>1. \/ schedules' = schedules
        \/ schedules' = [schedules EXCEPT ![OrderOf[s]] = @ + 1]
    BY GoneEffect
  <2> QED BY <1>1, <2>1, CountType
<1>3. starts' \in [Orders -> Nat]
  <2>1. starts' = starts \/ starts' = [starts EXCEPT ![OrderOf[s]] = @ + 1]
    BY GoneEffect
  <2> QED BY <1>1, <2>1, CountType
<1>4. listener' \in [Submissions -> Listener]
  BY <1>1, GoneEffect, ListenAtEffect
<1>5. mounts' \subseteq Orders
  <2>1. mounts' \in {mounts, mounts \cup {OrderOf[s]}}
    BY GoneEffect
  <2> QED BY <1>1, <2>1
<1> QED BY <1>2, <1>3, <1>4, <1>5, GoneEffect DEF TypeOK

LEMMA GoneChecked ==
    ASSUME TypeOK, AllChecked, NEW s \in Submissions, ClientGone(s)
    PROVE  AllChecked'
<1>1. Checked(s) /\ phase # "exited"
  BY GoneEffect DEF AllChecked, Running
<1>2. submission[s].stage # "dropped"
  BY GoneEffect
<1>3. policy_worker'[s] => submission[s].stage \in Asks
  BY <1>1, <1>2, GoneEffect DEF Checked, Asks
<1>4. policy_worker'[s] => submission'[s].index \in DOMAIN IdentitiesOf[OrderOf[s]]
  BY <1>1, <1>3, GoneEffect DEF Checked
<1>5. Checked(s)'
  BY <1>4, GoneEffect DEF Checked, Idles, Asks
<1> QED BY <1>5, GoneEffect, OthersChecked

LEMMA GoneReady ==
    ASSUME TypeOK, ReadyFirst, LaunchLeads, NEW s \in Submissions, ClientGone(s)
    PROVE  ReadyFirst' /\ LaunchLeads'
<1>1. /\ UNCHANGED <<active, request, fired, forwarder, queued, receiving>>
      /\ OrderOf[s] \in Orders
  BY GoneEffect, OrderType
<1>2. Grows
  BY <1>1 DEF Grows
<1>3. \/ Ready(OrderOf[s])' \/ UNCHANGED <<listener, mounts, schedules>>
  <2>1. Ready(OrderOf[s]) \/ UNCHANGED <<listener, mounts, schedules>>
    BY GoneEffect DEF ReadyFirst
  <2> QED BY <1>2, <2>1, ReadyGrows
<1>4. \A o \in mounts' : o \in mounts \/ Ready(o)'
  BY <1>3, GoneEffect
<1>5. \A t \in Submissions :
          listener'[t].pc # "none" => listener[t].pc # "none" \/ Ready(OrderOf[t])'
  <2>1. \A t \in Submissions : t # s => listener'[t] = listener[t]
    BY GoneEffect, ListenAtEffect
  <2> QED BY <1>3, <2>1
<1>6. \A o \in Orders : schedules'[o] > 0 => schedules[o] > 0 \/ Ready(o)'
  <2>1. \A o \in Orders : o # OrderOf[s] => schedules'[o] = schedules[o]
    BY GoneEffect DEF TypeOK
  <2> QED BY <1>3, <2>1
<1>7. \A t \in Submissions : submission'[t].stage = submission[t].stage \/ StageReady(t)'
  BY GoneEffect DEF StageReady
<1>8. \A o \in Orders : starts[o] > 0 => starts'[o] > 0
  <2>1. starts \in [Orders -> Nat]
    BY DEF TypeOK
  <2>2. PICK o \in Orders : o = OrderOf[s]
    BY <1>1
  <2>3. starts' = starts \/ starts' = [starts EXCEPT ![o] = @ + 1]
    BY <2>2, GoneEffect
  <2> QED BY <2>1, <2>3
<1>9. ReadyFirst'
  BY <1>1, <1>2, <1>4, <1>5, <1>6, <1>7, <1>8, ReadyKept
<1> QED BY <1>1, <1>9, LeadsKept

\* Listeners, and what feeds them.
LEMMA ListenerReady ==
    ASSUME TypeOK, ReadyFirst, LaunchLeads,
           \/ \E s \in Submissions : ListenerStep(s)
           \/ \E g \in DOMAIN gateways : StreamsEnd(g) \/ \E log \in Logs : Log(g, log)
    PROVE  ReadyFirst' /\ LaunchLeads'
<1>1. \A s \in Submissions : listener'[s].pc # "none" => listener[s].pc # "none"
  BY ListenerEffect
<1>2. Listening
  BY DEF ListenerStep, ListenerConnect, ListenerNext, ListenerQueue, ListenerWake,
         ListenerStop, StreamsEnd, Log
<1>3. UNCHANGED <<submission, active, mounts, request, starts, schedules, fired, forwarder,
                  receiving>>
  BY <1>2 DEF Listening
<1>4. CASE UNCHANGED queued
  <2>1. Grows
    BY <1>3, <1>4 DEF Grows
  <2>2. ReadyFirst'
    BY <1>1, <1>3, <2>1, ReadyKept
  <2> QED BY <1>3, <1>4, <2>2, LeadsKept
<1>5. ASSUME NEW s \in Submissions, ListenerQueue(s) PROVE ReadyFirst' /\ LaunchLeads'
  <2>1. OrderOf[s] \in Orders
    BY OrderType
  <2>2. PICK event \in Event : event = [order |-> OrderOf[s], kind |-> "web3"]
    BY <2>1 DEF Event
  <2>3. Enqueue(event)
    BY <1>5, <2>2 DEF ListenerQueue
  <2>4. Ready(event.order)
    BY <1>5, <2>2 DEF ListenerQueue, Listens, ReadyFirst
  <2>5. Grows
    BY <1>3, <2>3, EnqueueGrows
  <2>6. ReadyFirst'
    BY <1>1, <1>3, <2>5, ReadyKept
  <2>7. LaunchLeads'
    BY <1>3, <2>3, <2>4, LeadsQueued
  <2> QED BY <2>6, <2>7
<1> QED
  BY <1>4, <1>5
     DEF ListenerStep, ListenerConnect, ListenerNext, ListenerWake, ListenerStop,
         StreamsEnd, Log

\* Requests, and the scheduler with its forwarder.
LEMMA EventReady ==
    ASSUME TypeOK, ReadyFirst, LaunchLeads,
           \/ Forward
           \/ \E r \in Requests : HttpReply(r) \/ \E o \in Orders : HttpRequest(r, o)
           \/ \E o \in Orders : Fire(o)
    PROVE  ReadyFirst' /\ LaunchLeads'
<1>1. ASSUME NEW r \in Requests, HttpReply(r) \/ \E o \in Orders : HttpRequest(r, o)
      PROVE  ReadyFirst' /\ LaunchLeads'
  <2>1. UNCHANGED <<submission, active, mounts, starts, schedules, fired, forwarder, listener,
                    queued, receiving>>
    BY <1>1 DEF HttpReply, HttpRequest, Asking
  <2>2. Grows
    BY <2>1 DEF Grows
  <2>3. \A o \in mounts : Ready(o)'
    BY <2>2, ReadyGrows DEF ReadyFirst
  <2>4. PICK o \in mounts \cup {None} : request' = [request EXCEPT ![r] = o]
    BY <1>1 DEF HttpReply, HttpRequest
  <2>5. \A q \in Requests :
            request'[q] # None => request'[q] = request[q] \/ Ready(request[q])'
    BY <2>3, <2>4 DEF TypeOK
  <2>6. ReadyFirst'
    BY <2>1, <2>2, <2>5, ReadyKept
  <2> QED BY <2>1, <2>6, LeadsKept
<1>2. ASSUME NEW o \in Orders, Fire(o) PROVE ReadyFirst' /\ LaunchLeads'
  <2>1. /\ UNCHANGED <<submission, active, mounts, request, starts, schedules, forwarder,
                       listener, queued, receiving>>
        /\ fired' = Append(fired, o) /\ schedules[o] > 0
    BY <1>2 DEF Fire
  <2>2. Grows
    BY <2>1 DEF Grows
  <2>3. Ready(o)'
    BY <2>1, <2>2, ReadyGrows DEF ReadyFirst
  <2>4. fired \in Seq(Orders)
    BY DEF TypeOK
  <2>5. \A i \in DOMAIN fired' : (\E j \in DOMAIN fired : fired'[i] = fired[j]) \/ fired'[i] = o
    BY <2>1, <2>4
  <2>6. \A i \in DOMAIN fired' :
            (\E j \in DOMAIN fired : fired'[i] = fired[j]) \/ Ready(fired[i])'
    BY <2>3, <2>5
  <2>7. ReadyFirst'
    BY <2>1, <2>2, <2>6, ReadyKept
  <2> QED BY <2>1, <2>7, LeadsKept
<1>3. CASE TakeFired
  <2>1. /\ UNCHANGED <<submission, active, mounts, request, starts, schedules, listener,
                       queued, receiving>>
        /\ fired # <<>> /\ fired' = Tail(fired)
    BY <1>3 DEF TakeFired
  <2>2. Grows
    BY <2>1 DEF Grows
  <2>3. fired \in Seq(Orders)
    BY DEF TypeOK
  <2>4. \A i \in DOMAIN fired' : \E j \in DOMAIN fired : fired'[i] = fired[j]
    BY <2>1, <2>3
  <2>5. Head(fired) = fired[1] /\ 1 \in DOMAIN fired
    BY <2>1, <2>3
  <2>6. Ready(Head(fired))
    BY <2>5 DEF ReadyFirst
  <2>7. forwarder' # None => forwarder'.order = Head(fired)
    BY <1>3 DEF TakeFired
  <2>8. forwarder' # None => Ready(forwarder.order)'
    <3>1. PICK o : o = Head(fired)
      OBVIOUS
    <3>2. Ready(o)'
      BY <2>2, <2>6, <3>1, ReadyGrows
    <3> QED BY <2>7, <3>1, <3>2
  <2>9. ReadyFirst'
    BY <2>1, <2>2, <2>4, <2>8, ReadyKept
  <2> QED BY <2>1, <2>9, LeadsKept
<1>4. CASE QueueFired
  <2>1. /\ UNCHANGED <<submission, active, mounts, request, starts, schedules, fired, listener,
                       receiving>>
        /\ forwarder' = None
    BY <1>4 DEF QueueFired
  <2>2. forwarder \in Event /\ Enqueue(forwarder) /\ Ready(forwarder.order)
    BY <1>4 DEF QueueFired, ReadyFirst, TypeOK
  <2>3. PICK event \in Event : event = forwarder
    BY <2>2
  <2>4. Grows
    BY <2>1, <2>2, <2>3, EnqueueGrows
  <2>5. ReadyFirst'
    BY <2>1, <2>4, ReadyKept
  <2>6. LaunchLeads'
    BY <2>1, <2>2, <2>3, LeadsQueued
  <2> QED BY <2>5, <2>6
<1> QED BY <1>1, <1>2, <1>3, <1>4 DEF Forward

\* The batch task, the start of the node and the shutdown signal.
LEMMA MainReady ==
    ASSUME TypeOK, ReadyFirst, LaunchLeads,
           ConnectEnclave \/ AttachVm \/ Shutdown \/ BatchStep
    PROVE  ReadyFirst' /\ LaunchLeads'
<1>1. /\ UNCHANGED <<submission, active, mounts, request, starts, schedules, fired, forwarder,
                     listener, queued>>
      /\ receiving' => receiving
  BY DEF ConnectEnclave, AttachVm, Booting, Shutdown, BatchStep, TakeQueued, SendBatch,
         EndBatchTask
<1>2. Grows
  BY <1>1 DEF Grows
<1>3. ReadyFirst'
  BY <1>1, <1>2, ReadyKept
<1> QED BY <1>1, <1>3, LeadsKept

-----------------------------------------------------------------------------
(* The inductive invariant.                                                *)

\* In the initial state there is nothing to go wrong.
LEMMA FreshSubmissions ==
    ASSUME NEW s \in Submissions
    PROVE  /\ Idle[s].stage = "idle" /\ Idle[s].index = 1
           /\ NotListening[s].pc = "none"
BY DEF Idle, NewSubmission, NotListening, NoListener

\* The initial state satisfies it.
LEMMA InitIInv == Init => IInv
<1> SUFFICES ASSUME Init PROVE IInv
  OBVIOUS
<1>1. TypeOK
  BY InitialTypes DEF Init, TypeOK
<1>2. \A s \in Submissions : /\ submission[s].stage = "idle" /\ submission[s].index = 1
                             /\ listener[s].pc = "none" /\ ~policy_worker[s]
  BY FreshSubmissions DEF Init
<1>3. AllChecked
  BY <1>2 DEF AllChecked, Checked, Idles, Asks
<1>4. /\ active = {} /\ mounts = {} /\ fired = <<>> /\ forwarder = None
      /\ \A o \in Orders : schedules[o] = 0
      /\ \A r \in Requests : request[r] = None
  BY DEF Init, NoneOf, NoRequest
<1>5. ReadyFirst
  <2>1. DOMAIN fired = {} /\ \A o \in Orders : ~(schedules[o] > 0)
    BY <1>4
  <2> QED BY <1>2, <1>4, <2>1 DEF ReadyFirst
<1>6. LaunchLeads
  BY DEF LaunchLeads, Init
<1>7. EventsAccounted /\ Places
  BY DEF EventsAccounted, Places, Init
<1>8. BatchHasRoom
  BY WorkOrdersAssumption DEF BatchHasRoom, Init
<1> QED BY <1>1, <1>3, <1>5, <1>6, <1>7, <1>8 DEF IInv

\* So does the state that main leaves behind, but for the policy workers, which
\* run on.
LEMMA ExitIInv ==
    ASSUME IInv, Exit
    PROVE  IInv'
<1>1. TypeOK'
  BY MainTypeOK DEF IInv
<1>2. \A s \in Submissions : /\ submission'[s].stage = "idle" /\ submission'[s].index = 1
                             /\ listener'[s].pc = "none"
  BY FreshSubmissions DEF Exit
<1>3. AllChecked'
  BY <1>2 DEF Exit, AllChecked, Checked, Idles, Asks
<1>4. /\ active' = {} /\ mounts' = {} /\ fired' = <<>> /\ forwarder' = None
      /\ \A o \in Orders : schedules'[o] = 0
      /\ \A r \in Requests : request'[r] = None
  BY DEF Exit, NoneOf, NoRequest
<1>5. ReadyFirst'
  <2>1. DOMAIN fired' = {} /\ \A o \in Orders : ~(schedules'[o] > 0)
    BY <1>4
  <2> QED BY <1>2, <1>4, <2>1 DEF ReadyFirst
<1>6. LaunchLeads'
  BY DEF LaunchLeads, Exit
<1>7. EventsAccounted' /\ Places'
  BY DEF EventsAccounted, Places, Exit
<1>8. BatchHasRoom'
  BY WorkOrdersAssumption DEF BatchHasRoom, Exit
<1> QED BY <1>1, <1>3, <1>5, <1>6, <1>7, <1>8 DEF IInv

\* Every step of the node keeps it.
LEMMA NextIInv == IInv /\ [Next]_vars => IInv'
<1> SUFFICES ASSUME IInv, [Next]_vars PROVE IInv'
  OBVIOUS
<1>0. TypeOK /\ AllChecked /\ ReadyFirst /\ LaunchLeads /\ EventsAccounted /\ Places /\ BatchHasRoom
  BY DEF IInv
<1>1. ASSUME UNCHANGED intake, UNCHANGED pipeline PROVE EventsAccounted' /\ Places' /\ BatchHasRoom'
  BY <1>0, <1>1 DEF EventsAccounted, Places, BatchHasRoom
<1>2. ASSUME NEW s \in Submissions,
             CheckDuplicate(s) \/ PolicyStep(s) \/ EnsureSecrets(s) \/ RunWorker(s)
      PROVE  IInv'
  <2>1. TypeOK'
    BY <1>0, <1>2, CheckingTypeOK
  <2>2. AllChecked'
    BY <1>0, <1>2, SubmissionChecked DEF SubmissionStep
  <2>3. ReadyFirst' /\ LaunchLeads'
    BY <1>0, <1>2, CheckingReady
  <2>4. Checking
    BY <1>0, <1>2, CheckingStages
  <2>5. EventsAccounted' /\ Places' /\ BatchHasRoom'
    BY <1>1, <2>4 DEF Checking
  <2> QED BY <2>1, <2>2, <2>3, <2>5 DEF IInv
<1>3. ASSUME NEW s \in Submissions, Activate(s) \/ QueueLaunch(s) \/ SetUp(s) PROVE IInv'
  <2>1. TypeOK'
    BY <1>0, <1>3, StartedTypeOK
  <2>2. AllChecked'
    BY <1>0, <1>3, SubmissionChecked DEF SubmissionStep
  <2>3. ReadyFirst' /\ LaunchLeads'
    BY <1>0, <1>3, ActivateReady, LaunchReady, SetUpReady
  <2>4. CASE Activate(s) \/ SetUp(s)
    BY <1>1, <2>1, <2>2, <2>3, <2>4 DEF Activate, SetUp, IInv
  <2>5. CASE QueueLaunch(s)
    <3>1. OrderOf[s] \in Orders
      BY OrderType
    <3>2. PICK event \in Event : Enqueue(event)
      BY <2>5, <3>1 DEF QueueLaunch, Event
    <3>3. UNCHANGED pipeline
      BY <2>5 DEF QueueLaunch
    <3>4. EventsAccounted' /\ Places' /\ BatchHasRoom'
      BY <1>0, <3>2, <3>3, QueuedAccounted
    <3> QED BY <2>1, <2>2, <2>3, <3>4 DEF IInv
  <2> QED BY <1>3, <2>4, <2>5
<1>4. ASSUME \/ \E s \in Submissions : ListenerStep(s)
             \/ \E g \in DOMAIN gateways : StreamsEnd(g) \/ \E log \in Logs : Log(g, log)
      PROVE  IInv'
  <2>1. TypeOK'
    BY <1>0, <1>4, ListenerTypeOK
  <2>2. ReadyFirst' /\ LaunchLeads'
    BY <1>0, <1>4, ListenerReady
  <2>3. Listening
    BY <1>4 DEF ListenerStep, ListenerConnect, ListenerNext, ListenerQueue, ListenerWake,
                ListenerStop, StreamsEnd, Log
  <2>4. AllChecked'
    BY <1>0, <2>3, CheckedKept DEF Listening
  <2>5. CASE UNCHANGED intake
    <3>1. UNCHANGED pipeline
      BY <2>3 DEF Listening
    <3> QED BY <1>1, <2>1, <2>2, <2>4, <2>5, <3>1 DEF IInv
  <2>6. ASSUME NEW s \in Submissions, ListenerQueue(s) PROVE IInv'
    <3>1. OrderOf[s] \in Orders
      BY OrderType
    <3>2. PICK event \in Event : Enqueue(event)
      BY <2>6, <3>1 DEF ListenerQueue, Event
    <3>3. UNCHANGED pipeline
      BY <2>3 DEF Listening
    <3>4. EventsAccounted' /\ Places' /\ BatchHasRoom'
      BY <1>0, <3>2, <3>3, QueuedAccounted
    <3> QED BY <2>1, <2>2, <2>4, <3>4 DEF IInv
  <2> QED
    BY <1>4, <2>5, <2>6
       DEF ListenerStep, ListenerConnect, ListenerNext, ListenerWake, ListenerStop,
           StreamsEnd, Log
<1>5. ASSUME \/ Forward
             \/ \E r \in Requests : HttpReply(r) \/ \E o \in Orders : HttpRequest(r, o)
             \/ \E o \in Orders : Fire(o)
      PROVE  IInv'
  <2>1. TypeOK'
    BY <1>0, <1>5, MainTypeOK
  <2>2. ReadyFirst' /\ LaunchLeads'
    BY <1>0, <1>5, EventReady
  <2>3. UNCHANGED <<phase, attached, submission, policy_worker>> /\ UNCHANGED pipeline
    BY <1>5 DEF Forward, TakeFired, QueueFired, HttpReply, HttpRequest, Asking, Fire
  <2>4. AllChecked'
    BY <1>0, <2>3, CheckedKept
  <2>5. CASE UNCHANGED intake
    BY <1>1, <2>1, <2>2, <2>3, <2>4, <2>5 DEF IInv
  <2>6. CASE QueueFired
    <3>1. forwarder \in Event
      BY <1>0, <2>6 DEF QueueFired, TypeOK
    <3>2. PICK event \in Event : Enqueue(event)
      BY <2>6, <3>1 DEF QueueFired
    <3>3. EventsAccounted' /\ Places' /\ BatchHasRoom'
      BY <1>0, <2>3, <3>2, QueuedAccounted
    <3> QED BY <2>1, <2>2, <2>4, <3>3 DEF IInv
  <2> QED
    BY <1>5, <2>5, <2>6 DEF Forward, TakeFired, HttpReply, HttpRequest, Asking, Fire
<1>6. CASE ConnectEnclave \/ AttachVm \/ Shutdown
  <2>1. TypeOK'
    BY <1>0, <1>6, MainTypeOK
  <2>2. ReadyFirst' /\ LaunchLeads'
    BY <1>0, <1>6, MainReady
  <2>3. /\ UNCHANGED <<submission, policy_worker>> /\ UNCHANGED intake /\ UNCHANGED pipeline
        /\ attached \subseteq attached' /\ phase # "exited"
    BY <1>6 DEF ConnectEnclave, AttachVm, Booting, Shutdown
  <2>4. AllChecked'
    BY <1>0, <2>3, CheckedKept
  <2> QED BY <1>1, <2>1, <2>2, <2>3, <2>4 DEF IInv
<1>7. CASE BatchStep
  <2>1. TypeOK'
    BY <1>0, <1>7, MainTypeOK
  <2>2. ReadyFirst' /\ LaunchLeads'
    BY <1>0, <1>7, MainReady
  <2>3. UNCHANGED <<phase, attached, submission, policy_worker>>
    BY <1>7 DEF BatchStep, TakeQueued, SendBatch, EndBatchTask
  <2>4. AllChecked'
    BY <1>0, <2>3, CheckedKept
  <2>5. EventsAccounted' /\ Places' /\ BatchHasRoom'
    BY <1>0, <1>7, BatchAccounted DEF BatchStep
  <2> QED BY <2>1, <2>2, <2>4, <2>5 DEF IInv
<1>8. CASE Exit
  BY <1>8, ExitIInv
<1>10. ASSUME NEW s \in Submissions, ClientGone(s) PROVE IInv'
  <2>1. TypeOK' /\ AllChecked' /\ ReadyFirst' /\ LaunchLeads'
    BY <1>0, <1>10, GoneTypeOK, GoneChecked, GoneReady
  <2>2. EventsAccounted' /\ Places' /\ BatchHasRoom'
    BY <1>0, <1>1, <1>10, GoneEffect
  <2> QED BY <2>1, <2>2 DEF IInv
<1>9. CASE UNCHANGED vars
  <2>1. UNCHANGED intake /\ UNCHANGED pipeline
    BY <1>9 DEF vars
  <2>2. TypeOK'
    BY <1>0, <1>9 DEF vars, TypeOK
  <2>3. UNCHANGED <<submission, active, mounts, request, starts, schedules, fired, forwarder,
                    listener, queued, receiving, policy_worker, attached, phase>>
    BY <1>9 DEF vars
  <2>4. Grows
    BY <2>3 DEF Grows
  <2>5. ReadyFirst'
    BY <1>0, <2>3, <2>4, ReadyKept
  <2>6. AllChecked' /\ LaunchLeads'
    BY <1>0, <2>3, CheckedKept, LeadsKept
  <2> QED BY <1>1, <2>1, <2>2, <2>5, <2>6 DEF IInv
<1> QED
  BY <1>2, <1>3, <1>4, <1>5, <1>6, <1>7, <1>8, <1>9, <1>10 DEF Next, SubmissionStep

\* The inductive invariant holds throughout.
LEMMA Inductive == Spec => []IInv
BY InitIInv, NextIInv, PTL DEF Spec

-----------------------------------------------------------------------------
(* Logs: what a listener has delivered, holds and has not yet taken.       *)

Increasing(q) == \A i, j \in DOMAIN q : i < j => q[i].id < q[j].id

Before(q, id) == \A i \in DOMAIN q : q[i].id < id

After(id, q) == \A i \in DOMAIN q : id < q[i].id

\* The logs of listener l come in the order in which they occurred, none of
\* them later than the last one.
InOrder(l, last) ==
    /\ l.delivered \in Seq(Item)
    /\ Increasing(l.delivered) /\ Increasing(l.stream)
    /\ \A i \in DOMAIN l.delivered : After(l.delivered[i].id, l.stream)
    /\ Before(l.delivered, last + 1) /\ Before(l.stream, last + 1)
    /\ l.pc = "queue" =>
          /\ l.holding \in Item /\ l.holding.id <= last
          /\ Before(l.delivered, l.holding.id) /\ After(l.holding.id, l.stream)

\* The stream of listener l is the end of what it has seen, and what was skipped
\* is gone from all else.
Skips(l, last) ==
    /\ Increasing(l.seen) /\ Before(l.seen, last + 1)
    /\ Len(l.stream) <= Len(l.seen) /\ Len(l.stream) <= StreamSize
    /\ \A j \in DOMAIN l.stream : l.stream[j] = l.seen[Len(l.seen) - Len(l.stream) + j]
    /\ \A i \in DOMAIN l.seen : l.seen[i] \in l.lagged => i + StreamSize <= Len(l.seen)
    /\ \A item \in l.lagged :
          /\ item.id <= last /\ After(item.id, l.stream)
          /\ \A i \in DOMAIN l.delivered : l.delivered[i].id # item.id
          /\ l.pc = "queue" => l.holding.id # item.id

\* Nothing that listener l of submission s wants is lost.
Accounts(s, l) ==
    \A i \in DOMAIN l.seen :
        \/ ~Matches(s, l.seen[i])
        \/ Occurs(l.seen[i], l.delivered) \/ Occurs(l.seen[i], Held(l))
        \/ Occurs(l.seen[i], l.stream) \/ l.seen[i] \in l.lagged

Ended == {"ok", "error", "dropped"}

\* A submission that is not done has no listener.
LogInv ==
    \A s \in Submissions :
        /\ listener[s].pc # "none" => submission[s].stage \in Ended
        /\ InOrder(listener[s], occurred)
        /\ Skips(listener[s], occurred)
        /\ receiving => Accounts(s, listener[s])

\* What the steps do to a listener: it moves, takes a log, queues the one it
\* holds, or gets one.
Moved(l, new) ==
    /\ new.stream = l.stream /\ new.seen = l.seen /\ new.delivered = l.delivered
    /\ new.lagged = l.lagged
    /\ l.pc = "queue" <=> new.pc = "queue"
    /\ l.pc = "queue" => new.holding = l.holding

Took(s, l, new) ==
    /\ l.pc = "stream" /\ l.stream # <<>>
    /\ new.stream = Tail(l.stream) /\ new.seen = l.seen /\ new.delivered = l.delivered
    /\ new.lagged = l.lagged
    /\ IF Matches(s, Head(l.stream))
       THEN new.pc = "queue" /\ new.holding = Head(l.stream)
       ELSE new.pc = "stream"

Queued(l, new, delivers) ==
    /\ l.pc = "queue" /\ new.pc = "stream"
    /\ new.stream = l.stream /\ new.seen = l.seen /\ new.lagged = l.lagged
    /\ new.delivered = IF delivers THEN Append(l.delivered, l.holding) ELSE l.delivered

Gained(l, new, item) ==
    /\ new.pc = l.pc /\ new.holding = l.holding /\ new.delivered = l.delivered
    /\ new.seen = Append(l.seen, item)
    /\ IF Len(l.stream) < StreamSize
       THEN new.stream = Append(l.stream, item) /\ new.lagged = l.lagged
       ELSE /\ new.stream = Append(Tail(l.stream), item)
            /\ new.lagged = l.lagged \cup {Head(l.stream)}

\* The fields of a listener.
LEMMA ListenerFields ==
    \A l \in Listener : /\ l.stream \in Seq(Item) /\ l.seen \in Seq(Item)
                        /\ l.lagged \subseteq Item
                        /\ l.pc \in {"none", "connect", "stream", "queue", "delay", "stopped"}
BY DEF Listener

\* An item has a number.
LEMMA ItemIds ==
    /\ \A item \in Item : item.id \in Nat
    /\ \A q \in Seq(Item) : \A i \in DOMAIN q : q[i] \in Item /\ q[i].id \in Nat
<1>1. \A item \in Item : item.id \in Nat
  BY DEF Item
<1>2. \A q \in Seq(Item) : \A i \in DOMAIN q : q[i] \in Item
  OBVIOUS
<1> QED BY <1>1, <1>2

\* The elements of a sequence without its first, and with one more.
LEMMA TailElements ==
    ASSUME NEW S, NEW q \in Seq(S), q # <<>>
    PROVE  /\ 1 \in DOMAIN q /\ q[1] = Head(q)
           /\ \A i \in DOMAIN Tail(q) : /\ i + 1 \in DOMAIN q /\ Tail(q)[i] = q[i + 1]
                                        /\ i \in Nat /\ 1 < i + 1
OBVIOUS

LEMMA AppendElements ==
    ASSUME NEW S, NEW q \in Seq(S), NEW x \in S
    PROVE  \A i \in DOMAIN Append(q, x) :
               \/ i \in DOMAIN q /\ Append(q, x)[i] = q[i]
               \/ /\ Append(q, x)[i] = x /\ i = Len(q) + 1
                  /\ \A j \in DOMAIN q : j < i
OBVIOUS

\* Order in a sequence without its first log.
LEMMA TailOrder ==
    ASSUME NEW q \in Seq(Item), q # <<>>
    PROVE  /\ Increasing(q) => Increasing(Tail(q)) /\ After(Head(q).id, Tail(q))
           /\ \A id : Before(q, id) => Before(Tail(q), id) /\ Head(q).id < id
           /\ \A id : After(id, q) => After(id, Tail(q)) /\ id < Head(q).id
<1>1. /\ 1 \in DOMAIN q /\ q[1] = Head(q)
      /\ \A i \in DOMAIN Tail(q) : /\ i + 1 \in DOMAIN q /\ Tail(q)[i] = q[i + 1]
                                   /\ i \in Nat /\ 1 < i + 1
  BY TailElements
<1>2. ASSUME Increasing(q) PROVE Increasing(Tail(q)) /\ After(Head(q).id, Tail(q))
  <2>1. ASSUME NEW i \in DOMAIN Tail(q), NEW j \in DOMAIN Tail(q), i < j
        PROVE  Tail(q)[i].id < Tail(q)[j].id
    <3>1. i + 1 < j + 1
      BY <1>1, <2>1
    <3>2. q[i + 1].id < q[j + 1].id
      BY <1>1, <1>2, <3>1 DEF Increasing
    <3> QED BY <1>1, <3>2
  <2>2. ASSUME NEW i \in DOMAIN Tail(q) PROVE Head(q).id < Tail(q)[i].id
    <3>1. q[1].id < q[i + 1].id
      BY <1>1, <1>2 DEF Increasing
    <3> QED BY <1>1, <3>1
  <2> QED BY <2>1, <2>2 DEF Increasing, After
<1>3. ASSUME NEW id, Before(q, id) PROVE Before(Tail(q), id) /\ Head(q).id < id
  BY <1>1, <1>3 DEF Before
<1>4. ASSUME NEW id, After(id, q) PROVE After(id, Tail(q)) /\ id < Head(q).id
  BY <1>1, <1>4 DEF After
<1> QED BY <1>2, <1>3, <1>4

\* Order in a sequence with one more log.
LEMMA AppendOrder ==
    ASSUME NEW q \in Seq(Item), NEW item \in Item
    PROVE  /\ Increasing(q) /\ Before(q, item.id) => Increasing(Append(q, item))
           /\ \A id : Before(q, id) /\ item.id < id => Before(Append(q, item), id)
           /\ \A id : After(id, q) /\ id < item.id => After(id, Append(q, item))
<1>1. \A i \in DOMAIN Append(q, item) :
          \/ i \in DOMAIN q /\ Append(q, item)[i] = q[i]
          \/ /\ Append(q, item)[i] = item /\ i = Len(q) + 1
             /\ \A j \in DOMAIN q : j < i
  BY AppendElements
<1>2. ASSUME Increasing(q), Before(q, item.id) PROVE Increasing(Append(q, item))
  <2> SUFFICES ASSUME NEW i \in DOMAIN Append(q, item), NEW j \in DOMAIN Append(q, item),
                      i < j
               PROVE  Append(q, item)[i].id < Append(q, item)[j].id
    BY DEF Increasing
  <2>1. CASE j \in DOMAIN q /\ Append(q, item)[j] = q[j]
    <3>1. i \in DOMAIN q /\ Append(q, item)[i] = q[i]
      <4>1. ASSUME i = Len(q) + 1 PROVE FALSE
        <5>1. j <= Len(q) /\ j \in Nat /\ Len(q) \in Nat
          BY <2>1
        <5> QED BY <4>1, <5>1
      <4> QED BY <1>1, <4>1
    <3> QED BY <1>2, <2>1, <3>1 DEF Increasing
  <2>2. CASE Append(q, item)[j] = item /\ j = Len(q) + 1
    <3>1. i \in DOMAIN q /\ Append(q, item)[i] = q[i]
      <4>1. i \in Nat /\ Len(q) \in Nat
        OBVIOUS
      <4> QED BY <1>1, <2>2, <4>1
    <3> QED BY <1>2, <2>2, <3>1 DEF Before
  <2> QED BY <1>1, <2>1, <2>2
<1>3. ASSUME NEW id, Before(q, id), item.id < id PROVE Before(Append(q, item), id)
  BY <1>1, <1>3 DEF Before
<1>4. ASSUME NEW id, After(id, q), id < item.id PROVE After(id, Append(q, item))
  BY <1>1, <1>4 DEF After
<1> QED BY <1>2, <1>3, <1>4

\* A later last log changes nothing.
LEMMA LaterInOrder ==
    ASSUME NEW l \in Listener, NEW m \in Nat, NEW n \in Nat, m <= n,
           InOrder(l, m), Skips(l, m)
    PROVE  InOrder(l, n) /\ Skips(l, n)
<1>1. ASSUME NEW q \in Seq(Item), Before(q, m + 1) PROVE Before(q, n + 1)
  BY <1>1, ItemIds DEF Before
<1>2. Before(l.delivered, n + 1) /\ Before(l.stream, n + 1) /\ Before(l.seen, n + 1)
  BY <1>1, ListenerFields DEF InOrder, Skips
<1>3. l.pc = "queue" => l.holding.id <= n
  BY ItemIds DEF InOrder
<1>4. \A item \in l.lagged : item.id <= n
  BY ItemIds, ListenerFields DEF Skips
<1> QED BY <1>2, <1>3, <1>4 DEF InOrder, Skips

\* A listener that moves.
LEMMA MovedLogs ==
    ASSUME NEW s, NEW l, NEW new, NEW n, Moved(l, new), InOrder(l, n), Skips(l, n)
    PROVE  InOrder(new, n) /\ Skips(new, n) /\ (Accounts(s, l) => Accounts(s, new))
<1>1. Held(new) = Held(l)
  BY DEF Held, Moved
<1>2. InOrder(new, n)
  BY DEF Moved, InOrder
<1>3. Skips(new, n)
  BY DEF Moved, Skips
<1> QED BY <1>1, <1>2, <1>3 DEF Accounts, Moved

\* What occurs in a sequence without its first, and with one more.
LEMMA OccursTail ==
    ASSUME NEW S, NEW q \in Seq(S), q # <<>>, NEW x, Occurs(x, q)
    PROVE  x = Head(q) \/ Occurs(x, Tail(q))
<1>1. PICK i \in DOMAIN q : q[i] = x
  BY DEF Occurs
<1>2. CASE i = 1
  BY <1>1, <1>2, TailElements
<1>3. CASE i # 1
  <2>1. i - 1 \in DOMAIN Tail(q) /\ Tail(q)[i - 1] = q[i]
    BY <1>3
  <2> QED BY <1>1, <2>1 DEF Occurs
<1> QED BY <1>2, <1>3

LEMMA OccursAppend ==
    ASSUME NEW S, NEW q \in Seq(S), NEW item \in S
    PROVE  /\ Occurs(item, Append(q, item))
           /\ \A x : Occurs(x, q) => Occurs(x, Append(q, item))
<1>1. /\ Len(q) + 1 \in DOMAIN Append(q, item) /\ Append(q, item)[Len(q) + 1] = item
      /\ \A i \in DOMAIN q : i \in DOMAIN Append(q, item) /\ Append(q, item)[i] = q[i]
  OBVIOUS
<1> QED BY <1>1 DEF Occurs

\* A listener that takes a log: it holds the log if it wants it.
LEMMA TookLogs ==
    ASSUME NEW s, NEW l \in Listener, NEW new, NEW n \in Nat, Took(s, l, new),
           InOrder(l, n), Skips(l, n)
    PROVE  InOrder(new, n) /\ Skips(new, n) /\ (Accounts(s, l) => Accounts(s, new))
<1>1. l.stream \in Seq(Item) /\ l.stream # <<>>
  BY ListenerFields DEF Took
<1>2. PICK q \in Seq(Item) : q = l.stream /\ q # <<>>
  BY <1>1
<1>3. Head(q) \in Item /\ Tail(q) \in Seq(Item)
  BY <1>2, SequenceFacts
<1>4. PICK d \in Seq(Item) : d = l.delivered
  BY DEF InOrder
<1>5. /\ Increasing(Tail(q)) /\ After(Head(q).id, Tail(q))
      /\ Before(Tail(q), n + 1) /\ Head(q).id < n + 1
  BY <1>2, TailOrder DEF InOrder
<1>6. ASSUME NEW i \in DOMAIN d
      PROVE  After(d[i].id, Tail(q)) /\ d[i].id < Head(q).id
  <2>1. After(d[i].id, q)
    BY <1>2, <1>4 DEF InOrder
  <2> QED BY <1>2, <2>1, TailOrder
<1>7. Before(d, Head(q).id)
  BY <1>6 DEF Before
<1>10. /\ new.delivered = d /\ new.stream = Tail(q) /\ new.seen = l.seen
       /\ new.lagged = l.lagged
       /\ new.pc = "queue" => new.holding = Head(q)
  BY <1>2, <1>4 DEF Took
<1>8. InOrder(new, n)
  <2>1. Head(q).id <= n
    BY <1>3, <1>5, ItemIds
  <2>3. d \in Seq(Item) /\ Increasing(d) /\ Before(d, n + 1)
    BY <1>4 DEF InOrder
  <2> QED BY <1>3, <1>5, <1>6, <1>7, <1>10, <2>1, <2>3 DEF InOrder
<1>11. Skips(new, n)
  <2>1. PICK k \in Nat, m \in Nat : k = Len(q) /\ m = Len(l.seen)
    BY ListenerFields
  <2>2. /\ k > 0 /\ k <= m /\ k <= StreamSize /\ Len(Tail(q)) = k - 1
        /\ StreamSize \in Nat
    BY <1>2, <2>1, SequenceFacts, WorkOrdersAssumption DEF Skips
  <2>3. ASSUME NEW j \in DOMAIN Tail(q) PROVE Tail(q)[j] = l.seen[m - (k - 1) + j]
    <3>1. j \in Nat /\ j + 1 \in DOMAIN q /\ Tail(q)[j] = q[j + 1]
      BY <1>2, TailElements
    <3>2. q[j + 1] = l.seen[m - k + (j + 1)]
      BY <1>2, <2>1, <3>1 DEF Skips
    <3>3. ASSUME NEW a \in Nat, NEW b \in Nat, NEW c \in Nat
          PROVE  a - b + (c + 1) = a - (b - 1) + c
      OBVIOUS
    <3>4. m - k + (j + 1) = m - (k - 1) + j
      BY <3>1, <3>3
    <3> QED BY <3>1, <3>2, <3>4
  <2>4. ASSUME NEW item \in l.lagged
        PROVE  After(item.id, Tail(q)) /\ item.id # Head(q).id
    <3>1. After(item.id, q) /\ item.id \in Nat
      BY <1>2, ListenerFields, ItemIds DEF Skips
    <3>2. item.id < Head(q).id
      BY <1>2, <3>1, TailOrder
    <3>3. Head(q).id \in Nat
      BY <1>3, ItemIds
    <3> QED BY <1>2, <3>1, <3>2, <3>3, TailOrder
  <2>5. /\ Len(new.stream) <= Len(new.seen) /\ Len(new.stream) <= StreamSize
        /\ Len(new.stream) = k - 1 /\ Len(new.seen) = m
    BY <1>10, <2>1, <2>2
  <2>6. \A j \in DOMAIN new.stream :
            new.stream[j] = new.seen[Len(new.seen) - Len(new.stream) + j]
    BY <1>10, <2>3, <2>5
  <2>7. /\ Increasing(new.seen) /\ Before(new.seen, n + 1)
        /\ \A i \in DOMAIN new.seen :
               new.seen[i] \in new.lagged => i + StreamSize <= Len(new.seen)
    BY <1>10 DEF Skips
  <2>8. \A item \in new.lagged :
            /\ item.id <= n /\ After(item.id, new.stream)
            /\ \A i \in DOMAIN new.delivered : new.delivered[i].id # item.id
            /\ new.pc = "queue" => new.holding.id # item.id
    BY <1>4, <1>10, <2>4 DEF Skips
  <2> QED BY <2>5, <2>6, <2>7, <2>8 DEF Skips
<1>9. ASSUME Accounts(s, l) PROVE Accounts(s, new)
  <2> SUFFICES ASSUME NEW i \in DOMAIN l.seen, Matches(s, l.seen[i]),
                      ~Occurs(l.seen[i], l.delivered), l.seen[i] \notin l.lagged
               PROVE  Occurs(l.seen[i], Held(new)) \/ Occurs(l.seen[i], new.stream)
    BY <1>4, <1>10 DEF Accounts
  <2>1. ~Occurs(l.seen[i], Held(l))
    BY DEF Held, Took, Occurs
  <2>2. Occurs(l.seen[i], q)
    BY <1>2, <1>9, <2>1 DEF Accounts
  <2>3. l.seen[i] = Head(q) \/ Occurs(l.seen[i], Tail(q))
    BY <1>2, <2>2, OccursTail
  <2>4. ASSUME l.seen[i] = Head(q) PROVE Occurs(l.seen[i], Held(new))
    <3>1. Held(new) = <<Head(q)>>
      BY <1>2, <2>4 DEF Took, Held
    <3>2. 1 \in DOMAIN Held(new) /\ Held(new)[1] = Head(q)
      BY <3>1
    <3> QED BY <2>4, <3>2 DEF Occurs
  <2> QED BY <1>10, <2>3, <2>4
<1> QED BY <1>8, <1>9, <1>11

\* A listener that has queued its log, or dropped it as the queue is gone.
LEMMA QueuedLogs ==
    ASSUME NEW s, NEW l \in Listener, NEW new, NEW n \in Nat, NEW delivers \in BOOLEAN,
           Queued(l, new, delivers), InOrder(l, n), Skips(l, n)
    PROVE  /\ InOrder(new, n) /\ Skips(new, n)
           /\ delivers /\ Accounts(s, l) => Accounts(s, new)
<1>1. PICK d \in Seq(Item) : d = l.delivered
  BY DEF InOrder
<1>2. PICK item \in Item : item = l.holding
  BY DEF InOrder, Queued
<1>3. /\ new.pc = "stream" /\ new.stream = l.stream /\ new.seen = l.seen
      /\ new.lagged = l.lagged /\ l.pc = "queue"
      /\ new.delivered = IF delivers THEN Append(d, item) ELSE d
  BY <1>1, <1>2 DEF Queued
<1>4. CASE ~delivers
  <2>1. InOrder(new, n)
    BY <1>1, <1>3, <1>4 DEF InOrder
  <2>2. Skips(new, n)
    BY <1>1, <1>3, <1>4 DEF Skips
  <2> QED BY <1>4, <2>1, <2>2
<1>5. CASE delivers
  <2>1. new.delivered = Append(d, item)
    BY <1>3, <1>5
  <2>2. /\ Increasing(d) /\ Before(d, item.id) /\ Before(d, n + 1) /\ item.id <= n
        /\ After(item.id, l.stream)
    BY <1>1, <1>2 DEF InOrder, Queued
  <2>3. item.id < n + 1
    BY <2>2, ItemIds
  <2>4. Append(d, item) \in Seq(Item) /\ Increasing(Append(d, item))
        /\ Before(Append(d, item), n + 1)
    BY <2>2, <2>3, AppendOrder, SequenceFacts
  <2>5. ASSUME NEW i \in DOMAIN Append(d, item)
        PROVE  After(Append(d, item)[i].id, l.stream)
    <3>1. Append(d, item)[i] = item \/ (i \in DOMAIN d /\ Append(d, item)[i] = d[i])
      BY AppendElements
    <3>2. \A j \in DOMAIN d : After(d[j].id, l.stream)
      BY <1>1 DEF InOrder
    <3> QED BY <2>2, <3>1, <3>2
  <2>6. InOrder(new, n)
    BY <1>3, <2>1, <2>4, <2>5 DEF InOrder
  <2>7. Skips(new, n)
    <3>1. ASSUME NEW x \in l.lagged, NEW i \in DOMAIN Append(d, item)
          PROVE  Append(d, item)[i].id # x.id
      <4>1. Append(d, item)[i] = item \/ (i \in DOMAIN d /\ Append(d, item)[i] = d[i])
        BY AppendElements
      <4>2. item.id # x.id /\ \A j \in DOMAIN d : d[j].id # x.id
        BY <1>1, <1>2, <1>3 DEF Skips
      <4> QED BY <4>1, <4>2
    <3> QED BY <1>3, <2>1, <3>1 DEF Skips
  <2>8. ASSUME Accounts(s, l) PROVE Accounts(s, new)
    <3> SUFFICES ASSUME NEW i \in DOMAIN l.seen, Matches(s, l.seen[i]),
                        ~Occurs(l.seen[i], l.stream), l.seen[i] \notin l.lagged
                 PROVE  Occurs(l.seen[i], Append(d, item))
      BY <1>3, <2>1 DEF Accounts
    <3>1. Occurs(l.seen[i], d) \/ Occurs(l.seen[i], Held(l))
      BY <1>1, <2>8 DEF Accounts
    <3>2. Held(l) = <<item>>
      BY <1>2, <1>3 DEF Held
    <3>3. Occurs(l.seen[i], Held(l)) => l.seen[i] = item
      BY <3>2 DEF Occurs
    <3> QED BY <3>1, <3>3, OccursAppend
  <2> QED BY <2>6, <2>7, <2>8
<1> QED BY <1>4, <1>5

\* The stream that a log leaves, from which it may have pushed the first.
LEMMA GainedStream ==
    ASSUME NEW l \in Listener, NEW new, NEW item \in Item, Gained(l, new, item)
    PROVE  \E q \in Seq(Item) :
               /\ new.stream = Append(q, item)
               /\ \/ q = l.stream /\ new.lagged = l.lagged /\ Len(q) < StreamSize
                  \/ /\ l.stream # <<>> /\ q = Tail(l.stream)
                     /\ new.lagged = l.lagged \cup {Head(l.stream)}
                     /\ Len(l.stream) >= StreamSize
<1>1. PICK p \in Seq(Item) : p = l.stream
  BY ListenerFields
<1>2. StreamSize \in Nat \ {0} /\ Len(p) \in Nat
  BY WorkOrdersAssumption
<1>3. CASE Len(p) < StreamSize
  BY <1>1, <1>3 DEF Gained
<1>4. CASE Len(p) >= StreamSize
  <2>1. p # <<>>
    BY <1>2, <1>4
  <2>2. Tail(p) \in Seq(Item)
    BY <2>1, SequenceFacts
  <2>3. ~(Len(p) < StreamSize)
    BY <1>2, <1>4
  <2> QED BY <1>1, <1>4, <2>1, <2>2, <2>3 DEF Gained
<1> QED BY <1>2, <1>3, <1>4

\* A listener whose stream gets a log.
LEMMA GainedOrder ==
    ASSUME NEW l \in Listener, NEW new, NEW n \in Nat, NEW item \in Item,
           item.id = n + 1, Gained(l, new, item), InOrder(l, n), Skips(l, n)
    PROVE  InOrder(new, n + 1)
<1>0. PICK m \in Nat : m = n + 1
  OBVIOUS
<1>1. PICK q \in Seq(Item) :
          /\ new.stream = Append(q, item)
          /\ q = l.stream \/ (l.stream # <<>> /\ q = Tail(l.stream))
  BY GainedStream
<1>2. PICK d \in Seq(Item) : d = l.delivered
  BY DEF InOrder
<1>3. InOrder(l, m)
  BY <1>0, LaterInOrder
<1>10. l.stream \in Seq(Item)
  BY ListenerFields
<1>11. /\ Increasing(l.stream) => Increasing(q)
       /\ \A id : Before(l.stream, id) => Before(q, id)
       /\ \A id : After(id, l.stream) => After(id, q)
  BY <1>1, <1>10, TailOrder
<1>4. /\ Increasing(q) /\ Before(q, item.id) /\ Before(d, item.id)
      /\ \A i \in DOMAIN d : After(d[i].id, q)
  BY <1>2, <1>11 DEF InOrder
<1>5. item.id < m + 1
  BY <1>0
<1>6. Increasing(Append(q, item)) /\ Before(Append(q, item), m + 1)
  <2>1. Before(q, m + 1)
    BY <1>3, <1>11 DEF InOrder
  <2> QED BY <1>4, <1>5, <2>1, AppendOrder
<1>7. ASSUME NEW i \in DOMAIN d PROVE After(d[i].id, Append(q, item))
  <2>1. After(d[i].id, q) /\ d[i].id < item.id
    BY <1>4 DEF Before
  <2> QED BY <2>1, AppendOrder
<1>8. ASSUME l.pc = "queue" PROVE After(l.holding.id, Append(q, item))
  <2>1. After(l.holding.id, q) /\ l.holding \in Item /\ l.holding.id <= n
    BY <1>8, <1>11 DEF InOrder
  <2>2. l.holding.id < item.id
    BY <2>1, ItemIds
  <2> QED BY <2>1, <2>2, AppendOrder
<1>9. InOrder(new, m)
  <2>1. /\ new.pc = l.pc /\ new.holding = l.holding /\ new.delivered = d
        /\ new.stream = Append(q, item)
    BY <1>1, <1>2 DEF Gained
  <2> QED BY <1>2, <1>3, <1>6, <1>7, <1>8, <2>1 DEF InOrder
<1> QED BY <1>0, <1>9

LEMMA GainedSkips ==
    ASSUME NEW l \in Listener, NEW new, NEW n \in Nat, NEW item \in Item,
           item.id = n + 1, Gained(l, new, item), InOrder(l, n), Skips(l, n)
    PROVE  Skips(new, n + 1)
<1>1. PICK q \in Seq(Item) :
          /\ new.stream = Append(q, item)
          /\ \/ q = l.stream /\ new.lagged = l.lagged /\ Len(q) < StreamSize
             \/ /\ l.stream # <<>> /\ q = Tail(l.stream)
                /\ new.lagged = l.lagged \cup {Head(l.stream)}
                /\ Len(l.stream) >= StreamSize
  BY GainedStream
<1>2. PICK p \in Seq(Item), seen \in Seq(Item) : p = l.stream /\ seen = l.seen
  BY ListenerFields
<1>3. PICK k \in Nat, m \in Nat, j0 \in Nat : k = Len(p) /\ m = Len(seen) /\ j0 = Len(q)
  OBVIOUS
<1>4. /\ Increasing(seen) /\ Before(seen, n + 1) /\ k <= m /\ k <= StreamSize
      /\ \A j \in DOMAIN p : p[j] = seen[m - k + j]
      /\ \A i \in DOMAIN seen : seen[i] \in l.lagged => i + StreamSize <= m
      /\ \A x \in l.lagged :
            /\ x.id <= n /\ After(x.id, p)
            /\ \A i \in DOMAIN l.delivered : l.delivered[i].id # x.id
            /\ l.pc = "queue" => l.holding.id # x.id
  BY <1>2, <1>3 DEF Skips
<1>5. StreamSize \in Nat \ {0}
  BY WorkOrdersAssumption
<1>6. /\ new.pc = l.pc /\ new.holding = l.holding /\ new.delivered = l.delivered
      /\ new.seen = Append(seen, item)
  BY <1>2 DEF Gained
<1>7. /\ Append(seen, item) \in Seq(Item) /\ Len(Append(seen, item)) = m + 1
      /\ Append(q, item) \in Seq(Item) /\ Len(Append(q, item)) = j0 + 1
      /\ DOMAIN seen = 1 .. m /\ DOMAIN p = 1 .. k /\ DOMAIN q = 1 .. j0
      /\ DOMAIN Append(seen, item) = 1 .. (m + 1)
      /\ DOMAIN Append(q, item) = 1 .. (j0 + 1)
      /\ \A i \in 1 .. m : Append(seen, item)[i] = seen[i]
      /\ Append(seen, item)[m + 1] = item
      /\ \A i \in 1 .. j0 : Append(q, item)[i] = q[i]
      /\ Append(q, item)[j0 + 1] = item
  BY <1>3
<1>8. /\ j0 <= m /\ j0 + 1 <= StreamSize
      /\ \A j \in 1 .. j0 : q[j] = seen[m - j0 + j]
  <2>1. CASE q = p /\ Len(q) < StreamSize
    BY <1>3, <1>4, <1>5, <1>7, <2>1
  <2>2. CASE p # <<>> /\ q = Tail(p)
    <3>1. k > 0 /\ j0 = k - 1
      BY <1>3, <2>2, SequenceFacts
    <3>2. ASSUME NEW j \in 1 .. j0 PROVE q[j] = seen[m - j0 + j]
      <4>1. j + 1 \in DOMAIN p /\ q[j] = p[j + 1] /\ j \in Nat
        BY <1>7, <2>2, TailElements
      <4>2. q[j] = seen[m - k + (j + 1)]
        BY <1>4, <4>1
      <4>3. m - k + (j + 1) = m - j0 + j
        BY <1>3, <3>1, <4>1
      <4> QED BY <4>2, <4>3
    <3> QED BY <1>3, <1>4, <1>5, <3>1, <3>2
  <2> QED BY <1>1, <1>2, <2>1, <2>2
<1>9. /\ Len(new.stream) <= Len(new.seen) /\ Len(new.stream) <= StreamSize
      /\ \A j \in DOMAIN new.stream :
            new.stream[j] = new.seen[Len(new.seen) - Len(new.stream) + j]
  <2>1. Len(new.stream) = j0 + 1 /\ Len(new.seen) = m + 1
    BY <1>1, <1>6, <1>7
  <2>2. ASSUME NEW j \in 1 .. (j0 + 1)
        PROVE  Append(q, item)[j] = Append(seen, item)[(m + 1) - (j0 + 1) + j]
    <3>1. CASE j = j0 + 1
      <4>1. (m + 1) - (j0 + 1) + j = m + 1
        BY <1>3, <3>1
      <4> QED BY <1>7, <3>1, <4>1
    <3>2. CASE j # j0 + 1
      <4>1. /\ j \in 1 .. j0 /\ (m + 1) - (j0 + 1) + j = m - j0 + j
            /\ m - j0 + j \in 1 .. m
        BY <1>3, <1>8, <3>2
      <4> QED BY <1>7, <1>8, <4>1
    <3> QED BY <3>1, <3>2
  <2>3. \A j \in DOMAIN new.stream :
            new.stream[j] = new.seen[Len(new.seen) - Len(new.stream) + j]
    BY <1>1, <1>6, <1>7, <2>1, <2>2
  <2> QED BY <1>3, <1>5, <1>8, <2>1, <2>3
<1>10. Increasing(new.seen) /\ Before(new.seen, n + 1 + 1)
  <2>1. Before(seen, item.id) /\ item.id < n + 1 + 1
    BY <1>4
  <2>2. Before(seen, n + 1 + 1)
    BY <1>4, ItemIds DEF Before
  <2> QED BY <1>4, <1>6, <2>1, <2>2, AppendOrder
<1>11. \A x \in new.lagged :
           \/ x \in l.lagged
           \/ p # <<>> /\ q = Tail(p) /\ x = Head(p) /\ k >= StreamSize
  BY <1>1, <1>2, <1>3
<1>12. ASSUME NEW x \in new.lagged
       PROVE  /\ x.id \in Nat /\ x.id <= n /\ After(x.id, new.stream)
              /\ \A i \in DOMAIN new.delivered : new.delivered[i].id # x.id
              /\ new.pc = "queue" => new.holding.id # x.id
  <2>1. CASE x \in l.lagged
    <3>1. x.id \in Nat /\ x.id <= n /\ After(x.id, p)
      BY <1>4, <2>1, ListenerFields, ItemIds
    <3>2. After(x.id, q)
      BY <1>1, <1>2, <3>1, TailOrder
    <3>3. x.id < item.id
      BY <3>1
    <3>4. After(x.id, new.stream)
      BY <1>1, <3>2, <3>3, AppendOrder
    <3> QED BY <1>4, <1>6, <2>1, <3>1, <3>4
  <2>2. CASE p # <<>> /\ q = Tail(p) /\ x = Head(p)
    <3>1. x \in Item /\ x.id \in Nat
      BY <2>2, SequenceFacts, ItemIds
    <3>2. Increasing(p) /\ Before(p, n + 1)
      BY <1>2 DEF InOrder
    <3>3. After(x.id, q) /\ x.id < n + 1
      BY <2>2, <3>2, TailOrder
    <3>4. x.id <= n
      BY <3>1, <3>3
    <3>5. After(x.id, new.stream)
      BY <1>1, <3>3, AppendOrder
    <3>6. ASSUME NEW i \in DOMAIN l.delivered PROVE l.delivered[i].id # x.id
      <4>1. After(l.delivered[i].id, p)
        BY <1>2 DEF InOrder
      <4>2. l.delivered[i].id < x.id
        BY <2>2, <4>1, TailOrder
      <4>3. l.delivered[i].id \in Nat
        BY ItemIds DEF InOrder
      <4> QED BY <3>1, <4>2, <4>3
    <3>7. ASSUME l.pc = "queue" PROVE l.holding.id # x.id
      <4>1. After(l.holding.id, p) /\ l.holding \in Item
        BY <1>2, <3>7 DEF InOrder
      <4>2. l.holding.id < x.id /\ l.holding.id \in Nat
        BY <2>2, <4>1, TailOrder, ItemIds
      <4> QED BY <3>1, <4>2
    <3> QED BY <1>6, <3>1, <3>4, <3>5, <3>6, <3>7
  <2> QED BY <1>11, <2>1, <2>2
<1>13. ASSUME NEW i \in 1 .. (m + 1), Append(seen, item)[i] \in new.lagged
       PROVE  i + StreamSize <= m + 1
  <2>1. i # m + 1
    <3>1. ASSUME i = m + 1 PROVE FALSE
      <4>1. item \in new.lagged
        BY <1>7, <1>13, <3>1
      <4>2. item.id <= n
        BY <1>12, <4>1
      <4> QED BY <4>2
    <3> QED BY <3>1
  <2>2. i \in 1 .. m /\ seen[i] \in new.lagged
    BY <1>3, <1>7, <1>13, <2>1
  <2>3. CASE seen[i] \in l.lagged
    <3>1. i + StreamSize <= m
      BY <1>4, <1>7, <2>2, <2>3
    <3> QED BY <1>3, <1>5, <2>2, <3>1
  <2>4. CASE p # <<>> /\ seen[i] = Head(p) /\ k >= StreamSize
    <3>1. k > 0 /\ k = StreamSize /\ 1 \in DOMAIN p /\ Head(p) = p[1]
      BY <1>3, <1>4, <1>5, <2>4, TailElements
    <3>2. m - k + 1 \in 1 .. m /\ seen[i] = seen[m - k + 1]
      BY <1>3, <1>4, <2>4, <3>1
    <3>3. i = m - k + 1
      <4>1. \A a, b \in 1 .. m : a < b => seen[a].id < seen[b].id
        BY <1>4, <1>7 DEF Increasing
      <4>2. \A a \in 1 .. m : seen[a].id \in Nat
        BY <1>7, ItemIds
      <4>3. ~(i < m - k + 1) /\ ~(m - k + 1 < i)
        BY <2>2, <3>2, <4>1, <4>2
      <4> QED BY <1>3, <2>2, <3>2, <4>3
    <3> QED BY <1>3, <3>1, <3>3
  <2> QED BY <1>11, <2>2, <2>3, <2>4
<1>14. \A i \in DOMAIN new.seen :
           new.seen[i] \in new.lagged => i + StreamSize <= Len(new.seen)
  BY <1>6, <1>7, <1>13
<1>15. \A x \in new.lagged : x.id <= n + 1
  BY <1>12
<1> QED BY <1>9, <1>10, <1>12, <1>14, <1>15 DEF Skips

LEMMA GainedAccounts ==
    ASSUME NEW s, NEW l \in Listener, NEW new, NEW item \in Item, Gained(l, new, item),
           Accounts(s, l)
    PROVE  Accounts(s, new)
<1>1. PICK q \in Seq(Item) :
          /\ new.stream = Append(q, item)
          /\ \/ q = l.stream /\ new.lagged = l.lagged
             \/ /\ l.stream # <<>> /\ q = Tail(l.stream)
                /\ new.lagged = l.lagged \cup {Head(l.stream)}
  BY GainedStream
<1>2. PICK seen \in Seq(Item), p \in Seq(Item) : seen = l.seen /\ p = l.stream
  BY ListenerFields
<1>3. new.seen = Append(seen, item) /\ new.delivered = l.delivered /\ Held(new) = Held(l)
  BY <1>2 DEF Gained, Held
<1>4. ASSUME NEW x, Occurs(x, p) PROVE Occurs(x, new.stream) \/ x \in new.lagged
  <2>1. Occurs(x, q) \/ x \in new.lagged
    BY <1>1, <1>2, <1>4, OccursTail
  <2> QED BY <1>1, <2>1, OccursAppend
<1>5. Occurs(item, new.stream) /\ l.lagged \subseteq new.lagged
  BY <1>1, OccursAppend
<1>6. ASSUME NEW i \in DOMAIN new.seen
      PROVE  new.seen[i] = item \/ (i \in DOMAIN seen /\ new.seen[i] = seen[i])
  BY <1>3, AppendElements
<1> QED BY <1>2, <1>3, <1>4, <1>5, <1>6 DEF Accounts

-----------------------------------------------------------------------------
(* The steps, and the logs.                                                *)

\* A step in which one listener changes.
LEMMA OneListener ==
    ASSUME TypeOK, LogInv, NEW s \in Submissions,
           listener' \in [Submissions -> Listener],
           \A t \in Submissions : t # s => listener'[t] = listener[t],
           UNCHANGED <<submission, occurred, receiving>>, listener[s].pc # "none",
           \/ Moved(listener[s], listener'[s]) \/ Took(s, listener[s], listener'[s])
           \/ Queued(listener[s], listener'[s], receiving)
    PROVE  LogInv'
<1>1. listener[s] \in Listener /\ occurred \in Nat /\ receiving \in BOOLEAN
  BY WorkOrdersAssumption DEF TypeOK
<1>2. /\ InOrder(listener[s], occurred) /\ Skips(listener[s], occurred)
      /\ receiving => Accounts(s, listener[s])
  BY DEF LogInv
<1>3. /\ InOrder(listener'[s], occurred) /\ Skips(listener'[s], occurred)
      /\ receiving => Accounts(s, listener'[s])
  <2>1. CASE Moved(listener[s], listener'[s])
    BY <1>2, <2>1, MovedLogs
  <2>2. CASE Took(s, listener[s], listener'[s])
    BY <1>1, <1>2, <2>2, TookLogs
  <2>3. CASE Queued(listener[s], listener'[s], receiving)
    BY <1>1, <1>2, <2>3, QueuedLogs
  <2> QED BY <2>1, <2>2, <2>3
<1>4. submission[s].stage \in Ended
  BY DEF LogInv
<1>5. ASSUME NEW t \in Submissions
      PROVE  /\ listener'[t].pc # "none" => submission'[t].stage \in Ended
             /\ InOrder(listener'[t], occurred') /\ Skips(listener'[t], occurred')
             /\ receiving' => Accounts(t, listener'[t])
  <2>1. CASE t = s
    BY <1>3, <1>4, <2>1
  <2>2. CASE t # s
    BY <2>2 DEF LogInv
  <2> QED BY <2>1, <2>2
<1> QED BY <1>5 DEF LogInv

\* A listener with another position.
LEMMA ListenAtMoved ==
    ASSUME TypeOK, NEW s \in Submissions,
           NEW pc \in {"none", "connect", "stream", "delay", "stopped"},
           ListenAt(s, pc), listener[s].pc # "queue"
    PROVE  Moved(listener[s], listener'[s])
<1>1. PICK l \in Listener : l = listener[s]
  BY DEF TypeOK
<1>2. PICK new : new = [l EXCEPT !.pc = pc]
  OBVIOUS
<1>3. /\ new.stream = l.stream /\ new.seen = l.seen /\ new.delivered = l.delivered
      /\ new.pc = pc /\ new.lagged = l.lagged
  BY <1>2 DEF Listener
<1>4. listener' = [listener EXCEPT ![s] = new]
  BY <1>1, <1>2 DEF ListenAt, TypeOK
<1>5. listener'[s] = new
  BY <1>4 DEF TypeOK
<1> QED BY <1>1, <1>3, <1>5 DEF Moved

\* What the step of a listener does to it.
LEMMA ListenerMoves ==
    ASSUME TypeOK, NEW s \in Submissions, ListenerStep(s)
    PROVE  /\ listener[s].pc # "none"
           /\ \A t \in Submissions : t # s => listener'[t] = listener[t]
           /\ \/ Moved(listener[s], listener'[s]) \/ Took(s, listener[s], listener'[s])
              \/ Queued(listener[s], listener'[s], receiving)
<1>0. PICK l \in Listener : l = listener[s]
  BY DEF TypeOK
<1>1. ASSUME NEW pc \in {"none", "connect", "stream", "delay", "stopped"}, ListenAt(s, pc),
             l.pc # "queue"
      PROVE  /\ \A t \in Submissions : t # s => listener'[t] = listener[t]
             /\ Moved(listener[s], listener'[s])
  BY <1>0, <1>1, ListenAtEffect, ListenAtMoved
<1>2. ASSUME NEW new, listener' = [listener EXCEPT ![s] = new]
      PROVE  /\ \A t \in Submissions : t # s => listener'[t] = listener[t]
             /\ listener'[s] = new
  BY <1>2 DEF TypeOK
<1>3. Delay(s) \in {"none", "connect", "stream", "delay", "stopped"}
  BY DEF Delay
<1>4. CASE ListenerConnect(s)
  <2>1. l.pc = "connect"
    BY <1>0, <1>4 DEF ListenerConnect, Listens
  <2>2. PICK new : new = Subscribed(l)
    OBVIOUS
  <2>3. Moved(l, new)
    BY <2>1, <2>2 DEF Subscribed, Listener, Moved
  <2>4. \/ ListenAt(s, "stopped") \/ ListenAt(s, Delay(s))
        \/ listener' = [listener EXCEPT ![s] = new]
    BY <1>0, <1>4, <2>2 DEF ListenerConnect
  <2> QED BY <1>0, <1>1, <1>2, <1>3, <2>1, <2>3, <2>4
<1>5. CASE ListenerNext(s)
  <2>1. l.pc = "stream"
    BY <1>0, <1>5 DEF ListenerNext, Listens
  <2>2. CASE ListenAt(s, Delay(s))
    BY <1>0, <1>1, <1>3, <2>1, <2>2
  <2>3. CASE ~ListenAt(s, Delay(s))
    <3>1. l.stream # <<>> /\ l.stream \in Seq(Item)
      BY <1>0, <1>5, <2>3, ListenerFields DEF ListenerNext
    <3>2. Head(l.stream) \in Item /\ Tail(l.stream) \in Seq(Item)
      BY <3>1, SequenceFacts
    <3>3. PICK first \in Item, rest \in Seq(Item) :
              first = Head(l.stream) /\ rest = Tail(l.stream)
      BY <3>2
    <3>4. PICK held : held = [l EXCEPT !.stream = rest, !.pc = "queue", !.holding = first]
      OBVIOUS
    <3>5. PICK skipped : skipped = [l EXCEPT !.stream = rest]
      OBVIOUS
    <3>6. /\ held.stream = rest /\ held.pc = "queue" /\ held.holding = first
          /\ held.seen = l.seen /\ held.delivered = l.delivered /\ held.lagged = l.lagged
      BY <3>4 DEF Listener
    <3>7. /\ skipped.stream = rest /\ skipped.pc = l.pc
          /\ skipped.seen = l.seen /\ skipped.delivered = l.delivered
          /\ skipped.lagged = l.lagged
      BY <3>5 DEF Listener
    <3>8. listener' = [listener EXCEPT ![s] = IF Matches(s, first) THEN held ELSE skipped]
      BY <1>0, <1>5, <2>3, <3>3, <3>4, <3>5 DEF ListenerNext
    <3>9. CASE Matches(s, first)
      <4>1. Took(s, l, held)
        BY <2>1, <3>1, <3>3, <3>6, <3>9 DEF Took
      <4> QED BY <1>0, <1>2, <2>1, <3>8, <3>9, <4>1
    <3>10. CASE ~Matches(s, first)
      <4>1. Took(s, l, skipped)
        BY <2>1, <3>1, <3>3, <3>7, <3>10 DEF Took
      <4> QED BY <1>0, <1>2, <2>1, <3>8, <3>10, <4>1
    <3> QED BY <3>9, <3>10
  <2> QED BY <2>2, <2>3
<1>6. CASE ListenerQueue(s)
  <2>1. l.pc = "queue"
    BY <1>0, <1>6 DEF ListenerQueue, Listens
  <2>2. PICK delivered :
            delivered = IF receiving THEN Append(l.delivered, l.holding) ELSE l.delivered
    OBVIOUS
  <2>3. PICK new : new = [l EXCEPT !.pc = "stream", !.holding = None,
                                   !.delivered = delivered]
    OBVIOUS
  <2>4. /\ new.pc = "stream" /\ new.stream = l.stream /\ new.seen = l.seen
        /\ new.delivered = delivered /\ new.lagged = l.lagged
    BY <2>3 DEF Listener
  <2>5. listener' = [listener EXCEPT ![s] = new]
    BY <1>0, <1>6, <2>2, <2>3 DEF ListenerQueue
  <2>6. Queued(l, new, receiving)
    BY <2>1, <2>2, <2>4 DEF Queued
  <2> QED BY <1>0, <1>2, <2>1, <2>5, <2>6
<1>7. CASE ListenerWake(s) \/ ListenerStop(s)
  <2>1. l.pc \in {"stream", "delay"} /\ (ListenAt(s, "connect") \/ ListenAt(s, "stopped"))
    BY <1>0, <1>7 DEF ListenerWake, ListenerStop, Listens
  <2> QED BY <1>0, <1>1, <2>1
<1> QED BY <1>4, <1>5, <1>6, <1>7 DEF ListenerStep

\* A log that reaches a listener.
LEMMA LoggedGained ==
    ASSUME NEW l \in Listener, NEW item
    PROVE  Gained(l, Logged(l, item), item)
<1>1. PICK long, short, seen, lagged :
          /\ long = Append(l.stream, item) /\ short = Append(Tail(l.stream), item)
          /\ seen = Append(l.seen, item) /\ lagged = l.lagged \cup {Head(l.stream)}
  OBVIOUS
<1>2. CASE Len(l.stream) < StreamSize
  <2>1. PICK new : new = [l EXCEPT !.stream = long, !.seen = seen]
    OBVIOUS
  <2>2. /\ new.pc = l.pc /\ new.holding = l.holding /\ new.delivered = l.delivered
        /\ new.stream = long /\ new.seen = seen /\ new.lagged = l.lagged
    BY <2>1 DEF Listener
  <2>3. Logged(l, item) = new
    BY <1>1, <1>2, <2>1 DEF Logged
  <2> QED BY <1>1, <1>2, <2>2, <2>3 DEF Gained
<1>3. CASE ~(Len(l.stream) < StreamSize)
  <2>1. PICK new : new = [l EXCEPT !.stream = short, !.seen = seen, !.lagged = lagged]
    OBVIOUS
  <2>2. /\ new.pc = l.pc /\ new.holding = l.holding /\ new.delivered = l.delivered
        /\ new.stream = short /\ new.seen = seen /\ new.lagged = lagged
    BY <2>1 DEF Listener
  <2>3. Logged(l, item) = new
    BY <1>1, <1>3, <2>1 DEF Logged
  <2> QED BY <1>1, <1>3, <2>2, <2>3 DEF Gained
<1> QED BY <1>2, <1>3

\* A log reaches the streams of a gateway.
LEMMA LogLogs ==
    ASSUME TypeOK, LogInv, NEW g, NEW log \in Logs, Log(g, log)
    PROVE  LogInv'
<1>0. occurred \in Nat /\ occurred' = occurred + 1 /\ occurred + 1 \in Nat
  <2>1. occurred \in Nat
    BY WorkOrdersAssumption DEF TypeOK
  <2>2. occurred' = occurred + 1
    BY DEF Log
  <2> QED BY <2>1, <2>2
<1>1. PICK item \in Item : item = [id |-> occurred + 1, log |-> log]
  BY <1>0 DEF Item
<1>2. PICK reached : reached = {s \in Submissions : GatewayOf(s) = g /\ listener[s].open}
  OBVIOUS
<1>3. /\ listener' = [s \in Submissions |->
            IF s \in reached THEN Logged(listener[s], item) ELSE listener[s]]
      /\ UNCHANGED <<submission, receiving>>
  BY <1>1, <1>2 DEF Log, Listening
<1>4. item.id = occurred + 1
  BY <1>1
<1>5. ASSUME NEW s \in Submissions
      PROVE  /\ listener'[s].pc # "none" => submission'[s].stage \in Ended
             /\ InOrder(listener'[s], occurred') /\ Skips(listener'[s], occurred')
             /\ receiving' => Accounts(s, listener'[s])
  <2>1. PICK l \in Listener : l = listener[s]
    BY DEF TypeOK
  <2>2. /\ l.pc # "none" => submission[s].stage \in Ended
        /\ InOrder(l, occurred) /\ Skips(l, occurred)
        /\ receiving => Accounts(s, l)
    BY <2>1 DEF LogInv
  <2>3. PICK new : new = Logged(l, item)
    OBVIOUS
  <2>4. Gained(l, new, item)
    BY <2>3, LoggedGained
  <2>7. CASE s \in reached
    <3>1. listener'[s] = new
      BY <1>3, <2>1, <2>3, <2>7
    <3>2. InOrder(new, occurred + 1) /\ Skips(new, occurred + 1)
      BY <1>0, <1>4, <2>2, <2>4, GainedOrder, GainedSkips
    <3>3. Accounts(s, l) => Accounts(s, new)
      BY <2>4, GainedAccounts
    <3>4. new.pc = l.pc
      BY <2>4 DEF Gained
    <3> QED BY <1>0, <1>3, <2>2, <3>1, <3>2, <3>3, <3>4
  <2>8. CASE s \notin reached
    <3>1. listener'[s] = l
      BY <1>3, <2>1, <2>8
    <3>2. InOrder(l, occurred') /\ Skips(l, occurred')
      BY <1>0, <2>2, LaterInOrder
    <3> QED BY <1>3, <2>2, <3>1, <3>2
  <2> QED BY <2>7, <2>8
<1> QED BY <1>5 DEF LogInv

\* The streams of a gateway end; what they contain stays.
LEMMA StreamsEndLogs ==
    ASSUME TypeOK, LogInv, NEW g, StreamsEnd(g)
    PROVE  LogInv'
<1>1. /\ listener' = [s \in Submissions |->
            IF GatewayOf(s) = g THEN [listener[s] EXCEPT !.open = FALSE] ELSE listener[s]]
      /\ UNCHANGED <<submission, receiving, occurred>>
  BY DEF StreamsEnd, Listening
<1>2. ASSUME NEW s \in Submissions
      PROVE  /\ listener'[s].pc # "none" => submission'[s].stage \in Ended
             /\ InOrder(listener'[s], occurred') /\ Skips(listener'[s], occurred')
             /\ receiving' => Accounts(s, listener'[s])
  <2>1. PICK l \in Listener : l = listener[s]
    BY DEF TypeOK
  <2>2. PICK new : new = [l EXCEPT !.open = FALSE]
    OBVIOUS
  <2>3. Moved(l, new) /\ new.pc = l.pc
    BY <2>2 DEF Listener, Moved
  <2>4. Moved(l, l)
    BY DEF Moved
  <2>5. Moved(l, listener'[s]) /\ listener'[s].pc = l.pc
    BY <1>1, <2>1, <2>2, <2>3, <2>4
  <2>6. /\ l.pc # "none" => submission[s].stage \in Ended
        /\ InOrder(l, occurred) /\ Skips(l, occurred)
        /\ receiving => Accounts(s, l)
    BY <2>1 DEF LogInv
  <2>7. /\ InOrder(listener'[s], occurred) /\ Skips(listener'[s], occurred)
        /\ Accounts(s, l) => Accounts(s, listener'[s])
    BY <2>5, <2>6, MovedLogs
  <2> QED BY <1>1, <2>5, <2>6, <2>7
<1> QED BY <1>2 DEF LogInv

\* A step that leaves the listeners and the submissions that have one alone.
LEMMA OtherLogs ==
    ASSUME TypeOK, LogInv, UNCHANGED listener, receiving' => receiving,
           occurred' \in Nat, occurred <= occurred',
           \A s \in Submissions :
               \/ submission'[s] = submission[s]
               \/ submission[s].stage \notin Ended
    PROVE  LogInv'
<1>1. occurred \in Nat
  BY WorkOrdersAssumption DEF TypeOK
<1>2. ASSUME NEW s \in Submissions
      PROVE  /\ listener'[s].pc # "none" => submission'[s].stage \in Ended
             /\ InOrder(listener'[s], occurred') /\ Skips(listener'[s], occurred')
             /\ receiving' => Accounts(s, listener'[s])
  <2>1. /\ listener[s].pc # "none" => submission[s].stage \in Ended
        /\ InOrder(listener[s], occurred) /\ Skips(listener[s], occurred)
        /\ receiving => Accounts(s, listener[s])
    BY DEF LogInv
  <2>2. listener[s] \in Listener
    BY DEF TypeOK
  <2>3. InOrder(listener[s], occurred') /\ Skips(listener[s], occurred')
    BY <1>1, <2>1, <2>2, LaterInOrder
  <2> QED BY <2>1, <2>3
<1> QED BY <1>2 DEF LogInv

\* The listener task of a submission starts; it had none.
LEMMA SetUpLogs ==
    ASSUME TypeOK, LogInv, NEW s \in Submissions, SetUp(s) \/ ClientGone(s)
    PROVE  LogInv'
<1>1. submission[s].stage \notin Ended /\ listener[s].pc = "none"
  BY DEF SetUp, ClientGone, At, LogInv, Ended
<1>2. ListenAt(s, "connect") \/ UNCHANGED listener
  BY GoneEffect DEF SetUp, Offered, ListenAt
<1>3. UNCHANGED <<occurred, receiving>>
  BY DEF SetUp, ClientGone
<1>4. /\ \A t \in Submissions : t # s => submission'[t] = submission[t]
      /\ submission'[s].stage \in Ended
  <2>1. submission \in [Submissions -> Submission]
    BY DEF TypeOK
  <2>2. To(s, "ok") \/ Fail(s) \/ To(s, "dropped")
    BY DEF SetUp, ClientGone
  <2> QED BY <2>1, <2>2, ToEffect, FailEffect DEF Stages, Ended
<1>5. Moved(listener[s], listener'[s])
  BY <1>1, <1>2, ListenAtMoved DEF Moved
<1>6. \A t \in Submissions : t # s => listener'[t] = listener[t]
  BY <1>2, ListenAtEffect
<1>7. ASSUME NEW t \in Submissions
      PROVE  /\ listener'[t].pc # "none" => submission'[t].stage \in Ended
             /\ InOrder(listener'[t], occurred') /\ Skips(listener'[t], occurred')
             /\ receiving' => Accounts(t, listener'[t])
  <2>0. /\ listener[t].pc # "none" => submission[t].stage \in Ended
        /\ InOrder(listener[t], occurred) /\ Skips(listener[t], occurred)
        /\ receiving => Accounts(t, listener[t])
    BY DEF LogInv
  <2>1. CASE t = s
    <3>1. /\ InOrder(listener'[t], occurred) /\ Skips(listener'[t], occurred)
          /\ receiving => Accounts(t, listener'[t])
      BY <1>5, <2>0, <2>1, MovedLogs
    <3> QED BY <1>3, <1>4, <2>1, <3>1
  <2>2. CASE t # s
    BY <1>3, <1>4, <1>6, <2>0, <2>2
  <2> QED BY <2>1, <2>2
<1> QED BY <1>7 DEF LogInv

\* Where there is no listener there are no logs.
LEMMA NoListenerLogs ==
    /\ NoListener.pc = "none" /\ InOrder(NoListener, 0) /\ Skips(NoListener, 0)
    /\ \A s : Accounts(s, NoListener)
<1>1. /\ NoListener.pc = "none" /\ NoListener.stream = <<>> /\ NoListener.seen = <<>>
      /\ NoListener.delivered = <<>> /\ NoListener.lagged = {}
  BY DEF NoListener
<1>2. InOrder(NoListener, 0) /\ Skips(NoListener, 0)
  <2>1. <<>> \in Seq(Item) /\ DOMAIN <<>> = {}
    OBVIOUS
  <2>2. Increasing(<<>>) /\ \A id : Before(<<>>, id)
    BY <2>1 DEF Increasing, Before
  <2>3. Len(<<>>) = 0 /\ 0 <= StreamSize
    BY WorkOrdersAssumption
  <2> QED BY <1>1, <2>1, <2>2, <2>3 DEF InOrder, Skips
<1>3. ASSUME NEW s PROVE Accounts(s, NoListener)
  <2>1. DOMAIN NoListener.seen = {}
    BY <1>1
  <2> QED BY <2>1 DEF Accounts
<1> QED BY <1>1, <1>2, <1>3

\* Every step keeps the order of the logs, and loses none.
LEMMA NextLogs == IInv /\ LogInv /\ [Next]_vars => LogInv'
<1> SUFFICES ASSUME IInv, LogInv, [Next]_vars PROVE LogInv'
  OBVIOUS
<1>0. TypeOK /\ AllChecked
  BY DEF IInv
<1>1. occurred \in Nat
  BY <1>0, WorkOrdersAssumption DEF TypeOK
<1>2. ASSUME NEW s \in Submissions,
             \/ CheckDuplicate(s) \/ PolicyStep(s) \/ EnsureSecrets(s) \/ RunWorker(s)
             \/ Activate(s) \/ QueueLaunch(s)
      PROVE  LogInv'
  <2>1. submission[s].stage \notin Ended
    BY <1>2 DEF CheckDuplicate, PolicyStep, FetchBundle, Authorize, ExecutePolicy,
                TerminatePolicy, EnsureSecrets, RunWorker, Activate, QueueLaunch, At, Ended
  <2>2. /\ UNCHANGED <<listener, receiving, occurred>>
        /\ \A t \in Submissions : t # s => submission'[t] = submission[t]
    <3>1. CASE Activate(s) \/ QueueLaunch(s)
      <4>1. PICK stage \in Stages : To(s, stage)
        BY <3>1 DEF Activate, QueueLaunch, Stages
      <4>2. \A t \in Submissions : t # s => submission'[t] = submission[t]
        BY <1>0, <4>1, ToEffect DEF TypeOK
      <4> QED BY <3>1, <4>2 DEF Activate, QueueLaunch
    <3>2. CASE CheckDuplicate(s) \/ PolicyStep(s) \/ EnsureSecrets(s) \/ RunWorker(s)
      BY <1>0, <3>2, CheckingStages DEF Checking
    <3> QED BY <1>2, <3>1, <3>2
  <2> QED BY <1>0, <1>1, <2>1, <2>2, OtherLogs
<1>3. ASSUME NEW s \in Submissions, SetUp(s) \/ ClientGone(s) PROVE LogInv'
  BY <1>0, <1>3, SetUpLogs
<1>4. ASSUME NEW s \in Submissions, ListenerStep(s) PROVE LogInv'
  <2>1. listener' \in [Submissions -> Listener]
    BY <1>0, <1>4, ListenerEffect
  <2>2. UNCHANGED <<submission, occurred, receiving>>
    BY <1>4 DEF ListenerStep, ListenerConnect, ListenerNext, ListenerQueue, ListenerWake,
                ListenerStop, Listening
  <2> QED BY <1>0, <1>4, <2>1, <2>2, ListenerMoves, OneListener
<1>5. ASSUME NEW g \in DOMAIN gateways, StreamsEnd(g) \/ \E log \in Logs : Log(g, log)
      PROVE  LogInv'
  BY <1>0, <1>5, StreamsEndLogs, LogLogs
<1>6. ASSUME UNCHANGED <<submission, listener>>, receiving' => receiving,
             occurred' = occurred \/ occurred' = occurred + 1
      PROVE  LogInv'
  <2>1. occurred' \in Nat /\ occurred <= occurred'
    BY <1>1, <1>6
  <2> QED BY <1>0, <1>6, <2>1, OtherLogs
<1>7. CASE \/ ConnectEnclave \/ AttachVm \/ Shutdown \/ Forward
           \/ \E r \in Requests : HttpReply(r) \/ \E o \in Orders : HttpRequest(r, o)
           \/ \E o \in Orders : Fire(o)
  <2>1. /\ UNCHANGED <<submission, listener, receiving>>
        /\ occurred' = occurred \/ occurred' = occurred + 1
    BY <1>7 DEF ConnectEnclave, AttachVm, Booting, Shutdown, Forward, TakeFired, QueueFired,
                HttpReply, HttpRequest, Asking, Fire
  <2> QED BY <1>6, <2>1
<1>8. CASE BatchStep
  <2>1. /\ UNCHANGED <<submission, listener, occurred>>
        /\ UNCHANGED receiving \/ receiving' = FALSE
    BY <1>8 DEF BatchStep, TakeQueued, SendBatch, EndBatchTask
  <2> QED BY <1>6, <2>1
<1>9. CASE Exit
  <2>1. listener' = NotListening /\ occurred' = 0
    BY <1>9 DEF Exit
  <2>2. ASSUME NEW s \in Submissions
        PROVE  /\ listener'[s].pc # "none" => submission'[s].stage \in Ended
               /\ InOrder(listener'[s], occurred') /\ Skips(listener'[s], occurred')
               /\ receiving' => Accounts(s, listener'[s])
    BY <2>1, NoListenerLogs DEF NotListening
  <2> QED BY <2>2 DEF LogInv
<1>10. CASE UNCHANGED vars
  BY <1>6, <1>10 DEF vars
<1> QED
  BY <1>2, <1>3, <1>4, <1>5, <1>7, <1>8, <1>9, <1>10 DEF Next, SubmissionStep

\* The logs of all listeners are in order and accounted for throughout.
LEMMA LogsInductive == Spec => []LogInv
<1>1. Init => LogInv
  BY NoListenerLogs DEF Init, NotListening, LogInv
<1> QED BY <1>1, Inductive, NextLogs, PTL DEF Spec


-----------------------------------------------------------------------------
(* The properties.                                                         *)

\* For any orders and submissions, and whatever sources and policies answer: a
\* worker is started only with a bundle that was admitted and that the policy
\* of each identity approved.
THEOREM Authorized == Spec => []AuthorizedStart
<1>1. IInv => AuthorizedStart
  <2> SUFFICES ASSUME IInv, NEW s \in Submissions,
                      submission[s].stage \in {"activate", "launch", "set up",
                                               "set up without listeners", "ok"}
               PROVE  /\ submission[s].bundle.vm \in attached
                      /\ PointerOf[OrderOf[s]].hash \in {None, submission[s].bundle}
                      /\ \A i \in DOMAIN IdentitiesOf[OrderOf[s]] : Approves(s, i)
    BY DEF AuthorizedStart, Approves
  <2>1. /\ submission[s].bundle.vm \in attached
        /\ PointerOf[OrderOf[s]].hash \in {None, submission[s].bundle}
        /\ \A i \in DOMAIN IdentitiesOf[OrderOf[s]] :
               i < submission[s].index => Approves(s, i)
        /\ submission[s].index > Len(IdentitiesOf[OrderOf[s]])
    BY DEF IInv, AllChecked, Checked, Idles, Asks
  <2>2. submission[s].index \in Nat
    <3>1. submission[s] \in Submission
      BY DEF IInv, TypeOK
    <3> QED BY <3>1 DEF Submission
  <2>3. \A i \in DOMAIN IdentitiesOf[OrderOf[s]] : i < submission[s].index
    <3>1. PICK n \in Nat : /\ n = Len(IdentitiesOf[OrderOf[s]])
                           /\ DOMAIN IdentitiesOf[OrderOf[s]] = 1 .. n
      BY OrderType, WorkOrdersAssumption
    <3>2. PICK k \in Nat : k = submission[s].index
      BY <2>2
    <3>3. k > n
      BY <2>1, <3>1, <3>2
    <3>4. \A i \in 1 .. n : i < k
      BY <3>3, BelowLast
    <3> QED BY <3>1, <3>2, <3>4
  <2> QED BY <2>1, <2>3
<1> QED BY <1>1, Inductive, PTL

\* A policy worker is terminated, as far as the enclave can, before its
\* submission goes on or fails.  One that is left running in a node that is up
\* belongs to a submission whose client disconnected while a policy was asked.
THEOREM PolicyWorkersStop == Spec => []PolicyWorkersEnd
<1>1. IInv => PolicyWorkersEnd
  BY DEF IInv, AllChecked, Checked, PolicyWorkersEnd
<1> QED BY <1>1, Inductive, PTL

\* The forwarder, listeners and mounts only ever refer to active orders, and an
\* active order has a started worker.
THEOREM ActiveBefore == Spec => []ActiveFirst
<1>1. IInv => ActiveFirst
  BY DEF IInv, ReadyFirst, Ready, ActiveFirst
<1> QED BY <1>1, Inductive, PTL

\* For queues of any capacity and any number of producers: the launch event of
\* an order is in the daemon's queue before its other events, and before a request
\* for its worker is accepted.  It says nothing of when the enclave gets it.
THEOREM LaunchBefore == Spec => []LaunchFirst
<1>1. IInv => LaunchFirst
  <2> SUFFICES ASSUME IInv, NEW o \in Orders, "launch" \in EventsOf[o], receiving
               PROVE  /\ \A i \in DOMAIN queued : queued[i].order = o => Launched(o, i)
                      /\ (\E r \in Requests : request[r] = o) => Launched(o, Len(queued))
    BY DEF LaunchFirst
  <2>1. \A i \in DOMAIN queued : queued[i].order = o => Launched(o, i)
    BY DEF IInv, LaunchLeads
  <2>2. ASSUME NEW r \in Requests, request[r] = o PROVE Launched(o, Len(queued))
    <3>1. Ready(o)
      BY <2>2, WorkOrdersAssumption DEF IInv, ReadyFirst
    <3> QED BY <3>1 DEF Ready
  <2> QED BY <2>1, <2>2
<1> QED BY <1>1, Inductive, PTL

\* For queues and batches of any size, and whatever calls to the enclave fail:
\* until the node shuts down the enclave gets every event once and in order, but
\* for those that a failed call did not bring there.
THEOREM NoEventLost == Spec => []EventsAccounted
<1>1. IInv => EventsAccounted
  BY DEF IInv
<1> QED BY <1>1, Inductive, PTL

\* For any number of listeners, streams of any size that end and start again, and
\* queues of any capacity: every log that reaches a listener and matches is queued,
\* once and in order, until the node shuts down, unless its stream skipped it
\* because a bufferful of later logs came.
THEOREM LogsInOrder == Spec => []LogsAccounted
<1>1. IInv /\ LogInv => LogsAccounted
  <2> SUFFICES ASSUME IInv, LogInv, NEW s \in Submissions
               PROVE  LET l == listener[s]
                      IN  /\ receiving => Accounts(s, l)
                          /\ \A i \in DOMAIN l.seen :
                                l.seen[i] \in l.lagged =>
                                    /\ i + StreamSize <= Len(l.seen)
                                    /\ ~Occurs(l.seen[i], l.delivered)
                          /\ Increasing(l.delivered)
    BY DEF LogsAccounted, Accounts, Increasing
  <2>1. PICK l : l = listener[s]
    OBVIOUS
  <2>2. InOrder(l, occurred) /\ Skips(l, occurred) /\ (receiving => Accounts(s, l))
    BY <2>1 DEF LogInv
  <2>3. ASSUME NEW i \in DOMAIN l.seen, l.seen[i] \in l.lagged
        PROVE  i + StreamSize <= Len(l.seen) /\ ~Occurs(l.seen[i], l.delivered)
    BY <2>2, <2>3 DEF Skips, Occurs
  <2>4. Increasing(l.delivered)
    BY <2>2 DEF InOrder
  <2> QED BY <2>1, <2>2, <2>3, <2>4
<1> QED BY <1>1, Inductive, LogsInductive, PTL
=============================================================================
