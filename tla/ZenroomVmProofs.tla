-------------------------- MODULE ZenroomVmProofs --------------------------
(***************************************************************************)
(* Proofs about ZenroomVm, for any workers and invocations, pipes and      *)
(* limits of any size, and processes and targets that do what they like.   *)
(***************************************************************************)
EXTENDS ZenroomVm, FiniteSetTheorems, TLAPS

\* The process ended well by itself and all it printed was read.
Complete(r) ==
    /\ r.child = "exited" /\ r.code = 0
    /\ \A s \in Streams : r.out[s].got = r.out[s].printed

\* Until a reader has given up, what was printed is read or in the pipe; a
\* reader that is done has left nothing.
StreamOK(o) ==
    /\ o.result # "overflow" => o.printed = o.got + o.pipe
    /\ o.result = "ok" => o.pipe = 0

\* No target has been tried.
Unposted(r) ==
    /\ r.results = <<>> /\ r.acks = {}
    /\ r.index = 1 /\ r.attempt = 0 /\ r.sends = 0

\* No target got more requests than the retries allow.
SendsBounded(r, c) == \A k \in 1..Len(r.results) : r.results[k].sends <= c.retries + 1

\* The targets before the current one have their results, and those that
\* succeeded are those that acknowledged.
Posted(r, c) ==
    /\ r.index <= Len(c.targets) + 1
    /\ Len(r.results) = r.index - 1
    /\ r.acks = {k \in 1..Len(r.results) : r.results[k].ok}
    /\ SendsBounded(r, c)

\* The readers, the exit and the timeout agree with the process.
Basic(r) ==
    /\ \A s \in Streams : StreamOK(r.out[s])
    /\ \A s \in r.collected :
          /\ r.out[s].result # None
          /\ r.out[s].result = "overflow" => r.overflow # None
    /\ r.exit_seen \/ r.timed_out => r.child # "up" \/ r.uncontrolled

\* What an invocation of a worker with configuration c has established by its
\* position.
Good(r, c) ==
    /\ Basic(r)
    /\ r.pc = "idle" => r = Idle
    /\ r.pc \in {"log", "done"} => r.child # "up" \/ r.uncontrolled
    /\ r.pc \in {"write", "wait"} => Unposted(r)
    /\ SendsBounded(r, c)
    /\ r.pc = "post" => /\ Complete(r) /\ Posted(r, c)
                        /\ r.index <= Len(c.targets)
                        /\ r.sends <= r.attempt /\ r.attempt <= c.retries
    /\ r.pc \in {"log", "done"} /\ r.error = None =>
           /\ Complete(r)
           /\ c.enabled /\ c.required => c.targets # <<>> /\ r.acks = 1..Len(c.targets)

AllGood == \A v \in Invocations : Good(inv[v], config[inv[v].worker])

\* An invocation that has begun is one of a worker that was started.
Begun == \A v \in Invocations :
    inv[v].pc # "idle" => inv[v].worker \in Workers /\ status[inv[v].worker] # "absent"

\* A worker that was started has a configuration.
Configured == \A i \in Workers : status[i] # "absent" => config[i] \in Configs

IInv == TypeOK /\ AllGood /\ Begun /\ Configured

-----------------------------------------------------------------------------
(* Configurations and results of executions.                               *)

\* What a configuration guarantees, whatever the user left out.
LEMMA ConfigFacts ==
    ASSUME NEW c \in Configs
    PROVE  /\ c.retries \in Nat /\ Len(c.targets) \in Nat
           /\ c.response_mode \in {"envelope", "stdout", "selected_output"}
<1>1. PICK u \in Userdata : Startable(u) /\ c = NormalizeWorkerConfig(u)
  BY DEF Configs
<1>2. /\ c.retries = Default(u.retries, 0) /\ c.targets = Default(u.targets, <<>>)
      /\ c.response_mode = Default(u.response_mode, "envelope")
  BY <1>1 DEF NormalizeWorkerConfig
<1>3. c.retries \in Nat
  BY <1>2, ZenroomAssumption DEF Default
<1>4. Len(c.targets) \in Nat
  BY <1>2, ZenroomAssumption DEF Default
<1>5. c.response_mode \in {"envelope", "stdout", "selected_output"}
  BY <1>1, <1>2 DEF Default, Startable
<1> QED BY <1>3, <1>4, <1>5

\* What the end of an execution, a postback or a reply leaves alone.
Same(new, r) ==
    /\ new.worker = r.worker /\ new.out = r.out /\ new.collected = r.collected
    /\ new.exit_seen = r.exit_seen /\ new.timed_out = r.timed_out
    /\ new.code = r.code /\ new.overflow = r.overflow
    /\ r.uncontrolled => new.uncontrolled

SamePosts(new, r) ==
    /\ new.results = r.results /\ new.acks = r.acks
    /\ new.index = r.index /\ new.attempt = r.attempt /\ new.sends = r.sends

Positions == {"idle", "write", "wait", "post", "log", "done", "cancelled"}

Ended(r, error) == [r EXCEPT !.error = error, !.pc = "log"]

Moved(r, pc) == [r EXCEPT !.pc = pc]

\* A record with another position and error.
LEMMA EndedType ==
    ASSUME NEW r \in Invocation, NEW error \in Errors \cup {None}
    PROVE  LET new == Ended(r, error)
           IN  /\ new \in Invocation /\ new.pc = "log" /\ new.error = error
               /\ new.child = r.child /\ Same(new, r) /\ SamePosts(new, r)
<1>1. PICK new : new = Ended(r, error)
  OBVIOUS
<1>2. new \in Invocation /\ new.pc = "log" /\ new.error = error /\ new.child = r.child
  BY <1>1 DEF Invocation, Ended
<1>3. SamePosts(new, r)
  BY <1>1 DEF Invocation, Ended, SamePosts
<1>4. Same(new, r)
  BY <1>1 DEF Invocation, Ended, Same
<1> QED BY <1>1, <1>2, <1>3, <1>4

\* A record with another position.
LEMMA MovedType ==
    ASSUME NEW r \in Invocation, NEW pc \in Positions
    PROVE  LET new == Moved(r, pc)
           IN  /\ new \in Invocation /\ new.pc = pc /\ new.error = r.error
               /\ new.child = r.child /\ Same(new, r) /\ SamePosts(new, r)
<1>1. PICK new : new = Moved(r, pc)
  OBVIOUS
<1>2. new \in Invocation /\ new.pc = pc /\ new.error = r.error /\ new.child = r.child
  BY <1>1 DEF Invocation, Moved, Positions
<1>3. SamePosts(new, r)
  BY <1>1 DEF Invocation, Moved, SamePosts
<1>4. Same(new, r)
  BY <1>1 DEF Invocation, Moved, Same
<1> QED BY <1>1, <1>2, <1>3, <1>4

\* A process that is killed has gone, or the kill has failed.
LEMMA KillsType ==
    ASSUME NEW r \in Invocation, NEW new \in Kills(r)
    PROVE  /\ new \in Invocation /\ (new.child # "up" \/ new.uncontrolled)
           /\ new.pc = r.pc /\ new.error = r.error
           /\ Same(new, r) /\ SamePosts(new, r)
<1>1. CASE new = Killed(r) /\ r.child = "up"
  <2>1. new = [r EXCEPT !.child = "killed"]
    BY <1>1 DEF Killed
  <2> QED BY <2>1 DEF Invocation, Same, SamePosts
<1>2. CASE new = Killed(r) /\ r.child # "up"
  BY <1>2 DEF Killed, Same, SamePosts
<1>3. CASE new = KillError(r)
  <2>1. PICK u \in BOOLEAN : u = (r.uncontrolled \/ r.child = "up")
    OBVIOUS
  <2>2. new = [r EXCEPT !.uncontrolled = u]
    BY <1>3, <2>1 DEF KillError
  <2>3. /\ new \in Invocation /\ new.uncontrolled = u /\ new.child = r.child
        /\ new.pc = r.pc /\ new.error = r.error /\ SamePosts(new, r)
    BY <2>2 DEF Invocation, SamePosts
  <2>4. Same(new, r)
    BY <2>1, <2>2 DEF Invocation, Same
  <2> QED BY <2>1, <2>3, <2>4
<1> QED BY <1>1, <1>2, <1>3 DEF Kills

\* What Basic and Complete say carries over.
LEMMA SameBasic ==
    ASSUME NEW r, NEW new, Same(new, r)
    PROVE  /\ Basic(r) /\ (r.child # "up" => new.child # "up") => Basic(new)
           /\ Complete(r) /\ new.child = r.child => Complete(new)
BY DEF Same, Basic, Complete

\* The errors that may follow an execution.
LEMMA ErrorTypes ==
    ASSUME NEW r \in Invocation, NEW c
    PROVE  /\ ExecError(r) \in Errors \cup {None}
           /\ SelectError(r, c) \in Errors \cup {None}
           /\ PostbackError(c) \in Errors \cup {None}
           /\ PrepareError(c) \in Errors \cup {None}
<1>1. ExecError(r) \in Errors \cup {None}
  BY DEF ExecError, Invocation, Errors
<1> QED BY <1>1 DEF SelectError, PostbackError, PrepareError, Errors

\* No error of the execution means that it was complete.
LEMMA NoErrorIsComplete ==
    ASSUME NEW r \in Invocation, NEW c, Good(r, c), r.collected = Streams,
           ExecError(r) = None
    PROVE  Complete(r)
<1>1. /\ r.error = None /\ r.overflow = None /\ ExitCode(r) = 0
      /\ \A s \in Streams : r.out[s].result # "err"
  BY ZenroomAssumption DEF ExecError, Errors
<1>2. r.child = "exited" /\ r.code = 0
  BY <1>1 DEF ExitCode
<1>3. ASSUME NEW s \in Streams PROVE r.out[s].got = r.out[s].printed
  <2>1. PICK o \in Stream : o = r.out[s]
    BY DEF Invocation
  <2>2. o.result # None /\ o.result # "overflow" /\ o.result # "err" /\ StreamOK(o)
    BY <1>1, <2>1 DEF Good, Basic
  <2>3. /\ o.result = "ok" /\ o.got \in Nat /\ o.printed \in Nat
    BY <2>2, ZenroomAssumption DEF Stream
  <2> QED BY <2>1, <2>2, <2>3 DEF StreamOK
<1> QED BY <1>2, <1>3 DEF Complete

\* What follows the execution is as good as the execution.
LEMMA EnvelopeGood ==
    ASSUME NEW r \in Invocation, NEW c \in Configs, Good(r, c), r.pc = "wait",
           r.collected = Streams, r.child # "up" \/ r.uncontrolled,
           NEW new, new = Envelope(r, c)
    PROVE  new \in Invocation /\ Good(new, c) /\ new.worker = r.worker /\ new.pc # "idle"
<1>1. PICK failure \in Errors \cup {None} :
          failure = IF ExecError(r) # None THEN ExecError(r)
                    ELSE IF SelectError(r, c) # None THEN SelectError(r, c)
                    ELSE IF c.enabled THEN PostbackError(c)
                    ELSE None
  BY ErrorTypes
<1>2. Unposted(r) /\ SendsBounded(r, c)
  BY DEF Good
<1>3. c.retries \in Nat /\ Len(c.targets) \in Nat
  BY ConfigFacts
<1>4. CASE failure # None
  <2>1. new = Ended(r, failure)
    BY <1>1, <1>4 DEF Envelope, Ended
  <2>2. /\ new \in Invocation /\ new.pc = "log" /\ new.error = failure
        /\ new.child = r.child /\ Same(new, r) /\ SamePosts(new, r)
    BY <1>1, <2>1, EndedType
  <2>3. Basic(new)
    BY <2>2, SameBasic DEF Good
  <2>4. SendsBounded(new, c)
    BY <1>2, <2>2 DEF SendsBounded, SamePosts
  <2>5. new.child # "up" \/ new.uncontrolled
    BY <2>2 DEF Same
  <2> QED BY <1>4, <2>2, <2>3, <2>4, <2>5 DEF Good, Same
<1>5. CASE failure = None
  <2>1. Complete(r)
    BY <1>1, <1>5, NoErrorIsComplete
  <2>2. c.enabled => PostbackError(c) = None
    BY <1>1, <1>5
  <2>3. PICK pc \in {"post", "log"} :
            /\ new = Moved(r, pc)
            /\ pc = "post" <=> c.enabled /\ c.targets # <<>>
    BY <1>1, <1>5 DEF Envelope, Moved
  <2>4. /\ new \in Invocation /\ new.pc = pc /\ new.error = r.error
        /\ new.child = r.child /\ Same(new, r) /\ SamePosts(new, r)
    BY <2>3, MovedType DEF Positions
  <2>5. Basic(new) /\ Complete(new) /\ SendsBounded(new, c)
    <3>1. Basic(new) /\ Complete(new)
      BY <2>1, <2>4, SameBasic DEF Good
    <3> QED BY <1>2, <2>4, <3>1 DEF SendsBounded, SamePosts
  <2>6. pc = "post" => /\ Posted(new, c) /\ new.index <= Len(c.targets)
                       /\ new.sends <= new.attempt /\ new.attempt <= c.retries
    BY <1>2, <1>3, <2>3, <2>4, <2>5 DEF Posted, Unposted, SamePosts
  <2>7. pc = "log" => ~(c.enabled /\ c.required)
    BY <2>2, <2>3, ZenroomAssumption DEF PostbackError, Errors
  <2> QED BY <2>3, <2>4, <2>5, <2>6, <2>7 DEF Good, Same
<1> QED BY <1>4, <1>5

\* So is the end of a turn of the select loop.
LEMMA EndOfTurnGood ==
    ASSUME NEW r \in Invocation, NEW c \in Configs, Good(r, c), r.pc = "wait",
           NEW new, new = EndOfTurn(r, c)
    PROVE  new \in Invocation /\ Good(new, c) /\ new.worker = r.worker /\ new.pc # "idle"
<1>1. CASE r.collected = Streams /\ (r.exit_seen \/ r.timed_out)
  <2>1. r.child # "up" \/ r.uncontrolled
    BY <1>1 DEF Good, Basic
  <2> QED BY <1>1, <2>1, EnvelopeGood DEF EndOfTurn
<1>2. CASE ~(r.collected = Streams /\ (r.exit_seen \/ r.timed_out))
  BY <1>2 DEF EndOfTurn
<1> QED BY <1>1, <1>2

-----------------------------------------------------------------------------
(* Postbacks.                                                              *)

NextTarget(r, results, index) ==
    [r EXCEPT !.results = results, !.attempt = 0, !.sends = 0, !.index = index]

\* The record after a target: its result is added and the counters start anew.
LEMMA NextTargetType ==
    ASSUME NEW r \in Invocation, NEW results \in Seq([ok : BOOLEAN, sends : Nat]),
           NEW index \in Nat \ {0}
    PROVE  LET new == NextTarget(r, results, index)
           IN  /\ new \in Invocation /\ new.pc = r.pc /\ new.error = r.error
               /\ new.child = r.child /\ Same(new, r)
               /\ new.results = results /\ new.acks = r.acks
               /\ new.index = index /\ new.attempt = 0 /\ new.sends = 0
BY DEF Invocation, NextTarget, Same

\* Results grow at their end.
LEMMA AppendFacts ==
    ASSUME NEW S, NEW q \in Seq(S), NEW x \in S, NEW n \in Nat, Len(q) = n
    PROVE  /\ Append(q, x) \in Seq(S) /\ Len(Append(q, x)) = n + 1
           /\ Append(q, x)[n + 1] = x
           /\ \A k \in 1..n : Append(q, x)[k] = q[k]
OBVIOUS

\* Indices up to the next one.
LEMMA IndexFacts ==
    \A n \in Nat : 1..(n + 1) = (1..n) \cup {n + 1} /\ n + 1 \notin 1..n
OBVIOUS

\* After a target, and after the last one, an invocation is still good.
LEMMA TargetDoneGood ==
    ASSUME NEW r \in Invocation, NEW c \in Configs, NEW ok \in BOOLEAN,
           Basic(r), Complete(r), r.pc = "post",
           r.index <= Len(c.targets), Len(r.results) = r.index - 1,
           SendsBounded(r, c), r.sends <= c.retries + 1,
           r.acks = {k \in 1..Len(r.results) : r.results[k].ok}
                        \cup (IF ok THEN {r.index} ELSE {}),
           NEW new, new = TargetDone(r, c, ok)
    PROVE  new \in Invocation /\ Good(new, c) /\ new.worker = r.worker /\ new.pc # "idle"
<1>1. c.retries \in Nat /\ Len(c.targets) \in Nat
  BY ConfigFacts
<1>2. PICK x \in [ok : BOOLEAN, sends : Nat] : x = [ok |-> ok, sends |-> r.sends]
  BY DEF Invocation
<1>3. PICK n \in Nat : r.index = n + 1 /\ Len(r.results) = n
  <2>1. r.index \in Nat \ {0}
    BY DEF Invocation
  <2> QED BY <2>1
<1>4. r.results \in Seq([ok : BOOLEAN, sends : Nat])
  BY DEF Invocation
<1>5. PICK results : results = Append(r.results, x)
  OBVIOUS
<1>6. /\ results \in Seq([ok : BOOLEAN, sends : Nat]) /\ Len(results) = n + 1
      /\ results[n + 1] = x /\ \A k \in 1..n : results[k] = r.results[k]
  BY <1>3, <1>4, <1>5, AppendFacts
<1>7. PICK index \in Nat \ {0} : index = n + 2
  OBVIOUS
<1>8. PICK next : next = NextTarget(r, results, index)
  OBVIOUS
<1>9. /\ next \in Invocation /\ next.pc = r.pc /\ next.error = r.error
      /\ next.child = r.child /\ Same(next, r)
      /\ next.results = results /\ next.acks = r.acks
      /\ next.index = index /\ next.attempt = 0 /\ next.sends = 0
  <2>1. results \in Seq([ok : BOOLEAN, sends : Nat])
    BY <1>6
  <2> QED BY <1>8, <2>1, NextTargetType
<1>10. next = [r EXCEPT !.results = results, !.attempt = 0, !.sends = 0, !.index = @ + 1]
  <2>1. r.index + 1 = index
    BY <1>3, <1>7
  <2> QED BY <1>8, <2>1 DEF NextTarget
<1>11. 1..(n + 1) = (1..n) \cup {n + 1}
  BY IndexFacts
<1>12. SendsBounded(next, c)
  <2>1. \A k \in 1..n : results[k].sends <= c.retries + 1
    BY <1>3, <1>6 DEF SendsBounded
  <2>2. results[n + 1].sends <= c.retries + 1
    BY <1>2, <1>6
  <2>3. \A k \in 1..(n + 1) : results[k].sends <= c.retries + 1
    BY <1>11, <2>1, <2>2
  <2> QED BY <1>6, <1>9, <2>3 DEF SendsBounded
<1>13. next.acks = {k \in 1..(n + 1) : results[k].ok}
  <2>1. {k \in 1..(n + 1) : results[k].ok} =
            {k \in 1..n : results[k].ok} \cup {k \in {n + 1} : results[k].ok}
    BY <1>11
  <2>2. {k \in 1..n : results[k].ok} = {k \in 1..n : r.results[k].ok}
    BY <1>6
  <2>3. {k \in {n + 1} : results[k].ok} = IF ok THEN {n + 1} ELSE {}
    BY <1>2, <1>6
  <2>4. r.acks = {k \in 1..n : r.results[k].ok} \cup (IF ok THEN {n + 1} ELSE {})
    BY <1>3
  <2> QED BY <1>9, <2>1, <2>2, <2>3, <2>4
<1>14. Basic(next) /\ Complete(next)
  BY <1>9, SameBasic
<1>15. CASE r.index < Len(c.targets)
  <2>1. new = next
    BY <1>2, <1>5, <1>10, <1>15 DEF TargetDone
  <2>2. next.index <= Len(c.targets) /\ Len(next.results) = next.index - 1
    BY <1>1, <1>3, <1>6, <1>7, <1>9, <1>15
  <2>3. Posted(next, c)
    BY <1>1, <1>6, <1>9, <1>12, <1>13, <2>2 DEF Posted
  <2> QED BY <1>1, <1>9, <1>12, <1>14, <2>1, <2>2, <2>3 DEF Good, Same
<1>16. CASE ~(r.index < Len(c.targets))
  <2>0. Len(c.targets) = n + 1
    BY <1>1, <1>3, <1>16
  <2>1. PICK failed \in BOOLEAN :
            failed = (c.required /\ \E k \in 1..Len(results) : ~results[k].ok)
    OBVIOUS
  <2>2. PICK error \in Errors \cup {None} :
            error = IF failed THEN "postback_required_failed" ELSE None
    BY DEF Errors
  <2>3. new = Ended(next, error)
    BY <1>2, <1>5, <1>10, <1>16, <2>1, <2>2 DEF TargetDone, Ended
  <2>4. /\ new \in Invocation /\ new.pc = "log" /\ new.error = error
        /\ new.child = next.child /\ Same(new, next) /\ SamePosts(new, next)
    BY <1>9, <2>2, <2>3, EndedType
  <2>5. Basic(new) /\ Complete(new) /\ SendsBounded(new, c) /\ new.child # "up"
    <3>1. Basic(new) /\ Complete(new)
      BY <1>14, <2>4, SameBasic
    <3> QED BY <1>12, <2>4, <3>1 DEF Complete, SendsBounded, SamePosts
  <2>6. ASSUME error = None, c.required PROVE c.targets # <<>> /\ new.acks = 1..Len(c.targets)
    <3>1. ~failed
      BY <2>2, <2>6, ZenroomAssumption DEF Errors
    <3>2. \A k \in 1..(n + 1) : results[k].ok
      BY <1>6, <2>1, <2>6, <3>1
    <3>3. new.acks = 1..(n + 1)
      BY <1>13, <2>4, <3>2 DEF SamePosts
    <3> QED BY <2>0, <3>3
  <2> QED BY <1>9, <2>4, <2>5, <2>6 DEF Good, Same
<1> QED BY <1>15, <1>16

\* While a target is tried, its requests are as many as its attempts at most.
Trying(r, c) ==
    /\ r.pc = "post" /\ Basic(r) /\ Complete(r) /\ Posted(r, c)
    /\ r.index <= Len(c.targets)
    /\ r.attempt <= c.retries /\ r.sends <= r.attempt + 1

Sent(r, sends) == [r EXCEPT !.sends = sends]

Acked(r, acks) == [r EXCEPT !.acks = acks]

Attempted(r, attempt) == [r EXCEPT !.attempt = attempt]

\* A record with another number of requests.
LEMMA SentType ==
    ASSUME NEW r \in Invocation, NEW n \in Nat
    PROVE  LET new == Sent(r, n)
           IN  /\ new \in Invocation /\ new.sends = n /\ Same(new, r) /\ new.pc = r.pc
               /\ new.child = r.child /\ new.results = r.results /\ new.acks = r.acks
               /\ new.index = r.index /\ new.attempt = r.attempt
BY DEF Invocation, Sent, Same

\* A record with other acknowledgements.
LEMMA AckedType ==
    ASSUME NEW r \in Invocation, NEW acks \in SUBSET Nat
    PROVE  LET new == Acked(r, acks)
           IN  /\ new \in Invocation /\ new.acks = acks /\ Same(new, r) /\ new.pc = r.pc
               /\ new.child = r.child /\ new.results = r.results /\ new.sends = r.sends
               /\ new.index = r.index /\ new.attempt = r.attempt
BY DEF Invocation, Acked, Same

\* A record at another attempt.
LEMMA AttemptedType ==
    ASSUME NEW r \in Invocation, NEW n \in Nat
    PROVE  LET new == Attempted(r, n)
           IN  /\ new \in Invocation /\ new.attempt = n /\ Same(new, r) /\ new.pc = r.pc
               /\ new.child = r.child /\ new.results = r.results /\ new.acks = r.acks
               /\ new.index = r.index /\ new.sends = r.sends
BY DEF Invocation, Attempted, Same

\* A target that is given up leaves the invocation good.
LEMMA GivenUpGood ==
    ASSUME NEW r \in Invocation, NEW c \in Configs, Trying(r, c),
           NEW new, new = TargetDone(r, c, FALSE)
    PROVE  new \in Invocation /\ Good(new, c) /\ new.worker = r.worker /\ new.pc # "idle"
<1>1. c.retries \in Nat /\ r.sends \in Nat /\ r.attempt \in Nat
  BY ConfigFacts DEF Invocation
<1>2. r.sends <= c.retries + 1
  BY <1>1 DEF Trying
<1>3. r.acks = {k \in 1..Len(r.results) : r.results[k].ok}
                  \cup (IF FALSE THEN {r.index} ELSE {})
  BY DEF Trying, Posted
<1>4. /\ Basic(r) /\ Complete(r) /\ r.pc = "post" /\ r.index <= Len(c.targets)
      /\ Len(r.results) = r.index - 1 /\ SendsBounded(r, c)
  BY DEF Trying, Posted
<1> QED BY <1>2, <1>3, <1>4, TargetDoneGood

\* So does one that acknowledges.
LEMMA AcknowledgedGood ==
    ASSUME NEW r \in Invocation, NEW c \in Configs, Trying(r, c),
           NEW new, new = TargetDone([r EXCEPT !.acks = @ \cup {r.index}], c, TRUE)
    PROVE  new \in Invocation /\ Good(new, c) /\ new.worker = r.worker /\ new.pc # "idle"
<1>1. PICK acks \in SUBSET Nat : acks = r.acks \cup {r.index}
  BY DEF Invocation
<1>2. PICK a : a = Acked(r, acks)
  OBVIOUS
<1>3. /\ a \in Invocation /\ a.acks = acks /\ Same(a, r) /\ a.pc = r.pc
      /\ a.child = r.child /\ a.results = r.results /\ a.sends = r.sends
      /\ a.index = r.index /\ a.attempt = r.attempt
  BY <1>2, AckedType
<1>4. c.retries \in Nat /\ r.sends \in Nat /\ r.attempt \in Nat
  BY ConfigFacts DEF Invocation
<1>5. a.sends <= c.retries + 1
  BY <1>3, <1>4 DEF Trying
<1>6. a.acks = {k \in 1..Len(a.results) : a.results[k].ok}
                  \cup (IF TRUE THEN {a.index} ELSE {})
  BY <1>1, <1>3 DEF Trying, Posted
<1>7. Basic(a) /\ Complete(a)
  BY <1>3, SameBasic DEF Trying
<1>8. /\ a.pc = "post" /\ a.index <= Len(c.targets)
      /\ Len(a.results) = a.index - 1 /\ SendsBounded(a, c)
  BY <1>3 DEF Trying, Posted, SendsBounded
<1>9. new = TargetDone(a, c, TRUE)
  BY <1>1, <1>2 DEF Acked
<1>10. new \in Invocation /\ Good(new, c) /\ new.worker = a.worker /\ new.pc # "idle"
  BY <1>3, <1>5, <1>6, <1>7, <1>8, <1>9, TargetDoneGood
<1> QED BY <1>3, <1>10 DEF Same

\* So does a transport error, with the next attempt or without.
LEMMA RetryGood ==
    ASSUME NEW r \in Invocation, NEW c \in Configs, Trying(r, c),
           NEW new, new = PostbackRetry(r, c)
    PROVE  new \in Invocation /\ Good(new, c) /\ new.worker = r.worker /\ new.pc # "idle"
<1>1. c.retries \in Nat /\ r.sends \in Nat /\ r.attempt \in Nat
  BY ConfigFacts DEF Invocation
<1>2. CASE r.attempt + 1 >= c.retries + 1
  BY <1>2, GivenUpGood DEF PostbackRetry
<1>3. CASE ~(r.attempt + 1 >= c.retries + 1)
  <2>1. PICK n \in Nat : n = r.attempt + 1
    BY <1>1
  <2>2. new = Attempted(r, n)
    BY <1>3, <2>1 DEF PostbackRetry, Attempted
  <2>3. /\ new \in Invocation /\ new.attempt = n /\ Same(new, r) /\ new.pc = r.pc
        /\ new.child = r.child /\ new.results = r.results /\ new.acks = r.acks
        /\ new.index = r.index /\ new.sends = r.sends
    BY <2>2, AttemptedType
  <2>4. Basic(new) /\ Complete(new)
    BY <2>3, SameBasic DEF Trying
  <2>5. new.sends <= new.attempt /\ new.attempt <= c.retries
    BY <1>1, <1>3, <2>1, <2>3 DEF Trying
  <2>6. /\ Posted(new, c) /\ SendsBounded(new, c)
        /\ new.index <= Len(c.targets) /\ new.pc = "post"
    BY <2>3 DEF Trying, Posted, SendsBounded
  <2> QED BY <2>3, <2>4, <2>5, <2>6 DEF Good, Same
<1> QED BY <1>2, <1>3

-----------------------------------------------------------------------------
(* The steps.                                                              *)

\* A step of one invocation that leaves it good keeps the invariant.
LEMMA InvKept ==
    ASSUME IInv, NEW v \in Invocations, NEW new \in Invocation,
           inv' = [inv EXCEPT ![v] = new], Good(new, config[new.worker]),
           new.pc # "idle" => new.worker \in Workers /\ status[new.worker] # "absent",
           config' = config, status' = status,
           logs' \in [Workers -> Nat], kept' = kept
    PROVE  IInv'
<1>1. inv \in [Invocations -> Invocation]
  BY DEF IInv, TypeOK
<1>2. /\ inv' \in [Invocations -> Invocation] /\ inv'[v] = new
      /\ \A w \in Invocations \ {v} : inv'[w] = inv[w]
  BY <1>1
<1>3. TypeOK'
  BY <1>2 DEF IInv, TypeOK
<1>4. AllGood'
  BY <1>2 DEF IInv, AllGood
<1>5. Begun'
  BY <1>2 DEF IInv, Begun
<1>6. Configured'
  BY DEF IInv, Configured
<1> QED BY <1>3, <1>4, <1>5, <1>6 DEF IInv

\* What the invariant says of one invocation.
LEMMA InvFacts ==
    ASSUME IInv, NEW v \in Invocations
    PROVE  /\ inv[v] \in Invocation /\ Good(inv[v], config[inv[v].worker])
           /\ inv[v].pc # "idle" =>
                  /\ inv[v].worker \in Workers /\ status[inv[v].worker] # "absent"
                  /\ config[inv[v].worker] \in Configs
BY DEF IInv, TypeOK, AllGood, Begun, Configured

\* A step that goes on from an invocation that has begun.
LEMMA StepKept ==
    ASSUME IInv, NEW v \in Invocations, NEW new \in Invocation, inv[v].pc # "idle",
           inv' = [inv EXCEPT ![v] = new], new.worker = inv[v].worker,
           Good(new, config[inv[v].worker]), UNCHANGED <<config, status, logs, kept>>
    PROVE  IInv'
<1>1. inv[v].worker \in Workers /\ status[inv[v].worker] # "absent"
  BY InvFacts
<1>2. logs' \in [Workers -> Nat]
  BY DEF IInv, TypeOK
<1> QED BY <1>1, <1>2, InvKept

\* Postbacks keep the invariant.
LEMMA PostbackStep ==
    ASSUME IInv, NEW v \in Invocations, Postback(v)
    PROVE  IInv'
<1>1. PICK r : r = inv[v]
  OBVIOUS
<1>2. PICK c : c = config[r.worker]
  OBVIOUS
<1>3. r.pc = "post" /\ UNCHANGED <<config, status, logs, kept>>
  BY <1>1 DEF Postback
<1>4. r \in Invocation /\ Good(r, c) /\ c \in Configs
  BY <1>1, <1>2, <1>3, InvFacts
<1>5. r.sends \in Nat /\ r.attempt \in Nat
  BY <1>4 DEF Invocation
<1>6. Trying(r, c)
  <2>1. r.sends <= r.attempt + 1
    BY <1>3, <1>4, <1>5 DEF Good
  <2> QED BY <1>3, <1>4, <2>1 DEF Good, Trying
<1>7. PICK n \in Nat : n = r.sends + 1
  BY <1>5
<1>8. PICK sent : sent = Sent(r, n)
  OBVIOUS
<1>9. /\ sent \in Invocation /\ sent.sends = n /\ Same(sent, r) /\ sent.pc = r.pc
      /\ sent.child = r.child /\ sent.results = r.results /\ sent.acks = r.acks
      /\ sent.index = r.index /\ sent.attempt = r.attempt
  BY <1>4, <1>8, SentType
<1>10. Trying(sent, c)
  <2>1. Basic(sent) /\ Complete(sent)
    BY <1>6, <1>9, SameBasic DEF Trying
  <2>2. sent.sends <= sent.attempt + 1
    BY <1>3, <1>4, <1>5, <1>7, <1>9 DEF Good
  <2>3. Posted(sent, c)
    BY <1>6, <1>9 DEF Trying, Posted, SendsBounded
  <2> QED BY <1>6, <1>9, <2>1, <2>2, <2>3 DEF Trying
<1>11. sent = [r EXCEPT !.sends = @ + 1]
  BY <1>7, <1>8 DEF Sent
<1>12. PICK new :
          /\ inv' = [inv EXCEPT ![v] = new]
          /\ \/ new = TargetDone(r, c, FALSE)
             \/ new = TargetDone([sent EXCEPT !.acks = @ \cup {sent.index}], c, TRUE)
             \/ new = TargetDone(sent, c, FALSE)
             \/ new = PostbackRetry(sent, c)
             \/ new = PostbackRetry(r, c)
  <2>1. r.index = sent.index
    BY <1>9
  <2> QED BY <1>1, <1>2, <1>11, <2>1 DEF Postback
<1>13. new \in Invocation /\ Good(new, c) /\ new.worker = r.worker /\ new.pc # "idle"
  <2>1. sent.worker = r.worker
    BY <1>9 DEF Same
  <2>2. CASE new = TargetDone(r, c, FALSE)
    BY <1>4, <1>6, <2>2, GivenUpGood
  <2>3. CASE new = TargetDone([sent EXCEPT !.acks = @ \cup {sent.index}], c, TRUE)
    BY <1>4, <1>9, <1>10, <2>1, <2>3, AcknowledgedGood
  <2>4. CASE new = TargetDone(sent, c, FALSE)
    BY <1>4, <1>9, <1>10, <2>1, <2>4, GivenUpGood
  <2>5. CASE new = PostbackRetry(sent, c)
    BY <1>4, <1>9, <1>10, <2>1, <2>5, RetryGood
  <2>6. CASE new = PostbackRetry(r, c)
    BY <1>4, <1>6, <2>6, RetryGood
  <2> QED BY <1>12, <2>2, <2>3, <2>4, <2>5, <2>6
<1> QED
  <2>1. /\ inv[v].pc # "idle" /\ new.worker = inv[v].worker
        /\ Good(new, config[inv[v].worker])
    BY <1>1, <1>2, <1>3, <1>13
  <2> QED BY <1>3, <1>12, <1>13, <2>1, StepKept

\* An invocation that has not begun is good, whatever the configuration.
LEMMA IdleGood == Idle \in Invocation /\ \A c : Good(Idle, c)
<1> USE ZenroomAssumption
<1>1. PICK o \in Stream : o = NoStream
  <2>1. 0 \in 0..PipeCap /\ 0 \in 0..MaxPrinted /\ 0 \in 0..MaxOutput
    OBVIOUS
  <2>2. NoStream \in Stream
    BY <2>1 DEF NoStream, Stream
  <2> QED BY <2>2
<1>2. StreamOK(o)
  BY <1>1 DEF NoStream, StreamOK
<1>3. PICK out \in [Streams -> Stream] : out = [s \in Streams |-> o]
  OBVIOUS
<1>4. <<>> \in Seq([ok : BOOLEAN, sends : Nat])
  OBVIOUS
<1>5. Idle \in Invocation
  BY <1>1, <1>3, <1>4 DEF Idle, Invocation
<1>6. Idle.out = out /\ \A s \in Streams : out[s] = o
  BY <1>1, <1>3 DEF Idle
<1>7. Basic(Idle)
  BY <1>2, <1>6 DEF Basic, Idle
<1>8. ASSUME NEW c PROVE Good(Idle, c)
  <2>1. Idle.pc = "idle" /\ Idle.results = <<>>
    BY DEF Idle
  <2>2. SendsBounded(Idle, c)
    BY <2>1 DEF SendsBounded
  <2> QED BY <1>7, <2>1, <2>2 DEF Good
<1> QED BY <1>5, <1>8

\* Before its postbacks, and once it is cancelled, an invocation is good if the
\* readers, the exit and the timeout agree with its process.
LEMMA UnpostedGood ==
    ASSUME NEW r, NEW c, Good(r, c), NEW new, Basic(new), SamePosts(new, r),
           new.pc \in {"write", "wait", "cancelled"},
           new.pc # "cancelled" => r.pc \in {"write", "wait"}
    PROVE  Good(new, c)
<1>1. SendsBounded(new, c)
  BY DEF Good, SendsBounded, SamePosts
<1>2. new.pc # "cancelled" => Unposted(new)
  BY DEF Good, Unposted, SamePosts
<1> QED BY <1>1, <1>2 DEF Good

\* A process that runs is one of an invocation before its postbacks, of one
\* that was cancelled, or of one that could not control it and failed.
LEMMA UpWhere ==
    ASSUME NEW r \in Invocation, NEW c, Good(r, c), r.child = "up"
    PROVE  \/ r.pc \in {"write", "wait", "cancelled"}
           \/ r.pc \in {"log", "done"} /\ r.error # None
<1>1. r.pc # "idle"
  <2>1. Idle.child # "up"
    BY DEF Idle
  <2> QED BY <2>1 DEF Good
<1>2. r.pc \in {"log", "done"} => r.error # None
  BY DEF Good, Complete
<1>3. r.pc # "post"
  BY DEF Good, Complete
<1>4. r.pc \in {"idle", "write", "wait", "post", "log", "done", "cancelled"}
  BY DEF Invocation
<1> QED BY <1>1, <1>2, <1>3, <1>4

Output(r, s, o) == [r EXCEPT !.out[s] = o]

\* A record with another stream.
LEMMA OutputType ==
    ASSUME NEW r \in Invocation, NEW s \in Streams, NEW o \in Stream
    PROVE  LET new == Output(r, s, o)
           IN  /\ new \in Invocation /\ new.pc = r.pc /\ new.worker = r.worker
               /\ new.out[s] = o /\ \A t \in Streams \ {s} : new.out[t] = r.out[t]
               /\ new.collected = r.collected /\ new.overflow = r.overflow
               /\ new.exit_seen = r.exit_seen /\ new.timed_out = r.timed_out
               /\ new.child = r.child /\ new.uncontrolled = r.uncontrolled
               /\ SamePosts(new, r)
<1>1. r.out \in [Streams -> Stream]
  BY DEF Invocation
<1>2. PICK out \in [Streams -> Stream] : out = [r.out EXCEPT ![s] = o]
  BY <1>1
<1>3. out[s] = o /\ \A t \in Streams \ {s} : out[t] = r.out[t]
  BY <1>1, <1>2
<1>4. Output(r, s, o) = [r EXCEPT !.out = out]
  BY <1>2 DEF Output
<1>5. PICK new : new = [r EXCEPT !.out = out]
  OBVIOUS
<1>6. /\ new \in Invocation /\ new.pc = r.pc /\ new.worker = r.worker /\ new.out = out
      /\ new.collected = r.collected /\ new.overflow = r.overflow
      /\ new.exit_seen = r.exit_seen /\ new.timed_out = r.timed_out
      /\ new.child = r.child /\ new.uncontrolled = r.uncontrolled
      /\ SamePosts(new, r)
  BY <1>5 DEF Invocation, SamePosts
<1> QED BY <1>3, <1>4, <1>5, <1>6

\* A reader or a process that changes a stream before its end leaves the
\* invocation good.
LEMMA OutputGood ==
    ASSUME NEW r \in Invocation, NEW c, Good(r, c), NEW s \in Streams, NEW o \in Stream,
           StreamOK(o), r.out[s].result = None, r.pc \in {"write", "wait", "cancelled"},
           NEW new, new = Output(r, s, o)
    PROVE  new \in Invocation /\ Good(new, c) /\ new.worker = r.worker
<1>1. /\ new \in Invocation /\ new.pc = r.pc /\ new.worker = r.worker
      /\ new.out[s] = o /\ \A t \in Streams \ {s} : new.out[t] = r.out[t]
      /\ new.collected = r.collected /\ new.overflow = r.overflow
      /\ new.exit_seen = r.exit_seen /\ new.timed_out = r.timed_out
      /\ new.child = r.child /\ new.uncontrolled = r.uncontrolled
      /\ SamePosts(new, r)
  BY OutputType
<1>2. Basic(r) /\ r.collected \subseteq Streams
  BY DEF Good, Invocation
<1>3. s \notin r.collected
  BY <1>2 DEF Basic
<1>4. Basic(new)
  BY <1>1, <1>2, <1>3 DEF Basic
<1>5. Good(new, c)
  BY <1>1, <1>4, UnpostedGood
<1> QED BY <1>1, <1>5

\* Workers that start and stop keep the invariant: no invocation of a worker
\* that has not been started is under way.
LEMMA WorkerStep ==
    ASSUME IInv, NEW i \in Workers, StopWorker(i) \/ \E u \in Userdata : StartWorker(i, u)
    PROVE  IInv'
<1>1. CASE StopWorker(i)
  <2>1. TypeOK'
    BY <1>1 DEF StopWorker, IInv, TypeOK
  <2>2. AllGood' /\ Begun' /\ Configured'
    BY <1>1 DEF StopWorker, IInv, TypeOK, AllGood, Begun, Configured
  <2> QED BY <2>1, <2>2 DEF IInv
<1>2. ASSUME NEW u \in Userdata, StartWorker(i, u) PROVE IInv'
  <2>1. NormalizeWorkerConfig(u) \in Configs
    BY <1>2 DEF StartWorker, Configs
  <2>2. TypeOK'
    BY <1>2, <2>1 DEF StartWorker, IInv, TypeOK
  <2>3. Begun' /\ Configured'
    BY <1>2, <2>1 DEF StartWorker, IInv, TypeOK, Begun, Configured
  <2>4. ASSUME NEW v \in Invocations PROVE Good(inv'[v], config'[inv'[v].worker])
    <3>1. CASE inv[v].pc = "idle"
      <4>1. inv[v] = Idle
        BY <3>1, InvFacts DEF Good
      <4> QED BY <1>2, <4>1, IdleGood DEF StartWorker
    <3>2. CASE inv[v].pc # "idle"
      <4>1. inv[v].worker \in Workers \ {i}
        BY <1>2, <3>2, InvFacts DEF StartWorker
      <4>2. config'[inv[v].worker] = config[inv[v].worker]
        BY <1>2, <4>1 DEF StartWorker, IInv, TypeOK
      <4> QED BY <1>2, <4>2, InvFacts DEF StartWorker
    <3> QED BY <3>1, <3>2
  <2>5. AllGood'
    BY <2>4 DEF AllGood
  <2> QED BY <2>2, <2>3, <2>5 DEF IInv
<1> QED BY <1>1, <1>2

\* The beginning of an invocation keeps the invariant.
LEMMA InvokeStep ==
    ASSUME IInv, NEW v \in Invocations, NEW i \in Workers, NEW kind \in {"event", "http"},
           NEW size \in InputSizes, Invoke(v, i, kind, size)
    PROVE  IInv'
<1>1. inv[v] = Idle
  BY InvFacts DEF Invoke, Good
<1>2. PICK r : r = [Idle EXCEPT !.worker = i, !.kind = kind]
  OBVIOUS
<1>3. /\ r \in Invocation /\ r.worker = i /\ r.pc = "idle" /\ r.child = "none"
      /\ r.results = <<>> /\ ~r.exit_seen /\ ~r.timed_out /\ r.error = None
      /\ r.out = Idle.out /\ r.collected = {} /\ Unposted(r)
  <2>1. Idle \in Invocation
    BY IdleGood
  <2>2. r \in Invocation
    BY <1>2, <2>1 DEF Invocation
  <2> QED BY <1>2, <2>2 DEF Idle, Unposted
<1>4. \A s \in Streams : StreamOK(r.out[s])
  BY <1>3, IdleGood DEF Good, Basic
<1>5. status[i] = "Running" /\ UNCHANGED <<config, status, logs, kept>>
  BY DEF Invoke
<1>6. logs' \in [Workers -> Nat]
  BY <1>5 DEF IInv, TypeOK
<1>7. ASSUME NEW error \in Errors,
             inv' = [inv EXCEPT ![v] = [r EXCEPT !.error = error, !.pc = "log"]]
      PROVE  IInv'
  <2>1. PICK new : new = Ended(r, error)
    OBVIOUS
  <2>2. error \in Errors \cup {None}
    OBVIOUS
  <2>3. /\ new \in Invocation /\ new.pc = "log" /\ new.error = error
        /\ new.child = r.child /\ Same(new, r) /\ SamePosts(new, r)
    BY <1>3, <2>1, <2>2, EndedType
  <2>4. Basic(r)
    BY <1>3, <1>4 DEF Basic
  <2>5. Basic(new)
    BY <1>3, <2>3, <2>4, SameBasic
  <2>6. new.results = <<>> /\ new.worker = i /\ new.child = "none"
    BY <1>3, <2>3 DEF Same, SamePosts
  <2>7. new.error # None
    BY <2>3, ZenroomAssumption
  <2>8. Good(new, config[new.worker])
    BY <2>3, <2>5, <2>6, <2>7 DEF Good, SendsBounded
  <2>9. inv' = [inv EXCEPT ![v] = new]
    BY <1>7, <2>1 DEF Ended
  <2> QED BY <1>5, <1>6, <2>3, <2>6, <2>8, <2>9, InvKept
<1>8. ASSUME inv' = [inv EXCEPT ![v] = [r EXCEPT !.child = "up", !.unread = size,
                                                 !.pc = "write"]]
      PROVE  IInv'
  <2>1. PICK new : new = [r EXCEPT !.child = "up", !.unread = size, !.pc = "write"]
    OBVIOUS
  <2>2. size \in Nat
    BY ZenroomAssumption
  <2>3. /\ new \in Invocation /\ new.pc = "write" /\ Same(new, r) /\ SamePosts(new, r)
    <3>1. r \in Invocation
      BY <1>3
    <3> QED BY <2>1, <2>2, <3>1 DEF Invocation, Same, SamePosts
  <2>4. Basic(new)
    BY <1>3, <1>4, <2>3 DEF Basic, Same
  <2>5. Unposted(new) /\ new.worker = i
    BY <1>3, <2>3 DEF Unposted, Same, SamePosts
  <2>6. Good(new, config[new.worker])
    <3>1. SendsBounded(new, config[new.worker])
      BY <2>5 DEF Unposted, SendsBounded
    <3> QED BY <2>3, <2>4, <2>5, <3>1 DEF Good
  <2>7. inv' = [inv EXCEPT ![v] = new]
    BY <1>8, <2>1
  <2> QED BY <1>5, <1>6, <2>3, <2>5, <2>6, <2>7, InvKept
<1>9. PrepareError(config[i]) \in Errors \cup {None} /\ "exec_failed" \in Errors
  BY <1>3, ErrorTypes DEF Errors
<1>10. \/ PrepareError(config[i]) \in Errors
          /\ inv' = [inv EXCEPT ![v] = [r EXCEPT !.error = PrepareError(config[i]), !.pc = "log"]]
       \/ inv' = [inv EXCEPT ![v] = [r EXCEPT !.child = "up", !.unread = size,
                                               !.pc = "write"]]
       \/ inv' = [inv EXCEPT ![v] = [r EXCEPT !.error = "exec_failed", !.pc = "log"]]
  BY <1>1, <1>2, <1>9 DEF Invoke
<1> QED BY <1>7, <1>8, <1>9, <1>10

\* An invocation that ends with an error keeps the invariant, if what it knows
\* of its process is in order.
LEMMA FailedStep ==
    ASSUME IInv, NEW v \in Invocations, NEW r \in Invocation,
           inv[v].pc \in {"write", "wait"}, Basic(r), SamePosts(r, inv[v]),
           r.worker = inv[v].worker, r.child # "up" \/ r.uncontrolled,
           inv' = [inv EXCEPT ![v] = Ended(r, "exec_failed")],
           UNCHANGED <<config, status, logs, kept>>
    PROVE  IInv'
<1>1. PICK c : c = config[inv[v].worker]
  OBVIOUS
<1>2. Good(inv[v], c)
  BY <1>1, InvFacts
<1>3. PICK new : new = Ended(r, "exec_failed")
  OBVIOUS
<1>4. "exec_failed" \in Errors \cup {None} /\ "exec_failed" # None
  BY ZenroomAssumption DEF Errors
<1>5. /\ new \in Invocation /\ new.pc = "log" /\ new.error = "exec_failed"
      /\ new.child = r.child /\ Same(new, r) /\ SamePosts(new, r)
  BY <1>3, <1>4, EndedType
<1>6. Basic(new) /\ (new.child # "up" \/ new.uncontrolled)
  BY <1>5, SameBasic DEF Same
<1>7. SendsBounded(new, c)
  BY <1>2, <1>5 DEF Good, SendsBounded, SamePosts
<1>8. Good(new, c)
  BY <1>4, <1>5, <1>6, <1>7 DEF Good
<1>9. new.worker = inv[v].worker /\ Good(new, config[inv[v].worker]) /\ inv[v].pc # "idle"
  BY <1>1, <1>5, <1>8 DEF Same
<1> QED BY <1>3, <1>5, <1>9, StepKept

\* The errors of system calls keep the invariant.
LEMMA FailsStep ==
    ASSUME IInv, NEW v \in Invocations, WriteFails(v) \/ WaitFails(v)
    PROVE  IInv'
<1>1. PICK r \in Invocation : r = inv[v]
  BY InvFacts
<1>2. Basic(r)
  BY <1>1, InvFacts DEF Good
<1>3. r.pc \in {"write", "wait"} /\ UNCHANGED <<config, status, logs, kept>>
  BY <1>1 DEF WriteFails, WaitFails
<1>4. CASE WriteFails(v)
  <2>1. PICK new \in Kills(r) : inv' = [inv EXCEPT ![v] = Ended(new, "exec_failed")]
    BY <1>1, <1>4 DEF WriteFails, Ended
  <2>2. /\ new \in Invocation /\ (new.child # "up" \/ new.uncontrolled)
        /\ Same(new, r) /\ SamePosts(new, r)
    BY <2>1, KillsType
  <2>3. Basic(new) /\ new.worker = inv[v].worker /\ SamePosts(new, inv[v])
    BY <1>1, <1>2, <2>2 DEF Basic, Same
  <2> QED BY <1>1, <1>3, <2>1, <2>2, <2>3, FailedStep
<1>5. CASE WaitFails(v)
  <2>1. PICK new : new = [r EXCEPT !.uncontrolled = TRUE]
    OBVIOUS
  <2>2. /\ new \in Invocation /\ new.uncontrolled
        /\ Same(new, r) /\ SamePosts(new, r)
    BY <2>1 DEF Invocation, Same, SamePosts
  <2>3. Basic(new) /\ new.worker = inv[v].worker /\ SamePosts(new, inv[v])
    BY <1>1, <1>2, <2>2 DEF Basic, Same
  <2>4. inv' = [inv EXCEPT ![v] = Ended(new, "exec_failed")]
    BY <1>1, <1>5, <2>1 DEF WaitFails, Ended
  <2> QED BY <1>1, <1>3, <2>2, <2>3, <2>4, FailedStep
<1> QED BY <1>4, <1>5

\* Writing the input keeps the invariant.
LEMMA WriteStep ==
    ASSUME IInv, NEW v \in Invocations, WriteInput(v)
    PROVE  IInv'
<1>1. PICK r : r = inv[v]
  OBVIOUS
<1>2. PICK c : c = config[r.worker]
  OBVIOUS
<1>3. r.pc = "write" /\ UNCHANGED <<config, status, logs, kept>>
  BY <1>1 DEF WriteInput
<1>4. r \in Invocation /\ Good(r, c) /\ Basic(r)
  BY <1>1, <1>2, InvFacts DEF Good
<1>5. CASE inv' = [inv EXCEPT ![v].pc = "wait"]
  <2>1. PICK new : new = Moved(r, "wait")
    OBVIOUS
  <2>2. /\ new \in Invocation /\ new.pc = "wait" /\ new.child = r.child
        /\ Same(new, r) /\ SamePosts(new, r)
    BY <1>4, <2>1, MovedType DEF Positions
  <2>3. Basic(new)
    BY <1>4, <2>2, SameBasic
  <2>4. Good(new, c)
    BY <1>3, <1>4, <2>2, <2>3, UnpostedGood
  <2>5. inv' = [inv EXCEPT ![v] = new]
    BY <1>1, <1>5, <2>1 DEF Moved
  <2>6. new.worker = inv[v].worker /\ Good(new, config[inv[v].worker]) /\ inv[v].pc # "idle"
    BY <1>1, <1>2, <1>3, <2>2, <2>4 DEF Same
  <2> QED BY <1>3, <2>2, <2>5, <2>6, StepKept
<1>6. CASE r.child # "up" /\ inv' = [inv EXCEPT ![v].error = "exec_failed", ![v].pc = "log"]
  <2>1. inv' = [inv EXCEPT ![v] = Ended(r, "exec_failed")]
    BY <1>1, <1>6 DEF Ended
  <2> QED BY <1>1, <1>3, <1>4, <1>6, <2>1, FailedStep DEF SamePosts
<1> QED BY <1>1, <1>5, <1>6 DEF WriteInput

\* A change of a stream keeps the invariant.
LEMMA StreamStep ==
    ASSUME IInv, NEW v \in Invocations, NEW s \in Streams, NEW o \in Stream, StreamOK(o),
           inv[v].out[s].result = None, inv[v].pc \in {"write", "wait", "cancelled"},
           inv' = [inv EXCEPT ![v].out[s] = o], UNCHANGED <<config, status, logs, kept>>
    PROVE  IInv'
<1>1. PICK r : r = inv[v]
  OBVIOUS
<1>2. PICK c : c = config[r.worker]
  OBVIOUS
<1>3. r \in Invocation /\ Good(r, c)
  BY <1>1, <1>2, InvFacts
<1>4. PICK new : new = Output(r, s, o)
  OBVIOUS
<1>5. new \in Invocation /\ Good(new, c) /\ new.worker = r.worker
  BY <1>1, <1>3, <1>4, OutputGood
<1>6. inv' = [inv EXCEPT ![v] = new]
  BY <1>1, <1>4 DEF Output
<1>7. new.worker = inv[v].worker /\ Good(new, config[inv[v].worker]) /\ inv[v].pc # "idle"
  BY <1>1, <1>2, <1>5
<1> QED BY <1>5, <1>6, <1>7, StepKept

\* A chunk that is read is one less in the pipe.
LEMMA ReadStep ==
    ASSUME IInv, NEW v \in Invocations, NEW s \in Streams, ReadOutput(v, s)
    PROVE  IInv'
<1>1. PICK o : o = inv[v].out[s]
  OBVIOUS
<1>2. /\ inv[v].pc = "wait" /\ o.result = None
      /\ UNCHANGED <<config, status, logs, kept>>
  BY <1>1 DEF ReadOutput
<1>3. o \in Stream /\ StreamOK(o)
  BY <1>1, InvFacts DEF Good, Basic, Invocation
<1>4. /\ o.pipe \in Nat /\ o.pipe <= PipeCap /\ o.printed \in 0..MaxPrinted
      /\ o.got \in Nat /\ o.got <= MaxOutput /\ o.printed = o.got + o.pipe
  BY <1>2, <1>3, ZenroomAssumption DEF Stream, StreamOK
<1>5. ASSUME NEW p \in Stream, StreamOK(p), inv' = [inv EXCEPT ![v].out[s] = p]
      PROVE  IInv'
  BY <1>1, <1>2, <1>5, StreamStep
<1>6. CASE o.pipe > 0 /\ o.got + 1 > MaxOutput
  <2>1. PICK p : p = [o EXCEPT !.pipe = 0, !.result = "overflow"]
    OBVIOUS
  <2>2. 0 \in 0..PipeCap
    BY ZenroomAssumption
  <2>3. p \in Stream /\ p.result = "overflow"
    BY <1>3, <2>1, <2>2 DEF Stream
  <2>4. StreamOK(p)
    BY <2>3 DEF StreamOK
  <2>5. inv' = [inv EXCEPT ![v].out[s] = p]
    BY <1>1, <1>6, <2>1 DEF ReadOutput
  <2> QED BY <1>5, <2>3, <2>4, <2>5
<1>7. CASE o.pipe > 0 /\ ~(o.got + 1 > MaxOutput)
  <2>1. PICK pipe \in 0..PipeCap : pipe = o.pipe - 1
    BY <1>4, <1>7, ZenroomAssumption
  <2>2. PICK got \in 0..MaxOutput : got = o.got + 1
    BY <1>4, <1>7, ZenroomAssumption
  <2>3. PICK p : p = [o EXCEPT !.pipe = pipe, !.got = got]
    OBVIOUS
  <2>4. /\ p \in Stream /\ p.result = None /\ p.pipe = pipe /\ p.got = got
        /\ p.printed = o.printed
    BY <1>2, <1>3, <2>3 DEF Stream
  <2>5. StreamOK(p)
    <3>1. p.result # "ok"
      BY <2>4, ZenroomAssumption
    <3>2. o.printed = got + pipe
      BY <1>4, <2>1, <2>2
    <3> QED BY <2>4, <3>1, <3>2 DEF StreamOK
  <2>6. inv' = [inv EXCEPT ![v].out[s] = p]
    BY <1>1, <1>7, <2>1, <2>2, <2>3 DEF ReadOutput
  <2> QED BY <1>5, <2>4, <2>5, <2>6
<1>8. CASE o.pipe = 0 /\ inv' = [inv EXCEPT ![v].out[s].result = "ok"]
  <2>1. PICK p : p = [o EXCEPT !.result = "ok"]
    OBVIOUS
  <2>2. /\ p \in Stream /\ p.result = "ok" /\ p.pipe = o.pipe /\ p.got = o.got
        /\ p.printed = o.printed
    BY <1>3, <2>1 DEF Stream
  <2>3. StreamOK(p)
    BY <1>4, <1>8, <2>2 DEF StreamOK
  <2>4. inv' = [inv EXCEPT ![v].out[s] = p]
    BY <1>1, <1>8, <2>1
  <2> QED BY <1>5, <2>2, <2>3, <2>4
<1> QED BY <1>1, <1>6, <1>7, <1>8 DEF ReadOutput

\* A reader that fails has left the pipe as it was.
LEMMA ReadFailsStep ==
    ASSUME IInv, NEW v \in Invocations, NEW s \in Streams, ReadFails(v, s)
    PROVE  IInv'
<1>1. PICK o : o = inv[v].out[s]
  OBVIOUS
<1>2. /\ inv[v].pc = "wait" /\ o.result = None
      /\ UNCHANGED <<config, status, logs, kept>>
  BY <1>1 DEF ReadFails
<1>3. o \in Stream /\ StreamOK(o)
  BY <1>1, InvFacts DEF Good, Basic, Invocation
<1>4. o.printed = o.got + o.pipe
  BY <1>2, <1>3, ZenroomAssumption DEF StreamOK
<1>5. PICK p : p = [o EXCEPT !.result = "err"]
  OBVIOUS
<1>6. /\ p \in Stream /\ p.result = "err" /\ p.pipe = o.pipe /\ p.got = o.got
      /\ p.printed = o.printed
  BY <1>3, <1>5 DEF Stream
<1>7. StreamOK(p)
  BY <1>4, <1>6 DEF StreamOK
<1>8. inv' = [inv EXCEPT ![v].out[s] = p]
  BY <1>1, <1>5 DEF ReadFails
<1> QED BY <1>1, <1>2, <1>6, <1>7, <1>8, StreamStep

\* The end of a turn of the select loop keeps the invariant, if the event that
\* it handled has left the readers, the exit and the timeout in agreement.
LEMMA TurnStep ==
    ASSUME IInv, NEW v \in Invocations, NEW r \in Invocation, inv[v].pc = "wait",
           Basic(r), SamePosts(r, inv[v]), r.worker = inv[v].worker, r.pc = "wait",
           inv' = [inv EXCEPT ![v] = EndOfTurn(r, config[inv[v].worker])],
           UNCHANGED <<config, status, logs, kept>>
    PROVE  IInv'
<1>1. PICK c : c = config[inv[v].worker]
  OBVIOUS
<1>2. Good(inv[v], c) /\ c \in Configs
  BY <1>1, InvFacts
<1>3. Good(r, c)
  BY <1>2, UnpostedGood
<1>4. PICK new : new = EndOfTurn(r, c)
  OBVIOUS
<1>5. new \in Invocation /\ Good(new, c) /\ new.worker = r.worker
  BY <1>2, <1>3, <1>4, EndOfTurnGood
<1>6. inv' = [inv EXCEPT ![v] = new]
  BY <1>1, <1>4
<1>7. new.worker = inv[v].worker /\ Good(new, config[inv[v].worker]) /\ inv[v].pc # "idle"
  BY <1>1, <1>5
<1> QED BY <1>5, <1>6, <1>7, StepKept

\* The exit of the process is noticed once it has gone.
LEMMA ExitStep ==
    ASSUME IInv, NEW v \in Invocations, CollectExit(v)
    PROVE  IInv'
<1>1. PICK r \in Invocation : r = inv[v]
  BY InvFacts
<1>2. Basic(r)
  BY <1>1, InvFacts DEF Good
<1>3. PICK seen : seen = [r EXCEPT !.exit_seen = TRUE]
  OBVIOUS
<1>4. /\ seen \in Invocation /\ SamePosts(seen, r) /\ seen.worker = r.worker
      /\ seen.pc = r.pc /\ seen.out = r.out /\ seen.collected = r.collected
      /\ seen.overflow = r.overflow /\ seen.child = r.child
  BY <1>3 DEF Invocation, SamePosts
<1>5. r.pc = "wait" /\ r.child # "up" /\ UNCHANGED <<config, status, logs, kept>>
  BY <1>1 DEF CollectExit
<1>6. Basic(seen)
  BY <1>2, <1>4, <1>5 DEF Basic
<1>7. inv' = [inv EXCEPT ![v] = EndOfTurn(seen, config[inv[v].worker])]
  BY <1>1, <1>3 DEF CollectExit
<1> QED BY <1>1, <1>4, <1>5, <1>6, <1>7, TurnStep

\* The timeout is noticed and the process killed.
LEMMA TimeoutStep ==
    ASSUME IInv, NEW v \in Invocations, Timeout(v)
    PROVE  IInv'
<1>1. PICK r \in Invocation : r = inv[v]
  BY InvFacts
<1>2. Basic(r)
  BY <1>1, InvFacts DEF Good
<1>3. PICK late : late = [r EXCEPT !.timed_out = TRUE, !.error = "timeout"]
  OBVIOUS
<1>4. /\ late \in Invocation /\ SamePosts(late, r) /\ late.worker = r.worker
      /\ late.pc = r.pc /\ late.out = r.out /\ late.collected = r.collected
      /\ late.overflow = r.overflow
  BY <1>3 DEF Invocation, SamePosts, Errors
<1>5. PICK new \in Kills(late) :
          inv' = [inv EXCEPT ![v] = EndOfTurn(new, config[inv[v].worker])]
  BY <1>1, <1>3 DEF Timeout
<1>6. /\ new \in Invocation /\ (new.child # "up" \/ new.uncontrolled) /\ new.pc = late.pc
      /\ Same(new, late) /\ SamePosts(new, late)
  BY <1>4, <1>5, KillsType
<1>7. r.pc = "wait" /\ UNCHANGED <<config, status, logs, kept>>
  BY <1>1 DEF Timeout
<1>8. Basic(new)
  BY <1>2, <1>4, <1>6 DEF Basic, Same
<1>9. /\ SamePosts(new, inv[v]) /\ new.worker = inv[v].worker
      /\ new.pc = "wait" /\ inv[v].pc = "wait"
  BY <1>1, <1>4, <1>6, <1>7 DEF Same, SamePosts
<1> QED BY <1>5, <1>6, <1>7, <1>8, <1>9, TurnStep

\* A reader that is done is noticed, and an overflow kills the process.
LEMMA CollectStep ==
    ASSUME IInv, NEW v \in Invocations, NEW s \in Streams, CollectStream(v, s)
    PROVE  IInv'
<1>1. PICK r \in Invocation : r = inv[v]
  BY InvFacts
<1>2. Basic(r)
  BY <1>1, InvFacts DEF Good
<1>3. r.pc = "wait" /\ r.out[s].result # None /\ UNCHANGED <<config, status, logs, kept>>
  BY <1>1 DEF CollectStream
<1>4. PICK collected \in SUBSET Streams : collected = r.collected \cup {s}
  BY DEF Invocation
<1>5. PICK seen : seen = [r EXCEPT !.collected = collected]
  OBVIOUS
<1>6. /\ seen \in Invocation /\ SamePosts(seen, r) /\ seen.worker = r.worker
      /\ seen.pc = r.pc /\ seen.out = r.out /\ seen.collected = collected
      /\ seen.overflow = r.overflow /\ seen.child = r.child
      /\ seen.exit_seen = r.exit_seen /\ seen.timed_out = r.timed_out
      /\ seen.uncontrolled = r.uncontrolled
  BY <1>5 DEF Invocation, SamePosts
<1>7. CASE ~(r.out[s].result = "overflow" /\ r.overflow = None)
  <2>1. Basic(seen)
    BY <1>2, <1>3, <1>4, <1>6, <1>7 DEF Basic
  <2>2. inv' = [inv EXCEPT ![v] = EndOfTurn(seen, config[inv[v].worker])]
    BY <1>1, <1>4, <1>5, <1>7 DEF CollectStream
  <2>3. /\ SamePosts(seen, inv[v]) /\ seen.worker = inv[v].worker
        /\ seen.pc = "wait" /\ inv[v].pc = "wait"
    BY <1>1, <1>3, <1>6
  <2> QED BY <1>3, <1>6, <2>1, <2>2, <2>3, TurnStep
<1>8. CASE r.out[s].result = "overflow" /\ r.overflow = None
  <2>1. PICK over : over = [seen EXCEPT !.overflow = s]
    OBVIOUS
  <2>2. /\ over \in Invocation /\ SamePosts(over, seen) /\ over.worker = seen.worker
        /\ over.pc = seen.pc /\ over.out = seen.out /\ over.collected = seen.collected
        /\ over.overflow = s
    BY <1>6, <2>1 DEF Invocation, SamePosts
  <2>3. PICK new \in Kills(over) :
            inv' = [inv EXCEPT ![v] = EndOfTurn(new, config[inv[v].worker])]
    BY <1>1, <1>4, <1>5, <1>8, <2>1 DEF CollectStream
  <2>4. /\ new \in Invocation /\ (new.child # "up" \/ new.uncontrolled) /\ new.pc = over.pc
        /\ Same(new, over) /\ SamePosts(new, over)
    BY <2>2, <2>3, KillsType
  <2>5. s # None
    BY ZenroomAssumption DEF Errors
  <2>6. Basic(new)
    BY <1>2, <1>3, <1>4, <1>6, <2>2, <2>4, <2>5 DEF Basic, Same
  <2>7. /\ SamePosts(new, inv[v]) /\ new.worker = inv[v].worker
        /\ new.pc = "wait" /\ inv[v].pc = "wait"
    BY <1>1, <1>3, <1>6, <2>2, <2>4 DEF Same, SamePosts
  <2> QED BY <1>3, <2>3, <2>4, <2>6, <2>7, TurnStep
<1> QED BY <1>7, <1>8

\* A caller that gives up keeps the invariant.
LEMMA CancelStep ==
    ASSUME IInv, NEW v \in Invocations, Cancel(v)
    PROVE  IInv'
<1>1. PICK r \in Invocation : r = inv[v]
  BY InvFacts
<1>2. PICK c : c = config[r.worker]
  OBVIOUS
<1>3. Good(r, c) /\ Basic(r)
  BY <1>1, <1>2, InvFacts DEF Good
<1>4. PICK new : new = Moved(r, "cancelled")
  OBVIOUS
<1>5. /\ new \in Invocation /\ new.pc = "cancelled" /\ new.child = r.child
      /\ Same(new, r) /\ SamePosts(new, r)
  BY <1>4, MovedType DEF Positions
<1>6. Basic(new)
  BY <1>3, <1>5, SameBasic
<1>7. Good(new, c)
  BY <1>3, <1>5, <1>6, UnpostedGood
<1>8. inv' = [inv EXCEPT ![v] = new] /\ UNCHANGED <<config, status, logs, kept>>
  BY <1>1, <1>4 DEF Moved, Cancel
<1>9. new.worker = inv[v].worker /\ Good(new, config[inv[v].worker]) /\ inv[v].pc # "idle"
  BY <1>1, <1>2, <1>5, <1>7 DEF Same, Cancel
<1> QED BY <1>5, <1>8, <1>9, StepKept

\* Whatever the process reads, prints, starts and returns, the invariant is
\* kept.
LEMMA ChildStepKept ==
    ASSUME IInv, NEW v \in Invocations, ChildStep(v)
    PROVE  IInv'
<1>1. PICK r \in Invocation : r = inv[v]
  BY InvFacts
<1>2. PICK c : c = config[r.worker]
  OBVIOUS
<1>3. Good(r, c) /\ Basic(r)
  BY <1>1, <1>2, InvFacts DEF Good
<1>4. UNCHANGED <<config, status, logs, kept>>
  BY DEF ChildStep, ChildRead, ChildFork, Release, ChildPrint, ChildExit
<1>5. ASSUME NEW new \in Invocation, new.pc = r.pc, new.worker = r.worker, new.out = r.out,
             new.collected = r.collected, new.overflow = r.overflow,
             new.exit_seen = r.exit_seen, new.timed_out = r.timed_out, SamePosts(new, r),
             new.error = r.error, r.child # "up" => new.child # "up",
             new.uncontrolled = r.uncontrolled,
             \/ r.pc \in {"write", "wait", "cancelled"}
             \/ r.pc \in {"log", "done"} /\ r.error # None,
             inv' = [inv EXCEPT ![v] = new]
      PROVE  IInv'
  <2>1. Basic(new)
    BY <1>3, <1>5 DEF Basic
  <2>2. CASE r.pc \in {"write", "wait", "cancelled"}
    <3>1. Good(new, c)
      BY <1>3, <1>5, <2>1, <2>2, UnpostedGood
    <3>2. new.worker = inv[v].worker /\ Good(new, config[inv[v].worker]) /\ inv[v].pc # "idle"
      BY <1>1, <1>2, <1>5, <2>2, <3>1
    <3> QED BY <1>4, <1>5, <3>2, StepKept
  <2>3. CASE r.pc \in {"log", "done"} /\ r.error # None
    <3>1. SendsBounded(new, c)
      BY <1>3, <1>5 DEF Good, SendsBounded, SamePosts
    <3>2. new.child # "up" \/ new.uncontrolled
      BY <1>3, <1>5, <2>3 DEF Good
    <3>3. Good(new, c)
      BY <1>5, <2>1, <2>3, <3>1, <3>2 DEF Good
    <3>4. new.worker = inv[v].worker /\ Good(new, config[inv[v].worker]) /\ inv[v].pc # "idle"
      BY <1>1, <1>2, <1>5, <2>3, <3>3
    <3> QED BY <1>4, <1>5, <3>4, StepKept
  <2> QED BY <1>5, <2>2, <2>3
<1>6. ASSUME NEW held \in BOOLEAN, inv' = [inv EXCEPT ![v].held = held],
             r.pc \in {"write", "wait"}
      PROVE  IInv'
  <2>1. PICK new : new = [r EXCEPT !.held = held]
    OBVIOUS
  <2>2. /\ new \in Invocation /\ new.pc = r.pc /\ new.worker = r.worker /\ new.out = r.out
        /\ new.collected = r.collected /\ new.overflow = r.overflow
        /\ new.exit_seen = r.exit_seen /\ new.timed_out = r.timed_out /\ SamePosts(new, r)
        /\ new.error = r.error /\ new.child = r.child /\ new.uncontrolled = r.uncontrolled
    BY <2>1 DEF Invocation, SamePosts
  <2>3. inv' = [inv EXCEPT ![v] = new]
    BY <1>1, <1>6, <2>1
  <2> QED BY <1>5, <1>6, <2>2, <2>3
<1>7. CASE ChildRead(v)
  <2>1. PICK unread \in Nat : unread = r.unread - 1
    BY <1>1, <1>7 DEF ChildRead, Invocation
  <2>2. PICK new : new = [r EXCEPT !.unread = unread]
    OBVIOUS
  <2>3. /\ new \in Invocation /\ new.pc = r.pc /\ new.worker = r.worker /\ new.out = r.out
        /\ new.collected = r.collected /\ new.overflow = r.overflow
        /\ new.exit_seen = r.exit_seen /\ new.timed_out = r.timed_out /\ SamePosts(new, r)
        /\ new.error = r.error /\ new.child = r.child /\ new.uncontrolled = r.uncontrolled
    BY <2>2 DEF Invocation, SamePosts
  <2>4. inv' = [inv EXCEPT ![v] = new] /\ r.pc = "write"
    BY <1>1, <1>7, <2>1, <2>2 DEF ChildRead
  <2> QED BY <1>5, <2>3, <2>4
<1>8. ASSUME NEW code \in {0, 1}, NEW output \in {"raw", "json", "pointed"},
             ChildExit(v, code, output)
      PROVE  IInv'
  <2>1. PICK new : new = [r EXCEPT !.child = "exited", !.code = code, !.output = output]
    OBVIOUS
  <2>2. /\ new \in Invocation /\ new.pc = r.pc /\ new.worker = r.worker /\ new.out = r.out
        /\ new.collected = r.collected /\ new.overflow = r.overflow
        /\ new.exit_seen = r.exit_seen /\ new.timed_out = r.timed_out /\ SamePosts(new, r)
        /\ new.error = r.error /\ new.child = "exited" /\ new.uncontrolled = r.uncontrolled
    BY <2>1 DEF Invocation, SamePosts
  <2>3. inv' = [inv EXCEPT ![v] = new] /\ r.child = "up"
    BY <1>1, <1>8, <2>1 DEF ChildExit
  <2>4. \/ r.pc \in {"write", "wait", "cancelled"}
        \/ r.pc \in {"log", "done"} /\ r.error # None
    BY <1>3, <2>3, UpWhere
  <2> QED BY <1>5, <2>2, <2>3, <2>4
<1>9. ASSUME NEW s \in Streams, ChildPrint(v, s) PROVE IInv'
  <2>1. PICK o \in Stream : o = inv[v].out[s]
    BY <1>1 DEF Invocation
  <2>2. StreamOK(o) /\ o.result = None /\ o.pipe < PipeCap /\ o.printed < MaxPrinted
    BY <1>1, <1>3, <1>9, <2>1 DEF Basic, ChildPrint
  <2>3. /\ o.pipe \in Nat /\ o.printed \in Nat /\ o.got \in Nat /\ o.printed = o.got + o.pipe
    BY <2>2, ZenroomAssumption DEF Stream, StreamOK
  <2>4. PICK pipe \in 0..PipeCap : pipe = o.pipe + 1
    BY <2>2, <2>3, ZenroomAssumption
  <2>5. PICK printed \in 0..MaxPrinted : printed = o.printed + 1
    BY <2>2, <2>3, ZenroomAssumption
  <2>6. PICK p : p = [o EXCEPT !.pipe = pipe, !.printed = printed]
    OBVIOUS
  <2>7. /\ p \in Stream /\ p.result = None /\ p.pipe = pipe /\ p.printed = printed
        /\ p.got = o.got
    BY <2>2, <2>6 DEF Stream
  <2>8. StreamOK(p)
    <3>1. p.result # "ok"
      BY <2>7, ZenroomAssumption
    <3>2. printed = o.got + pipe
      BY <2>3, <2>4, <2>5
    <3> QED BY <2>7, <3>1, <3>2 DEF StreamOK
  <2>9. inv' = [inv EXCEPT ![v].out[s] = p]
    BY <1>9, <2>1, <2>4, <2>5, <2>6 DEF ChildPrint
  <2>10. inv[v].pc \in {"write", "wait", "cancelled"}
    BY <1>9 DEF ChildPrint, PipesOpen
  <2> QED BY <1>4, <2>1, <2>2, <2>7, <2>8, <2>9, <2>10, StreamStep
<1>10. CASE ChildFork(v) \/ Release(v)
  BY <1>1, <1>6, <1>10 DEF ChildFork, Release, PipesOpen
<1> QED BY <1>7, <1>8, <1>9, <1>10 DEF ChildStep

\* The streams that are part of the output.
Shown(r) == {s \in r.collected : r.out[s].result # "err" /\ r.out[s].got > 0}

\* The reply and the lines of the log keep the invariant.
LEMMA LogStep ==
    ASSUME IInv, NEW v \in Invocations, AppendLogs(v)
    PROVE  IInv'
<1>1. PICK r \in Invocation : r = inv[v]
  BY InvFacts
<1>2. r.pc = "log" /\ UNCHANGED <<config, status, kept>>
  BY <1>1 DEF AppendLogs
<1>3. PICK c \in Configs : c = config[r.worker]
  BY <1>1, <1>2, InvFacts
<1>4. Good(r, c) /\ r.worker \in Workers /\ status[r.worker] # "absent"
  BY <1>1, <1>2, <1>3, InvFacts
<1>5. PICK reply \in {None, "envelope", "stdout", "selected", "null", "stdout_json"} :
          reply = IF r.kind = "event" \/ r.error # None THEN "envelope" ELSE HttpBody(r, c)
  BY ConfigFacts DEF HttpBody
<1>6. PICK new : new = [r EXCEPT !.pc = "done", !.reply = reply]
  OBVIOUS
<1>7. /\ new \in Invocation /\ new.pc = "done" /\ new.error = r.error /\ new.child = r.child
      /\ Same(new, r) /\ SamePosts(new, r)
  BY <1>6 DEF Invocation, Same, SamePosts
<1>8. Basic(new)
  BY <1>4, <1>7, SameBasic DEF Good
<1>9. Good(new, c)
  <2>1. SendsBounded(new, c)
    BY <1>4, <1>7 DEF Good, SendsBounded, SamePosts
  <2>2. new.error = None => Complete(new)
    BY <1>2, <1>4, <1>7, SameBasic DEF Good
  <2>3. new.child # "up" \/ new.uncontrolled
    BY <1>2, <1>4, <1>7 DEF Good, Same
  <2> QED BY <1>2, <1>4, <1>7, <1>8, <2>1, <2>2, <2>3 DEF Good, SamePosts
<1>10. inv' = [inv EXCEPT ![v] = new]
  BY <1>1, <1>3, <1>5, <1>6 DEF AppendLogs
<1>11. logs' \in [Workers -> Nat]
  <2>1. Cardinality(Shown(r)) \in Nat
    <3>1. IsFiniteSet(Streams)
      <4>1. IsFiniteSet({}) /\ Streams = ({} \cup {"stdout"}) \cup {"stderr"}
        BY FS_EmptySet DEF Streams
      <4>2. IsFiniteSet({} \cup {"stdout"})
        BY <4>1, FS_AddElement
      <4> QED BY <4>1, <4>2, FS_AddElement
    <3>2. IsFiniteSet(Shown(r))
      <4>1. Shown(r) \subseteq Streams
        BY DEF Shown, Invocation
      <4> QED BY <3>1, <4>1, FS_Subset
    <3> QED BY <3>2, FS_CardinalityType
  <2>2. Len(r.results) \in Nat
    BY DEF Invocation
  <2>3. PICK lines \in Nat :
            lines = IF r.kind = "event"
                    THEN Cardinality(Shown(r)) + Len(r.results) ELSE 0
    <3>1. \A x, y \in Nat : (IF r.kind = "event" THEN x + y ELSE 0) \in Nat
      OBVIOUS
    <3> QED BY <2>1, <2>2, <3>1
  <2>4. logs' = [logs EXCEPT ![r.worker] = @ + lines]
    BY <1>1, <2>3 DEF AppendLogs, Shown
  <2>5. logs \in [Workers -> Nat]
    BY DEF IInv, TypeOK
  <2> QED BY <1>4, <2>4, <2>5
<1>12. new.worker = r.worker
  BY <1>7 DEF Same
<1>13. Good(new, config[new.worker]) /\ new.worker \in Workers /\ status[new.worker] # "absent"
  BY <1>3, <1>4, <1>9, <1>12
<1> QED BY <1>2, <1>7, <1>10, <1>11, <1>13, InvKept

-----------------------------------------------------------------------------
(* The theorems.                                                           *)

\* The invariant holds initially.
LEMMA InitIInv == Init => IInv
<1> SUFFICES ASSUME Init PROVE IInv
  OBVIOUS
<1>1. \A v \in Invocations : inv[v] = Idle
  BY DEF Init
<1>2. TypeOK
  BY IdleGood DEF Init, TypeOK
<1>3. AllGood
  BY <1>1, IdleGood DEF AllGood
<1>4. Begun
  BY <1>1 DEF Begun, Idle
<1>5. Configured
  BY DEF Init, Configured
<1> QED BY <1>2, <1>3, <1>4, <1>5 DEF IInv

\* Every step keeps the invariant.
LEMMA NextIInv == IInv /\ [Next]_vars => IInv'
<1> SUFFICES ASSUME IInv, [Next]_vars PROVE IInv'
  OBVIOUS
<1>1. ASSUME NEW i \in Workers, StopWorker(i) \/ \E u \in Userdata : StartWorker(i, u)
      PROVE  IInv'
  BY <1>1, WorkerStep
<1>2. ASSUME NEW v \in Invocations, NEW i \in Workers, NEW kind \in {"event", "http"},
             NEW size \in InputSizes, Invoke(v, i, kind, size)
      PROVE  IInv'
  BY <1>2, InvokeStep
<1>3. ASSUME NEW v \in Invocations, VmStep(v) PROVE IInv'
  <2>1. CASE WriteInput(v)
    BY <2>1, WriteStep
  <2>2. CASE CollectExit(v)
    BY <2>2, ExitStep
  <2>3. CASE Timeout(v)
    BY <2>3, TimeoutStep
  <2>4. CASE Postback(v)
    BY <2>4, PostbackStep
  <2>5. CASE AppendLogs(v)
    BY <2>5, LogStep
  <2>6. ASSUME NEW s \in Streams, ReadOutput(v, s) PROVE IInv'
    BY <2>6, ReadStep
  <2>7. ASSUME NEW s \in Streams, CollectStream(v, s) PROVE IInv'
    BY <2>7, CollectStep
  <2> QED BY <1>3, <2>1, <2>2, <2>3, <2>4, <2>5, <2>6, <2>7 DEF VmStep
<1>4. ASSUME NEW v \in Invocations, Cancel(v) PROVE IInv'
  BY <1>4, CancelStep
<1>5. ASSUME NEW v \in Invocations, ChildStep(v) PROVE IInv'
  BY <1>5, ChildStepKept
<1>6. ASSUME NEW v \in Invocations, FailStep(v) PROVE IInv'
  BY <1>6, FailsStep, ReadFailsStep DEF FailStep
<1>7. CASE UNCHANGED vars
  BY <1>7 DEF vars, IInv, TypeOK, AllGood, Begun, Configured
<1> QED BY <1>1, <1>2, <1>3, <1>4, <1>5, <1>6, <1>7 DEF Next

\* The invariant holds in every behaviour.
LEMMA Inductive == Spec => []IInv
BY InitIInv, NextIInv, PTL DEF Spec

\* Theorem: an invocation that succeeds has the whole output of a process that
\* ended well by itself, however the exit, the readers, an overflow and the
\* timeout of execute_zenroom interleave.
THEOREM SuccessComplete == Spec => []SuccessIsComplete
<1>1. IInv => SuccessIsComplete
  <2> SUFFICES ASSUME IInv, NEW v \in Invocations, Succeeded(v)
               PROVE  Complete(inv[v])
    BY DEF SuccessIsComplete, Complete
  <2>1. Good(inv[v], config[inv[v].worker])
    BY InvFacts
  <2> QED BY <2>1 DEF Good, Succeeded, Finished
<1> QED BY <1>1, Inductive, PTL

\* Theorem: with required postbacks, an invocation that succeeds has been
\* acknowledged by every target of its worker, and no target was sent more
\* requests than the retries allow.
THEOREM Acknowledged == Spec => []RequiredIsAcknowledged
<1>1. IInv => RequiredIsAcknowledged
  <2> SUFFICES ASSUME IInv, NEW v \in Invocations, NEW c, c = config[inv[v].worker]
               PROVE  /\ (Succeeded(v) /\ c.enabled /\ c.required) =>
                             c.targets # <<>> /\ inv[v].acks = 1..Len(c.targets)
                      /\ \A k \in 1..Len(inv[v].results) :
                             inv[v].results[k].sends <= c.retries + 1
    BY DEF RequiredIsAcknowledged
  <2>1. Good(inv[v], c)
    BY InvFacts
  <2>2. \A k \in 1..Len(inv[v].results) : inv[v].results[k].sends <= c.retries + 1
    BY <2>1 DEF Good, SendsBounded
  <2>3. (Succeeded(v) /\ c.enabled /\ c.required) =>
            c.targets # <<>> /\ inv[v].acks = 1..Len(c.targets)
    BY <2>1 DEF Good, Succeeded, Finished
  <2> QED BY <2>2, <2>3
<1> QED BY <1>1, Inductive, PTL

\* Theorem: an invocation of execute_zenroom that returns, however it ended, has
\* left its process behind only if a kill of it or a wait for it failed, and then
\* it reports an error.
THEOREM NoProcessLeft == Spec => []NoStrayProcess
<1>1. IInv => NoStrayProcess
  <2> SUFFICES ASSUME IInv, NEW v \in Invocations, Finished(v), inv[v].child = "up"
               PROVE  inv[v].uncontrolled /\ inv[v].error # None
    BY DEF NoStrayProcess, IInv
  <2>1. Good(inv[v], config[inv[v].worker]) /\ inv[v].pc = "done"
    BY InvFacts DEF Finished
  <2> QED BY <2>1 DEF Good, Complete
<1> QED BY <1>1, Inductive, PTL
=============================================================================
