-------------------------- MODULE WorkerdVmProofs --------------------------
(***************************************************************************)
(* Proofs about WorkerdVm and LogBuffer, for any worker ids, any number of *)
(* starts, RPCs and log lines, and limits of any size.                     *)
(***************************************************************************)
EXTENDS WorkerdVm, WellFoundedInduction, TLAPS

\* An instance that something knows of has been started; an id that was
\* started has an entry, and the entry is one of its own.
Entries ==
    /\ \A id \in Ids : workers[id] # None =>
           boot[workers[id]] # "idle" /\ idOf[workers[id]] = id
    /\ \A i \in Insts : boot[i] # "idle" => idOf[i] \in Ids /\ workers[idOf[i]] # None
    /\ \A i \in Insts : proc[i] = "none" <=> boot[i] = "idle"
    /\ \A i \in acked : boot[i] # "idle"

\* kill_on_drop: a process that runs is one that something refers to.
Held == \A i \in Insts : proc[i] = "up" => i \in Referenced(workers, call)

\* A worker is marked as down only when its process has gone or is dying.
DownMeansGone ==
    \A i \in Insts : proc[i] = "up" /\ status[i] \in Down => i \in Spared

\* A process comes nearer to its end.
Ends(old, new) == old \in {"up", "killed"} /\ new \in {"killed", "exited"}

WorkerPcs == {"kill", "mark", "connect", "promote", "sent"}
StreamPcs == {"stuck", "subscribe", "follow"}

\* What an RPC holds by its position.
Fits(r) ==
    /\ r.inst # None => boot[r.inst] # "idle"
    /\ r.pc = "idle" => r = Idle
    /\ r.pc \in WorkerPcs => r.inst \in Insts
    /\ r.pc \in StreamPcs => r.inst = None
    /\ r.pc \in {"kill", "mark", "subscribe"} => r.id \in Ids
    /\ r.pc = "mark" => proc[r.inst] = "exited"

Placed == \A c \in Calls : Fits(call[c])

ProcInv == TypeOK /\ Entries /\ Held /\ DownMeansGone /\ StopMeansGone /\ Placed

-----------------------------------------------------------------------------

\* A line that was pushed is on its way or was sent.
Seen(b, w, n) == n \in w \/ \E p \in 1..Len(b.sent) : b.sent[p] = n

\* Every line is sent at most once, after it was pushed.
BufferOK(b, w) ==
    /\ Bounded(b)
    /\ w \subseteq 1..b.pushed
    /\ \A p \in 1..Len(b.sent) : b.sent[p] \in (1..b.pushed) \ w
    /\ \A p, q \in 1..Len(b.sent) : b.sent[p] = b.sent[q] => p = q
    /\ \A k \in 1..Len(b.history) : Seen(b, w, b.history[k].n)

DeadOK(d, buffers, ws) ==
    d # None =>
        \A k \in 1..Len(d.history) : Seen(buffers[d.inst], ws[d.inst], d.history[k].n)

\* The line is among the first m that were sent.
SentBefore(line, m, buffers) == \E p \in 1..m : line[2] = buffers[line[1]].sent[p]

\* Of the lines from begin on, a stream has sent those it has not skipped.
Passed(r, buffers) ==
    \A p \in r.begin..(r.streamer.next - 1) :
        \/ p \in r.skipped
        \/ \E l \in 1..Len(r.live) : r.live[l] = <<r.from, buffers[r.from].sent[p]>>

\* A line of the tail that was not open had been sent before the streamer was
\* created, and what the stream has delivered is what the streamer has passed.
StreamPlaced(r, buffers) ==
    /\ r.pc \notin StreamPcs => r.tail = <<>> /\ r.live = <<>>
    /\ r.pc \in {"stuck", "subscribe"} =>
          /\ r.live = <<>>
          /\ \A k \in 1..Len(r.tail) :
                \/ r.tail[k] \in r.open
                \/ SentBefore(r.tail[k], Len(buffers[r.tail[k][1]].sent), buffers)
    /\ r.pc = "follow" =>
          /\ r.from \in Insts /\ r.streamer.next <= Len(buffers[r.from].sent) + 1
          /\ \A l \in 1..Len(r.live) :
                r.live[l][1] = r.from /\ SentBefore(r.live[l], r.streamer.next - 1, buffers)
          /\ \A k \in 1..Len(r.tail) :
                \/ r.tail[k] \in r.open \/ r.tail[k][1] # r.from
                \/ SentBefore(r.tail[k], r.streamer.next - 1, buffers)
          /\ \A k \in 1..Len(r.tail), l \in 1..Len(r.live) :
                r.tail[k] = r.live[l] => r.live[l] \in r.open
          /\ \A k, l \in 1..Len(r.live) : r.live[k] = r.live[l] => k = l
          /\ Passed(r, buffers)

LogInv ==
    /\ \A i \in Insts : BufferOK(buffer[i], writing[i])
    /\ \A id \in Ids : DeadOK(dead[id], buffer, writing)
    /\ \A c \in Calls : StreamPlaced(call[c], buffer)

IInv == ProcInv /\ LogInv

-----------------------------------------------------------------------------
(* The bytes of a history: induction over its length, which the proofs do  *)
(* with the least index at which a claim would fail.                       *)

\* A set of natural numbers that is not empty has a least element.
LEMMA Least ==
    ASSUME NEW T, T \subseteq Nat, T # {}
    PROVE  \E x \in T : \A y \in T : x <= y
<1>1. PICK x \in T : \A y \in T : ~(<<y, x>> \in OpToRel(<, Nat))
  BY NatLessThanWellFounded, WFMin
<1>2. \A y \in T : ~(y < x)
  BY <1>1 DEF OpToRel
<1> QED BY <1>2

\* f has the sums of the first lengths of h, up to n of them.
IsSum(f, h, n) ==
    /\ f \in [0..n -> Nat] /\ f[0] = 0
    /\ \A k \in 1..n : f[k] = f[k - 1] + h[k].len

\* There are such sums.
LEMMA SumExists ==
    ASSUME NEW h \in Seq(Lines), NEW n \in 0..Len(h)
    PROVE  \E f : IsSum(f, h, n)
<1> DEFINE T == {m \in 0..Len(h) : ~\E f : IsSum(f, h, m)}
<1>0. Len(h) \in Nat
  OBVIOUS
<1>1. SUFFICES ASSUME T # {} PROVE FALSE
  OBVIOUS
<1>2. T \subseteq Nat
  BY <1>0
<1>3. PICK m \in T : \A y \in T : m <= y
  BY <1>1, <1>2, Least
<1> HIDE DEF T
<1>4. m \in 0..Len(h) /\ m \in Nat /\ ~\E f : IsSum(f, h, m)
  BY <1>0, <1>3 DEF T
<1>5. CASE m = 0
  <2>1. PICK f : f = [k \in 0..0 |-> 0]
    OBVIOUS
  <2>2. IsSum(f, h, 0)
    BY <2>1 DEF IsSum
  <2> QED BY <1>4, <1>5, <2>2
<1>6. CASE m # 0
  <2>1. m - 1 \in 0..Len(h) /\ m - 1 \notin T
    BY <1>0, <1>3, <1>4, <1>6
  <2>2. PICK f : IsSum(f, h, m - 1)
    BY <2>1 DEF T
  <2>3. h[m].len \in Nat
    <3>1. h[m] \in Lines
      BY <1>0, <1>4, <1>6
    <3> QED BY <3>1 DEF Lines
  <2>4. f[m - 1] \in Nat
    BY <1>4, <1>6, <2>2 DEF IsSum
  <2>5. PICK g : g = [k \in 0..m |-> IF k = m THEN f[m - 1] + h[m].len ELSE f[k]]
    OBVIOUS
  <2>6. g \in [0..m -> Nat] /\ g[0] = 0
    BY <1>4, <1>6, <2>2, <2>3, <2>4, <2>5 DEF IsSum
  <2>7. ASSUME NEW k \in 1..m PROVE g[k] = g[k - 1] + h[k].len
    <3>1. CASE k = m
      <4>1. g[k] = f[m - 1] + h[m].len /\ g[k - 1] = f[m - 1]
        BY <1>4, <1>6, <2>5, <3>1
      <4> QED BY <3>1, <4>1
    <3>2. CASE k # m
      <4>1. k \in 1..(m - 1) /\ k \in 0..m /\ k - 1 \in 0..m /\ k - 1 # m
        BY <1>4, <3>2
      <4>2. g[k] = f[k] /\ g[k - 1] = f[k - 1]
        BY <2>5, <3>2, <4>1
      <4> QED BY <2>2, <4>1, <4>2 DEF IsSum
    <3> QED BY <3>1, <3>2
  <2>8. IsSum(g, h, m)
    BY <2>6, <2>7 DEF IsSum
  <2> QED BY <1>4, <2>8
<1> QED BY <1>5, <1>6

\* Sums grow.
LEMMA SumGrows ==
    ASSUME NEW h \in Seq(Lines), NEW n \in 0..Len(h), NEW f, IsSum(f, h, n),
           NEW k \in 0..n, NEW j \in 0..n, k <= j
    PROVE  f[k] <= f[j]
<1> DEFINE T == {m \in 0..n : k <= m /\ ~(f[k] <= f[m])}
<1>0. n \in Nat /\ Len(h) \in Nat /\ f \in [0..n -> Nat]
  BY DEF IsSum
<1>1. SUFFICES ASSUME T # {} PROVE FALSE
  OBVIOUS
<1>2. T \subseteq Nat
  BY <1>0
<1>3. PICK m \in T : \A y \in T : m <= y
  BY <1>1, <1>2, Least
<1>4. m \in 0..n /\ k <= m /\ ~(f[k] <= f[m])
  BY <1>3
<1>5. m # k /\ m # 0
  BY <1>0, <1>4
<1>6. m - 1 \in 0..n /\ k <= m - 1 /\ m - 1 \notin T
  BY <1>0, <1>3, <1>4, <1>5
<1>7. f[k] <= f[m - 1]
  BY <1>6
<1>8. f[m] = f[m - 1] + h[m].len
  BY <1>0, <1>4, <1>5 DEF IsSum
<1>9. h[m].len \in Nat
  <2>1. h[m] \in Lines
    BY <1>0, <1>4, <1>5
  <2> QED BY <2>1 DEF Lines
<1>10. f[k] \in Nat /\ f[m] \in Nat /\ f[m - 1] \in Nat
  BY <1>0, <1>4, <1>6
<1> QED BY <1>4, <1>7, <1>8, <1>9, <1>10

\* What Bytes returns.
LEMMA BytesIsSum ==
    ASSUME NEW h \in Seq(Lines), NEW f, IsSum(f, h, Len(h))
    PROVE  Bytes(h) = f[Len(h)]
<1>0. Len(h) \in Nat /\ Len(h) \in 0..Len(h)
  OBVIOUS
<1>1. f = [k \in 0..Len(h) |-> IF k = 0 THEN 0 ELSE f[k - 1] + h[k].len]
  <2>1. f = [k \in 0..Len(h) |-> f[k]]
    BY DEF IsSum
  <2>2. \A k \in 0..Len(h) : f[k] = IF k = 0 THEN 0 ELSE f[k - 1] + h[k].len
    BY <1>0 DEF IsSum
  <2> QED BY <2>1, <2>2
<1>2. PICK g : g = Sums(h)
  OBVIOUS
<1>3. g = [k \in 0..Len(h) |-> IF k = 0 THEN 0 ELSE g[k - 1] + h[k].len]
  BY <1>1, <1>2 DEF Sums
<1> DEFINE T == {m \in 0..Len(h) : f[m] # g[m]}
<1>4. SUFFICES ASSUME T # {} PROVE FALSE
  BY <1>0, <1>2 DEF Bytes
<1>5. T \subseteq Nat
  BY <1>0
<1>6. PICK m \in T : \A y \in T : m <= y
  BY <1>4, <1>5, Least
<1>7. m \in 0..Len(h) /\ f[m] # g[m]
  BY <1>6
<1>8. g[m] = IF m = 0 THEN 0 ELSE g[m - 1] + h[m].len
  BY <1>3, <1>7
<1>9. f[m] = IF m = 0 THEN 0 ELSE f[m - 1] + h[m].len
  BY <1>1, <1>7
<1>10. m # 0
  BY <1>7, <1>8, <1>9
<1>11. m - 1 \in 0..Len(h) /\ m - 1 \notin T
  BY <1>0, <1>6, <1>7, <1>10
<1>12. f[m - 1] = g[m - 1]
  BY <1>11
<1> QED BY <1>7, <1>8, <1>9, <1>10, <1>12

\* No lines have no bytes.
LEMMA BytesOfNone == Bytes(<<>>) = 0
<1>1. PICK f : f = [k \in 0..0 |-> 0]
  OBVIOUS
<1>2. <<>> \in Seq(Lines) /\ Len(<<>>) = 0
  OBVIOUS
<1>3. IsSum(f, <<>>, Len(<<>>))
  BY <1>1, <1>2 DEF IsSum
<1>4. Bytes(<<>>) = f[Len(<<>>)]
  BY <1>2, <1>3, BytesIsSum
<1> QED BY <1>1, <1>2, <1>4

\* The first k lines.
LEMMA PrefixFacts ==
    ASSUME NEW h \in Seq(Lines), NEW k \in 0..Len(h)
    PROVE  LET p == SubSeq(h, 1, k)
           IN  /\ p \in Seq(Lines) /\ Len(p) = k
               /\ \A j \in 1..k : p[j] = h[j]
OBVIOUS

\* The lines from k + 1 on.
LEMMA SuffixFacts ==
    ASSUME NEW h \in Seq(Lines), NEW k \in 0..Len(h)
    PROVE  LET p == SubSeq(h, k + 1, Len(h))
               n == Len(h) - k
           IN  /\ p \in Seq(Lines) /\ Len(p) = n /\ n \in Nat
               /\ \A j \in 1..n : p[j] = h[k + j]
<1>1. PICK n \in Nat : n = Len(h) - k
  <2>1. Len(h) \in Nat /\ k \in Nat /\ k <= Len(h)
    OBVIOUS
  <2>2. Len(h) - k \in Nat
    BY <2>1
  <2> QED BY <2>2
<1>2. PICK p : p = SubSeq(h, k + 1, Len(h))
  OBVIOUS
<1>3. p \in Seq(Lines)
  BY <1>2
<1>4. Len(p) = n
  BY <1>1, <1>2
<1>5. ASSUME NEW j \in 1..n PROVE p[j] = h[k + j]
  BY <1>1, <1>2
<1> QED BY <1>1, <1>2, <1>3, <1>4, <1>5

\* The lines from k + 1 on, and one more.
LEMMA RestFacts ==
    ASSUME NEW h \in Seq(Lines), NEW k \in 0..Len(h), NEW x \in Lines
    PROVE  LET q == Append(SubSeq(h, k + 1, Len(h)), x)
               n == Len(h) - k
           IN  /\ q \in Seq(Lines) /\ Len(q) = n + 1 /\ n \in Nat
               /\ q[n + 1] = x /\ \A j \in 1..n : q[j] = h[k + j]
<1>1. PICK n : n = Len(h) - k
  OBVIOUS
<1>2. PICK p : p = SubSeq(h, k + 1, Len(h))
  OBVIOUS
<1>3. p \in Seq(Lines) /\ Len(p) = n /\ n \in Nat /\ \A j \in 1..n : p[j] = h[k + j]
  BY <1>1, <1>2, SuffixFacts
<1>4. PICK q : q = Append(p, x)
  OBVIOUS
<1>5. q \in Seq(Lines) /\ Len(q) = n + 1 /\ q[n + 1] = x /\ \A j \in 1..n : q[j] = p[j]
  BY <1>3, <1>4
<1> QED BY <1>1, <1>2, <1>3, <1>4, <1>5

\* The bytes that are left and a new line.
LEMMA BytesMoved ==
    ASSUME NEW h \in Seq(Lines), NEW k \in 0..Len(h), NEW x \in Lines
    PROVE  /\ Bytes(h) \in Nat /\ Bytes(SubSeq(h, 1, k)) \in Nat
           /\ Bytes(SubSeq(h, 1, k)) <= Bytes(h)
           /\ k = Len(h) => Bytes(SubSeq(h, 1, k)) = Bytes(h)
           /\ Bytes(Append(SubSeq(h, k + 1, Len(h)), x))
                  = Bytes(h) - Bytes(SubSeq(h, 1, k)) + x.len
<1>0. PICK n \in Nat : n = Len(h)
  OBVIOUS
<1>1. PICK f : IsSum(f, h, n)
  BY <1>0, SumExists
<1>2. f \in [0..n -> Nat] /\ f[0] = 0 /\ \A j \in 1..n : f[j] = f[j - 1] + h[j].len
  BY <1>1 DEF IsSum
<1>3. Bytes(h) = f[n]
  BY <1>0, <1>1, BytesIsSum
<1>4. \A j \in 0..n : k <= j => f[k] <= f[j]
  BY <1>0, <1>1, SumGrows
<1>5. Bytes(SubSeq(h, 1, k)) = f[k]
  <2>1. PICK p : p = SubSeq(h, 1, k)
    OBVIOUS
  <2>2. p \in Seq(Lines) /\ Len(p) = k /\ \A j \in 1..k : p[j] = h[j]
    BY <2>1, PrefixFacts
  <2>3. PICK g : g = [j \in 0..k |-> f[j]]
    OBVIOUS
  <2>4. g \in [0..k -> Nat] /\ g[0] = 0 /\ g[k] = f[k]
    BY <1>0, <1>2, <2>3
  <2>5. \A j \in 1..k : g[j] = g[j - 1] + p[j].len
    BY <1>0, <1>2, <2>2, <2>3
  <2>6. IsSum(g, p, Len(p))
    BY <2>2, <2>4, <2>5 DEF IsSum
  <2>7. Bytes(p) = g[Len(p)]
    BY <2>2, <2>6, BytesIsSum
  <2> QED BY <2>1, <2>2, <2>4, <2>7
<1>6. Bytes(Append(SubSeq(h, k + 1, Len(h)), x)) = f[n] - f[k] + x.len
  <2>1. PICK q : q = Append(SubSeq(h, k + 1, Len(h)), x)
    OBVIOUS
  <2>2. PICK m \in Nat : m = n - k
    <3>1. k \in Nat /\ k <= n
      BY <1>0
    <3>2. n - k \in Nat
      BY <3>1
    <3> QED BY <3>2
  <2>3. /\ q \in Seq(Lines) /\ Len(q) = m + 1 /\ q[m + 1] = x
        /\ \A j \in 1..m : q[j] = h[k + j]
    BY <1>0, <2>1, <2>2, RestFacts
  <2>4. x.len \in Nat /\ k \in Nat /\ f[k] \in Nat /\ f[n] \in Nat /\ f[k] <= f[n]
    <3>1. k \in 0..n /\ n \in 0..n /\ k <= n /\ k \in Nat
      BY <1>0
    <3>2. f[k] \in Nat /\ f[n] \in Nat /\ f[k] <= f[n]
      BY <1>2, <1>4, <3>1
    <3>3. x.len \in Nat
      BY DEF Lines
    <3> QED BY <3>1, <3>2, <3>3
  <2>5. PICK g : g = [j \in 0..(m + 1) |->
                         IF j = m + 1 THEN f[n] - f[k] + x.len ELSE f[k + j] - f[k]]
    OBVIOUS
  <2>6. \A j \in 0..m : k + j \in 0..n /\ f[k + j] \in Nat /\ f[k] <= f[k + j]
    BY <1>0, <1>2, <1>4, <2>2, <2>4
  <2>7. g \in [0..(m + 1) -> Nat]
    <3>1. ASSUME NEW j \in 0..(m + 1)
          PROVE  (IF j = m + 1 THEN f[n] - f[k] + x.len ELSE f[k + j] - f[k]) \in Nat
      <4>1. CASE j = m + 1
        BY <2>4, <4>1
      <4>2. CASE j # m + 1
        <5>1. j \in 0..m
          BY <4>2
        <5>2. f[k + j] \in Nat /\ f[k] <= f[k + j]
          BY <2>6, <5>1
        <5> QED BY <2>4, <4>2, <5>2
      <4> QED BY <4>1, <4>2
    <3> QED BY <2>5, <3>1
  <2>8. g[0] = 0
    <3>1. g[0] = f[k + 0] - f[k]
      BY <2>5
    <3> QED BY <2>4, <3>1
  <2>9. ASSUME NEW j \in 1..(m + 1) PROVE g[j] = g[j - 1] + q[j].len
    <3>1. CASE j = m + 1
      <4>1. g[j] = f[n] - f[k] + x.len
        BY <2>5, <3>1
      <4>2. g[j - 1] = f[k + m] - f[k] /\ k + m = n
        BY <1>0, <2>2, <2>5, <3>1
      <4> QED BY <2>3, <3>1, <4>1, <4>2
    <3>2. CASE j # m + 1
      <4>1. /\ j \in 1..m /\ j - 1 \in 0..m /\ j - 1 # m + 1
            /\ j \in 0..(m + 1) /\ j - 1 \in 0..(m + 1)
        BY <3>2
      <4>2. g[j] = f[k + j] - f[k] /\ g[j - 1] = f[k + (j - 1)] - f[k]
        BY <2>5, <3>2, <4>1
      <4>3. k + j \in 1..n /\ k + (j - 1) = (k + j) - 1
        BY <1>0, <2>2, <4>1
      <4>4. f[k + j] = f[k + (j - 1)] + h[k + j].len
        BY <1>2, <4>3
      <4>5. q[j] = h[k + j]
        BY <2>3, <4>1
      <4>6. h[k + j].len \in Nat
        <5>1. h[k + j] \in Lines
          BY <1>0, <4>3
        <5> QED BY <5>1 DEF Lines
      <4>7. f[k + (j - 1)] \in Nat
        BY <2>6, <4>1
      <4> QED BY <2>4, <4>2, <4>4, <4>5, <4>6, <4>7
    <3> QED BY <3>1, <3>2
  <2>10. IsSum(g, q, Len(q))
    BY <2>3, <2>7, <2>8, <2>9 DEF IsSum
  <2>11. Bytes(q) = g[m + 1]
    BY <2>3, <2>10, BytesIsSum
  <2>12. g[m + 1] = f[n] - f[k] + x.len
    BY <2>5
  <2> QED BY <2>1, <2>11, <2>12
<1>7. f[n] \in Nat /\ f[k] \in Nat /\ f[k] <= f[n]
  BY <1>0, <1>2, <1>4
<1> QED BY <1>0, <1>3, <1>5, <1>6, <1>7

\* The eviction loop stops within the history, when there is room or when
\* nothing is left.
LEMMA EvictedFacts ==
    ASSUME NEW b, b.history \in Seq(Lines)
    PROVE  /\ Evicted(b) \in 0..Len(b.history)
           /\ \/ Evicted(b) = Len(b.history)
              \/ /\ Len(b.history) - Evicted(b) < MaxLines
                 /\ Saturating(b.current_bytes - Bytes(SubSeq(b.history, 1, Evicted(b))))
                       < MaxBytes
<1> DEFINE h == b.history
           Room(k) == /\ Len(h) - k < MaxLines
                      /\ Saturating(b.current_bytes - Bytes(SubSeq(h, 1, k))) < MaxBytes
           stops == {k \in 0..Len(h) : k = Len(h) \/ Room(k)}
<1>1. Len(h) \in Nat
  OBVIOUS
<1>2. stops \subseteq Nat /\ Len(h) \in stops
  BY <1>1
<1>3. \E k \in stops : \A j \in stops : k <= j
  BY <1>2, Least
<1>4. Evicted(b) = CHOOSE k \in stops : \A j \in stops : k <= j
  BY DEF Evicted
<1>5. Evicted(b) \in stops
  BY <1>3, <1>4
<1> QED BY <1>5

\* What write_log does under its locks keeps the history within its bounds.
LEMMA PushFacts ==
    ASSUME NEW b \in Buffers, Bounded(b), NEW len \in Nat, NEW new, new = Push(b, len)
    PROVE  /\ new \in Buffers /\ Bounded(new)
           /\ new.pushed = b.pushed + 1 /\ new.sent = b.sent
           /\ \A j \in 1..Len(new.history) :
                 \/ new.history[j].n = b.pushed + 1
                 \/ \E m \in 1..Len(b.history) : new.history[j].n = b.history[m].n
<1>1. PICK h \in Seq(Lines) : h = b.history
  BY DEF Buffers
<1>2. PICK n \in Nat : n = Len(h)
  OBVIOUS
<1>3. PICK k : k = Evicted(b)
  OBVIOUS
<1>4. /\ k \in 0..n
      /\ \/ k = n
         \/ n - k < MaxLines /\ Saturating(b.current_bytes - Bytes(SubSeq(h, 1, k))) < MaxBytes
  BY <1>1, <1>2, <1>3, EvictedFacts
<1>5. b.pushed \in Nat /\ b.current_bytes \in Nat /\ b.current_bytes = Bytes(h)
  BY <1>1 DEF Buffers, Bounded
<1>6. PICK x \in Lines : x = [n |-> b.pushed + 1, len |-> len]
  <2>1. b.pushed + 1 \in Nat \ {0}
    BY <1>5
  <2>2. [n |-> b.pushed + 1, len |-> len] \in Lines
    BY <2>1 DEF Lines
  <2> QED BY <2>2
<1>7. x.n = b.pushed + 1 /\ x.len = len
  BY <1>6
<1>8. PICK q : q = Append(SubSeq(h, k + 1, Len(h)), x)
  OBVIOUS
<1>9. PICK m \in Nat : m = n - k
  <2>1. k \in Nat /\ k <= n
    BY <1>4
  <2>2. n - k \in Nat
    BY <2>1
  <2> QED BY <2>2
<1>10. /\ q \in Seq(Lines) /\ Len(q) = m + 1 /\ q[m + 1] = x
       /\ \A j \in 1..m : q[j] = h[k + j]
  BY <1>2, <1>4, <1>8, <1>9, RestFacts
<1>11. PICK old : old = Bytes(SubSeq(h, 1, k))
  OBVIOUS
<1>12. /\ old \in Nat /\ old <= b.current_bytes /\ (k = n => old = b.current_bytes)
       /\ Bytes(q) = b.current_bytes - old + len
  BY <1>2, <1>4, <1>5, <1>7, <1>8, <1>11, BytesMoved
<1>13. PICK left \in Nat : left = b.current_bytes - old
  <2>1. b.current_bytes - old \in Nat
    BY <1>5, <1>12
  <2> QED BY <2>1
<1>14. Saturating(b.current_bytes - old) = left
  BY <1>13 DEF Saturating
<1>15. new = [b EXCEPT !.history = q, !.current_bytes = left + len, !.pushed = b.pushed + 1]
  <2>1. new = [b EXCEPT !.history = Append(SubSeq(b.history, k + 1, Len(b.history)),
                                           [n |-> b.pushed + 1, len |-> len]),
                        !.current_bytes =
                            Saturating(b.current_bytes - Bytes(SubSeq(b.history, 1, k))) + len,
                        !.pushed = b.pushed + 1]
    BY <1>3 DEF Push
  <2> QED BY <1>1, <1>6, <1>8, <1>11, <1>14, <2>1
<1>16. /\ new \in Buffers /\ new.history = q /\ new.current_bytes = left + len
       /\ new.pushed = b.pushed + 1 /\ new.sent = b.sent
  <2>1. left + len \in Nat /\ b.pushed + 1 \in Nat
    BY <1>5
  <2> QED BY <1>10, <1>15, <2>1 DEF Buffers
<1>17. \A j \in 1..m : k + j \in 1..n
  BY <1>4, <1>9
<1>18. Bounded(new)
  <2>1. ASSUME NEW j \in 1..(m + 1) PROVE q[j].n = (b.pushed + 1) - (m + 1) + j
    <3>1. CASE j = m + 1
      BY <1>5, <1>7, <1>10, <3>1
    <3>2. CASE j # m + 1
      <4>1. j \in 1..m
        BY <3>2
      <4>2. q[j] = h[k + j] /\ k + j \in 1..n
        BY <1>10, <1>17, <4>1
      <4>3. h[k + j].n = b.pushed - n + (k + j)
        BY <1>1, <1>2, <4>2 DEF Bounded
      <4> QED BY <1>4, <1>5, <1>9, <4>2, <4>3
    <3> QED BY <3>1, <3>2
  <2>2. left + len = Bytes(q)
    BY <1>12, <1>13
  <2>3. m + 1 <= MaxLines
    BY <1>4, <1>9, LimitsAssumption
  <2>4. (left + len) - q[m + 1].len < MaxBytes
    <3>1. left < MaxBytes
      BY <1>4, <1>11, <1>12, <1>13, <1>14, LimitsAssumption
    <3> QED BY <1>7, <1>10, <3>1
  <2> QED BY <1>10, <1>16, <2>1, <2>2, <2>3, <2>4 DEF Bounded
<1>19. ASSUME NEW j \in 1..(m + 1)
       PROVE  q[j].n = b.pushed + 1 \/ \E l \in 1..n : q[j].n = h[l].n
  <2>1. CASE j = m + 1
    BY <1>7, <1>10, <2>1
  <2>2. CASE j # m + 1
    <3>1. j \in 1..m
      BY <2>2
    <3> QED BY <1>10, <1>17, <3>1
  <2> QED BY <2>1, <2>2
<1> QED BY <1>1, <1>2, <1>10, <1>16, <1>18, <1>19

-----------------------------------------------------------------------------
(* Processes, entries and RPCs.                                            *)

\* The part of the types that is about logs.
LogTypes ==
    /\ buffer \in [Insts -> Buffers]
    /\ writing \in [Insts -> SUBSET Nat]
    /\ active \in [Ids -> Insts \cup {None}]
    /\ dead \in [Ids -> [inst : Insts, history : Seq(Lines)] \cup {None}]

Serving(op, pc, id, i) ==
    [Idle EXCEPT !.op = op, !.pc = pc, !.id = id, !.inst = i]

Moved(r, pc) == [r EXCEPT !.pc = pc]

\* The records of an RPC that has not begun and of one that has returned.
LEMMA IdleType ==
    /\ Idle \in Call /\ Idle.pc = "idle" /\ Idle.inst = None
    /\ Idle.tail = <<>> /\ Idle.live = <<>> /\ Idle.open = {}
    /\ Done \in Call /\ Done.pc = "done" /\ Done.inst = None
    /\ Done.tail = <<>> /\ Done.live = <<>>
<1>1. <<>> \in Seq(StreamLine) /\ {} \in SUBSET StreamLine
  OBVIOUS
<1>2. [next |-> 1, lagged |-> FALSE] \in [next : Nat \ {0}, lagged : BOOLEAN]
  OBVIOUS
<1>3. Idle \in Call
  BY <1>1, <1>2 DEF Idle, Call
<1>4. Done \in Call /\ Done.pc = "done"
  BY <1>3 DEF Done, Call
<1> QED BY <1>3, <1>4 DEF Idle, Done

\* The record of an RPC about a worker.
LEMMA ServingType ==
    ASSUME NEW op \in {"stop", "probe", "invoke"}, NEW pc \in WorkerPcs,
           NEW id \in Ids, NEW i \in Insts
    PROVE  LET new == Serving(op, pc, id, i)
           IN  /\ new \in Call /\ new.pc = pc /\ new.id = id /\ new.inst = i
               /\ new.tail = <<>> /\ new.live = <<>>
<1>1. Idle \in Call /\ Idle.tail = <<>> /\ Idle.live = <<>>
  BY IdleType
<1> QED BY <1>1 DEF Serving, Call, WorkerPcs

\* The record of an RPC at another position.
LEMMA MovedType ==
    ASSUME NEW r \in Call, NEW pc \in WorkerPcs
    PROVE  LET new == Moved(r, pc)
           IN  /\ new \in Call /\ new.pc = pc /\ new.id = r.id /\ new.inst = r.inst
               /\ new.tail = r.tail /\ new.live = r.live
BY DEF Moved, Call, WorkerPcs

ProcType == [Insts -> {"none", "up", "killed", "exited"}]

\* What dropping does to processes.
LEMMA DropFacts ==
    ASSUME NEW map, NEW calls, NEW procs \in ProcType, NEW new, new = Drop(map, calls, procs)
    PROVE  /\ new \in ProcType
           /\ \A i \in Insts : new[i] = procs[i] \/ Ends(procs[i], new[i])
           /\ \A i \in Insts : new[i] = "up" => i \in Referenced(map, calls)
<1>1. new = [i \in Insts |-> IF i \in Referenced(map, calls) \/ procs[i] = "none" THEN procs[i]
                            ELSE "exited"]
  BY DEF Drop
<1> QED BY <1>1 DEF ProcType, Ends

\* A step that starts no instance and keeps what each part says keeps the
\* invariant.
LEMMA ProcKept ==
    ASSUME ProcInv, UNCHANGED <<workers, idOf>>,
           boot' \in [Insts -> Booting \cup {"idle", "ok", "failed"}],
           \A i \in Insts : boot'[i] = "idle" <=> boot[i] = "idle",
           socket' \in [Insts -> BOOLEAN], proc' \in ProcType,
           \A i \in Insts : proc'[i] = proc[i] \/ Ends(proc[i], proc'[i]),
           \A i \in Insts : proc'[i] = "up" => i \in Referenced(workers, call'),
           status' \in [Insts -> {"Unspecified", "Starting", "Running"} \cup Down],
           \A i \in Insts :
               status'[i] = status[i] \/ (boot[i] # "idle" /\ status'[i] # "Unspecified"),
           \A i \in Insts : status'[i] \in Down /\ proc'[i] = "up" =>
                                status[i] \in Down \/ i \in Spared',
           Spared \subseteq Spared', misprobed' \subseteq Insts, unkilled' \subseteq Insts,
           acked' \subseteq Insts,
           \A i \in acked' : i \in acked \/ (boot[i] # "idle" /\
                                               (proc'[i] = "up" => i \in Spared')),
           call' \in [Calls -> Call],
           \A d \in Calls : call'[d] = call[d] \/ Fits(call[d])',
           LogTypes'
    PROVE  ProcInv'
<1>1. TypeOK'
  <2>1. \A i \in Insts : boot'[i] = "idle" <=> status'[i] = "Unspecified"
    BY DEF ProcInv, TypeOK
  <2> QED BY <2>1 DEF ProcInv, TypeOK, LogTypes, ProcType
<1>2. \A i \in Insts : proc'[i] = "none" <=> boot'[i] = "idle"
  BY DEF ProcInv, Entries, Ends
<1>3. Entries'
  <2>1. \A id \in Ids : workers[id] # None => workers[id] \in Insts
    BY DEF ProcInv, TypeOK
  <2>2. \A i \in acked' : i \in Insts /\ boot[i] # "idle"
    BY DEF ProcInv, Entries
  <2> QED BY <1>2, <2>1, <2>2 DEF ProcInv, Entries
<1>4. Held'
  BY DEF Held
<1>5. \A i \in Insts : proc'[i] = "up" => proc[i] = "up"
  BY DEF Ends
<1>6. DownMeansGone'
  BY <1>5 DEF ProcInv, DownMeansGone
<1>7. StopMeansGone'
  BY <1>5 DEF ProcInv, StopMeansGone
<1>8. Placed'
  <2> SUFFICES ASSUME NEW d \in Calls, call'[d] = call[d] PROVE Fits(call[d])'
    BY DEF Placed
  <2>1. Fits(call[d]) /\ call[d] \in Call
    BY DEF ProcInv, Placed, TypeOK
  <2>2. call[d].inst # None => call[d].inst \in Insts
    BY <2>1 DEF Call
  <2>3. call[d].pc = "mark" => call[d].inst \in Insts /\ proc[call[d].inst] = "exited"
    BY <2>1 DEF Fits, WorkerPcs
  <2>4. call[d].pc = "mark" => proc'[call[d].inst] = "exited"
    BY <2>3 DEF Ends
  <2> QED BY <2>1, <2>2, <2>4 DEF Fits
<1> QED BY <1>1, <1>3, <1>4, <1>6, <1>7, <1>8 DEF ProcInv

\* One RPC changes and no process does.
LEMMA RpcKept ==
    ASSUME ProcInv, NEW c \in Calls, NEW new \in Call, call' = [call EXCEPT ![c] = new],
           UNCHANGED <<vmVars, boot, misprobed, unkilled>>, Fits(new),
           call[c].inst = None \/ new.inst = call[c].inst,
           acked' \subseteq Insts,
           \A i \in acked' : i \in acked \/ (boot[i] # "idle" /\
                                               (proc[i] = "up" => i \in Spared)),
           LogTypes'
    PROVE  ProcInv'
<1>0. /\ workers' = workers /\ idOf' = idOf /\ proc' = proc /\ socket' = socket
      /\ status' = status /\ boot' = boot /\ misprobed' = misprobed
      /\ unkilled' = unkilled /\ Spared' = Spared
  BY DEF vmVars, Spared
<1>1. call \in [Calls -> Call] /\ TypeOK
  BY DEF ProcInv, TypeOK
<1>2. /\ call' \in [Calls -> Call] /\ call'[c] = new
      /\ \A d \in Calls \ {c} : call'[d] = call[d]
  BY <1>1
<1>3. \A i \in Insts : i \in Referenced(workers, call) => i \in Referenced(workers, call')
  <2>1. ASSUME NEW i \in Insts, NEW d \in Calls, call[d].inst = i
        PROVE  \E e \in Calls : call'[e].inst = i
    <3>1. CASE d = c
      <4>1. i # None
        BY WorkerdAssumption
      <4> QED BY <1>2, <2>1, <3>1, <4>1
    <3>2. CASE d # c
      BY <1>2, <2>1, <3>2
    <3> QED BY <3>1, <3>2
  <2> QED BY <2>1 DEF Referenced
<1>4. \A i \in Insts : proc'[i] = "up" => i \in Referenced(workers, call')
  BY <1>0, <1>3 DEF ProcInv, Held
<1>5. \A d \in Calls : call'[d] = call[d] \/ Fits(call[d])'
  <2>1. Fits(call[c])'
    BY <1>0, <1>2 DEF Fits
  <2> QED BY <1>2, <2>1
<1>6. /\ boot' \in [Insts -> Booting \cup {"idle", "ok", "failed"}]
      /\ socket' \in [Insts -> BOOLEAN] /\ proc' \in ProcType
      /\ status' \in [Insts -> {"Unspecified", "Starting", "Running"} \cup Down]
      /\ misprobed' \subseteq Insts /\ unkilled' \subseteq Insts
  BY <1>0, <1>1 DEF TypeOK, ProcType
<1>7. \A i \in Insts : /\ boot'[i] = "idle" <=> boot[i] = "idle"
                       /\ proc'[i] = proc[i] /\ status'[i] = status[i]
                       /\ status'[i] \in Down => status[i] \in Down
  BY <1>0
<1>8. \A i \in acked' : i \in acked \/ (boot[i] # "idle" /\
                                           (proc'[i] = "up" => i \in Spared'))
  BY <1>0
<1> QED BY <1>0, <1>2, <1>4, <1>5, <1>6, <1>7, <1>8, ProcKept

\* The RPCs and the processes after one RPC returns.
LEMMA ReturnFacts ==
    ASSUME ProcInv, NEW c \in Calls, Return(c)
    PROVE  /\ call' \in [Calls -> Call] /\ call'[c] = Done
           /\ \A d \in Calls \ {c} : call'[d] = call[d]
           /\ \A d \in Calls : call'[d] = call[d] \/ Fits(call[d])'
           /\ proc' \in ProcType /\ socket' \in [Insts -> BOOLEAN]
           /\ \A i \in Insts : proc'[i] = proc[i] \/ Ends(proc[i], proc'[i])
           /\ \A i \in Insts : proc'[i] = "up" => i \in Referenced(workers, call')
<1>1. call \in [Calls -> Call] /\ proc \in ProcType /\ socket \in [Insts -> BOOLEAN]
  BY DEF ProcInv, TypeOK, ProcType
<1>2. /\ call' \in [Calls -> Call] /\ call'[c] = Done
      /\ \A d \in Calls \ {c} : call'[d] = call[d]
  BY <1>1, IdleType DEF Return
<1>3. Fits(call[c])'
  <2>1. Done.pc = "done" /\ Done.inst = None
    BY IdleType
  <2> QED BY <1>2, <2>1 DEF Fits, WorkerPcs, StreamPcs
<1>4. proc' = Drop(workers, call', proc)
  BY DEF Return
<1>5. /\ proc' \in ProcType
      /\ \A i \in Insts : proc'[i] = proc[i] \/ Ends(proc[i], proc'[i])
      /\ \A i \in Insts : proc'[i] = "up" => i \in Referenced(workers, call')
  BY <1>1, <1>4, DropFacts
<1>6. socket' \in [Insts -> BOOLEAN]
  BY <1>1 DEF Return, DropFiles
<1> QED BY <1>2, <1>3, <1>5, <1>6

\* The entry that a start_worker watches.
LEMMA Watched ==
    ASSUME ProcInv, NEW i \in Insts, boot[i] # "idle"
    PROVE  workers[idOf[i]] \in Insts /\ boot[workers[idOf[i]]] # "idle"
BY DEF ProcInv, Entries, TypeOK

\* The turns of start_worker's loop, and what processes do.
LEMMA BootProc ==
    ASSUME ProcInv, NEW i \in Insts,
           StartStep(i) \/ StartCancelled(i) \/ Listen(i) \/ Exit(i) \/ Die(i)
    PROVE  ProcInv'
<1>0. /\ TypeOK /\ Held /\ workers' = workers /\ idOf' = idOf /\ call' = call /\ acked' = acked
      /\ misprobed' = misprobed /\ UNCHANGED logVars
  BY DEF ProcInv, StartStep, StartCheck, StartTimeout, StartKilled, StartSettle, StartCancelled,
         Listen, Exit, Die, vmVars, auxVars
<1>1. /\ LogTypes' /\ call' \in [Calls -> Call]
      /\ misprobed' \subseteq Insts /\ acked' \subseteq Insts
  BY <1>0 DEF TypeOK, LogTypes, logVars
<1>2. SUFFICES
        /\ boot' \in [Insts -> Booting \cup {"idle", "ok", "failed"}]
        /\ \A k \in Insts : boot'[k] = "idle" <=> boot[k] = "idle"
        /\ socket' \in [Insts -> BOOLEAN] /\ proc' \in ProcType
        /\ \A k \in Insts : proc'[k] = proc[k] \/ Ends(proc[k], proc'[k])
        /\ status' \in [Insts -> {"Unspecified", "Starting", "Running"} \cup Down]
        /\ \A k \in Insts :
              status'[k] = status[k] \/ (boot[k] # "idle" /\ status'[k] # "Unspecified")
        /\ unkilled \subseteq unkilled' /\ unkilled' \subseteq Insts
        /\ \A k \in Insts : status'[k] \in Down /\ proc'[k] = "up" =>
                                 status[k] \in Down \/ k \in unkilled'
  <2>1. \A k \in Insts : proc'[k] = "up" => k \in Referenced(workers, call')
    BY <1>0, <1>2 DEF Held, Ends
  <2>2. \A k \in acked' : k \in acked
    BY <1>0
  <2>3. /\ Spared \subseteq Spared'
        /\ \A k \in Insts : status'[k] \in Down /\ proc'[k] = "up" =>
                                 status[k] \in Down \/ k \in Spared'
    BY <1>0, <1>2 DEF Spared
  <2> QED BY <1>0, <1>1, <1>2, <2>1, <2>2, <2>3, ProcKept
<1>3. CASE StartCancelled(i) \/ Listen(i) \/ Exit(i) \/ Die(i) \/ StartKilled(i)
  <2>1. unkilled' = unkilled /\ unkilled \subseteq Insts /\ status' = status
    BY <1>0, <1>3 DEF StartCancelled, Listen, Exit, Die, StartKilled, TypeOK, vmVars, auxVars
  <2>2. CASE StartCancelled(i) \/ StartKilled(i)
    BY <1>0, <2>1, <2>2 DEF StartCancelled, StartKilled, TypeOK, ProcType, Booting, vmVars
  <2>3. CASE Listen(i)
    BY <1>0, <2>1, <2>3 DEF Listen, TypeOK, ProcType
  <2>4. CASE Exit(i) \/ Die(i)
    BY <1>0, <2>1, <2>4 DEF Exit, Die, TypeOK, ProcType, Ends
  <2> QED BY <1>3, <2>2, <2>3, <2>4
<1>4. CASE StartStep(i)
  <2>1. PICK j \in Insts : j = workers[idOf[i]] /\ boot[j] # "idle" /\ boot[i] # "idle"
    BY <1>4, Watched DEF StartStep, StartCheck, StartTimeout, StartKilled, StartSettle
  <2>2. CASE StartCheck(i)
    <3>1. unkilled' = unkilled /\ unkilled \subseteq Insts
      BY <1>0, <2>2 DEF StartCheck, TypeOK, auxVars
    <3> QED BY <1>0, <2>1, <2>2, <3>1 DEF StartCheck, TypeOK, ProcType, Booting, Down
  <2>3. CASE StartTimeout(i)
    <3>1. proc[j] \in {"up", "killed", "exited"} /\ unkilled \subseteq Insts
      BY <1>0, <2>1 DEF ProcInv, Entries, TypeOK
    <3>2. PICK b \in {"killing", "failed"} : boot' = [boot EXCEPT ![i] = b]
      BY <2>3 DEF StartTimeout
    <3>3. /\ boot' \in [Insts -> Booting \cup {"idle", "ok", "failed"}]
          /\ socket' = socket /\ socket' \in [Insts -> BOOLEAN]
          /\ \A k \in Insts : boot'[k] = "idle" <=> boot[k] = "idle"
      BY <1>0, <2>1, <2>3, <3>2 DEF StartTimeout, TypeOK, Booting
    <3>4. CASE status[j] # "Starting"
      <4>1. status' = status /\ proc' = proc /\ unkilled' = unkilled
        BY <2>1, <2>3, <3>4 DEF StartTimeout
      <4> QED BY <1>0, <3>1, <3>3, <4>1 DEF TypeOK, ProcType
    <3>5. CASE status[j] = "Starting"
      <4>1. /\ status' = [status EXCEPT ![j] = "Error"]
            /\ \/ /\ proc' = [proc EXCEPT ![j] = IF @ = "up" THEN "killed" ELSE @]
                  /\ unkilled' = unkilled
               \/ proc' = proc /\ unkilled' = unkilled \cup {j}
        BY <2>1, <2>3, <3>5 DEF StartTimeout
      <4>2. /\ status' \in [Insts -> {"Unspecified", "Starting", "Running"} \cup Down]
            /\ status'[j] = "Error" /\ \A k \in Insts \ {j} : status'[k] = status[k]
        BY <1>0, <4>1 DEF TypeOK, Down
      <4>3. CASE /\ proc' = [proc EXCEPT ![j] = IF @ = "up" THEN "killed" ELSE @]
                 /\ unkilled' = unkilled
        <5>1. /\ proc' \in ProcType /\ proc'[j] \in {"killed", "exited"}
              /\ proc'[j] = proc[j] \/ Ends(proc[j], proc'[j])
              /\ \A k \in Insts \ {j} : proc'[k] = proc[k]
          BY <1>0, <3>1, <4>3 DEF TypeOK, ProcType, Ends
        <5> QED BY <2>1, <3>1, <3>3, <4>2, <4>3, <5>1
      <4>4. CASE proc' = proc /\ unkilled' = unkilled \cup {j}
        <5>1. proc' \in ProcType /\ unkilled' \subseteq Insts
          BY <1>0, <3>1, <4>4 DEF TypeOK, ProcType
        <5> QED BY <2>1, <3>3, <4>2, <4>4, <5>1
      <4> QED BY <4>1, <4>3, <4>4
    <3> QED BY <3>4, <3>5
  <2>4. CASE StartSettle(i)
    <3>1. unkilled' = unkilled /\ unkilled \subseteq Insts
      BY <1>0, <2>4 DEF StartSettle, TypeOK, auxVars
    <3>2. /\ proc' = proc /\ proc \in ProcType
          /\ socket' = socket /\ socket \in [Insts -> BOOLEAN]
      BY <1>0, <2>4 DEF StartSettle, TypeOK, ProcType
    <3>3. PICK b \in {"ok", "failed"} : boot' = [boot EXCEPT ![i] = b]
      BY <2>4 DEF StartSettle
    <3>4. /\ boot' \in [Insts -> Booting \cup {"idle", "ok", "failed"}]
          /\ \A k \in Insts : boot'[k] = "idle" <=> boot[k] = "idle"
      BY <1>0, <2>1, <3>3 DEF TypeOK
    <3>5. PICK s \in {"Starting", "Running"} \cup Down :
            /\ status' = [status EXCEPT ![j] = s]
            /\ s \in Down => status[j] \in Down \/ proc[j] = "exited"
      <4>1. status[j] \in {"Starting", "Running"} \cup Down
        BY <1>0, <2>1 DEF TypeOK
      <4> QED BY <2>1, <2>4, <4>1 DEF StartSettle, Down
    <3>6. /\ status' \in [Insts -> {"Unspecified", "Starting", "Running"} \cup Down]
          /\ status'[j] = s /\ \A k \in Insts \ {j} : status'[k] = status[k]
      BY <1>0, <3>5 DEF TypeOK
    <3> QED BY <2>1, <3>1, <3>2, <3>4, <3>5, <3>6 DEF Down
  <2> QED BY <1>3, <1>4, <2>2, <2>3, <2>4 DEF StartStep
<1> QED BY <1>3, <1>4

\* A new instance takes the entry of its id, and the one that had it loses
\* its process unless an RPC still holds it.
LEMMA SpawnProc ==
    ASSUME ProcInv, NEW i \in Insts, NEW id \in Ids, Spawn(i, id)
    PROVE  ProcInv'
<1>0. TypeOK /\ Entries /\ boot[i] = "idle" /\ proc[i] = "none"
  BY DEF ProcInv, Entries, Spawn, NextInst
<1>1. /\ boot' = [boot EXCEPT ![i] = "loop"] /\ idOf' = [idOf EXCEPT ![i] = id]
      /\ workers' = [workers EXCEPT ![id] = i] /\ status' = [status EXCEPT ![i] = "Starting"]
      /\ active' = [active EXCEPT ![id] = i]
      /\ call' = call /\ buffer' = buffer /\ writing' = writing /\ dead' = dead
      /\ acked' = acked /\ misprobed' = misprobed /\ unkilled' = unkilled
      /\ Spared' = Spared
  BY DEF Spawn, auxVars, Spared
<1>2. PICK procs : procs = [proc EXCEPT ![i] = "up"]
  OBVIOUS
<1>3. procs \in ProcType /\ procs[i] = "up" /\ \A k \in Insts \ {i} : procs[k] = proc[k]
  BY <1>0, <1>2 DEF TypeOK, ProcType
<1>4. proc' = Drop(workers', call, procs) /\ socket' = DropFiles(workers', call)
  BY <1>2 DEF Spawn
<1>5. /\ proc' \in ProcType
      /\ \A k \in Insts : proc'[k] = procs[k] \/ Ends(procs[k], proc'[k])
      /\ \A k \in Insts : proc'[k] = "up" => k \in Referenced(workers', call)
  BY <1>3, <1>4, DropFacts
<1>6. socket' \in [Insts -> BOOLEAN]
  BY <1>0, <1>4 DEF DropFiles, TypeOK
<1>7. /\ workers' \in [Ids -> Insts \cup {None}] /\ workers'[id] = i
      /\ \A x \in Ids \ {id} : workers'[x] = workers[x]
      /\ idOf' \in [Insts -> Ids \cup {None}] /\ idOf'[i] = id
      /\ \A k \in Insts \ {i} : idOf'[k] = idOf[k]
  BY <1>0, <1>1 DEF TypeOK
<1>8. /\ boot' \in [Insts -> Booting \cup {"idle", "ok", "failed"}] /\ boot'[i] = "loop"
      /\ \A k \in Insts \ {i} : boot'[k] = boot[k]
      /\ status' \in [Insts -> {"Unspecified", "Starting", "Running"} \cup Down]
      /\ status'[i] = "Starting" /\ \A k \in Insts \ {i} : status'[k] = status[k]
      /\ active' \in [Ids -> Insts \cup {None}]
  BY <1>0, <1>1 DEF TypeOK, Booting
<1>9. TypeOK'
  <2>1. \A k \in Insts : boot'[k] = "idle" <=> status'[k] = "Unspecified"
    BY <1>0, <1>8 DEF TypeOK
  <2> QED BY <1>0, <1>1, <1>5, <1>6, <1>7, <1>8, <2>1 DEF TypeOK, ProcType
<1>10. Entries'
  <2>1. \A x \in Ids : workers'[x] # None =>
            boot'[workers'[x]] # "idle" /\ idOf'[workers'[x]] = x
    <3> SUFFICES ASSUME NEW x \in Ids, workers'[x] # None
                 PROVE  boot'[workers'[x]] # "idle" /\ idOf'[workers'[x]] = x
      OBVIOUS
    <3>1. CASE x = id
      BY <1>7, <1>8, <3>1
    <3>2. CASE x # id
      <4>1. workers'[x] = workers[x] /\ workers[x] \in Insts
        BY <1>0, <1>7, <3>2 DEF TypeOK
      <4>2. boot[workers[x]] # "idle" /\ idOf[workers[x]] = x
        BY <1>0, <4>1, WorkerdAssumption DEF Entries
      <4>3. workers[x] # i
        BY <1>0, <4>2
      <4> QED BY <1>7, <1>8, <4>1, <4>2, <4>3
    <3> QED BY <3>1, <3>2
  <2>2. \A k \in Insts : boot'[k] # "idle" => idOf'[k] \in Ids /\ workers'[idOf'[k]] # None
    <3> SUFFICES ASSUME NEW k \in Insts, boot'[k] # "idle"
                 PROVE  idOf'[k] \in Ids /\ workers'[idOf'[k]] # None
      OBVIOUS
    <3>1. idOf'[k] \in Ids /\ (idOf'[k] = id \/ workers[idOf'[k]] # None)
      BY <1>0, <1>7, <1>8 DEF Entries
    <3> QED BY <1>7, <3>1, WorkerdAssumption
  <2>3. \A k \in Insts : proc'[k] = "none" <=> boot'[k] = "idle"
    BY <1>0, <1>3, <1>5, <1>8 DEF Entries, Ends
  <2>4. \A k \in acked' : boot'[k] # "idle"
    BY <1>0, <1>1, <1>8 DEF Entries, TypeOK
  <2> QED BY <2>1, <2>2, <2>3, <2>4 DEF Entries
<1>11. Held'
  BY <1>1, <1>5 DEF Held
<1>12. \A k \in Insts \ {i} : proc'[k] = "up" => proc[k] = "up"
  BY <1>3, <1>5 DEF Ends
<1>13. DownMeansGone'
  BY <1>1, <1>8, <1>12 DEF ProcInv, DownMeansGone, Down
<1>14. StopMeansGone'
  <2>1. i \notin acked /\ acked \subseteq Insts
    BY <1>0 DEF Entries, TypeOK
  <2> QED BY <1>1, <1>12, <2>1 DEF ProcInv, StopMeansGone
<1>15. Placed'
  <2> SUFFICES ASSUME NEW d \in Calls PROVE Fits(call[d])'
    BY DEF Placed
  <2>1. Fits(call[d]) /\ call[d] \in Call
    BY DEF ProcInv, Placed, TypeOK
  <2>2. call[d].inst # None => call[d].inst \in Insts \ {i}
    BY <1>0, <2>1 DEF Call, Fits
  <2>3. call[d].inst # None => boot'[call[d].inst] # "idle"
    BY <1>8, <2>1, <2>2 DEF Fits
  <2>4. call[d].pc = "mark" => proc'[call[d].inst] = "exited"
    <3> SUFFICES ASSUME call[d].pc = "mark" PROVE proc'[call[d].inst] = "exited"
      OBVIOUS
    <3>1. call[d].inst \in Insts \ {i} /\ proc[call[d].inst] = "exited"
      BY <2>1, <2>2, WorkerdAssumption DEF Fits, WorkerPcs
    <3> QED BY <1>3, <1>5, <3>1 DEF Ends
  <2> QED BY <1>1, <2>1, <2>3, <2>4 DEF Fits
<1> QED BY <1>9, <1>10, <1>11, <1>13, <1>14, <1>15 DEF ProcInv

\* The entry that an RPC finds.
LEMMA Found ==
    ASSUME ProcInv, NEW id \in Ids, workers[id] # None
    PROVE  workers[id] \in Insts /\ boot[workers[id]] # "idle"
BY DEF ProcInv, Entries, TypeOK

\* The RPCs about workers begin.
LEMMA BeginProc ==
    ASSUME ProcInv, NEW c \in Calls, NEW id \in Ids,
           StopBegin(c, id) \/ ProbeBegin(c, id) \/ InvokeBegin(c, id)
    PROVE  ProcInv'
<1>0. /\ call[c].pc = "idle" /\ workers[id] # None /\ UNCHANGED <<workers, idOf, boot, logVars>>
      /\ proc' = proc /\ socket' = socket /\ misprobed' = misprobed
      /\ unkilled' = unkilled
  BY DEF StopBegin, ProbeBegin, InvokeBegin, NextCall, vmVars, auxVars
<1>1. PICK i \in Insts : i = workers[id] /\ boot[i] # "idle"
  BY <1>0, Found
<1>2. call[c] = Idle /\ call[c].inst = None
  BY <1>0, IdleType DEF ProcInv, Placed, Fits
<1>3. LogTypes' /\ acked \subseteq Insts
  BY <1>0 DEF ProcInv, TypeOK, LogTypes, logVars
<1>4. ASSUME NEW op \in {"stop", "probe", "invoke"}, NEW pc \in WorkerPcs \ {"mark"},
             call' = [call EXCEPT ![c] = Serving(op, pc, id, i)],
             status' = status, acked' = acked
      PROVE  ProcInv'
  <2>1. PICK new : new = Serving(op, pc, id, i)
    OBVIOUS
  <2>2. new \in Call /\ new.pc = pc /\ new.id = id /\ new.inst = i
    BY <1>4, <2>1, ServingType
  <2>3. call' = [call EXCEPT ![c] = new]
    BY <1>4, <2>1
  <2>4. Fits(new)
    BY <1>1, <1>4, <2>2 DEF Fits, WorkerPcs, StreamPcs
  <2>5. UNCHANGED <<vmVars, boot, misprobed, unkilled>>
    BY <1>0, <1>4 DEF vmVars
  <2> QED BY <1>2, <1>3, <1>4, <2>2, <2>3, <2>4, <2>5, RpcKept
<1>5. Done \in Call /\ Fits(Done)
  BY IdleType DEF Fits, WorkerPcs, StreamPcs
<1>6. call \in [Calls -> Call]
  BY DEF ProcInv, TypeOK
<1>7. {"kill", "connect", "sent"} \subseteq WorkerPcs \ {"mark"}
  BY DEF WorkerPcs
<1>8. CASE StopBegin(c, id)
  <2>1. CASE status[i] \notin Down
    <3>1. /\ call' = [call EXCEPT ![c] = Serving("stop", "kill", id, i)]
          /\ acked' = acked /\ status' = status
      BY <1>1, <1>2, <1>8, <2>1, <1>6 DEF StopBegin, vmVars, Serving
    <3> QED BY <1>4, <3>1, <1>7
  <2>2. CASE status[i] \in Down
    <3>1. call' = [call EXCEPT ![c] = Done] /\ acked' = acked \cup {i} /\ status' = status
      BY <1>1, <1>8, <2>2 DEF StopBegin, vmVars
    <3>2. proc[i] = "up" => i \in Spared
      BY <2>2 DEF ProcInv, DownMeansGone
    <3>3. UNCHANGED <<vmVars, boot, misprobed, unkilled>>
      BY <1>0, <3>1 DEF vmVars
    <3>4. /\ acked' \subseteq Insts
          /\ \A k \in acked' :
                k \in acked \/ (boot[k] # "idle" /\ (proc[k] = "up" => k \in Spared))
      BY <1>1, <1>3, <3>1, <3>2
    <3> QED BY <1>2, <1>3, <1>5, <3>1, <3>3, <3>4, RpcKept
  <2> QED BY <2>1, <2>2
<1>9. CASE InvokeBegin(c, id)
  <2>1. /\ call' = [call EXCEPT ![c] = Serving("invoke", "sent", id, i)]
        /\ acked' = acked /\ status' = status
    BY <1>1, <1>2, <1>9, <1>6 DEF InvokeBegin, vmVars, auxVars, Serving
  <2> QED BY <1>4, <2>1, <1>7
<1>10. CASE ProbeBegin(c, id)
  <2>1. CASE proc[i] # "exited"
    <3>1. /\ call' = [call EXCEPT ![c] = Serving("probe", "connect", id, i)]
          /\ acked' = acked /\ status' = status
      BY <1>1, <1>2, <1>10, <2>1, <1>6 DEF ProbeBegin, auxVars, Serving
    <3> QED BY <1>4, <3>1, <1>7
  <2>2. CASE proc[i] = "exited"
    <3>1. /\ call' = [call EXCEPT ![c] = Done] /\ acked' = acked
          /\ status' = [status EXCEPT ![i] = IF @ = "Stopped" THEN @ ELSE "Error"]
      BY <1>1, <1>10, <2>2 DEF ProbeBegin, auxVars
    <3>2. TypeOK /\ Held
      BY DEF ProcInv
    <3>3. /\ call' \in [Calls -> Call] /\ call'[c] = Done
          /\ \A d \in Calls \ {c} : call'[d] = call[d]
      BY <1>5, <3>1, <3>2 DEF TypeOK
    <3>4. \A d \in Calls : call'[d] = call[d] \/ Fits(call[d])'
      <4>1. Fits(call[c])'
        BY <3>3, IdleType DEF Fits, WorkerPcs, StreamPcs
      <4> QED BY <3>3, <4>1
    <3>5. \A k \in Insts : proc'[k] = "up" => k \in Referenced(workers, call')
      <4> SUFFICES ASSUME NEW k \in Insts, proc[k] = "up" PROVE k \in Referenced(workers, call')
        BY <1>0
      <4>1. k \in Referenced(workers, call) /\ k # None
        BY <3>2, WorkerdAssumption DEF Held
      <4>2. CASE \E x \in Ids : k = workers[x]
        BY <4>2 DEF Referenced
      <4>3. ASSUME NEW d \in Calls, k = call[d].inst PROVE k \in Referenced(workers, call')
        <5>1. d # c
          BY <1>2, <4>1, <4>3
        <5>2. call'[d] = call[d]
          BY <3>3, <5>1
        <5> QED BY <4>3, <5>2 DEF Referenced
      <4> QED BY <4>1, <4>2, <4>3 DEF Referenced
    <3>6. /\ status' \in [Insts -> {"Unspecified", "Starting", "Running"} \cup Down]
          /\ status'[i] \in Down /\ \A k \in Insts \ {i} : status'[k] = status[k]
      BY <3>1, <3>2 DEF TypeOK, Down
    <3>7. \A k \in Insts :
              /\ boot'[k] = "idle" <=> boot[k] = "idle"
              /\ proc'[k] = proc[k]
              /\ status'[k] = status[k] \/ (boot[k] # "idle" /\ status'[k] # "Unspecified")
              /\ status'[k] \in Down /\ proc'[k] = "up" => status[k] \in Down
      BY <1>0, <1>1, <2>2, <3>6 DEF Down
    <3>8. /\ boot' \in [Insts -> Booting \cup {"idle", "ok", "failed"}]
          /\ socket' \in [Insts -> BOOLEAN] /\ proc' \in ProcType /\ misprobed' \subseteq Insts
          /\ unkilled' \subseteq Insts /\ Spared \subseteq Spared'
          /\ acked' \subseteq Insts /\ workers' = workers /\ idOf' = idOf
      BY <1>0, <3>1, <3>2 DEF TypeOK, ProcType, Spared
    <3> QED BY <1>0, <1>3, <3>1, <3>3, <3>4, <3>5, <3>6, <3>7, <3>8, ProcKept
  <2> QED BY <2>1, <2>2
<1> QED BY <1>8, <1>9, <1>10

\* stop_worker kills the process before it marks the worker.
LEMMA KillProc ==
    ASSUME ProcInv, NEW c \in Calls, StopKill(c)
    PROVE  ProcInv'
<1>0. /\ call[c].pc = "kill"
      /\ UNCHANGED <<workers, idOf, socket, status, boot, logVars, auxVars>>
  BY DEF StopKill
<1>1. TypeOK /\ Held /\ Fits(call[c]) /\ call[c] \in Call
  BY DEF ProcInv, Placed, TypeOK
<1>2. PICK i \in Insts : i = call[c].inst
  BY <1>0, <1>1 DEF Fits, WorkerPcs
<1>3. boot[i] # "idle" /\ proc[i] \in {"up", "killed", "exited"}
  BY <1>1, <1>2, WorkerdAssumption DEF Fits, ProcInv, Entries, TypeOK
<1>4. PICK new : new = Moved(call[c], "mark")
  OBVIOUS
<1>5. new \in Call /\ new.pc = "mark" /\ new.id = call[c].id /\ new.inst = i
  BY <1>1, <1>2, <1>4, MovedType DEF WorkerPcs
<1>6. /\ call' \in [Calls -> Call] /\ call'[c] = new
      /\ \A d \in Calls \ {c} : call'[d] = call[d]
  <2>1. call' = [call EXCEPT ![c] = new]
    BY <1>4 DEF StopKill, Moved
  <2> QED BY <1>1, <1>5, <2>1 DEF TypeOK
<1>7. proc' \in ProcType /\ proc'[i] = "exited" /\ \A k \in Insts \ {i} : proc'[k] = proc[k]
  BY <1>1, <1>2 DEF StopKill, TypeOK, ProcType
<1>8. \A k \in Insts : proc'[k] = "up" => k \in Referenced(workers, call')
  <2>1. \A d \in Calls : call'[d].inst = call[d].inst
    BY <1>2, <1>5, <1>6
  <2>2. Referenced(workers, call') = Referenced(workers, call)
    BY <2>1 DEF Referenced
  <2> QED BY <1>1, <1>7, <2>2 DEF Held
<1>9. new.id \in Ids
  BY <1>0, <1>1, <1>5 DEF Fits
<1>10. \A d \in Calls : call'[d] = call[d] \/ Fits(call[d])'
  <2>1. Fits(call[c])'
    BY <1>0, <1>3, <1>5, <1>6, <1>7, <1>9 DEF Fits, WorkerPcs, StreamPcs
  <2> QED BY <1>6, <2>1
<1>11. /\ LogTypes' /\ boot' \in [Insts -> Booting \cup {"idle", "ok", "failed"}]
       /\ socket' \in [Insts -> BOOLEAN]
       /\ misprobed' \subseteq Insts /\ unkilled' \subseteq Insts
       /\ acked' \subseteq Insts /\ workers' = workers /\ idOf' = idOf
       /\ status' \in [Insts -> {"Unspecified", "Starting", "Running"} \cup Down]
  BY <1>0, <1>1 DEF TypeOK, LogTypes, logVars, auxVars
<1>12. /\ \A k \in Insts :
              /\ boot'[k] = "idle" <=> boot[k] = "idle"
              /\ proc'[k] = proc[k] \/ Ends(proc[k], proc'[k])
              /\ status'[k] = status[k]
              /\ status'[k] \in Down => status[k] \in Down
       /\ \A k \in acked' : k \in acked
       /\ Spared \subseteq Spared'
  BY <1>0, <1>3, <1>7 DEF auxVars, Ends, Spared
<1> QED BY <1>6, <1>7, <1>8, <1>10, <1>11, <1>12, ProcKept

\* The ends of the RPCs about workers.
LEMMA EndProc ==
    ASSUME ProcInv, NEW c \in Calls, NEW i \in Insts, i = call[c].inst, Return(c),
           UNCHANGED <<workers, idOf, boot>>, LogTypes',
           NEW s \in {"Starting", "Running"} \cup Down, boot[i] # "idle",
           status' = [status EXCEPT ![i] = s] \/ status' = status,
           s \in Down => status[i] \in Down \/ proc'[i] # "up" \/ i \in Spared',
           misprobed' = misprobed \/ misprobed' = misprobed \cup {i}, unkilled' = unkilled,
           acked' = acked \/ (acked' = acked \cup {i} /\ proc'[i] # "up")
    PROVE  ProcInv'
<1>1. /\ call' \in [Calls -> Call] /\ proc' \in ProcType /\ socket' \in [Insts -> BOOLEAN]
      /\ \A d \in Calls : call'[d] = call[d] \/ Fits(call[d])'
      /\ \A k \in Insts : proc'[k] = proc[k] \/ Ends(proc[k], proc'[k])
      /\ \A k \in Insts : proc'[k] = "up" => k \in Referenced(workers, call')
  BY ReturnFacts
<1>2. TypeOK
  BY DEF ProcInv
<1>3. /\ status' \in [Insts -> {"Unspecified", "Starting", "Running"} \cup Down]
      /\ \A k \in Insts \ {i} : status'[k] = status[k]
      /\ status'[i] = status[i] \/ status'[i] = s
  BY <1>2 DEF TypeOK
<1>4. \A k \in Insts : status'[k] = status[k] \/ (boot[k] # "idle" /\ status'[k] # "Unspecified")
  BY <1>3 DEF Down
<1>5. \A k \in Insts : status'[k] \in Down /\ proc'[k] = "up" =>
                            status[k] \in Down \/ k \in Spared'
  BY <1>3
<1>6. /\ Spared \subseteq Spared' /\ misprobed' \subseteq Insts /\ unkilled' \subseteq Insts
      /\ acked' \subseteq Insts
  BY <1>2 DEF TypeOK, Spared
<1>7. \A k \in acked' : k \in acked \/ (boot[k] # "idle" /\ (proc'[k] = "up" => k \in Spared'))
  OBVIOUS
<1>8. /\ boot' \in [Insts -> Booting \cup {"idle", "ok", "failed"}]
      /\ \A k \in Insts : boot'[k] = "idle" <=> boot[k] = "idle"
  BY <1>2 DEF TypeOK
<1> QED BY <1>1, <1>3, <1>4, <1>5, <1>6, <1>7, <1>8, ProcKept

\* stop_worker acknowledges, a probe ends, an invocation ends.
LEMMA ReturnProc ==
    ASSUME ProcInv, NEW c \in Calls,
           \/ StopMark(c) \/ StopKillFails(c)
           \/ ProbeConnect(c) \/ ProbePromote(c) \/ InvokeEnd(c)
    PROVE  ProcInv'
<1>0. call[c].pc \in WorkerPcs /\ UNCHANGED <<workers, idOf, boot, unkilled>>
  BY DEF StopMark, StopKillFails, ProbeConnect, ProbePromote, InvokeEnd, WorkerPcs, auxVars
<1>1. TypeOK /\ Held /\ Fits(call[c]) /\ call[c] \in Call
  BY DEF ProcInv, Placed, TypeOK
<1>2. PICK i \in Insts : i = call[c].inst
  BY <1>0, <1>1 DEF Fits
<1>3. boot[i] # "idle"
  BY <1>1, <1>2, WorkerdAssumption DEF Fits
<1>4. CASE StopMark(c)
  <2>1. proc[i] = "exited" /\ call[c].id \in Ids
    BY <1>1, <1>2, <1>4 DEF Fits, StopMark
  <2>2. /\ Return(c) /\ status' = [status EXCEPT ![i] = "Stopped"]
        /\ acked' = acked \cup {i} /\ misprobed' = misprobed
    BY <1>2, <1>4 DEF StopMark
  <2>3. proc'[i] # "up"
    BY <2>1, <2>2, ReturnFacts DEF Ends
  <2>4. LogTypes'
    <3>1. PICK id \in Ids : id = call[c].id
      BY <2>1
    <3>2. buffer' = buffer /\ writing' = writing
      BY <1>4 DEF StopMark
    <3>3. CASE active[id] # None
      <4>1. /\ dead' = [dead EXCEPT ![id] = [inst |-> active[id],
                                              history |-> buffer[active[id]].history]]
            /\ active' = [active EXCEPT ![id] = None]
        BY <1>4, <3>1, <3>3 DEF StopMark
      <4>2. active[id] \in Insts /\ buffer[active[id]].history \in Seq(Lines)
        BY <1>1, <3>3 DEF TypeOK, Buffers
      <4>3. [inst |-> active[id], history |-> buffer[active[id]].history]
                \in [inst : Insts, history : Seq(Lines)]
        BY <4>2
      <4> QED BY <1>1, <3>2, <4>1, <4>3 DEF TypeOK, LogTypes
    <3>4. CASE active[id] = None
      <4>1. dead' = dead /\ active' = active
        BY <1>4, <3>1, <3>4 DEF StopMark
      <4> QED BY <1>1, <3>2, <4>1 DEF TypeOK, LogTypes
    <3> QED BY <3>3, <3>4
  <2>5. PICK s \in {"Starting", "Running"} \cup Down : s = "Stopped"
    BY DEF Down
  <2>6. status' = [status EXCEPT ![i] = s] \/ status' = status
    BY <2>2, <2>5
  <2>7. s \in Down => status[i] \in Down \/ proc'[i] # "up" \/ i \in Spared'
    BY <2>3
  <2>8. /\ misprobed' = misprobed \/ misprobed' = misprobed \cup {i}
        /\ acked' = acked \/ (acked' = acked \cup {i} /\ proc'[i] # "up")
    BY <2>2, <2>3
  <2>9. Return(c)
    BY <2>2
  <2> QED BY <1>0, <1>2, <1>3, <2>4, <2>6, <2>7, <2>8, <2>9, EndProc
<1>5. ASSUME UNCHANGED <<logVars>> PROVE LogTypes'
  BY <1>1, <1>5 DEF TypeOK, LogTypes, logVars
<1>6. CASE ProbePromote(c)
  <2>1. /\ Return(c) /\ status' = [status EXCEPT ![i] = "Running"]
        /\ acked' = acked /\ misprobed' = misprobed /\ LogTypes'
    BY <1>2, <1>5, <1>6 DEF ProbePromote, auxVars
  <2>2. PICK s \in {"Starting", "Running"} \cup Down : s = "Running"
    OBVIOUS
  <2>3. status' = [status EXCEPT ![i] = s] \/ status' = status
    BY <2>1, <2>2
  <2>4. s \in Down => status[i] \in Down \/ proc'[i] # "up" \/ i \in Spared'
    BY <2>2 DEF Down
  <2>5. /\ misprobed' = misprobed \/ misprobed' = misprobed \cup {i}
        /\ acked' = acked \/ (acked' = acked \cup {i} /\ proc'[i] # "up")
    BY <2>1
  <2>6. Return(c) /\ LogTypes'
    BY <2>1
  <2> QED BY <1>0, <1>2, <1>3, <2>3, <2>4, <2>5, <2>6, EndProc
<1>7. ASSUME Return(c), status' = status, UNCHANGED <<logVars, auxVars>> PROVE ProcInv'
  <2>1. PICK s \in {"Starting", "Running"} \cup Down : s = "Running"
    OBVIOUS
  <2>2. acked' = acked /\ misprobed' = misprobed
    BY <1>7 DEF auxVars
  <2>3. status' = [status EXCEPT ![i] = s] \/ status' = status
    BY <1>7
  <2>4. s \in Down => status[i] \in Down \/ proc'[i] # "up" \/ i \in Spared'
    BY <2>1 DEF Down
  <2>5. /\ misprobed' = misprobed \/ misprobed' = misprobed \cup {i}
        /\ acked' = acked \/ (acked' = acked \cup {i} /\ proc'[i] # "up")
    BY <2>2
  <2>6. LogTypes'
    BY <1>5, <1>7
  <2> QED BY <1>0, <1>2, <1>3, <1>7, <2>3, <2>4, <2>5, <2>6, EndProc
<1>8. CASE InvokeEnd(c) \/ StopKillFails(c)
  BY <1>7, <1>8 DEF InvokeEnd, StopKillFails
<1>9. CASE ProbeConnect(c)
  <2>1. CASE /\ status' = [status EXCEPT ![i] = IF @ = "Starting" THEN @ ELSE "Error"]
             /\ misprobed' = IF proc[i] = "up" /\ status[i] # "Starting"
                             THEN misprobed \cup {i} ELSE misprobed
             /\ Return(c) /\ UNCHANGED <<logVars, acked>>
    <3>1. PICK s \in {"Starting"} \cup Down :
              s = (IF status[i] = "Starting" THEN status[i] ELSE "Error")
      BY DEF Down
    <3>2. status' = [status EXCEPT ![i] = s] \/ status' = status
      BY <2>1, <3>1
    <3>3. s \in Down => status[i] \in Down \/ proc'[i] # "up" \/ i \in Spared'
      <4>1. proc'[i] = "up" => proc[i] = "up"
        BY <2>1, ReturnFacts DEF Ends
      <4> QED BY <2>1, <3>1, <4>1 DEF Down, Spared
    <3>4. /\ misprobed' = misprobed \/ misprobed' = misprobed \cup {i}
          /\ acked' = acked \/ (acked' = acked \cup {i} /\ proc'[i] # "up")
      BY <2>1
    <3>5. LogTypes' /\ Return(c) /\ s \in {"Starting", "Running"} \cup Down
      BY <1>5, <2>1
    <3> QED BY <1>0, <1>2, <1>3, <3>2, <3>3, <3>4, <3>5, EndProc
  <2>2. CASE /\ call' = [call EXCEPT ![c].pc = "promote"]
             /\ UNCHANGED <<vmVars, boot, logVars, auxVars>>
    <3>1. PICK new : new = Moved(call[c], "promote")
      OBVIOUS
    <3>2. new \in Call /\ new.pc = "promote" /\ new.id = call[c].id /\ new.inst = i
      BY <1>1, <1>2, <3>1, MovedType DEF WorkerPcs
    <3>3. Fits(new)
      BY <1>3, <3>2 DEF Fits, WorkerPcs, StreamPcs
    <3>4. call' = [call EXCEPT ![c] = new]
      BY <2>2, <3>1 DEF Moved
    <3>5. /\ UNCHANGED <<vmVars, boot, misprobed, unkilled>>
          /\ acked' = acked /\ acked \subseteq Insts /\ LogTypes'
      BY <1>1, <1>5, <2>2 DEF auxVars, TypeOK
    <3> QED BY <1>2, <3>2, <3>3, <3>4, <3>5, RpcKept
  <2>3. CASE Return(c) /\ status' = status /\ UNCHANGED <<logVars, auxVars>>
    BY <1>7, <2>3
  <2> QED BY <1>2, <1>9, <2>1, <2>2, <2>3 DEF ProbeConnect, vmVars, auxVars
<1> QED BY <1>4, <1>6, <1>8, <1>9

-----------------------------------------------------------------------------
(* Logs and streams.                                                       *)

\* A buffer has forgotten no line.
SeenStays(b, w, new, v) == \A n : Seen(b, w, n) => Seen(new, v, n)

\* The buffer is in order and has lost nothing that was sent or is on its way.
Kept(b, w, new, v) ==
    /\ new \in Buffers /\ v \in SUBSET Nat /\ BufferOK(new, v)
    /\ Len(b.sent) <= Len(new.sent)
    /\ \A p \in 1..Len(b.sent) : new.sent[p] = b.sent[p]
    /\ SeenStays(b, w, new, v)

\* A line is pushed: it is on its way.
LEMMA PushKeeps ==
    ASSUME NEW b \in Buffers, NEW w \in SUBSET Nat, BufferOK(b, w), NEW len \in Nat
    PROVE  Kept(b, w, Push(b, len), w \cup {b.pushed + 1})
<1> DEFINE new == Push(b, len)
           v == w \cup {b.pushed + 1}
<1>0. new = Push(b, len) /\ v = w \cup {b.pushed + 1}
  OBVIOUS
<1> HIDE DEF new, v
<1>1. Bounded(b) /\ b.pushed \in Nat /\ b.sent \in Seq(Nat)
  BY DEF BufferOK, Buffers
<1>2. /\ new \in Buffers /\ Bounded(new) /\ new.pushed = b.pushed + 1 /\ new.sent = b.sent
      /\ \A j \in 1..Len(new.history) :
            \/ new.history[j].n = b.pushed + 1
            \/ \E m \in 1..Len(b.history) : new.history[j].n = b.history[m].n
  BY <1>0, <1>1, PushFacts
<1>3. v \in SUBSET Nat /\ v \subseteq 1..new.pushed
  <2>1. \A n \in w : n \in 1..b.pushed
    BY DEF BufferOK
  <2>2. \A n \in v : n \in 1..(b.pushed + 1)
    BY <1>0, <1>1, <2>1
  <2>3. new.pushed = b.pushed + 1
    BY <1>2
  <2>4. v \in SUBSET Nat
    <3>1. b.pushed + 1 \in Nat
      BY <1>1
    <3> QED BY <1>0, <3>1
  <2>5. v \subseteq 1..new.pushed
    BY <2>2, <2>3
  <2> QED BY <2>4, <2>5
<1>4. SeenStays(b, w, new, v)
  BY <1>0, <1>2 DEF Seen, SeenStays
<1>5. Seen(new, v, b.pushed + 1)
  BY <1>0 DEF Seen
<1>6. \A k \in 1..Len(new.history) : Seen(new, v, new.history[k].n)
  BY <1>2, <1>4, <1>5 DEF BufferOK, SeenStays
<1>7. \A p \in 1..Len(b.sent) : b.sent[p] \in (1..(b.pushed + 1)) \ v
  BY <1>0, <1>1 DEF BufferOK
<1>8. \A p, q \in 1..Len(b.sent) : b.sent[p] = b.sent[q] => p = q
  BY DEF BufferOK
<1>9. BufferOK(new, v)
  BY <1>2, <1>3, <1>6, <1>7, <1>8 DEF BufferOK
<1>10. Len(b.sent) \in Nat
  BY <1>1
<1>11. Kept(b, w, new, v)
  BY <1>2, <1>3, <1>4, <1>9, <1>10 DEF Kept
<1> QED BY <1>0, <1>11

\* A line is broadcast: it was on its way and is now the newest one sent.
LEMMA SendKeeps ==
    ASSUME NEW b \in Buffers, NEW w \in SUBSET Nat, BufferOK(b, w), NEW n \in w
    PROVE  Kept(b, w, Broadcast(b, n), w \ {n})
<1> DEFINE new == Broadcast(b, n)
           v == w \ {n}
<1>0. new = Broadcast(b, n) /\ v = w \ {n}
  OBVIOUS
<1> HIDE DEF new, v
<1>1. PICK s \in Seq(Nat) : s = b.sent
  BY DEF Buffers
<1>2. PICK m \in Nat : m = Len(s)
  OBVIOUS
<1>3. PICK t : t = Append(s, n)
  OBVIOUS
<1>4. t \in Seq(Nat) /\ Len(t) = m + 1 /\ t[m + 1] = n /\ \A p \in 1..m : t[p] = s[p]
  BY <1>2, <1>3
<1>5. /\ new \in Buffers /\ new.sent = t /\ new.history = b.history
      /\ new.pushed = b.pushed /\ new.current_bytes = b.current_bytes
  <2>1. new = [b EXCEPT !.sent = t]
    BY <1>0, <1>1, <1>3 DEF Broadcast
  <2> QED BY <1>4, <2>1 DEF Buffers
<1>6. Bounded(new)
  BY <1>5 DEF BufferOK, Bounded
<1>7. SeenStays(b, w, new, v)
  <2> SUFFICES ASSUME NEW x, Seen(b, w, x) PROVE Seen(new, v, x)
    BY DEF SeenStays
  <2>1. CASE x \in w /\ x # n
    BY <1>0, <2>1 DEF Seen
  <2>2. CASE x = n
    BY <1>4, <1>5, <2>2 DEF Seen
  <2>3. CASE \E p \in 1..Len(b.sent) : b.sent[p] = x
    <3>1. PICK p \in 1..m : s[p] = x
      BY <1>1, <1>2, <2>3
    <3>2. p \in 1..(m + 1) /\ t[p] = x
      BY <1>4, <3>1
    <3> QED BY <1>4, <1>5, <3>2 DEF Seen
  <2> QED BY <2>1, <2>2, <2>3 DEF Seen
<1>8. \A p \in 1..m : s[p] \in (1..b.pushed) \ w
  BY <1>1, <1>2 DEF BufferOK
<1>9. n \in 1..b.pushed
  BY DEF BufferOK
<1>10. \A p \in 1..(m + 1) : t[p] \in (1..b.pushed) \ v
  <2> SUFFICES ASSUME NEW p \in 1..(m + 1) PROVE t[p] \in (1..b.pushed) \ v
    OBVIOUS
  <2>1. CASE p = m + 1
    BY <1>0, <1>4, <1>9, <2>1
  <2>2. CASE p # m + 1
    <3>1. p \in 1..m
      BY <2>2
    <3> QED BY <1>0, <1>4, <1>8, <3>1
  <2> QED BY <2>1, <2>2
<1>11. \A p, q \in 1..(m + 1) : t[p] = t[q] => p = q
  <2>1. \A p, q \in 1..m : s[p] = s[q] => p = q
    BY <1>1, <1>2 DEF BufferOK
  <2>2. \A p \in 1..m : s[p] # n
    BY <1>8
  <2>3. \A p \in 1..(m + 1) : p = m + 1 \/ p \in 1..m
    OBVIOUS
  <2> QED BY <1>4, <2>1, <2>2, <2>3
<1>12. \A k \in 1..Len(new.history) : Seen(new, v, new.history[k].n)
  BY <1>5, <1>7 DEF BufferOK, SeenStays
<1>13. v \subseteq 1..new.pushed
  BY <1>0, <1>5 DEF BufferOK
<1>14. BufferOK(new, v)
  <2>1. Len(new.sent) = m + 1
    BY <1>4, <1>5
  <2>2. \A p \in 1..Len(new.sent) : new.sent[p] \in (1..new.pushed) \ v
    BY <1>5, <1>10, <2>1
  <2>3. \A p, q \in 1..Len(new.sent) : new.sent[p] = new.sent[q] => p = q
    BY <1>5, <1>11, <2>1
  <2> QED BY <1>6, <1>12, <1>13, <2>2, <2>3 DEF BufferOK
<1>15. v \in SUBSET Nat
  BY <1>0
<1>16. Kept(b, w, new, v)
  BY <1>1, <1>2, <1>4, <1>5, <1>7, <1>14, <1>15 DEF Kept
<1> QED BY <1>0, <1>16

\* More lines have been sent, and no line has been forgotten.
Grown(old, ws, new, vs) ==
    \A i \in Insts :
        /\ Len(old[i].sent) <= Len(new[i].sent)
        /\ \A p \in 1..Len(old[i].sent) : new[i].sent[p] = old[i].sent[p]
        /\ SeenStays(old[i], ws[i], new[i], vs[i])

\* The history of a dead worker, when more lines are sent.
LEMMA DeadKept ==
    ASSUME NEW old, NEW ws, NEW new, NEW vs, Grown(old, ws, new, vs),
           NEW d \in [inst : Insts, history : Seq(Lines)] \cup {None}, DeadOK(d, old, ws)
    PROVE  DeadOK(d, new, vs)
<1> SUFFICES ASSUME d # None, NEW k \in 1..Len(d.history)
             PROVE  Seen(new[d.inst], vs[d.inst], d.history[k].n)
  BY DEF DeadOK
<1>1. d.inst \in Insts
  OBVIOUS
<1>2. Seen(old[d.inst], ws[d.inst], d.history[k].n)
  BY DEF DeadOK
<1> QED BY <1>1, <1>2 DEF Grown, SeenStays

\* A line that was among the first m sent still is.
LEMMA SentKept ==
    ASSUME NEW old \in [Insts -> Buffers], NEW ws, NEW new, NEW vs, Grown(old, ws, new, vs),
           NEW line, line[1] \in Insts, NEW m \in Nat, m <= Len(old[line[1]].sent),
           SentBefore(line, m, old)
    PROVE  SentBefore(line, m, new)
<1>1. PICK p \in 1..m : line[2] = old[line[1]].sent[p]
  BY DEF SentBefore
<1>2. Len(old[line[1]].sent) \in Nat
  BY DEF Buffers
<1>3. p \in 1..Len(old[line[1]].sent)
  BY <1>2
<1>4. new[line[1]].sent[p] = old[line[1]].sent[p]
  BY <1>3 DEF Grown
<1> QED BY <1>1, <1>4 DEF SentBefore

\* It is among more of them, too.
LEMMA SentMore ==
    ASSUME NEW buffers, NEW line, NEW m \in Nat, NEW l \in Nat, m <= l,
           SentBefore(line, m, buffers)
    PROVE  SentBefore(line, l, buffers)
<1>1. PICK p \in 1..m : line[2] = buffers[line[1]].sent[p]
  BY DEF SentBefore
<1>2. p \in 1..l
  OBVIOUS
<1> QED BY <1>1, <1>2 DEF SentBefore

\* The fields of a stream's record.
LEMMA StreamFields ==
    ASSUME NEW r \in Call
    PROVE  /\ Len(r.tail) \in Nat /\ \A k \in 1..Len(r.tail) : r.tail[k] \in StreamLine
           /\ Len(r.live) \in Nat /\ \A k \in 1..Len(r.live) : r.live[k] \in StreamLine
           /\ r.streamer.next \in Nat /\ r.streamer.next - 1 \in Nat
           /\ r.begin \in Nat \ {0} /\ r.skipped \subseteq Nat
<1>1. r.tail \in Seq(StreamLine) /\ r.live \in Seq(StreamLine)
  BY DEF Call
<1>2. r.streamer \in [next : Nat \ {0}, lagged : BOOLEAN]
  BY DEF Call
<1>3. r.streamer.next \in Nat \ {0}
  BY <1>2
<1>4. r.begin \in Nat \ {0} /\ r.skipped \subseteq Nat
  BY DEF Call
<1> QED BY <1>1, <1>3, <1>4

\* What a stream relies on, when more lines are sent.
LEMMA StreamKept ==
    ASSUME NEW old \in [Insts -> Buffers], NEW ws, NEW new \in [Insts -> Buffers], NEW vs,
           Grown(old, ws, new, vs), NEW r \in Call, StreamPlaced(r, old)
    PROVE  StreamPlaced(r, new)
<1>0. /\ Len(r.tail) \in Nat /\ \A k \in 1..Len(r.tail) : r.tail[k] \in StreamLine
      /\ Len(r.live) \in Nat /\ \A k \in 1..Len(r.live) : r.live[k] \in StreamLine
      /\ r.streamer.next \in Nat /\ r.streamer.next - 1 \in Nat /\ r.begin \in Nat \ {0}
  BY StreamFields
<1>1. \A i \in Insts : /\ Len(old[i].sent) \in Nat /\ Len(new[i].sent) \in Nat
                       /\ Len(old[i].sent) <= Len(new[i].sent)
  BY DEF Grown, Buffers
<1>2. \A line \in StreamLine : line[1] \in Insts
  BY DEF StreamLine
<1>3. CASE r.pc \in {"stuck", "subscribe"}
  <2>1. ASSUME NEW k \in 1..Len(r.tail)
        PROVE  \/ r.tail[k] \in r.open
               \/ SentBefore(r.tail[k], Len(new[r.tail[k][1]].sent), new)
    <3>1. PICK line \in StreamLine : line = r.tail[k]
      BY <1>0
    <3>2. line[1] \in Insts
      BY <1>2
    <3>3. PICK m \in Nat : m = Len(old[line[1]].sent)
      BY <1>1, <3>2
    <3>4. PICK l \in Nat : l = Len(new[line[1]].sent)
      BY <1>1, <3>2
    <3>5. m <= l
      BY <1>1, <3>2, <3>3, <3>4
    <3>6. line \in r.open \/ SentBefore(line, m, old)
      BY <1>3, <3>1, <3>3 DEF StreamPlaced
    <3>7. SentBefore(line, m, old) => SentBefore(line, m, new)
      BY <3>2, <3>3, SentKept
    <3>8. SentBefore(line, m, new) => SentBefore(line, l, new)
      BY <3>5, SentMore
    <3> QED BY <3>1, <3>4, <3>6, <3>7, <3>8
  <2>2. r.live = <<>> /\ r.pc \in StreamPcs /\ r.pc # "follow"
    BY <1>3 DEF StreamPlaced, StreamPcs
  <2> QED BY <1>3, <2>1, <2>2 DEF StreamPlaced
<1>4. CASE r.pc = "follow"
  <2>1. PICK m \in Nat : m = r.streamer.next - 1
    BY <1>0
  <2>2. PICK i \in Insts : i = r.from
    BY <1>4 DEF StreamPlaced
  <2>3. r.streamer.next <= Len(old[i].sent) + 1
    BY <1>4, <2>2 DEF StreamPlaced
  <2>4. m <= Len(old[i].sent) /\ r.streamer.next <= Len(new[i].sent) + 1
    <3>1. PICK k \in Nat : k = Len(old[i].sent)
      BY <1>1
    <3>2. PICK l \in Nat : l = Len(new[i].sent) /\ k <= l
      BY <1>1, <3>1
    <3>3. m + 1 = r.streamer.next /\ m + 1 <= k + 1
      BY <1>0, <2>1, <2>3, <3>1
    <3> QED BY <3>1, <3>2, <3>3
  <2>5. \A line : line[1] = i /\ SentBefore(line, m, old) => SentBefore(line, m, new)
    BY <2>4, SentKept
  <2>6. \A l \in 1..Len(r.live) : r.live[l][1] = i /\ SentBefore(r.live[l], m, new)
    BY <1>4, <2>1, <2>2, <2>5 DEF StreamPlaced
  <2>7. \A k \in 1..Len(r.tail) :
            r.tail[k] \in r.open \/ r.tail[k][1] # i \/ SentBefore(r.tail[k], m, new)
    BY <1>4, <2>1, <2>2, <2>5 DEF StreamPlaced
  <2>8. /\ \A k \in 1..Len(r.tail), l \in 1..Len(r.live) :
              r.tail[k] = r.live[l] => r.live[l] \in r.open
        /\ \A k, l \in 1..Len(r.live) : r.live[k] = r.live[l] => k = l
    BY <1>4 DEF StreamPlaced
  <2>9. Passed(r, new)
    <3> SUFFICES ASSUME NEW p \in r.begin..m
                 PROVE  \/ p \in r.skipped
                        \/ \E l \in 1..Len(r.live) : r.live[l] = <<i, new[i].sent[p]>>
      BY <2>1, <2>2 DEF Passed
    <3>1. \/ p \in r.skipped
          \/ \E l \in 1..Len(r.live) : r.live[l] = <<i, old[i].sent[p]>>
      BY <1>4, <2>1, <2>2 DEF StreamPlaced, Passed
    <3>2. p \in 1..Len(old[i].sent)
      BY <1>0, <1>1, <2>2, <2>4
    <3>3. new[i].sent[p] = old[i].sent[p]
      BY <2>2, <3>2 DEF Grown
    <3> QED BY <3>1, <3>3
  <2> QED BY <1>4, <2>1, <2>2, <2>4, <2>6, <2>7, <2>8, <2>9 DEF StreamPlaced, StreamPcs
<1>5. CASE r.pc \notin StreamPcs
  BY <1>5 DEF StreamPlaced, StreamPcs
<1> QED BY <1>3, <1>4, <1>5 DEF StreamPcs

\* A step that leaves the lines alone keeps what is said of them.
LEMMA LogKept ==
    ASSUME ProcInv, LogInv, UNCHANGED <<buffer, writing>>,
           \A id \in Ids : dead'[id] = dead[id] \/ DeadOK(dead'[id], buffer, writing),
           \A c \in Calls : call'[c] = call[c] \/ StreamPlaced(call'[c], buffer)
    PROVE  LogInv'
<1>1. \A id \in Ids : DeadOK(dead'[id], buffer', writing')
  BY DEF LogInv
<1>2. \A c \in Calls : StreamPlaced(call'[c], buffer')
  BY DEF LogInv
<1>3. \A i \in Insts : BufferOK(buffer'[i], writing'[i])
  BY DEF LogInv
<1> QED BY <1>1, <1>2, <1>3 DEF LogInv

\* What is not a stream leaves no lines behind.
LEMMA NoLines ==
    ASSUME NEW r, r.pc \notin StreamPcs, r.tail = <<>>, r.live = <<>>, NEW buffers
    PROVE  StreamPlaced(r, buffers)
BY DEF StreamPlaced, StreamPcs

\* The logs after the turns of start_worker, and after what processes do.
LEMMA BootLog ==
    ASSUME ProcInv, LogInv, NEW i \in Insts,
           \/ StartStep(i) \/ StartCancelled(i) \/ Listen(i) \/ Exit(i) \/ Die(i)
           \/ \E id \in Ids : Spawn(i, id)
    PROVE  LogInv'
<1>1. UNCHANGED <<call, buffer, writing, dead>>
  BY DEF StartStep, StartCheck, StartTimeout, StartKilled, StartSettle, StartCancelled, Listen,
         Exit, Die, Spawn, logVars
<1> QED BY <1>1, LogKept

\* The logs after a step of an RPC about a worker.
LEMMA WorkerLog ==
    ASSUME ProcInv, LogInv, NEW c \in Calls,
           \/ StopKill(c) \/ StopKillFails(c) \/ StopMark(c)
           \/ ProbeConnect(c) \/ ProbePromote(c) \/ InvokeEnd(c)
           \/ \E id \in Ids : StopBegin(c, id) \/ ProbeBegin(c, id) \/ InvokeBegin(c, id)
    PROVE  LogInv'
<1>1. TypeOK /\ Fits(call[c]) /\ call \in [Calls -> Call] /\ call[c] \in Call
  BY DEF ProcInv, Placed, TypeOK
<1>2. StreamPlaced(call[c], buffer)
  BY DEF LogInv
<1>3. ASSUME NEW new, new.pc \notin StreamPcs, new.tail = <<>>, new.live = <<>>,
             call' = [call EXCEPT ![c] = new], UNCHANGED <<buffer, writing, dead>>
      PROVE  LogInv'
  <2>1. call'[c] = new /\ \A d \in Calls \ {c} : call'[d] = call[d]
    BY <1>1, <1>3
  <2>2. StreamPlaced(new, buffer)
    BY <1>3, NoLines
  <2>3. \A d \in Calls : call'[d] = call[d] \/ StreamPlaced(call'[d], buffer)
    BY <2>1, <2>2
  <2> QED BY <1>3, <2>3, LogKept
<1>4. /\ Done.pc \notin StreamPcs /\ Done.tail = <<>> /\ Done.live = <<>>
      /\ Idle.tail = <<>> /\ Idle.live = <<>>
  BY IdleType DEF StreamPcs
<1>5. ASSUME call' = [call EXCEPT ![c] = Done], UNCHANGED <<buffer, writing, dead>>
      PROVE  LogInv'
  BY <1>3, <1>4, <1>5
<1>6. ASSUME NEW pc \in WorkerPcs, call[c].pc \in WorkerPcs,
             call' = [call EXCEPT ![c].pc = pc], UNCHANGED <<buffer, writing, dead>>
      PROVE  LogInv'
  <2>1. PICK new : new = Moved(call[c], pc)
    OBVIOUS
  <2>2. /\ new.pc = pc /\ new.tail = call[c].tail /\ new.live = call[c].live
    BY <1>1, <2>1, MovedType
  <2>3. new.pc \notin StreamPcs /\ call[c].pc \notin StreamPcs
    BY <1>6, <2>2 DEF WorkerPcs, StreamPcs
  <2>4. new.tail = <<>> /\ new.live = <<>>
    BY <1>2, <2>2, <2>3 DEF StreamPlaced
  <2>5. call' = [call EXCEPT ![c] = new]
    BY <1>6, <2>1 DEF Moved
  <2> QED BY <1>3, <1>6, <2>3, <2>4, <2>5
<1>7. CASE StopKill(c)
  <2>1. /\ call[c].pc = "kill" /\ call' = [call EXCEPT ![c].pc = "mark"]
        /\ UNCHANGED <<buffer, writing, dead>>
    BY <1>7 DEF StopKill, logVars
  <2> QED BY <1>6, <2>1 DEF WorkerPcs
<1>8. CASE ProbePromote(c) \/ InvokeEnd(c) \/ StopKillFails(c)
  BY <1>5, <1>8 DEF ProbePromote, InvokeEnd, StopKillFails, Return, logVars
<1>9. CASE ProbeConnect(c)
  <2>1. call[c].pc = "connect" /\ UNCHANGED <<buffer, writing, dead>>
    BY <1>9 DEF ProbeConnect, logVars
  <2>2. call' = [call EXCEPT ![c] = Done] \/ call' = [call EXCEPT ![c].pc = "promote"]
    BY <1>9 DEF ProbeConnect, Return
  <2> QED BY <1>5, <1>6, <2>1, <2>2 DEF WorkerPcs
<1>10. CASE StopMark(c)
  <2>1. call[c].pc = "mark" /\ UNCHANGED <<buffer, writing>> /\ call' = [call EXCEPT ![c] = Done]
    BY <1>10 DEF StopMark, Return
  <2>2. PICK id \in Ids : id = call[c].id
    BY <1>1, <2>1 DEF Fits
  <2>3. CASE active[id] = None
    <3>1. dead' = dead
      BY <1>10, <2>2, <2>3 DEF StopMark
    <3> QED BY <1>5, <2>1, <3>1
  <2>4. CASE active[id] # None
    <3>1. PICK i \in Insts : i = active[id]
      BY <1>1, <2>4 DEF TypeOK
    <3>2. PICK d : d = [inst |-> i, history |-> buffer[i].history]
      OBVIOUS
    <3>3. dead' = [dead EXCEPT ![id] = d]
      BY <1>10, <2>2, <2>4, <3>1, <3>2 DEF StopMark
    <3>4. DeadOK(d, buffer, writing)
      BY <3>2 DEF DeadOK, LogInv, BufferOK
    <3>5. \A x \in Ids : dead'[x] = dead[x] \/ DeadOK(dead'[x], buffer, writing)
      BY <1>1, <3>3, <3>4 DEF TypeOK
    <3>6. StreamPlaced(Done, buffer)
      BY <1>4, NoLines
    <3>7. \A x \in Calls : call'[x] = call[x] \/ StreamPlaced(call'[x], buffer)
      BY <1>1, <2>1, <3>6
    <3> QED BY <2>1, <3>5, <3>7, LogKept
  <2> QED BY <2>3, <2>4
<1>11. ASSUME NEW id \in Ids, StopBegin(c, id) \/ ProbeBegin(c, id) \/ InvokeBegin(c, id)
       PROVE  LogInv'
  <2>1. call[c].pc = "idle" /\ UNCHANGED <<buffer, writing, dead>> /\ workers[id] # None
    BY <1>11 DEF StopBegin, ProbeBegin, InvokeBegin, NextCall, logVars
  <2>2. call[c] = Idle
    BY <1>1, <2>1 DEF Fits
  <2>3. PICK i \in Insts : i = workers[id]
    BY <2>1, Found
  <2>4. \/ call' = [call EXCEPT ![c] = Done]
        \/ call' = [call EXCEPT ![c] = Serving("stop", "kill", id, i)]
        \/ call' = [call EXCEPT ![c] = Serving("probe", "connect", id, i)]
        \/ call' = [call EXCEPT ![c] = Serving("invoke", "sent", id, i)]
    <3>1. CASE StopBegin(c, id)
      BY <1>1, <2>2, <2>3, <3>1 DEF StopBegin, Serving
    <3>2. CASE ProbeBegin(c, id)
      BY <1>1, <2>2, <2>3, <3>2 DEF ProbeBegin, Serving
    <3>3. CASE InvokeBegin(c, id)
      BY <1>1, <2>2, <2>3, <3>3 DEF InvokeBegin, Serving
    <3> QED BY <1>11, <3>1, <3>2, <3>3
  <2>5. ASSUME NEW op \in {"stop", "probe", "invoke"}, NEW pc \in WorkerPcs,
               call' = [call EXCEPT ![c] = Serving(op, pc, id, i)]
        PROVE  LogInv'
    <3>1. PICK new : new = Serving(op, pc, id, i)
      OBVIOUS
    <3>2. new.pc = pc /\ new.tail = <<>> /\ new.live = <<>>
      BY <3>1, ServingType
    <3>3. new.pc \notin StreamPcs
      BY <3>2 DEF WorkerPcs, StreamPcs
    <3> QED BY <1>3, <2>1, <2>5, <3>1, <3>2, <3>3
  <2>6. {"kill", "connect", "sent"} \subseteq WorkerPcs
    BY DEF WorkerPcs
  <2> QED BY <1>5, <2>1, <2>4, <2>5, <2>6
<1> QED BY <1>7, <1>8, <1>9, <1>10, <1>11

\* get_tail returns lines of the history.
LEMMA TailFacts ==
    ASSUME NEW h \in Seq(Lines), NEW tail \in Nat, NEW lines, lines = GetTail(h, tail)
    PROVE  /\ lines \in Seq(Lines)
           /\ \A k \in 1..Len(lines) : \E m \in 1..Len(h) : lines[k] = h[m]
<1>1. PICK n \in Nat : n = Len(h)
  OBVIOUS
<1>2. PICK take \in 0..n : take = (IF tail = 0 \/ tail > n THEN n ELSE tail)
  OBVIOUS
<1>3. PICK a \in 0..n : a = n - take
  OBVIOUS
<1>4. lines = SubSeq(h, a + 1, Len(h))
  BY <1>1, <1>2, <1>3 DEF GetTail
<1>5. lines \in Seq(Lines) /\ Len(lines) = n - a /\ \A k \in 1..(n - a) : lines[k] = h[a + k]
  BY <1>1, <1>4, SuffixFacts
<1>6. \A k \in 1..(n - a) : a + k \in 1..n
  OBVIOUS
<1> QED BY <1>1, <1>5, <1>6

\* A step of a stream.
LEMMA StreamStep ==
    ASSUME ProcInv, LogInv, NEW c \in Calls, NEW new \in Call, call' = [call EXCEPT ![c] = new],
           UNCHANGED <<vmVars, boot, logVars, auxVars>>, Fits(new), call[c].inst = None,
           StreamPlaced(new, buffer)
    PROVE  ProcInv' /\ LogInv'
<1>1. TypeOK /\ call \in [Calls -> Call]
  BY DEF ProcInv, TypeOK
<1>2. /\ LogTypes' /\ UNCHANGED <<vmVars, boot, misprobed, unkilled>> /\ acked' = acked
      /\ acked \subseteq Insts /\ UNCHANGED <<buffer, writing, dead>>
  BY <1>1 DEF TypeOK, LogTypes, logVars, auxVars
<1>3. \A i \in acked' : i \in acked \/ (boot[i] # "idle" /\ (proc[i] = "up" => i \in Spared))
  BY <1>2
<1>4. ProcInv'
  <2>1. call[c].inst = None \/ new.inst = call[c].inst
    OBVIOUS
  <2> QED BY <1>2, <1>3, <2>1, RpcKept
<1>5. \A d \in Calls : call'[d] = call[d] \/ StreamPlaced(call'[d], buffer)
  BY <1>1
<1> QED BY <1>2, <1>4, <1>5, LogKept

\* A stream ends.
LEMMA StreamEnd ==
    ASSUME ProcInv, LogInv, NEW c \in Calls, call' = [call EXCEPT ![c] = Done],
           call[c].pc \in StreamPcs, UNCHANGED <<vmVars, boot, logVars, auxVars>>
    PROVE  ProcInv' /\ LogInv'
<1>1. call[c].inst = None
  BY DEF ProcInv, Placed, Fits
<1>2. Done \in Call /\ Done.pc \notin StreamPcs /\ Done.tail = <<>> /\ Done.live = <<>>
  BY IdleType DEF StreamPcs
<1>3. Fits(Done)
  BY IdleType DEF Fits, WorkerPcs, StreamPcs
<1>4. StreamPlaced(Done, buffer)
  BY <1>2, NoLines
<1> QED BY <1>1, <1>2, <1>3, <1>4, StreamStep

Opened(id, pc, tail, open) ==
    [Idle EXCEPT !.op = "stream", !.id = id, !.pc = pc, !.tail = tail, !.open = open]

\* The record of a stream that has its historical lines.
LEMMA OpenedType ==
    ASSUME NEW id \in Ids, NEW pc \in {"stuck", "subscribe"}, NEW tail \in Seq(StreamLine),
           NEW open \in SUBSET StreamLine
    PROVE  LET new == Opened(id, pc, tail, open)
           IN  /\ new \in Call /\ new.pc = pc /\ new.id = id /\ new.inst = None
               /\ new.tail = tail /\ new.live = <<>> /\ new.open = open
<1>1. Idle \in Call /\ Idle.inst = None /\ Idle.live = <<>>
  BY IdleType
<1> QED BY <1>1 DEF Opened, Call

\* stream_worker_logs reads the history: a line of it that is not on its way
\* was sent.
LEMMA BeginStream ==
    ASSUME ProcInv, LogInv, NEW c \in Calls, NEW id \in Ids, NEW tail \in Tails,
           StreamBegin(c, id, tail)
    PROVE  ProcInv' /\ LogInv'
<1> DEFINE i == IF active[id] # None THEN active[id] ELSE dead[id].inst
           h == IF active[id] # None THEN buffer[i].history ELSE dead[id].history
           lines == GetTail(h, tail)
           pc == IF Len(lines) > ChannelCap THEN "stuck" ELSE "subscribe"
           t == [k \in 1..Len(lines) |-> <<i, lines[k].n>>]
           o == {<<i, n>> : n \in writing[i]}
<1>1. call' = [call EXCEPT ![c].op = "stream", ![c].id = id, ![c].pc = pc, ![c].tail = t,
                           ![c].open = o]
  BY DEF StreamBegin
<1> HIDE DEF i, h, lines, pc, t, o
<1>2. /\ call[c].pc = "idle" /\ UNCHANGED <<vmVars, boot, logVars, auxVars>>
      /\ active[id] # None \/ dead[id] # None
  BY DEF StreamBegin, NextCall
<1>3. TypeOK /\ call \in [Calls -> Call] /\ tail \in Nat
  BY WorkerdAssumption DEF ProcInv, TypeOK
<1>4. call[c] = Idle /\ call[c].inst = None
  BY <1>2, IdleType DEF ProcInv, Placed, Fits
<1>5. /\ i \in Insts /\ h \in Seq(Lines)
      /\ \A k \in 1..Len(h) : Seen(buffer[i], writing[i], h[k].n)
  <2>1. CASE active[id] # None
    <3>1. i = active[id] /\ h = buffer[i].history
      BY <2>1 DEF i, h
    <3>2. i \in Insts
      BY <1>3, <2>1, <3>1 DEF TypeOK
    <3>3. h \in Seq(Lines)
      BY <1>3, <3>1, <3>2 DEF TypeOK, Buffers
    <3>4. BufferOK(buffer[i], writing[i])
      BY <3>2 DEF LogInv
    <3> QED BY <3>1, <3>2, <3>3, <3>4 DEF BufferOK
  <2>2. CASE active[id] = None
    <3>1. i = dead[id].inst /\ h = dead[id].history /\ dead[id] # None
      BY <1>2, <2>2 DEF i, h
    <3>2. i \in Insts /\ h \in Seq(Lines)
      BY <1>3, <3>1 DEF TypeOK
    <3>3. DeadOK(dead[id], buffer, writing)
      BY DEF LogInv
    <3> QED BY <3>1, <3>2, <3>3 DEF DeadOK
  <2> QED BY <2>1, <2>2
<1>6. /\ lines \in Seq(Lines)
      /\ \A k \in 1..Len(lines) : \E m \in 1..Len(h) : lines[k] = h[m]
  BY <1>3, <1>5, TailFacts DEF lines
<1>7. pc \in {"stuck", "subscribe"}
  BY DEF pc
<1>8. \A k \in 1..Len(lines) : <<i, lines[k].n>> \in StreamLine
  <2>1. \A k \in 1..Len(lines) : lines[k] \in Lines
    BY <1>6
  <2>2. \A x \in Lines : x.n \in Nat
    BY DEF Lines
  <2> QED BY <1>5, <2>1, <2>2 DEF StreamLine
<1>9. t \in Seq(StreamLine) /\ Len(t) = Len(lines)
  <2>1. Len(lines) \in Nat
    BY <1>6
  <2> QED BY <1>8, <2>1 DEF t
<1>10. o \in SUBSET StreamLine
  BY <1>3, <1>5 DEF TypeOK, StreamLine, o
<1>11. PICK new : new = Opened(id, pc, t, o)
  OBVIOUS
<1>12. /\ new \in Call /\ new.pc = pc /\ new.id = id /\ new.inst = None
       /\ new.tail = t /\ new.live = <<>> /\ new.open = o
  BY <1>7, <1>9, <1>10, <1>11, OpenedType
<1>13. call' = [call EXCEPT ![c] = new]
  BY <1>3, <1>4, <1>1, <1>11 DEF Opened
<1>14. Fits(new)
  BY <1>7, <1>12 DEF Fits, WorkerPcs, StreamPcs
<1>15. ASSUME NEW k \in 1..Len(t)
       PROVE  t[k] \in o \/ SentBefore(t[k], Len(buffer[t[k][1]].sent), buffer)
  <2>1. PICK n : n = lines[k].n
    OBVIOUS
  <2>2. t[k] = <<i, n>>
    BY <1>9, <2>1 DEF t
  <2>3. Seen(buffer[i], writing[i], n)
    BY <1>5, <1>6, <1>9, <2>1
  <2>4. CASE n \in writing[i]
    BY <2>2, <2>4 DEF o
  <2>5. CASE \E p \in 1..Len(buffer[i].sent) : buffer[i].sent[p] = n
    BY <2>2, <2>5 DEF SentBefore
  <2> QED BY <2>3, <2>4, <2>5 DEF Seen
<1>16. StreamPlaced(new, buffer)
  BY <1>7, <1>12, <1>15 DEF StreamPlaced, StreamPcs
<1> QED BY <1>2, <1>4, <1>12, <1>13, <1>14, <1>16, StreamStep

Streamers == [next : Nat \ {0}, lagged : BOOLEAN]

Following(r, i, n, s) ==
    [r EXCEPT !.pc = "follow", !.from = i, !.begin = n, !.streamer = s]

Delivered(r, line, s) == [r EXCEPT !.live = Append(r.live, line), !.streamer = s]

Skipped(r, s, x) == [r EXCEPT !.streamer = s, !.skipped = x]

\* The record of a stream that begins to follow a buffer.
LEMMA FollowingType ==
    ASSUME NEW r \in Call, NEW i \in Insts, NEW n \in Nat \ {0}, NEW s \in Streamers
    PROVE  LET new == Following(r, i, n, s)
           IN  /\ new \in Call /\ new.pc = "follow" /\ new.from = i /\ new.streamer = s
               /\ new.inst = r.inst /\ new.tail = r.tail /\ new.live = r.live
               /\ new.open = r.open /\ new.begin = n
BY DEF Following, Call, Streamers

\* The record of a stream that has delivered one more line.
LEMMA DeliveredType ==
    ASSUME NEW r \in Call, NEW line \in StreamLine, NEW s \in Streamers
    PROVE  LET new == Delivered(r, line, s)
           IN  /\ new \in Call /\ new.pc = r.pc /\ new.from = r.from /\ new.streamer = s
               /\ new.inst = r.inst /\ new.tail = r.tail /\ new.live = Append(r.live, line)
               /\ new.open = r.open /\ new.begin = r.begin /\ new.skipped = r.skipped
<1>1. Append(r.live, line) \in Seq(StreamLine)
  BY DEF Call
<1> QED BY <1>1 DEF Delivered, Call, Streamers

\* The record of a stream whose streamer has skipped lines.
LEMMA SkippedType ==
    ASSUME NEW r \in Call, NEW s \in Streamers, NEW x \in SUBSET Nat
    PROVE  LET new == Skipped(r, s, x)
           IN  /\ new \in Call /\ new.pc = r.pc /\ new.from = r.from /\ new.streamer = s
               /\ new.inst = r.inst /\ new.tail = r.tail /\ new.live = r.live
               /\ new.open = r.open /\ new.begin = r.begin /\ new.skipped = x
BY DEF Skipped, Call, Streamers

\* A stream follows: its streamer starts behind what was sent, so that every
\* line of the tail that is not open is behind it too.
LEMMA SubscribeStream ==
    ASSUME ProcInv, LogInv, NEW c \in Calls, StreamSubscribe(c)
    PROVE  ProcInv' /\ LogInv'
<1>0. call[c].pc = "subscribe" /\ UNCHANGED <<vmVars, boot, logVars, auxVars>>
  BY DEF StreamSubscribe
<1>1. TypeOK /\ call \in [Calls -> Call] /\ Fits(call[c]) /\ StreamPlaced(call[c], buffer)
  BY DEF ProcInv, TypeOK, Placed, LogInv
<1>2. PICK r \in Call : r = call[c]
  BY <1>1
<1>3. r.pc = "subscribe" /\ r.inst = None /\ r.id \in Ids /\ StreamPlaced(r, buffer)
  BY <1>0, <1>1, <1>2 DEF Fits, StreamPcs
<1>4. CASE active[r.id] = None
  <2>1. call' = [call EXCEPT ![c] = Done]
    BY <1>2, <1>4 DEF StreamSubscribe
  <2> QED BY <1>0, <2>1, StreamEnd DEF StreamPcs
<1>5. CASE active[r.id] # None
  <2>1. PICK i \in Insts : i = active[r.id]
    BY <1>1, <1>3, <1>5 DEF TypeOK
  <2>2. PICK m \in Nat : m = Len(buffer[i].sent)
    BY <1>1 DEF TypeOK, Buffers
  <2>3. PICK s \in Streamers : s = CreateStreamer(buffer[i])
    <3>1. m + 1 \in Nat \ {0}
      OBVIOUS
    <3> QED BY <2>2, <3>1 DEF CreateStreamer, Streamers
  <2>4. s.next = m + 1 /\ s.next - 1 = m
    BY <2>2, <2>3 DEF CreateStreamer
  <2>5. PICK new : new = Following(r, i, m + 1, s)
    OBVIOUS
  <2>6. /\ new \in Call /\ new.pc = "follow" /\ new.from = i /\ new.streamer = s
        /\ new.inst = r.inst /\ new.tail = r.tail /\ new.live = r.live /\ new.open = r.open
        /\ new.begin = m + 1
    <3>1. m + 1 \in Nat \ {0}
      OBVIOUS
    <3> QED BY <2>5, <3>1, FollowingType
  <2>7. call' = [call EXCEPT ![c] = new]
    <3>1. call' = [call EXCEPT ![c].pc = "follow", ![c].from = i, ![c].begin = m + 1,
                               ![c].streamer = s]
      BY <1>2, <1>5, <2>1, <2>2, <2>3 DEF StreamSubscribe
    <3> QED BY <1>1, <1>2, <2>5, <3>1 DEF Following
  <2>8. Fits(new)
    BY <1>3, <2>6 DEF Fits, WorkerPcs, StreamPcs
  <2>9. r.live = <<>>
    BY <1>3 DEF StreamPlaced
  <2>10. \A k \in 1..Len(r.tail) :
             r.tail[k] \in r.open \/ r.tail[k][1] # i \/ SentBefore(r.tail[k], m, buffer)
    BY <1>3, <2>2 DEF StreamPlaced
  <2>11. StreamPlaced(new, buffer)
    <3>1. Passed(new, buffer)
      BY <2>4, <2>6 DEF Passed
    <3> QED BY <2>2, <2>4, <2>6, <2>9, <2>10, <3>1 DEF StreamPlaced, StreamPcs
  <2>12. call[c].inst = None
    BY <1>2, <1>3
  <2> QED BY <1>0, <2>6, <2>7, <2>8, <2>11, <2>12, StreamStep
<1> QED BY <1>4, <1>5

\* What a stream that follows says of its lines, with its streamer moved on.
LEMMA MovesOn ==
    ASSUME NEW r \in Call, r.pc = "follow", NEW buffers \in [Insts -> Buffers],
           StreamPlaced(r, buffers), NEW m \in Nat, r.streamer.next - 1 <= m
    PROVE  /\ \A l \in 1..Len(r.live) : r.live[l][1] = r.from /\ SentBefore(r.live[l], m, buffers)
           /\ \A k \in 1..Len(r.tail) :
                 \/ r.tail[k] \in r.open \/ r.tail[k][1] # r.from
                 \/ SentBefore(r.tail[k], m, buffers)
<1>1. PICK n \in Nat : n = r.streamer.next - 1
  BY StreamFields
<1>2. \A line : SentBefore(line, n, buffers) => SentBefore(line, m, buffers)
  BY <1>1, SentMore
<1> QED BY <1>1, <1>2 DEF StreamPlaced

\* next_log hands out the next line, skips to the oldest one, or ends.
LEMMA NextStream ==
    ASSUME ProcInv, LogInv, NEW c \in Calls, StreamNext(c)
    PROVE  ProcInv' /\ LogInv'
<1>0. call[c].pc = "follow" /\ UNCHANGED <<vmVars, boot, logVars, auxVars>>
  BY DEF StreamNext
<1>1. /\ TypeOK /\ call \in [Calls -> Call] /\ buffer \in [Insts -> Buffers]
      /\ Fits(call[c]) /\ StreamPlaced(call[c], buffer)
  BY DEF ProcInv, TypeOK, Placed, LogInv
<1>2. PICK r \in Call : r = call[c]
  BY <1>1
<1>3. r.pc = "follow" /\ r.inst = None /\ StreamPlaced(r, buffer) /\ call[c].inst = None
  BY <1>0, <1>1, <1>2 DEF Fits, StreamPcs
<1>4. PICK i \in Insts : i = r.from
  BY <1>3 DEF StreamPlaced
<1>5. PICK b \in Buffers : b = buffer[i]
  BY <1>1
<1>6. PICK n \in Nat : n = Len(b.sent)
  BY DEF Buffers
<1>7. PICK s \in Streamers : s = r.streamer
  BY DEF Call, Streamers
<1>8. s.next \in 1..n
  <2>1. s.next \in Nat \ {0}
    BY DEF Streamers
  <2>2. s.next <= n
    BY <1>2, <1>4, <1>5, <1>6, <1>7 DEF StreamNext
  <2> QED BY <2>1, <2>2
<1>9. BufferOK(b, writing[i])
  BY <1>5 DEF LogInv
<1>10. CASE Lagged(b, s) /\ s.lagged
  <2>1. call' = [call EXCEPT ![c] = Done]
    BY <1>2, <1>4, <1>5, <1>7, <1>10 DEF StreamNext
  <2> QED BY <1>0, <2>1, StreamEnd DEF StreamPcs
<1>11. CASE Lagged(b, s) /\ ~s.lagged
  <2>1. PICK x \in Nat : x = n - BroadcastCap /\ s.next - 1 <= x /\ x <= n
    <3>1. n - s.next + 1 > BroadcastCap
      BY <1>6, <1>11 DEF Lagged
    <3>2. BroadcastCap \in Nat
      BY LimitsAssumption
    <3>3. n - BroadcastCap \in Nat /\ s.next - 1 <= n - BroadcastCap
      BY <1>8, <3>1, <3>2
    <3>4. n - BroadcastCap <= n
      BY <3>2
    <3> QED BY <3>3, <3>4
  <2>2. PICK q \in Streamers : q = CatchUp(b, s)
    <3>1. x + 1 \in Nat \ {0}
      OBVIOUS
    <3> QED BY <1>6, <2>1, <3>1 DEF CatchUp, Streamers
  <2>3. q.next = x + 1 /\ q.next - 1 = x
    BY <1>6, <2>1, <2>2 DEF CatchUp
  <2>4. PICK y \in SUBSET Nat : y = r.skipped \cup s.next..(q.next - 1)
    <3>1. r.skipped \subseteq Nat
      BY StreamFields
    <3>2. s.next..(q.next - 1) \subseteq Nat
      <4>1. s.next \in Nat /\ q.next - 1 \in Nat
        BY <1>8, <2>1, <2>3
      <4> QED BY <4>1
    <3> QED BY <3>1, <3>2
  <2>4a. PICK new : new = Skipped(r, q, y)
    OBVIOUS
  <2>5. /\ new \in Call /\ new.pc = r.pc /\ new.from = r.from /\ new.streamer = q
        /\ new.inst = r.inst /\ new.tail = r.tail /\ new.live = r.live /\ new.open = r.open
        /\ new.begin = r.begin /\ new.skipped = y
    BY <2>4a, SkippedType
  <2>6. call' = [call EXCEPT ![c] = new]
    <3>1. call' = [call EXCEPT ![c].streamer = q, ![c].skipped = y]
      BY <1>1, <1>2, <1>4, <1>5, <1>7, <1>11, <2>2, <2>4 DEF StreamNext
    <3> QED BY <1>1, <1>2, <2>4a, <3>1 DEF Skipped
  <2>7. Fits(new)
    BY <1>3, <2>5 DEF Fits, WorkerPcs, StreamPcs
  <2>8. /\ \A l \in 1..Len(r.live) : r.live[l][1] = r.from /\ SentBefore(r.live[l], x, buffer)
        /\ \A k \in 1..Len(r.tail) :
              \/ r.tail[k] \in r.open \/ r.tail[k][1] # r.from
              \/ SentBefore(r.tail[k], x, buffer)
    BY <1>1, <1>3, <1>7, <2>1, MovesOn
  <2>9. q.next <= Len(buffer[i].sent) + 1
    BY <1>5, <1>6, <2>1, <2>3
  <2>10. /\ \A k \in 1..Len(r.tail), l \in 1..Len(r.live) :
               r.tail[k] = r.live[l] => r.live[l] \in r.open
         /\ \A k, l \in 1..Len(r.live) : r.live[k] = r.live[l] => k = l
    BY <1>3 DEF StreamPlaced
  <2>10a. Passed(new, buffer)
    <3> SUFFICES ASSUME NEW p \in r.begin..x
                 PROVE  \/ p \in y
                        \/ \E l \in 1..Len(r.live) : r.live[l] = <<r.from, buffer[r.from].sent[p]>>
      BY <2>3, <2>5 DEF Passed
    <3>1. r.begin \in Nat /\ p \in Nat
      BY StreamFields
    <3>2. CASE p < s.next
      <4>1. p \in r.begin..(r.streamer.next - 1)
        BY <1>7, <1>8, <3>1, <3>2
      <4> QED BY <1>3, <2>4, <4>1 DEF StreamPlaced, Passed
    <3>3. CASE ~(p < s.next)
      <4>1. p \in s.next..(q.next - 1)
        BY <1>8, <2>3, <3>1, <3>3
      <4> QED BY <2>4, <4>1
    <3> QED BY <3>2, <3>3
  <2>11. StreamPlaced(new, buffer)
    BY <1>3, <1>4, <2>3, <2>5, <2>8, <2>9, <2>10, <2>10a DEF StreamPlaced, StreamPcs
  <2> QED BY <1>0, <1>3, <2>5, <2>6, <2>7, <2>11, StreamStep
<1>12. CASE ~Lagged(b, s)
  <2>1. PICK line \in StreamLine : line = <<i, b.sent[s.next]>>
    <3>1. b.sent[s.next] \in Nat
      BY <1>6, <1>8 DEF Buffers
    <3> QED BY <3>1 DEF StreamLine
  <2>2. PICK q \in Streamers : q = [next |-> s.next + 1, lagged |-> FALSE]
    <3>1. s.next + 1 \in Nat \ {0}
      BY <1>8
    <3> QED BY <3>1 DEF Streamers
  <2>3. q.next = s.next + 1 /\ q.next - 1 = s.next /\ s.next \in Nat
    BY <1>8, <2>2
  <2>4. PICK new : new = Delivered(r, line, q)
    OBVIOUS
  <2>5. /\ new \in Call /\ new.pc = r.pc /\ new.from = r.from /\ new.streamer = q
        /\ new.inst = r.inst /\ new.tail = r.tail /\ new.live = Append(r.live, line)
        /\ new.open = r.open /\ new.begin = r.begin /\ new.skipped = r.skipped
    BY <2>4, DeliveredType
  <2>6. call' = [call EXCEPT ![c] = new]
    <3>1. call' = [call EXCEPT ![c].live = Append(@, line), ![c].streamer = q]
      BY <1>2, <1>4, <1>5, <1>7, <1>12, <2>1, <2>2 DEF StreamNext
    <3> QED BY <1>1, <1>2, <2>4, <3>1 DEF Delivered
  <2>7. Fits(new)
    BY <1>3, <2>5 DEF Fits, WorkerPcs, StreamPcs
  <2>8. /\ \A l \in 1..Len(r.live) : r.live[l][1] = i /\ SentBefore(r.live[l], s.next, buffer)
        /\ \A k \in 1..Len(r.tail) :
              \/ r.tail[k] \in r.open \/ r.tail[k][1] # i
              \/ SentBefore(r.tail[k], s.next, buffer)
    <3>1. r.streamer.next - 1 <= s.next
      BY <1>7, <2>3
    <3> QED BY <1>1, <1>3, <1>4, <2>3, <3>1, MovesOn
  <2>9. q.next <= Len(buffer[i].sent) + 1
    BY <1>5, <1>6, <1>8, <2>3
  <2>10. line[1] = i /\ SentBefore(line, s.next, buffer)
    <3>1. line[1] = i /\ line[2] = buffer[line[1]].sent[s.next] /\ s.next \in 1..s.next
      BY <1>5, <1>8, <2>1
    <3> QED BY <3>1 DEF SentBefore
  <2>11. ~SentBefore(line, r.streamer.next - 1, buffer)
    <3> SUFFICES ASSUME NEW p \in 1..(s.next - 1), line[2] = buffer[line[1]].sent[p]
                 PROVE  FALSE
      BY <1>7 DEF SentBefore
    <3>1. b.sent[p] = b.sent[s.next] /\ p \in 1..n /\ p # s.next
      BY <1>5, <1>8, <2>1
    <3> QED BY <1>6, <1>8, <1>9, <3>1 DEF BufferOK
  <2>12. PICK m \in Nat : m = Len(r.live)
    BY StreamFields
  <2>13. PICK v : v = Append(r.live, line)
    OBVIOUS
  <2>14. Len(v) = m + 1 /\ v[m + 1] = line /\ \A l \in 1..m : v[l] = r.live[l]
    <3>1. r.live \in Seq(StreamLine)
      BY DEF Call
    <3> QED BY <2>12, <2>13, <3>1
  <2>15. \A l \in 1..(m + 1) : l = m + 1 \/ l \in 1..m
    OBVIOUS
  <2>16. \A l \in 1..m : r.live[l] # line
    BY <1>3, <2>11, <2>12 DEF StreamPlaced
  <2>17. \A k \in 1..Len(r.tail) : r.tail[k] = line => line \in r.open
    BY <1>3, <1>4, <2>10, <2>11 DEF StreamPlaced
  <2>18. \A l \in 1..Len(v) : v[l][1] = i /\ SentBefore(v[l], s.next, buffer)
    BY <2>8, <2>10, <2>12, <2>14, <2>15
  <2>19. \A k \in 1..Len(r.tail), l \in 1..Len(v) : r.tail[k] = v[l] => v[l] \in r.open
    <3>1. \A k \in 1..Len(r.tail), l \in 1..m : r.tail[k] = r.live[l] => r.live[l] \in r.open
      BY <1>3, <2>12 DEF StreamPlaced
    <3> QED BY <2>14, <2>15, <2>17, <3>1
  <2>20. \A k, l \in 1..Len(v) : v[k] = v[l] => k = l
    <3>1. \A k, l \in 1..m : r.live[k] = r.live[l] => k = l
      BY <1>3, <2>12 DEF StreamPlaced
    <3> QED BY <2>14, <2>15, <2>16, <3>1
  <2>21. StreamPlaced(new, buffer)
    <3>1. /\ new.pc = "follow" /\ new.from = i /\ new.streamer.next = q.next
          /\ new.tail = r.tail /\ new.live = v /\ new.open = r.open
      BY <1>3, <1>4, <2>5, <2>13
    <3>2. new.streamer.next <= Len(buffer[new.from].sent) + 1
      BY <2>9, <3>1
    <3>3. new.streamer.next - 1 = s.next
      BY <2>3, <3>1
    <3>4. \A l \in 1..Len(new.live) :
              /\ new.live[l][1] = new.from
              /\ SentBefore(new.live[l], new.streamer.next - 1, buffer)
      BY <2>18, <3>1, <3>3
    <3>5. \A k \in 1..Len(new.tail) :
              \/ new.tail[k] \in new.open \/ new.tail[k][1] # new.from
              \/ SentBefore(new.tail[k], new.streamer.next - 1, buffer)
      BY <2>8, <3>1, <3>3
    <3>6. \A k \in 1..Len(new.tail), l \in 1..Len(new.live) :
              new.tail[k] = new.live[l] => new.live[l] \in new.open
      BY <2>19, <3>1
    <3>7. \A k, l \in 1..Len(new.live) : new.live[k] = new.live[l] => k = l
      BY <2>20, <3>1
    <3>8. Passed(new, buffer)
      <4> SUFFICES ASSUME NEW p \in r.begin..s.next
                   PROVE  \/ p \in r.skipped
                          \/ \E l \in 1..Len(v) : v[l] = <<i, b.sent[p]>>
        BY <1>4, <1>5, <2>3, <2>5, <2>13 DEF Passed
      <4>1. r.begin \in Nat /\ p \in Nat
        BY StreamFields
      <4>2. CASE p = s.next
        <5>1. m + 1 \in 1..Len(v)
          BY <2>12, <2>14
        <5> QED BY <2>1, <2>14, <4>2, <5>1
      <4>3. CASE p # s.next
        <5>1. p \in r.begin..(r.streamer.next - 1)
          BY <1>7, <1>8, <4>1, <4>3
        <5>2. \/ p \in r.skipped
              \/ \E l \in 1..m : r.live[l] = <<i, b.sent[p]>>
          BY <1>3, <1>4, <1>5, <2>12, <5>1 DEF StreamPlaced, Passed
        <5>3. \A l \in 1..m : l \in 1..Len(v)
          BY <2>12, <2>14
        <5> QED BY <2>14, <5>2, <5>3
      <4> QED BY <4>2, <4>3
    <3> QED BY <3>1, <3>2, <3>4, <3>5, <3>6, <3>7, <3>8 DEF StreamPlaced, StreamPcs
  <2> QED BY <1>0, <1>3, <2>5, <2>6, <2>7, <2>21, StreamStep
<1> QED BY <1>10, <1>11, <1>12

\* The other ends of a stream.
LEMMA LeaveStream ==
    ASSUME ProcInv, LogInv, NEW c \in Calls, StreamLeave(c) \/ StreamClosed(c)
    PROVE  ProcInv' /\ LogInv'
<1>1. /\ call[c].pc = "follow" /\ call' = [call EXCEPT ![c] = Done]
      /\ UNCHANGED <<vmVars, boot, logVars, auxVars>>
  BY DEF StreamLeave, StreamClosed
<1> QED BY <1>1, StreamEnd DEF StreamPcs

\* The logs change and nothing else does.
LEMMA OnlyLogs ==
    ASSUME ProcInv, UNCHANGED <<vmVars, boot, call, auxVars>>, LogTypes'
    PROVE  ProcInv'
<1>1. /\ workers' = workers /\ idOf' = idOf /\ proc' = proc /\ socket' = socket
      /\ status' = status /\ boot' = boot /\ call' = call /\ acked' = acked
      /\ misprobed' = misprobed /\ unkilled' = unkilled /\ Spared' = Spared
  BY DEF vmVars, auxVars, Spared
<1>2. TypeOK'
  BY <1>1 DEF ProcInv, TypeOK, LogTypes
<1>3. Entries' /\ Held' /\ DownMeansGone' /\ StopMeansGone'
  BY <1>1 DEF ProcInv, Entries, Held, DownMeansGone, StopMeansGone
<1>4. Placed'
  BY <1>1 DEF ProcInv, Placed, Fits
<1> QED BY <1>2, <1>3, <1>4 DEF ProcInv

\* One buffer changes, and what was said of its lines still holds.
LEMMA OneBuffer ==
    ASSUME ProcInv, LogInv, NEW i \in Insts, NEW new, NEW v,
           buffer' = [buffer EXCEPT ![i] = new], writing' = [writing EXCEPT ![i] = v],
           UNCHANGED <<vmVars, boot, call, active, dead, auxVars>>,
           Kept(buffer[i], writing[i], new, v)
    PROVE  ProcInv' /\ LogInv'
<1>0. /\ new \in Buffers /\ v \in SUBSET Nat /\ BufferOK(new, v)
      /\ Len(buffer[i].sent) <= Len(new.sent)
      /\ \A p \in 1..Len(buffer[i].sent) : new.sent[p] = buffer[i].sent[p]
      /\ SeenStays(buffer[i], writing[i], new, v)
  BY DEF Kept
<1>1. TypeOK
  BY DEF ProcInv
<1>2. /\ buffer \in [Insts -> Buffers] /\ writing \in [Insts -> SUBSET Nat]
      /\ active \in [Ids -> Insts \cup {None}] /\ call \in [Calls -> Call]
      /\ dead \in [Ids -> [inst : Insts, history : Seq(Lines)] \cup {None}]
  BY <1>1 DEF TypeOK
<1>3. /\ buffer' \in [Insts -> Buffers] /\ writing' \in [Insts -> SUBSET Nat]
      /\ buffer'[i] = new /\ writing'[i] = v
      /\ \A j \in Insts \ {i} : buffer'[j] = buffer[j] /\ writing'[j] = writing[j]
  BY <1>0, <1>2
<1>4. active' = active /\ dead' = dead /\ call' = call
  OBVIOUS
<1>5. ProcInv'
  <2>1. LogTypes'
    BY <1>2, <1>3, <1>4 DEF LogTypes
  <2> QED BY <2>1, OnlyLogs
<1>6. Grown(buffer, writing, buffer', writing')
  <2> SUFFICES ASSUME NEW j \in Insts
               PROVE  /\ Len(buffer[j].sent) <= Len(buffer'[j].sent)
                      /\ \A p \in 1..Len(buffer[j].sent) : buffer'[j].sent[p] = buffer[j].sent[p]
                      /\ SeenStays(buffer[j], writing[j], buffer'[j], writing'[j])
    BY DEF Grown
  <2>1. CASE j = i
    BY <1>0, <1>3, <2>1
  <2>2. CASE j # i
    <3>1. buffer'[j] = buffer[j] /\ writing'[j] = writing[j]
      BY <1>3, <2>2
    <3>2. Len(buffer[j].sent) \in Nat
      BY <1>2 DEF Buffers
    <3> QED BY <3>1, <3>2 DEF SeenStays
  <2> QED BY <2>1, <2>2
<1>7. \A j \in Insts : BufferOK(buffer'[j], writing'[j])
  BY <1>0, <1>3 DEF LogInv
<1>8. ASSUME NEW id \in Ids PROVE DeadOK(dead'[id], buffer', writing')
  <2>1. PICK d \in [inst : Insts, history : Seq(Lines)] \cup {None} : d = dead[id]
    BY <1>2
  <2>2. DeadOK(d, buffer, writing)
    BY <2>1 DEF LogInv
  <2>3. DeadOK(d, buffer', writing')
    BY <1>6, <2>2, DeadKept
  <2> QED BY <1>4, <2>1, <2>3
<1>9. ASSUME NEW c \in Calls PROVE StreamPlaced(call'[c], buffer')
  <2>1. PICK r \in Call : r = call[c]
    BY <1>2
  <2>2. StreamPlaced(r, buffer)
    BY <2>1 DEF LogInv
  <2>3. StreamPlaced(r, buffer')
    BY <1>2, <1>3, <1>6, <2>2, StreamKept
  <2> QED BY <1>4, <2>1, <2>3
<1> QED BY <1>5, <1>7, <1>8, <1>9 DEF LogInv

\* The two halves of write_log.
LEMMA WriteLog ==
    ASSUME ProcInv, LogInv, NEW i \in Insts,
           \/ \E len \in LineLens : ReadLine(i, len)
           \/ \E n \in writing[i] : SendLine(i, n)
    PROVE  ProcInv' /\ LogInv'
<1>1. PICK b \in Buffers : b = buffer[i]
  BY DEF ProcInv, TypeOK
<1>2. PICK w \in SUBSET Nat : w = writing[i]
  BY DEF ProcInv, TypeOK
<1>3. BufferOK(b, w) /\ Len(b.sent) \in Nat
  BY <1>1, <1>2 DEF LogInv, Buffers
<1>4. ASSUME NEW len \in LineLens, ReadLine(i, len) PROVE ProcInv' /\ LogInv'
  <2>1. len \in Nat
    BY WorkerdAssumption
  <2>2. Kept(b, w, Push(b, len), w \cup {b.pushed + 1})
    BY <1>1, <1>2, <1>3, <2>1, PushKeeps
  <2>3. /\ buffer' = [buffer EXCEPT ![i] = Push(b, len)]
        /\ writing' = [writing EXCEPT ![i] = w \cup {b.pushed + 1}]
        /\ UNCHANGED <<vmVars, boot, call, active, dead, auxVars>>
    BY <1>1, <1>2, <1>4 DEF ReadLine
  <2> QED BY <1>1, <1>2, <2>2, <2>3, OneBuffer
<1>5. ASSUME NEW n \in writing[i], SendLine(i, n) PROVE ProcInv' /\ LogInv'
  <2>1. n \in w
    BY <1>2
  <2>2. Kept(b, w, Broadcast(b, n), w \ {n})
    BY <1>1, <1>2, <1>3, <2>1, SendKeeps
  <2>3. /\ buffer' = [buffer EXCEPT ![i] = Broadcast(b, n)]
        /\ writing' = [writing EXCEPT ![i] = w \ {n}]
        /\ UNCHANGED <<vmVars, boot, call, active, dead, auxVars>>
    BY <1>1, <1>2, <1>5 DEF SendLine
  <2> QED BY <1>1, <1>2, <2>2, <2>3, OneBuffer
<1> QED BY <1>4, <1>5

\* The cleanup task drops the logs of a dead worker.
LEMMA Expire ==
    ASSUME ProcInv, LogInv, NEW id \in Ids, ExpireLogs(id)
    PROVE  ProcInv' /\ LogInv'
<1>1. /\ dead' = [dead EXCEPT ![id] = None] /\ UNCHANGED <<buffer, writing, active, call>>
      /\ UNCHANGED <<vmVars, boot, call, auxVars>>
  BY DEF ExpireLogs
<1>2. TypeOK
  BY DEF ProcInv
<1>3. LogTypes'
  BY <1>1, <1>2 DEF TypeOK, LogTypes
<1>4. ProcInv'
  BY <1>1, <1>3, OnlyLogs
<1>5. DeadOK(None, buffer, writing)
  BY DEF DeadOK
<1>6. \A x \in Ids : dead'[x] = dead[x] \/ DeadOK(dead'[x], buffer, writing)
  BY <1>1, <1>2, <1>5 DEF TypeOK
<1> QED BY <1>1, <1>4, <1>6, LogKept

-----------------------------------------------------------------------------

\* Nothing has been started.
LEMMA InitInv == Init => IInv
<1> SUFFICES ASSUME Init PROVE IInv
  OBVIOUS
<1>1. NewBuffer \in Buffers /\ Bounded(NewBuffer) /\ BufferOK(NewBuffer, {})
  <2>1. <<>> \in Seq(Lines) /\ <<>> \in Seq(Nat) /\ Len(<<>>) = 0
    OBVIOUS
  <2>2. NewBuffer \in Buffers
    BY <2>1 DEF NewBuffer, Buffers
  <2>3. /\ NewBuffer.history = <<>> /\ NewBuffer.sent = <<>> /\ NewBuffer.pushed = 0
        /\ NewBuffer.current_bytes = 0
    BY DEF NewBuffer
  <2>4. Bounded(NewBuffer)
    BY <2>1, <2>3, BytesOfNone, LimitsAssumption DEF Bounded
  <2> QED BY <2>1, <2>2, <2>3, <2>4 DEF BufferOK
<1>2. /\ Idle \in Call /\ Idle.pc = "idle" /\ Idle.inst = None
      /\ Idle.tail = <<>> /\ Idle.live = <<>>
  BY IdleType
<1>3. TypeOK
  BY <1>1, <1>2 DEF Init, TypeOK, Booting, Down
<1>4. Entries /\ Held /\ DownMeansGone /\ StopMeansGone
  BY DEF Init, Entries, Held, DownMeansGone, StopMeansGone, Spared, Down
<1>5. Placed
  BY <1>2 DEF Init, Placed, Fits, WorkerPcs, StreamPcs
<1>6. StreamPlaced(Idle, buffer)
  BY <1>2, NoLines DEF StreamPcs
<1>7. DeadOK(None, buffer, writing)
  BY DEF DeadOK
<1>8. LogInv
  BY <1>1, <1>6, <1>7 DEF Init, LogInv
<1> QED BY <1>3, <1>4, <1>5, <1>8 DEF IInv, ProcInv

\* Every step keeps the invariant.
LEMMA NextInv == IInv /\ [Next]_vars => IInv'
<1> SUFFICES ASSUME ProcInv, LogInv, [Next]_vars PROVE ProcInv' /\ LogInv'
  BY DEF IInv
<1>1. ASSUME NEW i \in Insts, StartStep(i) \/ StartCancelled(i) \/ Listen(i) \/ Exit(i) \/ Die(i)
      PROVE  ProcInv' /\ LogInv'
  BY <1>1, BootProc, BootLog
<1>2. ASSUME NEW i \in Insts, NEW id \in Ids, Spawn(i, id) PROVE ProcInv' /\ LogInv'
  BY <1>2, SpawnProc, BootLog
<1>3. ASSUME NEW c \in Calls, NEW id \in Ids,
             StopBegin(c, id) \/ ProbeBegin(c, id) \/ InvokeBegin(c, id)
      PROVE  ProcInv' /\ LogInv'
  BY <1>3, BeginProc, WorkerLog
<1>4. ASSUME NEW c \in Calls,
             \/ StopKill(c) \/ StopKillFails(c) \/ StopMark(c)
             \/ ProbeConnect(c) \/ ProbePromote(c) \/ InvokeEnd(c)
      PROVE  ProcInv' /\ LogInv'
  BY <1>4, KillProc, ReturnProc, WorkerLog
<1>5. ASSUME NEW c \in Calls,
             StreamSubscribe(c) \/ StreamNext(c) \/ StreamLeave(c) \/ StreamClosed(c)
      PROVE  ProcInv' /\ LogInv'
  BY <1>5, SubscribeStream, NextStream, LeaveStream
<1>6. CASE UNCHANGED vars
  <2>1. UNCHANGED <<vmVars, boot, call, auxVars>> /\ UNCHANGED <<buffer, writing, active, dead>>
    BY <1>6 DEF vars, logVars
  <2>2. LogTypes'
    BY <2>1 DEF ProcInv, TypeOK, LogTypes
  <2> QED BY <2>1, <2>2, OnlyLogs, LogKept
<1>7. CASE Next
  BY <1>1, <1>2, <1>3, <1>4, <1>5, <1>7, WriteLog, Expire, BeginStream DEF Next
<1> QED BY <1>6, <1>7

\* Whatever the reader tasks, stops and streams do, the history of a worker's
\* log is a gapless tail of what was written, with an exact byte count, and it
\* exceeds the limits by its newest line at most.
THEOREM HistoryBounded == Spec => []LogBounds
<1>1. IInv => LogBounds
  BY DEF IInv, LogInv, BufferOK, LogBounds
<1> QED BY <1>1, InitInv, NextInv, PTL DEF Spec

\* A stream repeats a line only if write_log was between its halves with that
\* line when stream_worker_logs read the history, and leaves out no line that
\* was broadcast since it subscribed, but for those it lagged behind.
THEOREM LinesFollowed == Spec => []FollowedLines
<1>1. IInv => FollowedLines
  <2> SUFFICES ASSUME ProcInv, LogInv, NEW c \in Calls
               PROVE  /\ \A k \in 1..Len(call[c].tail), l \in 1..Len(call[c].live) :
                            call[c].tail[k] = call[c].live[l] => call[c].live[l] \in call[c].open
                      /\ \A k, l \in 1..Len(call[c].live) :
                            call[c].live[k] = call[c].live[l] => k = l
                      /\ call[c].pc = "follow" => Passed(call[c], buffer)
    BY DEF IInv, FollowedLines, Passed
  <2>1. StreamPlaced(call[c], buffer)
    BY DEF LogInv
  <2>2. CASE call[c].pc = "follow"
    BY <2>1, <2>2 DEF StreamPlaced
  <2>3. CASE call[c].pc # "follow"
    <3>1. call[c].live = <<>>
      BY <2>1, <2>3 DEF StreamPlaced, StreamPcs
    <3> QED BY <2>3, <3>1
  <2> QED BY <2>2, <2>3
<1> QED BY <1>1, InitInv, NextInv, PTL DEF Spec

\* A process that runs and whose start_worker has returned can be stopped: it
\* is the entry of its id and not taken for down, or an RPC has it; but for one
\* that a failed probe took for dead and one that start_worker could not kill.
THEOREM ProcessesReachable == Spec => []NoOrphan
<1>1. IInv => NoOrphan
  <2> SUFFICES ASSUME ProcInv PROVE NoOrphan
    BY DEF IInv
  <2>1. TypeOK
    BY DEF ProcInv
  <2>2. ASSUME NEW i \in Insts, proc[i] = "up", ~ \E c \in Calls : call[c].inst = i
        PROVE  /\ workers[idOf[i]] = i
               /\ status[i] \notin Down \/ i \in Spared
    <3>1. i \in Referenced(workers, call) /\ i # None
      BY <2>2, WorkerdAssumption DEF ProcInv, Held
    <3>2. PICK id \in Ids : workers[id] = i
      BY <2>2, <3>1 DEF Referenced
    <3>3. idOf[i] = id
      BY <3>1, <3>2 DEF ProcInv, Entries
    <3> QED BY <2>2, <3>2, <3>3 DEF ProcInv, DownMeansGone
  <2> QED BY <2>1, <2>2 DEF NoOrphan
<1> QED BY <1>1, InitInv, NextInv, PTL DEF Spec

\* stop_worker is acknowledged only when the process has gone or has been sent
\* SIGKILL, but for a worker that a failed probe took for dead and one that
\* start_worker gave up and could not kill.
THEOREM StopIsFinal == Spec => []StopMeansGone
<1>1. IInv => StopMeansGone
  BY DEF IInv, ProcInv
<1> QED BY <1>1, InitInv, NextInv, PTL DEF Spec

\* A worker that is down is made running only by a probe that read its status
\* before.
THEOREM DownStaysDown == Spec => DownForGood
<1>1. IInv /\ [Next]_vars =>
        [\A i \in Insts :
            (status[i] \in Down /\ status'[i] \notin Down) =>
                \E c \in Calls : call[c].inst = i /\ call[c].pc = "promote"]_vars
  <2> SUFFICES ASSUME ProcInv, Next, NEW i \in Insts, status[i] \in Down, status'[i] \notin Down
               PROVE  \E c \in Calls : call[c].inst = i /\ call[c].pc = "promote"
    BY DEF IInv
  <2>1. TypeOK /\ status[i] \notin {"Unspecified", "Starting", "Running"}
    BY DEF ProcInv, Down
  <2>2. status' # status
    OBVIOUS
  <2>3. ASSUME NEW j \in Insts, StartStep(j) PROVE FALSE
    <3>1. PICK k \in Insts : k = workers[idOf[j]]
      <4>1. boot[j] # "idle"
        BY <2>1, <2>3 DEF StartStep, StartCheck, StartTimeout, StartKilled, StartSettle
      <4> QED BY <4>1, Watched
    <3>2. \/ status' = [status EXCEPT ![k] = "Error"]
          \/ status' = [status EXCEPT ![k] = IF @ = "Starting" THEN "Running" ELSE @]
      BY <2>2, <2>3, <3>1 DEF StartStep, StartCheck, StartTimeout, StartKilled, StartSettle, vmVars
    <3> QED BY <2>1, <3>2 DEF TypeOK, Down
  <2>4. ASSUME NEW j \in Insts, NEW id \in Ids, Spawn(j, id) PROVE FALSE
    <3>1. boot[j] = "idle" /\ status' = [status EXCEPT ![j] = "Starting"]
      BY <2>4 DEF Spawn, NextInst
    <3>2. status[j] = "Unspecified"
      BY <2>1, <3>1 DEF TypeOK
    <3> QED BY <2>1, <3>1, <3>2 DEF TypeOK
  <2>5. ASSUME NEW c \in Calls, StopMark(c) PROVE FALSE
    <3>1. status' = [status EXCEPT ![call[c].inst] = "Stopped"]
      BY <2>5 DEF StopMark
    <3> QED BY <2>1, <3>1 DEF TypeOK, Down
  <2>6. ASSUME NEW c \in Calls, NEW id \in Ids, ProbeBegin(c, id) PROVE FALSE
    <3>1. status' = [status EXCEPT ![workers[id]] = IF @ = "Stopped" THEN @ ELSE "Error"]
      BY <2>2, <2>6 DEF ProbeBegin
    <3> QED BY <2>1, <3>1 DEF TypeOK, Down
  <2>7. ASSUME NEW c \in Calls, ProbeConnect(c) PROVE FALSE
    <3>1. status' = [status EXCEPT ![call[c].inst] = IF @ = "Starting" THEN @ ELSE "Error"]
      BY <2>2, <2>7 DEF ProbeConnect
    <3> QED BY <2>1, <3>1 DEF TypeOK, Down
  <2>8. ASSUME NEW c \in Calls, ProbePromote(c)
        PROVE  \E d \in Calls : call[d].inst = i /\ call[d].pc = "promote"
    <3>1. /\ status' = [status EXCEPT ![call[c].inst] = "Running"]
          /\ call[c].pc = "promote"
      BY <2>8 DEF ProbePromote
    <3>2. call[c].inst = i
      BY <2>1, <3>1 DEF TypeOK
    <3> QED BY <3>1, <3>2
  <2>9. ASSUME NEW j \in Insts,
               \/ StartCancelled(j) \/ Listen(j) \/ Exit(j) \/ Die(j)
               \/ \E len \in LineLens : ReadLine(j, len)
               \/ \E n \in writing[j] : SendLine(j, n)
        PROVE  FALSE
    BY <2>2, <2>9 DEF StartCancelled, Listen, Exit, Die, ReadLine, SendLine, vmVars
  <2>10. ASSUME NEW c \in Calls,
                \/ StopKill(c) \/ StopKillFails(c) \/ InvokeEnd(c) \/ StreamSubscribe(c) \/ StreamNext(c)
                \/ StreamLeave(c) \/ StreamClosed(c)
                \/ \E id \in Ids : StopBegin(c, id) \/ InvokeBegin(c, id)
                \/ \E id \in Ids, tail \in Tails : StreamBegin(c, id, tail)
         PROVE  FALSE
    BY <2>2, <2>10 DEF StopKill, StopKillFails, InvokeEnd, StreamSubscribe, StreamNext, StreamLeave,
                       StreamClosed, StopBegin, InvokeBegin, StreamBegin, vmVars
  <2>11. ASSUME NEW id \in Ids, ExpireLogs(id) PROVE FALSE
    BY <2>2, <2>11 DEF ExpireLogs, vmVars
  <2> QED BY <2>3, <2>4, <2>5, <2>6, <2>7, <2>8, <2>9, <2>10, <2>11 DEF Next
<1> QED BY <1>1, InitInv, NextInv, PTL DEF Spec, DownForGood

=============================================================================
