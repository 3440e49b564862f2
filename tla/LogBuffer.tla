----------------------------- MODULE LogBuffer -----------------------------
(***************************************************************************)
(* The log buffer of one worker (vm/base/src/logging.rs): a bounded        *)
(* history that get_tail reads and a broadcast channel that streamers      *)
(* follow.  A buffer is a record; its operations are functions from        *)
(* buffers to buffers, so that the VMs can keep one per instance.          *)
(*                                                                         *)
(* write_log takes the two locks of the history, releases them, and only   *)
(* then broadcasts: Push and Broadcast are two steps, and readers and      *)
(* other writers come between them.                                        *)
(***************************************************************************)
EXTENDS Integers, Sequences, SequencesExt

CONSTANTS
    MaxLines,      \* MAX_LINES
    MaxBytes,      \* MAX_BYTES
    BroadcastCap   \* slots of the broadcast channel

ASSUME LimitsAssumption ==
    /\ MaxLines \in Nat \ {0}
    /\ MaxBytes \in Nat \ {0}
    /\ BroadcastCap \in Nat \ {0}

\* The lines ever pushed are numbered from 1; a line keeps its number and its
\* length in bytes.
Lines == [n : Nat \ {0}, len : Nat]

Buffers == [history : Seq(Lines), current_bytes : Nat, pushed : Nat, sent : Seq(Nat)]

NewBuffer == [history |-> <<>>, current_bytes |-> 0, pushed |-> 0, sent |-> <<>>]

\* The bytes of the first lines, and of all of them.
Sums(lines) ==
    LET sum[k \in 0..Len(lines)] == IF k = 0 THEN 0 ELSE sum[k - 1] + lines[k].len
    IN  sum

Bytes(lines) == Sums(lines)[Len(lines)]

Saturating(x) == IF x < 0 THEN 0 ELSE x

\* The number of lines the eviction loop pops: it stops when both limits
\* leave room, or when nothing is left.
Evicted(buffer) ==
    LET h == buffer.history
        Room(k) == /\ Len(h) - k < MaxLines
                   /\ Saturating(buffer.current_bytes - Bytes(SubSeq(h, 1, k))) < MaxBytes
        stops == {k \in 0..Len(h) : k = Len(h) \/ Room(k)}
    IN  CHOOSE k \in stops : \A j \in stops : k <= j

\* Mutant: the bytes of the lines that are evicted stay in the account.
PushWithoutRefund(buffer, len) ==
    [buffer EXCEPT
        !.history = Append(SubSeq(@, Evicted(buffer) + 1, Len(@)),
                           [n |-> buffer.pushed + 1, len |-> len]),
        !.current_bytes = @ + len,
        !.pushed = @ + 1]

\* The part of write_log under the locks: evict, account, append.
Push(buffer, len) ==
    LET k == Evicted(buffer)
    IN  [buffer EXCEPT
            !.history = Append(SubSeq(@, k + 1, Len(@)),
                               [n |-> buffer.pushed + 1, len |-> len]),
            !.current_bytes = Saturating(@ - Bytes(SubSeq(buffer.history, 1, k))) + len,
            !.pushed = @ + 1]

\* The rest of write_log: the line goes to every streamer.
Broadcast(buffer, n) == [buffer EXCEPT !.sent = Append(@, n)]

\* get_tail: the last tail lines of a history, all of them if tail is 0.
GetTail(history, tail) ==
    LET take == IF tail = 0 \/ tail > Len(history) THEN Len(history) ELSE tail
    IN  SubSeq(history, Len(history) - take + 1, Len(history))

\* Mutant: a streamer starts with the newest line sent.
CreateStreamerAtNewest(buffer) == [next |-> IF buffer.sent = <<>> THEN 1 ELSE Len(buffer.sent),
                                   lagged |-> FALSE]

\* create_streamer: a streamer starts behind the last line sent.
CreateStreamer(buffer) == [next |-> Len(buffer.sent) + 1, lagged |-> FALSE]

\* The channel has overwritten the streamer's next line.
Lagged(buffer, streamer) == Len(buffer.sent) - streamer.next + 1 > BroadcastCap

\* Reporting a lag moves the receiver to the oldest line of the channel.
CatchUp(buffer, streamer) ==
    [next |-> Len(buffer.sent) - BroadcastCap + 1, lagged |-> TRUE]

\* The history is what is left of the lines pushed, newest last; its account
\* is exact; and without its newest line it was within both limits.
Bounded(buffer) ==
    LET h == buffer.history
    IN  /\ \A k \in 1..Len(h) : h[k].n = buffer.pushed - Len(h) + k
        /\ buffer.current_bytes = Bytes(h)
        /\ Len(h) <= MaxLines
        /\ Len(h) > 0 => buffer.current_bytes - h[Len(h)].len < MaxBytes
        /\ buffer.pushed > 0 => Len(h) > 0
=============================================================================
