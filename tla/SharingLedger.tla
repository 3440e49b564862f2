--------------------------- MODULE SharingLedger ---------------------------
(***************************************************************************)
(* SecretSharing with a history of what the enclaves gave out, and what    *)
(* the nodes promise together: with all that daemons, timeouts and the     *)
(* network do, secrets are drawn, given out and replaced as SecretLedger   *)
(* says.                                                                   *)
(***************************************************************************)
EXTENDS SecretSharing

VARIABLE sent   \* history, sent[s]: the copies of s that responses carried

history == <<vars, sent>>

\* The responses that a step gossips.
Gossiped ==
    {message \in UNION {inbox'[n] \ inbox[n] : n \in Enclaves} : message.type = "response"}

Carried(s) == {message.box.contents[s] : message \in Gossiped} \ {Absent}

Record == sent' = [s \in SecretIds |-> sent[s] \cup Carried(s)]

HistoryInit == Init /\ sent = [s \in SecretIds |-> {}]

HistoryNext == Next /\ Record

HistorySpec == HistoryInit /\ [][HistoryNext]_history

FairHistorySpec == HistorySpec /\ Fairness

-----------------------------------------------------------------------------
Ledger == INSTANCE SecretLedger WITH
    Holders <- Enclaves, Values <- StoredSecret, held <- storage

\* Whatever callers, timeouts and gossip messages do in whatever order, the
\* enclaves of the nodes implement the ledger of secrets: a timeout generates a
\* value only where there is none and never one that anybody has a copy of, and
\* a finalizer stores only what some enclave gave out, never over a value that
\* is as new.
NodesImplementLedger == Ledger!Spec
=============================================================================
