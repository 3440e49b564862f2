---------------------------- MODULE SecretLedger ----------------------------
(***************************************************************************)
(* What the enclaves of all nodes promise together about secrets, without  *)
(* keys, policies, clocks, calls or restarts of processes: every holder    *)
(* has one register per secret.  A value is drawn once, by a holder that   *)
(* had none; every other copy was given out by somebody who held it; a     *)
(* register that is not empty is replaced only by a newer value, and is    *)
(* emptied only together with all others of its holder.  At the start      *)
(* holders may have values, each its own.  EnclaveSecrets implements this  *)
(* specification, and so does SharingLedger.                               *)
(***************************************************************************)
EXTENDS Integers

CONSTANTS Holders, SecretIds,
          Values,   \* records with fields data and generation_timestamp
          Absent    \* an empty register

VARIABLES held,   \* held[h][s]: the register of holder h for secret s
          sent    \* sent[s]: the values of s that were given out

ledger == <<held, sent>>

Registers == [SecretIds -> Values \cup {Absent}]

Nothing == [s \in SecretIds |-> Absent]

\* Every copy of s there is.
Known(s) == {held[h][s] : h \in Holders} \cup sent[s]

-----------------------------------------------------------------------------
Init ==
    /\ held \in [Holders -> Registers]
    /\ \A g, h \in Holders, s \in SecretIds :
           g # h /\ held[g][s] # Absent /\ held[h][s] # Absent =>
               held[g][s].data # held[h][s].data
    /\ sent = [s \in SecretIds |-> {}]

\* Nothing but the registers of h changes.
Touches(h) ==
    /\ held' \in [Holders -> Registers]
    /\ \A x \in Holders \ {h} : held'[x] = held[x]
    /\ UNCHANGED sent

Kept(h, s) == held'[h][s] = held[h][s]

\* h had no value of some secrets and draws ones nobody has a copy of.
Draw(h) ==
    /\ Touches(h)
    /\ \A s \in SecretIds :
           \/ Kept(h, s)
           \/ /\ held[h][s] = Absent
              /\ \A v \in Known(s) \ {Absent} : v.data # held'[h][s].data

\* h takes over values that were given out where it has none or an older one.
Adopt(h) ==
    /\ Touches(h)
    /\ \A s \in SecretIds :
           \/ Kept(h, s)
           \/ /\ held'[h][s] \in sent[s]
              /\ held[h][s] # Absent =>
                     held'[h][s].generation_timestamp
                         > held[h][s].generation_timestamp

\* h gives out some of what it holds.
Give(h) ==
    /\ \E S \in SUBSET {s \in SecretIds : held[h][s] # Absent} :
           sent' = [s \in SecretIds |->
                       sent[s] \cup (IF s \in S THEN {held[h][s]} ELSE {})]
    /\ UNCHANGED held

Forget(h) ==
    /\ held' = [held EXCEPT ![h] = Nothing]
    /\ UNCHANGED sent

Next == \E h \in Holders : Draw(h) \/ Adopt(h) \/ Give(h) \/ Forget(h)

Spec == Init /\ [][Next]_ledger
=============================================================================
