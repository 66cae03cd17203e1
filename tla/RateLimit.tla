----------------------------- MODULE RateLimit -----------------------------
(***************************************************************************)
(* What a throttle promises an exchange session: a caller that asks to     *)
(* send is admitted only when fewer than Limit messages were admitted by   *)
(* the present throttle object, or the Limit-th last of them is more than  *)
(* TimeLimit old.  The ring of throttling.h is shown to implement this.    *)
(***************************************************************************)
EXTENDS Integers, Sequences

CONSTANTS
  Limit,      \* admissions per window
  TimeLimit   \* length of the window, in clock units

VARIABLES
  now,        \* the clock the throttle reads
  waiting,    \* a caller is inside the throttle
  sent,       \* the clock reading of every admission, oldest first
  epoch       \* how many of them an earlier throttle object admitted

vars == <<now, waiting, sent, epoch>>

MayAdmit ==
  \/ Len(sent) - epoch < Limit
  \/ now - sent[Len(sent) + 1 - Limit] > TimeLimit

Init ==
  /\ now \in Nat
  /\ waiting = FALSE
  /\ sent = <<>>
  /\ epoch = 0

Enter ==
  /\ ~waiting
  /\ waiting' = TRUE
  /\ UNCHANGED <<now, sent, epoch>>

Admit ==
  /\ waiting
  /\ MayAdmit
  /\ waiting' = FALSE
  /\ sent' = Append(sent, now)
  /\ UNCHANGED <<now, epoch>>

Renew ==
  /\ epoch' = Len(sent)
  /\ waiting' = FALSE
  /\ UNCHANGED <<now, sent>>

Clock ==
  /\ now' \in Nat
  /\ UNCHANGED <<waiting, sent, epoch>>

Next == Enter \/ Admit \/ Renew \/ Clock

Spec == Init /\ [][Next]_vars
=============================================================================
