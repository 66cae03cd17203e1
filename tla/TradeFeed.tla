----------------------------- MODULE TradeFeed -----------------------------
(***************************************************************************)
(* What the OMS is promised about trades: it hears only of trades that     *)
(* were made, and of none twice from the same gateway process.             *)
(***************************************************************************)
EXTENDS Integers

CONSTANT MaxTrades   \* bound: trades of a partition

Partitions == {1, 2}
Trades     == Partitions \X (1 .. MaxTrades)   \* a trade is its partition and number

VARIABLES
  made,   \* trades of each partition
  told    \* how often this process told of each trade

vars == <<made, told>>

Init ==
  /\ made = [p \in Partitions |-> 0]
  /\ told = [t \in Trades |-> 0]

Make(p) ==
  /\ made[p] < MaxTrades
  /\ made' = [made EXCEPT ![p] = @ + 1]
  /\ UNCHANGED told

Tell(t) ==
  /\ t[2] <= made[t[1]]
  /\ told[t] = 0
  /\ told' = [told EXCEPT ![t] = 1]
  /\ UNCHANGED made

NewProcess ==
  /\ told' = [t \in Trades |-> 0]
  /\ UNCHANGED made

Next ==
  \/ \E p \in Partitions : Make(p)
  \/ \E t \in Trades : Tell(t)
  \/ NewProcess

Spec == Init /\ [][Next]_vars
=============================================================================
