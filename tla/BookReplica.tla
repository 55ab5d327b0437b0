----------------------------- MODULE BookReplica -----------------------------
(***************************************************************************)
(* What a local order book promises: at every moment it is the exchange's  *)
(* book of some past moment, the moment only advances, and it does not     *)
(* stop advancing before the exchange does.  Nothing here knows of diffs,  *)
(* queues or messages.                                                     *)
(***************************************************************************)
EXTENDS Integers

CONSTANTS Levels, Amounts, NoOrder, LastId, Exchange, Deep

VARIABLES
  at,      \* the moment shown; -1 before the first
  levels   \* the amounts shown

\* The exchange's amounts, but for levels beyond the depth of a snapshot.
Pictures(n) ==
  {l \in [Levels -> Amounts] :
     \A p \in Levels : l[p] = Exchange[n][p] \/ (p \in Deep /\ l[p] = NoOrder)}

Init ==
  /\ at = -1
  /\ levels = [p \in Levels |-> NoOrder]

Advance ==
  /\ at' \in (at + 1)..LastId
  /\ levels' \in Pictures(at')

Spec ==
  /\ Init
  /\ [][Advance]_<<at, levels>>
  /\ WF_<<at, levels>>(Advance)
=============================================================================
