------------------------------- MODULE GatedWrite -------------------------------
(***************************************************************************)
(* What a run promises about GitHub: it writes there only behind three     *)
(* gates, passed in this order and never left: the run's quota is          *)
(* reserved, its patch is approved, its publication slot is taken.         *)
(***************************************************************************)
VARIABLES
  gates,   \* the gates that the run has passed
  remote   \* what it has written: "none", "branch" or "open"

Gates == {"budget", "patch", "slot"}

Before(g) == CASE g = "budget" -> {}
               [] g = "patch"  -> {"budget"}
               [] g = "slot"   -> {"budget", "patch"}

Init == gates = {} /\ remote = "none"

Pass(g) ==
  /\ g \notin gates /\ Before(g) \subseteq gates
  /\ gates' = gates \cup {g}
  /\ UNCHANGED remote

Write ==
  /\ gates = Gates
  /\ \/ remote = "none" /\ remote' = "branch"
     \/ remote = "branch" /\ remote' = "open"
  /\ UNCHANGED gates

Next == Write \/ \E g \in Gates : Pass(g)

Spec == Init /\ [][Next]_<<gates, remote>>

===============================================================================
