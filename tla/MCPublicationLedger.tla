-------------------------- MODULE MCPublicationLedger --------------------------
(***************************************************************************)
(* A small instance of PublicationLedger: two controllers, two             *)
(* repositories, one slot in a window of three ticks and a cooldown of one  *)
(* tick, so that the cap binds inside a window and the cooldown reaches     *)
(* over its end.                                                            *)
(***************************************************************************)
EXTENDS PublicationLedger

CONSTANTS r1, r2, leftovers, upstream

MCRuns == {r1, r2}
MCRepositories == {leftovers, upstream}

===============================================================================
