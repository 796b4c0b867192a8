------------------------------ MODULE MCRunCycle ------------------------------
(***************************************************************************)
(* Small instances of RunCycle.                                            *)
(***************************************************************************)
EXTENDS RunCycle

\* Every configuration.
MCConfigurations == Configuration

\* A run that is to publish, with setup commands and repairs.
MCPublishing ==
  {c \in Configuration : /\ c.execute /\ c.publish /\ c.authorized
                         /\ c.tests /\ c.setup /\ c.github}

===============================================================================
