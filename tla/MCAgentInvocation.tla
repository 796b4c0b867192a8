--------------------------- MODULE MCAgentInvocation ---------------------------
(***************************************************************************)
(* Small instances of AgentInvocation: adapters with every setting, and      *)
(* codex-cli with the one that the configuration allows.                     *)
(***************************************************************************)
EXTENDS AgentInvocation

MCConfigurations ==
  {[backend |-> "adapter", checkin |-> TRUE, usage |-> TRUE],
   [backend |-> "adapter", checkin |-> FALSE, usage |-> FALSE],
   [backend |-> "codex-cli", checkin |-> TRUE, usage |-> TRUE]}

\* The wall clock is stepped back by more than a reported time may be ahead.
MCClockSteps == {-2}

===============================================================================
