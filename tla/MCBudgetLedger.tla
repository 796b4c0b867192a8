---------------------------- MODULE MCBudgetLedger ----------------------------
(***************************************************************************)
(* A small instance of BudgetLedger: two controllers, windows of six       *)
(* ticks, runs of two that must leave two before the reset, and a wall     *)
(* clock that is stepped once, forwards or back. The horizon check refuses *)
(* the last part of each window, and a second window is reached.           *)
(***************************************************************************)
EXTENDS BudgetLedger

CONSTANT NoReading

MCReadings == {NoReading, -1, 2, 4, 7}
MCAmounts == {1, 3}

===============================================================================
