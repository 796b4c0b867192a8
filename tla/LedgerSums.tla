------------------------------ MODULE LedgerSums ------------------------------
(***************************************************************************)
(* The SUM(...) of the ledger's SQL, over rows numbered by run.            *)
(***************************************************************************)
EXTENDS Integers

\* SumUpTo(v)[n] = v[1] + ... + v[n].
SumUpTo(v) ==
  LET f[n \in Nat] == IF n = 0 THEN 0 ELSE f[n - 1] + v[n] IN f

===============================================================================
