----------------------------- MODULE QuotaEnvelope -----------------------------
(***************************************************************************)
(* What budget admission promises: each quota window is an envelope that   *)
(* is only ever charged, one run at a time, and never beyond its limit.    *)
(***************************************************************************)
EXTENDS Integers

CONSTANTS
  Windows,   \* the quota windows
  Charges,   \* what one run may be charged
  Limit      \* what one window may be charged in all

VARIABLE charged   \* charged[w]: what window w has been charged so far

Init == charged = [w \in Windows |-> 0]

Admit(w) ==
  \E c \in Charges :
    /\ charged[w] + c <= Limit
    /\ charged' = [charged EXCEPT ![w] = charged[w] + c]

Next == \E w \in Windows : Admit(w)

Spec == Init /\ [][Next]_charged

===============================================================================
