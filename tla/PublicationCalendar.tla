-------------------------- MODULE PublicationCalendar --------------------------
(***************************************************************************)
(* What the publication ledger promises: a calendar of grants to open one  *)
(* pull request each.  A window never holds more grants than its cap, two  *)
(* grants for one repository are more than a cooldown apart, and a grant   *)
(* is never taken back.                                                    *)
(***************************************************************************)
EXTENDS Integers, FiniteSets

CONSTANTS
  Holders,   \* who may be given a grant
  Grants,    \* [window |-> ..., repository |-> ..., at |-> ...]
  NoGrant,
  Cap,       \* grants in one window
  Cooldown   \* between two grants for one repository

VARIABLE granted   \* granted[h]: the grant of h, or NoGrant

Init == granted = [h \in Holders |-> NoGrant]

Granted == {h \in Holders : granted[h] # NoGrant}

Apart(s, t) == s - t > Cooldown \/ t - s > Cooldown

Grant(h) ==
  /\ granted[h] = NoGrant
  /\ \E g \in Grants :
       /\ Cardinality({k \in Granted : granted[k].window = g.window}) < Cap
       /\ \A k \in Granted : granted[k].repository = g.repository
                               => Apart(granted[k].at, g.at)
       /\ granted' = [granted EXCEPT ![h] = g]

Next == \E h \in Holders : Grant(h)

Spec == Init /\ [][Next]_granted

===============================================================================
