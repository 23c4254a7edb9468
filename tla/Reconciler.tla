----------------------------- MODULE Reconciler -----------------------------
(***************************************************************************)
(* What a deploy promises its operator, with none of the detail: a run     *)
(* brings items one by one to what is wanted of them, may break one of     *)
(* them, the one it is busy with, and only when it is cut off there,       *)
(* answers only for the items in its scope, and reports success only when  *)
(* all of those are right.  Nothing moves between runs, and what is no     *)
(* longer wanted is left where it is.                                      *)
(***************************************************************************)
CONSTANTS
    Item,
    Value,      \* what can be wanted of an item
    Nothing,    \* not wanted, or not there
    Broken      \* there, but in part

VARIABLES
    want,
    have,
    busy,       \* a run is in progress
    scope,      \* the items the current or last run answers for
    verdict     \* of the last run, if nothing was wanted anew since

vars == <<want, have, busy, scope, verdict>>

Right(x) == want[x] # Nothing => have[x] = want[x]

Init ==
    /\ want \in [Item -> Value \cup {Nothing}]
    /\ have = [x \in Item |-> Nothing]
    /\ busy = FALSE
    /\ scope \subseteq Item
    /\ verdict = "none"

Want ==
    /\ ~busy
    /\ want' \in [Item -> Value \cup {Nothing}]
    /\ verdict' = "none"
    /\ UNCHANGED <<have, busy, scope>>

Start ==
    /\ ~busy
    /\ busy' = TRUE
    /\ scope' \subseteq Item
    /\ verdict' = "none"
    /\ UNCHANGED <<want, have>>

Repair(x) ==
    /\ busy
    /\ x \in scope
    /\ ~Right(x)
    /\ have' = [have EXCEPT ![x] = want[x]]
    /\ UNCHANGED <<want, busy, scope, verdict>>

End(v) ==
    /\ busy
    /\ busy' = FALSE
    /\ verdict' = v
    /\ UNCHANGED <<want, scope>>

\* The item may have been right: a run that cannot tell writes it again.
Break(x) ==
    /\ x \in scope
    /\ want[x] # Nothing
    /\ have' = [have EXCEPT ![x] = Broken]
    /\ End("error")

Succeed == (\A x \in scope : Right(x)) /\ End("ok") /\ UNCHANGED have

GiveUp == End("error") /\ UNCHANGED have

Next ==
    \/ Want \/ Start \/ Succeed \/ GiveUp
    \/ \E x \in Item : Repair(x) \/ Break(x)

Spec == Init /\ [][Next]_vars
=============================================================================
