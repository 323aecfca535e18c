--------------------------------- MODULE Launch ---------------------------------
(***************************************************************************)
(* What the start of a desktop app promises: it ends in the use of the      *)
(* gateway that was started for it, once that gateway is up, or in failure.  *)
(***************************************************************************)
CONSTANTS
    Starts,
    Nobody

VARIABLES
    up,       \* the starts whose gateway has come up
    outcome,  \* what each start has come to
    uses      \* whose gateway each start uses

vars == <<up, outcome, uses>>

Init ==
    /\ up = {}
    /\ outcome = [s \in Starts |-> "none"]
    /\ uses = [s \in Starts |-> Nobody]

ComeUp(s) ==
    /\ s \notin up
    /\ up' = up \cup {s}
    /\ UNCHANGED <<outcome, uses>>

Succeed(s) ==
    /\ outcome[s] = "none"
    /\ s \in up
    /\ outcome' = [outcome EXCEPT ![s] = "open"]
    /\ uses' = [uses EXCEPT ![s] = s]
    /\ UNCHANGED up

Fail(s) ==
    /\ outcome[s] = "none"
    /\ outcome' = [outcome EXCEPT ![s] = "failed"]
    /\ UNCHANGED <<up, uses>>

End(s) ==
    /\ outcome[s] # "over"
    /\ outcome' = [outcome EXCEPT ![s] = "over"]
    /\ UNCHANGED <<up, uses>>

Next == \E s \in Starts : ComeUp(s) \/ Succeed(s) \/ Fail(s) \/ End(s)

Spec == Init /\ [][Next]_vars
===============================================================================
