-------------------------------- MODULE OneShot --------------------------------
(***************************************************************************)
(* What the activation controller promises its callers: each question (is  *)
(* this plugin usable?) is opened once, decided once, and everyone who     *)
(* asks it hears the decision.                                             *)
(***************************************************************************)
CONSTANTS
    Askers, Questions,
    Open, Running,  \* a question nobody has worked on; one being worked on
    Verdicts,       \* the decisions
    MayAbandon      \* may the work on a question be given up?

VARIABLES
    decision,  \* Open, Running or a verdict, per question
    asking,    \* the askers that have not been answered yet
    question,  \* what each asker last asked
    heard      \* every verdict ever handed out, per question

vars == <<decision, asking, question, heard>>

Init ==
    /\ decision = [q \in Questions |-> Open]
    /\ asking = {}
    /\ question \in [Askers -> Questions]
    /\ heard = [q \in Questions |-> {}]

Ask(a, q) ==
    /\ a \notin asking
    /\ asking' = asking \cup {a}
    /\ question' = [question EXCEPT ![a] = q]
    /\ UNCHANGED <<decision, heard>>

(* Only a question somebody is asking is worked on, and only once. *)
Begin(a) ==
    /\ a \in asking
    /\ decision[question[a]] = Open
    /\ decision' = [decision EXCEPT ![question[a]] = Running]
    /\ UNCHANGED <<asking, question, heard>>

Decide(q, v) ==
    /\ decision[q] = Running
    /\ decision' = [decision EXCEPT ![q] = v]
    /\ UNCHANGED <<asking, question, heard>>

Answer(a) ==
    /\ a \in asking
    /\ decision[question[a]] \in Verdicts
    /\ asking' = asking \ {a}
    /\ heard' = [heard EXCEPT ![question[a]] = @ \cup {decision[question[a]]}]
    /\ UNCHANGED <<decision, question>>

(* The asker that was working on a question gives up; it stays so. *)
Abandon(a) ==
    /\ MayAbandon
    /\ a \in asking
    /\ decision[question[a]] = Running
    /\ asking' = asking \ {a}
    /\ UNCHANGED <<decision, question, heard>>

Next ==
    \/ \E a \in Askers : \/ \E q \in Questions : Ask(a, q)
                         \/ Begin(a) \/ Answer(a) \/ Abandon(a)
    \/ \E q \in Questions : \E v \in Verdicts : Decide(q, v)

Spec == Init /\ [][Next]_vars
===============================================================================
