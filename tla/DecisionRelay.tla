--------------------------- MODULE DecisionRelay ---------------------------
(***************************************************************************)
(* What POST /simulate promises, without forms, clients, HTTP or bodies:   *)
(* a submission asks the gateway at most once, the kernel decides an asked *)
(* submission at most once, and the submission is answered once, with the  *)
(* kernel's decision or with no decision.  The answer may come before the  *)
(* decision (a lost or late reply); then it is no decision, for good.      *)
(***************************************************************************)
CONSTANTS Submissions, Decisions

VARIABLES asked,    \* submissions the gateway was asked about
          decided,  \* the kernel's decision on each
          answer    \* what the operator was told

vars == <<asked, decided, answer>>

Pending == "pending"
NoDecision == "no_decision"
Undecided == "undecided"

Init ==
    /\ asked = {}
    /\ decided = [s \in Submissions |-> Undecided]
    /\ answer = [s \in Submissions |-> Pending]

Ask(s) ==
    /\ answer[s] = Pending
    /\ s \notin asked
    /\ asked' = asked \cup {s}
    /\ UNCHANGED <<decided, answer>>

Decide(s, d) ==
    /\ s \in asked
    /\ decided[s] = Undecided
    /\ decided' = [decided EXCEPT ![s] = d]
    /\ UNCHANGED <<asked, answer>>

Answer(s) ==
    /\ answer[s] = Pending
    /\ \E a \in {NoDecision, decided[s]} \ {Undecided} : answer' = [answer EXCEPT ![s] = a]
    /\ UNCHANGED <<asked, decided>>

Next ==
    \E s \in Submissions :
        Ask(s) \/ Answer(s) \/ \E d \in Decisions : Decide(s, d)

Spec == Init /\ [][Next]_vars

=============================================================================
