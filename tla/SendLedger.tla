----------------------------- MODULE SendLedger -----------------------------
(***************************************************************************)
(* What the send path promises for one sequence, whatever calls run, in     *)
(* whatever order, and wherever they stop: each step's message is handed to *)
(* the provider at most once, it is recorded as accepted only afterwards    *)
(* and for good, and the sequence moves past a step only once the step is   *)
(* recorded, in order.                                                      *)
(***************************************************************************)
EXTENDS Naturals

CONSTANT NumSteps

VARIABLES
  sent,      \* how often each step's message reached the provider
  accepted,  \* steps whose execution records the acceptance
  position   \* steps the sequence has completed

Init ==
  /\ sent = [s \in 1..NumSteps |-> 0]
  /\ accepted = {}
  /\ position = 0

Submit(s) ==
  /\ sent[s] = 0
  /\ sent' = [sent EXCEPT ![s] = 1]
  /\ UNCHANGED <<accepted, position>>

Record(s) ==
  /\ sent[s] = 1 /\ s \notin accepted
  /\ accepted' = accepted \cup {s}
  /\ UNCHANGED <<sent, position>>

Advance ==
  /\ position + 1 \in accepted
  /\ position' = position + 1
  /\ UNCHANGED <<sent, accepted>>

Next == Advance \/ \E s \in 1..NumSteps : Submit(s) \/ Record(s)

Spec == Init /\ [][Next]_<<sent, accepted, position>>
=============================================================================
