----------------------------- MODULE Operation -----------------------------
(***************************************************************************)
(* What the independent executors promise about an operation, a turn or a  *)
(* command known by its stable identity (README.md, "Independent           *)
(* executors"): it is accepted once, with one set of inputs, native work   *)
(* starts at most once and only after that, it ends with one final result, *)
(* and an operation whose owner is lost is never run again.                *)
(***************************************************************************)
EXTENDS Naturals

CONSTANTS Ops, Inputs, Outcomes, Absent  \* Absent: neither an input nor an outcome

VARIABLES
  accepted,  \* the inputs an operation was accepted with
  begun,     \* how often native work was started
  outcome    \* the final result

operationVars == <<accepted, begun, outcome>>

Init ==
  /\ accepted = [o \in Ops |-> Absent]
  /\ begun = [o \in Ops |-> 0]
  /\ outcome = [o \in Ops |-> Absent]

Accept(o, i) ==
  /\ accepted[o] = Absent
  /\ accepted' = [accepted EXCEPT ![o] = i]
  /\ UNCHANGED <<begun, outcome>>

Begin(o) ==
  /\ accepted[o] # Absent /\ outcome[o] = Absent /\ begun[o] = 0
  /\ begun' = [begun EXCEPT ![o] = 1]
  /\ UNCHANGED <<accepted, outcome>>

\* With or without native work: preparing it may fail.
End(o, r) ==
  /\ accepted[o] # Absent /\ outcome[o] = Absent
  /\ outcome' = [outcome EXCEPT ![o] = r]
  /\ UNCHANGED <<accepted, begun>>

Next ==
  \E o \in Ops :
    \/ \E i \in Inputs : Accept(o, i)
    \/ Begin(o)
    \/ \E r \in Outcomes : End(o, r)

Spec == Init /\ [][Next]_operationVars
=============================================================================
