---------------------------- MODULE GoalLifecycle ----------------------------
(***************************************************************************)
(* What the life of a goal promises to whoever reads the store: a goal     *)
(* moves along draft -> planning -> planned -> released and back only from *)
(* planning to draft, a released goal stays released, a deleted one stays  *)
(* deleted, and a task is offered to the dispatcher only by a released     *)
(* goal.  The owner's own way of starting a task is not part of it.        *)
(***************************************************************************)
CONSTANT Goals

VARIABLES
  stage,    \* goal -> where it is
  offered   \* pairs <<task, goal>> the dispatcher may start by itself

Edges ==
  {<<"draft", "planning">>, <<"planning", "draft">>, <<"planning", "planned">>,
   <<"planned", "released">>, <<"draft", "gone">>}

Init == stage = [g \in Goals |-> "draft"] /\ offered = {}

\* One goal takes one edge, or none moves.
Advance ==
  \/ UNCHANGED stage
  \/ \E g \in Goals, to \in {"draft", "planning", "planned", "released", "gone"} :
       /\ <<stage[g], to>> \in Edges
       /\ stage' = [stage EXCEPT ![g] = to]

\* A task joins the offer only under a released goal; it may leave it freely.
Offer == \A x \in offered' \ offered : stage'[x[2]] = "released"

Next == Advance /\ Offer

Spec == Init /\ [][Next]_<<stage, offered>>
=============================================================================
