--------------------------- MODULE MCDivergences ---------------------------
(***************************************************************************)
(* The smallest plan that shows a statement of the documentation that the  *)
(* scheduler does not keep.                                                *)
(***************************************************************************)
EXTENDS MCScheduler

ChainPlans   == {[Base EXCEPT !.deps = Chain]}
ConditionPlans == {[Base EXCEPT !.deps = Chain, !.when[2] = When("==", 1, "failed")]}

Succeeds == {o \in MCOutcomes : o.status = "success"}
=============================================================================
