------------------------------ MODULE MCPlans ------------------------------
(* Model values and bounds for ClearancePlans. *)
EXTENDS ClearancePlans, TLC

MCContainers == {"A1", "a1", "B2"}

MCKey == [c \in MCContainers |-> IF c = "B2" THEN "b2" ELSE "a1"]

\* No container, one, or two, each with the id of any row or none: the two are
\* one container spelled twice, or two containers in either order.
Entries(cs) == [id : PlanIds \cup {None}, container : cs]
MCPayloads  == {<<>>} \cup {<<x>> : x \in Entries({"a1", "B2"})}
                 \cup {<<x, y>> : x \in Entries({"A1", "B2"}), y \in Entries({"a1", "B2"})}

Symmetry == Permutations(Procs) \cup Permutations(PlanIds) \cup Permutations(Jobs)

\* One row at most is past the first status, one sync at most is in flight, and
\* requests overlap until something is changed under one of them.
Moderate ==
    /\ disturbed = {}
    /\ Cardinality({p \in Procs : At(p, "syncing")}) <= 1
    /\ Cardinality({id \in PlanIds : Live(plan, id) /\ plan[id].status # NewStatus}) <= 1

=============================================================================
