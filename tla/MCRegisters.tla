---------------------------- MODULE MCRegisters ----------------------------
(* Model values and bounds for Registers. *)
EXTENDS Registers, TLC

\* VAT 10% is the default of the seed.
MCSeeded == [percent \in {10, 20} |-> percent = 10]

\* Bound: the registers share nothing, so one of them moves at a time.
TypesRest ==
    /\ {type[t] : t \in TypeIds} = {None, [code |-> <<Other, 1>>, isActive |-> TRUE]}
    /\ \A i \in Records : record[i] = None
    /\ slipped = {}
RatesRest     ==
    /\ {rate[r] : r \in RateIds} = {None} \cup {[percent |-> n, isDefault |-> MCSeeded[n]] : n \in {10, 20}}
    /\ ~missed /\ chosen
CustomersRest == \A c \in Customers : customer[c] = [isActive |-> TRUE, remark |-> None, explained |-> TRUE]

RatePcs == {"create", "update", "removing"}
TypePcs == {"typing", "untyping", "recording"}

Pcs == {req[p].pc : p \in Procs} \ {"idle"}

OneRegister ==
    \/ TypesRest /\ CustomersRest /\ Pcs \subseteq RatePcs
    \/ RatesRest /\ CustomersRest /\ Pcs \subseteq TypePcs
    \/ RatesRest /\ TypesRest /\ Pcs \subseteq {"customer"}

Symmetry == Permutations(Procs) \cup Permutations(RateIds) \cup Permutations(TypeIds)
                \cup Permutations(Records)

=============================================================================
