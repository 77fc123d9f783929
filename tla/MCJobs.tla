------------------------------- MODULE MCJobs -------------------------------
(* Model values and bounds for Jobs. *)
EXTENDS Jobs, TLC

CONSTANTS c1, c2, u1, u2

Y == 2026

\* The second number of the imports and a number of no series.
MCTyped == {[series |-> <<"IMP", Y>>, seq |-> 2], [series |-> None, seq |-> 1]}

MCTexts == {"A", " A ", "B", " ", ""}

MCTrim == [t \in MCTexts |-> IF t = " A " THEN "A" ELSE IF t = " " THEN "" ELSE t]

Item(n, q, price) == [itemNumber |-> n, quantity |-> q, hsCode |-> price, amount |-> 0]

\* An import and a job of no known transaction, each with a variation.
Import == [jobNumber |-> None, transaction |-> "IMP", year |-> Y, customerId |-> c1,
           assignedStaffId |-> u1, assignedStaff |-> Absent, blBookingNumber |-> " A ",
           blBookingNumbers |-> <<" ", "B">>, recordItems |-> <<>>, expenseItems |-> <<>>,
           fields |-> "new"]
Plain  == [Import EXCEPT !.transaction = "other", !.assignedStaffId = None,
                         !.blBookingNumbers = Absent]

MCCreates == {Import, Plain,
              [Import EXCEPT !.jobNumber = [series |-> <<"IMP", Y>>, seq |-> 2], !.customerId = c2],
              [Plain EXCEPT !.jobNumber = [series |-> None, seq |-> 1],
                            !.assignedStaffId = u1, !.assignedStaff = ByHand,
                            !.recordItems = <<Item(Absent, 15000, 333)>>,
                            !.expenseItems = <<[itemNumber |-> 7, amount |-> 5]>>]}

Nothing == [jobNumber |-> Absent, customerId |-> Absent, assignedStaffId |-> Absent,
            assignedStaff |-> Absent, blBookingNumber |-> Absent, blBookingNumbers |-> Absent,
            recordItems |-> Absent, expenseItems |-> Absent, fields |-> "changed"]

\* Staff u1 or u2, named by hand or not, or nobody; B/Ls of both fields; and a
\* number with another customer.
MCUpdates == {[Nothing EXCEPT !.assignedStaffId = u1],
              [Nothing EXCEPT !.assignedStaffId = u2, !.blBookingNumber = "A"],
              [Nothing EXCEPT !.assignedStaffId = None, !.blBookingNumber = None],
              [Nothing EXCEPT !.assignedStaff = ByHand,
                              !.blBookingNumbers = <<" ", " A ", "B">>],
              [Nothing EXCEPT !.jobNumber = [series |-> <<"IMP", Y>>, seq |-> 2],
                              !.customerId = c2, !.recordItems = <<>>]}

Symmetry == Permutations(Procs) \cup Permutations(JobIds)

Count == Cardinality({j \in JobIds : JobExists(j)})

\* Numbers are given to up to three jobs that are as they were created, and one
\* job that was updated is alone or has one more beside it.
Changed == {j \in JobIds : JobExists(j) /\ job[j].fields = "changed"}

Moderate ==
    /\ Changed # {} => Count <= 2 /\ Cardinality(Changed) = 1
    /\ Count = 3 => \A p \in Procs : ~At(p, "updating")

=============================================================================
