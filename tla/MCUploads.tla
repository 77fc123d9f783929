----------------------------- MODULE MCUploads -----------------------------
(* Model values and bounds for Uploads. *)
EXTENDS Uploads, TLC

\* A picture of a user, one of a customer, a document of a job, and a file of a
\* type that is refused.
MCBodies ==
    {[mimeType |-> "image/png", owner |-> <<"User", "u1">>, documentType |-> None],
     [mimeType |-> "image/jpeg", owner |-> <<"Customer", "c1">>, documentType |-> "REPRESENTATIVE_IMAGE"],
     [mimeType |-> "application/pdf", owner |-> <<"ClearanceJob", "j1">>, documentType |-> "PATENT"],
     [mimeType |-> "text/html", owner |-> None, documentType |-> None]}

MCOwners == {<<"User", "u1">>, <<"Customer", "c1">>}

Symmetry == Permutations(Procs) \cup Permutations(Files)

=============================================================================
