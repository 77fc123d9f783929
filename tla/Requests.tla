------------------------------ MODULE Requests ------------------------------
(***************************************************************************)
(* The requests a Node process works on at the same time.  A handler runs  *)
(* up to an await and goes on later: req[p] is how far request p has come  *)
(* (its pc) and what it holds from the reads it has made.  Every service   *)
(* has a shape of its own for the record.                                  *)
(***************************************************************************)
CONSTANTS
    Procs,  \* requests that may be in flight together
    None    \* null, absent, undefined

VARIABLE req

At(p, pc) == req[p].pc = pc

Goes(p, r) == req' = [req EXCEPT ![p] = r]

=============================================================================
