----------------------------- MODULE MCTryCatch -----------------------------
(* try / catch on small instances; the .cfg files give the bounds. *)
EXTENDS TryCatch
=============================================================================
