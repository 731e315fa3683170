---------------------------- MODULE MCAsyncLoop -----------------------------
(* The event loop on small instances; the .cfg files give the bounds. *)
EXTENDS AsyncLoop

\* sleep_async(-1) counts as 0, the others tell an early from a late deadline.
MCDelays == {-1, 1, 2}
=============================================================================
