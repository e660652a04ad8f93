------------------------------ MODULE MCShell ------------------------------
(* A small instance of Shell for the run that asks where its output goes.   *)
EXTENDS Shell
ListingsDef == {<<[name |-> <<"w", "cd">>, dir |-> TRUE]>>}
============================================================================
