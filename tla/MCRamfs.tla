------------------------------- MODULE MCRamfs ------------------------------
(* Small instances of Ramfs for TLC. *)
EXTENDS Ramfs
\* Two names, in the current directory.
DataPaths == {<<"a">>, <<"b">>}
\* A file, and a path through it that goes through a directory first.
FilePaths == {<<"a">>, <<"b", "..", "a", "b">>}
DataFlags == SUBSET {"creat", "trunc"}
Perms == Permutations(Callers)
============================================================================
