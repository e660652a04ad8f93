----------------------------- MODULE MCHartDirs -----------------------------
(***************************************************************************)
(* Small instances of Hart, Ramfs and FatDir for TLC.  A behaviour runs    *)
(* processes on the hart, or makes and removes files in /ram with one      *)
(* process and any path, or writes and cuts two short paths' files in /ram *)
(* with two processes, or works in one directory of the disk; the rest is  *)
(* left alone.                                                             *)
(***************************************************************************)
EXTENDS Hart, Ramfs, FatDir

VARIABLE which

\* Short paths, from the root and from the current directory: two files or
\* directories beside each other, one inside the other, and two ways up, one of
\* which makes the directory it leaves again.
TreePaths == {<<"/", "ram", "a">>, <<"/", "ram", "b">>,
              <<"/", "ram", "a", "b">>, <<"a">>, <<"b">>, <<"a", "b">>, <<"..", "b">>,
              <<"b", "..", "a", "b">>}
DataPaths == {<<"a">>, <<"b">>}
DataFlags == {{"creat"}, {"creat", "trunc"}}
One == CHOOSE p \in Callers : TRUE

\* Names that fold to one short name, one with a dot at its end, one too long for
\* a short name, one that looks like a shortened name, and two that may not be
\* used.
FileNamesDef == {<<"*", "a">>, <<"A", ".">>, <<".">>, <<"a", "+">>, <<"A", "_">>, <<"a", "a", "a", "a">>,
                 <<"A", "~", "1">>}
\* ASCII.
CodeDef == [c \in {" ", "A", "_", "~", "1", "2"} |->
              CASE c = " " -> 32 [] c = "A" -> 65 [] c = "_" -> 95 [] c = "~" -> 126
                [] c = "1" -> 49 [] c = "2" -> 50]
UpperDef == [c \in {"a"} |-> "A"]

MCInit == Init /\ RamInit /\ DirInit /\ which \in {"hart", "tree", "data", "disk"}

MCNext ==
  \/ which = "hart" /\ Next /\ UNCHANGED <<rvars, dvars, which>>
  \/ /\ which = "tree" /\ Calls({One}, TreePaths, {{}, {"creat"}}, {}, {0})
     /\ UNCHANGED <<vars, dvars, which>>
  \/ /\ which = "data" /\ Calls(Callers, DataPaths, DataFlags, Offsets, 0 .. MAXSIZE + 1)
     /\ UNCHANGED <<vars, dvars, which>>
  \/ which = "disk" /\ DirNext /\ UNCHANGED <<vars, rvars, which>>

MCSpec == MCInit /\ [][MCNext]_<<vars, rvars, dvars, which>>

\* The contents of files do not depend on how many of them there are; and once an
\* interrupt on the first dispatch has been survived, nothing is claimed of the hart.
Bounded ==
  /\ which = "data" => nvn <= 4 /\ Cardinality({k \in Nodes : node[k].used}) <= 2
  /\ ~(early /\ entered)
=============================================================================
