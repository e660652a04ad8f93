---------------------------- MODULE MCFileTable ----------------------------
(***************************************************************************)
(* Small instances of what lies behind a descriptor: the table of open     *)
(* files, their offsets and contents, the console and the block devices.   *)
(* Each behaviour runs one of them and leaves the others alone.            *)
(***************************************************************************)
EXTENDS FileTable, Tty, Virtio, FileIo

VARIABLE which

\* Devices a and b accept both drivers; c is one whose queue is too short.
QueueSizeDef == [s \in {"fw", "krn"} |-> 1]
HwDef == [d \in Devices |-> [version |-> IF d = "a" THEN 2 ELSE 1, featuresOk |-> TRUE,
                             queueMax |-> IF d = "c" THEN 0 ELSE 1]]
ImagesDef == {[d \in Devices |-> [s \in Sectors |-> IF (d = "a") = (s = 0) THEN "x" ELSE "y"]]}

\* The longer one is more than a file in /ram can hold.
ContentsDef == {<<11, 12, 13>>, <<11, 12, 13, 14, 15>>}

MCInit == /\ which \in {"files", "tty", "virtio", "io"}
          /\ FileInit /\ TtyInit /\ VirtioInit
          /\ IoInit /\ (which # "io" => \A f \in DOMAIN data : data[f] = Absent)

MCNext == \/ which = "files" /\ FileNext /\ UNCHANGED <<ttyvars, vvars, iovars, which>>
          \/ which = "tty" /\ TtyNext /\ UNCHANGED <<fvars, vvars, iovars, which>>
          \/ which = "virtio" /\ VirtioNext /\ UNCHANGED <<fvars, ttyvars, iovars, which>>
          \/ which = "io" /\ IoNext /\ UNCHANGED <<fvars, ttyvars, vvars, which>>

\* VirtioFair, asked of the behaviours of the block devices only.
Blk(A) == which = "virtio" /\ A
MCSpec == /\ MCInit /\ [][MCNext]_<<fvars, ttyvars, vvars, iovars, which>>
          /\ WF_vvars(Blk(Driver))
          /\ \A d \in Devices : WF_vvars(Blk(Device(d)))
=============================================================================
