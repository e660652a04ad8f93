------------------------------ MODULE MCSystem ------------------------------
(***************************************************************************)
(* Small instances of what lies around the kernel: the scan of the device  *)
(* tree, the boot, the timer below; the allocator and the directory reader *)
(* of the C library and the shell above.  Each behaviour runs one of them, *)
(* the others stay as they started.                                        *)
(***************************************************************************)
EXTENDS Fdt, Boot, Timer, Malloc, Shell, Listing

VARIABLE which

\* Three images: text, a segment that is not loaded, data with bss; bss first; and
\* one segment, too high for the smallest memory.
Seg(l, p, f, m) == [load |-> l, paddr |-> p, filesz |-> f, memsz |-> m]
Elf1 == <<Seg(TRUE, 6, 2, 2), Seg(FALSE, 0, 1, 1), Seg(TRUE, 8, 1, 3)>>
Elf2 == <<Seg(TRUE, 9, 0, 2), Seg(TRUE, 6, 1, 3)>>
Elf3 == <<Seg(TRUE, 10, 1, 2)>>
\* With an initrd, of the last pages or of more than there is, and without.
Files == [segs : {Elf1}, initrd : {0, 3}] \cup [segs : {Elf2}, initrd : {3, 9}]
         \cup [segs : {Elf3}, initrd : {0}]
\* A tree lies clear of everything loaded, under an initrd at the end of the
\* larger memory, or where a segment goes.
Trees == {t \in [have : BOOLEAN, scans : BOOLEAN, mem : {<<>>, <<4, 12>>, <<4, 7>>},
                 bases : {<<>>, <<0, 1, 2>>, <<1, 2>>}, place : {{}, {15}, {11, 12}, {7}}] :
            /\ ~(t.have /\ t.scans) => t.mem = <<>> /\ t.bases = <<>> /\ ~t.scans
            /\ t.have <=> t.place # {}
            /\ t.place = {11, 12} => t.mem = <<4, 12>>
            /\ t.place = {7} => t.mem = <<>> /\ t.bases = <<1, 2>>}
MachinesDef ==
  {m \in [tree : Trees, refused : BOOLEAN, slots : [Slots -> {"empty", "dead", "fat", "image"}],
          image : Files] :
     m.refused => m.tree.scans /\ m.tree.place = {15}}
DefMemDef == <<4, 8>>
EmptyMachine == CHOOSE m \in MachinesDef : \A s \in Slots : m.slots[s] = "empty"

\* Too short for two cells each, two cells each, and a memory node of size 0.
RegsDef == {<<1, 2>>, <<0, 1, 0, 2>>, <<0, 2, 0, 0>>}

ListingsDef ==
  {<<[name |-> <<"w", "cd">>, dir |-> TRUE], [name |-> <<"w", "pwd", "cd">>, dir |-> FALSE],
     [name |-> <<"w", "cd", "cd">>, dir |-> FALSE]>>,
   <<[name |-> <<"cd", "w", "cd", "cd">>, dir |-> FALSE]>>}

\* The last name's record is too long for the kernel's buffer.
RecLenDef == <<4, 4, 5, 4, 4, 7>>

MCInit == /\ which \in {"fdt", "boot", "timer", "malloc", "shell", "listing"}
          /\ ListingInit /\ (which # "listing" => fs = "ram" /\ names = <<>>)
          /\ BootInit /\ (which # "boot" => mach = EmptyMachine)
          /\ FdtInit /\ TimerInit /\ MallocInit /\ ShellInit

MCNext ==
  \/ which = "fdt" /\ FdtNext /\ UNCHANGED <<bvars, tvars, mvars, shvars, lsvars, which>>
  \/ which = "boot" /\ BootNext /\ UNCHANGED <<fdtvars, tvars, mvars, shvars, lsvars, which>>
  \/ which = "timer" /\ TimerNext /\ UNCHANGED <<fdtvars, bvars, mvars, shvars, lsvars, which>>
  \/ which = "malloc" /\ MallocNext /\ UNCHANGED <<fdtvars, bvars, tvars, shvars, lsvars, which>>
  \/ which = "shell" /\ ShellNext /\ UNCHANGED <<fdtvars, bvars, tvars, mvars, lsvars, which>>
  \/ which = "listing" /\ ListingNext /\ UNCHANGED <<fdtvars, bvars, tvars, mvars, shvars, which>>

\* BootFair, TimerFair and ShellFair, each asked of its own behaviours only.
Boots(A) == which = "boot" /\ A
Ticks(A) == which = "timer" /\ A
Shells(A) == which = "shell" /\ A
MCSpec == /\ MCInit /\ [][MCNext]_<<fdtvars, bvars, tvars, mvars, shvars, lsvars, which>>
          /\ WF_bvars(Boots(BootNext))
          /\ WF_tvars(Ticks(MachineTimer)) /\ WF_tvars(Ticks(mtrap_handler)) /\ WF_tvars(Ticks(Mret))
          /\ WF_tvars(Ticks(timer_init \/ SetTimer("arm", "enable") \/ trap_enable))
          /\ WF_tvars(Ticks(SetTimer("rearm", "kernel"))) /\ SF_tvars(Ticks(Sysret))
          /\ SF_tvars(Ticks(timer_handle))
          /\ WF_shvars(Shells(Command)) /\ WF_shvars(Shells(Wait))
          /\ WF_shvars(Shells(ChildExits)) /\ WF_shvars(Shells(Prompt))
=============================================================================
