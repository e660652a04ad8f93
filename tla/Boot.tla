-------------------------------- MODULE Boot --------------------------------
(***************************************************************************)
(* From reset to the first process: firmware_main (firmware/main.c) finds  *)
(* memory and the disk that holds the image, loads the kernel's segments   *)
(* and the initrd and enters the kernel, whose kernel_main (main.c) frees  *)
(* the rest of memory, picks the root disk (blk.c) and starts the shell.   *)
(*                                                                         *)
(* What the device tree says is one record of the machine (Fdt models how  *)
(* it is read), as long as its words in memory are what they were at       *)
(* reset: the loader keeps nothing clear of them, and firmware_main takes  *)
(* its copy for the kernel only when everything is loaded.  The transport  *)
(* under disk_read_bytes is Virtio's; here a read works or fails.  Memory  *)
(* is a few words, pages of Page words.                                    *)
(***************************************************************************)
EXTENDS Naturals, Sequences, FiniteSets

CONSTANTS Slots,      \* virtio-mmio slots, 0..7 in the code
          Machines,   \* machines to boot: device tree, slots, image
          Page,
          Words,      \* addresses of the machine's memory
          Fixed,      \* the firmware's own words, g_dtb_copy among them
          DefMem      \* memory of a machine without a device tree

\* Slots are numbered.  The linker scripts put the kernel above the firmware and
\* its sections one behind the other, and bss into the last of them; the image's
\* initrd is no bigger than the memory it is for.
ASSUME BootAssumption ==
    /\ Cardinality(Slots) \in Nat \ {0} /\ Slots = 0 .. (Cardinality(Slots) - 1)
    /\ Page \in Nat \ {0} /\ Words \subseteq Nat /\ Fixed \subseteq Words
    /\ \A m \in Machines : m.tree.place \in SUBSET (Words \ Fixed)
    /\ \A m \in Machines :
         LET segs == m.image.segs
             loaded == {k \in 1..Len(segs) : segs[k].load}
         IN  /\ m.tree.bases \in Seq(Slots)
             /\ \A mem \in {DefMem, m.tree.mem} \ {<<>>} :
                  /\ mem \in Nat \X Nat /\ mem[1] .. (mem[1] + mem[2] - 1) \subseteq Words
                  /\ m.image.initrd + Page <= mem[1] + mem[2]
             /\ DefMem # <<>> /\ m.image.initrd \in Nat
             /\ segs \in Seq([load : BOOLEAN, paddr : Nat, filesz : Nat, memsz : Nat])
             /\ loaded # {}
             /\ \A k \in loaded : \A w \in Fixed : w < segs[k].paddr
             /\ \A k, l \in loaded : k # l => \/ segs[k].paddr + segs[k].memsz <= segs[l].paddr
                                             \/ segs[l].paddr + segs[l].memsz <= segs[k].paddr

VARIABLES mach,   \* the machine: tree, slot contents, image
          boot,   \* locals of firmware_main and kernel_main, and where it is
          ram,    \* what each word of memory holds
          pool    \* pages kinit gave to the allocator

bvars == <<mach, boot, ram, pool>>

None == Cardinality(Slots)   \* no slot

BootInit ==
    /\ mach \in Machines
    /\ boot = [at |-> "reset", mem |-> <<0, 0>>, list |-> <<>>, i |-> 1, first |-> None,
               disk |-> None, kend |-> 0, initrd |-> 0, copy |-> {}, failed |-> FALSE,
               root |-> None]
    /\ ram = [w \in Words |-> IF w \in Fixed THEN <<"fw">>
                              ELSE IF w \in mach.tree.place THEN <<"dtb", w>> ELSE <<"junk">>]
    /\ pool = {}

Panic == boot' = [boot EXCEPT !.at = "panic"] /\ UNCHANGED <<mach, ram, pool>>
ReadFails == boot' = [boot EXCEPT !.at = "panic", !.failed = TRUE] /\ UNCHANGED <<mach, ram, pool>>

-----------------------------------------------------------------------------
\* Every slot of the virt machine answers the magic number; an empty one has
\* device id 0.  Without a tree the slots are tried from the last to the first.
scan_fixed_virtio_bases == [k \in 1..Cardinality(Slots) |-> Cardinality(Slots) - k]

\* have: there is a tree with the right magic number and a size; scans: both
\* scans get to its end.  A tree that scans and names no virtio device leaves the
\* list empty, without a fallback.
Scanned == mach.tree.have /\ mach.tree.scans
VirtioBases == IF Scanned THEN mach.tree.bases ELSE scan_fixed_virtio_bases
MemoryRange == IF Scanned /\ mach.tree.mem # <<>> THEN mach.tree.mem ELSE DefMem
IsBlk(s) == mach.slots[s] # "empty"

FindMemory ==
    /\ boot.at = "reset"
    /\ boot' = [boot EXCEPT !.at = "probe", !.list = VirtioBases, !.mem = MemoryRange]
    /\ UNCHANGED <<mach, ram, pool>>

\* find_virtio_blk_base, one turn of its loop: a block device that starts and
\* whose first sector can be read and holds the image header ends the search.
Header(s) == mach.slots[s] = "image"
Probe_TakesFirst(ok) ==
    /\ boot.at = "probe" /\ boot.i <= Len(boot.list)
    /\ LET s == boot.list[boot.i]
           found == IsBlk(s) /\ mach.slots[s] # "dead" /\ ok
       IN  boot' = [boot EXCEPT
                      !.i = @ + 1,
                      !.first = IF IsBlk(s) /\ @ = None THEN s ELSE @,
                      !.failed = @ \/ (IsBlk(s) /\ ~ok),
                      !.disk = IF found THEN s ELSE @,
                      !.at = IF found THEN "select" ELSE @]
    /\ UNCHANGED <<mach, ram, pool>>

Probe(ok) ==
    /\ boot.at = "probe" /\ boot.i <= Len(boot.list)
    /\ LET s == boot.list[boot.i]
           found == IsBlk(s) /\ mach.slots[s] # "dead" /\ ok /\ Header(s)
       IN  boot' = [boot EXCEPT
                      !.i = @ + 1,
                      !.first = IF IsBlk(s) /\ @ = None THEN s ELSE @,
                      !.failed = @ \/ (IsBlk(s) /\ ~ok),
                      !.disk = IF found THEN s ELSE @,
                      !.at = IF found THEN "select" ELSE @]
    /\ UNCHANGED <<mach, ram, pool>>

ProbeEnds ==
    /\ boot.at = "probe" /\ boot.i > Len(boot.list)
    /\ boot' = [boot EXCEPT !.at = "select", !.disk = IF boot.first # None THEN boot.first ELSE 0]
    /\ UNCHANGED <<mach, ram, pool>>

\* The disk is started a second time and its header read and checked again.
ReadHeader ==
    /\ boot.at = "select"
    /\ IF mach.slots[boot.disk] \in {"empty", "dead"} \/ ~Header(boot.disk) THEN Panic
       ELSE \/ boot' = [boot EXCEPT !.at = "load", !.i = 1] /\ UNCHANGED <<mach, ram, pool>>
            \/ ReadFails

\* load_elf: the ELF header, then one program header after the other.
Segs == mach.image.segs
MemEnd == boot.mem[1] + boot.mem[2]
InMemory(p) == p.paddr >= boot.mem[1] /\ p.paddr + p.memsz <= MemEnd
Text(p, w) == IF w < p.paddr + p.filesz THEN <<"text", p.paddr, w - p.paddr>> ELSE <<"zero">>

LoadSegment ==
    /\ boot.at = "load" /\ boot.i <= Len(Segs)
    /\ LET p == Segs[boot.i]
           end == p.paddr + p.memsz
       IN  CASE ~p.load ->
                  boot' = [boot EXCEPT !.i = @ + 1] /\ UNCHANGED <<mach, ram, pool>>
             [] p.load /\ ~InMemory(p) -> Panic
             [] OTHER ->
                  \/ /\ ram' = [w \in Words |-> IF w \in p.paddr..(end - 1) THEN Text(p, w) ELSE ram[w]]
                     /\ boot' = [boot EXCEPT !.i = @ + 1, !.kend = IF end > @ THEN end ELSE @]
                     /\ UNCHANGED <<mach, pool>>
                  \/ ReadFails

PageDown(n) == n - (n % Page)
PageUp(n) == PageDown(n + Page - 1)
InitrdAt_Short == PageDown(MemEnd - PageDown(mach.image.initrd))

InitrdAt == PageDown(MemEnd - PageUp(mach.image.initrd))

\* The initrd goes to the last pages of memory, clear of the kernel.
LoadInitrd ==
    /\ boot.at = "load" /\ boot.i > Len(Segs)
    /\ LET n == mach.image.initrd
       IN  CASE n = 0 -> boot' = [boot EXCEPT !.at = "enter"] /\ UNCHANGED <<mach, ram, pool>>
             [] n > 0 /\ InitrdAt <= boot.kend -> Panic
             [] OTHER ->
                  \/ /\ ram' = [w \in Words |-> IF w \in InitrdAt..(InitrdAt + n - 1)
                                                THEN <<"initrd", w - InitrdAt>> ELSE ram[w]]
                     /\ boot' = [boot EXCEPT !.at = "enter", !.initrd = InitrdAt]
                     /\ UNCHANGED <<mach, pool>>
                  \/ ReadFails

\* The timebase is looked up in the tree where it lies and the tree is copied to
\* g_dtb_copy, both as the loads have left it: boot.copy is what is still right of
\* it.  The look-up reads a damaged tree without a limit: it may fault or never
\* end.  Then bootinfo, delegation and mret.
EnterKernel ==
    /\ boot.at = "enter"
    /\ LET kept == {w \in mach.tree.place : ram[w] = <<"dtb", w>>}
       IN  \/ boot' = [boot EXCEPT !.at = "kinit", !.copy = kept] /\ UNCHANGED <<mach, ram, pool>>
           \/ kept # mach.tree.place /\ Panic

\* __kernel_end, a symbol of the linker script, is the end of the last segment.
kernel_end == boot.kend
kinit ==
    /\ boot.at = "kinit"
    /\ pool' = {p \in Words : p % Page = 0 /\ p >= PageUp(kernel_end) /\ p + Page <= MemEnd}
    /\ ram' = [w \in Words |-> IF PageDown(w) \in pool' THEN <<"free">> ELSE ram[w]]
    /\ boot' = [boot EXCEPT !.at = "blk"]
    /\ UNCHANGED mach

\* What the kernel's scan of the copy gives: of an intact one what the firmware
\* found, unless the kernel refuses a tree the firmware took; of a damaged one the
\* fixed list or any other.
Lists == UNION {[1..n -> Slots] : n \in 0..Cardinality(Slots)}
KernelBases ==
    IF boot.copy # mach.tree.place THEN Lists \cup {scan_fixed_virtio_bases}
    ELSE IF mach.refused THEN {scan_fixed_virtio_bases} ELSE {VirtioBases}

\* blk_init: the block devices in the order of the list, root_disk_index (the
\* firmware always says 1) among them, the first when there are not that many.  A
\* damaged copy may name an address where the kernel faults.
RootIndex(blks) == IF 1 >= Cardinality(blks) THEN 0 ELSE 1
blk_init ==
    /\ boot.at = "blk"
    /\ \/ \E bases \in KernelBases :
            LET blks == {k \in DOMAIN bases : IsBlk(bases[k])}
            IN  /\ \/ /\ blks = {}
                      /\ boot' = [boot EXCEPT !.at = "noroot"]
                   \/ \E k \in blks :
                        /\ Cardinality({j \in blks : j < k}) = RootIndex(blks)
                        /\ boot' = IF mach.slots[bases[k]] = "dead" THEN [boot EXCEPT !.at = "noroot"]
                                   ELSE [boot EXCEPT !.at = "mount", !.root = bases[k]]
                /\ UNCHANGED <<mach, ram, pool>>
       \/ boot.copy # mach.tree.place /\ Panic

\* fat32_init needs a FAT volume in the first sector; ramfs goes to /ram if the
\* directory is there, and either way the boot goes on.
fat32_init ==
    /\ boot.at = "mount"
    /\ \/ boot' = [boot EXCEPT !.at = IF mach.slots[boot.root] = "fat" THEN "proc" ELSE "noroot"]
       \/ boot' = [boot EXCEPT !.at = "noroot", !.failed = TRUE]
    /\ UNCHANGED <<mach, ram, pool>>

\* proc_init, proc_alloc and proc_exec_on of /bin/sh; without a root, or when
\* the exec fails, kernel_main waits for interrupts for ever.
StartShell ==
    /\ boot.at = "proc"
    /\ \/ boot' = [boot EXCEPT !.at = "shell"]
       \/ boot' = [boot EXCEPT !.at = "idle", !.failed = TRUE]
    /\ UNCHANGED <<mach, ram, pool>>
NoRoot == boot.at = "noroot" /\ boot' = [boot EXCEPT !.at = "idle"] /\ UNCHANGED <<mach, ram, pool>>

BootNext == \/ FindMemory \/ ProbeEnds \/ ReadHeader \/ LoadSegment \/ LoadInitrd \/ EnterKernel
            \/ kinit \/ blk_init \/ fat32_init \/ StartShell \/ NoRoot
            \/ \E ok \in BOOLEAN : Probe(ok)
\* One hart, interrupts that return: the boot goes on until it halts.
BootFair == WF_bvars(BootNext)
BootSpec == BootInit /\ [][BootNext]_bvars

-----------------------------------------------------------------------------
Stages == {"reset", "probe", "select", "load", "enter", "kinit", "blk", "mount", "proc",
           "shell", "noroot", "idle", "panic"}

BootTypeOK ==
    /\ mach \in Machines /\ pool \subseteq Words /\ boot.at \in Stages
    /\ boot.disk \in IF boot.at \in {"reset", "probe"} THEN {None} ELSE Slots
    /\ boot.root \in Slots \cup {None}

Running == {"enter", "kinit", "blk", "mount", "proc", "shell", "noroot", "idle"}
Loaded == {k \in 1..Len(Segs) : Segs[k].load}

\* When the kernel is entered, and whatever kinit frees after it, every word of
\* every segment is what the ELF file says, bss words zero, and the firmware
\* with its traps and bootinfo is untouched.
KernelWhole ==
    boot.at \in Running =>
      /\ \A k \in Loaded : \A w \in Segs[k].paddr..(Segs[k].paddr + Segs[k].memsz - 1) :
           w \in Words /\ ram[w] = Text(Segs[k], w)
      /\ \A w \in Fixed : ram[w] = <<"fw">>

\* Until the kernel takes memory over, the initrd lies whole, inside memory.
InitrdWhole ==
    boot.at \in {"enter", "kinit"} /\ mach.image.initrd > 0 =>
      \A k \in 0..(mach.image.initrd - 1) :
        boot.initrd + k < MemEnd /\ ram[boot.initrd + k] = <<"initrd", k>>

\* The last words of memory before `end' that the initrd is put into.
InitrdWords(end) ==
    LET at == PageDown(end - PageUp(mach.image.initrd)) IN at..(at + mach.image.initrd - 1)
\* What is loaded over a word, wherever the machine has its memory.
Overwritten(w) ==
    \/ \E k \in Loaded : w \in Segs[k].paddr..(Segs[k].paddr + Segs[k].memsz - 1)
    \/ mach.image.initrd > 0 /\ w \in InitrdWords(MemoryRange[1] + MemoryRange[2])

\* The kernel gets the device tree but for the words that a segment or the initrd
\* was loaded over.
TreeCopied ==
    boot.at \in Running \ {"enter"} =>
      \A w \in mach.tree.place : w \in boot.copy \/ Overwritten(w)

\* What the firmware loaded is whole when the kernel runs, and what it passes on
\* of the device tree is lost to these loads only (load_elf, firmware_main).
ImageWhole == BootTypeOK /\ KernelWhole /\ InitrdWhole /\ TreeCopied

\* A machine as the documents start it: a readable tree or none, an image disk
\* that works and is not the second block device, a FAT disk as the second,
\* an image that fits, and nothing of it loaded over the tree.
Good ==
    LET blks == SelectSeq(VirtioBases, IsBlk)
    IN  /\ Len(blks) >= 2 /\ mach.slots[blks[2]] = "fat" /\ ~mach.refused
        /\ \E k \in 1..Len(blks) : mach.slots[blks[k]] = "image"
        /\ LET end == MemoryRange[1] + MemoryRange[2]
               ends == {Segs[k].paddr + Segs[k].memsz : k \in Loaded}
           IN  /\ \A w \in mach.tree.place : ~Overwritten(w)
               /\ \A k \in Loaded : Segs[k].paddr >= MemoryRange[1]
               /\ \A e \in ends : e <= end
               /\ mach.image.initrd > 0 =>
                    \A e \in ends : e + PageUp(mach.image.initrd) + Page <= end

\* A good machine whose disk reads all work reaches the shell, wherever the
\* image disk is in the list and whatever else sits in the other slots.
GoodBoots == (Good /\ [](~boot.failed)) => <>(boot.at = "shell")
=============================================================================
