# A verification project for the OS-Agent-Lab kernel

The repository holds several small RISC-V operating systems written by coding
agents for one exercise. This project is about the largest of them,
`src/GPT-5.2-Codex/code`: a machine-mode firmware, an S-mode kernel for one
hart with processes, paging, a FAT32 and a memory file system, a C library and
a few user programs. Paths below are relative to that directory; `K/` is
`kernel/`, `F/` is `firmware/`, `U/` is `user/`.

## 1. Inventory

| Part | State | Operations | What makes it correct |
|---|---|---|---|
| Process table and scheduler (`K/proc.c`) | `g_procs`, `g_current`, `g_next_pid`, the index of the scan | fork, exit, wait4, yield, scheduler | one RUNNING process, the one `proc_current` names; zombies stay until their parent collects them; pids never come back; whoever can run does |
| Traps and switches (`K/trapvec.S`, `userret.S`, `swtch.S`, `trap.c`) | registers, `sscratch`, SIE, kernel stacks, contexts | trap entry and return, swtch, first dispatch | a process resumes on its own stack with its own registers; the kernel is not interrupted half way |
| Open files (`K/file.c`, reads and writes in `syscall.c`) | `g_file`, its counts and offsets, `p->ofile` | openat, dup, dup3, close, fork, exit, read, write, lseek, ftruncate | counts exact, so no entry is recycled under a descriptor and none leaks; what is written through a shared entry arrives once and in order |
| Memory (`K/mm.c`, `vm.c`, `elf.c`) | free list, page tables, `satp`, `p->sz` | kalloc, kfree, uvm_*, exec, brk, fork, wait | each page has one owner on every error path; `satp` never points to a freed table; a process has exactly the pages granted |
| VFS and vnodes (`K/vfs.c`) | pool of 256 vnodes, mounts, `p->cwd` | path walks, create, mkdir, unlink, getdents64 | a walk ends, and what it returns exists; a listing shows what is there |
| Memory file system (`K/ramfs.c`) | 128 nodes in child/sibling chains | create, mkdir, unlink, write, truncate | the chains are a tree of the nodes in use; no old bytes reappear |
| FAT32 (`K/fat32.c`) | FAT, directory entries, one cached node per lookup | the same, plus cluster allocation, long and short names | no cluster in two chains, entries that match chains, names kept apart, a usable disk after a stop |
| Disk (`K/blk.c`, `virtio_blk.c`, `F/virtio.c`, `disk.c`) | a ring, a request and a bounce buffer per driver | start a device, read, write sectors | an atomic array of sectors; a call returns |
| Timer and machine traps (`K/timer.c`, `sbi.c`, `F/mtrap.c`, `trap.S`) | deadline, `mtimecmp`, STIP, `mscratch` | set timer, tick, reset | ticks go on for ever, on time, none is lost |
| Console (`K/uart.c`, console reads in `syscall.c`) | received bytes, `g_tty_lflag` | read a line or a key, echo, write, ioctl | the screen shows what readers get; waiting does no harm to others (it does: see findings) |
| Boot (`F/main.c`, `fdt.c`, `K/main.c`, `fdt.c`) | device tree, memory map, the loaded image | find memory and disks, load the kernel and the initrd, mount, start the shell | what runs is what the file holds; a machine that is set up well reaches the shell |
| C library (`U/lib`) | the heap, DIR buffers | malloc, free, realloc, readdir, stdio, strings | the heap stays tiled; a directory is read once |
| Programs (`U/src`) | shell: line, mode, descriptors; cp: buffer and offsets | edit, complete, run commands; copy; list | the line shown is the line run; programs find the console as they need it; a copy is the source |
| Logging, self tests, image tools, the kernels under `src/Trae` | | | see section 6 |

How they meet: user code enters the kernel through one trap vector; system
calls run to their end with SIE = 0, so the only places where another process
can act are `proc_yield` (from the timer or from the loop of `proc_wait`) and
user mode itself. fork, exec, exit and wait change the process table, the
descriptors and the memory together. openat goes from the descriptors through
the path walk to a file system, and on the disk through `blk.c` to the driver,
which spins for the device. The kernel reaches the firmware through ecalls and
the firmware the kernel through STIP. Programs share the console's mode, the
offsets of inherited descriptors and the directories they read. Shared state is
the kernel's globals; there are no locks, and none is needed as long as
KernelQuiet (below) holds.

What is hard here: the order of instructions in traps and switches; the tick,
which may fall anywhere in user mode and in the middle of an ecall; slots,
nodes, pages and entries that are recycled while something still points to
them; running out of pages, nodes, clusters or vnodes in the middle of a call;
loops that wait with interrupts off; a device that answers late; power that
fails between two writes.

## 2. Modules

| Module | Models | Grain |
|---|---|---|
| `Proc` | process table, scheduler, wait loop, console spin | one step per system call, or per visit of a loop that yields |
| `FileTable` | descriptors and `g_file` | one step per call |
| `FileIo` | offsets, reads and writes through shared entries, cp | one step per system call |
| `AddrSpace` | pages and tables under fork, exec, brk, exit, wait | one step per page, each may fail |
| `Hart` | trap vector, userret, swtch, scheduler | one step per group of instructions between which a tick can matter |
| `Ramfs` | `/ram`, the path walk and the vnode pool | one step per call |
| `Fat32` | clusters, chains, cached nodes, open files of the disk | one step per call |
| `FatDir` | the entries of one directory of the disk, names, growth, power failures | one step per disk write |
| `Disk` | what the block layer promises: an atomic array of sectors | one step per sector |
| `Virtio` | both virtio-blk drivers, their rings and the devices | four steps of the driver, four of the device, per sector |
| `Timer` | deadlines, comparator, STIP, the machine trap | one step per handler or ecall |
| `Fdt` | `fdt_scan` over the tokens of a device tree | one step per token |
| `Boot` | from reset to the first process | one step per probe, segment or stage |
| `Tty` | line discipline, echo, console mode | one step per key |
| `Malloc` | the free list of the C library | one step per call |
| `Shell` | line editor, completion, run_command | one step per key, fork, exec, wait |
| `Listing` | getdents64, readdir and ls while others change the directory | one step per call |
| `MC*` | the instances for TLC | |
| `ProcVirtioProofs`, `FilesProofs`, `SystemProofs`, `HartProofs`, `AddrSpaceProofs`, `Fat32Proofs`, `FatDirProofs`, `RamfsProofs` | theorems | |

Modules whose states do not touch are checked side by side in one run:
`MCFileTable` (what lies behind a descriptor: FileTable, Tty, Virtio, FileIo),
`MCHartDirs` (the hart and directories: Hart, Ramfs, FatDir), `MCResources`
(what runs out: AddrSpace, Fat32) and `MCSystem`
(what lies around the kernel: Fdt, Boot, Timer, Malloc, Shell, Listing). Their
variable `which` says whose behaviour this is; the other modules' variables stay
as they started, so the states are the sum of the parts and never their product.

### Proc

A slot of `g_procs` is a number; `parent` is a slot, as in the code, never a
pid. `waiting[p]` is the argument of the `proc_wait` loop that p is inside of,
so a waiter is an ordinary RUNNABLE process, as in the code, and each turn of
the loop (`WaitReap`, `WaitNoChild`, `WaitYield`) is a step. `spinning` is the
loop of a console read or a poll: the process keeps the hart until `SpinEnd`.
`scan` is the loop index of `scheduler`: it goes on behind the slot it
dispatched last. `ForkNoMem` is a fork that fails after `proc_alloc`: the pid
is spent. `forker` and `reaped` are history. PROC_SLEEPING is never assigned
and PROC_USED is not visible between steps.

### FileTable and FileIo

`ofile[<<p, fd>>]` is an index of `g_file`; `ref` and `used` are the code's.
`ForkFiles` and `ExitFiles` are the loops over descriptors of `proc_fork` and
`proc_exit`. What a file holds is left out: a vnode is a name.

FileIo is about contents and offsets. A user's descriptor is one entry that
fork shares; `SysWrite` is the chunk loop of `sys_write` with what each chunk
meets: the limit of `/ram`, where a write is short, or a full disk, where it
fails and earlier chunks stay. `job[f]` is history: the processes that hold one
opening of f, what f held when it was opened, and what their calls answered
they had written since; it ends when anybody else changes the file or the
offset moves in another way. `cp` is the place and the locals of `copy_file`,
with other users' calls between its own. Two openings of one file of the disk
are left to Fat32.

### AddrSpace

`tab[r]` is what freewalk and walk find below the root page `r`: the level-1
table, level-0 tables and leaves. fork, exec and a growing brk go one page at
a time (`MapNext`); `ForkFail`, `ExecFail`, `ExecNoStack` and `BrkFail` are the
error paths at whatever page memory ran out. Break addresses count half pages
so that PGROUNDUP matters. `lost` collects the one kind of page the code loses:
when exec has no table page for its stack mapping it does not free the stack
page (`K/proc.c:327-329`). `short[p]` says that a brk of p has failed half way:
the pages it mapped stay above the break.

### Hart

`pc` names where the hart is. Registers are two: `t` for t0 and t1, which the
vector overwrites before it saves them, `r` for all others; each holds the
process whose value it is. `stk[s]` is the trap frames on a kernel stack,
`ctx` and `sctx` are the saved contexts (where, on which stack, how deep).
A tick is taken wherever the code lets it in, that is, while SIE is set or in
user mode. `kernel_main` enables interrupts before it calls `scheduler`, so
kernel code runs with SIE = 1 up to the first userret; in later dispatches SIE
is clear only because the trap that led to the scheduler cleared it. `early` is
history: a tick was taken within the first dispatch (`Dispatch`). "dead" is the
end of a switch to a context that was never saved or whose stack has been in use
since, and of a userret from the wrong sstatus and sepc.

### Ramfs

`node` is `g_nodes`. A vnode is immutable and never freed, so it is kept by
value, as the path of vnodes its parent pointers lead through; only the number
taken from the pool is a variable. `Walk` and `WalkParent` take the steps of
`vfs_lookup_at` and `vfs_resolve_parent_at` along a path (`WalkTo`); create and mkdir walk
twice, as the code does, and take vnodes twice. A NULL that `ramfs_wrap_node`
returns is used by its caller: the page fault makes the process exit
(`Killed`). `gone` and `strayed` are history: which held vnodes had their node
unlinked, and whether an entry was made in such a directory or in a file.

### Fat32 and FatDir

In Fat32 `fat` has the two reserved entries too, because a chain that was freed
leads to cluster 0 (`fat32_ensure_chain` then links behind it). `node[h]` is the
`fat32_node` of one open: slot, first cluster and size as it last knew them;
`UpdateDirent` writes them to the slot whoever has it now. A call works on a
record `Disk` of FAT, contents and `alloc_hint`, and `ok` turns FALSE when an
allocation fails; what was taken before stays. Contents are the number of the
file that last wrote to a cluster, 0 when it was zeroed since, which is what
NoForeignData tells apart. Data written to cluster 0 or 1 lands at the end of
the second FAT copy, which the kernel does not read, so it only sets `tag`.
`pool` counts nodes: lookups take them and nothing gives one back. An open may
find no struct file or descriptor after it has cut the file (h = NULL).
`stray`, `failed` and `wrote` are history.

FatDir is one directory as the disk has it: `slots` are its 32-byte entries,
short ones, long-name ones, deleted ones and the end mark. A call works out its
disk writes in the order the code makes them (`todo`), and each of them is a
step, so that `Crash` may come between any two. `fat32_iter_dir` is the reader:
it gathers long-name entries while they bear one checksum and gives them to the
short entry behind them if its short name has the same. `fat32_lfn_checksum` is
the code's: rotate and add over the padded letters, modulo 2^`SumBits` (2^8 in
the code), so different short names may have one checksum. `fat32_make_short_name` folds, cuts and numbers names;
`fat32_dir_find_free` finds the first run that is long enough or lets the
directory grow. `hurt` names the files whose change a crash cut off and
`touched` says that one of those names was used again: the code has no repair,
so nothing is claimed of such a file. Names ending in a dot share their short
form with the name without it: made first, `A.` gets no long-name entry and is
listed as `A` (`Listed`). An unlink or a creation that a crash cut off can leave
long-name entries without a short one. The reader skips them, unless the next
short entry behind them has their checksum and no long name of its own: then
that file is listed under the dead one's name (`NamedRight`). All of it occurs in
the instance.

### Disk and Virtio

Each driver's descriptors always form the same chain, so a ring entry carries
nothing and the ring is its two indices, modulo `IdxMod` (65536 in the code).
The driver fills header, status and buffer (`Fill`), counts up the available
index (`Publish`), notifies, and collects when the used index differs from the
one it last saw. The device fetches, moves the sector or fails, writes the
status byte and counts up the used index, a step each. `disk_init` and
`virtio_blk_init` start a device again, from the firmware for one device after
another, from the kernel once. The firmware gives up after a while
(`FwTimeout`); `late` then names the devices that may still answer into the
ring it goes on using. While there are any, an answer the driver collects may
be a late one, so the device it waits for may come late in turn (`StillDue`),
and FwReadsRight claims nothing.

`Disk` is the abstract specification: calls of several sectors that are served
one after the other, an error having served a prefix. Virtio implements it with
`D == INSTANCE Disk WITH disk <- media, call <- Served`: a sector counts as
served once the device has moved it, before the driver knows.

### Timer

Time advances at any moment. `Mtrap` is the entry of the machine trap from
wherever the hart is, with the stack it swaps with `mscratch`; the handler
silences the comparator and sets STIP, or sets the comparator and clears STIP
for the kernel's ecall. `timer_handle` moves the deadline by one interval from
the last one, however late it runs.

### Fdt and Boot

Fdt gets the tree's tokens one by one from the environment. `scan` has the
locals of `fdt_scan`, with a stack of node states whose slots every later node
of the same depth uses again and which starts uninitialised; `tree`, `path` and
`closed` are the tree itself and serve the properties alone. The trees given
have memory and virtio nodes on buses that count cells as the root does, since
the code reads every `reg` so; the documents know no other machine.

In Boot a machine is one record: what the tree says, what sits in each virtio
slot, the image. Every read of the disk may fail. Memory is twelve words in
pages of two; `ram[w]` says what a word holds, so that an overlap of segments,
bss, initrd, the firmware and the freed pages shows. The device tree lies in this
memory too, at `mach.tree.place`. firmware_main looks up the timebase and copies
the tree to `g_dtb_copy` only when segments and initrd are loaded (`F/main.c:322-326`), and
nothing keeps these off it: `boot.copy` is what was still right of it then. In
the log of a run the tree is at 0xbfe00000, two megabytes below the end of
memory (`../Prompt/chat_history_full.md:1284`), and a larger initrd would cover
it. With a damaged copy the look-up may fault or never end, and the kernel's scan
may fail, give any list, or fault (`KernelBases`, `Panic`). What the trees say
of memory and disks before the loads is constant.

### Tty

Keys are a character, a carriage return and an erase key. `tmp` is the buffer
of the read in progress, `screen` what the terminal shows, and other processes
change the mode and write between a reader's calls. `apart` is history: a key
was taken without echo or lost to a bad buffer.

### Malloc

Addresses and sizes count headers. The four C variables are a record that
`Alloc` and `Free` transform; `Place` and `Walk` are the search loops as
recursive functions, long enough to go round the whole heap, and `stuck` says
that a loop did not end within that.

### Shell and Listing

A key stands for a word where run_command tells words apart, so the line is a
sequence of keys. `row` is what the console shows behind the prompt. The child
has descriptors of its own from the fork to its exit. Descriptors 0 to 2 have
no struct file at first (`Closed`), so dup of them fails, as in the code. Any
other descriptor is open on the file of the running command's own redirection
("own") or on one that pwd was redirected to ("pwd").

Listing numbers names in the order of ls. `Live` is what `vfs_readdir` answers
for each offset: `.` and `..`, then the names in the directory's order; a new
one comes first in `/ram` and anywhere on the disk (the first gap that is long
enough, or the end). `reader` is a DIR: offset, buffer and what readdir has
returned, with what was made and removed since opendir as history.

## 3. Runs

| Run | Instance | Checks |
|---|---|---|
| `proc` | 3 slots, 5 pids, fair | TypeOK, CurrentIsTheRunningOne, PidsNeverReused, ParentIsForkerUntilReaped, WaiterHasChild, ZombieKept, RunnableRunsIfFed, WaitAnyReturns |
| `proc_console_starves` | 2 slots, fair | RunnableRuns: violated |
| `files` | FileTable: 3 processes, 3 descriptors, 2 entries, 2 vnodes | TableSound, DescriptorStable |
| | Tty: buffer of 2, reads of 0, 1 and 3, 3 keys | ConsoleSound, OutputStays |
| | Virtio: 3 devices, 2 sectors, indices modulo 2, 1 timeout, fair | RingSound, ImplementsDisk, CallsReturn |
| | FileIo: 2 users, a file in `/ram` and one on the disk, chunks of 2, a limit of 4 | SharedWritesKept, CopyIsSource |
| `resources` | AddrSpace: 2 slots, 20 pages, 3 virtual pages | SpaceSound, PageOwnedOnce, SatpLive |
| | Fat32: 3 clusters of 2 units, files of up to 3 units, 2 names, 2 opens | ClustersSound, NoForeignData |
| `hart_first_dispatch` | 2 processes | NeverLost: violated |
| `hart_temporaries` | 2 processes | TempsPreserved: violated |
| `hart_directories` | Hart: 3 processes | OwnQuietStack, LostOnlyEarly, UserIsCurrent |
| | Ramfs: 3 nodes below the root, 6 vnodes, 8 paths | TreeSound, TailIsZero |
| | FatDir: 7 names of up to 4 letters, checksums of 3 bits, 4 entries to a cluster, 2 more clusters, 3 files, 1 crash | DirSound, OthersSurvive |
| `ramfs_mkdir` | 2 processes, 1 file node | MkdirReturns: violated |
| `ramfs_in_file` | 2 processes, 2 paths, one through a file | FilesAreLeaves: violated |
| `fat32_read_back` | as Fat32 in `resources` | WrittenReadsBack: violated |
| `around_kernel` | Fdt: trees of 3 nodes | TreeRead |
| | Boot: 3 slots, 12 words of memory, 3 images, a tree in 3 places or none, fair | ImageWhole, GoodBoots |
| | Timer: 7 units of time, fair | ClockRight, CatchesUp |
| | Malloc: a heap of 10 headers | HeapSound |
| | Shell: lines of up to 5 keys, fair | HandedOver, RowIsLine, PromptComesBack |
| | Listing: 4 names, buffers of 9 and 6 | ListedOnce |
| `pwd_redirect` | lines of up to 5 keys | ConsoleAtPrompt: violated |

An invariant that several facts make up is one property of the run:

| Property | Is the conjunction of |
|---|---|
| TableSound | FileTypeOK, RefsCounted, DeadHoldNothing |
| SpaceSound | AddrTypeOK, SpaceBacked, SpaceExact |
| OwnQuietStack | HartTypeOK, KernelQuiet, OwnStack |
| TreeSound | RamTypeOK, LinkedOnce, UsedIsReachable, HeldIsKept |
| ClustersSound | FatTypeOK, ChainsApart, NoneLost |
| DirSound | DirTypeOK, ListingIsRight, ShortNamesDiffer |
| RingSound | VirtioTypeOK, BounceIsOwned, FwReadsRight |
| ConsoleSound | TtyTypeOK, ScreenIsInput |
| SharedWritesKept | IoTypeOK and the claim on each `job` |
| TreeRead | FdtTypeOK, MemoryIsTheTrees, BasesAreTheTrees |
| ImageWhole | BootTypeOK, KernelWhole, InitrdWhole, TreeCopied |
| ClockRight | TimerTypeOK, ChainAlive, NoDrift, NotEarly, ScratchHome |
| HeapSound | MallocTypeOK, SearchesEnd, HeapTiled, Sorted |
| HandedOver | ShellTypeOK, ModeFits, OutputFits |

Why the bounds suffice. *proc*: three slots and five pids let a parent be
reaped and its slot be taken by a stranger while its child lives, with a failed
fork in between; pids are bounded by MaxPid in `ProcAlloc`. *files*: the table
is smaller than what three processes could open, so it fills up, and entries
are shared by three holders and recycled; a console buffer of two is full
before a read of three, and three keys are a character, an erasure and an end
of line in any order; indices modulo 2 wrap after two requests; the firmware
probes two devices with one ring, of which one may time out (MaxLate), and a
third refuses both drivers; in FileIo a write of three is two chunks, a
copy of five bytes passes the limit of `/ram` and one of three fills the
smaller disk, three entries are fewer than cp and two users may want, and four
calls (MaxCalls; beside a run of cp two, MaxBeside) are an open, a fork and a
write of each. *resources*: two full processes
and an exec under way need more than 20 pages, so memory runs out at every page
of every call; images have one page, two segments in one page, and a segment
that runs into the stack; two virtual pages share a level-0 table and the third
has its own. On the disk two files of two clusters do not fit, so calls fail
half way; sizes of 1, 2 and 3 units are inside, on and past the border of a
cluster; a second file takes the clusters of a removed first one. Two nodes
allow two opens of one file. Once `stray` is TRUE the invariants of Fat32 claim
nothing, and the constraint InStep ends the exploration there (those states are
still checked against FatTypeOK); the view leaves out `wrote`, which none of
them reads. *hart_directories*: three processes are a parent, a child and a
recycled child's slot; six vnodes are enough to make a directory, enter
it, remove it under the process, and recycle its node, as a file and as
an entry of itself; the pool also runs out; where the contents of files are
checked, two processes write them and `Bounded` keeps it to one file, since
contents do not depend on how many there are. `Bounded` also ends the
exploration of the hart where a process runs although a tick fell on the first
dispatch, for nothing is claimed there; those it does not lose before are
`hart_first_dispatch`'s matter. On the disk three names share
the short form `A_`, one has to be cut and looks like a numbered one, two may
not be used; a long name and its short entry pass the end of a cluster, so the
directory grows, and three files with one crash (which counts as a file) are a
victim, a neighbour and one that takes the victim's entries. With checksums of 3
bits some of these short names collide and others do not.
*around_kernel*: three tree nodes are a root with two children or a chain, so
a stack slot is used twice, and one base is less than there are virtio nodes;
the machines put the image disk first, last, behind a dead or an empty slot and
beside a FAT disk, the images have bss before and after text and one that does
not fit, initrds of none, a page and a half, and too much; the tree lies clear of
everything, at the end of the larger memory where the initrd goes, or where a
segment goes (there, and where the kernel refuses what the firmware took, only
one kind of tree, to keep the machines few); seven units of time
are several intervals of one or four units spent in one system call; a heap of ten headers is cut in up to five
blocks and runs out; five keys are a command with a redirection, and
completion meets the end of the buffer; four names need two calls of getdents64
in either buffer, the longest name fits in none, and two changes are a removal
and a making.

`resources` explores the states of AddrSpace up to a renaming of pages. No action depends
on which page is which (`Kalloc` is any free page), so `AddrView` describes a
state by who has pages where and how many are free; that determines the state
up to renaming while each page has one owner, and PageOwnedOnce is part of the
view, so a state in which it fails is never merged with one in which it holds.
`resources` (Fat32's names and opens), `fat32_read_back`, `ramfs_mkdir` and `ramfs_in_file` use symmetry, with invariants only.

Deadlock is checked in `proc` and `proc_console_starves`. Elsewhere it is off
because the system may really stop there: every process exited or killed,
`halt` after a failed boot, a shell that has ended, or all bounded resources
used.

Fairness. `FairSpec` of Proc: the scheduler goes on scanning and a resumed
waiter goes on with its loop (weak fairness: nothing else decides). A tick that
comes due in the kernel stays pending and is taken when user mode is entered
again, so a process cannot escape it by calling the kernel at the right
moments: `Preempt` is strongly fair. Programs need not fork, exit or wait, and
nobody needs to type: `SpinEnd` is not fair. `VirtioFair`: the driver's code
runs, and a device answers what it was notified of, though it may fail; nobody
need call. `TimerFair`: instructions are executed and machine interrupts taken
(weak fairness); a system call ends and a pending supervisor interrupt is taken
although new system calls and machine traps keep disabling both (strong
fairness: the hardware takes the interrupt at the sret). Time itself need not
pass. `BootFair`: one hart, with nothing beside it. `ShellFair`: commands run
and children end; nobody has to type and programs need not change anything.
Each is asked only of the behaviours of its own module.

What the passing runs show, in short. Slots may be recycled under a child's
parent pointer, since exit does not reparent, but only after the true parent
has been reaped; until then getppid and wait4 tell the truth. A waiter never
wakes to find no child. Every path out of fork, exec and brk leaves each page
with one owner, one leaked stack page per failed exec apart. Ticks anywhere in
user mode leave everything but t0 and t1 in place. In `/ram`, removing a
directory that is somebody's cwd cannot tie a chain into a loop, though entries
made there afterwards are lost for good once the node is recycled. On the disk,
the FAT and the entries agree after every call, full disk included, as long as
each file is changed through one open at a time; two opens of one file break it
(finding 6). A power failure costs at most the file it hits, what a cut-off
write took, and the name of a file without a long one whose checksum agrees,
until the name it hit is used again. The driver with its wrapping indices
is an atomic disk whose calls return if the device answers; the firmware is
right as long as no request of its own has timed out. The clock loses no tick
over system calls of any length and never drifts. A tree, whatever its order,
is read as it says; an initrd or an image that does not fit is refused and
never overlaps the kernel, but either may overlap the tree before it is copied: a
machine boots for certain only if they do not. What one redirected command and its children write arrives once
and in order, at the limit of `/ram` and on a full disk too; two separate
appenders overwrite each other, as O_APPEND sets the offset once. A listing
misses a name only when something was removed meanwhile and repeats one only
when something was made.

## 4. Findings

1. `proc_console_starves` - a console read or poll spins with interrupts off
   (`K/syscall.c:180`); every other process waits for a key, against
   `verify/stage2.md:9` (round-robin and timer preemption).
2. `hart_first_dispatch` - the first dispatch runs with SIE = 1 because
   `trap_enable` comes before `scheduler`; a tick between `userret.S:41` and
   `:43` changes the registers that sstatus and sepc are written from, against
   `verify/stage4.md:4`, which calls this fixed. From the same cause a tick before
   swtch has saved `g_sched_ctx` makes `proc_yield` load it zeroed. The later
   dispatches are safe (LostOnlyEarly).
3. `hart_temporaries` - the trap vector overwrites t0 and t1 before it saves
   them (`trapvec.S:41-42`, `:52-53`): a preempted process loses both.
4. `ramfs_mkdir` - `ramfs_mkdir` stores through `out`, and `sys_mkdirat` passes
   NULL; the directory is made and the caller killed, against
   `K/selftest.c:164`.
5. `ramfs_in_file` - for `b/../a/b` with `b` missing and `a` a plain file, the
   second walk makes `b`, goes up and returns `a` as the parent, untested
   (`K/vfs.c:191`); the entry is made in the file and its node is lost when the
   file is unlinked, against `../Prompt/chat_history_full.md:928` (-ENOTDIR for a
   plain file in the middle of a path).
6. `fat32_read_back` - every open has its own copy of a file's first cluster and
   size, and write trusts it (`K/fat32.c:1284`). After another open with O_TRUNC
   it writes to a freed cluster and reports success, against
   `../Prompt/stage1-stage3.md:79` (what FAT32 writes can be read back).
7. `pwd_redirect` - the shell redirects its builtin pwd by moving the file to its
   own descriptor 1 and puts 1 back only if `dup(1)` worked (`U/src/sh.c:375-382`);
   on a console descriptor dup fails, so from `pwd > f` on the prompt and every
   program write into f, against `../Prompt/chat_history_full.md:852` (stdout goes
   to the UART) and `:4436` (redirection works).

Three hazards have no property, since no document promises otherwise or a
property would restate the line: a late answer to a request that the firmware
gave up is taken for the next one's (`F/virtio.c:240`; RingSound claims nothing
while one is outstanding); wait4 frees the child before it copies the
status out (`K/syscall.c:776`); vnodes are never given back (`K/vfs.c:55`; the
instances run the pool dry all the same). A line that is only a redirection
ends the shell (`U/src/sh.c:363`): it is `NoCommand` of Shell.

## 5. Proofs

TLAPS checks all theorems for every value of the constants that satisfies the
named assumptions (`ProcAssumption`, `FileAssumption`, `IoAssumption`,
`TtyAssumption`, `TimerAssumption`, `ShellAssumption`, `BootAssumption`, `MallocAssumption`, `VirtioAssumption`, `HartAssumption`,
`AddrAssumption`, `FatAssumption`, `RamAssumption`,
`DirAssumption`, `FdtAssumption`, `ListingAssumption`), which give types, a timebase and a tick
rate above 0, rings shorter than the range of their indices, finitely many pages,
clusters of at least one unit
and of at least one directory entry, names that are C strings, programs and a kernel as the linker scripts
lay them out (`U/linker.ld`, `K/linker.ld`, `F/linker.ld`: one section behind
the other, the kernel above the firmware), an initrd no bigger than memory, bytes that are numbers,
buffers that are not empty, a NULL that is none of the things it stands
beside, paths that are not empty, and directory records
that are longer than their head and fit into the reader's buffer (the longest has
280 bytes, the buffer 512).

*ProcVirtioProofs*. For the process table the invariant is `ProcInv`: TypeOK, ReapedAreOld (reaped pids are
below `g_next_pid`) and the four safety properties. None of them is inductive
alone: that a pid is new needs ReapedAreOld; ParentIsForkerUntilReaped after a
reap needs PidsNeverReused, to know that the freed slot held exactly the reaped
pid; WaiterHasChild needs CurrentIsTheRunningOne, since only the running process
reaps, and reaps only its own children, while it is itself not waiting
afterwards. There is one lemma per kind of step (ForkStep, ForkNoMemStep,
ReapStep, LeaveStep for exit, yield and preemption, DispatchStep, QuietStep).
`TypeCorrect`, `CurrentCorrect`, `PidsCorrect`, `ParentCorrect` and
`WaiterCorrect` follow; `ZombieCorrect` is the action property ZombieKept from
the same invariant.

*FilesProofs*. `FileInv` is FileTypeOK, RefsCounted and DeadHoldNothing.
The argument is about cardinalities: setting one descriptor adds or removes one
element of `Refs(f)` (RefsAfterSet), fork adds and exit removes as many as the
process holds (HeldFacts). DeadHoldNothing is needed for fork, which counts on
the child's table being empty. `TableCorrect` is the whole of it as the run
checks it (TableSound). `StableCorrect` (DescriptorStable) follows: a
descriptor's entry has a count above 0, so `file_alloc` does not take it, and
close does not clear it.

Its second part is the console. The screen and the input are related by
counting (`Shows`): the k-th byte on the screen that is not output is the k-th
of the input. A key adds one to both (ShowsKey), output adds to neither count
(ShowsOutput), and an erase key takes one from both, if the last byte shown is
not output (ShowsErase). That it is not, is `Edited`, the part of `TtyInv`
without which it is not inductive: while a read with echo is under way, the end
of the screen is its line, whatever happened before. Edited holds also when
input was once taken without echo, so that `OutputStaysCorrect` needs no
proviso; `ConsoleCorrect` is ConsoleSound.

Its third part is FileIo. SysWriteStores says what the chunk loop does without
following it: it stores a beginning of the buffer, answers its length or an
error, and in `/ram` ends at the limit, since the chunks before the first short
one were full. `IoInv` adds four parts to IoTypeOK. `JobOK`: while a job is kept,
all who work on it stand, through one entry, at the end of the file; without it
the next write need not be an append. `Exclusive`: cp's entries are two and no
user's; a read of cp would otherwise move the offset of a job. `CopyOK`: what cp
has read is what it has written followed by what is in its buffer. CopyIsSource
alone says nothing of buffer and offsets. Four calls of the users move one
offset and change one file (`Moves`), and one lemma, UserMoves, serves them.
`WritesCorrect` is SharedWritesKept, `CopyCorrect` CopyIsSource.

*SystemProofs*. `TimerInv` is FrameOK (what a machine trap in progress says of
the place it came from), Clock (the deadline is the end of the interval after
the last tick counted) and Chain (from the first deadline on, the comparator
holds it or STIP is pending). They are stated of `Where`, where the hart is
when the machine trap is left out, so that entering and leaving the trap
preserves them. `ClockCorrect` is ClockRight: NoDrift needs that ticks times the
interval is at most the time gone by, and one interval more is past it.

For the shell, `ShellInv` adds to what the run checks that the shell keeps no
descriptor above the standard ones between its commands (`Clean`), that its mode
is raw at the prompt and while it runs a command itself, that `g_term_valid` is
set as soon as it reads (else tty_restore would do nothing), and what the child
is (`ChildOK`). That a program's output is the file of its own command, or where
the shell's goes, is part of HandedOver; that the shell's goes to the console is
not, since `pwd > f` changes it (`pwd_redirect`). A redirection opens the lowest free descriptor, moves it down and
closes it (`MovedDown`); pwd does so twice, also when dup finds no descriptor
(`PwdTableIs`). `CompleteLine` says that a completion fits into the buffer and
that the row grows by what the line grows by. `RowCorrect` is RowIsLine,
`HandedOverCorrect` HandedOver.

For the boot, `BootInv` says that everything that is in place, segments first
and then the initrd, ends below what is written next: a segment is apart from
the others by the image, the initrd begins above `kend` by the check of
firmware_main, and kinit's pages begin above it by rounding up (`Aligned`,
`WritesAbove`). The check admits an initrd only when it begins above `kend`, not
merely at it. Of the tree, a word is what it was at reset until something is
loaded over it, and where things are loaded is fixed by the image and the tree
(`TreeKept`), so the copy lacks just these words. `ImageCorrect` is ImageWhole,
with TreeCopied in it. That a segment which passes
load_elf's check is in memory is all that is asked of the device tree
(`SegmentInMemory`).

For the heap of a program, `MallocInv` says that the headers on the list are
those with a `next` (`Ring`: going round, the next of a header is the first of
the list that is met), that the blocks on it and those handed out lie one behind
the other from the start of the heap to its end (`Tiles`), and that no block of
the list ends at its next (`Merged`). The last is what bounds a merge to the two
neighbours. That `free` finds the one place for a block wherever `freep` stands
(`PlaceIs`), and that `malloc` meets a block or comes round (`WalkIs`), follows
from the way round, `Dist`, which every turn shortens (`Nearer`). After
`morecore`, which moves `freep`, the new block lies ahead of the search
(`FromFreep`), so it ends in the second round at the latest. `FreeIs`, `MoreIs`
and `CutIs` say what each call leaves, `OnListIs` that the list reaches every
header from `freep`. `HeapCorrect` is HeapSound, for every size of the heap, of
NALLOC and of the requests.

For the device tree, `FdtInv` says that the slot of the scan's stack for every
open node holds what the tree says of that node so far (`Kept`), and that memory
and bases answer for the nodes that have ended (`FirstMemory`, BasesAreTheTrees).
A slot above the depth may hold anything, junk from the start or a node that has
ended: only that fdt_scan clears the slot when a node begins makes Kept inductive.
It says of a `reg` only what holds where the bus counts cells as the root does
(`LikeRoot`), for the scan has no other counts than the root's (`CountsOK`); every
memory and virtio node is such a one (`NodeOK`). What the tree says of a node that
has ended does not change, because properties are the last node's and an open
node has not ended (`ClosedOK`). A node that ends as the n-th virtio node has rank
n, and its base is appended as the n-th. `TreeReadCorrect` is TreeRead.

*ProcVirtioProofs*, second part. For the block layer, `VirtioInv` follows one request: `Phase` says of each place of
the driver what the ring and the device are, above all that the indices differ
by at most one (SuccProps: a step of an index is never a full turn, which is
all that wrapping needs) and that the status byte is 255 until the device tells;
`OthersIdle` and `SideInv` say that no other device does anything. All of it is
claimed only while `late` is empty, which it always is for the kernel.
`RingCorrect` is RingSound. `BlockLayerIsDisk` is the refinement ImplementsDisk:
every step changes nothing that Disk sees (`Quietly`), except that blk_read and
blk_write start a call, DevMove on the kernel's device is Serve, and Collect is
Answer when the call ends. That Moved turns TRUE at DevMove and nowhere else is
what Phase says of the status byte.

*HartProofs*. Its theorems have no hypothesis on where ticks fall: the invariant is
`early \/ HartInv`, so they claim nothing of a run in which a tick fell on the
first dispatch (that they would be false of it is what `hart_first_dispatch`
shows) and everything of all others. That later dispatches are safe is proved
from SIE alone: a tick is possible there as everywhere. `HartInv` adds four parts to HartTypeOK. `Quiet`: no frame lies on another, and
SIE is clear in the kernel once a process has run. `SchedOK`: what g_sched_ctx
holds is the boot stack after the call of swtch. `Place`: who has the hart at
each place, on which stack, with which frame; a tick before the first process
(`BootTick`) is the one trap on the boot stack. `Ready`: every RUNNABLE process
is `Parked`, that is, its context leads to proc_start on an empty stack or back
to its own one frame, unless it is the one that proc_yield is saving. Ready is
what makes the switch safe, and it needs Quiet: a second frame on a stack would
be what the switch comes back to. `QuietCorrect` is OwnQuietStack (KernelQuiet
and OwnStack), `LostCorrect` is LostOnlyEarly, `UserCorrect` UserIsCurrent.

*AddrSpaceProofs*. PageOwnedOnce counts owners, which no step of the code does;
`AddrInv` says instead where a page may be. `Apart`: trapframes, tables, the
free list and the lost pages share nothing, and no page is at two places of one
table (`OneTree`); `Covered`: every page is in one of them. Both speak of the
table that fork or exec is building as of any other. `Control` says who makes
the call under way and for whom, `Building` that what it has mapped and what it
is going to map (`Rest`) is what it was asked for, which is what SpaceBacked and
SpaceExact need when it ends and what makes a failed fork give back everything.
An image that reaches into the stack meets a page that is mapped and never gets
to `ExecDone`. exec keeps Apart because the new table shares nothing with the
old one, and SatpLive because the switch comes before the release: for SatpLive
alone Apart is needed, since freeing one process's table must not free
another's root. There is a lemma for each operation on a table (mapping a page,
a level-0 table, removing a range), for each kind of step, and one that turns
Apart and Covered into the counts of PageOwnedOnce (`OwnedCorrect`).
`SatpCorrect` is SatpLive, `SpaceCorrect` SpaceSound.

*Fat32Proofs*. The model finds a chain, grows it and frees it with recursive
functions, as the code does with loops. What they compute is proved without an
induction theorem: a set of numbers from 0 on that has the next of each of its
elements has all (`InductionUpTo`, from the least number it lacks), and
`Iterate` shows that a function defined by its previous value exists. So
`ChainOfIs`, `GrowStep` and `FreeIs` say what the three loops do to a chain
(`IsChain`), and `EnsureIs` and `TruncIs` what fat32_ensure_chain and
fat32_truncate_op do: the chain s becomes the chain u, only clusters of s and u
change in the FAT, those of u that are new were free, those of s that are left
out are free now (`Moved`), and data changes only by being zeroed (`Kept`). All
of it holds also when a call runs out of clusters half-way.

`FatInv` claims nothing once a file was changed through a node that is out of
date (`stray`). Until then, every holder has a whole chain and no two share a
cluster (`Lay`), an entry has clusters exactly when it has a size, and enough
(`Entries`), and no other file's data (`Tags`). The holders are the entries and,
which is easy to miss, nodes: when the first write of an empty file fails, the
clusters it took belong to the node of that open file alone. ClustersSound
speaks of entries only and is not inductive: the next write through that node
makes its chain the entry's. That until a call fails there are no such nodes
and chains are as long as the sizes need is `Exact`. What a call changes, it
changes through a node that agrees with its entry (`Agrees`), so that two lemmas
serve all of them: the entry is rewritten (`RewriteStep`) or it stays
(`KeepStep`). `ClustersCorrect` is ClustersSound, `NoForeignDataCorrect`
NoForeignData; that the proviso `stray` is needed is what `fat32_read_back`
shows.

*FatDirProofs*. An iteration of a directory is a recursive function over its
entries, reasoned about with `InductionUpTo` and `Iterate` (described under *Fat32Proofs*): `SeenIs` says that what it
sees are the short entries, each once, with the long-name entries counted right
before it (at least its own: an unlink deletes what it counted), and `SeenName`
that it reads the name of a file that has its entries. `DirInv` has two parts.
`DirBasics` holds whatever has happened, and speaks of the disk together with
the writes still to come. `Packed`: no entry lies behind the end mark, and no
write puts one there, for a reader would not get to it, and fat32_dir_find_free
takes the entries at the end for free. `Roomy`: the clusters are linked before an entry is
written into them, one every three writes. `Distinct`: no two short names, nor a
name on the disk and one about to be written, are the same, which is
ShortNamesDiffer made inductive: that the name of a creation is new was found
out before its first write.

The other part holds until a file that a crash has hurt is met (`touched`).
`NowRight`: every file that is not `Exempt` (hurt, or to be hurt if power failed
now) is at `Home`: its short entry and its long-name entries stand together as
fat32_create_entry wrote them, and no other entry has that short name or was
written for it (`of` in a long-name entry, which no reader sees); and there is
nothing of a short name that no file has. `NowClusters`:
its cluster is its own and marked used, and a directory has its dot entries.
Exempt is where the order of the writes comes in: a first write or a growth may be
cut off anywhere, because the entry comes last. `OwnWrites`: the writes to come
are about one short name and touch no entry and no cluster of another file. `EndRight`:
when all of them are made, that name is right too (`Final`). So a write is one of
two kinds (`Goes`, `Ends`), and nothing has to be said about the states between
but what is on the disk and what is left to do. Five lemmas show that each call
begins so (`WritingKeeps`, `TruncatingKeeps`, `UnlinkingKeeps`, `CreatingKeeps`,
`GrowingKeeps`), and `BeginKeeps`, `StepInv` and `CrashInv` are the rest.
`DirCorrect` is DirSound, for which views and files are matched one to one, and
`SurviveCorrect` OthersSurvive. Checksums may collide: a file's own long-name
entries stand right before its short entry, so the reader has its name whatever
came before, and only a file without any can be given another's, from what a
crash left of an `Exempt` name with the same checksum (`Collides`).

*RamfsProofs*. The chain of a directory and a walk along a path are recursive
functions too, and are reasoned about with the same two lemmas. `RamInv` says of
the pointers, not of the chains, what makes the chains sound. `Linked`: a child
of any node, used or not, and a sibling of a node in use lead to nodes in use,
never to the root and never twice to the same one. Children of nodes that are
not in use count because a process may still stand in a removed directory and
make an entry there; siblings of such nodes do not count, for ramfs_unlink
leaves that pointer behind. That a chain then ends is a pigeonhole argument
(`LinksEnd`): a chain of more than NNODE links would meet a node twice, and going
back from there link by link (`LinksApart`) would lead to the root or to two
pointers to one node. `Whole`: until `strayed`, a set that holds the root and
is not left by pointers holds every node in use, and only directories in use
have children; it is UsedIsReachable without a walk. Without the second part it
is not inductive, since ramfs_unlink tests for children in directories only;
proving it is how the finding `ramfs_in_file` came up. `Tails` is TailIsZero;
`Holds` is HeldIsKept with types. A walk may make directories, fail half-way and
keep them: `Ends` says what any walk leaves (a good table, grown from the one
it began with, in which its vnodes are kept), and there is one lemma for each
part of a walk. Entries come and go by `LinkNew` and `UnlinkAt`, for which
`Entered` and `Removed` say what changes; the entry may be made in the very node
that is allocated. `TreeCorrect` is TreeSound, `TailCorrect` TailIsZero.

The module also holds the proof about Listing. What a reader has met is what
readdir returned and then what is in its buffer (`MetOf`). `ListInv` says of it
that the offset is its length, that the dots come first, and that it has only
names that were there or were made (`MetIs`); that unless something was made,
nothing ahead of the offset was met (`MetOnce`); and that unless something was
removed, whatever was there and was not met is ahead (`MetAll`). The two halves
do not disturb each other: a name that is inserted moves others back only
(`Grows`), a name that is removed moves them forward only (`Shrinks`). At the end
getdents64 must have copied nothing because nothing is ahead, for which any
record must fit into an empty buffer (`DentsIs`, `FirstWritten`). That ls shows the
same names in order is about sort_entries alone: after its i-th pass nothing
behind place i is smaller than what is there (`PassIs`, `SortIs`), and an exchange
keeps how often each name occurs (`SameCount`). `ListedCorrect` is ListedOnce.

Only model-checked: liveness (beyond this prover), that is, RunnableRunsIfFed,
WaitAnyReturns, CallsReturn, GoodBoots, CatchesUp and PromptComesBack. Every
other property of a passing run is a theorem.

## 6. What is not modelled

In the modules above: poll, fstatat, getcwd; copies to and from user memory;
contents and permissions of pages; sectors that fail under FAT32 (Virtio has
failing requests, and Boot failing reads); paths through several directories of
the disk and files whose directory is removed; the switch to the kernel's own
page table in `boot.c` and `entry.S`; delegation registers; the checks of the
ELF header.

Of the C library, stdio (unbuffered: a call of it is a call of read or write),
formatting and strings, which are sequential code over their callers' data.
Requests to malloc of 2^63 bytes or more, for which
its arithmetic wraps, are left out. `qsort` (`U/lib/stdlib.c:136`) keeps its pivot by address while it swaps, so it
does not sort (2, 2, 0, 1); no program under `U/src` calls it, and ls
sorts by itself. Of the programs, cp -r and the port of tcc; the others make one
or two system calls each. Logging, the self tests, host tools and vendored code
change no state the models have. The kernels under `src/Trae` share nothing with
this one. `PROJECT.json` lists every part with its status.

## 7. Plan

Done: the modules above, the refinement of Disk, and the proofs of section 5.
Left, in this order:

1. `Kernel`: Proc and FileTable (and the vnode pool) composed through the calls
   that change both, refining each of them, so that their theorems carry over.
2. Several directories of the disk, with removal under an open file.
