------------------------------- MODULE Proc -------------------------------
(***************************************************************************)
(* The process table and the scheduler of the S-mode kernel                *)
(* (kernel/proc.c, the timer and fault branches of kernel/trap.c, and the  *)
(* process system calls of kernel/syscall.c).                              *)
(*                                                                         *)
(* One hart runs the kernel and every trap is taken with sstatus.SIE = 0,  *)
(* so a system call is one step of the model unless it gives the hart      *)
(* away itself: proc_wait yields inside its loop, and a read of the        *)
(* console or a poll spins in the kernel without giving the hart away.     *)
(* Between system calls the process in user mode may be preempted by the   *)
(* timer at any instruction.                                               *)
(*                                                                         *)
(* Calls that return an error and change nothing (fork with a full table)  *)
(* are stuttering steps and have no action.                                *)
(***************************************************************************)
EXTENDS Integers, FiniteSets

CONSTANTS
  NPROC,      \* slots of g_procs (16 in include/proc.h)
  MaxPid,     \* bound: fork is not called once g_next_pid passes it
  Statuses,   \* exit statuses, with the -1 of a faulting process
  NULL        \* the null pointer, and "no argument"

ASSUME ProcAssumption ==
  /\ NPROC \in Nat \ {0}
  /\ MaxPid \in Nat \ {0}
  /\ Statuses \subseteq Int
  /\ -1 \in Statuses
  /\ NULL \notin Int

VARIABLES
  state,        \* g_procs[i].state
  pid,          \* g_procs[i].pid
  parent,       \* g_procs[i].parent: a slot, never a pid
  exit_status,  \* g_procs[i].exit_status
  g_current,    \* the slot that owns the hart, NULL in the scheduler
  scan,         \* i of the scheduler's inner loop
  g_next_pid,
  waiting,      \* pid argument of the proc_wait loop the slot is inside of
  spinning,     \* the current process busy-waits for console input
  forker,       \* history: pid of the process that forked this one
  reaped        \* history: pids returned by proc_wait

vars == <<state, pid, parent, exit_status, g_current, scan, g_next_pid,
          waiting, spinning, forker, reaped>>

Slots == 0 .. NPROC - 1

\* PROC_SLEEPING exists in the enumeration and no code assigns it;
\* PROC_USED exists only inside proc_alloc .. proc_fork, one step here.
States == {"UNUSED", "RUNNABLE", "RUNNING", "ZOMBIE"}

WaitArgs == -1 .. MaxPid + 1

-----------------------------------------------------------------------------
(* Boot: kernel_main leaves one process, /bin/sh with pid 1, in slot 0.    *)

Init ==
  /\ state = [s \in Slots |-> IF s = 0 THEN "RUNNABLE" ELSE "UNUSED"]
  /\ pid = [s \in Slots |-> IF s = 0 THEN 1 ELSE 0]
  /\ parent = [s \in Slots |-> NULL]
  /\ exit_status = [s \in Slots |-> 0]
  /\ g_current = NULL
  /\ scan = 0
  /\ g_next_pid = 2
  /\ waiting = [s \in Slots |-> NULL]
  /\ spinning = FALSE
  /\ forker = [s \in Slots |-> 0]
  /\ reaped = {}

-----------------------------------------------------------------------------
(* Helpers *)

\* Mutant: a slot is free as soon as its process has exited.
FindUnused_ZombieIsFree(np) ==
  /\ state[np] \in {"UNUSED", "ZOMBIE"}
  /\ \A s \in Slots : s < np => state[s] \notin {"UNUSED", "ZOMBIE"}

\* proc_find_unused returns np: the first slot that is UNUSED.
FindUnused(np) ==
  /\ state[np] = "UNUSED"
  /\ \A s \in Slots : s < np => state[s] # "UNUSED"

\* p executes user instructions: it has the hart and is in no system call.
InUser(p) ==
  /\ g_current = p
  /\ waiting[p] = NULL
  /\ ~spinning

\* The slots proc_wait counts as children (found = 1).
Children(p) == {c \in Slots : parent[c] = p /\ state[c] # "UNUSED"}

\* What sys_getppid tells c: the pid stored in the slot parent points to,
\* whoever lives there now.
GetPpid(c) == IF parent[c] = NULL THEN 0 ELSE pid[parent[c]]

\* Mutant: the test for pid -1 is missing.
Reapable_NoAny(p, arg) ==
  {c \in Children(p) : state[c] = "ZOMBIE" /\ arg = pid[c]}

\* The children that end the scan for the pid argument arg.
Reapable(p, arg) ==
  {c \in Children(p) : state[c] = "ZOMBIE" /\ arg \in {-1, pid[c]}}

-----------------------------------------------------------------------------
(* Process system calls *)

\* Mutant: the pid is derived from the slot.
ProcAlloc_SlotPid(np) ==
  /\ FindUnused(np)
  /\ g_next_pid <= MaxPid
  /\ pid' = [pid EXCEPT ![np] = np + 1]
  /\ g_next_pid' = g_next_pid + 1
  /\ exit_status' = [exit_status EXCEPT ![np] = 0]

\* proc_alloc: the slot is zeroed and takes the next pid.
ProcAlloc(np) ==
  /\ FindUnused(np)
  /\ g_next_pid <= MaxPid
  /\ pid' = [pid EXCEPT ![np] = g_next_pid]
  /\ g_next_pid' = g_next_pid + 1
  /\ exit_status' = [exit_status EXCEPT ![np] = 0]

\* proc_fork, to its successful end.
Fork(p, np) ==
  /\ InUser(p)
  /\ ProcAlloc(np)
  /\ parent' = [parent EXCEPT ![np] = p]
  /\ state' = [state EXCEPT ![np] = "RUNNABLE"]
  /\ forker' = [forker EXCEPT ![np] = pid[p]]
  /\ UNCHANGED <<g_current, scan, waiting, spinning, reaped>>

\* proc_fork when a page for the trap frame, the page table or a copied
\* user page is missing: the pid is spent and the slot is UNUSED again.
ForkNoMem(p, np) ==
  /\ InUser(p)
  /\ ProcAlloc(np)
  /\ parent' = [parent EXCEPT ![np] = NULL]
  /\ forker' = [forker EXCEPT ![np] = 0]
  /\ UNCHANGED <<state, g_current, scan, waiting, spinning, reaped>>

\* Mutant: the exiting process frees its slot itself.
Exit_FreesSlot(p, st) ==
  /\ InUser(p)
  /\ exit_status' = [exit_status EXCEPT ![p] = st]
  /\ state' = [state EXCEPT ![p] = "UNUSED"]
  /\ g_current' = NULL
  /\ UNCHANGED <<pid, parent, scan, g_next_pid, waiting, spinning, forker,
                 reaped>>

\* Mutant: the exiting process forgets its parent.
Exit_DropsParent(p, st) ==
  /\ InUser(p)
  /\ exit_status' = [exit_status EXCEPT ![p] = st]
  /\ state' = [state EXCEPT ![p] = "ZOMBIE"]
  /\ parent' = [parent EXCEPT ![p] = NULL]
  /\ g_current' = NULL
  /\ UNCHANGED <<pid, scan, g_next_pid, waiting, spinning, forker, reaped>>

\* proc_exit, called by sys_exit.
\* The children keep their parent pointer.
Exit(p, st) ==
  /\ InUser(p)
  /\ exit_status' = [exit_status EXCEPT ![p] = st]
  /\ state' = [state EXCEPT ![p] = "ZOMBIE"]
  /\ g_current' = NULL
  /\ UNCHANGED <<pid, parent, scan, g_next_pid, waiting, spinning, forker,
                 reaped>>

\* kernel_trap_handler on any other trap from user mode.
Fault(p) == Exit(p, -1)

\* p calls wait4, or comes back from the proc_yield inside its loop.
AtWaitScan(p, arg) ==
  /\ g_current = p
  /\ ~spinning
  /\ waiting[p] \in {NULL, arg}

\* The scan meets a zombie: the lowest matching slot is freed and its pid
\* returned.
WaitReap(p, arg, c) ==
  /\ AtWaitScan(p, arg)
  /\ c \in Reapable(p, arg)
  /\ \A d \in Reapable(p, arg) : c <= d
  /\ state' = [state EXCEPT ![c] = "UNUSED"]
  /\ parent' = [parent EXCEPT ![c] = NULL]
  /\ waiting' = [waiting EXCEPT ![p] = NULL]
  /\ reaped' = reaped \cup {pid[c]}
  /\ UNCHANGED <<pid, exit_status, g_current, scan, g_next_pid, spinning,
                 forker>>

\* The scan meets no child at all: -ECHILD.
WaitNoChild(p, arg) ==
  /\ AtWaitScan(p, arg)
  /\ Children(p) = {}
  /\ waiting' = [waiting EXCEPT ![p] = NULL]
  /\ UNCHANGED <<state, pid, parent, exit_status, g_current, scan, g_next_pid,
                 spinning, forker, reaped>>

\* The scan meets children, none to reap: proc_yield and scan again.
WaitYield(p, arg) ==
  /\ AtWaitScan(p, arg)
  /\ Children(p) # {}
  /\ Reapable(p, arg) = {}
  /\ waiting' = [waiting EXCEPT ![p] = arg]
  /\ state' = [state EXCEPT ![p] = "RUNNABLE"]
  /\ g_current' = NULL
  /\ UNCHANGED <<pid, parent, exit_status, scan, g_next_pid, spinning, forker,
                 reaped>>

Wait(p, arg) ==
  \/ \E c \in Slots : WaitReap(p, arg, c)
  \/ WaitNoChild(p, arg)
  \/ WaitYield(p, arg)

\* sys_read of the console, or sys_poll, before a character has arrived:
\* the loops on uart_getc and poll_check run with interrupts disabled.
SpinStart(p) ==
  /\ InUser(p)
  /\ spinning' = TRUE
  /\ UNCHANGED <<state, pid, parent, exit_status, g_current, scan, g_next_pid,
                 waiting, forker, reaped>>

\* The character arrives (or the poll's deadline passes) and the call returns.
SpinEnd(p) ==
  /\ g_current = p
  /\ spinning
  /\ spinning' = FALSE
  /\ UNCHANGED <<state, pid, parent, exit_status, g_current, scan, g_next_pid,
                 waiting, forker, reaped>>

-----------------------------------------------------------------------------
(* Timer and scheduler *)

\* kernel_trap_handler on a timer interrupt from user mode: proc_yield.
Preempt(p) ==
  /\ InUser(p)
  /\ state' = [state EXCEPT ![p] = "RUNNABLE"]
  /\ g_current' = NULL
  /\ UNCHANGED <<pid, parent, exit_status, scan, g_next_pid, waiting,
                 spinning, forker, reaped>>

\* Mutant: the inner loop starts over at slot 0 after every switch.
Dispatch_StartsOver(s) ==
  /\ g_current = NULL
  /\ scan = s
  /\ state[s] = "RUNNABLE"
  /\ g_current' = s
  /\ state' = [state EXCEPT ![s] = "RUNNING"]
  /\ scan' = 0
  /\ UNCHANGED <<pid, parent, exit_status, g_next_pid, waiting, spinning,
                 forker, reaped>>

\* Mutant: the loop index runs past the last slot.
Dispatch_NoWrap(s) ==
  /\ g_current = NULL
  /\ scan = s
  /\ state[s] = "RUNNABLE"
  /\ g_current' = s
  /\ state' = [state EXCEPT ![s] = "RUNNING"]
  /\ scan' = scan + 1
  /\ UNCHANGED <<pid, parent, exit_status, g_next_pid, waiting, spinning,
                 forker, reaped>>

\* Mutant: the dispatched process is not marked RUNNING.
Dispatch_NotMarked(s) ==
  /\ g_current = NULL
  /\ scan = s
  /\ state[s] = "RUNNABLE"
  /\ g_current' = s
  /\ scan' = (scan + 1) % NPROC
  /\ UNCHANGED <<state, pid, parent, exit_status, g_next_pid, waiting,
                 spinning, forker, reaped>>

\* One turn of scheduler's inner loop on a RUNNABLE slot.
Dispatch(s) ==
  /\ g_current = NULL
  /\ scan = s
  /\ state[s] = "RUNNABLE"
  /\ g_current' = s
  /\ state' = [state EXCEPT ![s] = "RUNNING"]
  /\ scan' = (scan + 1) % NPROC
  /\ UNCHANGED <<pid, parent, exit_status, g_next_pid, waiting, spinning,
                 forker, reaped>>

\* One turn of scheduler's inner loop on any other slot.
Skip ==
  /\ g_current = NULL
  /\ state[scan] # "RUNNABLE"
  /\ scan' = (scan + 1) % NPROC
  /\ UNCHANGED <<state, pid, parent, exit_status, g_current, g_next_pid,
                 waiting, spinning, forker, reaped>>

-----------------------------------------------------------------------------
Step(p) ==
  \/ \E np \in Slots : Fork(p, np) \/ ForkNoMem(p, np)
  \/ \E st \in Statuses : Exit(p, st)
  \/ Fault(p)
  \/ \E arg \in WaitArgs : Wait(p, arg)
  \/ SpinStart(p)
  \/ SpinEnd(p)
  \/ Preempt(p)
  \/ Dispatch(p)

Next == Skip \/ \E p \in Slots : Step(p)

Spec == Init /\ [][Next]_vars

\* The scheduler never stops scanning, and a process resumed inside
\* proc_wait goes on with its loop.  A timer interrupt that comes due while
\* the hart is in the kernel stays pending and is taken on the return to user
\* mode, so a process cannot dodge it by making system calls: Preempt is
\* strongly fair.  Nothing makes a program fork, exit or wait, and nobody
\* has to type.
Fairness ==
  /\ WF_vars(Skip)
  /\ \A s \in Slots :
       /\ WF_vars(Dispatch(s))
       /\ SF_vars(Preempt(s))
       /\ WF_vars(waiting[s] # NULL /\ Wait(s, waiting[s]))

FairSpec == Spec /\ Fairness

-----------------------------------------------------------------------------
(* Properties *)

\* Every variable keeps the shape the C declarations give it; reaped and
\* live pids have been handed out by g_next_pid.
TypeOK ==
  /\ state \in [Slots -> States]
  /\ pid \in [Slots -> 0 .. MaxPid]
  /\ parent \in [Slots -> Slots \cup {NULL}]
  /\ exit_status \in [Slots -> Statuses \cup {0}]
  /\ g_current \in Slots \cup {NULL}
  /\ scan \in Slots
  /\ g_next_pid \in 2 .. MaxPid + 1
  /\ waiting \in [Slots -> WaitArgs \cup {NULL}]
  /\ spinning \in BOOLEAN
  /\ forker \in [Slots -> 0 .. MaxPid]
  /\ reaped \in SUBSET (0 .. MaxPid)

\* proc_current() names the one RUNNING process: kernel_trap_handler and
\* every system call rely on it, and the scheduler sees none.
CurrentIsTheRunningOne ==
  \A s \in Slots : state[s] = "RUNNING" <=> g_current = s

\* A pid names at most one live process and is never used again after
\* proc_wait has returned it, although slots are recycled and failed forks
\* spend pids.
PidsNeverReused ==
  \A s \in Slots : state[s] # "UNUSED" =>
    /\ pid[s] \in 1 .. g_next_pid - 1
    /\ pid[s] \notin reaped
    /\ \A t \in Slots : state[t] # "UNUSED" /\ pid[t] = pid[s] => s = t

\* parent is a slot, proc_exit does not reparent, and slots are recycled.
\* The pointer still names the process that forked the child as long as
\* nobody has reaped that process; only then can getppid and proc_wait
\* meet a stranger in the slot.
ParentIsForkerUntilReaped ==
  \A c \in Slots : state[c] # "UNUSED" /\ parent[c] # NULL =>
    /\ parent[c] # c
    /\ \/ forker[c] \in reaped
       \/ state[parent[c]] # "UNUSED" /\ GetPpid(c) = forker[c]

\* A process inside the proc_wait loop always has a child left: children
\* disappear through their parent's own proc_wait only, so -ECHILD is
\* decided by the first scan and never wakes a process that has yielded.
WaiterHasChild ==
  \A p \in Slots : waiting[p] # NULL =>
    /\ state[p] \in {"RUNNABLE", "RUNNING"}
    /\ Children(p) # {}

\* A zombie keeps its slot, pid and status until the process in its parent
\* slot collects it; fork never takes the slot before.
ZombieKept ==
  [][\A s \in Slots : state[s] = "ZOMBIE" =>
       /\ pid'[s] = pid[s] /\ exit_status'[s] = exit_status[s]
       /\ \/ state'[s] = "ZOMBIE"
          \/ /\ state'[s] = "UNUSED" /\ g_current = parent[s]
             /\ pid[s] \in reaped']_vars

\* What "round-robin + timer preemption" (verify/stage2.md) promises: a
\* RUNNABLE process gets the hart.
RunnableRuns ==
  \A s \in Slots : state[s] = "RUNNABLE" ~> state[s] = "RUNNING"

\* The part of that promise the code keeps: it holds as long as no process
\* spins on the console for ever.
RunnableRunsIfFed == []<>(~spinning) => RunnableRuns

\* wait4(-1) with a zombie child returns, whatever the other processes do,
\* unless the console holds the hart.
WaitAnyReturns ==
  []<>(~spinning) =>
    \A p \in Slots :
      /\ waiting[p] = -1
      /\ \E c \in Slots : parent[c] = p /\ state[c] = "ZOMBIE"
      ~> waiting[p] = NULL
=============================================================================
