-------------------------- MODULE ProcVirtioProofs --------------------------
(***************************************************************************)
(* The process table (Proc), for every number of slots, every bound on     *)
(* pids and every set of exit statuses; and the block layer under the file *)
(* systems (Virtio): the ring is sound and the kernel's block layer is an  *)
(* atomic disk, for every number of devices and sectors and every width of *)
(* the indices.                                                            *)
(*                                                                         *)
(* The second invariant follows one request from the driver to the device  *)
(* and back.  It claims nothing of the ring while an answer to a request   *)
(* that the firmware has given up may still come (late).                   *)
(***************************************************************************)
EXTENDS Proc, Virtio, SequenceTheorems, TLAPS

-----------------------------------------------------------------------------
(* The process table *)

\* What the safety properties need of one another: a pid that has been
\* returned by proc_wait is older than g_next_pid.
ReapedAreOld == reaped \subseteq 1 .. g_next_pid - 1

\* The inductive invariant of the process table.
ProcInv ==
  /\ TypeOK
  /\ ReapedAreOld
  /\ CurrentIsTheRunningOne
  /\ PidsNeverReused
  /\ ParentIsForkerUntilReaped
  /\ WaiterHasChild

-----------------------------------------------------------------------------
LEMMA InitProcInv == Init => ProcInv
<1> SUFFICES ASSUME Init PROVE ProcInv
  OBVIOUS
<1> USE ProcAssumption DEF Init, Slots
<1>1. TypeOK
  <2>1. state \in [Slots -> States] /\ pid \in [Slots -> 0 .. MaxPid]
    BY DEF States
  <2>2. parent \in [Slots -> Slots \cup {NULL}] /\ waiting \in [Slots -> WaitArgs \cup {NULL}]
    OBVIOUS
  <2>3. exit_status \in [Slots -> Statuses \cup {0}]
    BY 0 \in Statuses \cup {0}
  <2>5. forker \in [Slots -> 0 .. MaxPid]
    BY 0 \in 0 .. MaxPid
  <2>4. scan \in Slots /\ g_next_pid \in 2 .. MaxPid + 1
    OBVIOUS
  <2> QED
    BY <2>1, <2>2, <2>3, <2>4, <2>5 DEF TypeOK
<1>2. ReapedAreOld /\ CurrentIsTheRunningOne
  BY DEF ReapedAreOld, CurrentIsTheRunningOne
<1>3. PidsNeverReused
  BY DEF PidsNeverReused
<1>4. ParentIsForkerUntilReaped /\ WaiterHasChild
  BY DEF ParentIsForkerUntilReaped, WaiterHasChild
<1> QED
  BY <1>1, <1>2, <1>3, <1>4 DEF ProcInv

\* The variables stay in their sets.
LEMMA TypeStep == TypeOK /\ [Next]_vars => TypeOK'
<1> SUFFICES ASSUME TypeOK, [Next]_vars PROVE TypeOK'
  OBVIOUS
<1> USE ProcAssumption DEF TypeOK, Slots, States, WaitArgs
<1>1. CASE UNCHANGED vars
  BY <1>1 DEF vars
<1>2. CASE Skip
  BY <1>2 DEF Skip
<1>3. ASSUME NEW p \in Slots, NEW np \in Slots, Fork(p, np) PROVE TypeOK'
  <2>1. pid[p] \in 0 .. MaxPid /\ g_next_pid \in 0 .. MaxPid
    BY <1>3 DEF Fork, ProcAlloc
  <2>2. pid' \in [Slots -> 0 .. MaxPid] /\ g_next_pid' \in 2 .. MaxPid + 1
    BY <1>3, <2>1 DEF Fork, ProcAlloc
  <2>3. exit_status' \in [Slots -> Statuses \cup {0}]
    BY <1>3 DEF Fork, ProcAlloc
  <2> QED
    BY <1>3, <2>1, <2>2, <2>3 DEF Fork
<1>4. ASSUME NEW p \in Slots, NEW np \in Slots, ForkNoMem(p, np) PROVE TypeOK'
  <2>1. g_next_pid \in 0 .. MaxPid
    BY <1>4 DEF ForkNoMem, ProcAlloc
  <2>2. pid' \in [Slots -> 0 .. MaxPid] /\ g_next_pid' \in 2 .. MaxPid + 1
    BY <1>4, <2>1 DEF ForkNoMem, ProcAlloc
  <2>3. exit_status' \in [Slots -> Statuses \cup {0}]
    BY <1>4 DEF ForkNoMem, ProcAlloc
  <2>4. forker' \in [Slots -> 0 .. MaxPid] /\ parent' \in [Slots -> Slots \cup {NULL}]
    BY <1>4 DEF ForkNoMem
  <2> QED
    BY <1>4, <2>2, <2>3, <2>4 DEF ForkNoMem
<1>5. ASSUME NEW p \in Slots, NEW st \in Statuses, Exit(p, st) PROVE TypeOK'
  BY <1>5 DEF Exit
<1>10. ASSUME NEW p \in Slots, Fault(p) PROVE TypeOK'
  BY <1>5, <1>10 DEF Fault
<1>6. ASSUME NEW p \in Slots, NEW arg \in WaitArgs, Wait(p, arg) PROVE TypeOK'
  <2>1. ASSUME NEW c \in Slots, WaitReap(p, arg, c) PROVE TypeOK'
    BY <2>1 DEF WaitReap
  <2>2. CASE WaitNoChild(p, arg)
    BY <2>2 DEF WaitNoChild
  <2>3. CASE WaitYield(p, arg)
    BY <2>3 DEF WaitYield
  <2> QED BY <1>6, <2>1, <2>2, <2>3 DEF Wait
<1>7. ASSUME NEW p \in Slots, SpinStart(p) \/ SpinEnd(p) PROVE TypeOK'
  BY <1>7 DEF SpinStart, SpinEnd
<1>8. ASSUME NEW p \in Slots, Preempt(p) PROVE TypeOK'
  BY <1>8 DEF Preempt
<1>9. ASSUME NEW p \in Slots, Dispatch(p) PROVE TypeOK'
  BY <1>9 DEF Dispatch
<1> QED
  BY <1>1, <1>2, <1>3, <1>4, <1>5, <1>6, <1>7, <1>8, <1>9, <1>10 DEF Next, Step

-----------------------------------------------------------------------------
(* The steps, action by action.  Each lemma takes the type invariant of   *)
(* the next state from TypeStep and proves the other conjuncts.            *)

\* The conjuncts of ProcInv other than TypeOK.
Safe ==
  /\ ReapedAreOld
  /\ CurrentIsTheRunningOne
  /\ PidsNeverReused
  /\ ParentIsForkerUntilReaped
  /\ WaiterHasChild

LEMMA ForkStep ==
  ASSUME ProcInv, NEW p \in Slots, NEW np \in Slots, Fork(p, np), TypeOK'
  PROVE  Safe'
<1> USE ProcAssumption
<1>1. /\ state[np] = "UNUSED" /\ state' = [state EXCEPT ![np] = "RUNNABLE"]
      /\ pid' = [pid EXCEPT ![np] = g_next_pid] /\ g_next_pid' = g_next_pid + 1
      /\ parent' = [parent EXCEPT ![np] = p]
      /\ forker' = [forker EXCEPT ![np] = pid[p]]
      /\ g_current = p /\ UNCHANGED <<g_current, waiting, reaped>>
  BY DEF Fork, ProcAlloc, FindUnused, InUser
<1>2. TypeOK
  BY DEF ProcInv
<1>3. state[p] = "RUNNING" /\ p # np
  BY <1>1, <1>2 DEF ProcInv, CurrentIsTheRunningOne, TypeOK
<1>4. ReapedAreOld'
  BY <1>1, <1>2 DEF ProcInv, ReapedAreOld, TypeOK
<1>5. CurrentIsTheRunningOne'
  BY <1>1, <1>2, <1>3 DEF ProcInv, CurrentIsTheRunningOne, TypeOK
<1>6. PidsNeverReused'
  BY <1>1, <1>2 DEF ProcInv, ReapedAreOld, PidsNeverReused, TypeOK
<1>7. ParentIsForkerUntilReaped'
  BY <1>1, <1>2, <1>3 DEF ProcInv, ParentIsForkerUntilReaped, GetPpid, TypeOK
<1>8. WaiterHasChild'
  BY <1>1, <1>2, <1>3 DEF ProcInv, WaiterHasChild, Children, TypeOK
<1> QED
  BY <1>4, <1>5, <1>6, <1>7, <1>8 DEF Safe

LEMMA ForkNoMemStep ==
  ASSUME ProcInv, NEW p \in Slots, NEW np \in Slots, ForkNoMem(p, np), TypeOK'
  PROVE  Safe'
<1> USE ProcAssumption
<1>1. /\ state[np] = "UNUSED" /\ UNCHANGED <<state, g_current, waiting, reaped>>
      /\ pid' = [pid EXCEPT ![np] = g_next_pid] /\ g_next_pid' = g_next_pid + 1
      /\ parent' = [parent EXCEPT ![np] = NULL]
      /\ forker' = [forker EXCEPT ![np] = 0]
  BY DEF ForkNoMem, ProcAlloc, FindUnused
<1>2. TypeOK
  BY DEF ProcInv
<1>3. ReapedAreOld' /\ CurrentIsTheRunningOne'
  BY <1>1, <1>2 DEF ProcInv, ReapedAreOld, CurrentIsTheRunningOne, TypeOK
<1>4. PidsNeverReused'
  BY <1>1, <1>2 DEF ProcInv, PidsNeverReused, TypeOK
<1>5. ParentIsForkerUntilReaped'
  BY <1>1, <1>2 DEF ProcInv, ParentIsForkerUntilReaped, GetPpid, TypeOK
<1>6. WaiterHasChild'
  BY <1>1, <1>2 DEF ProcInv, WaiterHasChild, Children, TypeOK
<1> QED
  BY <1>3, <1>4, <1>5, <1>6 DEF Safe

LEMMA ReapStep ==
  ASSUME ProcInv, NEW p \in Slots, NEW arg \in WaitArgs, NEW c \in Slots,
         WaitReap(p, arg, c), TypeOK'
  PROVE  Safe'
<1> USE ProcAssumption
<1>1. /\ parent[c] = p /\ state[c] = "ZOMBIE" /\ g_current = p
      /\ state' = [state EXCEPT ![c] = "UNUSED"]
      /\ parent' = [parent EXCEPT ![c] = NULL]
      /\ waiting' = [waiting EXCEPT ![p] = NULL]
      /\ reaped' = reaped \cup {pid[c]}
      /\ UNCHANGED <<pid, g_current, g_next_pid, forker>>
  BY DEF WaitReap, AtWaitScan, Reapable, Children
<1>2. TypeOK
  BY DEF ProcInv
<1>3. pid[c] \in 1 .. g_next_pid - 1
  BY <1>1 DEF ProcInv, PidsNeverReused
<1>4. ReapedAreOld'
  BY <1>1, <1>3 DEF ProcInv, ReapedAreOld
<1>5. CurrentIsTheRunningOne'
  BY <1>1, <1>2 DEF ProcInv, CurrentIsTheRunningOne, TypeOK
<1>6. PidsNeverReused'
  BY <1>1, <1>2 DEF ProcInv, PidsNeverReused, TypeOK
<1>7. ParentIsForkerUntilReaped'
  BY <1>1, <1>2 DEF ProcInv, ParentIsForkerUntilReaped, GetPpid, TypeOK
<1>8. WaiterHasChild'
  <2> SUFFICES ASSUME NEW q \in Slots, waiting'[q] # NULL
               PROVE  /\ state'[q] \in {"RUNNABLE", "RUNNING"}
                      /\ Children(q)' # {}
    BY DEF WaiterHasChild
  <2>1. q # p /\ waiting[q] # NULL
    BY <1>1, <1>2 DEF TypeOK
  <2>2. state[q] \in {"RUNNABLE", "RUNNING"} /\ q # c
    BY <1>1, <2>1 DEF ProcInv, WaiterHasChild
  <2>3. PICK d \in Slots : parent[d] = q /\ state[d] # "UNUSED"
    BY <2>1 DEF ProcInv, WaiterHasChild, Children
  <2>4. d # c
    BY <1>1, <2>1, <2>3
  <2>5. d \in Children(q)'
    BY <1>1, <1>2, <2>3, <2>4 DEF Children, TypeOK
  <2> QED
    BY <1>1, <1>2, <2>2, <2>5 DEF TypeOK
<1> QED
  BY <1>4, <1>5, <1>6, <1>7, <1>8 DEF Safe

\* Exit, the timer and the yield of proc_wait: the process that has the
\* hart gives it up.
LEMMA LeaveStep ==
  ASSUME ProcInv, NEW p \in Slots, TypeOK', g_current = p, g_current' = NULL,
         NEW st \in {"RUNNABLE", "ZOMBIE"},
         state' = [state EXCEPT ![p] = st],
         UNCHANGED <<pid, parent, g_next_pid, forker, reaped>>,
         \/ waiting' = waiting /\ waiting[p] = NULL
         \/ \E arg \in WaitArgs :
              /\ waiting' = [waiting EXCEPT ![p] = arg]
              /\ st = "RUNNABLE" /\ Children(p) # {}
  PROVE  Safe'
<1> USE ProcAssumption
<1>1. TypeOK
  BY DEF ProcInv
<1>2. state[p] = "RUNNING"
  BY DEF ProcInv, CurrentIsTheRunningOne
<1>3. ReapedAreOld'
  BY DEF ProcInv, ReapedAreOld
<1>4. CurrentIsTheRunningOne'
  BY <1>1, <1>2 DEF ProcInv, CurrentIsTheRunningOne, TypeOK, Slots
<1>5. PidsNeverReused'
  BY <1>1, <1>2 DEF ProcInv, PidsNeverReused, TypeOK
<1>6. ParentIsForkerUntilReaped'
  BY <1>1, <1>2 DEF ProcInv, ParentIsForkerUntilReaped, GetPpid, TypeOK
<1>7. ASSUME NEW q \in Slots PROVE Children(q)' = Children(q)
  BY <1>1, <1>2 DEF Children, TypeOK
<1>8. WaiterHasChild'
  BY <1>1, <1>2, <1>7 DEF ProcInv, WaiterHasChild, TypeOK
<1> QED
  BY <1>3, <1>4, <1>5, <1>6, <1>8 DEF Safe

LEMMA DispatchStep ==
  ASSUME ProcInv, NEW s \in Slots, Dispatch(s), TypeOK'
  PROVE  Safe'
<1> USE ProcAssumption
<1>1. /\ g_current = NULL /\ g_current' = s /\ state[s] = "RUNNABLE"
      /\ state' = [state EXCEPT ![s] = "RUNNING"]
      /\ UNCHANGED <<pid, parent, g_next_pid, waiting, forker, reaped>>
  BY DEF Dispatch
<1>2. TypeOK
  BY DEF ProcInv
<1>3. ReapedAreOld'
  BY <1>1 DEF ProcInv, ReapedAreOld
<1>4. CurrentIsTheRunningOne'
  BY <1>1, <1>2 DEF ProcInv, CurrentIsTheRunningOne, TypeOK, Slots
<1>5. PidsNeverReused'
  BY <1>1, <1>2 DEF ProcInv, PidsNeverReused, TypeOK
<1>6. ParentIsForkerUntilReaped'
  BY <1>1, <1>2 DEF ProcInv, ParentIsForkerUntilReaped, GetPpid, TypeOK
<1>7. ASSUME NEW q \in Slots PROVE Children(q)' = Children(q)
  BY <1>1, <1>2 DEF Children, TypeOK
<1>8. WaiterHasChild'
  BY <1>1, <1>2, <1>7 DEF ProcInv, WaiterHasChild, TypeOK
<1> QED
  BY <1>3, <1>4, <1>5, <1>6, <1>8 DEF Safe

\* Steps that leave everything ProcInv speaks of alone, waiting excepted.
LEMMA QuietStep ==
  ASSUME ProcInv, TypeOK',
         UNCHANGED <<state, pid, parent, g_current, g_next_pid, forker, reaped>>,
         \A q \in Slots : waiting'[q] \in {waiting[q], NULL}
  PROVE  Safe'
<1>1. ReapedAreOld' /\ CurrentIsTheRunningOne'
  BY DEF ProcInv, ReapedAreOld, CurrentIsTheRunningOne
<1>2. PidsNeverReused' /\ ParentIsForkerUntilReaped'
  BY DEF ProcInv, PidsNeverReused, ParentIsForkerUntilReaped, GetPpid
<1>3. WaiterHasChild'
  BY DEF ProcInv, WaiterHasChild, Children
<1> QED
  BY <1>1, <1>2, <1>3 DEF Safe

LEMMA ProcInvStep == ProcInv /\ [Next]_vars => ProcInv'
<1> SUFFICES ASSUME ProcInv, [Next]_vars PROVE ProcInv'
  OBVIOUS
<1>1. TypeOK'
  BY TypeStep DEF ProcInv
<1> SUFFICES Safe'
  BY <1>1 DEF Safe, ProcInv
<1> USE ProcAssumption
<1>2. CASE UNCHANGED vars
  BY <1>1, <1>2, QuietStep DEF vars
<1>3. CASE Skip
  BY <1>1, <1>3, QuietStep DEF Skip
<1>4. ASSUME NEW p \in Slots, NEW np \in Slots, Fork(p, np) PROVE Safe'
  BY <1>1, <1>4, ForkStep
<1>5. ASSUME NEW p \in Slots, NEW np \in Slots, ForkNoMem(p, np) PROVE Safe'
  BY <1>1, <1>5, ForkNoMemStep
<1>6. ASSUME NEW p \in Slots, NEW st \in Statuses, Exit(p, st) PROVE Safe'
  <2>1. /\ g_current = p /\ g_current' = NULL /\ waiting' = waiting
        /\ waiting[p] = NULL /\ state' = [state EXCEPT ![p] = "ZOMBIE"]
        /\ UNCHANGED <<pid, parent, g_next_pid, forker, reaped>>
    BY <1>6 DEF Exit, InUser
  <2> QED
    BY <1>1, <2>1, LeaveStep
<1>7. ASSUME NEW p \in Slots, NEW arg \in WaitArgs, Wait(p, arg) PROVE Safe'
  <2>1. ASSUME NEW c \in Slots, WaitReap(p, arg, c) PROVE Safe'
    BY <1>1, <2>1, ReapStep
  <2>2. CASE WaitNoChild(p, arg)
    BY <1>1, <2>2, QuietStep DEF WaitNoChild, ProcInv, TypeOK
  <2>3. CASE WaitYield(p, arg)
    <3>1. /\ g_current = p /\ g_current' = NULL /\ Children(p) # {}
          /\ waiting' = [waiting EXCEPT ![p] = arg]
          /\ state' = [state EXCEPT ![p] = "RUNNABLE"]
          /\ UNCHANGED <<pid, parent, g_next_pid, forker, reaped>>
      BY <2>3 DEF WaitYield, AtWaitScan
    <3> QED
      BY <1>1, <3>1, LeaveStep
  <2> QED
    BY <1>7, <2>1, <2>2, <2>3 DEF Wait
<1>8. ASSUME NEW p \in Slots, SpinStart(p) \/ SpinEnd(p) PROVE Safe'
  BY <1>1, <1>8, QuietStep DEF SpinStart, SpinEnd
<1>9. ASSUME NEW p \in Slots, Preempt(p) PROVE Safe'
  <2>1. /\ g_current = p /\ g_current' = NULL /\ waiting' = waiting
        /\ waiting[p] = NULL /\ state' = [state EXCEPT ![p] = "RUNNABLE"]
        /\ UNCHANGED <<pid, parent, g_next_pid, forker, reaped>>
    BY <1>9 DEF Preempt, InUser
  <2> QED
    BY <1>1, <2>1, LeaveStep
<1>10. ASSUME NEW p \in Slots, Dispatch(p) PROVE Safe'
  BY <1>1, <1>10, DispatchStep
<1>11. ASSUME NEW p \in Slots, Fault(p) PROVE Safe'
  BY <1>6, <1>11 DEF Fault
<1> QED
  BY <1>2, <1>3, <1>4, <1>5, <1>6, <1>7, <1>8, <1>9, <1>10, <1>11 DEF Next, Step

LEMMA ProcInvHolds == Spec => []ProcInv
  BY InitProcInv, ProcInvStep, PTL DEF Spec

-----------------------------------------------------------------------------
\* The process table keeps the shape proc.c gives it, whatever the order of
\* forks, failed forks, exits, waits, spins, timer interrupts and dispatches.
THEOREM TypeCorrect == Spec => []TypeOK
  BY ProcInvHolds, PTL DEF ProcInv

\* g_current and the RUNNING state never disagree, so at every trap
\* proc_current() is the process that trapped.
THEOREM CurrentCorrect == Spec => []CurrentIsTheRunningOne
  BY ProcInvHolds, PTL DEF ProcInv

\* Pids are unique among live processes and never come back after a wait.
THEOREM PidsCorrect == Spec => []PidsNeverReused
  BY ProcInvHolds, PTL DEF ProcInv

\* A child is reported to, and reaped by, the process that forked it, unless
\* that process has itself been reaped before.
THEOREM ParentCorrect == Spec => []ParentIsForkerUntilReaped
  BY ProcInvHolds, PTL DEF ProcInv

\* A process that yields inside proc_wait has a child to wait for.
THEOREM WaiterCorrect == Spec => []WaiterHasChild
  BY ProcInvHolds, PTL DEF ProcInv

\* What one step may do to a zombie.
LEMMA ZombieStep ==
  ASSUME ProcInv, [Next]_vars, NEW s \in Slots, state[s] = "ZOMBIE"
  PROVE  /\ pid'[s] = pid[s] /\ exit_status'[s] = exit_status[s]
         /\ \/ state'[s] = "ZOMBIE"
            \/ /\ state'[s] = "UNUSED" /\ g_current = parent[s]
               /\ pid[s] \in reaped'
<1> DEFINE Goal ==
      /\ pid'[s] = pid[s] /\ exit_status'[s] = exit_status[s]
      /\ \/ state'[s] = "ZOMBIE"
         \/ /\ state'[s] = "UNUSED" /\ g_current = parent[s]
            /\ pid[s] \in reaped'
<1> SUFFICES Goal
  OBVIOUS
<1>1. TypeOK /\ \A t \in Slots : g_current = t => t # s
  BY DEF ProcInv, CurrentIsTheRunningOne
<1>2. CASE UNCHANGED vars
  BY <1>2 DEF vars
<1>3. CASE Skip
  BY <1>3 DEF Skip
<1>4. ASSUME NEW p \in Slots, NEW np \in Slots, Fork(p, np) \/ ForkNoMem(p, np)
      PROVE  Goal
  BY <1>1, <1>4 DEF Fork, ForkNoMem, ProcAlloc, FindUnused, TypeOK
<1>5. ASSUME NEW p \in Slots, NEW st \in Statuses, Exit(p, st) PROVE Goal
  BY <1>1, <1>5 DEF Exit, InUser, TypeOK
<1>6. ASSUME NEW p \in Slots, NEW arg \in WaitArgs, Wait(p, arg) PROVE Goal
  <2>1. ASSUME NEW c \in Slots, WaitReap(p, arg, c) PROVE Goal
    BY <1>1, <2>1 DEF WaitReap, AtWaitScan, Reapable, Children, TypeOK
  <2>2. CASE WaitNoChild(p, arg)
    BY <2>2 DEF WaitNoChild
  <2>3. CASE WaitYield(p, arg)
    BY <1>1, <2>3 DEF WaitYield, AtWaitScan, TypeOK
  <2> QED
    BY <1>6, <2>1, <2>2, <2>3 DEF Wait
<1>7. ASSUME NEW p \in Slots, SpinStart(p) \/ SpinEnd(p) PROVE Goal
  BY <1>7 DEF SpinStart, SpinEnd
<1>8. ASSUME NEW p \in Slots, Preempt(p) \/ Dispatch(p) PROVE Goal
  BY <1>1, <1>8 DEF Preempt, Dispatch, InUser, TypeOK
<1>9. ASSUME NEW p \in Slots, Fault(p) PROVE Goal
  BY <1>5, <1>9, ProcAssumption DEF Fault
<1> QED
  BY <1>2, <1>3, <1>4, <1>5, <1>6, <1>7, <1>8, <1>9 DEF Next, Step

\* An exit status is never lost to a recycled slot: it waits, unchanged, for
\* the process in the parent slot to call proc_wait.
THEOREM ZombieCorrect == Spec => ZombieKept
<1>1. ProcInv /\ [Next]_vars =>
        [\A s \in Slots : state[s] = "ZOMBIE" =>
           /\ pid'[s] = pid[s] /\ exit_status'[s] = exit_status[s]
           /\ \/ state'[s] = "ZOMBIE"
              \/ /\ state'[s] = "UNUSED" /\ g_current = parent[s]
                 /\ pid[s] \in reaped']_vars
  BY ZombieStep
<1> QED
  BY <1>1, ProcInvHolds, PTL DEF Spec, ZombieKept

-----------------------------------------------------------------------------
(* The block layer: the inductive invariant *)

Idx == 0 .. IdxMod - 1
Succ(x) == (x + 1) % IdxMod
Stages == {"idle", "fetched", "moved", "failed", "told"}
Types == {"in", "out"}

DevRec == [on : Sides \cup {"none"}, seen : Idx, kick : BOOLEAN, stage : Stages,
           type : Types, lba : Nat]
RingRec == [avail : Idx, used : Idx, last : Idx, status : {0, 1, 255}, buf : Values,
            type : Types, lba : Nat]
DrvRec == [side : Sides, at : {"off", "idle", "fill", "publish", "notify", "spin"},
           cur : Devices \cup {"none"}, sie : BOOLEAN, saved : BOOLEAN]
OpRec == [type : Types, lba : Nat, n : Nat, data : Seq(Values), k : Nat]

TypeInv ==
  /\ media \in [Devices -> [Sectors -> Values]]
  /\ dev \in [Devices -> DevRec]
  /\ ring \in [Sides -> RingRec]
  /\ drv \in DrvRec
  /\ op \in OpRec \cup {NoOp}
  /\ late \in SUBSET Devices

\* A call has sectors left, and the data of a write are all there.
CallInv ==
  /\ op = NoOp <=> drv.at \in {"off", "idle"}
  /\ op # NoOp => /\ op.k < op.n
                  /\ op.type = "in" => Len(op.data) = op.k
                  /\ op.type = "out" => Len(op.data) = op.n

\* Only the driver that runs has devices, the kernel's one alone; the firmware
\* only reads.
SideInv ==
  /\ drv.at # "off" => drv.cur \in Devices /\ dev[drv.cur].on = drv.side
  /\ \A d \in Devices : /\ dev[d].on \in {drv.side, "none"}
                        /\ dev[d].on = "none" => dev[d].stage = "idle"
  /\ drv.side = "krn" => /\ late = {}
                         /\ \A d \in Devices : d # drv.cur => dev[d].on = "none"
  /\ drv.side = "fw" => /\ ring["fw"].type = "in"
                        /\ op # NoOp => op.type = "in"
                        /\ \A d \in Devices : dev[d].type = "in"

\* A device that nobody waits for, and that is not late, does nothing.
OthersIdle ==
  \A d \in Devices \ late :
    d # drv.cur \/ op = NoOp => dev[d].stage = "idle" /\ ~dev[d].kick

\* The request of the current sector is in the ring, or the device has it.
Sent(r) == /\ r.status = 255
           /\ r.type = op.type /\ r.lba = op.lba + op.k
           /\ op.type = "out" => r.buf = op.data[op.k + 1]

Held(r, v) == /\ v.type = op.type /\ v.lba = op.lba + op.k
              /\ v.stage \in {"fetched", "moved", "failed"} => r.status = 255
              /\ v.stage \in {"told", "idle"} => r.status \in {0, 1}
              /\ v.stage = "fetched" /\ op.type = "out" => r.buf = op.data[op.k + 1]

\* A sector that the device, with contents m, has moved.
Done(r, v, m) == v.stage = "moved" \/ r.status = 0 =>
                /\ op.lba + op.k \in Sectors
                /\ op.type = "in" => r.buf = m[drv.cur][op.lba + op.k]

\* The ring r and the device v, with contents m, at each place of the driver.
Phase(r, v, m) ==
  /\ drv.at \in {"idle", "fill", "publish"} =>
       v.stage = "idle" /\ ~v.kick /\ r.avail = r.last /\ r.used = r.last /\ v.seen = r.last
  /\ drv.at = "publish" => Sent(r)
  /\ drv.at = "notify" =>
       /\ v.stage = "idle" /\ ~v.kick
       /\ r.avail = Succ(r.last) /\ r.used = r.last /\ v.seen = r.last
       /\ Sent(r)
  /\ drv.at = "spin" =>
       /\ r.avail = Succ(r.last)
       /\ \/ v.stage = "idle" /\ v.kick /\ r.used = r.last /\ v.seen = r.last /\ Sent(r)
          \/ /\ v.stage # "idle" /\ ~v.kick /\ r.used = r.last /\ v.seen = r.avail
             /\ Held(r, v) /\ Done(r, v, m)
          \/ /\ v.stage = "idle" /\ ~v.kick /\ r.used = r.avail /\ v.seen = r.avail
             /\ r.status \in {0, 1} /\ Done(r, v, m)

RingInv == late = {} => Phase(ring[drv.side], dev[drv.cur], media)

VirtioInv == TypeInv /\ CallInv /\ SideInv /\ OthersIdle /\ RingInv /\ FwReadsRight

-----------------------------------------------------------------------------
(* Facts about indices, values and the cold state *)

LEMMA SuccProps == \A x \in Idx : Succ(x) \in Idx /\ Succ(x) # x
  <1>1. QueueSize["fw"] \in 1 .. IdxMod - 1
    BY VirtioAssumption
  <1>2. IdxMod \in Nat /\ IdxMod > 1
    BY <1>1, VirtioAssumption
  <1> QED
    BY <1>2 DEF Idx, Succ

LEMMA ZeroIdx == 0 \in Idx
  <1>1. QueueSize["fw"] \in 1 .. IdxMod - 1
    BY VirtioAssumption
  <1> QED
    BY <1>1, VirtioAssumption DEF Idx

LEMMA ColdOK == Cold \in RingRec /\ Quiet \in DevRec
  <1>1. (CHOOSE v \in Values : TRUE) \in Values
    BY VirtioAssumption
  <1> QED
    BY <1>1, ZeroIdx DEF Cold, Quiet, RingRec, DevRec, Types, Stages, Sides

LEMMA InitInv == VirtioInit => VirtioInv
  <1> SUFFICES ASSUME VirtioInit PROVE VirtioInv
    OBVIOUS
  <1> USE DEF VirtioInit
  <1>1. TypeInv
    BY ColdOK, VirtioAssumption DEF TypeInv, DrvRec, Sides
  <1>2. CallInv
    BY DEF CallInv
  <1>3. SideInv
    BY DEF SideInv, Quiet, Cold, Sides
  <1>4. OthersIdle
    BY DEF OthersIdle, Quiet
  <1>5. RingInv
    BY DEF RingInv, Phase
  <1>6. FwReadsRight
    BY DEF FwReadsRight
  <1> QED
    BY <1>1, <1>2, <1>3, <1>4, <1>5, <1>6 DEF VirtioInv

-----------------------------------------------------------------------------
(* Starting a device *)

LEMMA DiskInitStep ==
  ASSUME VirtioInv, NEW d \in Devices, disk_init(d)
  PROVE  VirtioInv'
  <1> USE DEF VirtioInv
  <1> DEFINE q == [Quiet EXCEPT !.on = IF Accepts("fw", d) THEN "fw" ELSE "none"]
             c == [ring["fw"] EXCEPT !.avail = 0, !.used = 0, !.last = 0]
  <1>1. q \in DevRec /\ q.stage = "idle" /\ ~q.kick /\ q.type = "in" /\ q.seen = 0
        /\ q.on \in {"fw", "none"} /\ (Accepts("fw", d) => q.on = "fw")
    BY ColdOK DEF DevRec, Quiet, Sides
  <1>2. ring["fw"] \in RingRec /\ c \in RingRec
        /\ c.avail = 0 /\ c.used = 0 /\ c.last = 0 /\ c.type = ring["fw"].type
    <2>1. ring["fw"] \in RingRec
      BY DEF TypeInv, Sides
    <2> QED
      BY ONLY <2>1, ZeroIdx DEF RingRec, c
  <1>3. /\ drv.side = "fw" /\ op = NoOp /\ op' = op /\ media' = media /\ late' = late \ {d}
        /\ dev' = [dev EXCEPT ![d] = q]
        /\ Accepts("fw", d) => ring' = [ring EXCEPT !["fw"] = c]
        /\ ~Accepts("fw", d) => ring' = ring
        /\ Accepts("fw", d) => drv' = [drv EXCEPT !.at = "idle", !.cur = d]
        /\ ~Accepts("fw", d) => drv' = [drv EXCEPT !.at = "off", !.cur = d]
    BY DEF disk_init
  <1> HIDE DEF q, c
  <1>4. /\ dev' \in [Devices -> DevRec]
        /\ \A e \in Devices : dev'[e] = IF e = d THEN q ELSE dev[e]
    BY <1>1, <1>3 DEF TypeInv
  <1>5. /\ ring' \in [Sides -> RingRec]
        /\ ring'["fw"].type = ring["fw"].type
        /\ Accepts("fw", d) => ring'["fw"] = c
    BY <1>2, <1>3 DEF TypeInv, Sides
  <1>6. /\ drv' \in DrvRec /\ drv'.side = "fw" /\ drv'.cur = d
        /\ drv'.at = IF Accepts("fw", d) THEN "idle" ELSE "off"
    BY <1>3 DEF TypeInv, DrvRec
  <1>7. TypeInv'
    BY <1>3, <1>4, <1>5, <1>6 DEF TypeInv
  <1>8. CallInv'
    BY <1>3, <1>6 DEF CallInv
  <1>9. SideInv'
    BY <1>1, <1>3, <1>4, <1>5, <1>6 DEF SideInv
  <1>10. OthersIdle'
    BY <1>1, <1>3, <1>4, <1>6 DEF OthersIdle
  <1>11. RingInv'
    BY <1>1, <1>2, <1>4, <1>5, <1>6 DEF RingInv, Phase
  <1>12. FwReadsRight'
    BY <1>3 DEF FwReadsRight
  <1> QED
    BY <1>7, <1>8, <1>9, <1>10, <1>11, <1>12

LEMMA BlkInitStep ==
  ASSUME VirtioInv, NEW d \in Devices, virtio_blk_init(d)
  PROVE  VirtioInv'
  <1> USE DEF VirtioInv, virtio_blk_init
  <1> DEFINE q == [Quiet EXCEPT !.on = "krn"]
  <1>1. q \in DevRec /\ q.stage = "idle" /\ ~q.kick /\ q.on = "krn" /\ q.seen = 0
    BY ColdOK DEF DevRec, Quiet, Sides
  <1>2. Quiet \in DevRec /\ Quiet.stage = "idle" /\ ~Quiet.kick /\ Quiet.on = "none"
    BY ColdOK DEF Quiet
  <1>3. Cold \in RingRec /\ Cold.avail = 0 /\ Cold.used = 0 /\ Cold.last = 0
    BY ColdOK DEF Cold
  <1>4. dev' = [e \in Devices |-> IF e = d /\ Accepts("krn", d) THEN q ELSE Quiet]
        /\ ring' = [s \in Sides |-> Cold]
    OBVIOUS
  <1> HIDE DEF q
  <1>5. TypeInv'
    BY <1>1, <1>2, <1>3, <1>4 DEF TypeInv, DrvRec, Sides
  <1>6. CallInv'
    BY DEF CallInv
  <1>7. SideInv'
    BY <1>1, <1>2, <1>4 DEF SideInv, Sides
  <1>8. OthersIdle'
    BY <1>1, <1>2, <1>4 DEF OthersIdle
  <1>9. RingInv'
    BY <1>1, <1>2, <1>3, <1>4 DEF RingInv, Phase, Sides
  <1>10. FwReadsRight'
    BY DEF FwReadsRight
  <1> QED
    BY <1>5, <1>6, <1>7, <1>8, <1>9, <1>10


-----------------------------------------------------------------------------
(* The driver *)

\* What an unchanged device and ring mean for the next state.
LEMMA CallKnown ==
  ASSUME VirtioInv, drv.at \notin {"off", "idle"}
  PROVE  /\ op \in OpRec /\ op # NoOp /\ op.k < op.n
         /\ drv \in DrvRec /\ drv.side \in Sides /\ drv.cur \in Devices
         /\ ring[drv.side] \in RingRec
         /\ dev[drv.cur] \in DevRec /\ dev[drv.cur].on = drv.side
  <1> USE DEF VirtioInv
  <1>1. drv \in DrvRec /\ drv.side \in Sides
    BY DEF TypeInv, DrvRec
  <1>2. op # NoOp /\ op \in OpRec /\ op.k < op.n
    BY DEF TypeInv, CallInv
  <1>3. drv.cur \in Devices /\ dev[drv.cur].on = drv.side
    BY DEF SideInv
  <1> QED
    BY <1>1, <1>2, <1>3 DEF TypeInv

LEMMA SieStep ==
  ASSUME VirtioInv, EnableInterrupts
  PROVE  VirtioInv'
  <1> USE DEF VirtioInv
  <1>1. /\ drv' \in DrvRec /\ drv'.side = drv.side /\ drv'.at = drv.at /\ drv'.cur = drv.cur
        /\ media' = media /\ dev' = dev /\ ring' = ring /\ op' = op /\ late' = late
    BY DEF EnableInterrupts, TypeInv, DrvRec
  <1>2. TypeInv' /\ CallInv'
    BY <1>1 DEF TypeInv, CallInv
  <1>3. SideInv' /\ OthersIdle'
    BY <1>1 DEF SideInv, OthersIdle
  <1>4. RingInv'
    BY <1>1 DEF RingInv, Phase, Sent, Held, Done
  <1>5. FwReadsRight'
    BY <1>1 DEF FwReadsRight
  <1> QED
    BY <1>2, <1>3, <1>4, <1>5

\* A call starts: the operation is new, the driver's place is "fill".
LEMMA CallStep ==
  ASSUME VirtioInv, NEW o \in OpRec,
         drv.at = "idle", op = NoOp, op' = o, drv' = [drv EXCEPT !.at = "fill"],
         o.k = 0, 0 < o.n, o.type = "in" => Len(o.data) = 0,
         o.type = "out" => Len(o.data) = o.n /\ drv.side = "krn",
         media' = media, dev' = dev, ring' = ring, late' = late
  PROVE  VirtioInv'
  <1> USE DEF VirtioInv
  <1>1. /\ drv' \in DrvRec /\ drv'.side = drv.side /\ drv'.at = "fill" /\ drv'.cur = drv.cur
        /\ o # NoOp /\ o.type \in Types
    BY DEF TypeInv, DrvRec, OpRec, NoOp, Types
  <1>2. TypeInv'
    BY <1>1 DEF TypeInv
  <1>3. CallInv'
    BY <1>1 DEF CallInv
  <1>4. SideInv'
    BY <1>1 DEF SideInv, TypeInv, DrvRec, Sides, Types
  <1>5. OthersIdle'
    BY <1>1 DEF OthersIdle
  <1>6. RingInv'
    BY <1>1 DEF RingInv, Phase
  <1>7. FwReadsRight'
    BY <1>1 DEF FwReadsRight
  <1> QED
    BY <1>2, <1>3, <1>4, <1>5, <1>6, <1>7

LEMMA FilledProps ==
  ASSUME op \in OpRec, op.k < op.n, op.type = "out" => Len(op.data) = op.n, NEW r \in RingRec
  PROVE  /\ Filled(r) \in RingRec /\ Sent(Filled(r)) /\ Filled(r).type = op.type
         /\ Filled(r).avail = r.avail /\ Filled(r).used = r.used /\ Filled(r).last = r.last
  <1>1. op.k \in Nat /\ op.lba \in Nat /\ op.n \in Nat /\ op.type \in Types /\ op.data \in Seq(Values)
    BY DEF OpRec
  <1> DEFINE b == IF op.type = "out" THEN op.data[op.k + 1] ELSE r.buf
  <1>2. b \in Values
    <2>1. r.buf \in Values
      BY DEF RingRec
    <2>2. CASE op.type = "out"
      <3>1. op.k + 1 \in 1 .. Len(op.data)
        BY <1>1, <2>2
      <3> QED
        BY <1>1, <2>2, <3>1
    <2> QED
      BY <2>1, <2>2
  <1>3. op.lba + op.k \in Nat
    BY <1>1
  <1>4. Filled(r) = [r EXCEPT !.type = op.type, !.lba = op.lba + op.k, !.status = 255, !.buf = b]
    BY DEF Filled
  <1>5. op.type = "out" => b = op.data[op.k + 1]
    OBVIOUS
  <1> DEFINE l == op.lba + op.k
  <1> HIDE DEF b, l
  <1>6. Filled(r) = [r EXCEPT !.type = op.type, !.lba = l, !.status = 255, !.buf = b]
    BY <1>4 DEF l
  <1>7. l \in Nat
    BY <1>3 DEF l
  <1>8. /\ Filled(r) \in RingRec /\ Filled(r).type = op.type /\ Filled(r).lba = l
        /\ Filled(r).status = 255 /\ Filled(r).buf = b
        /\ Filled(r).avail = r.avail /\ Filled(r).used = r.used /\ Filled(r).last = r.last
    <2> DEFINE t == op.type
    <2>1. t \in Types
      BY <1>1
    <2>2. Filled(r) = [r EXCEPT !.type = t, !.lba = l, !.status = 255, !.buf = b]
      BY <1>6
    <2> HIDE DEF t
    <2>3. /\ Filled(r) \in RingRec /\ Filled(r).type = t /\ Filled(r).lba = l
          /\ Filled(r).status = 255 /\ Filled(r).buf = b
          /\ Filled(r).avail = r.avail /\ Filled(r).used = r.used /\ Filled(r).last = r.last
      <3> DEFINE r1 == [r EXCEPT !.type = t]
                 r2 == [r1 EXCEPT !.lba = l]
                 r3 == [r2 EXCEPT !.status = 255]
                 r4 == [r3 EXCEPT !.buf = b]
      <3>1. r1 \in RingRec /\ r1.type = t
            /\ r1.avail = r.avail /\ r1.used = r.used /\ r1.last = r.last
        BY <2>1 DEF RingRec
      <3> HIDE DEF r1
      <3>2. r2 \in RingRec /\ r2.type = t /\ r2.lba = l
            /\ r2.avail = r.avail /\ r2.used = r.used /\ r2.last = r.last
        BY <1>7, <3>1 DEF RingRec
      <3> HIDE DEF r2
      <3>3. r3 \in RingRec /\ r3.type = t /\ r3.lba = l /\ r3.status = 255
            /\ r3.avail = r.avail /\ r3.used = r.used /\ r3.last = r.last
        BY <3>2 DEF RingRec
      <3> HIDE DEF r3
      <3>4. r4 \in RingRec /\ r4.type = t /\ r4.lba = l /\ r4.status = 255 /\ r4.buf = b
            /\ r4.avail = r.avail /\ r4.used = r.used /\ r4.last = r.last
        BY <1>2, <3>3 DEF RingRec
      <3> HIDE DEF r4
      <3>5. Filled(r) = r4
        BY <2>2 DEF r1, r2, r3, r4
      <3> QED
        BY <3>4, <3>5
    <2> QED
      BY <2>3 DEF t
  <1> QED
    BY <1>5, <1>8 DEF Sent, l

LEMMA FillStep ==
  ASSUME VirtioInv, Fill
  PROVE  VirtioInv'
  <1> USE DEF VirtioInv
  <1>1. drv.at = "fill" /\ op' = op /\ media' = media /\ dev' = dev /\ late' = late
    BY DEF Fill
  <1>2. /\ op \in OpRec /\ op # NoOp /\ op.k < op.n /\ drv.side \in Sides /\ drv.cur \in Devices
        /\ ring[drv.side] \in RingRec /\ dev[drv.cur].on = drv.side
    BY <1>1, CallKnown
  <1>3. /\ drv' \in DrvRec /\ drv'.side = drv.side /\ drv'.at = "publish" /\ drv'.cur = drv.cur
    BY <1>1 DEF Fill, TypeInv, DrvRec
  <1> DEFINE r == Filled(ring[drv.side])
  <1>4. r \in RingRec /\ Sent(r) /\ r.type = op.type /\ r.avail = ring[drv.side].avail
        /\ r.used = ring[drv.side].used /\ r.last = ring[drv.side].last
    BY <1>2, FilledProps DEF CallInv
  <1>5. ring' = [ring EXCEPT ![drv.side] = r]
    BY DEF Fill
  <1> HIDE DEF r
  <1>6. ring' \in [Sides -> RingRec] /\ ring'[drv.side] = r
        /\ (drv.side = "fw" => ring'["fw"] = r)
    BY <1>2, <1>4, <1>5 DEF TypeInv
  <1>7. TypeInv'
    BY <1>1, <1>3, <1>6 DEF TypeInv
  <1>8. CallInv'
    BY <1>1, <1>2, <1>3 DEF CallInv
  <1>9. SideInv'
    BY <1>1, <1>2, <1>3, <1>4, <1>6 DEF SideInv
  <1>10. OthersIdle'
    BY <1>1, <1>2, <1>3 DEF OthersIdle
  <1>11. RingInv'
    BY <1>1, <1>3, <1>4, <1>6 DEF RingInv, Phase, Sent
  <1>12. FwReadsRight'
    BY <1>1, <1>3 DEF FwReadsRight
  <1> QED
    BY <1>7, <1>8, <1>9, <1>10, <1>11, <1>12

LEMMA PublishStep ==
  ASSUME VirtioInv, Publish
  PROVE  VirtioInv'
  <1> USE DEF VirtioInv
  <1>1. drv.at = "publish" /\ op' = op /\ media' = media /\ dev' = dev /\ late' = late
        /\ ring' = [ring EXCEPT ![drv.side].avail = Succ(ring[drv.side].avail)]
        /\ drv' = [drv EXCEPT !.at = "notify"]
    BY DEF Publish, Succ
  <1>2. /\ op \in OpRec /\ op # NoOp /\ op.k < op.n /\ drv.side \in Sides /\ drv.cur \in Devices
        /\ ring[drv.side] \in RingRec /\ dev[drv.cur].on = drv.side
    BY <1>1, CallKnown
  <1>3. /\ drv' \in DrvRec /\ drv'.side = drv.side /\ drv'.at = "notify" /\ drv'.cur = drv.cur
    BY <1>1 DEF TypeInv, DrvRec
  <1> DEFINE q == ring[drv.side]
             r == [q EXCEPT !.avail = Succ(q.avail)]
  <1>4. Succ(q.avail) \in Idx
    BY <1>2, SuccProps DEF RingRec
  <1>5. /\ r \in RingRec /\ r.avail = Succ(q.avail) /\ r.used = q.used /\ r.last = q.last
        /\ r.status = q.status /\ r.type = q.type /\ r.lba = q.lba /\ r.buf = q.buf
    BY <1>2, <1>4 DEF RingRec
  <1>6. ring' = [ring EXCEPT ![drv.side] = r]
    BY <1>1
  <1> HIDE DEF r
  <1>7. ring' \in [Sides -> RingRec] /\ ring'[drv.side] = r
        /\ (drv.side = "fw" => ring'["fw"] = r)
    BY <1>2, <1>5, <1>6 DEF TypeInv
  <1>8. TypeInv'
    BY <1>1, <1>3, <1>7 DEF TypeInv
  <1>9. CallInv'
    BY <1>1, <1>2, <1>3 DEF CallInv
  <1>10. SideInv'
    BY <1>1, <1>2, <1>3, <1>5, <1>7 DEF SideInv
  <1>11. OthersIdle'
    BY <1>1, <1>2, <1>3 DEF OthersIdle
  <1>12. RingInv'
    BY <1>1, <1>3, <1>5, <1>7 DEF RingInv, Phase, Sent
  <1>13. FwReadsRight'
    BY <1>1, <1>3 DEF FwReadsRight
  <1> QED
    BY <1>8, <1>9, <1>10, <1>11, <1>12, <1>13

LEMMA NotifyStep ==
  ASSUME VirtioInv, Notify
  PROVE  VirtioInv'
  <1> USE DEF VirtioInv
  <1>1. drv.at = "notify" /\ op' = op /\ media' = media /\ ring' = ring /\ late' = late
        /\ dev' = [dev EXCEPT ![drv.cur].kick = TRUE]
        /\ drv' = [drv EXCEPT !.at = "spin"]
    BY DEF Notify
  <1>2. /\ op \in OpRec /\ op # NoOp /\ op.k < op.n /\ drv.side \in Sides /\ drv.cur \in Devices
        /\ dev[drv.cur] \in DevRec /\ dev[drv.cur].on = drv.side
    BY <1>1, CallKnown
  <1>3. /\ drv' \in DrvRec /\ drv'.side = drv.side /\ drv'.at = "spin" /\ drv'.cur = drv.cur
    BY <1>1 DEF TypeInv, DrvRec
  <1> DEFINE q == dev[drv.cur]
             v == [q EXCEPT !.kick = TRUE]
  <1>4. /\ v \in DevRec /\ v.on = q.on /\ v.seen = q.seen /\ v.kick = TRUE
        /\ v.stage = q.stage /\ v.type = q.type /\ v.lba = q.lba
    BY <1>2 DEF DevRec
  <1>5. dev' = [dev EXCEPT ![drv.cur] = v]
    BY <1>1
  <1> HIDE DEF v
  <1>6. /\ dev' \in [Devices -> DevRec]
        /\ \A e \in Devices : dev'[e] = IF e = drv.cur THEN v ELSE dev[e]
    BY <1>2, <1>4, <1>5 DEF TypeInv
  <1>7. TypeInv'
    BY <1>1, <1>3, <1>6 DEF TypeInv
  <1>8. CallInv'
    BY <1>1, <1>2, <1>3 DEF CallInv
  <1>9. SideInv'
    BY <1>1, <1>2, <1>3, <1>4, <1>6 DEF SideInv
  <1>10. OthersIdle'
    BY <1>1, <1>2, <1>3, <1>6 DEF OthersIdle
  <1>11. RingInv'
    BY <1>1, <1>2, <1>3, <1>4, <1>6 DEF RingInv, Phase, Sent
  <1>12. FwReadsRight'
    BY <1>1, <1>3 DEF FwReadsRight
  <1> QED
    BY <1>7, <1>8, <1>9, <1>10, <1>11, <1>12

\* The driver back at a place p of its caller, interrupts as they were.
Back(p) == [drv EXCEPT !.at = p, !.sie = drv.saved, !.saved = FALSE]

\* The call with one more sector served, whose contents are b.
More(b) == [op EXCEPT !.k = @ + 1, !.data = IF op.type = "in" THEN Append(@, b) ELSE @]

LEMMA BackProps ==
  ASSUME drv \in DrvRec, NEW p \in {"idle", "fill"}
  PROVE  Back(p) \in DrvRec /\ Back(p).at = p /\ Back(p).side = drv.side /\ Back(p).cur = drv.cur
  <1> DEFINE d1 == [drv EXCEPT !.at = p]
             d2 == [d1 EXCEPT !.sie = drv.saved]
             d3 == [d2 EXCEPT !.saved = FALSE]
  <1>1. d1 \in DrvRec /\ d1.at = p /\ d1.side = drv.side /\ d1.cur = drv.cur
    BY DEF DrvRec
  <1>2. drv.saved \in BOOLEAN
    BY DEF DrvRec
  <1> HIDE DEF d1
  <1>3. d2 \in DrvRec /\ d2.at = p /\ d2.side = drv.side /\ d2.cur = drv.cur
    BY <1>1, <1>2 DEF DrvRec
  <1> HIDE DEF d2
  <1>4. d3 \in DrvRec /\ d3.at = p /\ d3.side = drv.side /\ d3.cur = drv.cur
    BY <1>3 DEF DrvRec
  <1> HIDE DEF d3
  <1>5. Back(p) = d3
    BY DEF Back, d1, d2, d3
  <1> QED
    BY <1>4, <1>5

LEMMA MoreProps ==
  ASSUME op \in OpRec, NEW b \in Values
  PROVE  /\ More(b) \in OpRec /\ More(b).type = op.type /\ More(b).lba = op.lba
         /\ More(b).n = op.n /\ More(b).k = op.k + 1 /\ More(b) # NoOp
         /\ More(b).data = IF op.type = "in" THEN Append(op.data, b) ELSE op.data
  <1> DEFINE e == IF op.type = "in" THEN Append(op.data, b) ELSE op.data
             o1 == [op EXCEPT !.k = op.k + 1]
             o2 == [o1 EXCEPT !.data = e]
  <1>1. op.k \in Nat /\ op.data \in Seq(Values)
    BY DEF OpRec
  <1>2. e \in Seq(Values)
    BY <1>1, AppendProperties
  <1>3. /\ o1 \in OpRec /\ o1.type = op.type /\ o1.lba = op.lba /\ o1.n = op.n /\ o1.k = op.k + 1
        /\ o1.data = op.data
    BY <1>1 DEF OpRec
  <1>4. More(b) = o2
    BY <1>3 DEF More
  <1> HIDE DEF o1, e
  <1>5. /\ o2 \in OpRec /\ o2.type = op.type /\ o2.lba = op.lba /\ o2.n = op.n /\ o2.k = op.k + 1
        /\ o2.data = e
    BY <1>2, <1>3 DEF OpRec
  <1>6. o2 # NoOp
    BY <1>5 DEF OpRec, Types, NoOp
  <1> QED
    BY <1>4, <1>5, <1>6 DEF e

\* What the driver does with the answer, whichever way it came by it.
LEMMA CallGoesOn ==
  ASSUME VirtioInv, drv.at = "spin", NEW b \in Values, op' = More(b), op.k + 1 < op.n,
         drv' = Back("fill")
  PROVE  /\ op' \in OpRec /\ op' # NoOp /\ CallInv'
         /\ drv' \in DrvRec /\ drv'.at = "fill" /\ drv'.side = drv.side /\ drv'.cur = drv.cur
         /\ op'.type = op.type /\ op'.lba = op.lba /\ op'.k = op.k + 1
         /\ op'.data = IF op.type = "in" THEN Append(op.data, b) ELSE op.data
  <1> USE DEF VirtioInv
  <1>1. op \in OpRec /\ op # NoOp /\ op.k < op.n /\ drv \in DrvRec
    BY CallKnown
  <1>2. op.data \in Seq(Values) /\ op.k \in Nat
    BY <1>1 DEF OpRec
  <1>3. Len(Append(op.data, b)) = Len(op.data) + 1
    BY <1>2, AppendProperties
  <1>4. /\ op' \in OpRec /\ op'.type = op.type /\ op'.lba = op.lba
        /\ op'.n = op.n /\ op'.k = op.k + 1 /\ op' # NoOp
        /\ op'.data = IF op.type = "in" THEN Append(op.data, b) ELSE op.data
    BY <1>1, MoreProps
  <1>5. /\ drv' \in DrvRec /\ drv'.at = "fill" /\ drv'.side = drv.side /\ drv'.cur = drv.cur
    BY <1>1, BackProps
  <1>6. CallInv'
    <2>1. op'.type = "in" => Len(op'.data) = op'.k
      BY <1>1, <1>3, <1>4 DEF CallInv
    <2>2. op'.type = "out" => Len(op'.data) = op'.n
      BY <1>1, <1>4 DEF CallInv
    <2> QED
      BY <1>4, <1>5, <2>1, <2>2 DEF CallInv
  <1> QED
    BY <1>4, <1>5, <1>6

LEMMA CallEnds ==
  ASSUME VirtioInv, drv.at = "spin", op' = NoOp, drv' = Back("idle")
  PROVE  /\ CallInv'
         /\ drv' \in DrvRec /\ drv'.at = "idle" /\ drv'.side = drv.side /\ drv'.cur = drv.cur
  <1>1. drv \in DrvRec
    BY CallKnown
  <1>2. drv' \in DrvRec /\ drv'.at = "idle" /\ drv'.side = drv.side /\ drv'.cur = drv.cur
    BY <1>1, BackProps
  <1> QED
    BY <1>2 DEF CallInv

\* The three ways Advance leaves: the call fails, goes on with its next sector
\* or is complete.
LEMMA AdvanceCases ==
  ASSUME VirtioInv, drv.at = "spin", NEW ok, NEW r, Advance(ok, r)
  PROVE  \/ op' = NoOp /\ drv' = Back("idle")
         \/ ok /\ op' = More(r.buf) /\ op.k + 1 < op.n /\ drv' = Back("fill")
  <1> DEFINE o == [op EXCEPT !.k = @ + 1,
                             !.data = IF op.type = "in" THEN Append(@, r.buf) ELSE @]
  <1>1. CASE ~ok
    BY <1>1 DEF Advance, Back
  <1>2. CASE ok
    <2>1. o = More(r.buf)
      BY DEF More
    <2>2. op \in OpRec
      BY CallKnown
    <2>3. o.k = op.k + 1 /\ o.n = op.n
      BY <2>2 DEF OpRec
    <2> HIDE DEF o
    <2>4. CASE o.k < o.n
      BY <1>2, <2>1, <2>3, <2>4 DEF Advance, Back, o
    <2>5. CASE ~(o.k < o.n)
      BY <1>2, <2>5 DEF Advance, Back, o
    <2> QED
      BY <2>4, <2>5
  <1> QED
    BY <1>1, <1>2

LEMMA CollectStep ==
  ASSUME VirtioInv, Collect
  PROVE  VirtioInv'
  <1> USE DEF VirtioInv
  <1> DEFINE r == ring[drv.side]
             v == dev[drv.cur]
             q == [r EXCEPT !.last = r.used, !.type = "in", !.lba = 0]
  <1>1. /\ drv.at = "spin" /\ r.used # r.last /\ media' = media /\ dev' = dev
        /\ late' = IF late = {} THEN late ELSE late \cup {drv.cur}
        /\ ring' = [ring EXCEPT ![drv.side] = q]
    BY DEF Collect, StillDue
  <1>2. Advance(r.status = 0, r)
    BY DEF Collect
  <1>3. /\ op \in OpRec /\ op # NoOp /\ op.k < op.n /\ drv \in DrvRec
        /\ drv.side \in Sides /\ drv.cur \in Devices
        /\ r \in RingRec /\ v \in DevRec /\ v.on = drv.side
    BY <1>1, CallKnown
  <1>4. \/ op' = NoOp /\ drv' = Back("idle")
        \/ r.status = 0 /\ op' = More(r.buf) /\ op.k + 1 < op.n /\ drv' = Back("fill")
    BY <1>1, <1>2, AdvanceCases
  <1>5. r.buf \in Values
    BY <1>3 DEF RingRec
  <1>6. /\ q \in RingRec /\ q.last = r.used /\ q.type = "in"
        /\ q.avail = r.avail /\ q.used = r.used
    <2> DEFINE q1 == [r EXCEPT !.last = r.used]
               q2 == [q1 EXCEPT !.type = "in"]
               q3 == [q2 EXCEPT !.lba = 0]
    <2>1. q1 \in RingRec /\ q1.last = r.used /\ q1.avail = r.avail /\ q1.used = r.used
      BY <1>3 DEF RingRec
    <2>2. q = q3
      OBVIOUS
    <2> HIDE DEF q1, q, r
    <2>3. q2 \in RingRec /\ q2.last = r.used /\ q2.type = "in" /\ q2.avail = r.avail
          /\ q2.used = r.used
      BY <2>1 DEF RingRec, Types
    <2> HIDE DEF q2
    <2>4. q3 \in RingRec /\ q3.last = r.used /\ q3.type = "in" /\ q3.avail = r.avail
          /\ q3.used = r.used
      BY <2>3 DEF RingRec
    <2> QED
      BY <2>2, <2>4
  <1> HIDE DEF q
  <1>7. ring' \in [Sides -> RingRec] /\ ring'[drv.side] = q
        /\ (drv.side = "fw" => ring'["fw"] = q)
    BY <1>1, <1>3, <1>6 DEF TypeInv
  <1>8. /\ CallInv' /\ drv' \in DrvRec /\ op' \in OpRec \cup {NoOp}
        /\ drv'.at \in {"idle", "fill"} /\ drv'.side = drv.side /\ drv'.cur = drv.cur
        /\ op' # NoOp => /\ r.status = 0 /\ op'.type = op.type /\ op'.lba = op.lba
                         /\ op'.k = op.k + 1
                         /\ op'.data = IF op.type = "in" THEN Append(op.data, r.buf) ELSE op.data
    <2>1. CASE op' = NoOp /\ drv' = Back("idle")
      BY <1>1, <2>1, CallEnds
    <2>2. CASE r.status = 0 /\ op' = More(r.buf) /\ op.k + 1 < op.n /\ drv' = Back("fill")
      BY <1>1, <1>5, <2>2, CallGoesOn
    <2> QED
      BY <1>4, <2>1, <2>2
  <1>9. late' \in SUBSET Devices /\ late \subseteq late' /\ (late' = {} => late = {})
        /\ (late # {} => drv.cur \in late')
    BY <1>1, <1>3 DEF TypeInv
  <1>10. late = {} => /\ r.avail = r.used /\ v.stage = "idle" /\ ~v.kick /\ v.seen = r.used
                      /\ Done(r, v, media)
    BY <1>1 DEF RingInv, Phase
  <1>11. TypeInv'
    BY <1>1, <1>7, <1>8, <1>9 DEF TypeInv
  <1>12. SideInv'
    <2>1. drv.side = "krn" => late' = {}
      BY <1>1 DEF SideInv
    <2>2. drv.side = "fw" /\ op' # NoOp => op'.type = "in"
      BY <1>3, <1>8 DEF SideInv
    <2> QED
      BY <1>1, <1>3, <1>6, <1>7, <1>8, <2>1, <2>2 DEF SideInv
  <1>13. OthersIdle'
    <2> SUFFICES ASSUME NEW d \in Devices \ late', d # drv.cur \/ op' = NoOp
                 PROVE  dev[d].stage = "idle" /\ ~dev[d].kick
      BY <1>1, <1>8 DEF OthersIdle
    <2>1. CASE d = drv.cur
      BY <1>9, <1>10, <2>1
    <2>2. CASE d # drv.cur
      BY <1>9, <2>2 DEF OthersIdle
    <2> QED
      BY <2>1, <2>2
  <1>14. RingInv'
    <2> SUFFICES ASSUME late' = {} PROVE Phase(ring[drv.side], dev[drv.cur], media)'
      BY DEF RingInv
    <2>1. /\ ring'[drv'.side].avail = r.used /\ ring'[drv'.side].used = r.used
          /\ ring'[drv'.side].last = r.used
          /\ dev'[drv'.cur] = v /\ v.stage = "idle" /\ ~v.kick /\ v.seen = r.used
      BY <1>1, <1>6, <1>7, <1>8, <1>9, <1>10
    <2> QED
      BY <1>8, <2>1 DEF Phase
  <1>15. FwReadsRight'
    <2> SUFFICES ASSUME drv.side = "fw", op' # NoOp, late' = {}, NEW j \in 1 .. op.k + 1
                 PROVE  /\ op.lba + j - 1 \in Sectors
                        /\ op'.data[j] = media[drv.cur][op.lba + j - 1]
      BY <1>1, <1>8 DEF FwReadsRight
    <2>1. op.type = "in" /\ Len(op.data) = op.k /\ op.data \in Seq(Values)
          /\ op.k \in Nat /\ op.lba \in Nat
      BY <1>3 DEF SideInv, CallInv, OpRec
    <2>2. op'.data = Append(op.data, r.buf)
      BY <1>8, <2>1
    <2>3. /\ op.lba + op.k \in Sectors /\ r.buf = media[drv.cur][op.lba + op.k]
      BY <1>8, <1>9, <1>10, <2>1 DEF Done
    <2>4. CASE j = op.k + 1
      <3>1. op'.data[j] = r.buf
        BY <1>5, <2>1, <2>2, <2>4, AppendProperties
      <3>2. op.lba + j - 1 = op.lba + op.k
        BY <2>1, <2>4
      <3> QED
        BY <2>3, <3>1, <3>2
    <2>5. CASE j \in 1 .. op.k
      <3>1. op'.data[j] = op.data[j]
        BY <1>5, <2>1, <2>2, <2>5, AppendProperties
      <3> QED
        BY <1>3, <1>9, <2>5, <3>1 DEF FwReadsRight
    <2> QED
      BY <2>1, <2>4, <2>5
  <1> QED
    BY <1>8, <1>11, <1>12, <1>13, <1>14, <1>15

LEMMA TimeoutStep ==
  ASSUME VirtioInv, FwTimeout
  PROVE  VirtioInv'
  <1> USE DEF VirtioInv
  <1>1. /\ drv.at = "spin" /\ drv.side = "fw" /\ late' = late \cup {drv.cur}
        /\ media' = media /\ dev' = dev /\ ring' = ring
        /\ op' = NoOp /\ drv' = Back("idle")
    BY DEF FwTimeout, Advance, Back
  <1>2. drv.cur \in Devices
    BY <1>1, CallKnown
  <1>3. CallInv' /\ drv' \in DrvRec /\ drv'.at = "idle" /\ drv'.side = "fw" /\ drv'.cur = drv.cur
    BY <1>1, CallEnds
  <1>4. TypeInv'
    BY <1>1, <1>2, <1>3 DEF TypeInv
  <1>5. SideInv'
    BY <1>1, <1>3 DEF SideInv
  <1>6. OthersIdle'
    BY <1>1, <1>3 DEF OthersIdle
  <1>7. RingInv' /\ FwReadsRight'
    BY <1>1 DEF RingInv, FwReadsRight
  <1> QED
    BY <1>3, <1>4, <1>5, <1>6, <1>7

-----------------------------------------------------------------------------
(* The device *)

\* A device that has something to do is the current one, or late.
LEMMA BusyDevice ==
  ASSUME VirtioInv, NEW d \in Devices, dev[d].stage # "idle" \/ dev[d].kick,
         dev[d].stage = "idle" => dev[d].on \in Sides
  PROVE  /\ dev[d] \in DevRec /\ dev[d].on = drv.side /\ drv.side \in Sides
         /\ drv.side = "fw" => dev[d].type = "in"
         /\ ring[drv.side] \in RingRec
         /\ d \notin late => d = drv.cur /\ op # NoOp
         /\ late = {} => d = drv.cur /\ op # NoOp /\ op \in OpRec /\ drv.at = "spin"
                         /\ Phase(ring[drv.side], dev[d], media)
  <1> USE DEF VirtioInv
  <1>1. dev[d] \in DevRec /\ drv.side \in Sides /\ ring[drv.side] \in RingRec
    BY DEF TypeInv, DrvRec
  <1>2. dev[d].on = drv.side /\ (drv.side = "fw" => dev[d].type = "in")
    BY DEF SideInv, Sides
  <1>3. d \notin late => d = drv.cur /\ op # NoOp
    BY DEF OthersIdle
  <1>4. ASSUME late = {}
        PROVE  /\ d = drv.cur /\ op # NoOp /\ op \in OpRec /\ drv.at = "spin"
               /\ Phase(ring[drv.side], dev[d], media)
    <2>1. d = drv.cur /\ op # NoOp /\ op \in OpRec /\ Phase(ring[drv.side], dev[d], media)
      BY <1>3, <1>4 DEF RingInv, TypeInv
    <2>2. drv.at \in {"fill", "publish", "notify", "spin"}
      BY <2>1 DEF CallInv, TypeInv, DrvRec
    <2>3. drv.at = "spin"
      BY <2>1, <2>2 DEF Phase
    <2> QED
      BY <2>1, <2>3
  <1> QED
    BY <1>1, <1>2, <1>3, <1>4

\* One step of a device d leaves it as w, its ring as q and the contents as m.
LEMMA DeviceStep ==
  ASSUME VirtioInv, NEW d \in Devices, NEW w \in DevRec, NEW q \in RingRec,
         dev[d].stage # "idle" \/ dev[d].kick,
         dev[d].stage = "idle" => dev[d].on \in Sides,
         w.on = dev[d].on, w.type = "in" \/ drv.side = "krn",
         q.type = ring[drv.side].type,
         dev' = [dev EXCEPT ![d] = w], ring' = [ring EXCEPT ![drv.side] = q],
         media' \in [Devices -> [Sectors -> Values]], media' = media \/ drv.side = "krn",
         drv' = drv, op' = op, late' = late,
         late = {} => Phase(q, w, media')
  PROVE  VirtioInv'
  <1> USE DEF VirtioInv
  <1>1. /\ dev[d] \in DevRec /\ dev[d].on = drv.side /\ drv.side \in Sides
        /\ d \notin late => d = drv.cur /\ op # NoOp
        /\ late = {} => d = drv.cur
    BY BusyDevice
  <1>2. /\ dev' \in [Devices -> DevRec]
        /\ \A e \in Devices : dev'[e] = IF e = d THEN w ELSE dev[e]
    BY DEF TypeInv
  <1>3. /\ ring' \in [Sides -> RingRec] /\ ring'[drv.side] = q
        /\ ring'["fw"].type = ring["fw"].type
    <2>1. ring' \in [Sides -> RingRec] /\ ring'[drv.side] = q
          /\ (drv.side # "fw" => ring'["fw"] = ring["fw"])
      BY <1>1 DEF TypeInv, Sides
    <2> QED
      BY <2>1
  <1>4. TypeInv'
    BY <1>2, <1>3 DEF TypeInv
  <1>5. CallInv'
    BY DEF CallInv
  <1>6. SideInv'
    BY <1>1, <1>2, <1>3 DEF SideInv, Sides
  <1>7. OthersIdle'
    BY <1>1, <1>2 DEF OthersIdle
  <1>8. RingInv'
    <2> SUFFICES ASSUME late = {} PROVE Phase(ring[drv.side], dev[drv.cur], media)'
      BY DEF RingInv
    <2>1. ring'[drv'.side] = q /\ dev'[drv'.cur] = w
      BY <1>1, <1>2, <1>3
    <2>2. Phase(q, w, media')
      OBVIOUS
    <2> QED
      BY <2>1, <2>2 DEF Phase, Sent, Held, Done
  <1>9. FwReadsRight'
    BY DEF FwReadsRight
  <1> QED
    BY <1>4, <1>5, <1>6, <1>7, <1>8, <1>9

LEMMA FetchStep ==
  ASSUME VirtioInv, NEW d \in Devices, DevFetch(d)
  PROVE  VirtioInv'
  <1> DEFINE v == dev[d]
             r == ring[drv.side]
             k == (v.seen + 1) % IdxMod # r.avail
             w == [v EXCEPT !.seen = Succ(v.seen), !.stage = "fetched", !.type = r.type,
                            !.lba = r.lba, !.kick = k]
  <1>1. v.on \in Sides /\ v.stage = "idle" /\ v.kick
    BY DEF DevFetch
  <1>2. /\ v \in DevRec /\ v.on = drv.side /\ drv.side \in Sides /\ r \in RingRec
        /\ late = {} => d = drv.cur /\ op # NoOp /\ op \in OpRec /\ drv.at = "spin"
                        /\ Phase(r, v, media)
    BY <1>1, BusyDevice
  <1>3. /\ dev' = [dev EXCEPT ![d] = w]
        /\ media' = media /\ ring' = ring /\ drv' = drv /\ op' = op /\ late' = late
    BY <1>2 DEF DevFetch, Succ
  <1>4. r.type \in Types /\ r.lba \in Nat /\ (drv.side = "fw" => r.type = "in")
    BY <1>2 DEF RingRec, VirtioInv, SideInv
  <1>5. Succ(v.seen) \in Idx /\ k \in BOOLEAN
    BY <1>2, SuccProps DEF DevRec
  <1>6. k <=> Succ(v.seen) # r.avail
    BY DEF Succ
  <1>7. /\ w \in DevRec /\ w.on = v.on /\ w.seen = Succ(v.seen) /\ w.stage = "fetched"
        /\ w.type = r.type /\ w.lba = r.lba /\ w.kick = k
    <2> DEFINE w1 == [v EXCEPT !.seen = Succ(v.seen)]
               w2 == [w1 EXCEPT !.stage = "fetched"]
               w3 == [w2 EXCEPT !.type = r.type]
               w4 == [w3 EXCEPT !.lba = r.lba]
               w5 == [w4 EXCEPT !.kick = k]
    <2>1. w = w5
      OBVIOUS
    <2> HIDE DEF w, v, r, k
    <2>2. w1 \in DevRec /\ w1.on = v.on /\ w1.seen = Succ(v.seen)
      BY <1>2, <1>5 DEF DevRec
    <2> HIDE DEF w1
    <2>3. w2 \in DevRec /\ w2.on = v.on /\ w2.seen = Succ(v.seen) /\ w2.stage = "fetched"
      BY <2>2 DEF DevRec, Stages
    <2> HIDE DEF w2
    <2>4. w3 \in DevRec /\ w3.on = v.on /\ w3.seen = Succ(v.seen) /\ w3.stage = "fetched"
          /\ w3.type = r.type
      BY <1>4, <2>3 DEF DevRec
    <2> HIDE DEF w3
    <2>5. w4 \in DevRec /\ w4.on = v.on /\ w4.seen = Succ(v.seen) /\ w4.stage = "fetched"
          /\ w4.type = r.type /\ w4.lba = r.lba
      BY <1>4, <2>4 DEF DevRec
    <2> HIDE DEF w4
    <2>6. w5 \in DevRec /\ w5.on = v.on /\ w5.seen = Succ(v.seen) /\ w5.stage = "fetched"
          /\ w5.type = r.type /\ w5.lba = r.lba /\ w5.kick = k
      BY <1>5, <2>5 DEF DevRec
    <2> QED
      BY <2>1, <2>6
  <1>8. ring' = [ring EXCEPT ![drv.side] = r]
    BY <1>2, <1>3 DEF VirtioInv, TypeInv
  <1> HIDE DEF w, k
  <1>9. late = {} => Phase(r, w, media)
    <2> SUFFICES ASSUME late = {} PROVE Phase(r, w, media)
      OBVIOUS
    <2>1. drv.at = "spin" /\ Phase(r, v, media)
      BY <1>2
    <2>2. /\ r.avail = Succ(r.last) /\ r.used = r.last /\ v.seen = r.last /\ Sent(r)
      BY <1>1, <2>1 DEF Phase
    <2>3. ~k /\ w.seen = r.avail
      BY <1>6, <1>7, <2>2
    <2>4. Held(r, w)
      BY <1>7, <2>2 DEF Held, Sent
    <2>5. Done(r, w, media)
      BY <1>7, <2>2 DEF Done, Sent
    <2> QED
      BY <1>7, <2>1, <2>2, <2>3, <2>4, <2>5 DEF Phase
  <1>10. media' \in [Devices -> [Sectors -> Values]]
    BY <1>3 DEF VirtioInv, TypeInv
  <1>11. w.type = "in" \/ drv.side = "krn"
    BY <1>2, <1>4, <1>7 DEF Sides
  <1> QED
    BY <1>1, <1>2, <1>3, <1>7, <1>8, <1>9, <1>10, <1>11, DeviceStep

LEMMA MoveStep ==
  ASSUME VirtioInv, NEW d \in Devices, DevMove(d)
  PROVE  VirtioInv'
  <1> DEFINE v == dev[d]
             r == ring[drv.side]
             w == [v EXCEPT !.stage = "moved"]
             s == v.lba
  <1>1. v.stage = "fetched" /\ s \in Sectors
    BY DEF DevMove
  <1>2. /\ v \in DevRec /\ v.on = drv.side /\ drv.side \in Sides /\ r \in RingRec
        /\ drv.side = "fw" => v.type = "in"
        /\ late = {} => d = drv.cur /\ op # NoOp /\ op \in OpRec /\ drv.at = "spin"
                        /\ Phase(r, v, media)
    BY <1>1, BusyDevice
  <1>3. /\ dev' = [dev EXCEPT ![d] = w] /\ drv' = drv /\ op' = op /\ late' = late
        /\ \/ /\ v.type = "in" /\ media' = media
              /\ ring' = [ring EXCEPT ![drv.side].buf = media[d][s]]
           \/ /\ v.type = "out" /\ ring' = ring
              /\ media' = [media EXCEPT ![d] = [media[d] EXCEPT ![s] = r.buf]]
    BY <1>2 DEF DevMove
  <1>4. /\ w \in DevRec /\ w.on = v.on /\ w.seen = v.seen /\ w.stage = "moved"
        /\ w.type = v.type /\ w.lba = v.lba /\ w.kick = v.kick
    BY <1>2 DEF DevRec, Stages
  <1>5. late = {} => /\ r.avail = Succ(r.last) /\ ~v.kick /\ r.used = r.last /\ v.seen = r.avail
                     /\ Held(r, v) /\ r.status = 255
    BY <1>1, <1>2 DEF Phase, Held
  <1> HIDE DEF w
  <1>6. media \in [Devices -> [Sectors -> Values]] /\ ring \in [Sides -> RingRec]
    BY DEF VirtioInv, TypeInv
  <1>7. CASE v.type = "in" /\ media' = media
             /\ ring' = [ring EXCEPT ![drv.side].buf = media[d][s]]
    <2> DEFINE b == media[d][s]
               q == [r EXCEPT !.buf = b]
    <2>1. b \in Values
      BY <1>1, <1>6
    <2>2. /\ q \in RingRec /\ q.avail = r.avail /\ q.used = r.used /\ q.last = r.last
          /\ q.status = r.status /\ q.type = r.type /\ q.lba = r.lba /\ q.buf = b
      BY <1>2, <2>1 DEF RingRec
    <2>3. ring' = [ring EXCEPT ![drv.side] = q]
      BY <1>7
    <2> HIDE DEF q
    <2>4. late = {} => Phase(q, w, media')
      <3> SUFFICES ASSUME late = {} PROVE Phase(q, w, media)
        BY <1>7
      <3>1. Held(q, w)
        BY <1>1, <1>4, <1>5, <1>7, <2>2 DEF Held
      <3>2. Done(q, w, media)
        BY <1>1, <1>2, <1>5, <2>2 DEF Done, Held
      <3> QED
        BY <1>2, <1>4, <1>5, <2>2, <3>1, <3>2 DEF Phase
    <2> QED
      BY <1>1, <1>2, <1>3, <1>4, <1>6, <1>7, <2>2, <2>3, <2>4, DeviceStep
  <1>8. CASE v.type = "out" /\ ring' = ring
             /\ media' = [media EXCEPT ![d] = [media[d] EXCEPT ![s] = r.buf]]
    <2>1. r.buf \in Values
      BY <1>2 DEF RingRec
    <2>2. media' \in [Devices -> [Sectors -> Values]]
      BY <1>1, <1>6, <1>8, <2>1
    <2>3. ring' = [ring EXCEPT ![drv.side] = r]
      BY <1>2, <1>6, <1>8
    <2>4. drv.side = "krn"
      BY <1>2, <1>8 DEF Sides
    <2>5. late = {} => Phase(r, w, media')
      <3> SUFFICES ASSUME late = {} PROVE Phase(r, w, media')
        OBVIOUS
      <3>1. Held(r, w)
        BY <1>1, <1>4, <1>5, <1>8 DEF Held
      <3>2. Done(r, w, media')
        BY <1>1, <1>2, <1>5, <1>8 DEF Done, Held
      <3> QED
        BY <1>2, <1>4, <1>5, <3>1, <3>2 DEF Phase
    <2> QED
      BY <1>1, <1>2, <1>3, <1>4, <2>2, <2>3, <2>4, <2>5, DeviceStep
  <1> QED
    BY <1>3, <1>7, <1>8

LEMMA FailStep ==
  ASSUME VirtioInv, NEW d \in Devices, DevFail(d)
  PROVE  VirtioInv'
  <1> DEFINE v == dev[d]
             r == ring[drv.side]
             w == [v EXCEPT !.stage = "failed"]
  <1>1. v.stage = "fetched"
    BY DEF DevFail
  <1>2. /\ v \in DevRec /\ v.on = drv.side /\ drv.side \in Sides /\ r \in RingRec
        /\ drv.side = "fw" => v.type = "in"
        /\ late = {} => d = drv.cur /\ op # NoOp /\ op \in OpRec /\ drv.at = "spin"
                        /\ Phase(r, v, media)
    BY <1>1, BusyDevice
  <1>3. /\ dev' = [dev EXCEPT ![d] = w] /\ drv' = drv /\ op' = op /\ late' = late
        /\ media' = media /\ ring' = ring
    BY DEF DevFail
  <1>4. /\ w \in DevRec /\ w.on = v.on /\ w.seen = v.seen /\ w.stage = "failed"
        /\ w.type = v.type /\ w.lba = v.lba /\ w.kick = v.kick
    BY <1>2 DEF DevRec, Stages
  <1>5. late = {} => /\ r.avail = Succ(r.last) /\ ~v.kick /\ r.used = r.last /\ v.seen = r.avail
                     /\ Held(r, v) /\ r.status = 255
    BY <1>1, <1>2 DEF Phase, Held
  <1> HIDE DEF w
  <1>6. media' \in [Devices -> [Sectors -> Values]] /\ ring' = [ring EXCEPT ![drv.side] = r]
    BY <1>2, <1>3 DEF VirtioInv, TypeInv
  <1>7. late = {} => Phase(r, w, media')
    <2> SUFFICES ASSUME late = {} PROVE Phase(r, w, media)
      BY <1>3
    <2>1. Held(r, w) /\ Done(r, w, media)
      BY <1>1, <1>4, <1>5 DEF Held, Done
    <2> QED
      BY <1>2, <1>4, <1>5, <2>1 DEF Phase
  <1>8. w.type = "in" \/ drv.side = "krn"
    BY <1>2, <1>4 DEF Sides
  <1> QED
    BY <1>1, <1>2, <1>3, <1>4, <1>6, <1>7, <1>8, DeviceStep

LEMMA StatusStep ==
  ASSUME VirtioInv, NEW d \in Devices, DevStatus(d)
  PROVE  VirtioInv'
  <1> DEFINE v == dev[d]
             r == ring[drv.side]
             w == [v EXCEPT !.stage = "told"]
             b == IF v.stage = "moved" THEN 0 ELSE 1
             q == [r EXCEPT !.status = b]
  <1>1. v.stage \in {"moved", "failed"}
    BY DEF DevStatus
  <1>2. /\ v \in DevRec /\ v.on = drv.side /\ drv.side \in Sides /\ r \in RingRec
        /\ drv.side = "fw" => v.type = "in"
        /\ late = {} => d = drv.cur /\ op # NoOp /\ op \in OpRec /\ drv.at = "spin"
                        /\ Phase(r, v, media)
    BY <1>1, BusyDevice
  <1>3. /\ dev' = [dev EXCEPT ![d] = w] /\ drv' = drv /\ op' = op /\ late' = late
        /\ media' = media /\ ring' = [ring EXCEPT ![drv.side] = q]
    BY <1>2 DEF DevStatus
  <1>4. /\ w \in DevRec /\ w.on = v.on /\ w.seen = v.seen /\ w.stage = "told"
        /\ w.type = v.type /\ w.lba = v.lba /\ w.kick = v.kick
    BY <1>2 DEF DevRec, Stages
  <1>5. b \in {0, 1} /\ (b = 0 => v.stage = "moved")
    OBVIOUS
  <1> HIDE DEF b
  <1>6. /\ q \in RingRec /\ q.avail = r.avail /\ q.used = r.used /\ q.last = r.last
        /\ q.status = b /\ q.type = r.type /\ q.lba = r.lba /\ q.buf = r.buf
    BY <1>2, <1>5 DEF RingRec
  <1>7. late = {} => /\ r.avail = Succ(r.last) /\ ~v.kick /\ r.used = r.last /\ v.seen = r.avail
                     /\ Held(r, v) /\ Done(r, v, media)
    BY <1>1, <1>2 DEF Phase
  <1> HIDE DEF w, q
  <1>8. media' \in [Devices -> [Sectors -> Values]]
    BY <1>3 DEF VirtioInv, TypeInv
  <1>9. late = {} => Phase(q, w, media')
    <2> SUFFICES ASSUME late = {} PROVE Phase(q, w, media)
      BY <1>3
    <2>1. Held(q, w)
      BY <1>1, <1>4, <1>5, <1>6, <1>7 DEF Held
    <2>2. Done(q, w, media)
      BY <1>1, <1>4, <1>5, <1>6, <1>7 DEF Done
    <2> QED
      BY <1>2, <1>4, <1>6, <1>7, <2>1, <2>2 DEF Phase
  <1>10. w.type = "in" \/ drv.side = "krn"
    BY <1>2, <1>4 DEF Sides
  <1> QED
    BY <1>1, <1>2, <1>3, <1>4, <1>6, <1>8, <1>9, <1>10, DeviceStep

LEMMA UsedStep ==
  ASSUME VirtioInv, NEW d \in Devices, DevUsed(d)
  PROVE  VirtioInv'
  <1> DEFINE v == dev[d]
             r == ring[drv.side]
             w == [v EXCEPT !.stage = "idle", !.type = "in", !.lba = 0]
             q == [r EXCEPT !.used = Succ(r.used)]
  <1>1. v.stage = "told"
    BY DEF DevUsed
  <1>2. /\ v \in DevRec /\ v.on = drv.side /\ drv.side \in Sides /\ r \in RingRec
        /\ late = {} => d = drv.cur /\ op # NoOp /\ op \in OpRec /\ drv.at = "spin"
                        /\ Phase(r, v, media)
    BY <1>1, BusyDevice
  <1>3. /\ dev' = [dev EXCEPT ![d] = w] /\ drv' = drv /\ op' = op /\ late' = late
        /\ media' = media /\ ring' = [ring EXCEPT ![drv.side] = q]
    BY <1>2 DEF DevUsed, Succ
  <1>4. /\ w \in DevRec /\ w.on = v.on /\ w.seen = v.seen /\ w.stage = "idle"
        /\ w.type = "in" /\ w.kick = v.kick
    <2> DEFINE w1 == [v EXCEPT !.stage = "idle"]
               w2 == [w1 EXCEPT !.type = "in"]
               w3 == [w2 EXCEPT !.lba = 0]
    <2>1. w = w3
      OBVIOUS
    <2> HIDE DEF w, v
    <2>2. w1 \in DevRec /\ w1.on = v.on /\ w1.seen = v.seen /\ w1.stage = "idle"
          /\ w1.kick = v.kick
      BY <1>2 DEF DevRec, Stages
    <2> HIDE DEF w1
    <2>3. w2 \in DevRec /\ w2.on = v.on /\ w2.seen = v.seen /\ w2.stage = "idle"
          /\ w2.kick = v.kick /\ w2.type = "in"
      BY <2>2 DEF DevRec, Types
    <2> HIDE DEF w2
    <2>4. w3 \in DevRec /\ w3.on = v.on /\ w3.seen = v.seen /\ w3.stage = "idle"
          /\ w3.kick = v.kick /\ w3.type = "in"
      BY <2>3 DEF DevRec
    <2> QED
      BY <2>1, <2>4
  <1>5. Succ(r.used) \in Idx
    BY <1>2, SuccProps DEF RingRec
  <1>6. /\ q \in RingRec /\ q.avail = r.avail /\ q.used = Succ(r.used) /\ q.last = r.last
        /\ q.status = r.status /\ q.type = r.type /\ q.lba = r.lba /\ q.buf = r.buf
    BY <1>2, <1>5 DEF RingRec
  <1>7. late = {} => /\ r.avail = Succ(r.last) /\ ~v.kick /\ r.used = r.last /\ v.seen = r.avail
                     /\ r.status \in {0, 1} /\ Done(r, v, media)
    BY <1>1, <1>2 DEF Phase, Held
  <1> HIDE DEF w, q
  <1>8. media' \in [Devices -> [Sectors -> Values]]
    BY <1>3 DEF VirtioInv, TypeInv
  <1>9. late = {} => Phase(q, w, media')
    <2> SUFFICES ASSUME late = {} PROVE Phase(q, w, media)
      BY <1>3
    <2>1. Done(q, w, media)
      BY <1>1, <1>4, <1>6, <1>7 DEF Done
    <2> QED
      BY <1>2, <1>4, <1>6, <1>7, <2>1 DEF Phase
  <1> QED
    BY <1>1, <1>2, <1>3, <1>4, <1>6, <1>8, <1>9, DeviceStep

-----------------------------------------------------------------------------
(* Every step, and the theorem *)

LEMMA ReadOp ==
  ASSUME NEW lba \in Lbas, NEW n \in 1 .. MaxCount
  PROVE  LET o == [type |-> "in", lba |-> lba, n |-> n, data |-> <<>>, k |-> 0] IN
         o \in OpRec /\ 0 < o.n /\ Len(o.data) = 0
  <1>1. lba \in Nat /\ n \in Nat /\ 0 < n /\ <<>> \in Seq(Values) /\ Len(<<>>) = 0
    BY VirtioAssumption, EmptySeq
  <1> QED
    BY <1>1 DEF OpRec, Types

LEMMA WriteOp ==
  ASSUME NEW lba \in Lbas, NEW n \in 1 .. MaxCount, NEW data \in [1 .. n -> Values]
  PROVE  LET o == [type |-> "out", lba |-> lba, n |-> Len(data), data |-> data, k |-> 0] IN
         o \in OpRec /\ 0 < o.n /\ Len(data) = n
  <1>1. lba \in Nat /\ n \in Nat /\ 0 < n
    BY VirtioAssumption
  <1>2. data \in Seq(Values)
    BY <1>1, SeqDef
  <1>3. Len(data) = n
    BY <1>1, <1>2, LenProperties
  <1> QED
    BY <1>1, <1>2, <1>3 DEF OpRec, Types

LEMMA ReadStep ==
  ASSUME VirtioInv, NEW lba \in Lbas, NEW n \in 1 .. MaxCount,
         disk_read_bytes(lba, n) \/ blk_read(lba, n)
  PROVE  VirtioInv'
  <1> DEFINE o == [type |-> "in", lba |-> lba, n |-> n, data |-> <<>>, k |-> 0]
  <1>1. o \in OpRec /\ 0 < o.n /\ Len(o.data) = 0
    BY ReadOp
  <1>2. /\ drv.at = "idle" /\ op = NoOp /\ op' = o /\ drv' = [drv EXCEPT !.at = "fill"]
        /\ media' = media /\ dev' = dev /\ ring' = ring /\ late' = late
    BY DEF disk_read_bytes, blk_read
  <1>3. o.k = 0 /\ o.type = "in"
    OBVIOUS
  <1> HIDE DEF o
  <1> QED
    BY <1>1, <1>2, <1>3, CallStep

LEMMA WriteStep ==
  ASSUME VirtioInv, NEW lba \in Lbas, NEW n \in 1 .. MaxCount,
         NEW data \in [1 .. n -> Values], blk_write(lba, data)
  PROVE  VirtioInv'
  <1> DEFINE o == [type |-> "out", lba |-> lba, n |-> Len(data), data |-> data, k |-> 0]
  <1>1. o \in OpRec /\ 0 < o.n
    BY WriteOp
  <1>2. /\ drv.at = "idle" /\ drv.side = "krn" /\ op = NoOp /\ op' = o
        /\ drv' = [drv EXCEPT !.at = "fill"]
        /\ media' = media /\ dev' = dev /\ ring' = ring /\ late' = late
    BY DEF blk_write
  <1>3. o.k = 0 /\ o.type = "out" /\ o.n = Len(o.data)
    OBVIOUS
  <1> HIDE DEF o
  <1> QED
    BY <1>1, <1>2, <1>3, CallStep

LEMMA NextInv == VirtioInv /\ [VirtioNext]_vvars => VirtioInv'
  <1> SUFFICES ASSUME VirtioInv, [VirtioNext]_vvars PROVE VirtioInv'
    OBVIOUS
  <1>1. ASSUME NEW d \in Devices, disk_init(d) PROVE VirtioInv'
    BY <1>1, DiskInitStep
  <1>2. ASSUME NEW d \in Devices, virtio_blk_init(d) PROVE VirtioInv'
    BY <1>2, BlkInitStep
  <1>3. ASSUME NEW d \in Devices, Device(d) PROVE VirtioInv'
    BY <1>3, FetchStep, MoveStep, FailStep, StatusStep, UsedStep DEF Device
  <1>4. ASSUME NEW lba \in Lbas, NEW n \in 1 .. MaxCount,
               disk_read_bytes(lba, n) \/ blk_read(lba, n)
        PROVE  VirtioInv'
    BY <1>4, ReadStep
  <1>5. ASSUME NEW lba \in Lbas, NEW n \in 1 .. MaxCount, NEW data \in [1 .. n -> Values],
               blk_write(lba, data)
        PROVE  VirtioInv'
    BY <1>5, WriteStep
  <1>6. CASE EnableInterrupts
    BY <1>6, SieStep
  <1>7. CASE Driver
    BY <1>7, FillStep, PublishStep, NotifyStep, CollectStep DEF Driver
  <1>8. CASE FwTimeout
    BY <1>8, TimeoutStep
  <1>9. CASE UNCHANGED vvars
    <2> USE <1>9 DEF VirtioInv, vvars
    <2>1. TypeInv' /\ CallInv' /\ SideInv'
      BY DEF TypeInv, CallInv, SideInv
    <2>2. OthersIdle' /\ FwReadsRight'
      BY DEF OthersIdle, FwReadsRight
    <2>3. RingInv'
      BY DEF RingInv, Phase, Sent, Held, Done
    <2> QED
      BY <2>1, <2>2, <2>3
  <1> QED
    BY <1>1, <1>2, <1>3, <1>4, <1>5, <1>6, <1>7, <1>8, <1>9 DEF VirtioNext

LEMMA InvSound == VirtioInv => RingSound
  <1> SUFFICES ASSUME VirtioInv PROVE RingSound
    OBVIOUS
  <1> USE DEF VirtioInv
  <1>1. VirtioTypeOK
    <2>1. media \in [Devices -> [Sectors -> Values]] /\ late \subseteq Devices
      BY DEF TypeInv
    <2>2. ASSUME NEW d \in Devices
          PROVE  /\ dev[d].on \in Sides \cup {"none"} /\ dev[d].seen \in 0 .. IdxMod - 1
                 /\ dev[d].stage \in {"idle", "fetched", "moved", "failed", "told"}
      BY DEF TypeInv, DevRec, Stages, Idx
    <2>3. ASSUME NEW s \in Sides
          PROVE  /\ {ring[s].avail, ring[s].used, ring[s].last} \subseteq 0 .. IdxMod - 1
                 /\ ring[s].status \in {0, 1, 255} /\ ring[s].buf \in Values
      BY DEF TypeInv, RingRec, Idx
    <2>4. drv.at \in {"off", "idle", "fill", "publish", "notify", "spin"}
      BY DEF TypeInv, DrvRec
    <2> QED
      BY <2>1, <2>2, <2>3, <2>4 DEF VirtioTypeOK
  <1>2. BounceIsOwned
    <2> SUFFICES ASSUME drv.side = "krn", drv.at \in {"idle", "fill", "publish"}
                 PROVE  /\ \A d \in Devices : dev[d].on = "krn" => dev[d].stage = "idle"
                        /\ ring["krn"].avail = ring["krn"].used
                        /\ ring["krn"].used = ring["krn"].last
      BY DEF BounceIsOwned
    <2>1. Phase(ring["krn"], dev[drv.cur], media)
      BY DEF SideInv, RingInv
    <2>2. \A d \in Devices : d # drv.cur => dev[d].on = "none"
      BY DEF SideInv
    <2> QED
      BY <2>1, <2>2 DEF Phase
  <1> QED
    BY <1>1, <1>2 DEF RingSound

(* The driver and the device use the request, the status byte and the      *)
(* sector buffer each in its own turn, and the firmware reads what is on   *)
(* the device (virtio_blk_rw_one, virtio_blk_read_one, disk_read_bytes).   *)
THEOREM RingCorrect == VirtioSpec => []RingSound
  <1>1. VirtioSpec => []VirtioInv
    BY InitInv, NextInv, PTL DEF VirtioSpec
  <1> QED
    BY <1>1, InvSound, PTL

-----------------------------------------------------------------------------
(* The kernel's block layer implements Disk *)

\* The call as Disk sees it, with k sectors served.
Seen(k, data) == [type |-> op.type, dev |-> drv.cur, lba |-> op.lba, n |-> op.n, k |-> k,
                  data |-> data]

Quietly == Served' = Served /\ media' = media /\ out' = out

LEMMA ServedOff == drv.side = "fw" \/ op = NoOp => Served = NoOp
  BY DEF Served

LEMMA ServedBefore ==
  ASSUME drv.side = "krn", op \in OpRec, op # NoOp, ~Moved
  PROVE  Served = Seen(op.k, op.data)
  <1>1. op.k \in Nat
    BY DEF OpRec
  <1>2. op.k + 0 = op.k
    BY <1>1
  <1> QED
    BY <1>2 DEF Served, Seen

LEMMA ServedAfter ==
  ASSUME drv.side = "krn", op # NoOp, Moved
  PROVE  Served = Seen(op.k + 1, IF op.type = "in" THEN Append(op.data, ring["krn"].buf)
                                                    ELSE op.data)
  BY DEF Served, Seen

LEMMA KernelSpin ==
  ASSUME VirtioInv, drv.side = "krn", drv.at = "spin"
  PROVE  /\ op \in OpRec /\ op # NoOp /\ op.k < op.n /\ op.k \in Nat /\ op.n \in Nat
         /\ drv.cur \in Devices /\ late = {}
         /\ Phase(ring["krn"], dev[drv.cur], media)
  <1> USE DEF VirtioInv
  <1>1. late = {}
    BY DEF SideInv
  <1>2. op \in OpRec /\ op # NoOp /\ op.k < op.n /\ drv.cur \in Devices
    BY CallKnown
  <1> QED
    BY <1>1, <1>2 DEF RingInv, OpRec

LEMMA DiskInitOK == VirtioInit => D!DiskInit
  BY VirtioAssumption DEF VirtioInit, D!DiskInit, D!NoCall, Served, NoOp

\* Steps between calls, and everything the firmware does, leave Disk alone.
LEMMA OffDisk ==
  ASSUME drv.side = "fw" \/ op = NoOp, drv'.side = "fw" \/ op' = NoOp,
         media' = media, out' = out
  PROVE  Quietly
  <1>1. Served = NoOp
    BY ServedOff
  <1>2. Served' = NoOp
    BY DEF Served, NoOp
  <1> QED
    BY <1>1, <1>2 DEF Quietly

LEMMA StartDisk ==
  ASSUME VirtioInv, NEW d \in Devices, disk_init(d) \/ virtio_blk_init(d) \/ EnableInterrupts
  PROVE  Quietly
  <1>1. /\ op = NoOp /\ op' = NoOp /\ media' = media /\ out' = out
    BY DEF disk_init, virtio_blk_init, EnableInterrupts
  <1> QED
    BY <1>1, OffDisk

LEMMA FirmwareDisk ==
  ASSUME VirtioInv, drv.side = "fw", VirtioNext,
         ~ \E d \in Devices : disk_init(d) \/ virtio_blk_init(d)
  PROVE  Quietly
  <1>1. \/ \E d \in Devices : Device(d)
        \/ \E lba \in Lbas, n \in 1 .. MaxCount : disk_read_bytes(lba, n)
        \/ Driver \/ FwTimeout
    BY DEF VirtioNext, blk_read, blk_write, EnableInterrupts
  <1>2. ASSUME NEW d \in Devices, Device(d) PROVE Quietly
    <2>1. \/ DevMove(d)
          \/ media' = media
      BY <1>2 DEF Device, DevFetch, DevFail, DevStatus, DevUsed
    <2>2. drv' = drv /\ op' = op /\ out' = out
      BY <1>2 DEF Device, DevMove, DevFetch, DevFail, DevStatus, DevUsed
    <2>3. ASSUME DevMove(d) PROVE media' = media
      <3>1. dev[d].type = "in"
        BY DEF VirtioInv, SideInv
      <3> QED
        BY <2>3, <3>1 DEF DevMove
    <2> QED
      BY <2>1, <2>2, <2>3, OffDisk
  <1>3. ASSUME NEW lba \in Lbas, NEW n \in 1 .. MaxCount, disk_read_bytes(lba, n)
        PROVE  Quietly
    <2>1. drv'.side = "fw"
      BY <1>3 DEF disk_read_bytes, VirtioInv, TypeInv, DrvRec
    <2> QED
      BY <1>3, <2>1, OffDisk DEF disk_read_bytes
  <1>4. ASSUME Driver \/ FwTimeout PROVE Quietly
    <2>1. media' = media
      BY <1>4 DEF Driver, Fill, Publish, Notify, Collect, FwTimeout
    <2>2. drv'.side = "fw"
      <3>1. drv \in DrvRec
        BY DEF VirtioInv, TypeInv
      <3>2. CASE Fill \/ Publish \/ Notify
        BY <3>1, <3>2 DEF Fill, Publish, Notify, DrvRec
      <3>3. CASE Collect
        BY <3>1, <3>3, AdvanceCases, BackProps DEF Collect
      <3>4. CASE FwTimeout
        BY <3>1, <3>4, BackProps DEF FwTimeout, Advance, Back
      <3> QED
        BY <1>4, <3>2, <3>3, <3>4 DEF Driver
    <2>3. out' = out
      BY <1>4 DEF Driver, Fill, Publish, Notify, Collect, FwTimeout, Advance
    <2> QED
      BY <2>1, <2>2, <2>3, OffDisk
  <1> QED
    BY <1>1, <1>2, <1>3, <1>4

LEMMA CallDisk ==
  ASSUME VirtioInv, NEW lba \in Lbas, NEW n \in 1 .. MaxCount, NEW data \in [1 .. n -> Values],
         blk_read(lba, n) \/ blk_write(lba, data)
  PROVE  D!DiskNext
  <1>1. drv.side = "krn" /\ drv.at = "idle" /\ op = NoOp /\ drv.cur \in Devices
    BY DEF blk_read, blk_write, VirtioInv, SideInv
  <1>2. /\ drv'.side = "krn" /\ drv'.at = "fill" /\ drv'.cur = drv.cur
        /\ media' = media /\ out' = NoOp
    BY <1>1 DEF blk_read, blk_write, VirtioInv, TypeInv, DrvRec
  <1>3. Served = D!NoCall /\ out' = D!NoCall
    BY <1>1, <1>2, ServedOff DEF D!NoCall, NoOp
  <1>4. ~Moved'
    BY <1>2 DEF Moved
  <1>5. CASE blk_read(lba, n)
    <2>1. op' = [type |-> "in", lba |-> lba, n |-> n, data |-> <<>>, k |-> 0]
      BY <1>5 DEF blk_read
    <2>2. op' # NoOp
      BY <2>1 DEF NoOp
    <2>3. Served' = [type |-> "in", dev |-> drv.cur, lba |-> lba, n |-> n, data |-> <<>>, k |-> 0]
      BY <1>2, <1>4, <2>1, <2>2 DEF Served
    <2>4. D!DiskRead(drv.cur, lba, n)
      BY <1>2, <1>3, <2>3 DEF D!DiskRead
    <2> QED
      BY <1>1, <2>4 DEF D!DiskNext
  <1>6. CASE blk_write(lba, data)
    <2>1. op' = [type |-> "out", lba |-> lba, n |-> Len(data), data |-> data, k |-> 0]
      BY <1>6 DEF blk_write
    <2>2. op' # NoOp
      BY <2>1 DEF NoOp
    <2>3. Served' = [type |-> "out", dev |-> drv.cur, lba |-> lba, n |-> Len(data),
                     data |-> data, k |-> 0]
      BY <1>2, <1>4, <2>1, <2>2 DEF Served
    <2>4. D!DiskWrite(drv.cur, lba, data)
      BY <1>2, <1>3, <2>3 DEF D!DiskWrite
    <2> QED
      BY <1>1, <2>4 DEF D!DiskNext
  <1> QED
    BY <1>5, <1>6

\* Nothing that Disk sees has changed.
LEMMA SameServed ==
  ASSUME op' = op, drv'.side = drv.side, drv'.cur = drv.cur, media' = media, out' = out,
         Moved' <=> Moved, Moved => ring'["krn"].buf = ring["krn"].buf
  PROVE  Quietly
  <1>1. CASE Moved
    <2>1. Moved' /\ ring'["krn"].buf = ring["krn"].buf
      BY <1>1
    <2> QED
      BY <1>1, <2>1 DEF Quietly, Served
  <1>2. CASE ~Moved
    <2>1. ~Moved'
      BY <1>2
    <2> QED
      BY <1>2, <2>1 DEF Quietly, Served
  <1> QED
    BY <1>1, <1>2

LEMMA DriverDisk ==
  ASSUME VirtioInv, drv.side = "krn", Fill \/ Publish \/ Notify
  PROVE  Quietly
  <1>1. /\ op' = op /\ media' = media /\ out' = out
        /\ drv.at \in {"fill", "publish", "notify"}
    BY DEF Fill, Publish, Notify
  <1>2. drv'.side = drv.side /\ drv'.cur = drv.cur
        /\ (drv'.at # "spin" \/ Notify)
    BY DEF Fill, Publish, Notify, VirtioInv, TypeInv, DrvRec
  <1>3. ~Moved
    BY <1>1 DEF Moved
  <1>4. ~Moved'
    <2>1. CASE drv'.at # "spin"
      BY <2>1 DEF Moved
    <2>2. CASE Notify
      <3>1. late = {} /\ drv.at = "notify" /\ drv.cur \in Devices
        BY <2>2 DEF Notify, VirtioInv, SideInv
      <3>2. dev[drv.cur].stage = "idle" /\ ring["krn"].status = 255
        BY <3>1 DEF VirtioInv, RingInv, Phase, Sent
      <3>3. dev'[drv.cur].stage = "idle" /\ ring'["krn"].status = 255
        BY <2>2, <3>1, <3>2 DEF Notify, VirtioInv, TypeInv, DevRec
      <3> QED
        BY <1>2, <3>3 DEF Moved
    <2> QED
      BY <1>2, <2>1, <2>2
  <1> QED
    BY <1>1, <1>2, <1>3, <1>4, SameServed

LEMMA CollectDisk ==
  ASSUME VirtioInv, drv.side = "krn", Collect
  PROVE  Quietly \/ D!Answer
  <1> DEFINE r == ring["krn"]
  <1>1. /\ drv.at = "spin" /\ r.used # r.last /\ media' = media /\ Advance(r.status = 0, r)
    BY DEF Collect
  <1>2. /\ op \in OpRec /\ op # NoOp /\ op.k < op.n /\ op.k \in Nat /\ op.n \in Nat
        /\ Phase(r, dev[drv.cur], media)
    BY <1>1, KernelSpin
  <1>3. dev[drv.cur].stage = "idle" /\ r.status \in {0, 1}
    BY <1>1, <1>2 DEF Phase
  <1>4. Moved <=> r.status = 0
    BY <1>1, <1>3 DEF Moved
  <1> DEFINE data == IF op.type = "in" THEN Append(op.data, r.buf) ELSE op.data
  <1>5. CASE r.status # 0
    <2>1. op' = NoOp /\ out' = [type |-> "error"]
      BY <1>1, <1>5 DEF Advance
    <2>2. Served = Seen(op.k, op.data)
      BY <1>2, <1>4, <1>5, ServedBefore
    <2>3. Served' = NoOp
      BY <2>1 DEF Served, NoOp
    <2>4. Served # NoOp /\ Served.k = op.k /\ Served.n = op.n
      BY <1>2, <2>2 DEF Seen, NoOp, OpRec, Types
    <2>5. D!Answer
      BY <1>1, <1>2, <2>1, <2>3, <2>4 DEF D!Answer, D!NoCall, NoOp
    <2> QED
      BY <2>5
  <1>6. CASE r.status = 0
    <2>1. Served = Seen(op.k + 1, data)
      BY <1>2, <1>4, <1>6, ServedAfter
    <2>2. r.buf \in Values
      BY DEF VirtioInv, TypeInv, RingRec, Sides
    <2>3. /\ More(r.buf) \in OpRec /\ More(r.buf).type = op.type /\ More(r.buf).lba = op.lba
          /\ More(r.buf).n = op.n /\ More(r.buf).k = op.k + 1 /\ More(r.buf) # NoOp
          /\ More(r.buf).data = data
      BY <1>2, <2>2, MoreProps
    <2> DEFINE o == [op EXCEPT !.k = @ + 1,
                               !.data = IF op.type = "in" THEN Append(@, r.buf) ELSE @]
    <2>4. o = More(r.buf)
      BY DEF More
    <2>5. o.type = op.type /\ o.k = op.k + 1 /\ o.n = op.n /\ o.data = data
      BY <2>3, <2>4
    <2> HIDE DEF o
    <2>6. CASE o.k < o.n
      <3>1. op' = More(r.buf) /\ drv' = Back("fill") /\ out' = out
        BY <1>1, <1>6, <2>4, <2>6 DEF Advance, Back, o
      <3>2. drv'.at = "fill" /\ drv'.side = drv.side /\ drv'.cur = drv.cur
        BY <3>1, BackProps DEF VirtioInv, TypeInv
      <3>3. ~Moved'
        BY <3>2 DEF Moved
      <3>4. /\ op' # NoOp /\ op'.type = op.type /\ op'.lba = op.lba /\ op'.n = op.n
            /\ op'.k + 0 = op.k + 1 /\ op'.data = data
        BY <1>2, <2>3, <3>1
      <3>5. Served' = Seen(op.k + 1, data)
        BY <3>2, <3>3, <3>4 DEF Served, Seen
      <3> QED
        BY <1>1, <2>1, <3>1, <3>5 DEF Quietly
    <2>7. CASE ~(o.k < o.n)
      <3>1. op' = NoOp /\ out' = [type |-> "ok", data |-> IF o.type = "in" THEN o.data ELSE <<>>]
        BY <1>1, <1>6, <2>7 DEF Advance, o
      <3>2. op.k + 1 = op.n
        BY <1>2, <2>5, <2>7
      <3>3. Served' = NoOp
        BY <3>1 DEF Served, NoOp
      <3>4. /\ Served # NoOp /\ Served.k = Served.n /\ Served.type = op.type
            /\ Served.data = data
        BY <1>2, <2>1, <3>2 DEF Seen, NoOp, OpRec, Types
      <3>5. D!Answer
        BY <1>1, <2>5, <3>1, <3>3, <3>4 DEF D!Answer, D!NoCall, NoOp
      <3> QED
        BY <3>5
    <2> QED
      BY <2>6, <2>7
  <1> QED
    BY <1>5, <1>6

LEMMA KernelDevice ==
  ASSUME VirtioInv, drv.side = "krn", NEW d \in Devices,
         dev[d].stage # "idle" \/ dev[d].kick, dev[d].stage = "idle" => dev[d].on \in Sides
  PROVE  /\ d = drv.cur /\ drv.at = "spin" /\ op \in OpRec /\ op # NoOp
         /\ op.k < op.n /\ op.k \in Nat /\ op.n \in Nat
         /\ dev \in [Devices -> DevRec] /\ ring \in [Sides -> RingRec]
         /\ media \in [Devices -> [Sectors -> Values]]
         /\ dev[d].on = "krn" /\ Phase(ring["krn"], dev[d], media)
  <1>1. late = {}
    BY DEF VirtioInv, SideInv
  <1>2. d = drv.cur /\ drv.at = "spin" /\ dev[d].on = "krn"
    BY <1>1, BusyDevice
  <1> QED
    BY <1>2, KernelSpin DEF VirtioInv, TypeInv

\* The device's steps but one change nothing that Disk sees.
LEMMA QuietDevice ==
  ASSUME VirtioInv, drv.side = "krn", NEW d \in Devices,
         DevFetch(d) \/ DevFail(d) \/ DevStatus(d) \/ DevUsed(d)
  PROVE  Quietly
  <1>1. dev[d].stage # "idle" \/ (dev[d].kick /\ dev[d].on \in Sides)
    BY DEF DevFetch, DevFail, DevStatus, DevUsed
  <1>2. /\ d = drv.cur /\ drv.at = "spin" /\ op \in OpRec
        /\ dev \in [Devices -> DevRec] /\ ring \in [Sides -> RingRec]
        /\ dev[d] \in DevRec /\ ring["krn"] \in RingRec
        /\ dev[d].on = "krn" /\ Phase(ring["krn"], dev[d], media)
    BY <1>1, KernelDevice DEF Sides
  <1>3. /\ op' = op /\ drv' = drv /\ media' = media /\ out' = out
    BY DEF DevFetch, DevFail, DevStatus, DevUsed
  <1>4. CASE DevFetch(d)
    <2>1. dev[d].stage = "idle" /\ ring["krn"].status = 255 /\ ring' = ring
      BY <1>2, <1>4 DEF Phase, Sent, DevFetch
    <2>2. dev'[d].stage = "fetched"
      BY <1>2, <1>4 DEF DevFetch, DevRec
    <2>3. ~Moved /\ ~Moved'
      BY <1>2, <1>3, <2>1, <2>2 DEF Moved
    <2> QED
      BY <1>3, <2>3, SameServed
  <1>5. CASE DevFail(d)
    <2>1. dev[d].stage = "fetched" /\ ring["krn"].status = 255 /\ ring' = ring
      BY <1>2, <1>5 DEF Phase, Held, DevFail
    <2>2. dev'[d].stage = "failed"
      BY <1>2, <1>5 DEF DevFail, DevRec
    <2>3. ~Moved /\ ~Moved'
      BY <1>2, <1>3, <2>1, <2>2 DEF Moved
    <2> QED
      BY <1>3, <2>3, SameServed
  <1>6. CASE DevStatus(d)
    <2>1. dev[d].stage \in {"moved", "failed"} /\ ring["krn"].status = 255
      BY <1>2, <1>6 DEF Phase, Held, DevStatus
    <2>2. dev'[d].stage = "told" /\ ring'["krn"].buf = ring["krn"].buf
          /\ ring'["krn"].status = IF dev[d].stage = "moved" THEN 0 ELSE 1
      BY <1>2, <1>6 DEF DevStatus, DevRec, RingRec, Sides
    <2>3. Moved' <=> Moved
      BY <1>2, <1>3, <2>1, <2>2 DEF Moved
    <2> QED
      BY <1>3, <2>2, <2>3, SameServed
  <1>7. CASE DevUsed(d)
    <2>1. dev[d].stage = "told"
      BY <1>7 DEF DevUsed
    <2>2. dev'[d].stage = "idle" /\ ring'["krn"].buf = ring["krn"].buf
          /\ ring'["krn"].status = ring["krn"].status
      BY <1>2, <1>7 DEF DevUsed, DevRec, RingRec, Sides
    <2>3. Moved' <=> Moved
      BY <1>2, <1>3, <2>1, <2>2 DEF Moved
    <2> QED
      BY <1>3, <2>2, <2>3, SameServed
  <1> QED
    BY <1>4, <1>5, <1>6, <1>7

\* The step that counts: the device moves the sector.
LEMMA MoveDisk ==
  ASSUME VirtioInv, drv.side = "krn", NEW d \in Devices, DevMove(d)
  PROVE  D!Serve
  <1> DEFINE r == ring["krn"]
             s == op.lba + op.k
  <1>1. dev[d].stage = "fetched" /\ dev[d].lba \in Sectors
    BY DEF DevMove
  <1>2. /\ d = drv.cur /\ drv.at = "spin" /\ op \in OpRec /\ op # NoOp
        /\ op.k < op.n /\ op.k \in Nat /\ op.n \in Nat
        /\ dev \in [Devices -> DevRec] /\ ring \in [Sides -> RingRec]
        /\ media \in [Devices -> [Sectors -> Values]]
        /\ r \in RingRec /\ dev[d].on = "krn" /\ Phase(r, dev[d], media)
    BY <1>1, KernelDevice DEF Sides
  <1>3. /\ dev[d].type = op.type /\ dev[d].lba = s /\ r.status = 255
        /\ (op.type = "out" => r.buf = op.data[op.k + 1])
    BY <1>1, <1>2 DEF Phase, Held
  <1>4. /\ op' = op /\ drv' = drv /\ out' = out
        /\ dev' = [dev EXCEPT ![d].stage = "moved"]
    BY DEF DevMove
  <1>5. ~Moved /\ Moved'
    BY <1>1, <1>2, <1>3, <1>4 DEF Moved, DevRec
  <1>6. Served = Seen(op.k, op.data)
    BY <1>2, <1>5, ServedBefore
  <1>7. Served' = Seen(op.k + 1, IF op.type = "in" THEN Append(op.data, ring'["krn"].buf)
                                                   ELSE op.data)
    BY <1>2, <1>4, <1>5 DEF Served, Seen
  <1>8. /\ Served # D!NoCall /\ Served.k = op.k /\ Served.n = op.n /\ Served.lba = op.lba
        /\ Served.type = op.type /\ Served.dev = d /\ Served.data = op.data
    BY <1>2, <1>6 DEF Seen, D!NoCall, OpRec, Types
  <1>9. CASE op.type = "in"
    <2>1. media' = media /\ ring' = [ring EXCEPT !["krn"].buf = media[d][s]]
      BY <1>2, <1>3, <1>9 DEF DevMove
    <2>2. ring'["krn"].buf = media[d][s]
      BY <1>2, <2>1 DEF RingRec, Sides
    <2>3. Served' = Seen(op.k + 1, Append(op.data, media[d][s]))
      BY <1>7, <1>9, <2>2
    <2>4. Served' = [Served EXCEPT !.k = Served.k + 1,
                                   !.data = Append(Served.data, media[Served.dev][s])]
      <3> DEFINE e == op.k + 1
                 a == Append(op.data, media[d][s])
                 s1 == [Served EXCEPT !.k = e]
      <3>1. Served.k + 1 = e /\ Append(Served.data, media[Served.dev][s]) = a
        BY <1>8
      <3>2. Served' = Seen(e, a)
        BY <2>3
      <3> HIDE DEF e, a
      <3>3. s1 = Seen(e, op.data)
        BY <1>6 DEF Seen
      <3> HIDE DEF s1
      <3>4. [s1 EXCEPT !.data = a] = Seen(e, a)
        BY <3>3 DEF Seen
      <3> QED
        BY <3>1, <3>2, <3>4 DEF s1
    <2> QED
      BY <1>1, <1>2, <1>3, <1>4, <1>8, <1>9, <2>1, <2>4 DEF D!Serve
  <1>10. CASE op.type = "out"
    <2>1. media' = [media EXCEPT ![d] = [media[d] EXCEPT ![s] = r.buf]]
      BY <1>2, <1>3, <1>10 DEF DevMove
    <2>2. Served' = Seen(op.k + 1, op.data)
      BY <1>7, <1>10
    <2>3. Served' = [Served EXCEPT !.k = Served.k + 1]
      BY <1>6, <1>8, <2>2 DEF Seen
    <2>4. media' = [media EXCEPT ![Served.dev] =
                      [media[Served.dev] EXCEPT ![s] = Served.data[Served.k + 1]]]
      BY <1>3, <1>8, <1>10, <2>1
    <2> QED
      BY <1>1, <1>2, <1>3, <1>4, <1>8, <1>10, <2>3, <2>4 DEF D!Serve
  <1> QED
    BY <1>2, <1>9, <1>10 DEF OpRec, Types

LEMMA DiskNextOK == VirtioInv /\ [VirtioNext]_vvars => D!DiskNext \/ Quietly
  <1> SUFFICES ASSUME VirtioInv, [VirtioNext]_vvars PROVE D!DiskNext \/ Quietly
    OBVIOUS
  <1>1. CASE UNCHANGED vvars
    BY <1>1, SameServed DEF vvars, Moved
  <1>2. CASE \E d \in Devices : disk_init(d) \/ virtio_blk_init(d)
    BY <1>2, StartDisk
  <1>3. CASE EnableInterrupts
    <2>1. PICK d \in Devices : d = drv.cur
      BY <1>3 DEF EnableInterrupts, VirtioInv, SideInv
    <2> QED
      BY <1>3, StartDisk
  <1>4. CASE drv.side = "fw" /\ VirtioNext
             /\ ~ \E d \in Devices : disk_init(d) \/ virtio_blk_init(d)
    BY <1>4, FirmwareDisk
  <1>5. CASE drv.side = "krn" /\ VirtioNext
    <2>1. ASSUME NEW d \in Devices, Device(d) PROVE D!DiskNext \/ Quietly
      BY <1>5, <2>1, MoveDisk, QuietDevice DEF Device, D!DiskNext
    <2>2. ASSUME NEW lba \in Lbas, NEW n \in 1 .. MaxCount, blk_read(lba, n)
          PROVE  D!DiskNext
      <3>1. PICK data \in [1 .. n -> Values] : TRUE
        <4>1. PICK b \in Values : TRUE
          BY VirtioAssumption
        <4>2. [i \in 1 .. n |-> b] \in [1 .. n -> Values]
          OBVIOUS
        <4> QED
          BY <4>2
      <3> QED
        BY <2>2, CallDisk
    <2>3. ASSUME NEW lba \in Lbas, NEW n \in 1 .. MaxCount, NEW data \in [1 .. n -> Values],
                 blk_write(lba, data)
          PROVE  D!DiskNext
      BY <2>3, CallDisk
    <2>4. CASE Driver
      BY <1>5, <2>4, DriverDisk, CollectDisk DEF Driver, D!DiskNext
    <2>5. ~FwTimeout /\ \A lba \in Lbas, n \in 1 .. MaxCount : ~disk_read_bytes(lba, n)
      BY <1>5 DEF FwTimeout, disk_read_bytes
    <2> QED
      BY <1>2, <1>3, <1>5, <2>1, <2>2, <2>3, <2>4, <2>5 DEF VirtioNext
  <1>6. drv.side \in {"fw", "krn"}
    BY DEF VirtioInv, TypeInv, DrvRec, Sides
  <1> QED
    BY <1>1, <1>2, <1>4, <1>5, <1>6

(* What blk_read and blk_write do, with the device's four steps and the    *)
(* 16-bit indices under them, is what Disk says: the sectors of one call   *)
(* are served one by one, each at the moment the device moves it.          *)
THEOREM BlockLayerIsDisk == VirtioSpec => ImplementsDisk
  <1>1. VirtioSpec => []VirtioInv
    BY InitInv, NextInv, PTL DEF VirtioSpec
  <1>2. VirtioInv /\ [VirtioNext]_vvars => [D!DiskNext]_(D!dvars)
    BY DiskNextOK DEF Quietly, D!dvars
  <1> QED
    BY <1>1, <1>2, DiskInitOK, PTL DEF VirtioSpec, ImplementsDisk, D!DiskSpec
=============================================================================
