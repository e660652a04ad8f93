-------------------------------- MODULE Hart --------------------------------
(***************************************************************************)
(* The hart between user code and the scheduler: trapvec.S, userret.S,     *)
(* swtch.S and the C code they join (scheduler, proc_start, proc_yield,    *)
(* kernel_trap_handler), one step per group of instructions that a timer   *)
(* interrupt can fall between.                                             *)
(*                                                                         *)
(* Registers are two: t for t0 and t1, which the trap vector uses before   *)
(* it saves them, and r for all the others.  A register holds the process  *)
(* whose value it is, "tf" for what userret loads from a trapframe, or     *)
(* "junk".  Kernel code other than userret is not modelled down to its     *)
(* registers.                                                              *)
(***************************************************************************)
EXTENDS Naturals, Sequences, SequencesExt

CONSTANTS
  Procs,      \* process slots
  First,      \* the slot of the first process
  BootStack,  \* the stack of kernel_main and scheduler
  NULL

\* The steps of a dispatch, from the choice of a process to the write of sstatus
\* in userret.
Dispatch == {"marked", "toProc", "start", "urLoad", "urCsr"}

PCs == {"pick", "marked", "toProc", "after", "start", "urLoad", "urCsr", "urSret",
        "user", "timer", "syscall", "yield", "waitYield", "toSched", "ret", "dead"}
Stacks == Procs \cup {BootStack}
Ctxs == [pc : PCs, sp : Stacks, depth : Nat]   \* struct context: ra, sp and what lies below

ASSUME HartAssumption ==
  /\ First \in Procs
  /\ BootStack \notin Procs /\ NULL \notin Stacks \cup Ctxs

VARIABLES
  pc,        \* what the hart executes next
  sie,       \* sstatus.SIE
  stip,      \* a timer interrupt is pending
  sp,        \* the stack sp points into; NULL in user mode
  sscratch,  \* the stack whose top sscratch holds; NULL: a user stack pointer
  reg,       \* the registers
  stk,       \* stk[s]: trap frames on stack s, oldest first
  state,     \* p->state
  cur,       \* g_current
  ctx,       \* p->ctx
  sctx,      \* g_sched_ctx; NULL until first saved (zeroed .bss)
  tf,        \* *p->tf, that a new process starts from
  entered,   \* history: a process has reached user mode
  early      \* history: an interrupt fell on the first dispatch

vars ==
  <<pc, sie, stip, sp, sscratch, reg, stk, state, cur, ctx, sctx, tf, entered, early>>

\* The context proc_alloc gives a slot: proc_start on an empty stack.
NewCtx(p) == [pc |-> "start", sp |-> p, depth |-> 0]

\* kernel_main has loaded /bin/sh, with interrupts on since trap_enable.
Init ==
  /\ pc = "pick" /\ sie = TRUE /\ stip = FALSE
  /\ sp = BootStack /\ sscratch = NULL
  /\ reg = [t |-> "junk", r |-> "junk"]
  /\ stk = [s \in Stacks |-> <<>>]
  /\ state = [p \in Procs |-> IF p = First THEN "RUNNABLE" ELSE "UNUSED"]
  /\ cur = NULL
  /\ ctx = [p \in Procs |-> NewCtx(p)]
  /\ sctx = NULL
  /\ tf = [p \in Procs |-> [t |-> p, r |-> p]]
  /\ entered = FALSE /\ early = FALSE

-----------------------------------------------------------------------------
(* The scheduler's side *)

\* scheduler finds p RUNNABLE: g_current, RUNNING and satp are set.
Pick(p) ==
  /\ pc = "pick" /\ state[p] = "RUNNABLE"
  /\ cur' = p
  /\ state' = [state EXCEPT ![p] = "RUNNING"]
  /\ pc' = "marked"
  /\ UNCHANGED <<sie, stip, sp, sscratch, reg, stk, ctx, sctx, tf, entered, early>>

\* Mutant: the switch saves into the process's context instead.
SchedSave_WrongContext ==
  /\ pc = "marked"
  /\ pc' = "toProc"
  /\ UNCHANGED <<sie, stip, sp, sscratch, reg, stk, state, cur, ctx, sctx, tf, entered, early>>

\* The stores of swtch(&g_sched_ctx, &p->ctx).
SchedSave ==
  /\ pc = "marked"
  /\ sctx' = [pc |-> "after", sp |-> sp, depth |-> Len(stk[sp])]
  /\ pc' = "toProc"
  /\ UNCHANGED <<sie, stip, sp, sscratch, reg, stk, state, cur, ctx, tf, entered, early>>

\* The loads and the ret of a swtch to context c.  If what c was saved on top of
\* is gone, because its stack has been in use since, there is no telling.
SwtchLoad(c) ==
  \/ /\ c.depth <= Len(stk[c.sp])
     /\ pc' = c.pc /\ sp' = c.sp
     /\ stk' = [stk EXCEPT ![c.sp] = SubSeq(@, 1, c.depth)]
  \/ c.depth > Len(stk[c.sp]) /\ pc' = "dead" /\ UNCHANGED <<sp, stk>>

SchedLoad ==
  /\ pc = "toProc"
  /\ SwtchLoad(ctx[cur])
  /\ UNCHANGED <<sie, stip, sscratch, reg, state, cur, ctx, sctx, tf, entered, early>>

\* Mutant: interrupts are enabled on each pass, as in xv6.
SchedAfter_Enables ==
  /\ pc = "after"
  /\ cur' = NULL
  /\ pc' = "pick" /\ sie' = TRUE
  /\ UNCHANGED <<stip, sp, sscratch, reg, stk, state, ctx, sctx, tf, entered, early>>

\* Back in scheduler: g_current = NULL.
SchedAfter ==
  /\ pc = "after"
  /\ cur' = NULL
  /\ pc' = "pick"
  /\ UNCHANGED <<sie, stip, sp, sscratch, reg, stk, state, ctx, sctx, tf, entered, early>>

-----------------------------------------------------------------------------
(* proc_start and userret *)

\* Mutant: sscratch keeps what the last trap left in it.
UserretEnter_KeepsScratch ==
  /\ pc = "start"
  /\ pc' = "urLoad"
  /\ UNCHANGED <<sie, stip, sp, sscratch, reg, stk, state, cur, ctx, sctx, tf, entered, early>>

\* proc_start calls userret, which points sscratch to the kernel stack.
UserretEnter ==
  /\ pc = "start"
  /\ sscratch' = cur
  /\ pc' = "urLoad"
  /\ UNCHANGED <<sie, stip, sp, reg, stk, state, cur, ctx, sctx, tf, entered, early>>

\* t0 and t1 get the trapframe's sstatus and sepc.
UserretLoad ==
  /\ pc = "urLoad"
  /\ reg' = [reg EXCEPT !.t = "tf"]
  /\ pc' = "urCsr"
  /\ UNCHANGED <<sie, stip, sp, sscratch, stk, state, cur, ctx, sctx, tf, entered, early>>

\* sstatus and sepc are written from t0 and t1.  The trapframe's sstatus has
\* SIE clear; anything else in t0 and t1 leaves no way back to the process.
UserretCsr ==
  /\ pc = "urCsr"
  /\ IF reg.t = "tf" THEN sie' = FALSE /\ pc' = "urSret"
                     ELSE sie' = sie /\ pc' = "dead"
  /\ UNCHANGED <<stip, sp, sscratch, reg, stk, state, cur, ctx, sctx, tf, entered, early>>

\* The remaining loads, and sret, which takes SIE from SPIE.
UserretSret ==
  /\ pc = "urSret"
  /\ reg' = tf[cur]
  /\ sp' = NULL /\ sie' = TRUE /\ pc' = "user"
  /\ entered' = TRUE
  /\ UNCHANGED <<stip, sscratch, stk, state, cur, ctx, sctx, tf, early>>

-----------------------------------------------------------------------------
(* Traps *)

\* mtime reaches mtimecmp: mtrap_handler raises STIP.
Tick ==
  /\ ~stip
  /\ stip' = TRUE
  /\ UNCHANGED <<pc, sie, sp, sscratch, reg, stk, state, cur, ctx, sctx, tf, entered, early>>

\* The stack that the vector pushes the frame on.
EntryStack == IF sp = NULL THEN sscratch ELSE sp

\* What the vector finds in the registers when it saves them: t0 and t1 hold
\* sstatus and its SPP bit by then.  User code has nothing in them to lose at
\* an ecall, which it declares to clobber t0 and t1.
SavedRegs(handler) ==
  [t |-> IF handler = "syscall" THEN reg.t ELSE "junk", r |-> reg.r]

\* kernel_trap_vector, up to the call of kernel_trap_handler.
TrapEntry(handler) ==
  /\ EntryStack \in Stacks
  /\ stk' = [stk EXCEPT ![EntryStack] =
               (IF sp = NULL THEN <<>> ELSE @)
                 \o <<[pc |-> pc, reg |-> SavedRegs(handler), spie |-> sie]>>]
  /\ sp' = EntryStack
  /\ sscratch' = IF sp = NULL THEN NULL ELSE sscratch
  /\ sie' = FALSE
  /\ pc' = handler
  /\ UNCHANGED <<stip, reg, state, cur, ctx, sctx, tf, entered>>

\* In user mode SIE does not matter.
TimerInterrupt ==
  /\ stip /\ (sie \/ pc = "user") /\ pc # "dead"
  /\ TrapEntry("timer")
  /\ early' = (early \/ (pc \in Dispatch /\ ~entered))

Ecall ==
  /\ pc = "user"
  /\ TrapEntry("syscall")
  /\ UNCHANGED early

\* proc_yield is called only if a process runs.
TimerYields == cur # NULL /\ state[cur] = "RUNNING"

\* timer_handle arms the next tick; then the running process yields.
TimerHandler ==
  /\ pc = "timer"
  /\ stip' = FALSE
  /\ IF TimerYields
     THEN pc' = "yield" /\ state' = [state EXCEPT ![cur] = "RUNNABLE"]
     ELSE pc' = "ret" /\ UNCHANGED state
  /\ UNCHANGED <<sie, sp, sscratch, reg, stk, cur, ctx, sctx, tf, entered, early>>

\* A system call that returns at once.
SysReturn ==
  /\ pc = "syscall"
  /\ pc' = "ret"
  /\ UNCHANGED <<sie, stip, sp, sscratch, reg, stk, state, cur, ctx, sctx, tf, entered, early>>

\* The frame of the trap being handled.
Frame == Last(stk[sp])

\* Mutant: the child's context is left as the slot's last owner saved it.
ForkCtx_Stale(c) == ctx

\* proc_alloc's context for the child.
ForkCtx(c) == [ctx EXCEPT ![c] = NewCtx(c)]

\* proc_fork: the child starts from a copy of the parent's frame.
SysFork(c) ==
  /\ pc = "syscall" /\ state[c] = "UNUSED"
  /\ state' = [state EXCEPT ![c] = "RUNNABLE"]
  /\ ctx' = ForkCtx(c)
  /\ tf' = [tf EXCEPT ![c] = [x \in {"t", "r"} |->
              IF Frame.reg[x] = cur THEN c ELSE "junk"]]
  /\ pc' = "ret"
  /\ UNCHANGED <<sie, stip, sp, sscratch, reg, stk, cur, sctx, entered, early>>

\* sys_execve: the frame is replaced by the new image's.
SysExec ==
  /\ pc = "syscall"
  /\ tf' = [tf EXCEPT ![cur] = [t |-> cur, r |-> cur]]
  /\ stk' = [stk EXCEPT ![sp][Len(stk[sp])].reg = [t |-> cur, r |-> cur]]
  /\ pc' = "ret"
  /\ UNCHANGED <<sie, stip, sp, sscratch, reg, state, cur, ctx, sctx, entered, early>>

\* proc_exit.  What its frame holds is from now on no process's.
SysExit ==
  /\ pc = "syscall"
  /\ stk' = [stk EXCEPT ![sp][Len(stk[sp])].reg = [t |-> "junk", r |-> "junk"]]
  /\ state' = [state EXCEPT ![cur] = "ZOMBIE"]
  /\ pc' = "yield"
  /\ UNCHANGED <<sie, stip, sp, sscratch, reg, cur, ctx, sctx, tf, entered, early>>

\* proc_wait takes a zombie.
SysReap(c) ==
  /\ pc = "syscall" /\ state[c] = "ZOMBIE"
  /\ state' = [state EXCEPT ![c] = "UNUSED"]
  /\ pc' = "ret"
  /\ UNCHANGED <<sie, stip, sp, sscratch, reg, stk, cur, ctx, sctx, tf, entered, early>>

\* proc_wait yields and will look again.
SysWait ==
  /\ pc = "syscall"
  /\ state' = [state EXCEPT ![cur] = "RUNNABLE"]
  /\ pc' = "waitYield"
  /\ UNCHANGED <<sie, stip, sp, sscratch, reg, stk, cur, ctx, sctx, tf, entered, early>>

\* The stores of swtch(&p->ctx, &g_sched_ctx) in proc_yield.
YieldSave ==
  /\ pc \in {"yield", "waitYield"}
  /\ ctx' = [ctx EXCEPT ![cur] = [pc |-> IF pc = "yield" THEN "ret" ELSE "syscall",
                                  sp |-> sp, depth |-> Len(stk[sp])]]
  /\ pc' = "toSched"
  /\ UNCHANGED <<sie, stip, sp, sscratch, reg, stk, state, cur, sctx, tf, entered, early>>

\* Its loads: a context that was never saved is all zeroes, and ret goes to
\* address 0.
YieldLoad ==
  /\ pc = "toSched"
  /\ IF sctx = NULL THEN pc' = "dead" /\ UNCHANGED <<sp, stk>> ELSE SwtchLoad(sctx)
  /\ UNCHANGED <<sie, stip, sscratch, reg, state, cur, ctx, sctx, tf, entered, early>>

\* The vector after the handler: registers and sstatus from the frame, sret.
TrapRet ==
  /\ pc = "ret"
  /\ reg' = Frame.reg /\ sie' = Frame.spie /\ pc' = Frame.pc
  /\ stk' = [stk EXCEPT ![sp] = Front(@)]
  /\ IF Frame.pc = "user" THEN sscratch' = sp /\ sp' = NULL
                          ELSE UNCHANGED <<sscratch, sp>>
  /\ UNCHANGED <<stip, state, cur, ctx, sctx, tf, entered, early>>

Next ==
  \/ \E p \in Procs : Pick(p) \/ SysFork(p) \/ SysReap(p)
  \/ SchedSave \/ SchedLoad \/ SchedAfter
  \/ UserretEnter \/ UserretLoad \/ UserretCsr \/ UserretSret
  \/ Tick \/ TimerInterrupt \/ Ecall \/ TimerHandler
  \/ SysReturn \/ SysExec \/ SysExit \/ SysWait
  \/ YieldSave \/ YieldLoad \/ TrapRet

Spec == Init /\ [][Next]_vars

-----------------------------------------------------------------------------
(* Properties *)

Regs == [t : Procs \cup {"tf", "junk"}, r : Procs \cup {"junk"}]

\* Every variable keeps its shape.
HartTypeOK ==
  /\ pc \in PCs /\ sie \in BOOLEAN /\ stip \in BOOLEAN
  /\ entered \in BOOLEAN /\ early \in BOOLEAN
  /\ sp \in Stacks \cup {NULL} /\ sscratch \in Procs \cup {NULL}
  /\ reg \in Regs /\ tf \in [Procs -> Regs]
  /\ stk \in [Stacks -> Seq([pc : PCs, reg : Regs, spie : BOOLEAN])]
  /\ state \in [Procs -> {"UNUSED", "RUNNABLE", "RUNNING", "ZOMBIE"}]
  /\ cur \in Procs \cup {NULL}
  /\ ctx \in [Procs -> Ctxs] /\ sctx \in Ctxs \cup {NULL}

\* The hart always has somewhere to go: no switch loads a context that was
\* never saved, and userret never writes sstatus and sepc from registers that
\* an interrupt has changed.
NeverLost == pc # "dead"

\* In no dispatch but the first, made with SIE = 1 as kernel_main left it, can an
\* interrupt take the hart's way away: later ones rely on SIE being clear from
\* the trap that led to the scheduler until userret or the vector's sret.
LostOnlyEarly == pc = "dead" => early

\* Once a process has run, the kernel is never interrupted: SIE is clear in
\* every step outside user mode, the scheduler's included, so no trap frame is
\* ever pushed on top of another.
KernelQuiet ==
  entered => /\ pc # "user" => ~sie
             /\ \A p \in Procs : Len(stk[p]) <= 1

\* Each process that can be resumed has its context on its own kernel stack,
\* whose frame, if any, returns to its own user code: no slot wakes up on
\* what another process, or the slot's last owner, left there.
OwnStack ==
  \A p \in Procs : state[p] = "RUNNABLE" /\ pc \notin {"yield", "waitYield"} =>
    /\ ctx[p].sp = p
    /\ ctx[p].depth = IF ctx[p].pc = "start" THEN 0 ELSE 1
    /\ ctx[p].pc # "start" => stk[p][1].pc = "user" /\ stk[p][1].reg.r = p

\* The one frame a process may have is on its own stack and nothing interrupts
\* the kernel while it is there (trapvec.S, swtch.S, proc_alloc), unless an
\* interrupt fell on the first dispatch.
OwnQuietStack == ~early => HartTypeOK /\ KernelQuiet /\ OwnStack

\* User code runs as the current RUNNING process, with its own values in the
\* registers other than t0 and t1, and with sscratch set for its next trap,
\* unless an interrupt fell on the first dispatch.
UserIsCurrent ==
  ~early /\ pc = "user" => /\ cur # NULL /\ state[cur] = "RUNNING"
                           /\ reg.r = cur /\ sscratch = cur

\* A timer tick is invisible to the process it interrupts: t0 and t1, too, hold
\* the process's own values whenever it runs.
TempsPreserved == pc = "user" => reg.t = cur
=============================================================================
