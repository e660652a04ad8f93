----------------------------- MODULE HartProofs -----------------------------
(***************************************************************************)
(* Unless an interrupt falls on the first dispatch, the hart is never      *)
(* lost, the kernel is not interrupted once a process has run, and every   *)
(* process resumes on its own stack with its own registers, for every      *)
(* number of processes.                                                    *)
(***************************************************************************)
EXTENDS Hart, SequenceTheorems, TLAPS

-----------------------------------------------------------------------------
(* The inductive invariant *)

\* The one frame on p's kernel stack returns to p's user code.
OwnFrame(p) == Len(stk[p]) = 1 /\ stk[p][1].pc = "user" /\ stk[p][1].reg.r = p

\* What the scheduler finds when it switches to p.
Parked(p) ==
  /\ ctx[p].sp = p
  /\ \/ ctx[p].pc = "start" /\ ctx[p].depth = 0 /\ tf[p].r = p
     \/ ctx[p].pc \in {"ret", "syscall"} /\ ctx[p].depth = 1 /\ OwnFrame(p) /\ entered

Yielding == pc \in {"yield", "waitYield"}
Running == cur \in Procs /\ state[cur] = "RUNNING"

\* No frame is pushed on another.  SIE is clear in the kernel, the first
\* dispatch apart.
Quiet ==
  /\ \A p \in Procs : Len(stk[p]) <= 1
  /\ entered /\ pc # "user" => ~sie
  /\ pc \in {"timer", "ret", "urSret"} => ~sie
  /\ pc \in {"after", "syscall", "user", "yield", "waitYield", "toSched"} => entered

\* The boot stack has a frame only for a tick before the first dispatch.
BootTick == sp = BootStack /\ cur = NULL /\ ~entered
            /\ Len(stk[BootStack]) = 1 /\ stk[BootStack][1].pc = "pick"

SchedOK ==
  /\ sctx # NULL => sctx = [pc |-> "after", sp |-> BootStack, depth |-> 0]
  /\ entered \/ pc \in {"toProc", "start", "urLoad", "urCsr", "urSret"} => sctx # NULL
  /\ stk[BootStack] = <<>> \/ (pc \in {"timer", "ret"} /\ sp = BootStack)

\* Who has the hart, and on which stack, at each place.
Place ==
  /\ pc # "dead"
  /\ pc = "pick" => cur = NULL /\ sp = BootStack
  /\ pc \in {"marked", "toProc"} => Running /\ sp = BootStack /\ Parked(cur)
  /\ pc = "after" => sp = BootStack
  /\ pc \in {"start", "urLoad", "urCsr", "urSret"} => Running /\ sp = cur /\ tf[cur].r = cur
  /\ pc \in {"urLoad", "urCsr", "urSret", "user"} => sscratch = cur
  /\ pc = "urCsr" => reg.t = "tf"
  /\ pc = "user" => Running /\ sp = NULL /\ reg.r = cur
  /\ pc = "syscall" => Running /\ sp = cur /\ OwnFrame(cur)
  /\ pc \in {"timer", "ret"} => \/ Running /\ sp = cur /\ OwnFrame(cur) /\ entered
                             \/ BootTick
  /\ Yielding => /\ cur \in Procs /\ sp = cur /\ Len(stk[cur]) = 1
                 /\ state[cur] = "RUNNABLE" => OwnFrame(cur)
  /\ pc = "waitYield" => state[cur] = "RUNNABLE"

Ready == \A p \in Procs : state[p] = "RUNNABLE" => Parked(p) \/ (Yielding /\ p = cur)

HartInv == HartTypeOK /\ Quiet /\ SchedOK /\ Place /\ Ready

LEMMA NoNull == NULL \notin Procs /\ NULL # BootStack
  BY HartAssumption DEF Stacks

LEMMA InitInv == Init => HartInv
  <1> SUFFICES ASSUME Init PROVE HartInv
    OBVIOUS
  <1> USE HartAssumption, NoNull DEF Init
  <1>1. HartTypeOK
    <2>1. \A p \in Procs : NewCtx(p) \in Ctxs
      BY DEF Ctxs, PCs, Stacks, NewCtx
    <2>2. ctx \in [Procs -> Ctxs]
      BY <2>1
    <2>3. reg \in Regs /\ tf \in [Procs -> Regs]
      BY DEF Regs
    <2>4. stk \in [Stacks -> Seq([pc : PCs, reg : Regs, spie : BOOLEAN])]
      BY EmptySeq
    <2>5. state \in [Procs -> {"UNUSED", "RUNNABLE", "RUNNING", "ZOMBIE"}]
      OBVIOUS
    <2> QED
      BY <2>2, <2>3, <2>4, <2>5 DEF HartTypeOK, PCs, Stacks
  <1>2. Quiet
    BY DEF Quiet, Stacks
  <1>3. SchedOK
    BY DEF SchedOK, Stacks
  <1>4. Place
    BY DEF Place, Yielding
  <1>5. Ready
    BY DEF Ready, Parked, NewCtx
  <1> QED
    BY <1>1, <1>2, <1>3, <1>4, <1>5 DEF HartInv

-----------------------------------------------------------------------------
(* The scheduler *)

LEMMA PickStep ==
  ASSUME HartInv, NEW p \in Procs, Pick(p)
  PROVE  HartInv'
  <1> USE HartAssumption, NoNull DEF HartInv, Pick
  <1>1. HartTypeOK'
    BY DEF HartTypeOK, PCs
  <1>2. state' \in [Procs -> {"UNUSED", "RUNNABLE", "RUNNING", "ZOMBIE"}] /\ state'[p] = "RUNNING"
        /\ \A q \in Procs \ {p} : state'[q] = state[q]
    BY DEF HartTypeOK
  <1>3. Parked(p)
    BY DEF Ready, Yielding
  <1>4. Quiet'
    BY DEF Quiet
  <1>5. SchedOK'
    BY DEF SchedOK
  <1>6. Place'
    BY <1>2, <1>3 DEF Place, Yielding, Running, Parked, OwnFrame
  <1>7. Ready'
    BY <1>2 DEF Ready, Yielding, Parked, OwnFrame
  <1> QED
    BY <1>1, <1>4, <1>5, <1>6, <1>7

LEMMA SchedSaveStep ==
  ASSUME HartInv, SchedSave
  PROVE  HartInv'
  <1> USE HartAssumption, NoNull DEF HartInv, SchedSave
  <1>1. sp = BootStack /\ stk[BootStack] = <<>>
    BY DEF Place, SchedOK
  <1>2. sctx' = [pc |-> "after", sp |-> BootStack, depth |-> 0]
    BY <1>1
  <1> DEFINE c == [pc |-> "after", sp |-> BootStack, depth |-> 0]
  <1>9. c \in Ctxs
    BY DEF Ctxs, PCs, Stacks
  <1>10. sctx' = c /\ sctx' # NULL
    BY <1>2, <1>9
  <1> HIDE DEF c
  <1>3. HartTypeOK'
    BY <1>9, <1>10 DEF HartTypeOK, PCs
  <1>4. Quiet'
    BY DEF Quiet
  <1>5. SchedOK'
    BY <1>1, <1>10 DEF SchedOK, c
  <1>6. Place'
    BY DEF Place, Yielding, Running, Parked, OwnFrame
  <1>7. Ready'
    BY DEF Ready, Yielding, Parked, OwnFrame
  <1> QED
    BY <1>3, <1>4, <1>5, <1>6, <1>7

LEMMA SchedAfterStep ==
  ASSUME HartInv, SchedAfter
  PROVE  HartInv'
  <1> USE HartAssumption, NoNull DEF HartInv, SchedAfter
  <1>3. HartTypeOK'
    BY DEF HartTypeOK, PCs
  <1>4. Quiet'
    BY DEF Quiet
  <1>5. SchedOK'
    BY DEF SchedOK
  <1>6. Place'
    BY DEF Place, Yielding
  <1>7. Ready'
    BY DEF Ready, Yielding, Parked, OwnFrame
  <1> QED
    BY <1>3, <1>4, <1>5, <1>6, <1>7

-----------------------------------------------------------------------------
(* userret *)

LEMMA UserretStep ==
  ASSUME HartInv, UserretEnter \/ UserretLoad \/ UserretCsr
  PROVE  HartInv'
  <1> USE HartAssumption, NoNull DEF HartInv
  <1>1. /\ pc \in {"start", "urLoad", "urCsr"} /\ Running /\ sp = cur /\ tf[cur].r = cur
        /\ pc = "urCsr" => reg.t = "tf"
    BY DEF UserretEnter, UserretLoad, UserretCsr, Place
  <1>2. /\ stk' = stk /\ state' = state /\ cur' = cur /\ ctx' = ctx /\ sctx' = sctx /\ tf' = tf
        /\ entered' = entered /\ early' = early /\ sp' = sp /\ stip' = stip
        /\ pc' \in {"urLoad", "urCsr", "urSret"}
        /\ sscratch' = cur
        /\ pc' = "urSret" => sie' = FALSE
        /\ pc' # "urSret" => sie' = sie
    BY <1>1 DEF UserretEnter, UserretLoad, UserretCsr, Place
  <1>3. reg' \in Regs /\ (pc' = "urCsr" => reg'.t = "tf")
    BY <1>1 DEF UserretEnter, UserretLoad, UserretCsr, HartTypeOK, Regs
  <1>4. HartTypeOK'
    BY <1>1, <1>2, <1>3 DEF HartTypeOK, PCs, Running
  <1>5. Quiet'
    BY <1>1, <1>2 DEF Quiet
  <1>6. SchedOK'
    BY <1>1, <1>2 DEF SchedOK
  <1>7. Place'
    BY <1>1, <1>2, <1>3 DEF Place, Yielding, Running
  <1>8. Ready'
    BY <1>1, <1>2 DEF Ready, Yielding, Parked, OwnFrame
  <1> QED
    BY <1>4, <1>5, <1>6, <1>7, <1>8

LEMMA SretStep ==
  ASSUME HartInv, UserretSret
  PROVE  HartInv'
  <1> USE HartAssumption, NoNull DEF HartInv, UserretSret
  <1>1. Running /\ sp = cur /\ tf[cur].r = cur /\ sscratch = cur
    BY DEF Place
  <1>2. tf[cur] \in Regs
    BY <1>1 DEF HartTypeOK, Running
  <1>3. HartTypeOK'
    BY <1>2 DEF HartTypeOK, PCs
  <1>4. Quiet'
    BY DEF Quiet
  <1>5. SchedOK'
    BY DEF SchedOK
  <1>6. Place'
    BY <1>1 DEF Place, Yielding, Running
  <1>7. Ready'
    BY DEF Ready, Yielding, Parked, OwnFrame
  <1> QED
    BY <1>3, <1>4, <1>5, <1>6, <1>7

-----------------------------------------------------------------------------
(* Traps *)

LEMMA TickStep ==
  ASSUME HartInv, Tick
  PROVE  HartInv'
  <1> USE DEF HartInv, Tick
  <1>1. HartTypeOK'
    BY DEF HartTypeOK
  <1>2. Quiet' /\ SchedOK'
    BY DEF Quiet, SchedOK
  <1>3. Place'
    BY DEF Place, Yielding, Running, Parked, OwnFrame, BootTick
  <1>4. Ready'
    BY DEF Ready, Yielding, Parked, OwnFrame
  <1> QED
    BY <1>1, <1>2, <1>3, <1>4

Frames == [pc : PCs, reg : Regs, spie : BOOLEAN]

\* The stacks after one of them, s, has become x.
LEMMA StkSet ==
  ASSUME HartTypeOK, NEW s \in Stacks, NEW x \in Seq(Frames), stk' = [stk EXCEPT ![s] = x]
  PROVE  /\ stk' \in [Stacks -> Seq(Frames)] /\ stk'[s] = x
         /\ \A q \in Stacks : q # s => stk'[q] = stk[q]
  BY DEF HartTypeOK, Frames

LEMMA ShortStep ==
  ASSUME Quiet, NEW s \in Stacks, Len(stk'[s]) = 0 \/ Len(stk'[s]) = 1,
         \A q \in Stacks : q # s => stk'[q] = stk[q]
  PROVE  \A p \in Procs : Len(stk'[p]) <= 1
  <1> TAKE p \in Procs
  <1>1. CASE p = s
    <2>1. CASE Len(stk'[p]) = 0
      BY ONLY <2>1
    <2>2. CASE Len(stk'[p]) = 1
      BY ONLY <2>2
    <2> QED
      BY <1>1, <2>1, <2>2
  <1>2. CASE p # s
    BY <1>2 DEF Quiet, Stacks
  <1> QED
    BY <1>1, <1>2

LEMMA TrapStep ==
  ASSUME HartInv, ~early', TimerInterrupt \/ Ecall
  PROVE  HartInv'
  <1> USE HartAssumption, NoNull DEF HartInv
  <1>1. PICK h \in {"timer", "syscall"} : TrapEntry(h) /\ (h = "syscall" => pc = "user")
    BY DEF TimerInterrupt, Ecall
  <1>2. \/ pc = "user" /\ Running /\ sp = NULL /\ sscratch = cur /\ reg.r = cur /\ entered
        \/ pc = "pick" /\ h = "timer" /\ sp = BootStack /\ cur = NULL /\ ~entered
    <2>1. CASE pc = "user"
      BY <2>1 DEF Place, Quiet
    <2>2. CASE pc # "user"
      <3>1. TimerInterrupt /\ sie
        BY <2>2 DEF TimerInterrupt, Ecall
      <3>2. ~entered /\ pc \notin {"timer", "ret", "urSret", "after", "syscall", "yield",
                                   "waitYield", "toSched", "dead"}
        BY <2>2, <3>1 DEF Quiet, Place
      <3>3. pc \notin Dispatch
        BY <3>1, <3>2 DEF TimerInterrupt
      <3>4. pc = "pick"
        BY <2>2, <3>2, <3>3 DEF HartTypeOK, PCs, Dispatch
      <3> QED
        BY <1>1, <3>2, <3>4 DEF Place
    <2> QED
      BY <2>1, <2>2
  <1> DEFINE e == EntryStack
             f == [pc |-> pc, reg |-> SavedRegs(h), spie |-> sie]
  <1>3. f \in Frames /\ f.pc = pc /\ f.reg.r = reg.r
    <2>1. SavedRegs(h) \in Regs /\ SavedRegs(h).r = reg.r
      BY DEF SavedRegs, Regs, HartTypeOK
    <2> QED
      BY <2>1 DEF Frames, HartTypeOK
  <1>4. e \in Stacks /\ (pc = "user" => e = cur) /\ (pc = "pick" => e = BootStack)
    BY <1>1, <1>2 DEF TrapEntry, EntryStack, Stacks
  <1>5. stk' = [stk EXCEPT ![e] = <<f>>]
    <2>1. sp # NULL => stk[e] = <<>>
      BY <1>2, <1>4 DEF SchedOK
    <2>2. stk' = [stk EXCEPT ![e] = (IF sp = NULL THEN <<>> ELSE stk[e]) \o <<f>>]
      BY <1>1 DEF TrapEntry
    <2>3. <<>> \o <<f>> = <<f>>
      BY <1>3, ConcatEmptySeq
    <2> HIDE DEF f, e
    <2> QED
      BY <2>1, <2>2, <2>3
  <1>6. /\ sp' = e /\ sie' = FALSE /\ pc' = h /\ stip' = stip /\ reg' = reg /\ state' = state
        /\ cur' = cur /\ ctx' = ctx /\ sctx' = sctx /\ tf' = tf /\ entered' = entered
        /\ sscratch' \in {NULL, sscratch}
    BY <1>1 DEF TrapEntry
  <1> HIDE DEF e, f
  <1>7. <<f>> \in Seq(Frames) /\ Len(<<f>>) = 1 /\ <<f>>[1] = f
    BY <1>3
  <1>8. /\ stk' \in [Stacks -> Seq(Frames)] /\ stk'[e] = <<f>>
        /\ \A q \in Stacks : q # e => stk'[q] = stk[q]
    BY <1>4, <1>5, <1>7, StkSet
  <1>9. HartTypeOK'
    <2>1. early' \in BOOLEAN
      BY DEF TimerInterrupt, Ecall, HartTypeOK
    <2> QED
      BY <1>4, <1>6, <1>8, <2>1 DEF HartTypeOK, PCs, Frames
  <1>10. Quiet'
    <2>1. \A p \in Procs : Len(stk'[p]) <= 1
      BY <1>4, <1>7, <1>8, ShortStep
    <2>2. ~sie' /\ pc' \in {"timer", "syscall"} /\ (pc' = "syscall" => entered')
      BY <1>1, <1>2, <1>6
    <2> QED
      BY <2>1, <2>2 DEF Quiet
  <1>11. SchedOK'
    BY <1>2, <1>4, <1>6, <1>8 DEF SchedOK, Stacks, Running
  <1>12. Place'
    <2>1. CASE pc = "user"
      <3>1. OwnFrame(cur)'
        BY <1>2, <1>3, <1>4, <1>6, <1>7, <1>8, <2>1 DEF OwnFrame
      <3> QED
        BY <1>2, <1>4, <1>6, <2>1, <3>1 DEF Place, Yielding, Running
    <2>2. CASE pc = "pick"
      <3>1. BootTick'
        BY <1>2, <1>3, <1>4, <1>6, <1>7, <1>8, <2>2 DEF BootTick
      <3> QED
        BY <1>2, <1>6, <2>2, <3>1 DEF Place, Yielding
    <2> QED
      BY <1>2, <2>1, <2>2
  <1>13. Ready'
    BY <1>2, <1>4, <1>6, <1>8 DEF Ready, Yielding, Parked, OwnFrame, Running, Stacks
  <1> QED
    BY <1>9, <1>10, <1>11, <1>12, <1>13

LEMMA HandlerStep ==
  ASSUME HartInv, TimerHandler
  PROVE  HartInv'
  <1> USE HartAssumption, NoNull DEF HartInv, TimerHandler
  <1>1. CASE Running /\ sp = cur /\ OwnFrame(cur) /\ entered
    <2>1. TimerYields /\ sp # BootStack /\ sp \in Procs /\ cur \in Procs
      BY <1>1 DEF TimerYields, Running
    <2>2. state' = [state EXCEPT ![cur] = "RUNNABLE"] /\ pc' = "yield"
      BY <2>1
    <2>3. state' \in [Procs -> {"UNUSED", "RUNNABLE", "RUNNING", "ZOMBIE"}]
          /\ state'[cur] = "RUNNABLE" /\ \A q \in Procs : q # cur => state'[q] = state[q]
      BY <2>1, <2>2 DEF HartTypeOK
    <2>4. HartTypeOK'
      BY <2>2, <2>3 DEF HartTypeOK, PCs
    <2>5. Quiet'
      BY <1>1, <2>2 DEF Quiet
    <2>6. SchedOK'
      BY <1>1, <2>1, <2>2 DEF SchedOK
    <2>7. Place'
      BY <1>1, <2>1, <2>2 DEF Place, Yielding, OwnFrame
    <2>8. Ready'
      BY <2>2, <2>3 DEF Ready, Yielding, Parked, OwnFrame
    <2> QED
      BY <2>4, <2>5, <2>6, <2>7, <2>8
  <1>2. CASE BootTick
    <2>1. ~TimerYields
      BY <1>2 DEF TimerYields, BootTick
    <2>2. state' = state /\ pc' = "ret"
      BY <2>1
    <2>3. HartTypeOK'
      BY <2>2 DEF HartTypeOK, PCs
    <2>4. Quiet' /\ SchedOK'
      BY <2>2 DEF Quiet, SchedOK
    <2>5. Place'
      BY <1>2, <2>2 DEF Place, Yielding, BootTick
    <2>6. Ready'
      BY <2>2 DEF Ready, Yielding, Parked, OwnFrame
    <2> QED
      BY <2>3, <2>4, <2>5, <2>6
  <1> QED
    BY <1>1, <1>2 DEF Place

-----------------------------------------------------------------------------
(* System calls *)

LEMMA InSyscall ==
  ASSUME HartInv, pc = "syscall"
  PROVE  /\ cur \in Procs /\ state[cur] = "RUNNING" /\ sp = cur /\ sp # BootStack /\ OwnFrame(cur)
         /\ entered /\ ~sie /\ sctx # NULL /\ stk[BootStack] = <<>>
         /\ stk[cur] \in Seq(Frames) /\ stk[cur] # <<>> /\ Frame = stk[cur][1]
  <1> USE HartAssumption, NoNull DEF HartInv
  <1>1. cur \in Procs /\ state[cur] = "RUNNING" /\ sp = cur /\ OwnFrame(cur)
    BY DEF Place, Running
  <1>2. entered /\ ~sie
    BY DEF Quiet
  <1>3. sp # BootStack /\ sctx # NULL /\ stk[BootStack] = <<>>
    BY <1>1, <1>2 DEF SchedOK
  <1>4. stk[cur] \in Seq(Frames) /\ Len(stk[cur]) = 1
    BY <1>1 DEF HartTypeOK, Frames, Stacks, OwnFrame
  <1>5. Frame = stk[cur][1]
    BY <1>1, <1>4 DEF Frame, Last
  <1>6. stk[cur] # <<>>
    BY <1>4
  <1> QED
    BY <1>1, <1>2, <1>3, <1>4, <1>5, <1>6

\* Calls that leave the frame alone.
LEMMA SysStep ==
  ASSUME HartInv, NEW c \in Procs, SysReturn \/ SysReap(c) \/ SysWait
  PROVE  HartInv'
  <1> USE HartAssumption, NoNull DEF HartInv
  <1>1. /\ pc = "syscall" /\ stip' = stip /\ sie' = sie /\ sp' = sp /\ sscratch' = sscratch
        /\ reg' = reg /\ stk' = stk /\ cur' = cur /\ ctx' = ctx /\ sctx' = sctx /\ tf' = tf
       
        /\ entered' = entered /\ early' = early
        /\ \/ pc' = "ret" /\ state' = state
           \/ pc' = "ret" /\ state[c] = "ZOMBIE" /\ state' = [state EXCEPT ![c] = "UNUSED"]
           \/ pc' = "waitYield" /\ state' = [state EXCEPT ![cur] = "RUNNABLE"]
    BY DEF SysReturn, SysReap, SysWait
  <1>2. /\ cur \in Procs /\ state[cur] = "RUNNING" /\ sp = cur /\ sp # BootStack /\ OwnFrame(cur)
        /\ entered /\ ~sie
    BY <1>1, InSyscall
  <1>3. /\ state' \in [Procs -> {"UNUSED", "RUNNABLE", "RUNNING", "ZOMBIE"}]
        /\ pc' = "ret" => state'[cur] = "RUNNING"
        /\ pc' = "waitYield" => state'[cur] = "RUNNABLE"
        /\ \A p \in Procs : p # cur /\ state'[p] = "RUNNABLE" => state[p] = "RUNNABLE"
    BY <1>1, <1>2 DEF HartTypeOK
  <1>4. HartTypeOK'
    BY <1>1, <1>3 DEF HartTypeOK, PCs
  <1>5. Quiet' /\ SchedOK'
    BY <1>1, <1>2 DEF Quiet, SchedOK
  <1>6. OwnFrame(cur)'
    BY <1>1, <1>2 DEF OwnFrame
  <1>7. Place'
    BY <1>1, <1>2, <1>3, <1>6 DEF Place, Yielding, Running, OwnFrame
  <1>8. Ready'
    BY <1>1, <1>2, <1>3 DEF Ready, Yielding, Parked, OwnFrame
  <1> QED
    BY <1>4, <1>5, <1>7, <1>8

LEMMA ForkStep ==
  ASSUME HartInv, NEW c \in Procs, SysFork(c)
  PROVE  HartInv'
  <1> USE HartAssumption, NoNull DEF HartInv
  <1> DEFINE x == [t |-> IF Frame.reg.t = cur THEN c ELSE "junk",
                   r |-> IF Frame.reg.r = cur THEN c ELSE "junk"]
             y == [i \in {"t", "r"} |-> IF Frame.reg[i] = cur THEN c ELSE "junk"]
  <1>1. /\ pc = "syscall" /\ stip' = stip /\ sie' = sie /\ sp' = sp /\ sscratch' = sscratch
        /\ reg' = reg /\ stk' = stk /\ cur' = cur /\ sctx' = sctx
        /\ entered' = entered /\ early' = early
        /\ pc' = "ret" /\ state[c] = "UNUSED" /\ state' = [state EXCEPT ![c] = "RUNNABLE"]
        /\ ctx' = [ctx EXCEPT ![c] = NewCtx(c)]
        /\ tf' = [tf EXCEPT ![c] = y]
    BY DEF SysFork, ForkCtx
  <1>2. /\ cur \in Procs /\ state[cur] = "RUNNING" /\ sp = cur /\ sp # BootStack /\ OwnFrame(cur)
        /\ entered /\ ~sie /\ Frame = stk[cur][1]
    BY <1>1, InSyscall
  <1>3. y \in Regs /\ y.r = c
    <2>1. Frame.reg["r"] = cur
      BY <1>2 DEF OwnFrame
    <2>2. y \in Regs
      BY DEF Regs
    <2>3. y["r"] = c
      BY <2>1
    <2> QED
      BY <2>2, <2>3
  <1> HIDE DEF x, y
  <1>4. NewCtx(c) \in Ctxs
    BY DEF NewCtx, Ctxs, PCs, Stacks
  <1>5. /\ state' \in [Procs -> {"UNUSED", "RUNNABLE", "RUNNING", "ZOMBIE"}]
        /\ ctx' \in [Procs -> Ctxs] /\ tf' \in [Procs -> Regs]
        /\ c # cur /\ state'[cur] = "RUNNING" /\ ctx'[c] = NewCtx(c) /\ tf'[c].r = c
        /\ \A p \in Procs : p # c => state'[p] = state[p] /\ ctx'[p] = ctx[p] /\ tf'[p] = tf[p]
    BY <1>1, <1>2, <1>3, <1>4 DEF HartTypeOK
  <1>6. HartTypeOK'
    BY <1>1, <1>5 DEF HartTypeOK, PCs
  <1>7. Quiet' /\ SchedOK'
    BY <1>1, <1>2 DEF Quiet, SchedOK
  <1>8. Place'
    BY <1>1, <1>2, <1>5 DEF Place, Yielding, Running, OwnFrame
  <1>9. Ready'
    <2>1. Parked(c)'
      BY <1>5 DEF Parked, NewCtx
    <2> QED
      BY <1>1, <1>5, <2>1 DEF Ready, Yielding, Parked, OwnFrame
  <1> QED
    BY <1>6, <1>7, <1>8, <1>9

\* exec and exit change the registers in the frame.
LEMMA FrameRegs ==
  ASSUME HartTypeOK, NEW s \in Stacks, Len(stk[s]) = 1, NEW rs \in Regs,
         stk' = [stk EXCEPT ![s][Len(stk[s])].reg = rs]
  PROVE  /\ stk' \in [Stacks -> Seq(Frames)] /\ Len(stk'[s]) = 1
         /\ stk'[s][1].pc = stk[s][1].pc /\ stk'[s][1].reg = rs
         /\ \A q \in Stacks : q # s => stk'[q] = stk[q]
  <1> DEFINE w == stk[s]
             f == w[1]
             g == [f EXCEPT !.reg = rs]
             x == [w EXCEPT ![1] = g]
  <1>1. w \in Seq(Frames) /\ Len(w) = 1
    BY DEF HartTypeOK, Frames
  <1>2. f \in Frames
    BY <1>1
  <1>3. g \in Frames /\ g.pc = f.pc /\ g.reg = rs
    BY <1>2 DEF Frames
  <1>4. stk' = [stk EXCEPT ![s] = x]
    BY <1>1
  <1> HIDE DEF g, f, w
  <1>5. x \in Seq(Frames) /\ Len(x) = 1 /\ x[1] = g
    <2>1. 1 \in 1 .. Len(w)
      BY <1>1
    <2> QED
      <3>1. w \in Seq(Frames) /\ g \in Frames /\ Len(w) = 1
        BY <1>1, <1>3
      <3>2. /\ x \in Seq(Frames) /\ Len(x) = Len(w)
            /\ \A j \in 1 .. Len(w) : x[j] = IF j = 1 THEN g ELSE w[j]
        BY ONLY <3>1, <2>1, ExceptSeq
      <3> HIDE DEF x
      <3> QED
        BY <2>1, <3>1, <3>2
  <1> HIDE DEF x
  <1>6. /\ stk' \in [Stacks -> Seq(Frames)] /\ stk'[s] = x
        /\ \A q \in Stacks : q # s => stk'[q] = stk[q]
    BY <1>4, <1>5, StkSet
  <1> QED
    BY <1>3, <1>5, <1>6 DEF w, f

LEMMA ExecStep ==
  ASSUME HartInv, SysExec
  PROVE  HartInv'
  <1> USE HartAssumption, NoNull DEF HartInv
  <1> DEFINE rs == [t |-> cur, r |-> cur]
  <1>1. /\ pc = "syscall" /\ stip' = stip /\ sie' = sie /\ sp' = sp /\ sscratch' = sscratch
        /\ reg' = reg /\ cur' = cur /\ ctx' = ctx /\ sctx' = sctx
        /\ entered' = entered /\ early' = early
        /\ pc' = "ret" /\ state' = state
        /\ stk' = [stk EXCEPT ![sp][Len(stk[sp])].reg = rs]
        /\ tf' = [tf EXCEPT ![cur] = rs]
    BY DEF SysExec
  <1>2. /\ cur \in Procs /\ state[cur] = "RUNNING" /\ sp = cur /\ sp # BootStack /\ OwnFrame(cur)
        /\ entered /\ ~sie /\ stk[BootStack] = <<>>
    BY <1>1, InSyscall
  <1>3. rs \in Regs /\ rs.r = cur
    BY <1>2 DEF Regs
  <1> HIDE DEF rs
  <1>4. cur \in Stacks /\ Len(stk[cur]) = 1
    BY <1>2 DEF Stacks, OwnFrame
  <1>5. /\ stk' \in [Stacks -> Seq(Frames)] /\ Len(stk'[cur]) = 1
        /\ stk'[cur][1].pc = stk[cur][1].pc /\ stk'[cur][1].reg = rs
        /\ \A q \in Stacks : q # cur => stk'[q] = stk[q]
    BY <1>1, <1>2, <1>3, <1>4, FrameRegs
  <1>6. tf' \in [Procs -> Regs] /\ \A p \in Procs : p # cur => tf'[p] = tf[p]
    BY <1>1, <1>2, <1>3 DEF HartTypeOK
  <1>7. HartTypeOK'
    BY <1>1, <1>5, <1>6 DEF HartTypeOK, PCs, Frames
  <1>8. Quiet'
    <2>1. \A p \in Procs : Len(stk'[p]) <= 1
      BY <1>4, <1>5, ShortStep
    <2> QED
      BY <1>1, <1>2, <2>1 DEF Quiet
  <1>9. SchedOK'
    BY <1>1, <1>2, <1>5 DEF SchedOK, Stacks
  <1>10. OwnFrame(cur)'
    BY <1>1, <1>2, <1>3, <1>5 DEF OwnFrame
  <1>11. Place'
    BY <1>1, <1>2, <1>10 DEF Place, Yielding, Running
  <1>12. Ready'
    BY <1>1, <1>2, <1>5, <1>6 DEF Ready, Yielding, Parked, OwnFrame, Stacks
  <1> QED
    BY <1>7, <1>8, <1>9, <1>11, <1>12

LEMMA ExitStep ==
  ASSUME HartInv, SysExit
  PROVE  HartInv'
  <1> USE HartAssumption, NoNull DEF HartInv
  <1> DEFINE rs == [t |-> "junk", r |-> "junk"]
  <1>1. /\ pc = "syscall" /\ stip' = stip /\ sie' = sie /\ sp' = sp /\ sscratch' = sscratch
        /\ reg' = reg /\ cur' = cur /\ ctx' = ctx /\ sctx' = sctx
        /\ entered' = entered /\ early' = early
        /\ tf' = tf /\ pc' = "yield" /\ state' = [state EXCEPT ![cur] = "ZOMBIE"]
        /\ stk' = [stk EXCEPT ![sp][Len(stk[sp])].reg = rs]
    BY DEF SysExit
  <1>2. /\ cur \in Procs /\ state[cur] = "RUNNING" /\ sp = cur /\ sp # BootStack /\ OwnFrame(cur)
        /\ entered /\ ~sie /\ stk[BootStack] = <<>>
    BY <1>1, InSyscall
  <1>3. rs \in Regs
    BY DEF Regs
  <1> HIDE DEF rs
  <1>4. cur \in Stacks /\ Len(stk[cur]) = 1
    BY <1>2 DEF Stacks, OwnFrame
  <1>5. /\ stk' \in [Stacks -> Seq(Frames)] /\ Len(stk'[cur]) = 1
        /\ \A q \in Stacks : q # cur => stk'[q] = stk[q]
    BY <1>1, <1>2, <1>3, <1>4, FrameRegs
  <1>6. /\ state' \in [Procs -> {"UNUSED", "RUNNABLE", "RUNNING", "ZOMBIE"}]
        /\ state'[cur] = "ZOMBIE" /\ \A p \in Procs : p # cur => state'[p] = state[p]
    BY <1>1, <1>2 DEF HartTypeOK
  <1>7. HartTypeOK'
    BY <1>1, <1>5, <1>6 DEF HartTypeOK, PCs, Frames
  <1>8. Quiet'
    <2>1. \A p \in Procs : Len(stk'[p]) <= 1
      BY <1>4, <1>5, ShortStep
    <2> QED
      BY <1>1, <1>2, <2>1 DEF Quiet
  <1>9. SchedOK'
    BY <1>1, <1>2, <1>5 DEF SchedOK, Stacks
  <1>10. Place'
    BY <1>1, <1>2, <1>5, <1>6 DEF Place, Yielding
  <1>11. Ready'
    BY <1>1, <1>2, <1>5, <1>6 DEF Ready, Yielding, Parked, OwnFrame, Stacks
  <1> QED
    BY <1>7, <1>8, <1>9, <1>10, <1>11

-----------------------------------------------------------------------------
(* Switches *)

LEMMA YieldSaveStep ==
  ASSUME HartInv, YieldSave
  PROVE  HartInv'
  <1> USE HartAssumption, NoNull DEF HartInv
  <1> DEFINE c == [pc |-> IF pc = "yield" THEN "ret" ELSE "syscall", sp |-> sp,
                   depth |-> Len(stk[sp])]
  <1>1. /\ Yielding /\ stip' = stip /\ sie' = sie /\ sp' = sp /\ sscratch' = sscratch
        /\ reg' = reg /\ cur' = cur /\ stk' = stk /\ sctx' = sctx
        /\ entered' = entered /\ early' = early
        /\ tf' = tf /\ pc' = "toSched" /\ state' = state
        /\ ctx' = [ctx EXCEPT ![cur] = c]
    BY DEF YieldSave, Yielding
  <1>2. /\ cur \in Procs /\ sp = cur /\ sp # BootStack /\ Len(stk[cur]) = 1
        /\ state[cur] = "RUNNABLE" => OwnFrame(cur)
    BY <1>1 DEF Place
  <1>3. entered /\ ~sie
    BY <1>1 DEF Quiet, Yielding
  <1>4. c \in Ctxs /\ c.sp = cur /\ c.pc \in {"ret", "syscall"} /\ c.depth = 1
    BY <1>2 DEF Ctxs, PCs, Stacks
  <1> HIDE DEF c
  <1>5. ctx' \in [Procs -> Ctxs] /\ ctx'[cur] = c /\ \A p \in Procs : p # cur => ctx'[p] = ctx[p]
    BY <1>1, <1>2, <1>4 DEF HartTypeOK
  <1>6. HartTypeOK'
    BY <1>1, <1>5 DEF HartTypeOK, PCs
  <1>7. Quiet'
    BY <1>1, <1>3 DEF Quiet
  <1>8. SchedOK'
    BY <1>1, <1>2, <1>3 DEF SchedOK, Yielding
  <1>9. Place'
    BY <1>1 DEF Place, Yielding
  <1>10. Ready'
    <2> SUFFICES ASSUME NEW p \in Procs, state[p] = "RUNNABLE" PROVE Parked(p)'
      BY <1>1 DEF Ready
    <2>1. CASE p = cur
      BY <1>1, <1>2, <1>3, <1>4, <1>5, <2>1 DEF Parked, OwnFrame
    <2>2. CASE p # cur
      BY <1>1, <1>5, <2>2 DEF Ready, Parked, OwnFrame
    <2> QED
      BY <2>1, <2>2
  <1> QED
    BY <1>6, <1>7, <1>8, <1>9, <1>10

LEMMA YieldLoadStep ==
  ASSUME HartInv, YieldLoad
  PROVE  HartInv'
  <1> USE HartAssumption, NoNull DEF HartInv
  <1>1. entered /\ ~sie /\ pc = "toSched"
    BY DEF YieldLoad, Quiet
  <1>2. sctx = [pc |-> "after", sp |-> BootStack, depth |-> 0] /\ sctx # NULL
        /\ stk[BootStack] = <<>>
    BY <1>1 DEF SchedOK
  <1>3. /\ pc' = "after" /\ sp' = BootStack
        /\ stk' = [stk EXCEPT ![BootStack] = SubSeq(stk[BootStack], 1, 0)]
        /\ sie' = sie /\ stip' = stip /\ sscratch' = sscratch /\ reg' = reg /\ state' = state
        /\ cur' = cur /\ ctx' = ctx /\ sctx' = sctx /\ tf' = tf
       
        /\ entered' = entered /\ early' = early
    BY <1>2 DEF YieldLoad, SwtchLoad
  <1>4. SubSeq(stk[BootStack], 1, 0) = <<>>
    BY <1>2, SubSeqEmpty
  <1>5. stk' = stk
    BY <1>2, <1>3, <1>4 DEF HartTypeOK, Stacks
  <1>6. HartTypeOK'
    BY <1>3, <1>5 DEF HartTypeOK, PCs, Stacks
  <1>7. Quiet' /\ SchedOK'
    BY <1>1, <1>2, <1>3, <1>5 DEF Quiet, SchedOK
  <1>8. Place'
    BY <1>3 DEF Place, Yielding
  <1>9. Ready'
    BY <1>1, <1>3, <1>5 DEF Ready, Yielding, Parked, OwnFrame
  <1> QED
    BY <1>6, <1>7, <1>8, <1>9

LEMMA SchedLoadStep ==
  ASSUME HartInv, SchedLoad
  PROVE  HartInv'
  <1> USE HartAssumption, NoNull DEF HartInv
  <1>1. /\ pc = "toProc" /\ cur \in Procs /\ state[cur] = "RUNNING" /\ sp = BootStack
        /\ Parked(cur) /\ cur # BootStack
    BY DEF SchedLoad, Place, Running
  <1>2. sctx # NULL /\ stk[BootStack] = <<>> /\ (entered => ~sie)
    BY <1>1 DEF SchedOK, Quiet
  <1>4. stk[cur] \in Seq(Frames) /\ cur \in Stacks
    BY <1>1 DEF HartTypeOK, Stacks, Frames
  <1>7. ctx[cur].depth <= Len(stk[cur])
    <2>1. Len(stk[cur]) \in Nat
      BY <1>4, LenProperties
    <2>2. CASE ctx[cur].depth = 0
      BY <2>1, <2>2
    <2>3. CASE ctx[cur].depth = 1 /\ Len(stk[cur]) = 1
      BY <2>3
    <2> QED
      BY <1>1, <2>2, <2>3 DEF Parked, OwnFrame
  <1>3. /\ pc' = ctx[cur].pc /\ sp' = cur
        /\ stk' = [stk EXCEPT ![cur] = SubSeq(stk[cur], 1, ctx[cur].depth)]
        /\ sie' = sie /\ stip' = stip /\ sscratch' = sscratch /\ reg' = reg /\ state' = state
        /\ cur' = cur /\ ctx' = ctx /\ sctx' = sctx /\ tf' = tf
       
        /\ entered' = entered /\ early' = early
    BY <1>1, <1>4, <1>7 DEF SchedLoad, SwtchLoad, Parked
  <1>5. CASE ctx[cur].pc = "start" /\ ctx[cur].depth = 0 /\ tf[cur].r = cur
    <2>1. SubSeq(stk[cur], 1, 0) = <<>>
      BY SubSeqEmpty
    <2>2. stk' = [stk EXCEPT ![cur] = <<>>]
      BY <1>3, <1>5, <2>1
    <2>3. /\ stk' \in [Stacks -> Seq(Frames)] /\ stk'[cur] = <<>>
          /\ \A q \in Stacks : q # cur => stk'[q] = stk[q]
      <3>1. <<>> \in Seq(Frames)
        BY EmptySeq
      <3> QED
        BY <1>4, <2>2, <3>1, StkSet
    <2>4. HartTypeOK'
      BY <1>3, <1>4, <1>5, <2>3 DEF HartTypeOK, PCs, Frames
    <2>5. Quiet'
      <3>1. Len(stk'[cur]) = 0
        BY <2>3, EmptySeq
      <3>2. \A p \in Procs : Len(stk'[p]) <= 1
        BY <1>4, <2>3, <3>1, ShortStep
      <3> QED
        BY <1>2, <1>3, <1>5, <3>2 DEF Quiet
    <2>6. SchedOK'
      BY <1>1, <1>2, <1>3, <2>3 DEF SchedOK, Stacks
    <2>7. Place'
      BY <1>1, <1>3, <1>5 DEF Place, Yielding, Running
    <2>8. Ready'
      BY <1>1, <1>3, <2>3 DEF Ready, Yielding, Parked, OwnFrame, Stacks
    <2> QED
      BY <2>4, <2>5, <2>6, <2>7, <2>8
  <1>6. CASE ctx[cur].pc \in {"ret", "syscall"} /\ ctx[cur].depth = 1 /\ OwnFrame(cur) /\ entered
    <2>1. SubSeq(stk[cur], 1, 1) = stk[cur]
      <3>1. Len(stk[cur]) = 1
        BY <1>6 DEF OwnFrame
      <3> QED
        BY <1>4, <3>1, SubSeqFull
    <2>2. stk' = stk
      BY <1>3, <1>6, <2>1 DEF HartTypeOK
    <2>3. HartTypeOK'
      BY <1>3, <1>4, <1>6, <2>2 DEF HartTypeOK, PCs
    <2>4. Quiet' /\ SchedOK'
      BY <1>1, <1>2, <1>3, <1>6, <2>2 DEF Quiet, SchedOK
    <2>5. OwnFrame(cur)'
      BY <1>3, <1>6, <2>2 DEF OwnFrame
    <2>6. Place'
      BY <1>1, <1>3, <1>6, <2>5 DEF Place, Yielding, Running
    <2>7. Ready'
      BY <1>1, <1>3, <2>2 DEF Ready, Yielding, Parked, OwnFrame
    <2> QED
      BY <2>3, <2>4, <2>6, <2>7
  <1> QED
    BY <1>1, <1>5, <1>6 DEF Parked

LEMMA TrapRetStep ==
  ASSUME HartInv, TrapRet
  PROVE  HartInv'
  <1> USE HartAssumption, NoNull DEF HartInv
  <1> DEFINE f == stk[sp][1]
  <1>1. /\ pc = "ret"
        /\ \/ /\ cur \in Procs /\ state[cur] = "RUNNING" /\ sp = cur /\ sp # BootStack
              /\ OwnFrame(cur) /\ entered
           \/ BootTick
    BY DEF TrapRet, Place, Running
  <1>2. sp \in Stacks /\ Len(stk[sp]) = 1 /\ stk[sp] \in Seq(Frames) /\ sp # NULL
    BY <1>1 DEF OwnFrame, BootTick, Stacks, HartTypeOK, Frames
  <1>3. Frame = f /\ f \in Frames
    BY <1>2 DEF Frame, Last
  <1>4. Front(stk[sp]) = <<>>
    <2>1. Front(stk[sp]) = SubSeq(stk[sp], 1, 0)
      BY <1>2 DEF Front
    <2> QED
      BY <2>1, SubSeqEmpty
  <1>5. /\ reg' = f.reg /\ sie' = f.spie /\ pc' = f.pc
        /\ stk' = [stk EXCEPT ![sp] = <<>>]
        /\ f.pc = "user" => sscratch' = sp /\ sp' = NULL
        /\ f.pc # "user" => sscratch' = sscratch /\ sp' = sp
        /\ stip' = stip /\ state' = state /\ cur' = cur /\ ctx' = ctx /\ sctx' = sctx
        /\ tf' = tf
       
        /\ entered' = entered /\ early' = early
    BY <1>3, <1>4 DEF TrapRet
  <1>6. f.pc \in PCs /\ f.reg \in Regs /\ f.spie \in BOOLEAN
    BY <1>3 DEF Frames
  <1>7. /\ \/ f.pc = "user" /\ f.reg.r = cur /\ cur \in Procs /\ state[cur] = "RUNNING"
              /\ sp = cur /\ entered
           \/ f.pc = "pick" /\ BootTick
    BY <1>1 DEF OwnFrame, BootTick
  <1> HIDE DEF f
  <1>8. /\ stk' \in [Stacks -> Seq(Frames)] /\ stk'[sp] = <<>>
        /\ \A q \in Stacks : q # sp => stk'[q] = stk[q]
    <2>1. <<>> \in Seq(Frames)
      BY EmptySeq
    <2> QED
      BY <1>2, <1>5, <2>1, StkSet
  <1>9. HartTypeOK'
    BY <1>2, <1>5, <1>6, <1>7, <1>8 DEF HartTypeOK, Frames
  <1>10. Quiet'
    <2>1. Len(stk'[sp]) = 0
      BY <1>8, EmptySeq
    <2>2. \A p \in Procs : Len(stk'[p]) <= 1
      BY <1>2, <1>8, <2>1, ShortStep
    <2> QED
      BY <1>5, <1>7, <2>2 DEF Quiet, BootTick
  <1>11. SchedOK'
    BY <1>1, <1>2, <1>5, <1>7, <1>8 DEF SchedOK, Stacks, BootTick
  <1>12. Place'
    BY <1>5, <1>7 DEF Place, Yielding, Running, BootTick
  <1>13. Ready'
    BY <1>1, <1>5, <1>7, <1>8 DEF Ready, Yielding, Parked, OwnFrame, Stacks, BootTick
  <1> QED
    BY <1>9, <1>10, <1>11, <1>12, <1>13

-----------------------------------------------------------------------------
(* Every step, and the theorems *)

LEMMA NextInv ==
  ASSUME HartInv, ~early', [Next]_vars
  PROVE  HartInv'
  <1>1. CASE UNCHANGED vars
    <2> USE <1>1 DEF HartInv, vars
    <2>1. HartTypeOK'
      BY DEF HartTypeOK
    <2>2. Quiet' /\ SchedOK'
      BY DEF Quiet, SchedOK
    <2>3. Place'
      BY DEF Place, Yielding, Running, Parked, OwnFrame, BootTick
    <2>4. Ready'
      BY DEF Ready, Yielding, Parked, OwnFrame
    <2> QED
      BY <2>1, <2>2, <2>3, <2>4
  <1>2. ASSUME NEW p \in Procs, Pick(p) \/ SysFork(p) \/ SysReap(p) PROVE HartInv'
    BY <1>2, PickStep, ForkStep, SysStep
  <1>3. CASE SysReturn \/ SysWait
    BY <1>3, HartAssumption, SysStep
  <1> QED
    BY <1>1, <1>2, <1>3, SchedSaveStep, SchedLoadStep, SchedAfterStep, UserretStep, SretStep,
       TickStep, TrapStep, HandlerStep, ExecStep, ExitStep, YieldSaveStep, YieldLoadStep,
       TrapRetStep DEF Next

\* Once early, for ever.
LEMMA EarlyStays == ASSUME early, [Next]_vars PROVE early'
  <1>1. CASE UNCHANGED vars
    BY <1>1 DEF vars
  <1>2. CASE TimerInterrupt
    BY <1>2 DEF TimerInterrupt
  <1>3. CASE Next /\ ~TimerInterrupt
    BY <1>3 DEF Next, Pick, SysFork, SysReap, SchedSave, SchedLoad, SchedAfter, UserretEnter,
       UserretLoad, UserretCsr, UserretSret, Tick, Ecall, TimerHandler, SysReturn, SysExec,
       SysExit, SysWait, YieldSave, YieldLoad, TrapRet
  <1> QED
    BY <1>1, <1>2, <1>3

LEMMA HartAlways == Spec => [](early \/ HartInv)
  <1>1. (early \/ HartInv) /\ [Next]_vars => (early \/ HartInv)'
    BY NextInv, EarlyStays
  <1> QED
    BY <1>1, InitInv, PTL DEF Spec

\* A process has one frame at most, on its own stack, and the kernel is never
\* interrupted once a process has run (trapvec.S, swtch.S, proc_alloc), unless
\* an interrupt fell on the first dispatch.
THEOREM QuietCorrect == Spec => []OwnQuietStack
  <1>1. early \/ HartInv => OwnQuietStack
    <2> SUFFICES ASSUME HartInv PROVE OwnQuietStack
      BY DEF OwnQuietStack
    <2> USE DEF HartInv
    <2>1. KernelQuiet
      BY DEF KernelQuiet, Quiet
    <2>2. OwnStack
      BY DEF OwnStack, Ready, Parked, OwnFrame, Yielding
    <2> QED
      BY <2>1, <2>2 DEF OwnQuietStack
  <1> QED
    BY <1>1, HartAlways, PTL

\* In every dispatch but the first, no switch loads a context that was never
\* saved or whose stack has been overwritten, and userret gets the trapframe's
\* sstatus and sepc, whenever the timer interrupts (swtch.S, userret.S).
THEOREM LostCorrect == Spec => []LostOnlyEarly
  <1>1. early \/ HartInv => LostOnlyEarly
    BY DEF HartInv, Place, LostOnlyEarly
  <1> QED
    BY <1>1, HartAlways, PTL

\* User code is the current process's, with its own registers but for t0 and
\* t1, and its next trap finds its kernel stack (trapvec.S, userret.S), unless an
\* interrupt fell on the first dispatch.
THEOREM UserCorrect == Spec => []UserIsCurrent
  <1>1. early \/ HartInv => UserIsCurrent
    BY NoNull DEF HartInv, Place, Running, UserIsCurrent
  <1> QED
    BY <1>1, HartAlways, PTL
=============================================================================
