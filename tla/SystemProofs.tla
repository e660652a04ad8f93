---------------------------- MODULE SystemProofs ----------------------------
(***************************************************************************)
(* What lies below and above the kernel.  Timer: the clock goes right for  *)
(* every interval and every machine that runs long (ClockRight).  Shell:   *)
(* the row shows the line, and shell and programs hand each other console  *)
(* and descriptors as the other needs them, for buffers and tables of any  *)
(* size (RowIsLine, HandedOver).  Boot: what was loaded is whole when the  *)
(* kernel runs, for every image and every memory (ImageWhole).  Malloc:    *)
(* the free list is sound for heaps and requests of any size (HeapSound).  *)
(* Fdt: the scan of the device tree answers what the tree says, for trees  *)
(* of any size (TreeRead).                                                 *)
(***************************************************************************)
EXTENDS Timer, Shell, Boot, Malloc, Fdt, FiniteSetTheorems, TLAPS

-----------------------------------------------------------------------------
(* Part one: the clock.                                                    *)
(*                                                                         *)
(* Where is where the hart is when the firmware's trap is left out: what   *)
(* holds of the comparator, STIP and the deadline depends on that place    *)
(* alone, whether a machine trap is being handled or not.                  *)

\* Two facts of arithmetic, which the steps cite.
LEMMA OneMore ==
  ASSUME NEW a \in Nat, NEW b \in Nat
  PROVE  a * b \in Nat /\ (a + 1) * b = a * b + b
  OBVIOUS

LEMMA WholeIntervals ==
  ASSUME NEW n \in Nat, NEW q \in Nat, NEW d \in Nat \ {0}, q * d <= n, n < q * d + d
  PROVE  q = n \div d
  OBVIOUS

-----------------------------------------------------------------------------
(* The inductive invariant *)

Places == {"boot", "arm", "enable", "run", "kernel", "rearm", "off"}
Ecalls == {<<"arm", "enable">>, <<"rearm", "kernel">>}
Where == IF at \in Machine THEN frame.mepc ELSE at
Live == Where \in {"enable", "run", "kernel"}

\* A machine trap, and what each of its causes says of the place behind it.
FrameOK ==
  /\ mscratch \in {"fw", "os"}
  /\ at \in Places \cup Machine
  /\ at \in Places => frame = NoFrame /\ mscratch = "fw"
  /\ at \in Machine =>
       /\ mscratch = "os"
       /\ frame.cause \in {"timer", "set_timer", "reset"}
       /\ frame.mepc \in Places \ {"boot"}
       /\ frame.cause = "timer" /\ at = "mtrap" => Where # "arm" /\ now >= mtimecmp
       /\ frame.cause = "set_timer" /\ at = "mtrap" =>
            frame.arg = deadline /\ <<frame.mepc, frame.next>> \in Ecalls
       /\ frame.cause = "set_timer" /\ at = "mret" =>
            frame.mepc \in {"enable", "kernel"}

\* ticks intervals have passed and the deadline is the end of the next.
Clock ==
  /\ now \in 0 .. MaxTime /\ mtimecmp \in Nat /\ stip \in BOOLEAN /\ sie \in BOOLEAN
  /\ interval \in Nat /\ deadline \in Nat /\ ticks \in Nat /\ start \in Nat
  /\ at # "boot" => /\ interval > 0
                    /\ deadline = start + ticks * interval + interval
                    /\ start + ticks * interval <= now

\* Before the first deadline is set the comparator is silent.  From then on it
\* holds the deadline, or its interrupt is pending; in "rearm" it may hold the
\* last one.
Chain ==
  /\ Where \in {"boot", "arm"} => mtimecmp = Never /\ ~stip
  /\ Live => \/ mtimecmp = deadline
             \/ mtimecmp = Never /\ stip
  /\ Live /\ stip => now >= deadline

TimerInv == FrameOK /\ Clock /\ Chain

LEMMA NeverComes == Never \in Nat /\ \A n \in 0 .. MaxTime : n < Never
  BY TimerAssumption DEF Never

LEMMA InitInv == TimerInit => TimerInv
  <1> SUFFICES ASSUME TimerInit PROVE TimerInv
    OBVIOUS
  <1> USE DEF TimerInit
  <1>1. FrameOK
    BY DEF FrameOK, Places, Machine
  <1>2. Clock
    <2>1. stip \in BOOLEAN /\ sie \in BOOLEAN
      OBVIOUS
    <2>2. now \in 0 .. MaxTime /\ mtimecmp \in Nat
      BY NeverComes, TimerAssumption
    <2> QED
      BY <2>1, <2>2 DEF Clock
  <1>3. Chain
    BY DEF Chain, Where, Live, Machine
  <1> QED
    BY <1>1, <1>2, <1>3 DEF TimerInv

-----------------------------------------------------------------------------
(* One lemma per kind of step *)

\* Time passes: what has come due stays due.
LEMMA TickStep == TimerInv /\ Tick => TimerInv'
  <1> SUFFICES ASSUME TimerInv, Tick PROVE TimerInv'
    OBVIOUS
  <1> USE DEF TimerInv, Tick
  <1>1. now \in Nat /\ now' = now + 1 /\ now' \in 0 .. MaxTime
    BY TimerAssumption DEF Clock
  <1>2. FrameOK'
    BY <1>1 DEF FrameOK, Clock, Where
  <1>3. Clock'
    BY <1>1, OneMore DEF Clock
  <1>4. Chain'
    BY <1>1 DEF Chain, Clock, Where, Live
  <1> QED
    BY <1>2, <1>3, <1>4

\* The comparator's interrupt: it held the deadline, since Never does not come.
LEMMA MachineTimerStep == TimerInv /\ MachineTimer => TimerInv'
  <1> SUFFICES ASSUME TimerInv, MachineTimer PROVE TimerInv'
    OBVIOUS
  <1> USE DEF TimerInv, MachineTimer, Mtrap
  <1>1. mtimecmp # Never
    BY NeverComes DEF Clock
  <1>2. at \in Places \ {"boot", "arm", "off"} /\ mscratch = "fw"
    BY <1>1 DEF FrameOK, Chain, Where, Places, Machine
  <1>3. Where = at /\ Where' = Where
    BY <1>2 DEF Where, Places, Machine
  <1>4. FrameOK'
    BY <1>2, <1>3 DEF FrameOK, Places, Machine, Other
  <1>5. Clock'
    BY <1>2 DEF Clock, Places
  <1>6. Chain'
    BY <1>2, <1>3 DEF Chain, Live
  <1> QED
    BY <1>4, <1>5, <1>6

\* The ecall that sets the timer.
LEMMA SetTimerStep ==
  ASSUME NEW from, NEW to, <<from, to>> \in Ecalls, TimerInv, SetTimer(from, to)
  PROVE  TimerInv'
  <1> USE DEF TimerInv, SetTimer, Mtrap
  <1>1. at = from /\ from \in {"arm", "rearm"} /\ mscratch = "fw"
    BY DEF FrameOK, Ecalls, Places, Machine
  <1>2. Where = at /\ Where' = Where
    BY <1>1 DEF Where, Machine
  <1>3. FrameOK'
    BY <1>1, <1>2 DEF FrameOK, Ecalls, Places, Machine, Other
  <1>4. Clock'
    BY <1>1 DEF Clock
  <1>5. Chain'
    BY <1>1, <1>2 DEF Chain, Live
  <1> QED
    BY <1>3, <1>4, <1>5

LEMMA RebootStep == TimerInv /\ sys_reboot => TimerInv'
  <1> SUFFICES ASSUME TimerInv, sys_reboot PROVE TimerInv'
    OBVIOUS
  <1> USE DEF TimerInv, sys_reboot, Mtrap
  <1>1. at = "kernel" /\ mscratch = "fw"
    BY DEF FrameOK, Places, Machine
  <1>2. Where = at /\ Where' = Where
    BY <1>1 DEF Where, Machine
  <1>3. FrameOK'
    BY <1>1, <1>2 DEF FrameOK, Places, Machine, Other
  <1>4. Clock'
    BY <1>1 DEF Clock
  <1>5. Chain'
    BY <1>1, <1>2 DEF Chain, Live
  <1> QED
    BY <1>3, <1>4, <1>5

\* The firmware's handler, one cause after the other.
LEMMA HandlerStep == TimerInv /\ mtrap_handler => TimerInv'
  <1> SUFFICES ASSUME TimerInv, mtrap_handler PROVE TimerInv'
    OBVIOUS
  <1> USE DEF TimerInv, mtrap_handler
  <1>1. at = "mtrap" /\ at' = "mret" /\ mscratch' = "os" /\ mscratch = "os"
    BY DEF FrameOK, Machine
  <1>2. CASE /\ frame.cause = "timer" /\ mtimecmp' = Never /\ stip' = TRUE
             /\ UNCHANGED frame
    <2>1. Where' = Where /\ Where # "arm" /\ Where # "boot"
      BY <1>1, <1>2 DEF Where, FrameOK, Machine
    <2>2. FrameOK'
      BY <1>1, <1>2 DEF FrameOK, Places, Machine
    <2>3. Clock'
      BY <1>1, <1>2, NeverComes DEF Clock
    <2>4. Live => mtimecmp = deadline /\ now >= deadline
      BY <1>1, <1>2, NeverComes DEF FrameOK, Chain, Clock, Machine
    <2>5. Chain'
      BY <1>2, <2>1, <2>4 DEF Chain, Live
    <2> QED
      BY <2>2, <2>3, <2>5
  <1>3. CASE /\ frame.cause = "set_timer" /\ mtimecmp' = frame.arg /\ stip' = FALSE
             /\ frame' = [frame EXCEPT !.mepc = frame.next]
    <2>1. frame.arg = deadline /\ frame.next \in {"enable", "kernel"}
      BY <1>1, <1>3 DEF FrameOK, Ecalls, Machine
    <2>2. frame'.cause = "set_timer" /\ frame'.mepc = frame.next
      BY <1>1, <1>3 DEF FrameOK
    <2>3. FrameOK'
      BY <1>1, <2>1, <2>2 DEF FrameOK, Places, Machine
    <2>4. Clock'
      BY <1>1, <1>3, <2>1 DEF Clock
    <2>5. Chain'
      BY <1>1, <1>3, <2>1, <2>2 DEF Chain, Where, Live, Machine
    <2> QED
      BY <2>3, <2>4, <2>5
  <1>4. CASE /\ frame.cause = "reset" /\ frame' = [frame EXCEPT !.mepc = "off"]
             /\ UNCHANGED <<mtimecmp, stip>>
    <2>1. frame'.cause = "reset" /\ frame'.mepc = "off"
      BY <1>4 DEF FrameOK
    <2>2. FrameOK'
      BY <1>1, <2>1 DEF FrameOK, Places, Machine
    <2>3. Clock'
      BY <1>1, <1>4 DEF Clock
    <2>4. Chain'
      BY <1>1, <1>4, <2>1 DEF Chain, Where, Live, Machine
    <2> QED
      BY <2>2, <2>3, <2>4
  <1> QED
    BY <1>2, <1>3, <1>4

LEMMA MretStep == TimerInv /\ Mret => TimerInv'
  <1> SUFFICES ASSUME TimerInv, Mret PROVE TimerInv'
    OBVIOUS
  <1> USE DEF TimerInv, Mret
  <1>1. at' \in Places \ {"boot"} /\ mscratch' = "fw" /\ Where' = Where
    BY DEF FrameOK, Where, Places, Machine, Other
  <1>2. FrameOK'
    BY <1>1 DEF FrameOK, Places, Machine
  <1>3. Clock'
    BY <1>1 DEF Clock, Places
  <1>4. Chain'
    BY <1>1 DEF Chain, Live
  <1> QED
    BY <1>2, <1>3, <1>4

\* timer_init: an interval above 0 and the first deadline.
LEMMA StartStep == TimerInv /\ timer_init => TimerInv'
  <1> SUFFICES ASSUME TimerInv, timer_init PROVE TimerInv'
    OBVIOUS
  <1> USE DEF TimerInv, timer_init
  <1>1. interval' \in Nat /\ interval' > 0
    <2>1. PICK tb \in Timebases, hz \in TickHzs :
            LET timebase == IF tb # 0 THEN tb ELSE DefTimebase
                tick_hz == IF hz # 0 THEN hz ELSE DefTickHz
                i == timebase \div tick_hz
            IN  interval' = IF i = 0 THEN 1 ELSE i
      OBVIOUS
    <2> DEFINE timebase == IF tb # 0 THEN tb ELSE DefTimebase
               tick_hz == IF hz # 0 THEN hz ELSE DefTickHz
    <2>2. timebase \in Nat /\ tick_hz \in Nat \ {0}
      BY TimerAssumption
    <2> HIDE DEF timebase, tick_hz
    <2>3. timebase \div tick_hz \in Nat
      BY <2>2
    <2> QED
      BY <2>1, <2>3 DEF timebase, tick_hz
  <1>2. at' = "arm" /\ Where' = "arm"
    BY DEF Where, Machine
  <1>3. FrameOK'
    BY <1>2 DEF FrameOK, Places, Machine
  <1>4. Clock'
    <2>1. now \in Nat /\ ticks' * interval' = 0
      BY <1>1, TimerAssumption DEF Clock
    <2> QED
      BY <1>1, <2>1 DEF Clock
  <1>5. Chain'
    BY <1>2 DEF Chain, Where, Live, Machine
  <1> QED
    BY <1>3, <1>4, <1>5

\* The kernel's handler runs only when the deadline has passed.
LEMMA HandleStep == TimerInv /\ timer_handle => TimerInv'
  <1> SUFFICES ASSUME TimerInv, timer_handle PROVE TimerInv'
    OBVIOUS
  <1> USE DEF TimerInv, timer_handle
  <1>1. Where = "run" /\ Live /\ Where' = "rearm" /\ at' = "rearm"
    BY DEF Where, Live, Machine
  <1>2. now >= deadline
    BY <1>1 DEF Chain
  <1>3. FrameOK'
    BY <1>1 DEF FrameOK, Places, Machine
  <1>4. Clock'
    <2>1. stip' \in BOOLEAN /\ sie' \in BOOLEAN
      BY DEF Clock
    <2>2. ticks * interval \in Nat /\ ticks' * interval' = ticks * interval + interval
      BY OneMore DEF Clock
    <2>3. /\ interval' > 0
          /\ deadline' = start' + ticks' * interval' + interval'
          /\ start' + ticks' * interval' <= now'
      BY <1>2, <2>2, TimerAssumption DEF Clock
    <2>4. /\ now' \in 0 .. MaxTime /\ mtimecmp' \in Nat /\ interval' \in Nat
          /\ deadline' \in Nat /\ ticks' \in Nat /\ start' \in Nat
      BY DEF Clock
    <2> QED
      BY <2>1, <2>3, <2>4 DEF Clock
  <1>5. Chain'
    BY <1>1 DEF Chain, Live
  <1> QED
    BY <1>3, <1>4, <1>5

\* trap_enable and the two ways between user mode and the kernel.
LEMMA ModeStep == TimerInv /\ (trap_enable \/ Syscall \/ Sysret) => TimerInv'
  <1> SUFFICES ASSUME TimerInv, trap_enable \/ Syscall \/ Sysret PROVE TimerInv'
    OBVIOUS
  <1> USE DEF TimerInv, trap_enable, Syscall, Sysret
  <1>1. Live /\ Live' /\ at' \in {"run", "kernel"} /\ Where' \in {"run", "kernel"}
    BY DEF Where, Live, Machine
  <1>2. FrameOK'
    BY <1>1 DEF FrameOK, Places, Machine
  <1>3. Clock'
    BY <1>1 DEF Clock
  <1>4. Chain'
    BY <1>1 DEF Chain, Live
  <1> QED
    BY <1>2, <1>3, <1>4

LEMMA StutterStep == TimerInv /\ UNCHANGED tvars => TimerInv'
  BY DEF tvars, TimerInv, FrameOK, Clock, Chain, Where, Live

LEMMA NextInv == TimerInv /\ [TimerNext]_tvars => TimerInv'
  <1> SUFFICES ASSUME TimerInv, [TimerNext]_tvars PROVE TimerInv'
    OBVIOUS
  <1>1. CASE SetTimer("arm", "enable")
    BY <1>1, SetTimerStep DEF Ecalls
  <1>2. CASE SetTimer("rearm", "kernel")
    BY <1>2, SetTimerStep DEF Ecalls
  <1> QED
    BY <1>1, <1>2, TickStep, MachineTimerStep, RebootStep, HandlerStep, MretStep, StartStep,
       HandleStep, ModeStep, StutterStep DEF TimerNext, TimerWork

-----------------------------------------------------------------------------
(* Theorems *)

LEMMA InvIsRight == TimerInv => ClockRight
  <1> SUFFICES ASSUME TimerInv PROVE ClockRight
    OBVIOUS
  <1> USE DEF TimerInv
  <1>1. TimerTypeOK
    BY DEF TimerTypeOK, FrameOK, Clock, Places
  <1>2. ChainAlive
    <2>1. Armed => Live
      BY DEF Armed, Where, Live, Machine
    <2> QED
      BY <2>1 DEF ChainAlive, Chain
  <1>3. NoDrift
    <2> SUFFICES ASSUME at = "run", ~stip, now < mtimecmp
                 PROVE  ticks = (now - start) \div interval
      BY DEF NoDrift
    <2>1. mtimecmp = deadline
      BY DEF Chain, Live, Where, Machine
    <2>2. /\ now \in Nat /\ start \in Nat /\ ticks \in Nat /\ interval \in Nat \ {0}
          /\ ticks * interval \in Nat
          /\ start + ticks * interval <= now
          /\ now < start + ticks * interval + interval
      BY <2>1, OneMore, TimerAssumption DEF Clock
    <2>3. /\ now - start \in Nat /\ ticks * interval <= now - start
          /\ now - start < ticks * interval + interval
      BY <2>2
    <2> QED
      BY <2>2, <2>3, WholeIntervals
  <1>4. NotEarly
    BY DEF NotEarly, Clock
  <1>5. ScratchHome
    BY DEF ScratchHome, FrameOK, Places, Machine
  <1> QED
    BY <1>1, <1>2, <1>3, <1>4, <1>5 DEF ClockRight

\* The clock goes on and goes right (timer_handle, mtrap_handler): the chain of
\* deadlines never breaks, no tick is counted early and none is lost, and the
\* firmware's stack is where the next trap looks for it, for every timebase,
\* tick rate and length of system calls.
THEOREM ClockCorrect == TimerSpec => []ClockRight
  <1>1. TimerInit => TimerInv
    BY InitInv
  <1>2. TimerInv /\ [TimerNext]_tvars => TimerInv'
    BY NextInv
  <1>3. TimerInv => ClockRight
    BY InvIsRight
  <1> QED
    BY <1>1, <1>2, <1>3, PTL DEF TimerSpec

-----------------------------------------------------------------------------
(* Part two: the shell.                                                    *)
(*                                                                         *)
(* The shell keeps no descriptor above the standard ones between its       *)
(* commands, is in raw mode except while a child runs, and a child starts  *)
(* with what the shell had.                                                *)

(* The inductive invariant *)

Tables == [0 .. NOFILE - 1 -> {Closed, "pwd", "own"}]

\* Nothing is open but what stands for standard input and output.
Clean(t) == \A fd \in 3 .. NOFILE - 1 : t[fd] = Closed

\* What the child of a command is, and the console while it is not a program.
Children == [at : {"forked", "exec", "program", "zombie"}, ofile : Tables, redir : BOOLEAN]
ChildOK ==
  /\ child \in Children /\ Clean(child.ofile)
  /\ child.at \in {"forked", "exec"} => lflag = Cooked
  /\ child.at = "forked" => child.redir = (Redir # 0) /\ child.ofile = ofile
  /\ child.at \in {"exec", "program"} => child.ofile[1] = IF Redir # 0 THEN "own" ELSE ofile[1]
  /\ child.at = "exec" => ~child.redir

ShellInv ==
  /\ ShellTypeOK /\ RowIsLine /\ Clean(ofile)
  /\ pc # "main" => term = TRUE
  /\ pc \in {"prompt", "read", "run"} => lflag = {}
  /\ IF pc = "wait" THEN ChildOK ELSE child = NoChild

-----------------------------------------------------------------------------
(* Numbers and lines *)

\* A set of naturals has a least element.
LEMMA LeastNat ==
  ASSUME NEW S \in SUBSET Nat, S # {}
  PROVE  \E n \in S : \A m \in S : n <= m
  <1> DEFINE U == {0 .. n : n \in S}
  <1>1. U \subseteq FiniteSubsetsOf(Nat)
    <2> SUFFICES ASSUME NEW n \in S PROVE 0 .. n \in FiniteSubsetsOf(Nat)
      OBVIOUS
    <2> QED
      BY FS_Interval DEF FiniteSubsetsOf
  <1>2. PICK u \in U : \A v \in U : <<v, u>> \notin StrictSubsetOrdering(Nat)
    <2>1. U # {}
      OBVIOUS
    <2> HIDE DEF U
    <2> QED
      BY <1>1, <2>1, FS_StrictSubsetOrderingWellFounded, WFMin
  <1>3. PICK n \in S : u = 0 .. n
    OBVIOUS
  <1>4. ASSUME NEW m \in S, m < n PROVE FALSE
    <2>1. 0 .. m \in U /\ n \notin 0 .. m /\ n \in u /\ 0 .. m \subseteq u
      BY <1>3, <1>4
    <2>2. <<0 .. m, u>> \in StrictSubsetOrdering(Nat)
      BY <2>1, <1>3 DEF StrictSubsetOrdering
    <2> QED
      BY <1>2, <2>1, <2>2
  <1> QED
    BY <1>3, <1>4

\* A set of numbers up to n that is not empty has a largest element.
LEMMA Largest ==
  ASSUME NEW n \in Nat, NEW S \in SUBSET (0 .. n), S # {}
  PROVE  \E x \in S : \A y \in S : y <= x
  <1> DEFINE T == {n - x : x \in S}
  <1>1. T \in SUBSET Nat /\ T # {}
    <2>1. \A x \in S : n - x \in Nat
      OBVIOUS
    <2> QED
      BY <2>1
  <1>2. PICK t \in T : \A u \in T : t <= u
    <2> HIDE DEF T
    <2> QED
      BY <1>1, LeastNat
  <1>3. PICK x \in S : t = n - x
    OBVIOUS
  <1>4. ASSUME NEW y \in S PROVE y <= x
    <2>1. n - y \in T
      OBVIOUS
    <2>2. n - x <= n - y
      BY <1>2, <1>3, <2>1
    <2> QED
      BY <2>2
  <1> QED
    BY <1>4

LEMMA Sizes == /\ Size \in Nat \ {0} /\ NOFILE \in Nat /\ NOFILE > 3
               /\ MaxArgs \in Nat /\ MaxArgs > 1
  BY ShellAssumption

LEMMA Element ==
  ASSUME NEW S, NEW s \in Seq(S), NEW i \in DOMAIN s
  PROVE  s[i] \in S
  OBVIOUS

LEMMA SubSeqIs ==
  ASSUME NEW S, NEW s \in Seq(S), NEW m \in Nat \ {0}, NEW n \in Nat, n <= Len(s)
  PROVE  SubSeq(s, m, n) \in Seq(S) /\ Len(SubSeq(s, m, n)) = IF m <= n THEN n - m + 1 ELSE 0
  OBVIOUS

\* What is added to a line, taken from it again, is what was added.
LEMMA Suffix ==
  ASSUME NEW S, NEW s \in Seq(S), NEW t \in Seq(S)
  PROVE  /\ SubSeq(s \o t, Len(s) + 1, Len(s \o t)) = t
         /\ s \o t \in Seq(S) /\ Len(s \o t) = Len(s) + Len(t)
  OBVIOUS

-----------------------------------------------------------------------------
(* The line editor *)

Chars == Keys \cup {"/"}

LEMMA TokenIs ==
  ASSUME NEW l \in Seq(Chars)
  PROVE  Token(l) \in Seq(Chars)
  <1> DEFINE starts == {i \in 1 .. Len(l) : l[i] \in {"blank", "/"}}
             s == IF starts = {} THEN 0 ELSE CHOOSE i \in starts : \A j \in starts : j <= i
  <1>1. s \in 0 .. Len(l)
    <2>1. CASE starts = {}
      BY <2>1
    <2>2. CASE starts # {}
      <3>1. starts \in SUBSET (0 .. Len(l)) /\ Len(l) \in Nat
        OBVIOUS
      <3> HIDE DEF starts
      <3>2. \E i \in starts : \A j \in starts : j <= i
        BY <2>2, <3>1, Largest
      <3> QED
        BY <2>2, <3>1, <3>2
    <2> QED
      BY <2>1, <2>2
  <1>2. Token(l) = SubSeq(l, s + 1, Len(l))
    BY DEF Token
  <1> HIDE DEF s
  <1> QED
    BY <1>1, <1>2, SubSeqIs

LEMMA CommonIs ==
  ASSUME NEW names \in SUBSET Seq(Tokens), names # {}
  PROVE  common_prefix(names) \in Seq(Tokens)
  <1> DEFINE name == CHOOSE s \in names : TRUE
             ok == {n \in 0 .. Len(name) : \A s \in names : IsPrefix(SubSeq(name, 1, n), s)}
             longest == CHOOSE n \in ok : \A o \in ok : o <= n
  <1>1. name \in names /\ name \in Seq(Tokens)
    OBVIOUS
  <1>2. common_prefix(names) = SubSeq(name, 1, longest)
    BY DEF common_prefix
  <1> HIDE DEF name
  <1>3. 0 \in ok
    <2>1. SubSeq(name, 1, 0) = <<>> /\ 0 \in 0 .. Len(name)
      BY <1>1
    <2>2. ASSUME NEW s \in names PROVE IsPrefix(<<>>, s)
      BY DEF IsPrefix
    <2> QED
      BY <2>1, <2>2
  <1>4. ok \in SUBSET (0 .. Len(name)) /\ Len(name) \in Nat
    BY <1>1
  <1> HIDE DEF ok
  <1>5. longest \in ok
    <2>1. \E n \in ok : \A o \in ok : o <= n
      BY <1>3, <1>4, Largest
    <2> QED
      BY <2>1
  <1> HIDE DEF longest
  <1> QED
    BY <1>1, <1>2, <1>4, <1>5, SubSeqIs

\* A completion leaves a line that fits, and the row shows it.
LEMMA CompleteLine ==
  ASSUME ShellTypeOK, RowIsLine, NEW dir \in Listings, Complete(dir)
  PROVE  /\ line' \in Seq(Chars) /\ Len(line') < Size
         /\ ofile[1] = Closed => row' = line'
  <1> DEFINE t == Token(line)
             m == collect_matches(dir, t)
             names == {dir[i].name : i \in m}
             common == common_prefix(names)
             more == SubSeq(common, Len(t) + 1, Len(common))
             room == Size - 1 - Len(line)
             add == SubSeq(more, 1, IF Len(more) <= room THEN Len(more) ELSE room)
             l1 == line \o add
             slash == /\ \E i \in m : m = {i} /\ dir[i].dir
                      /\ Len(l1) + 1 < Size
                      /\ l1 # <<>> => Last(l1) # "/"
             l2 == IF slash THEN Append(l1, "/") ELSE l1
             new == IF slash THEN Append(add, "/") ELSE add
  <1>1. /\ pc = "read" /\ m # {} /\ line' = l2
        /\ row' = IF Cardinality(m) > 1 /\ more = <<>> THEN Echoed(line)
                  ELSE Echoed(row \o SubSeq(l2, Len(line) + 1, Len(l2)))
    BY DEF Complete
  <1>2. line \in Seq(Chars) /\ Len(line) \in Nat /\ room \in Nat /\ Len(line) + room = Size - 1
    BY ShellAssumption DEF ShellTypeOK, Chars
  <1>3. t \in Seq(Chars)
    BY <1>2, TokenIs
  <1>4. common \in Seq(Tokens)
    <2>1. m \subseteq DOMAIN dir
      BY DEF collect_matches
    <2>2. dir \in Seq([name : Seq(Tokens), dir : BOOLEAN])
      BY ShellAssumption
    <2> HIDE DEF m
    <2>3. names \in SUBSET Seq(Tokens) /\ names # {}
      <3>1. \A i \in m : dir[i] \in [name : Seq(Tokens), dir : BOOLEAN]
        BY <2>1, <2>2, Element
      <3>2. \A i \in m : dir[i].name \in Seq(Tokens)
        BY <3>1
      <3> QED
        BY <1>1, <3>2
    <2> HIDE DEF names
    <2> QED
      BY <2>3, CommonIs
  <1> HIDE DEF t, common
  <1>5. more \in Seq(Tokens) /\ Len(more) \in Nat
    BY <1>3, <1>4, SubSeqIs
  <1> HIDE DEF more, room
  <1>6. add \in Seq(Tokens) /\ Len(add) \in Nat /\ Len(add) <= room
    BY <1>2, <1>5, SubSeqIs
  <1>7. add \in Seq(Chars)
    BY <1>6 DEF Chars, Keys
  <1>8. more = <<>> => add = <<>>
    BY <1>2
  <1> HIDE DEF add
  <1>9. new \in Seq(Chars) /\ l2 = line \o new /\ Len(line) + Len(new) < Size
    <2>1. l1 \in Seq(Chars) /\ Len(l1) = Len(line) + Len(add) /\ Len(l1) < Size
      BY <1>2, <1>6, <1>7, ShellAssumption
    <2>2. CASE slash
      <3>1. "/" \in Chars /\ Append(add, "/") \in Seq(Chars) /\ Len(Append(add, "/")) = Len(add) + 1
        BY <1>7 DEF Chars
      <3>2. Append(line \o add, "/") = line \o Append(add, "/")
        BY <1>2, <1>7, <3>1
      <3>3. Len(l1) + 1 < Size /\ new = Append(add, "/") /\ l2 = Append(l1, "/")
        BY <2>2
      <3> HIDE DEF new, l2
      <3>4. l2 = line \o new
        BY <3>2, <3>3
      <3>5. new \in Seq(Chars) /\ Len(new) = Len(add) + 1
        BY <3>1, <3>3
      <3>6. Len(line) + Len(new) < Size
        <4> HIDE DEF l1
        <4>1. Len(line) + Len(add) + 1 < Size
          BY <2>1, <3>3
        <4> QED
          BY <4>1, <3>5, <1>2, <1>6, Sizes
      <3> QED
        BY <3>4, <3>5, <3>6
    <2>3. CASE ~slash
      BY <2>1, <2>3, <1>7
    <2> QED
      BY <2>2, <2>3
  <1>10. (\E i \in m : m = {i}) => ~(Cardinality(m) > 1)
    BY FS_Singleton
  <1>11. Cardinality(m) > 1 /\ more = <<>> => l2 = line
    <2> SUFFICES ASSUME Cardinality(m) > 1, more = <<>> PROVE l2 = line
      OBVIOUS
    <2>1. add = <<>> /\ ~slash
      BY <1>8, <1>10
    <2>2. line \o <<>> = line
      BY <1>2
    <2> QED
      BY <2>1, <2>2
  <1> HIDE DEF new, l2, m
  <1>12. SubSeq(l2, Len(line) + 1, Len(l2)) = new /\ l2 \in Seq(Chars) /\ Len(l2) < Size
    BY <1>2, <1>9, Suffix
  <1>13. ASSUME ofile[1] = Closed PROVE row' = l2
    <2>1. row = line /\ \A s : Echoed(s) = s
      BY <1>1, <1>13 DEF RowIsLine, Echoed
    <2> QED
      BY <1>1, <1>9, <1>11, <1>12, <2>1
  <1> QED
    BY <1>1, <1>12, <1>13

\* split_args keeps its limit.
LEMMA FewWords ==
  ASSUME NEW l \in Seq(Chars)
  PROVE  Len(split_args(l)) < MaxArgs
  <1> DEFINE starts == {i \in 1 .. Len(l) : l[i] # "blank" /\ (i > 1 => l[i - 1] = "blank")}
             n == IF Cardinality(starts) < MaxArgs - 1 THEN Cardinality(starts) ELSE MaxArgs - 1
  <1>1. Cardinality(starts) \in Nat
    <2>1. IsFiniteSet(1 .. Len(l)) /\ starts \subseteq 1 .. Len(l)
      BY FS_Interval
    <2> QED
      BY <2>1, FS_Subset, FS_CardinalityType
  <1>2. n \in Nat /\ n < MaxArgs
    BY <1>1, ShellAssumption
  <1> DEFINE order == SetToSortSeq(starts, LAMBDA a, b : a < b)
             ends(i) == {j \in i .. Len(l) : j = Len(l) \/ l[j + 1] = "blank"}
             word(i) == SubSeq(l, i, CHOOSE j \in ends(i) : \A k \in ends(i) : j <= k)
             one(i) == word(order[i])
             words == [i \in 1 .. n |-> one(i)]
  <1>3. split_args(l) = words
    BY DEF split_args
  <1> HIDE DEF n, one
  <1>4. words \in [1 .. n -> {one(i) : i \in 1 .. n}]
    OBVIOUS
  <1> HIDE DEF words
  <1>5. Len(words) = n
    BY <1>2, <1>4
  <1> QED
    BY <1>2, <1>3, <1>5

-----------------------------------------------------------------------------
(* Descriptors *)

\* Nothing but the descriptors of fds is open behind the first three.
Only(t, fds) == \A fd \in 3 .. NOFILE - 1 : fd \notin fds => t[fd] = Closed

LEMMA LowestFreeIs ==
  ASSUME NEW t \in Tables
  PROVE  \/ LowestFree(t) = NOFILE
         \/ LowestFree(t) \in 3 .. NOFILE - 1 /\ t[LowestFree(t)] = Closed
  <1> DEFINE idle == {fd \in 3 .. NOFILE - 1 : t[fd] = Closed}
  <1>1. CASE idle = {}
    BY <1>1 DEF LowestFree
  <1>2. CASE idle # {}
    <2>1. idle \in SUBSET Nat
      OBVIOUS
    <2>2. LowestFree(t) = CHOOSE fd \in idle : \A g \in idle : fd <= g
      BY <1>2 DEF LowestFree
    <2>3. \A fd \in idle : fd \in 3 .. NOFILE - 1 /\ t[fd] = Closed
      OBVIOUS
    <2> HIDE DEF idle
    <2>4. \E fd \in idle : \A g \in idle : fd <= g
      BY <1>2, <2>1, LeastNat
    <2> QED
      BY <2>2, <2>3, <2>4
  <1> QED
    BY <1>1, <1>2

\* openat and dup: a descriptor that was closed is open, or nothing has changed.
LEMMA SysOpenIs ==
  ASSUME NEW t \in Tables, NEW f \in {Closed, "pwd", "own"}
  PROVE  /\ SysOpen(t, f).t \in Tables
         /\ \/ SysOpen(t, f).fd = NOFILE /\ SysOpen(t, f).t = t
            \/ /\ SysOpen(t, f).fd \in 3 .. NOFILE - 1
               /\ t[SysOpen(t, f).fd] = Closed
               /\ SysOpen(t, f).t = [t EXCEPT ![SysOpen(t, f).fd] = f]
  <1>1. LowestFree(t) \in 3 .. NOFILE - 1 => LowestFree(t) \in 0 .. NOFILE - 1 /\ LowestFree(t) # NOFILE
    BY ShellAssumption
  <1> QED
    BY <1>1, LowestFreeIs DEF SysOpen, Tables

LEMMA SysDupIs ==
  ASSUME NEW t \in Tables, NEW fd \in 0 .. NOFILE - 1
  PROVE  /\ SysDup(t, fd).t \in Tables
         /\ \/ SysDup(t, fd).fd = NOFILE /\ SysDup(t, fd).t = t
            \/ /\ SysDup(t, fd).fd \in 3 .. NOFILE - 1
               /\ t[SysDup(t, fd).fd] = Closed
               /\ SysDup(t, fd).t = [t EXCEPT ![SysDup(t, fd).fd] = t[fd]]
  <1>1. t[fd] \in {Closed, "pwd", "own"}
    BY DEF Tables
  <1> QED
    BY <1>1, SysOpenIs DEF SysDup

\* dup2 to standard output followed by close of where it came from.
LEMMA MovedDown ==
  ASSUME NEW t \in Tables, NEW fd \in 3 .. NOFILE - 1, NEW fds, Only(t, fds \cup {fd})
  PROVE  /\ SysClose(SysDup2(t, fd, 1), fd) \in Tables
         /\ Only(SysClose(SysDup2(t, fd, 1), fd), fds)
         /\ \A g \in 3 .. NOFILE - 1 : g # fd => SysClose(SysDup2(t, fd, 1), fd)[g] = t[g]
  <1>1. fd \in 0 .. NOFILE - 1 /\ 1 \in 0 .. NOFILE - 1 /\ fd # 1
    BY ShellAssumption
  <1>2. SysDup2(t, fd, 1) \in Tables /\ \A g \in 0 .. NOFILE - 1 : g # 1 => SysDup2(t, fd, 1)[g] = t[g]
    BY <1>1 DEF SysDup2, Tables
  <1> DEFINE t1 == SysDup2(t, fd, 1)
  <1> HIDE DEF t1
  <1>3. t1 \in Tables /\ \A g \in 3 .. NOFILE - 1 : t1[g] = t[g]
    BY <1>2 DEF t1
  <1>4. /\ SysClose(t1, fd) \in Tables /\ SysClose(t1, fd)[fd] = Closed
        /\ \A g \in 3 .. NOFILE - 1 : g # fd => SysClose(t1, fd)[g] = t1[g]
    BY <1>1, <1>3 DEF SysClose, Tables
  <1>5. Only(SysClose(t1, fd), fds)
    BY <1>3, <1>4 DEF Only
  <1> QED
    BY <1>3, <1>4, <1>5 DEF t1

\* The child's redirection leaves only standard output open, on its file.
LEMMA Redirected ==
  ASSUME NEW t \in Tables, Clean(t), LowestFree(t) # NOFILE
  PROVE  LET o == SysOpen(t, "own")
             r == SysClose(SysDup2(o.t, o.fd, 1), o.fd)
         IN  r \in Tables /\ Clean(r) /\ r[1] = "own"
  <1> DEFINE o == SysOpen(t, "own")
             r == SysClose(SysDup2(o.t, o.fd, 1), o.fd)
  <1>1. /\ o.t \in Tables /\ o.fd \in 3 .. NOFILE - 1
        /\ o.t = [t EXCEPT ![o.fd] = "own"]
    <2>1. o.fd # NOFILE
      BY DEF SysOpen
    <2> QED
      BY <2>1, SysOpenIs
  <1> HIDE DEF o
  <1>2. Only(o.t, {} \cup {o.fd}) /\ o.t[o.fd] = "own"
    BY <1>1, ShellAssumption DEF Only, Clean, Tables
  <1>3. r \in Tables /\ Only(r, {})
    BY <1>1, <1>2, MovedDown
  <1>4. r[1] = "own"
    BY <1>1, <1>2, ShellAssumption DEF SysDup2, SysClose, Closed, Tables
  <1> QED
    BY <1>3, <1>4 DEF Only, Clean, o

\* pwd with a redirection, whether dup has found a descriptor or not.
LEMMA PwdTableIs ==
  ASSUME NEW t \in Tables, Clean(t)
  PROVE  PwdTable(t) \in Tables /\ Clean(PwdTable(t))
  <1> DEFINE o == SysOpen(t, "pwd")
             d == SysDup(o.t, 1)
             t1 == SysClose(SysDup2(d.t, o.fd, 1), o.fd)
             t2 == SysClose(SysDup2(t1, d.fd, 1), d.fd)
  <1>1. PwdTable(t) = IF o.fd = NOFILE THEN t ELSE IF d.fd # NOFILE THEN t2 ELSE t1
    BY DEF PwdTable
  <1>2. /\ o.t \in Tables
        /\ \/ o.fd = NOFILE
           \/ o.fd \in 3 .. NOFILE - 1 /\ o.t = [t EXCEPT ![o.fd] = "pwd"]
    BY SysOpenIs
  <1> HIDE DEF o
  <1>3. /\ d.t \in Tables
        /\ \/ d.fd = NOFILE /\ d.t = o.t
           \/ /\ d.fd \in 3 .. NOFILE - 1 /\ o.t[d.fd] = Closed
              /\ d.t = [o.t EXCEPT ![d.fd] = o.t[1]]
    <2>1. 1 \in 0 .. NOFILE - 1
      BY ShellAssumption
    <2> QED
      BY <1>2, <2>1, SysDupIs
  <1> HIDE DEF d
  <1>4. CASE o.fd = NOFILE
    BY <1>1, <1>4
  <1>5. CASE o.fd # NOFILE
    <2>1. o.fd \in 3 .. NOFILE - 1 /\ o.t[o.fd] = "pwd" /\ Only(o.t, {o.fd})
      BY <1>2, <1>5, ShellAssumption DEF Only, Clean, Tables
    <2>2. d.fd # o.fd \/ d.fd = NOFILE
      BY <1>3, <2>1 DEF Closed
    <2>3. Only(d.t, {d.fd} \cup {o.fd})
      <3>1. CASE d.fd = NOFILE
        BY <1>3, <2>1, <3>1 DEF Only
      <3>2. CASE d.fd # NOFILE
        BY <1>2, <1>3, <2>1, <3>2, ShellAssumption DEF Only, Tables
      <3> QED
        BY <3>1, <3>2
    <2>4. t1 \in Tables /\ Only(t1, {d.fd})
      BY <1>3, <2>1, <2>3, MovedDown
    <2>5. CASE d.fd = NOFILE
      <3>1. Only(t1, {})
        BY <2>4, <2>5, ShellAssumption DEF Only
      <3> QED
        BY <1>1, <1>5, <2>4, <2>5, <3>1 DEF Only, Clean
    <2>6. CASE d.fd # NOFILE
      <3> HIDE DEF t1
      <3>1. d.fd \in 3 .. NOFILE - 1
        BY <1>3, <2>6
      <3>2. Only(t1, {} \cup {d.fd})
        BY <2>4
      <3>3. t2 \in Tables /\ Only(t2, {})
        BY <2>4, <3>1, <3>2, MovedDown
      <3> QED
        BY <1>1, <1>5, <2>6, <3>3 DEF Only, Clean
    <2> QED
      BY <2>5, <2>6
  <1> QED
    BY <1>4, <1>5

-----------------------------------------------------------------------------
(* The steps *)

LEMMA ShellStarts == ShellInit => ShellInv
  <1> SUFFICES ASSUME ShellInit PROVE ShellInv
    OBVIOUS
  <1>1. ShellTypeOK
    BY Sizes DEF ShellInit, ShellTypeOK, Console
  <1>2. Clean(ofile)
    BY Sizes DEF ShellInit, Clean, Console
  <1> QED
    BY <1>1, <1>2 DEF ShellInit, ShellInv, RowIsLine

\* What the types say of the parts that a step leaves alone.
LEMMA Quiet ==
  ASSUME ShellInv, pc # "wait", pc' # "wait", pc # "main", UNCHANGED <<ofile, child>>, term' = TRUE,
         pc' \in {"prompt", "read", "run"} => lflag' = {},
         ShellTypeOK', RowIsLine'
  PROVE  ShellInv'
  BY DEF ShellInv, Clean

LEMMA MainStep == ShellInv /\ Start => ShellInv'
  <1> SUFFICES ASSUME ShellInv, Start PROVE ShellInv'
    OBVIOUS
  <1>1. lflag' = {} /\ term' = TRUE /\ pc' = "prompt" /\ UNCHANGED <<line, argv, ofile, child>>
    BY DEF Start, tty_set_mode, ShellInv, ShellTypeOK
  <1>2. ShellTypeOK' /\ RowIsLine'
    BY <1>1 DEF ShellInv, ShellTypeOK, RowIsLine
  <1> QED
    BY <1>1, <1>2 DEF ShellInv, Clean, Start

LEMMA PromptStep == ShellInv /\ Prompt => ShellInv'
  <1> SUFFICES ASSUME ShellInv, Prompt PROVE ShellInv'
    OBVIOUS
  <1>1. ShellTypeOK'
    BY Sizes DEF ShellInv, Prompt, ShellTypeOK
  <1>2. RowIsLine'
    BY DEF Prompt, RowIsLine
  <1> QED
    BY <1>1, <1>2, Quiet DEF Prompt, ShellInv

LEMMA KeyStep == ASSUME ShellInv, NEW k \in Keys, Key(k) PROVE ShellInv'
  <1>1. line \in Seq(Chars) /\ k \in Chars /\ Len(line) + 1 < Size
    BY DEF ShellInv, ShellTypeOK, Key, Chars
  <1>2. line' \in Seq(Chars) /\ Len(line') < Size
    BY <1>1, Sizes DEF Key
  <1>3. ShellTypeOK'
    BY <1>2 DEF ShellInv, ShellTypeOK, Key, Chars
  <1>4. RowIsLine'
    BY DEF ShellInv, Key, RowIsLine, Echoed
  <1> QED
    BY <1>3, <1>4, Quiet DEF Key, ShellInv

LEMMA EraseStep == ShellInv /\ Erase => ShellInv'
  <1> SUFFICES ASSUME ShellInv, Erase PROVE ShellInv'
    OBVIOUS
  <1>1. line \in Seq(Chars) /\ line # <<>> /\ Len(line) < Size
    BY DEF ShellInv, ShellTypeOK, Erase, Chars
  <1>2. Front(line) \in Seq(Chars) /\ Len(Front(line)) < Size
    <2>1. Len(line) - 1 \in Nat /\ Len(line) - 1 <= Len(line) /\ Len(line) \in Nat
      BY <1>1
    <2>2. Len(SubSeq(line, 1, Len(line) - 1)) < Size /\ SubSeq(line, 1, Len(line) - 1) \in Seq(Chars)
      BY <1>1, <2>1, SubSeqIs, Sizes
    <2> QED
      BY <2>2 DEF Front
  <1>3. ShellTypeOK'
    BY <1>2 DEF ShellInv, ShellTypeOK, Erase, Chars
  <1>4. RowIsLine'
    BY <1>1 DEF ShellInv, Erase, RowIsLine, Echoed
  <1> QED
    BY <1>3, <1>4, Quiet DEF Erase, ShellInv

LEMMA CompleteStep == ASSUME ShellInv, NEW dir \in Listings, Complete(dir) PROVE ShellInv'
  <1>1. pc = "read" /\ UNCHANGED <<pc, lflag, argv, ofile, child, term>>
    BY DEF Complete
  <1>2. line' \in Seq(Chars) /\ Len(line') < Size /\ (ofile[1] = Closed => row' = line')
    BY CompleteLine DEF ShellInv
  <1>3. ShellTypeOK'
    BY <1>1, <1>2 DEF ShellInv, ShellTypeOK, Chars
  <1>4. RowIsLine'
    BY <1>1, <1>2 DEF RowIsLine
  <1> QED
    BY <1>1, <1>3, <1>4, Quiet DEF ShellInv

LEMMA EnterStep == ShellInv /\ Enter => ShellInv'
  <1> SUFFICES ASSUME ShellInv, Enter PROVE ShellInv'
    OBVIOUS
  <1>1. Len(argv') < MaxArgs
    BY FewWords DEF ShellInv, ShellTypeOK, Enter, Chars
  <1>2. pc = "read" /\ pc' \in {"prompt", "run"} /\ line' = <<>> /\ UNCHANGED <<lflag, ofile, child, term>>
    BY DEF Enter
  <1>3. ShellTypeOK'
    BY <1>1, <1>2, Sizes DEF ShellInv, ShellTypeOK
  <1>4. RowIsLine'
    BY <1>2 DEF RowIsLine
  <1> QED
    BY <1>2, <1>3, <1>4, Quiet DEF ShellInv

\* run_command without a child: the descriptors stay clean, and the shell
\* reads on in raw mode or has ended.
LEMMA CommandStep == ShellInv /\ Command => ShellInv'
  <1> SUFFICES ASSUME ShellInv, Command PROVE ShellInv'
    OBVIOUS
  <1> DEFINE ToPrompt == /\ pc' \in {"prompt", "dead", "gone"} /\ argv' = <<>>
                         /\ pc' = "prompt" => lflag' = {}
                         /\ lflag' \subseteq Cooked /\ term' = TRUE
                         /\ ofile' \in Tables /\ Clean(ofile')
                         /\ UNCHANGED <<line, row, child>>
  <1>1. /\ pc = "run" /\ lflag = {} /\ term = TRUE /\ child = NoChild
        /\ ofile \in Tables /\ Clean(ofile) /\ ShellTypeOK
    BY DEF Command, MissingPath, NoCommand, builtin_cd, builtin_pwd, ExitShell, Runs, Fork,
           ForkFails, TooLong, External, ShellInv, ShellTypeOK, Tables
  <1>2. ASSUME ToPrompt PROVE ShellInv'
    <2>1. ShellTypeOK'
      BY <1>1, <1>2, Sizes DEF ShellTypeOK, Tables
    <2>2. RowIsLine'
      BY <1>2 DEF RowIsLine
    <2> QED
      BY <1>1, <1>2, <2>1, <2>2 DEF ShellInv, Clean
  <1>3. CASE MissingPath \/ NoCommand \/ builtin_cd \/ TooLong
    <2>1. /\ pc' \in {"prompt", "dead"} /\ argv' = <<>>
          /\ UNCHANGED <<lflag, line, row, ofile, child, term>>
      BY <1>3 DEF MissingPath, NoCommand, builtin_cd, TooLong, Done
    <2>2. ToPrompt
      BY <1>1, <2>1 DEF Clean
    <2> QED
      BY <1>2, <2>2
  <1>4. CASE builtin_pwd
    <2>1. ofile' = ofile \/ ofile' = PwdTable(ofile)
      BY <1>4 DEF builtin_pwd
    <2>2. ofile' \in Tables /\ Clean(ofile')
      BY <1>1, <2>1, PwdTableIs DEF Clean
    <2>3. ToPrompt
      BY <1>1, <1>4, <2>2 DEF builtin_pwd, Done
    <2> QED
      BY <1>2, <2>3
  <1>5. CASE ExitShell \/ ForkFails
    <2>1. /\ pc' \in {"prompt", "gone"} /\ argv' = <<>> /\ lflag' \subseteq Cooked
          /\ pc' = "prompt" => lflag' = {}
          /\ term' = TRUE /\ UNCHANGED <<line, row, ofile, child>>
      BY <1>1, <1>5 DEF ExitShell, ForkFails, Done, tty_restore
    <2>2. ToPrompt
      BY <1>1, <2>1 DEF Clean
    <2> QED
      BY <1>2, <2>2
  <1>6. CASE Fork
    <2>1. lflag' = Cooked /\ pc' = "wait" /\ UNCHANGED <<line, row, argv, ofile, term>>
      BY <1>1, <1>6 DEF Fork, tty_restore
    <2>2. ChildOK'
      <3>1. /\ child' \in Children /\ child'.ofile = ofile
            /\ child'.at = "forked" /\ child'.redir = (Redir # 0)
        BY <1>1, <1>6 DEF Fork, Children
      <3>2. Redir' = Redir
        BY <2>1 DEF Redir
      <3> QED
        BY <1>1, <2>1, <3>1, <3>2 DEF ChildOK, Clean
    <2>3. ShellTypeOK' /\ RowIsLine'
      BY <1>1, <2>1 DEF ShellTypeOK, RowIsLine
    <2> QED
      BY <1>1, <2>1, <2>2, <2>3 DEF ShellInv, Clean
  <1> QED
    BY <1>3, <1>4, <1>5, <1>6 DEF Command

\* The child's own steps; the shell waits meanwhile.
LEMMA ChildSteps ==
  ASSUME ShellInv, Redirect \/ Exec \/ ChildExits \/ \E flags \in SUBSET Cooked : ProgramIoctl(flags)
  PROVE  ShellInv'
  <1>1. pc = "wait" /\ ChildOK
    <2>1. child # NoChild
      BY DEF Redirect, Exec, ChildExits, ProgramIoctl, NoChild
    <2> QED
      BY <2>1 DEF ShellInv
  <1>2. child \in Children /\ child.ofile \in Tables /\ Clean(child.ofile)
    BY <1>1 DEF ChildOK, Children
  <1>0. UNCHANGED <<argv, ofile>> /\ Redir' = Redir
    <2>1. UNCHANGED <<argv, ofile>>
      BY DEF Redirect, Exec, ChildExits, ProgramIoctl
    <2> QED
      BY <2>1 DEF Redir, Is
  <1>3. ASSUME ChildOK', lflag' \subseteq Cooked, UNCHANGED <<pc, line, row, argv, ofile, term>>
        PROVE  ShellInv'
    BY <1>1, <1>3 DEF ShellInv, ShellTypeOK, RowIsLine, Clean
  <1>4. CASE Redirect
    <2> DEFINE o == SysOpen(child.ofile, "own")
               r == SysClose(SysDup2(o.t, o.fd, 1), o.fd)
    <2>1. r \in Tables /\ Clean(r) /\ r[1] = "own"
      BY <1>2, <1>4, Redirected DEF Redirect
    <2>0. Redir # 0
      BY <1>1, <1>4 DEF Redirect, ChildOK
    <2>2. child' = [child EXCEPT !.at = "exec", !.redir = FALSE, !.ofile = r]
      BY <1>4 DEF Redirect
    <2> HIDE DEF r
    <2>3. child' \in Children /\ child'.ofile = r /\ child'.at = "exec" /\ child'.redir = FALSE
      BY <1>2, <2>1, <2>2 DEF Children
    <2>4. lflag' = Cooked
      BY <1>1, <1>4 DEF Redirect, ChildOK
    <2> QED
      BY <1>0, <1>3, <1>4, <2>0, <2>1, <2>3, <2>4 DEF Redirect, ChildOK, Clean
  <1>5. CASE Exec
    <2>1. child' \in Children /\ child'.ofile = child.ofile /\ child'.at = "program"
      BY <1>2, <1>5 DEF Exec, Children
    <2>2. child.ofile[1] = IF Redir # 0 THEN "own" ELSE ofile[1]
      BY <1>1, <1>5 DEF Exec, ChildOK
    <2>3. ChildOK'
      BY <1>0, <1>2, <2>1, <2>2 DEF ChildOK, Clean
    <2> QED
      BY <1>3, <1>5, <2>3 DEF Exec, ShellInv, ShellTypeOK
  <1>6. CASE ChildExits
    <2>1. child' \in Children /\ child'.ofile = child.ofile /\ child'.at = "zombie"
      BY <1>2, <1>6 DEF ChildExits, Children
    <2> QED
      BY <1>0, <1>2, <1>3, <1>6, <2>1 DEF ChildExits, ChildOK, Clean, ShellInv, ShellTypeOK
  <1>7. ASSUME NEW flags \in SUBSET Cooked, ProgramIoctl(flags) PROVE ShellInv'
    <2>1. child' = child /\ child.at = "program"
      BY <1>7 DEF ProgramIoctl
    <2>2. ChildOK'
      BY <1>0, <1>1, <2>1 DEF ChildOK, Clean
    <2> QED
      BY <1>3, <1>7, <2>2 DEF ProgramIoctl
  <1> QED
    BY <1>4, <1>5, <1>6, <1>7

LEMMA WaitStep == ShellInv /\ Wait => ShellInv'
  <1> SUFFICES ASSUME ShellInv, Wait PROVE ShellInv'
    OBVIOUS
  <1>1. /\ pc' = "prompt" /\ lflag' = {} /\ term' = TRUE /\ argv' = <<>> /\ child' = NoChild
        /\ UNCHANGED <<line, row, ofile>>
    BY DEF Wait, tty_set_mode, Done, ShellInv, ShellTypeOK
  <1>2. ShellTypeOK' /\ RowIsLine'
    BY <1>1, Sizes DEF ShellInv, ShellTypeOK, RowIsLine
  <1> QED
    BY <1>1, <1>2 DEF ShellInv, Clean

LEMMA ShellSteps == ShellInv /\ [ShellNext]_shvars => ShellInv'
  <1> SUFFICES ASSUME ShellInv, [ShellNext]_shvars PROVE ShellInv'
    OBVIOUS
  <1>1. CASE UNCHANGED shvars
    BY <1>1 DEF shvars, ShellInv, ShellTypeOK, RowIsLine, Clean, ChildOK, Redir
  <1> QED
    BY <1>1, MainStep, PromptStep, KeyStep, EraseStep, CompleteStep, EnterStep, CommandStep,
       ChildSteps, WaitStep DEF ShellNext

LEMMA ShellInvHolds == ShellSpec => []ShellInv
  BY ShellStarts, ShellSteps, PTL DEF ShellSpec

\* Whatever is typed and completed, over any directories, and whatever programs
\* do with the console: the editor shows the line that it will run.
THEOREM RowCorrect == ShellSpec => []RowIsLine
  <1>1. ShellInv => RowIsLine
    BY DEF ShellInv
  <1> QED
    BY <1>1, ShellInvHolds, PTL

\* A program starts with the console in cooked mode, its output in the file that
\* its command names or where the shell's goes, and nothing else open; the shell
\* has the console back in raw mode and nothing above descriptor 2 open when it
\* prompts, for every size of the descriptor table and also when dup, openat or
\* fork have failed.
THEOREM HandedOverCorrect == ShellSpec => []HandedOver
  <1>1. ShellInv => HandedOver
    <2> SUFFICES ASSUME ShellInv PROVE HandedOver
      OBVIOUS
    <2>1. ModeFits
      BY DEF ShellInv, ModeFits, ChildOK, NoChild
    <2>2. OutputFits
      BY DEF ShellInv, OutputFits, ChildOK, Clean, NoChild
    <2> QED
      BY <2>1, <2>2 DEF ShellInv, HandedOver
  <1> QED
    BY <1>1, ShellInvHolds, PTL

-----------------------------------------------------------------------------
(* Part three: the boot.                                                   *)
(*                                                                         *)
(* The loader writes segment after segment, then the initrd, and kinit     *)
(* links the pages that are left through their first words.  What is in    *)
(* place ends at boot.kend at the latest, and every later write is above   *)
(* that or in a segment that is apart from the others.                     *)

\* The segments that are in memory already.
InPlace == IF boot.at = "load" THEN {k \in Loaded : k < boot.i}
           ELSE IF boot.at \in Running THEN Loaded ELSE {}
SegEnd(k) == Segs[k].paddr + Segs[k].memsz

\* The locals, as far as later steps use them.
LocalsOK ==
    /\ boot \in [at : Stages, mem : Nat \X Nat, list : Seq(Slots), i : Nat \ {0}, first : Slots \cup {None},
                 disk : Slots \cup {None}, kend : Nat, initrd : Nat, copy : SUBSET Words, failed : BOOLEAN,
                 root : Slots \cup {None}]
    /\ boot.at # "reset" => boot.mem = MemoryRange
    /\ DOMAIN ram = Words

\* Every segment in place is whole and ends before kend, and the initrd lies
\* behind kend: what a later step writes is above all of it.
BootInv ==
    /\ BootTypeOK
    /\ LocalsOK
    /\ \A w \in Fixed : ram[w] = <<"fw">>
    /\ \A k \in InPlace :
         /\ SegEnd(k) <= boot.kend /\ InMemory(Segs[k])
         /\ \A w \in Segs[k].paddr..(SegEnd(k) - 1) : ram[w] = Text(Segs[k], w)
    /\ boot.at \in {"enter", "kinit"} /\ mach.image.initrd > 0 =>
         /\ boot.initrd + mach.image.initrd <= MemEnd
         /\ boot.initrd > boot.kend
         /\ \A k \in 0..(mach.image.initrd - 1) : ram[boot.initrd + k] = <<"initrd", k>>

LEMMA Aligned ==
  ASSUME NEW n \in Nat
  PROVE  /\ PageDown(n) \in Nat /\ PageDown(n) <= n
         /\ PageUp(n) \in Nat /\ n <= PageUp(n) /\ PageUp(n) < n + Page
  <1>1. Page \in Nat \ {0}
    BY BootAssumption
  <1>2. ASSUME NEW k \in Nat PROVE k % Page \in 0..(Page - 1) /\ k % Page <= k
    BY <1>1
  <1>3. n + Page - 1 \in Nat
    BY <1>1
  <1>4. (n + Page - 1) % Page \in 0..(Page - 1) /\ (n + Page - 1) % Page <= n + Page - 1
    BY <1>2, <1>3
  <1>5. n % Page \in 0..(Page - 1) /\ n % Page <= n
    BY <1>2
  <1>6. PageDown(n) \in Nat /\ PageDown(n) <= n
    BY <1>1, <1>5 DEF PageDown
  <1> QED
    BY <1>1, <1>4, <1>6 DEF PageDown, PageUp

LEMMA MachineOK ==
  ASSUME mach \in Machines
  PROVE  /\ Segs \in Seq([load : BOOLEAN, paddr : Nat, filesz : Nat, memsz : Nat])
         /\ Loaded # {} /\ Loaded \subseteq 1..Len(Segs)
         /\ \A k \in Loaded : \A w \in Fixed : w < Segs[k].paddr
         /\ \A k, l \in Loaded : k # l => SegEnd(k) <= Segs[l].paddr \/ SegEnd(l) <= Segs[k].paddr
         /\ mach.image.initrd \in Nat
         /\ MemoryRange \in Nat \X Nat
         /\ MemoryRange[1] .. (MemoryRange[1] + MemoryRange[2] - 1) \subseteq Words
         /\ mach.image.initrd + Page <= MemoryRange[1] + MemoryRange[2]
  <1>1. MemoryRange \in {DefMem, mach.tree.mem} \ {<<>>}
    BY BootAssumption DEF MemoryRange
  <1> QED
    BY <1>1, BootAssumption DEF Segs, Loaded, SegEnd

SegmentType == [load : BOOLEAN, paddr : Nat, filesz : Nat, memsz : Nat]

LEMMA MachineTyped ==
  ASSUME mach \in Machines
  PROVE  /\ Len(Segs) \in Nat /\ \A k \in 1..Len(Segs) : Segs[k] \in SegmentType
         /\ \A k \in Loaded : /\ k \in 1..Len(Segs) /\ Segs[k].paddr \in Nat /\ Segs[k].memsz \in Nat
                              /\ SegEnd(k) \in Nat /\ SegEnd(k) >= Segs[k].paddr
         /\ MemoryRange[1] \in Nat /\ MemoryRange[2] \in Nat
         /\ \A w \in Nat : MemoryRange[1] <= w /\ w < MemoryRange[1] + MemoryRange[2] => w \in Words
  <1>1. Segs \in Seq(SegmentType) /\ Loaded \subseteq 1..Len(Segs)
    BY MachineOK DEF SegmentType
  <1>2. Len(Segs) \in Nat /\ \A k \in 1..Len(Segs) : Segs[k] \in SegmentType
    BY <1>1
  <1>3. \A k \in Loaded : Segs[k].paddr \in Nat /\ Segs[k].memsz \in Nat
    BY <1>1, <1>2 DEF SegmentType
  <1>4. MemoryRange[1] \in Nat /\ MemoryRange[2] \in Nat
    BY MachineOK
  <1>5. ASSUME NEW w \in Nat, MemoryRange[1] <= w, w < MemoryRange[1] + MemoryRange[2] PROVE w \in Words
    <2>1. w \in MemoryRange[1]..(MemoryRange[1] + MemoryRange[2] - 1)
      BY <1>4, <1>5
    <2> QED
      BY <2>1, MachineOK
  <1>6. ASSUME NEW k \in Loaded PROVE SegEnd(k) \in Nat /\ SegEnd(k) >= Segs[k].paddr
    BY <1>3 DEF SegEnd
  <1> QED
    BY <1>1, <1>2, <1>3, <1>4, <1>5, <1>6, Zenon

\* A segment that the check lets through is in the machine's memory.
LEMMA SegmentInMemory ==
  ASSUME mach \in Machines, boot.mem = MemoryRange, NEW k \in Loaded, InMemory(Segs[k])
  PROVE  \A w \in Segs[k].paddr..(SegEnd(k) - 1) : w \in Words
  <1>1. MemEnd = MemoryRange[1] + MemoryRange[2] /\ Segs[k].paddr >= MemoryRange[1] /\ SegEnd(k) <= MemEnd
    BY DEF InMemory, MemEnd, SegEnd
  <1> QED
    BY <1>1, MachineTyped, SMTT(30)

LEMMA SameMachine ==
  ASSUME UNCHANGED mach
  PROVE  MemoryRange' = MemoryRange /\ Segs' = Segs /\ Loaded' = Loaded
  BY DEF MemoryRange, Scanned, Segs, Loaded

LEMMA BasesOK ==
  ASSUME mach \in Machines
  PROVE  /\ None \in Nat /\ None \notin Slots /\ 0 \in Slots
         /\ scan_fixed_virtio_bases \in Seq(Slots)
         /\ VirtioBases \in Seq(Slots) /\ KernelBases \subseteq Seq(Slots)
  <1> DEFINE N == Cardinality(Slots)
  <1>1. N \in Nat \ {0} /\ Slots = 0 .. (N - 1)
    BY BootAssumption
  <1>2. scan_fixed_virtio_bases \in Seq(Slots)
    BY <1>1 DEF scan_fixed_virtio_bases
  <1>3. mach.tree.bases \in Seq(Slots)
    BY BootAssumption
  <1>4. VirtioBases \in Seq(Slots)
    BY <1>2, <1>3 DEF VirtioBases
  <1>5. Lists \subseteq Seq(Slots)
    <2>1. ASSUME NEW n \in 0..N, NEW l \in [1..n -> Slots] PROVE l \in Seq(Slots)
      BY <1>1
    <2> QED
      BY <2>1 DEF Lists
  <1>6. KernelBases \subseteq Seq(Slots)
    BY <1>2, <1>4, <1>5 DEF KernelBases
  <1> QED
    BY <1>1, <1>2, <1>4, <1>6 DEF None

-----------------------------------------------------------------------------
LEMMA BootStarts == BootInit => BootInv
  <1> SUFFICES ASSUME BootInit PROVE BootInv
    OBVIOUS
  <1>1. None \in Nat /\ None \notin Slots
    BY BasesOK DEF BootInit
  <1>2. BootTypeOK
    BY <1>1 DEF BootInit, BootTypeOK, Stages
  <1>3. LocalsOK
    BY <1>1 DEF BootInit, LocalsOK, Stages
  <1>4. \A w \in Fixed : ram[w] = <<"fw">>
    BY BootAssumption DEF BootInit
  <1>5. InPlace = {} /\ boot.at \notin {"enter", "kinit"}
    BY DEF BootInit, InPlace, Running
  <1> QED
    BY <1>2, <1>3, <1>4, <1>5 DEF BootInv

\* What a step that writes no memory has to say.
LEMMA NoWrite ==
  ASSUME BootInv, UNCHANGED <<mach, ram, pool>>, BootTypeOK', LocalsOK',
         boot'.kend = boot.kend,
         InPlace' # {} => boot.at # "reset" /\ InPlace' \subseteq InPlace,
         boot'.at \in {"enter", "kinit"} /\ mach.image.initrd > 0 =>
           boot.at \in {"enter", "kinit"} /\ boot'.initrd = boot.initrd
  PROVE  BootInv'
  <1>1. boot.at # "reset" => boot.mem = MemoryRange
    BY DEF BootInv, LocalsOK
  <1>2. boot'.at # "reset" => boot'.mem = MemoryRange'
    BY DEF LocalsOK
  <1>3. MemoryRange' = MemoryRange /\ Segs' = Segs
    BY DEF MemoryRange, Scanned, Segs
  <1>4. ASSUME NEW k \in InPlace' PROVE boot'.at # "reset" /\ boot.at # "reset" /\ k \in InPlace
    BY <1>4 DEF InPlace, Running
  <1>5. ASSUME NEW k \in InPlace'
        PROVE  /\ SegEnd(k)' <= boot'.kend /\ InMemory(Segs[k])'
               /\ \A w \in (Segs[k].paddr..(SegEnd(k) - 1))' : ram'[w] = Text(Segs[k], w)'
    BY <1>1, <1>2, <1>3, <1>4 DEF BootInv, InMemory, MemEnd, SegEnd, Text
  <1>6. MemEnd' = MemEnd \/ boot.at = "reset" \/ boot'.at = "reset"
    BY <1>1, <1>2, <1>3 DEF MemEnd
  <1> QED
    BY <1>5, <1>6 DEF BootInv

LEMMA FindMemoryStep == BootInv /\ FindMemory => BootInv'
  <1> SUFFICES ASSUME BootInv, FindMemory PROVE BootInv'
    OBVIOUS
  <1>1. mach \in Machines /\ None \in Nat /\ None \notin Slots /\ VirtioBases \in Seq(Slots)
    BY BasesOK DEF BootInv, BootTypeOK
  <1>2. BootTypeOK'
    BY <1>1 DEF FindMemory, BootInv, BootTypeOK, LocalsOK, Stages
  <1>3. LocalsOK'
    BY <1>1, MachineOK, SameMachine DEF FindMemory, BootInv, LocalsOK, Stages
  <1>4. InPlace' = {} /\ boot'.at = "probe" /\ boot'.kend = boot.kend
    BY DEF FindMemory, BootInv, LocalsOK, InPlace, Running
  <1> QED
    BY <1>2, <1>3, <1>4, NoWrite DEF FindMemory

LEMMA ProbeStep == ASSUME NEW ok \in BOOLEAN, BootInv, Probe(ok) PROVE BootInv'
  <1> DEFINE s == boot.list[boot.i]
  <1>1. mach \in Machines /\ s \in Slots
    BY DEF BootInv, BootTypeOK, LocalsOK, Probe
  <1>2. PICK a \in {"probe", "select"}, n \in Slots \cup {None}, d \in Slots \cup {None}, f \in BOOLEAN :
          /\ boot' = [boot EXCEPT !.i = @ + 1, !.first = n, !.failed = f, !.disk = d, !.at = a]
          /\ a = "select" => d \in Slots
          /\ a = "probe" => d = boot.disk
    <2> DEFINE found == IsBlk(s) /\ mach.slots[s] # "dead" /\ ok /\ Header(s)
               a == IF found THEN "select" ELSE boot.at
               n == IF IsBlk(s) /\ boot.first = None THEN s ELSE boot.first
               d == IF found THEN s ELSE boot.disk
               f == boot.failed \/ (IsBlk(s) /\ ~ok)
    <2>1. boot.at = "probe" /\ boot.first \in Slots \cup {None} /\ boot.disk \in Slots \cup {None}
      BY DEF Probe, BootInv, LocalsOK
    <2>2. boot.failed \in BOOLEAN
      BY DEF BootInv, LocalsOK
    <2>3. a \in {"probe", "select"} /\ n \in Slots \cup {None} /\ d \in Slots \cup {None} /\ f \in BOOLEAN
      BY <1>1, <2>1, <2>2
    <2>4. (a = "select" => d \in Slots) /\ (a = "probe" => d = boot.disk)
      BY <1>1, <2>1
    <2>5. boot' = [boot EXCEPT !.i = @ + 1, !.first = n, !.failed = f, !.disk = d, !.at = a]
      BY DEF Probe
    <2> HIDE DEF a, n, d, f
    <2> QED
      BY <2>3, <2>4, <2>5
  <1>3. BootTypeOK'
    BY <1>2 DEF Probe, BootInv, BootTypeOK, LocalsOK, Stages
  <1>4. LocalsOK'
    <2>1. boot' \in [at : Stages, mem : Nat \X Nat, list : Seq(Slots), i : Nat \ {0}, first : Slots \cup {None},
                     disk : Slots \cup {None}, kend : Nat, initrd : Nat, copy : SUBSET Words,
                     failed : BOOLEAN, root : Slots \cup {None}]
      <3>1. a \in Stages /\ boot.i + 1 \in Nat \ {0}
        BY DEF BootInv, LocalsOK, Stages
      <3>2. boot' = [boot EXCEPT !.i = boot.i + 1, !.first = n, !.failed = f, !.disk = d, !.at = a]
        BY <1>2
      <3> QED
        BY <3>1, <3>2 DEF BootInv, LocalsOK
    <2>2. boot'.mem = boot.mem
      BY <1>2 DEF BootInv, LocalsOK
    <2> QED
      BY <2>1, <2>2, SameMachine DEF Probe, BootInv, LocalsOK
  <1>5. InPlace' = {} /\ boot'.at \notin {"enter", "kinit"} /\ boot'.kend = boot.kend
    BY <1>2 DEF Probe, BootInv, LocalsOK, InPlace, Running
  <1> QED
    BY <1>3, <1>4, <1>5, NoWrite DEF Probe

LEMMA ProbeEndsStep == BootInv /\ ProbeEnds => BootInv'
  <1> SUFFICES ASSUME BootInv, ProbeEnds PROVE BootInv'
    OBVIOUS
  <1>1. mach \in Machines /\ None \notin Slots /\ 0 \in Slots
    BY BasesOK DEF BootInv, BootTypeOK
  <1>2. PICK d \in Slots : boot' = [boot EXCEPT !.at = "select", !.disk = d]
    BY <1>1 DEF ProbeEnds, BootInv, LocalsOK
  <1>3. BootTypeOK'
    BY <1>2 DEF ProbeEnds, BootInv, BootTypeOK, LocalsOK, Stages
  <1>4. LocalsOK'
    BY <1>2, SameMachine DEF ProbeEnds, BootInv, LocalsOK, Stages
  <1>5. InPlace' = {} /\ boot'.at = "select" /\ boot'.kend = boot.kend
    BY <1>2 DEF BootInv, LocalsOK, InPlace, Running
  <1> QED
    BY <1>3, <1>4, <1>5, NoWrite DEF ProbeEnds

\* Panic and failed reads, wherever they happen once the disk is found.
LEMMA PanicStep ==
  ASSUME BootInv, Panic \/ ReadFails, boot.at \in {"select", "load", "enter", "blk"}
  PROVE  BootInv'
  <1>1. PICK f \in BOOLEAN : boot' = [boot EXCEPT !.at = "panic", !.failed = f]
    <2>1. CASE Panic
      <3>1. boot' = [boot EXCEPT !.at = "panic", !.failed = boot.failed] /\ boot.failed \in BOOLEAN
        BY <2>1 DEF Panic, BootInv, LocalsOK
      <3> QED
        BY <3>1
    <2>2. CASE ReadFails
      BY <2>2 DEF ReadFails
    <2> QED
      BY <2>1, <2>2
  <1>2. UNCHANGED <<mach, ram, pool>>
    BY DEF Panic, ReadFails
  <1>3. BootTypeOK'
    BY <1>1, <1>2 DEF BootInv, BootTypeOK, LocalsOK, Stages
  <1>4. LocalsOK'
    BY <1>1, <1>2, SameMachine DEF BootInv, LocalsOK, Stages
  <1>5. InPlace' = {} /\ boot'.at = "panic" /\ boot'.kend = boot.kend
    BY <1>1 DEF BootInv, LocalsOK, InPlace, Running
  <1> QED
    BY <1>2, <1>3, <1>4, <1>5, NoWrite

LEMMA ReadHeaderStep == BootInv /\ ReadHeader => BootInv'
  <1> SUFFICES ASSUME BootInv, ReadHeader PROVE BootInv'
    OBVIOUS
  <1>1. CASE Panic \/ ReadFails
    BY <1>1, PanicStep DEF ReadHeader
  <1>2. CASE boot' = [boot EXCEPT !.at = "load", !.i = 1] /\ UNCHANGED <<mach, ram, pool>>
    <2>1. BootTypeOK'
      BY <1>2 DEF ReadHeader, BootInv, BootTypeOK, LocalsOK, Stages
    <2>2. LocalsOK'
      <3>1. "load" \in Stages /\ 1 \in Nat \ {0}
        BY DEF Stages
      <3>2. boot'.mem = boot.mem /\ boot.at # "reset"
        BY <1>2 DEF BootInv, LocalsOK, ReadHeader
      <3> QED
        BY <1>2, <3>1, <3>2, SameMachine DEF BootInv, LocalsOK
    <2>3. boot'.at = "load" /\ boot'.i = 1 /\ boot'.kend = boot.kend
      BY <1>2 DEF BootInv, LocalsOK
    <2>4. InPlace' = {}
      BY <2>3 DEF InPlace, Loaded
    <2> QED
      BY <1>2, <2>1, <2>2, <2>3, <2>4, NoWrite
  <1> QED
    BY <1>1, <1>2 DEF ReadHeader

\* The stages that write no memory, from the end of the loader on.
LEMMA StageStep ==
  ASSUME BootInv, UNCHANGED <<mach, ram, pool>>,
         NEW a \in Running, NEW r \in Slots \cup {None}, NEW f \in BOOLEAN,
         NEW c \in SUBSET Words, boot.at \in Running \ {"reset", "probe"},
         a \in {"enter", "kinit"} => boot.at \in {"enter", "kinit"},
         boot' = [boot EXCEPT !.at = a, !.root = r, !.failed = f, !.copy = c]
  PROVE  BootInv'
  <1>1. BootTypeOK'
    BY DEF BootInv, BootTypeOK, LocalsOK, Stages, Running
  <1>2. LocalsOK'
    <2>1. a \in Stages /\ boot.at # "reset"
      BY DEF Stages, Running
    <2>2. boot' \in [at : Stages, mem : Nat \X Nat, list : Seq(Slots), i : Nat \ {0},
                     first : Slots \cup {None}, disk : Slots \cup {None}, kend : Nat, initrd : Nat,
                     copy : SUBSET Words, failed : BOOLEAN, root : Slots \cup {None}]
      BY <2>1 DEF BootInv, LocalsOK
    <2>3. boot'.mem = boot.mem
      BY DEF BootInv, LocalsOK
    <2> QED
      BY <2>1, <2>2, <2>3, SameMachine DEF BootInv, LocalsOK
  <1>3. boot'.at = a /\ boot'.kend = boot.kend /\ boot'.initrd = boot.initrd
    BY DEF BootInv, LocalsOK
  <1>4. InPlace' = InPlace /\ boot.at # "reset"
    BY <1>3, SameMachine DEF InPlace, Running
  <1> QED
    BY <1>1, <1>2, <1>3, <1>4, NoWrite

LEMMA StageSteps ==
  ASSUME BootInv, EnterKernel \/ blk_init \/ fat32_init \/ StartShell \/ NoRoot
  PROVE  BootInv'
  <1>1. boot.root \in Slots \cup {None} /\ boot.failed \in BOOLEAN /\ mach \in Machines
    BY DEF BootInv, BootTypeOK, LocalsOK
  <1>2. boot.copy \in SUBSET Words
    BY DEF BootInv, LocalsOK
  <1>3. CASE Panic /\ boot.at \in {"enter", "blk"}
    BY <1>3, PanicStep
  <1>4. CASE EnterKernel /\ ~Panic
    <2>1. PICK c \in SUBSET Words :
            boot' = [boot EXCEPT !.at = "kinit", !.root = boot.root, !.failed = boot.failed, !.copy = c]
      <3> DEFINE c == {w \in mach.tree.place : ram[w] = <<"dtb", w>>}
      <3>1. mach.tree.place \in SUBSET (Words \ Fixed)
        BY <1>1, BootAssumption
      <3>2. c \in SUBSET Words
        BY <3>1
      <3>3. boot' = [boot EXCEPT !.at = "kinit", !.copy = c]
        BY <1>4 DEF EnterKernel
      <3> HIDE DEF c
      <3>4. boot' = [boot EXCEPT !.at = "kinit", !.root = boot.root, !.failed = boot.failed, !.copy = c]
        BY <3>3 DEF BootInv, LocalsOK
      <3> QED
        BY <3>2, <3>4
    <2>2. UNCHANGED <<mach, ram, pool>> /\ boot.at = "enter"
      BY <1>4 DEF EnterKernel
    <2> QED
      BY <1>1, <2>1, <2>2, StageStep DEF Running
  <1>5. CASE blk_init /\ ~Panic
    <2>1. UNCHANGED <<mach, ram, pool>> /\ boot.at = "blk"
      BY <1>5 DEF blk_init
    <2>2. PICK a \in {"noroot", "mount"}, r \in Slots \cup {None} :
            boot' = [boot EXCEPT !.at = a, !.root = r, !.failed = boot.failed, !.copy = boot.copy]
      <3>1. CASE boot' = [boot EXCEPT !.at = "noroot"]
        <4>1. boot' = [boot EXCEPT !.at = "noroot", !.root = boot.root, !.failed = boot.failed, !.copy = boot.copy]
          BY <3>1 DEF BootInv, LocalsOK
        <4> QED
          BY <4>1, <1>1
      <3>2. ASSUME NEW bases \in KernelBases, NEW k \in DOMAIN bases,
                   boot' = [boot EXCEPT !.at = "mount", !.root = bases[k]]
            PROVE  \E a \in {"noroot", "mount"}, r \in Slots \cup {None} :
                     boot' = [boot EXCEPT !.at = a, !.root = r, !.failed = boot.failed, !.copy = boot.copy]
        <4>1. boot' = [boot EXCEPT !.at = "mount", !.root = bases[k], !.failed = boot.failed, !.copy = boot.copy]
          BY <3>2 DEF BootInv, LocalsOK
        <4>2. bases[k] \in Slots
          <5>1. bases \in Seq(Slots)
            BY <1>1, <3>2, BasesOK
          <5> QED
            BY <3>2, <5>1
        <4> QED
          BY <4>1, <4>2
      <3> QED
        BY <1>5, <3>1, <3>2 DEF blk_init
    <2>3. a \in Running /\ boot.at \in Running \ {"reset", "probe"} /\ a \notin {"enter", "kinit"}
      BY <2>1 DEF Running
    <2> QED
      BY <1>1, <1>2, <2>1, <2>2, <2>3, StageStep
  <1>6. CASE fat32_init \/ StartShell \/ NoRoot
    <2>1. PICK a \in {"proc", "noroot", "shell", "idle"}, f \in BOOLEAN :
            boot' = [boot EXCEPT !.at = a, !.root = boot.root, !.failed = f, !.copy = boot.copy]
      <3>1. ASSUME NEW a \in {"proc", "noroot", "shell", "idle"}
            PROVE  /\ [boot EXCEPT !.at = a] = [boot EXCEPT !.at = a, !.root = boot.root, !.failed = boot.failed, !.copy = boot.copy]
                   /\ [boot EXCEPT !.at = a, !.failed = TRUE]
                        = [boot EXCEPT !.at = a, !.root = boot.root, !.failed = TRUE, !.copy = boot.copy]
        BY DEF BootInv, LocalsOK
      <3>2. \E a \in {"proc", "noroot", "shell", "idle"} :
              boot' = [boot EXCEPT !.at = a] \/ boot' = [boot EXCEPT !.at = a, !.failed = TRUE]
        BY <1>6 DEF fat32_init, StartShell, NoRoot
      <3> QED
        BY <1>1, <3>1, <3>2
    <2>2. UNCHANGED <<mach, ram, pool>> /\ boot.at \in {"mount", "proc", "noroot"}
      BY <1>6 DEF fat32_init, StartShell, NoRoot
    <2>3. a \in Running /\ boot.at \in Running \ {"reset", "probe"} /\ a \notin {"enter", "kinit"}
      BY <2>2 DEF Running
    <2> QED
      BY <1>1, <1>2, <2>1, <2>2, <2>3, StageStep
  <1> QED
    BY <1>3, <1>4, <1>5, <1>6 DEF EnterKernel, blk_init

-----------------------------------------------------------------------------
LEMMA LoadSegmentStep == BootInv /\ LoadSegment => BootInv'
  <1> SUFFICES ASSUME BootInv, LoadSegment PROVE BootInv'
    OBVIOUS
  <1> DEFINE p == Segs[boot.i]
             end == p.paddr + p.memsz
  <1>1. /\ mach \in Machines /\ boot.at = "load" /\ boot.i \in 1..Len(Segs) /\ boot.kend \in Nat
        /\ boot.mem = MemoryRange
    BY MachineOK DEF BootInv, BootTypeOK, LocalsOK, LoadSegment
  <1>2. p \in SegmentType /\ p.paddr \in Nat /\ p.memsz \in Nat
    BY <1>1, MachineTyped DEF SegmentType
  <1>3. "load" \in Stages /\ boot.i + 1 \in Nat \ {0} /\ end \in Nat
    BY <1>1, <1>2 DEF Stages
  <1>4. CASE Panic \/ ReadFails
    BY <1>1, <1>4, PanicStep
  <1>5. CASE ~p.load /\ boot' = [boot EXCEPT !.i = @ + 1] /\ UNCHANGED <<mach, ram, pool>>
    <2>1. boot' = [boot EXCEPT !.i = boot.i + 1]
      BY <1>5
    <2>2. boot'.at = "load" /\ boot'.i = boot.i + 1 /\ boot'.kend = boot.kend /\ boot'.mem = boot.mem
      BY <1>1, <2>1 DEF BootInv, LocalsOK
    <2>3. BootTypeOK'
      BY <1>1, <1>5, <2>1 DEF BootInv, BootTypeOK, LocalsOK
    <2>4. LocalsOK'
      BY <1>1, <1>3, <1>5, <2>1, SameMachine DEF BootInv, LocalsOK
    <2>5. InPlace' \subseteq InPlace
      BY <1>1, <1>5, <2>2, SameMachine DEF InPlace, Loaded
    <2> QED
      BY <1>1, <1>5, <2>2, <2>3, <2>4, <2>5, NoWrite
  <1>6. CASE /\ p.load /\ InMemory(p)
             /\ ram' = [w \in Words |-> IF w \in p.paddr..(end - 1) THEN Text(p, w) ELSE ram[w]]
             /\ boot' = [boot EXCEPT !.i = @ + 1, !.kend = IF end > @ THEN end ELSE @]
             /\ UNCHANGED <<mach, pool>>
    <2>1. PICK e \in Nat : /\ e >= end /\ e >= boot.kend
                           /\ boot' = [boot EXCEPT !.i = boot.i + 1, !.kend = e]
      <3>1. (IF end > boot.kend THEN end ELSE boot.kend) \in Nat
        BY <1>1, <1>3
      <3> DEFINE e == IF end > boot.kend THEN end ELSE boot.kend
      <3>2. e >= end /\ e >= boot.kend
        BY <1>1, <1>3
      <3>3. boot' = [boot EXCEPT !.i = boot.i + 1, !.kend = e]
        BY <1>6
      <3> QED
        BY <3>1, <3>2, <3>3
    <2>2. boot'.at = "load" /\ boot'.i = boot.i + 1 /\ boot'.kend = e /\ boot'.mem = boot.mem
      BY <1>1, <2>1 DEF BootInv, LocalsOK
    <2>3. BootTypeOK'
      BY <1>1, <1>6, <2>1 DEF BootInv, BootTypeOK, LocalsOK
    <2>4. LocalsOK'
      <3>1. boot' \in [at : Stages, mem : Nat \X Nat, list : Seq(Slots), i : Nat \ {0},
                       first : Slots \cup {None}, disk : Slots \cup {None}, kend : Nat, initrd : Nat,
                       copy : SUBSET Words, failed : BOOLEAN, root : Slots \cup {None}]
        BY <1>3, <2>1 DEF BootInv, LocalsOK
      <3> QED
        BY <1>1, <1>6, <2>2, <3>1, SameMachine DEF LocalsOK
    <2>5. boot.i \in Loaded
      BY <1>1, <1>6 DEF Loaded
    <2>6. InPlace' \subseteq InPlace \cup {boot.i} /\ InPlace' \subseteq Loaded /\ InPlace \subseteq Loaded
      BY <1>1, <1>6, <2>2, SameMachine DEF InPlace, Loaded
    <2>7. ASSUME NEW w \in Fixed PROVE ram'[w] = <<"fw">>
      <3>1. w \in Words /\ w \in Nat /\ w < p.paddr
        BY <1>1, <2>5, MachineOK, BootAssumption
      <3> QED
        BY <1>2, <1>6, <3>1 DEF BootInv
    <2>8. /\ \A k : SegEnd(k)' = SegEnd(k) /\ InMemory(Segs[k])' = InMemory(Segs[k])
          /\ \A k, w : Text(Segs[k], w)' = Text(Segs[k], w)
          /\ SegEnd(boot.i) = end
      BY <1>6, <2>2, SameMachine DEF SegEnd, InMemory, MemEnd, Text
    <2>9. ASSUME NEW k \in InPlace'
          PROVE  /\ SegEnd(k) <= e /\ InMemory(Segs[k])
                 /\ \A w \in Segs[k].paddr..(SegEnd(k) - 1) : ram'[w] = Text(Segs[k], w)
      <3>1. CASE k = boot.i
        BY <1>1, <1>6, <2>1, <2>5, <2>8, <3>1, SegmentInMemory
      <3>2. CASE k # boot.i
        <4>1. k \in InPlace /\ k \in Loaded /\ SegEnd(k) \in Nat /\ SegEnd(k) <= boot.kend /\ InMemory(Segs[k])
          BY <1>1, <2>6, <3>2, MachineTyped DEF BootInv
        <4>2. SegEnd(k) <= p.paddr \/ end <= Segs[k].paddr
          BY <1>1, <2>5, <2>8, <3>2, <4>1, MachineOK
        <4>3. \A w \in Segs[k].paddr..(SegEnd(k) - 1) : w \in Words
          BY <1>1, <4>1, SegmentInMemory
        <4>4. ASSUME NEW w \in Segs[k].paddr..(SegEnd(k) - 1) PROVE ram'[w] = Text(Segs[k], w)
          <5>1. w \notin p.paddr..(end - 1)
            <6>1. Segs[k].paddr \in Nat /\ SegEnd(k) \in Nat /\ p.paddr \in Nat /\ end \in Nat
              BY <1>1, <1>2, <1>3, <4>1, MachineTyped
            <6> HIDE DEF end, p
            <6> QED
              BY <6>1, <4>2
          <5> QED
            BY <1>6, <4>1, <4>3, <5>1 DEF BootInv
        <4> QED
          BY <1>1, <2>1, <4>1, <4>4
      <3> QED
        BY <3>1, <3>2
    <2> QED
      BY <2>2, <2>3, <2>4, <2>7, <2>8, <2>9, SameMachine, <1>6 DEF BootInv
  <1> QED
    BY <1>2, <1>4, <1>5, <1>6 DEF LoadSegment

\* When the loader is done the kernel's end is above the firmware.
LEMMA AboveAll ==
  ASSUME BootInv, InPlace = Loaded, boot.at # "reset"
  PROVE  /\ boot.kend \in Nat /\ \A w \in Fixed : w < boot.kend
         /\ \A k \in Loaded : \A w \in Segs[k].paddr..(SegEnd(k) - 1) : w \in Words /\ w < boot.kend
  <1>1. mach \in Machines /\ boot.kend \in Nat /\ boot.mem = MemoryRange
    BY DEF BootInv, BootTypeOK, LocalsOK
  <1>2. \A k \in Loaded : Segs[k].paddr \in Nat /\ Segs[k].memsz \in Nat /\ SegEnd(k) \in Nat
    BY <1>1, MachineTyped
  <1>3. \A k \in Loaded : SegEnd(k) <= boot.kend /\ InMemory(Segs[k])
    BY DEF BootInv
  <1>4. PICK l \in Loaded : TRUE
    BY <1>1, MachineOK
  <1>5. ASSUME NEW w \in Fixed PROVE w < boot.kend
    <2>1. w \in Nat /\ w < Segs[l].paddr
      BY <1>1, MachineOK, BootAssumption
    <2> QED
      BY <1>1, <1>2, <1>3, <1>4, <2>1 DEF SegEnd
  <1>6. ASSUME NEW k \in Loaded
        PROVE  \A w \in Segs[k].paddr..(SegEnd(k) - 1) : w \in Words /\ w < boot.kend
    BY <1>1, <1>2, <1>3, SegmentInMemory
  <1> QED
    BY <1>1, <1>5, <1>6

\* What a step keeps that writes at the kernel's end and above only.
LEMMA WritesAbove ==
  ASSUME BootInv, InPlace = Loaded, boot.at # "reset", boot'.mem = boot.mem,
         UNCHANGED mach, boot'.kend = boot.kend, InPlace' \subseteq Loaded,
         \A w \in Words : w < boot.kend => ram'[w] = ram[w]
  PROVE  /\ \A w \in Fixed : ram'[w] = <<"fw">>
         /\ \A k \in InPlace' :
              /\ SegEnd(k)' <= boot'.kend /\ InMemory(Segs[k])'
              /\ \A w \in (Segs[k].paddr..(SegEnd(k) - 1))' : ram'[w] = Text(Segs[k], w)'
  <1>1. /\ \A k : SegEnd(k)' = SegEnd(k) /\ InMemory(Segs[k])' = InMemory(Segs[k])
        /\ \A k, w : Text(Segs[k], w)' = Text(Segs[k], w)
    BY SameMachine DEF SegEnd, InMemory, MemEnd, Text
  <1>2. \A w \in Fixed : w \in Words /\ ram[w] = <<"fw">>
    BY BootAssumption DEF BootInv
  <1>3. \A k \in Loaded : \A w \in Segs[k].paddr..(SegEnd(k) - 1) : ram[w] = Text(Segs[k], w)
    BY DEF BootInv
  <1>4. ASSUME NEW k \in InPlace', NEW w \in Segs[k].paddr..(SegEnd(k) - 1)
        PROVE  ram'[w] = Text(Segs[k], w)
    BY <1>3, <1>4, AboveAll
  <1> QED
    BY <1>1, <1>2, <1>4, AboveAll, SameMachine DEF BootInv

LEMMA LoadInitrdStep == BootInv /\ LoadInitrd => BootInv'
  <1> SUFFICES ASSUME BootInv, LoadInitrd PROVE BootInv'
    OBVIOUS
  <1> DEFINE n == mach.image.initrd
  <1>1. mach \in Machines /\ boot.at = "load" /\ boot.i > Len(Segs) /\ boot.mem = MemoryRange /\ n \in Nat
    BY MachineOK DEF BootInv, BootTypeOK, LocalsOK, LoadInitrd
  <1>2. InPlace = Loaded
    BY <1>1 DEF InPlace, Loaded, BootInv, LocalsOK
  <1>3. CASE Panic \/ ReadFails
    BY <1>1, <1>3, PanicStep
  <1>4. CASE n = 0 /\ boot' = [boot EXCEPT !.at = "enter"] /\ UNCHANGED <<mach, ram, pool>>
    <2>1. boot' = [boot EXCEPT !.at = "enter", !.root = boot.root, !.failed = boot.failed]
      BY <1>4 DEF BootInv, LocalsOK
    <2>2. boot'.at = "enter" /\ boot'.kend = boot.kend /\ boot'.mem = boot.mem
      BY <1>4 DEF BootInv, LocalsOK
    <2>3. BootTypeOK'
      BY <1>1, <1>4, <2>1 DEF BootInv, BootTypeOK, LocalsOK, Stages
    <2>4. LocalsOK'
      BY <1>1, <1>4, <2>1, SameMachine DEF BootInv, LocalsOK, Stages
    <2>5. InPlace' \subseteq InPlace
      BY <1>2, <2>2, <1>4, SameMachine DEF InPlace, Running
    <2> QED
      BY <1>1, <1>4, <2>2, <2>3, <2>4, <2>5, NoWrite
  <1>5. CASE /\ n > 0 /\ ~(InitrdAt <= boot.kend)
             /\ ram' = [w \in Words |-> IF w \in InitrdAt..(InitrdAt + n - 1)
                                        THEN <<"initrd", w - InitrdAt>> ELSE ram[w]]
             /\ boot' = [boot EXCEPT !.at = "enter", !.initrd = InitrdAt]
             /\ UNCHANGED <<mach, pool>>
    <2>1. /\ MemEnd = MemoryRange[1] + MemoryRange[2] /\ MemEnd \in Nat /\ n + Page <= MemEnd
          /\ boot.mem[1] \in Nat /\ boot.mem[1] = MemoryRange[1]
      BY <1>1, MachineOK, MachineTyped, SMTT(30) DEF MemEnd
    <2>2. /\ PageUp(n) \in Nat /\ n <= PageUp(n) /\ PageUp(n) < n + Page /\ Page \in Nat
      BY <1>1, Aligned, BootAssumption
    <2>3. MemEnd - PageUp(n) \in Nat
      BY <1>1, <2>1, <2>2
    <2>4. InitrdAt \in Nat /\ InitrdAt <= MemEnd - PageUp(n)
      BY <2>3, Aligned DEF InitrdAt
    <2>5. InitrdAt + n <= MemEnd /\ boot.kend < InitrdAt /\ boot.kend \in Nat
      BY <1>1, <1>2, <1>5, <2>1, <2>2, <2>4, AboveAll
    <2>6. boot.mem[1] <= boot.kend
      <3>1. PICK l \in Loaded : TRUE
        BY <1>1, MachineOK
      <3>2. Segs[l].paddr >= boot.mem[1] /\ Segs[l].paddr \in Nat /\ Segs[l].memsz \in Nat /\ SegEnd(l) <= boot.kend
        BY <1>1, <1>2, <3>1, MachineTyped DEF BootInv, InMemory
      <3> QED
        BY <2>1, <2>5, <3>2 DEF SegEnd
    <2>7. \A w \in InitrdAt..(InitrdAt + n - 1) : w \in Words
      <3>1. ASSUME NEW w \in InitrdAt..(InitrdAt + n - 1)
            PROVE  w \in Nat /\ MemoryRange[1] <= w /\ w < MemoryRange[1] + MemoryRange[2]
        BY <1>1, <2>1, <2>4, <2>5, <2>6
      <3> QED
        BY <1>1, <3>1, MachineTyped
    <2>8. /\ boot'.at = "enter" /\ boot'.initrd = InitrdAt /\ boot'.kend = boot.kend /\ boot'.mem = boot.mem
      BY <1>5 DEF BootInv, LocalsOK
    <2>9. BootTypeOK'
      BY <1>1, <1>5 DEF BootInv, BootTypeOK, LocalsOK, Stages
    <2>10. LocalsOK'
      <3>1. "enter" \in Stages
        BY DEF Stages
      <3>2. boot' \in [at : Stages, mem : Nat \X Nat, list : Seq(Slots), i : Nat \ {0},
                       first : Slots \cup {None}, disk : Slots \cup {None}, kend : Nat, initrd : Nat,
                       copy : SUBSET Words, failed : BOOLEAN, root : Slots \cup {None}]
        BY <1>5, <2>4, <3>1 DEF BootInv, LocalsOK
      <3> QED
        BY <1>1, <1>5, <2>8, <3>2, SameMachine DEF LocalsOK
    <2>11. InPlace' \subseteq Loaded
      BY <2>8, <1>5, SameMachine DEF InPlace, Running
    <2>12. \A w \in Words : w < boot.kend => ram'[w] = ram[w]
      BY <1>5, <2>4, <2>5, BootAssumption
    <2>13. MemEnd' = MemEnd /\ mach'.image.initrd = n
      BY <1>5, <2>8 DEF MemEnd
    <2>14. ASSUME NEW k \in 0..(n - 1) PROVE ram'[InitrdAt + k] = <<"initrd", k>>
      <3>1. InitrdAt + k \in InitrdAt..(InitrdAt + n - 1) /\ (InitrdAt + k) - InitrdAt = k
        BY <1>1, <2>4
      <3> QED
        BY <1>5, <2>7, <3>1
    <2>15. /\ \A w \in Fixed : ram'[w] = <<"fw">>
           /\ \A k \in InPlace' :
                /\ SegEnd(k)' <= boot'.kend /\ InMemory(Segs[k])'
                /\ \A w \in (Segs[k].paddr..(SegEnd(k) - 1))' : ram'[w] = Text(Segs[k], w)'
      BY <1>1, <1>2, <1>5, <2>8, <2>11, <2>12, WritesAbove
    <2>16. /\ boot'.initrd + mach'.image.initrd <= MemEnd' /\ boot'.initrd > boot'.kend
           /\ \A k \in 0..(mach'.image.initrd - 1) : ram'[boot'.initrd + k] = <<"initrd", k>>
      BY <2>5, <2>8, <2>13, <2>14
    <2> QED
      BY <2>9, <2>10, <2>15, <2>16 DEF BootInv
  <1> QED
    BY <1>1, <1>3, <1>4, <1>5 DEF LoadInitrd

LEMMA kinitStep == BootInv /\ kinit => BootInv'
  <1> SUFFICES ASSUME BootInv, kinit PROVE BootInv'
    OBVIOUS
  <1>1. mach \in Machines /\ boot.at = "kinit" /\ InPlace = Loaded /\ boot.kend \in Nat
    BY DEF BootInv, BootTypeOK, LocalsOK, kinit, InPlace, Running
  <1>2. boot'.at = "blk" /\ boot'.kend = boot.kend /\ boot'.mem = boot.mem /\ UNCHANGED mach
    BY DEF kinit, BootInv, LocalsOK
  <1>3. BootTypeOK'
    BY <1>1, <1>2 DEF kinit, BootInv, BootTypeOK, LocalsOK, Stages
  <1>4. LocalsOK'
    BY <1>1, <1>2, SameMachine DEF kinit, BootInv, LocalsOK, Stages
  <1>5. InPlace' \subseteq Loaded
    BY <1>2, SameMachine DEF InPlace, Running
  <1>6. ASSUME NEW w \in Words, w < boot.kend PROVE ram'[w] = ram[w]
    <2>1. w \in Nat /\ PageDown(w) \in Nat /\ PageDown(w) <= w
      BY BootAssumption, Aligned
    <2>2. PageUp(kernel_end) \in Nat /\ boot.kend <= PageUp(kernel_end)
      BY <1>1, Aligned DEF kernel_end
    <2>3. PageDown(w) \notin pool'
      BY <1>1, <1>6, <2>1, <2>2 DEF kinit
    <2> QED
      BY <2>3 DEF kinit
  <1>7. /\ \A w \in Fixed : ram'[w] = <<"fw">>
        /\ \A k \in InPlace' :
             /\ SegEnd(k)' <= boot'.kend /\ InMemory(Segs[k])'
             /\ \A w \in (Segs[k].paddr..(SegEnd(k) - 1))' : ram'[w] = Text(Segs[k], w)'
    BY <1>1, <1>2, <1>5, <1>6, WritesAbove
  <1> QED
    BY <1>2, <1>3, <1>4, <1>7 DEF BootInv

LEMMA BootSteps == BootInv /\ [BootNext]_bvars => BootInv'
  <1> SUFFICES ASSUME BootInv, [BootNext]_bvars PROVE BootInv'
    OBVIOUS
  <1>1. CASE UNCHANGED bvars
    <2>1. InPlace' = InPlace /\ MemEnd' = MemEnd
      BY <1>1, SameMachine DEF bvars, InPlace, MemEnd
    <2>2. BootTypeOK' /\ LocalsOK'
      BY <1>1, SameMachine DEF bvars, BootInv, BootTypeOK, LocalsOK
    <2> QED
      BY <1>1, <2>1, <2>2, SameMachine DEF bvars, BootInv, SegEnd, InMemory, Text
  <1>2. CASE EnterKernel \/ blk_init \/ fat32_init \/ StartShell \/ NoRoot
    BY <1>2, StageSteps
  <1> QED
    BY <1>1, <1>2, FindMemoryStep, ProbeStep, ProbeEndsStep, ReadHeaderStep, LoadSegmentStep,
       LoadInitrdStep, kinitStep DEF BootNext

-----------------------------------------------------------------------------
\* Up to the entry of the kernel each word of the tree is there or is one that
\* something is loaded over; behind it the copy has what was there.
Early == {"reset", "probe", "select", "load", "enter"}
Late == Running \ {"enter"}
TreeKept ==
    /\ boot.at \in Early => \A w \in mach.tree.place : ram[w] = <<"dtb", w>> \/ Overwritten(w)
    /\ boot.at \in Late => \A w \in mach.tree.place : w \in boot.copy \/ Overwritten(w)

LEMMA SameLoads ==
  ASSUME UNCHANGED mach
  PROVE  \A w : Overwritten(w)' = Overwritten(w)
  BY SameMachine DEF Overwritten, InitrdWords

LEMMA TreeStarts == BootInit => TreeKept
  <1> SUFFICES ASSUME BootInit PROVE TreeKept
    OBVIOUS
  <1>1. mach.tree.place \in SUBSET (Words \ Fixed) /\ boot.at = "reset"
    BY BootAssumption DEF BootInit
  <1>2. \A w \in mach.tree.place : ram[w] = <<"dtb", w>>
    BY <1>1 DEF BootInit
  <1> QED
    BY <1>1, <1>2 DEF TreeKept, Late, Running

\* What a step has to say that neither writes memory nor copies the tree.
LEMMA TreeStays ==
  ASSUME TreeKept, UNCHANGED <<mach, ram>>, boot'.copy = boot.copy,
         boot'.at \in Early => boot.at \in Early, boot'.at \in Late => boot.at \in Late
  PROVE  TreeKept'
  BY SameLoads DEF TreeKept

LEMMA TreeSteps == BootInv /\ TreeKept /\ [BootNext]_bvars => TreeKept'
  <1> SUFFICES ASSUME BootInv, TreeKept, [BootNext]_bvars PROVE TreeKept'
    OBVIOUS
  <1>1. mach \in Machines /\ (boot.at # "reset" => boot.mem = MemoryRange)
    BY DEF BootInv, BootTypeOK, LocalsOK
  <1>2. mach.tree.place \in SUBSET (Words \ Fixed)
    BY <1>1, BootAssumption
  <1>3. CASE UNCHANGED bvars
    BY <1>3, TreeStays DEF bvars
  <1>4. CASE Panic \/ ReadFails
    <2>1. boot'.at = "panic" /\ boot'.copy = boot.copy /\ UNCHANGED <<mach, ram>>
      BY <1>4 DEF Panic, ReadFails, BootInv, LocalsOK
    <2> QED
      BY <2>1, TreeStays DEF Early, Late, Running
  <1>5. CASE FindMemory \/ ProbeEnds \/ \E ok \in BOOLEAN : Probe(ok)
    <2>1. boot.at \in Early /\ boot'.at \in {"probe", "select"} /\ boot'.copy = boot.copy
      BY <1>5 DEF FindMemory, ProbeEnds, Probe, BootInv, LocalsOK, Early
    <2>2. UNCHANGED <<mach, ram>>
      BY <1>5 DEF FindMemory, ProbeEnds, Probe
    <2> QED
      BY <2>1, <2>2, TreeStays DEF Early, Late, Running
  <1>6. CASE ReadHeader /\ ~Panic /\ ~ReadFails
    <2>1. boot.at \in Early /\ boot'.at = "load" /\ boot'.copy = boot.copy /\ UNCHANGED <<mach, ram>>
      BY <1>6 DEF ReadHeader, BootInv, LocalsOK, Early
    <2> QED
      BY <2>1, TreeStays DEF Early, Late, Running
  <1>7. CASE LoadSegment /\ ~Panic /\ ~ReadFails
    <2> DEFINE p == Segs[boot.i]
               end == p.paddr + p.memsz
    <2>1. boot.i \in 1..Len(Segs) /\ p \in SegmentType
      BY <1>1, <1>7, MachineTyped DEF LoadSegment, BootInv, LocalsOK
    <2>2. boot.at = "load" /\ boot'.at = "load" /\ UNCHANGED mach
      BY <1>7 DEF LoadSegment, BootInv, LocalsOK
    <2>3. CASE ~p.load /\ boot' = [boot EXCEPT !.i = @ + 1] /\ UNCHANGED <<mach, ram, pool>>
      BY <2>2, <2>3, SameLoads DEF TreeKept, Early, Late, Running
    <2>4. CASE /\ p.load /\ InMemory(p)
               /\ ram' = [w \in Words |-> IF w \in p.paddr..(end - 1) THEN Text(p, w) ELSE ram[w]]
               /\ boot' = [boot EXCEPT !.i = @ + 1, !.kend = IF end > @ THEN end ELSE @]
               /\ UNCHANGED <<mach, pool>>
      <3>1. ASSUME NEW w \in mach.tree.place PROVE ram'[w] = ram[w] \/ Overwritten(w)
        <4>1. boot.i \in Loaded
          BY <2>1, <2>4 DEF Loaded
        <4>2. ram'[w] = ram[w] \/ w \in Segs[boot.i].paddr..(Segs[boot.i].paddr + Segs[boot.i].memsz - 1)
          <5>1. p.paddr \in Nat /\ p.memsz \in Nat
            BY <2>1 DEF SegmentType
          <5>2. ram'[w] = ram[w] \/ w \in p.paddr..(end - 1)
            BY <1>2, <2>4
          <5>3. end - 1 = p.paddr + p.memsz - 1
            BY <5>1
          <5> QED
            BY <5>2, <5>3
        <4> QED
          BY <4>1, <4>2 DEF Overwritten
      <3> QED
        BY <2>2, <3>1, SameLoads DEF TreeKept, Early, Late, Running
    <2> QED
      BY <1>7, <2>1, <2>3, <2>4 DEF LoadSegment, SegmentType
  <1>8. CASE LoadInitrd /\ ~Panic /\ ~ReadFails
    <2>1. boot.at = "load" /\ boot'.at = "enter" /\ UNCHANGED mach
      BY <1>8 DEF LoadInitrd, BootInv, LocalsOK
    <2>2. ASSUME NEW w \in mach.tree.place PROVE ram'[w] = ram[w] \/ Overwritten(w)
      <3> DEFINE n == mach.image.initrd
      <3>1. CASE UNCHANGED ram
        BY <3>1
      <3>2. CASE /\ n > 0
                 /\ ram' = [v \in Words |-> IF v \in InitrdAt..(InitrdAt + n - 1)
                                            THEN <<"initrd", v - InitrdAt>> ELSE ram[v]]
        <4>1. InitrdWords(MemoryRange[1] + MemoryRange[2]) = InitrdAt..(InitrdAt + n - 1)
          BY <1>1, <2>1 DEF InitrdWords, InitrdAt, MemEnd
        <4>2. CASE w \in InitrdAt..(InitrdAt + n - 1)
          BY <3>2, <4>1, <4>2 DEF Overwritten
        <4>3. CASE w \notin InitrdAt..(InitrdAt + n - 1)
          BY <1>2, <3>2, <4>3
        <4> QED
          BY <4>2, <4>3
      <3> QED
        BY <1>1, <1>8, <3>1, <3>2, MachineOK DEF LoadInitrd
    <2> QED
      BY <2>1, <2>2, SameLoads DEF TreeKept, Early, Late, Running
  <1>9. CASE EnterKernel /\ ~Panic
    <2> DEFINE kept == {w \in mach.tree.place : ram[w] = <<"dtb", w>>}
    <2>1. boot.at = "enter" /\ boot' = [boot EXCEPT !.at = "kinit", !.copy = kept] /\ UNCHANGED mach
      BY <1>9 DEF EnterKernel
    <2> HIDE DEF kept
    <2>2. boot'.at = "kinit" /\ boot'.copy = kept
      BY <2>1 DEF BootInv, LocalsOK
    <2>3. \A w \in mach.tree.place : w \in kept \/ Overwritten(w)
      BY <2>1 DEF TreeKept, kept, Early
    <2> QED
      BY <2>1, <2>2, <2>3, SameLoads DEF TreeKept, Early
  <1>10. CASE kinit \/ (blk_init /\ ~Panic) \/ fat32_init \/ StartShell \/ NoRoot
    <2>1. boot.at \in Late
      BY <1>10 DEF kinit, blk_init, fat32_init, StartShell, NoRoot, Late, Running
    <2>2. boot'.at \notin Early /\ boot'.copy = boot.copy
      <3>1. CASE kinit \/ fat32_init \/ StartShell \/ NoRoot
        BY <3>1 DEF kinit, fat32_init, StartShell, NoRoot, BootInv, LocalsOK, Early
      <3>2. CASE blk_init /\ ~Panic
        <4>1. PICK r : boot' = [boot EXCEPT !.at = "noroot"] \/ boot' = [boot EXCEPT !.at = "mount", !.root = r]
          BY <3>2 DEF blk_init
        <4> QED
          BY <4>1 DEF BootInv, LocalsOK, Early
      <3> QED
        BY <1>10, <3>1, <3>2
    <2>3. UNCHANGED mach
      BY <1>10 DEF kinit, blk_init, fat32_init, StartShell, NoRoot
    <2> QED
      BY <2>1, <2>2, <2>3, SameLoads DEF TreeKept
  <1> QED
    BY <1>3, <1>4, <1>5, <1>6, <1>7, <1>8, <1>9, <1>10 DEF BootNext

LEMMA TreeKeptHolds == BootSpec => [](BootInv /\ TreeKept)
  BY BootStarts, BootSteps, TreeStarts, TreeSteps, PTL DEF BootSpec

\* Wherever the segments of the kernel lie, whatever the device tree says,
\* wherever it lies and whatever is in the slots: when the kernel runs, every word
\* of it is as in the image, the firmware is as it was, the initrd is whole until
\* kinit, and of the device tree the kernel has every word nothing was loaded over.
THEOREM ImageCorrect == BootSpec => []ImageWhole
  <1>1. BootInv /\ TreeKept => ImageWhole
    <2> SUFFICES ASSUME BootInv, TreeKept PROVE ImageWhole
      OBVIOUS
    <2>1. mach \in Machines /\ (boot.at # "reset" => boot.mem = MemoryRange)
      BY DEF BootInv, BootTypeOK, LocalsOK
    <2>2. KernelWhole
      <3> SUFFICES ASSUME boot.at \in Running PROVE KernelWhole
        BY DEF KernelWhole
      <3>1. InPlace = Loaded /\ boot.at # "reset"
        BY DEF InPlace, Running
      <3>2. \A w \in Fixed : ram[w] = <<"fw">>
        BY DEF BootInv
      <3> QED
        <4>1. ASSUME NEW k \in Loaded, NEW w \in Segs[k].paddr..(SegEnd(k) - 1)
              PROVE  w \in Words /\ ram[w] = Text(Segs[k], w)
          BY <3>1, AboveAll DEF BootInv
        <4>2. \A k \in Loaded : \A w \in Segs[k].paddr..(Segs[k].paddr + Segs[k].memsz - 1) :
                w \in Words /\ ram[w] = Text(Segs[k], w)
          <5> SUFFICES ASSUME NEW k \in Loaded, NEW w \in Segs[k].paddr..(Segs[k].paddr + Segs[k].memsz - 1)
                       PROVE  w \in Words /\ ram[w] = Text(Segs[k], w)
            OBVIOUS
          <5>1. w \in Segs[k].paddr..(SegEnd(k) - 1)
            BY <2>1, MachineTyped DEF SegEnd
          <5> QED
            BY <4>1, <5>1, Zenon
        <4> QED
          BY <3>2, <4>2, Zenon DEF KernelWhole
    <2>3. InitrdWhole
      <3> SUFFICES ASSUME boot.at \in {"enter", "kinit"}, mach.image.initrd > 0,
                          NEW k \in 0..(mach.image.initrd - 1)
                   PROVE  boot.initrd + k < MemEnd /\ ram[boot.initrd + k] = <<"initrd", k>>
        BY DEF InitrdWhole
      <3>1. mach.image.initrd \in Nat /\ boot.initrd \in Nat /\ MemEnd \in Nat
        <4>1. boot.mem = MemoryRange /\ boot.initrd \in Nat
          BY <2>1 DEF BootInv, LocalsOK
        <4>2. MemoryRange[1] \in Nat /\ MemoryRange[2] \in Nat
          BY <2>1, MachineTyped
        <4>3. mach.image.initrd \in Nat
          BY <2>1, MachineOK
        <4> QED
          BY <4>1, <4>2, <4>3 DEF MemEnd
      <3> QED
        BY <3>1 DEF BootInv
    <2>4. TreeCopied
      BY DEF TreeKept, TreeCopied, Late
    <2> QED
      BY <2>2, <2>3, <2>4 DEF BootInv, ImageWhole
  <1> QED
    BY <1>1, TreeKeptHolds, PTL

-----------------------------------------------------------------------------
(* Part four: the heap of a program.                                       *)
(*                                                                         *)
(* Headers on the list are those with a next; going round from one of them *)
(* the next is the first that is met.  Dist measures the way round, and    *)
(* both searches bring their goal nearer with every turn.  The blocks on   *)
(* the list and those handed out tile the heap.                            *)

\* Induction up to n, for the numbers of a set P.
LEMMA InductionUpTo ==
  ASSUME NEW n \in Nat, NEW P \in SUBSET Nat, 0 \in P, \A i \in 0 .. n - 1 : i \in P => i + 1 \in P
  PROVE  \A i \in 0 .. n : i \in P
  <1> SUFFICES ASSUME NEW b \in 0 .. n, b \notin P PROVE FALSE
    OBVIOUS
  <1> DEFINE S == {i \in 0 .. n : i \notin P}
  <1>1. S \in SUBSET Nat /\ S # {}
    OBVIOUS
  <1>2. PICK i \in S : \A j \in S : i <= j
    <2> HIDE DEF S
    <2> QED
      BY <1>1, LeastNat
  <1>3. i # 0 /\ i - 1 \in 0 .. n - 1 /\ i - 1 \in 0 .. n /\ (i - 1) + 1 = i
    BY <1>2
  <1>4. i - 1 \in P
    BY <1>2, <1>3
  <1> QED
    BY <1>2, <1>3, <1>4

\* f starts with c, and G makes the next value of a step and the value before.
Follows(f, S, G, c, n) ==
  f \in [0 .. n -> S] /\ f[0] = c /\ \A i \in 1 .. n : f[i] = G[<<i, f[i - 1]>>]

LEMMA Iterate ==
  ASSUME NEW S, NEW n \in Nat, NEW G \in [(1 .. n) \X S -> S], NEW c \in S
  PROVE  \E f : Follows(f, S, G, c, n)
  <1> DEFINE Sol(f, m) == /\ f \in [0 .. m -> S] /\ f[0] = c
                          /\ \A i \in 1 .. m : f[i] = G[<<i, f[i - 1]>>]
             P == {m \in Nat : \E f : Sol(f, m)}
  <1>1. 0 \in P
    <2>1. Sol([i \in 0 .. 0 |-> c], 0)
      OBVIOUS
    <2> HIDE DEF Sol
    <2> QED
      BY <2>1
  <1>2. ASSUME NEW m \in 0 .. n - 1, m \in P PROVE m + 1 \in P
    <2>1. PICK f : Sol(f, m)
      BY <1>2
    <2> DEFINE g == [i \in 0 .. m + 1 |-> IF i = m + 1 THEN G[<<m + 1, f[m]>>] ELSE f[i]]
    <2>2. \A i \in 0 .. m : i \in 0 .. m + 1 /\ g[i] = f[i] /\ f[i] \in S
      BY <2>1
    <2>3. g[m + 1] = G[<<m + 1, f[m]>>] /\ G[<<m + 1, f[m]>>] \in S
      <3>1. m \in 0 .. m /\ m + 1 \in 1 .. n /\ m + 1 \in 0 .. m + 1
        OBVIOUS
      <3>2. f[m] \in S
        BY <2>2, <3>1
      <3>3. <<m + 1, f[m]>> \in (1 .. n) \X S
        BY <3>1, <3>2
      <3> QED
        BY <3>1, <3>3
    <2>4. g \in [0 .. m + 1 -> S]
      <3>1. \A i \in 0 .. m + 1 : i = m + 1 \/ i \in 0 .. m
        OBVIOUS
      <3>2. \A i \in 0 .. m + 1 : g[i] \in S
        BY <2>2, <2>3, <3>1
      <3> HIDE DEF g
      <3>3. g = [i \in 0 .. m + 1 |-> g[i]]
        BY DEF g
      <3> QED
        BY <3>2, <3>3
    <2>5. g[0] = c
      BY <2>1, <2>2
    <2>6. ASSUME NEW i \in 1 .. m + 1 PROVE g[i] = G[<<i, g[i - 1]>>]
      <3>1. i - 1 \in 0 .. m /\ g[i - 1] = f[i - 1]
        BY <2>2
      <3>2. CASE i = m + 1
        <4>1. i - 1 = m
          BY <3>2
        <4> QED
          BY <2>3, <3>1, <3>2, <4>1
      <3>3. CASE i # m + 1
        <4>1. i \in 1 .. m /\ i \in 0 .. m
          BY <3>3
        <4> QED
          BY <2>1, <2>2, <3>1, <4>1
      <3> QED
        BY <3>2, <3>3
    <2>7. Sol(g, m + 1)
      BY <2>4, <2>5, <2>6
    <2> HIDE DEF Sol
    <2> QED
      BY <2>7
  <1>3. n \in P
    <2>0. P \in SUBSET Nat /\ n \in 0 .. n
      OBVIOUS
    <2> HIDE DEF P
    <2> QED
      BY <1>1, <1>2, <2>0, InductionUpTo
  <1>4. PICK f : Sol(f, n)
    BY <1>3
  <1> QED
    BY <1>4 DEF Follows

-----------------------------------------------------------------------------
(* The inductive invariant *)

Heaps == [next : [Addrs -> Addrs \cup {Nil}], size : [Addrs -> Nat], freep : Addrs \cup {Nil},
          brk : HeapStart .. HeapEnd, stuck : BOOLEAN]

\* The headers on the list are those that have a next.
On(h) == {a \in Addrs : h.next[a] # Nil}

\* Going round from a, b is the first address of L.
Succ(L, a, b) == \/ a < b /\ \A c \in L : c <= a \/ b <= c
                 \/ b = Base /\ \A c \in L : c <= a
Ring(h) == /\ Base \in On(h) /\ h.freep \in On(h)
           /\ \A a \in On(h) : h.next[a] \in On(h) /\ Succ(On(h), a, h.next[a])

\* The blocks of B lie one behind the other and fill the heap.
Tiles(h, B) ==
  /\ B \subseteq HeapStart .. h.brk - 1
  /\ \A a \in B : h.size[a] > 0 /\ a + h.size[a] <= h.brk
  /\ \A a, b \in B : a < b => a + h.size[a] <= b
  /\ \A u \in HeapStart .. h.brk - 1 : \E a \in B : a <= u /\ u < a + h.size[a]

Blocks(h) == On(h) \ {Base}
Merged(h) == \A a \in Blocks(h) : a + h.size[a] # h.next[a]

\* A heap whose blocks are those on the list and those of G.
Whole(h, G) == /\ h \in Heaps /\ ~h.stuck /\ h.size[Base] = 0
               /\ Ring(h) /\ G \cap On(h) = {} /\ Tiles(h, G \cup Blocks(h))
HeapOK(h, G) == Whole(h, G) /\ Merged(h)

\* Before the first call.
Unused == /\ next = [a \in Addrs |-> Nil] /\ size = [a \in Addrs |-> 0]
          /\ freep = Nil /\ brk = HeapStart /\ given = {} /\ stuck = FALSE

MallocInv == Unused \/ HeapOK(Heap, given)

-----------------------------------------------------------------------------
(* Going round the list *)

\* The way from a to b, upwards and from the end of the heap back to Base.
Dist(a, b) == IF a <= b THEN b - a ELSE HeapEnd - a + b

LEMMA Bounds == /\ HeapEnd \in Nat /\ HeapEnd > 1 /\ Base = 0 /\ HeapStart = 2 /\ Nil = HeapEnd + 1
                /\ Addrs = 0 .. HeapEnd /\ NALLOC \in Nat /\ NALLOC > 0
  BY MallocAssumption DEF Base, HeapStart, Nil, Addrs

LEMMA DistIs ==
  ASSUME NEW a \in 0 .. HeapEnd - 1, NEW b \in 0 .. HeapEnd - 1
  PROVE  Dist(a, b) \in 0 .. HeapEnd - 1 /\ (Dist(a, b) = 0 <=> a = b)
  BY Bounds DEF Dist

\* A step brings every address of the list nearer, except the one it leaves.
LEMMA Nearer ==
  ASSUME NEW L \in SUBSET (0 .. HeapEnd - 1), NEW a \in L, NEW b \in L, NEW y \in L,
         Succ(L, a, b), y # a
  PROVE  Dist(a, b) \in Nat /\ Dist(a, b) >= 1 /\ Dist(b, y) = Dist(a, y) - Dist(a, b)
  BY Bounds DEF Dist, Succ

\* From behind f the list ends at f.
LEMMA Furthest ==
  ASSUME NEW L \in SUBSET (0 .. HeapEnd - 1), NEW f \in L, NEW n \in L, NEW y \in L, Succ(L, f, n)
  PROVE  Dist(n, y) <= Dist(n, f)
  BY Bounds DEF Dist, Succ

\* Every address of the list is the next of another.
LEMMA Before ==
  ASSUME NEW L \in SUBSET (0 .. HeapEnd - 1), Base \in L, NEW x \in L
  PROVE  \E q \in L : /\ \A n \in L : Succ(L, q, n) => n = x
                      /\ Succ(L, q, x)
  <1>1. \A a \in L : a \in Nat /\ a >= Base /\ a <= HeapEnd - 1
    BY Bounds
  <1>2. CASE x = Base
    <2>1. PICK q \in L : \A c \in L : c <= q
      <3>1. HeapEnd - 1 \in Nat
        BY Bounds
      <3> QED
        BY <3>1, Largest
    <2>2. Succ(L, q, x)
      BY <1>2, <2>1 DEF Succ
    <2>3. ASSUME NEW n \in L, Succ(L, q, n) PROVE n = x
      BY <1>1, <1>2, <2>1, <2>3 DEF Succ
    <2> QED
      BY <2>2, <2>3
  <1>3. CASE x # Base
    <2> DEFINE B == {a \in L : a < x}
    <2>1. B \in SUBSET (0 .. HeapEnd - 1) /\ Base \in B /\ HeapEnd - 1 \in Nat
      <3>1. Base < x /\ HeapEnd - 1 \in Nat
        BY <1>1, <1>3, Bounds
      <3> QED
        BY <3>1
    <2>2. PICK q \in B : \A c \in B : c <= q
      <3> HIDE DEF B
      <3> QED
        BY <2>1, Largest
    <2>3. q \in L /\ q < x /\ \A c \in L : c <= q \/ x <= c
      BY <1>1, <2>2
    <2>4. Succ(L, q, x)
      BY <2>3 DEF Succ
    <2>5. ASSUME NEW n \in L, Succ(L, q, n) PROVE n = x
      BY <1>1, <2>3, <2>5 DEF Succ
    <2> QED
      BY <2>3, <2>4, <2>5
  <1> QED
    BY <1>2, <1>3

\* Where the headers of a heap can be.
LEMMA Headers ==
  ASSUME NEW h, NEW G, Whole(h, G)
  PROVE  /\ On(h) \in SUBSET (0 .. HeapEnd - 1) /\ G \in SUBSET (HeapStart .. HeapEnd - 1)
         /\ \A a \in On(h) : a # Base => a >= HeapStart /\ a \in G \cup Blocks(h)
         /\ h.next \in [Addrs -> Addrs \cup {Nil}] /\ h.size \in [Addrs -> Nat]
         /\ h.brk \in HeapStart .. HeapEnd /\ h.freep \in On(h) /\ Base \in On(h)
         /\ \A a \in On(h) : h.next[a] \in On(h) /\ h.next[a] # Nil /\ Succ(On(h), a, h.next[a])
  <1>1. /\ h.next \in [Addrs -> Addrs \cup {Nil}] /\ h.size \in [Addrs -> Nat]
        /\ h.brk \in HeapStart .. HeapEnd
    BY DEF Whole, Heaps
  <1>2. /\ h.freep \in On(h) /\ Base \in On(h)
        /\ \A a \in On(h) : h.next[a] \in On(h) /\ h.next[a] # Nil /\ Succ(On(h), a, h.next[a])
    BY DEF Whole, Ring, On
  <1>3. \A a \in G \cup Blocks(h) : a \in HeapStart .. HeapEnd - 1
    <2>1. G \cup Blocks(h) \subseteq HeapStart .. h.brk - 1
      BY DEF Whole, Tiles
    <2> QED
      BY <1>1, <2>1, Bounds
  <1>4. \A a \in On(h) : a = Base \/ a \in Blocks(h)
    BY DEF Blocks
  <1>5. On(h) \in SUBSET (0 .. HeapEnd - 1)
    <2>1. ASSUME NEW a \in On(h) PROVE a \in 0 .. HeapEnd - 1
      BY <1>3, <1>4, Bounds
    <2> QED
      BY <2>1
  <1>6. \A a \in On(h) : a # Base => a >= HeapStart /\ a \in G \cup Blocks(h)
    BY <1>3, <1>4, Bounds
  <1>7. G \in SUBSET (HeapStart .. HeapEnd - 1)
    BY <1>3
  <1> QED
    BY <1>1, <1>2, <1>5, <1>6, <1>7

\* q is the last address of L below a.
Under(L, q, a) == q \in L /\ q < a /\ \A c \in L : c <= q \/ a < c

LEMMA FitsIs ==
  ASSUME NEW h, NEW G, Whole(h, G), NEW bp \in HeapStart .. HeapEnd, bp \notin On(h),
         NEW q \in On(h)
  PROVE  Fits(h, q, bp) <=> Under(On(h), q, bp)
  <1> DEFINE L == On(h)
             n == h.next[q]
  <1>1. /\ q \in L /\ n \in L /\ Succ(L, q, n) /\ q \in 0 .. HeapEnd - 1 /\ n \in 0 .. HeapEnd - 1
        /\ \A c \in L : c \in 0 .. HeapEnd - 1 /\ c # bp
    BY Headers
  <1>2. Fits(h, q, bp) <=> (bp > q /\ bp < n) \/ (q >= n /\ (bp > q \/ bp < n))
    BY DEF Fits
  <1> HIDE DEF L, n
  <1>3. (bp > q /\ bp < n) \/ (q >= n /\ (bp > q \/ bp < n)) <=> Under(L, q, bp)
    <2>1. q \in Nat /\ n \in Nat /\ bp \in Nat /\ bp > 0
      BY <1>1, Bounds
    <2>2. \A c \in L : c \in Nat /\ c # bp
      BY <1>1, Bounds
    <2>3. CASE q < n /\ \A c \in L : c <= q \/ n <= c
      <3>1. ASSUME Under(L, q, bp) PROVE bp > q /\ bp < n
        <4>1. q < bp /\ (n <= q \/ bp < n)
          BY <1>1, <3>1 DEF Under
        <4> QED
          BY <2>1, <2>3, <4>1
      <3>2. ASSUME bp > q, bp < n PROVE Under(L, q, bp)
        <4>1. ASSUME NEW c \in L PROVE c <= q \/ bp < c
          <5>1. c \in Nat /\ (c <= q \/ n <= c)
            BY <2>2, <2>3
          <5> QED
            BY <2>1, <3>2, <5>1
        <4> QED
          BY <1>1, <2>1, <3>2, <4>1 DEF Under
      <3>3. ~(q >= n)
        BY <2>1, <2>3
      <3> QED
        BY <3>1, <3>2, <3>3
    <2>4. CASE n = Base /\ \A c \in L : c <= q
      <3>1. n = 0 /\ q >= n
        BY <2>1, <2>4, Bounds
      <3>2. Under(L, q, bp) <=> bp > q
        <4>1. ASSUME bp > q PROVE Under(L, q, bp)
          BY <1>1, <2>1, <2>4, <4>1 DEF Under
        <4>2. ASSUME Under(L, q, bp) PROVE bp > q
          BY <2>1, <4>2 DEF Under
        <4> QED
          BY <4>1, <4>2
      <3> QED
        BY <2>1, <3>1, <3>2
    <2> QED
      BY <1>1, <2>3, <2>4 DEF Succ
  <1> QED
    BY <1>2, <1>3 DEF L

\* The place for a header that is not on the list.
LEMMA UnderIs ==
  ASSUME NEW h, NEW G, Whole(h, G), NEW bp \in HeapStart .. HeapEnd, bp \notin On(h)
  PROVE  \E p \in On(h) : Under(On(h), p, bp) /\ \A q \in On(h) : Under(On(h), q, bp) => q = p
  <1> DEFINE B == {a \in On(h) : a < bp}
  <1>1. \A a \in On(h) : a \in 0 .. HeapEnd - 1 /\ a # bp
    BY Headers
  <1>2. B \in SUBSET (0 .. HeapEnd - 1) /\ Base \in B /\ HeapEnd - 1 \in Nat
    <2>1. Base < bp /\ HeapEnd - 1 \in Nat
      BY Bounds
    <2> QED
      BY <1>1, <2>1, Headers
  <1>3. PICK p \in B : \A c \in B : c <= p
    <2> HIDE DEF B
    <2> QED
      BY <1>2, Largest
  <1>4. Under(On(h), p, bp)
    BY <1>1, <1>3, Bounds DEF Under
  <1>5. ASSUME NEW q \in On(h), Under(On(h), q, bp) PROVE q = p
    BY <1>1, <1>4, <1>5 DEF Under
  <1> QED
    BY <1>3, <1>4, <1>5

\* The search of free ends, wherever it starts, at the one place that fits.
LEMMA PlaceIs ==
  ASSUME NEW h, NEW G, Whole(h, G), NEW bp \in HeapStart .. HeapEnd, bp \notin On(h)
  PROVE  Place(h, bp) \in On(h) /\ Under(On(h), Place(h, bp), bp)
  <1> DEFINE S == On(h)
             n == HeapEnd + 1
             c == h.freep
             step(q) == IF Fits(h, q, bp) THEN q ELSE h.next[q]
             G1 == [x \in (1 .. n) \X S |-> step(x[2])]
             Rec(g) == [i \in 0 .. HeapEnd + 1 |->
                          IF i = 0 THEN h.freep
                          ELSE LET q == g[i - 1] IN IF Fits(h, q, bp) THEN q ELSE h.next[q]]
             walk == CHOOSE g : g = Rec(g)
  <1>1. Place(h, bp) = IF Fits(h, walk[n], bp) THEN walk[n] ELSE Nil
    BY DEF Place
  <1>2. PICK p \in S : Under(S, p, bp) /\ \A q \in S : Under(S, q, bp) => q = p
    BY UnderIs
  <1>3. c \in S /\ (\A q \in S : step(q) \in S /\ (q # p => step(q) = h.next[q])) /\ step(p) = p
        /\ \A q \in S : Fits(h, q, bp) <=> q = p
    BY <1>2, FitsIs, Headers
  <1>4. n \in Nat /\ \A i \in 1 .. n : i \in 0 .. n /\ i # 0 /\ i - 1 \in 0 .. n
    BY Bounds
  <1>5. G1 \in [(1 .. n) \X S -> S] /\ \A i \in 1 .. n, a \in S : G1[<<i, a>>] = step(a)
    <2> HIDE DEF S, step, n
    <2> QED
      BY <1>3
  <1>6. PICK f : Follows(f, S, G1, c, n)
    <2> HIDE DEF S, G1, c, n
    <2> QED
      BY <1>3, <1>4, <1>5, Iterate
  <1>7. f \in [0 .. n -> S] /\ f[0] = c /\ \A i \in 1 .. n : f[i] = step(f[i - 1])
    <2>1. f \in [0 .. n -> S] /\ f[0] = c /\ \A i \in 1 .. n : f[i] = G1[<<i, f[i - 1]>>]
      <3> HIDE DEF S, G1, c, n
      <3> QED
        BY <1>6 DEF Follows
    <2> HIDE DEF S, G1, step, n, c
    <2> QED
      BY <1>4, <1>5, <2>1
  <1>8. f = Rec(f)
    <2>1. \A i \in 0 .. n : f[i] = IF i = 0 THEN c ELSE step(f[i - 1])
      <3> HIDE DEF S, step, c, n
      <3> QED
        BY <1>4, <1>7
    <2> QED
      BY <1>7, <2>1
  <1>9. walk = Rec(walk)
    <2> HIDE DEF Rec
    <2> QED
      BY <1>8
  <1> HIDE DEF walk
  <1>10. DOMAIN walk = 0 .. n /\ \A i \in 0 .. n : walk[i] = IF i = 0 THEN c ELSE step(walk[i - 1])
    BY <1>9
  \* At each turn the place is reached or nearer.
  <1> DEFINE P == {i \in Nat : i <= n => /\ walk[i] \in S
                                         /\ walk[i] = p \/ Dist(walk[i], p) + i <= HeapEnd}
  <1> HIDE DEF step, c, n, Rec, G1
  <1>11. 0 \in P
    <2>1. walk[0] = c
      BY <1>4, <1>10
    <2>2. Dist(c, p) + 0 <= HeapEnd
      <3>1. c \in 0 .. HeapEnd - 1 /\ p \in 0 .. HeapEnd - 1
        BY <1>2, <1>3, Headers
      <3>2. Dist(c, p) \in 0 .. HeapEnd - 1
        BY <3>1, DistIs
      <3> QED
        BY <3>2, Bounds
    <2> QED
      BY <1>3, <2>1, <2>2
  <1>12. ASSUME NEW i \in 0 .. n - 1, i \in P PROVE i + 1 \in P
    <2>1. i \in Nat /\ i + 1 \in 0 .. n /\ i + 1 # 0 /\ (i + 1) - 1 = i /\ i <= n /\ i + 1 \in Nat
      BY <1>4
    <2>2. walk[i + 1] = step(walk[i]) /\ walk[i] \in S /\ (walk[i] = p \/ Dist(walk[i], p) + i <= HeapEnd)
      BY <1>10, <1>12, <2>1
    <2>3. CASE walk[i] = p
      BY <1>2, <1>3, <2>1, <2>2, <2>3
    <2>4. CASE walk[i] # p
      <3> DEFINE q == walk[i]
                 r == h.next[q]
      <3>1. walk[i + 1] = r /\ r \in S /\ Succ(S, q, r)
        BY <1>3, <2>2, <2>4, Headers
      <3>2. S \in SUBSET (0 .. HeapEnd - 1)
        BY Headers
      <3> HIDE DEF q, r, S
      <3>3. q \in S /\ q # p
        BY <2>2, <2>4 DEF q
      <3>4. Dist(q, r) \in Nat /\ Dist(q, r) >= 1 /\ Dist(r, p) = Dist(q, p) - Dist(q, r)
        BY <1>2, <3>1, <3>2, <3>3, Nearer
      <3>5. Dist(q, p) \in Nat /\ Dist(r, p) \in Nat
        BY <1>2, <3>1, <3>2, <3>3, DistIs
      <3>6. Dist(q, p) + i <= HeapEnd
        BY <2>2, <2>4 DEF q
      <3>7. Dist(r, p) + (i + 1) <= HeapEnd
        BY <2>1, <3>4, <3>5, <3>6, Bounds
      <3> QED
        BY <2>1, <3>1, <3>7
    <2> QED
      BY <2>3, <2>4
  <1>13. n \in P
    <2>1. P \in SUBSET Nat /\ n \in 0 .. n
      BY <1>4
    <2> HIDE DEF P
    <2> QED
      BY <1>4, <1>11, <1>12, <2>1, InductionUpTo
  <1>14. walk[n] = p
    <2>1. walk[n] \in S /\ (walk[n] = p \/ Dist(walk[n], p) + n <= HeapEnd)
      BY <1>4, <1>13
    <2>2. Dist(walk[n], p) \in Nat
      BY <1>2, <2>1, DistIs, Headers
    <2> QED
      BY <2>1, <2>2, Bounds DEF n
  <1> QED
    BY <1>1, <1>2, <1>3, <1>14

-----------------------------------------------------------------------------
(* What free does to the list *)

LEMMA TilesAre ==
  ASSUME NEW h, NEW G, Whole(h, G)
  PROVE  /\ \A a \in G \cup Blocks(h) : /\ a \in HeapStart .. HeapEnd - 1 /\ h.size[a] \in Nat \ {0}
                                        /\ a + h.size[a] <= h.brk
         /\ \A a, b \in G \cup Blocks(h) : a < b => a + h.size[a] <= b
         /\ \A u \in HeapStart .. h.brk - 1 : \E a \in G \cup Blocks(h) : a <= u /\ u < a + h.size[a]
         /\ G \cap On(h) = {} /\ Base \notin G
  <1>1. Tiles(h, G \cup Blocks(h)) /\ G \cap On(h) = {} /\ h.size \in [Addrs -> Nat] /\ h.brk \in HeapStart .. HeapEnd
    BY DEF Whole, Heaps
  <1>2. ASSUME NEW a \in G \cup Blocks(h)
        PROVE  a \in HeapStart .. HeapEnd - 1 /\ h.size[a] \in Nat \ {0} /\ a + h.size[a] <= h.brk
    <2>1. a \in HeapStart .. h.brk - 1 /\ h.size[a] > 0 /\ a + h.size[a] <= h.brk
      BY <1>1 DEF Tiles
    <2>2. a \in HeapStart .. HeapEnd - 1 /\ a \in Addrs
      BY <1>1, <2>1, Bounds
    <2> QED
      BY <1>1, <2>1, <2>2
  <1>3. Base \notin G
    BY <1>2, Bounds
  <1> QED
    BY <1>1, <1>2, <1>3 DEF Tiles

\* What a change makes of pointers and sizes: bp is put on the list behind p; a
\* takes in b; b becomes the next of a.
Inserted(h, k, p, bp) == k.next = [h.next EXCEPT ![bp] = h.next[p], ![p] = bp] /\ k.size = h.size
Absorbed(h, k, a, b) == /\ k.next = [h.next EXCEPT ![a] = h.next[b], ![b] = Nil]
                        /\ k.size = [h.size EXCEPT ![a] = @ + h.size[b], ![b] = 0]
Behind(h, k, a, b) == k.next = [h.next EXCEPT ![a] = b] /\ k.size = h.size

\* What that makes of the list of h: bp follows p, and the rest is as it was.
Longer(h, k, p, bp) == /\ On(k) = On(h) \cup {bp}
                       /\ k.next[bp] = h.next[p] /\ k.next[p] = bp
                       /\ \A a \in On(h) \ {p} : k.next[a] = h.next[a]

\* The block bp is put on the list behind p.
LEMMA InsertIs ==
  ASSUME NEW h, NEW G, Whole(h, G), NEW bp \in G, NEW p \in On(h), Under(On(h), p, bp),
         NEW k \in Heaps, Inserted(h, k, p, bp), k.brk = h.brk, ~k.stuck, k.freep \in On(h)
  PROVE  Whole(k, G \ {bp}) /\ Longer(h, k, p, bp)
  <1> DEFINE L == On(h)
             r == h.next[p]
  <1>1. /\ L \in SUBSET (0 .. HeapEnd - 1) /\ Base \in L /\ p \in L /\ r \in L
        /\ \A a \in L : h.next[a] \in L /\ h.next[a] # Nil /\ Succ(L, a, h.next[a])
        /\ h.next \in [Addrs -> Addrs \cup {Nil}]
    BY Headers
  <1>2. bp \in HeapStart .. HeapEnd - 1 /\ bp \notin L /\ bp # Base
    BY TilesAre, Bounds
  <1>3. /\ \A a \in L : a \in Nat /\ a \in Addrs /\ a # bp
        /\ bp \in Nat /\ bp \in Addrs /\ bp # Nil /\ Nil \notin Addrs
    BY <1>1, <1>2, Bounds
  <1>4. /\ k.next[bp] = r /\ k.next[p] = bp
        /\ \A a \in Addrs \ {p, bp} : k.next[a] = h.next[a]
    BY <1>1, <1>3 DEF Inserted
  <1>5. On(k) = L \cup {bp}
    <2>1. ASSUME NEW a \in Addrs PROVE k.next[a] # Nil <=> a \in L \/ a = bp
      BY <1>1, <1>3, <1>4, <2>1 DEF On
    <2> QED
      BY <1>3, <2>1 DEF On
  <1>6. ASSUME NEW a \in On(k) PROVE k.next[a] \in On(k) /\ Succ(On(k), a, k.next[a])
    <2> HIDE DEF L, r
    <2>1. p < bp /\ \A c \in L : c <= p \/ bp < c
      BY DEF Under, L
    <2>2. CASE a = p
      BY <1>3, <1>4, <1>5, <2>1, <2>2 DEF Succ
    <2>3. CASE a = bp
      <3>1. CASE p < r /\ \A c \in L : c <= p \/ r <= c
        <4>1. bp < r
          <5>1. r \in Nat /\ p \in Nat /\ bp \in Nat /\ p < r
            BY <1>1, <1>3, <3>1
          <5>2. r <= p \/ bp < r
            BY <1>1, <2>1
          <5> QED
            BY <5>1, <5>2
        <4>2. \A c \in L \cup {bp} : c <= bp \/ r <= c
          <5>1. ASSUME NEW c \in L PROVE c <= bp \/ r <= c
            <6>1. c \in Nat /\ p \in Nat /\ bp \in Nat /\ p < bp
              <7>1. p \in Nat /\ bp \in Nat
                BY <1>1, <1>3
              <7>2. c \in Nat
                BY <1>3, <5>1
              <7> QED
                BY <7>1, <7>2, <2>1, Zenon
            <6>2. c <= p \/ r <= c
              BY <3>1
            <6> QED
              BY <6>1, <6>2
          <5> QED
            BY <5>1, <1>3
        <4> QED
          BY <1>1, <1>4, <1>5, <2>3, <4>1, <4>2 DEF Succ
      <3>2. CASE r = Base /\ \A c \in L : c <= p
        <4>1. \A c \in L \cup {bp} : c <= bp
          BY <1>1, <1>3, <2>1, <3>2
        <4> QED
          BY <1>1, <1>4, <1>5, <2>3, <3>2, <4>1 DEF Succ
      <3>3. Succ(L, p, r)
        BY <1>1 DEF r
      <3> QED
        BY <3>1, <3>2, <3>3 DEF Succ
    <2>4. CASE a # p /\ a # bp
      <3> DEFINE n == h.next[a]
      <3>1. a \in L /\ k.next[a] = n /\ n \in L /\ Succ(L, a, n)
        BY <1>1, <1>3, <1>4, <1>5, <2>4
      <3> HIDE DEF n
      <3>2. CASE a < n /\ \A c \in L : c <= a \/ n <= c
        <4>1. bp <= a \/ n <= bp
          <5>1. a \in Nat /\ n \in Nat /\ p \in Nat /\ bp \in Nat
            BY <1>1, <1>3, <3>1
          <5>2. (a <= p \/ bp < a) /\ (p <= a \/ n <= p) /\ p < bp /\ a # p
            BY <1>1, <2>1, <2>4, <3>1, <3>2
          <5> QED
            BY <5>1, <5>2
        <4> QED
          BY <1>5, <3>1, <3>2, <4>1 DEF Succ
      <3>3. CASE n = Base /\ \A c \in L : c <= a
        <4>1. bp <= a
          <5>1. a \in Nat /\ p \in Nat /\ bp \in Nat
            BY <1>1, <1>3, <3>1
          <5>2. (a <= p \/ bp < a) /\ p <= a /\ a # p
            BY <1>1, <2>1, <2>4, <3>1, <3>3
          <5> QED
            BY <5>1, <5>2
        <4> QED
          BY <1>5, <3>1, <3>3, <4>1 DEF Succ
      <3> QED
        BY <3>1, <3>2, <3>3 DEF Succ
    <2> QED
      BY <2>2, <2>3, <2>4
  <1>7. Ring(k)
    BY <1>1, <1>5, <1>6 DEF Ring
  <1>8. (G \ {bp}) \cup Blocks(k) = G \cup Blocks(h)
    BY <1>2, <1>5 DEF Blocks
  <1>9. Tiles(k, (G \ {bp}) \cup Blocks(k))
    BY <1>8 DEF Whole, Tiles, Inserted
  <1>10. (G \ {bp}) \cap On(k) = {} /\ k.size[Base] = 0
    BY <1>5 DEF Whole, Inserted
  <1>11. Whole(k, G \ {bp})
    BY <1>7, <1>9, <1>10 DEF Whole
  <1> QED
    BY <1>3, <1>4, <1>5, <1>11 DEF Longer

\* The block b, which follows a, is taken off the list.
Unlinked(h, k, a, b) == k.next = [h.next EXCEPT ![a] = h.next[b], ![b] = Nil]
Shorter(h, k, a, b) == /\ Ring(k) /\ On(k) = On(h) \ {b} /\ k.next[a] = h.next[b]
                       /\ \A c \in On(k) \ {a} : k.next[c] = h.next[c] /\ k.next[c] # b

LEMMA UnlinkIs ==
  ASSUME NEW h, NEW G, Whole(h, G), NEW a \in On(h), NEW b \in Blocks(h), b = h.next[a],
         NEW k, Unlinked(h, k, a, b), k.freep \in On(h) \ {b}
  PROVE  Shorter(h, k, a, b) /\ a < b
  <1> DEFINE L == On(h)
             n == h.next[b]
  <1>1. /\ L \in SUBSET (0 .. HeapEnd - 1) /\ Base \in L /\ a \in L /\ b \in L /\ n \in L /\ n # Nil /\ b # Base
        /\ \A c \in L : h.next[c] \in L /\ h.next[c] # Nil /\ Succ(L, c, h.next[c])
        /\ h.next \in [Addrs -> Addrs \cup {Nil}]
    BY Headers DEF Blocks
  <1>2. a \in Nat /\ b \in Nat /\ a < b
    BY <1>1, Bounds DEF Succ
  <1>3. (\A c \in L : c \in Nat /\ c \in Addrs /\ c >= Base) /\ a \in Addrs /\ b \in Addrs
    BY <1>1, Bounds
  <1>4. /\ k.next[a] = n /\ k.next[b] = Nil
        /\ \A c \in Addrs \ {a, b} : k.next[c] = h.next[c]
    BY <1>1, <1>2, <1>3 DEF Unlinked
  <1>5. On(k) = L \ {b}
    <2>1. ASSUME NEW c \in Addrs PROVE k.next[c] # Nil <=> c \in L /\ c # b
      BY <1>1, <1>2, <1>3, <1>4, <2>1 DEF On
    <2> QED
      BY <1>3, <2>1 DEF On
  <1> HIDE DEF L, n
  <1>6. a < b /\ \A c \in L : c <= a \/ b <= c
    BY <1>1, <1>2 DEF Succ
  <1>7. Succ(L, b, n) /\ n # b
    BY <1>1, <1>2 DEF Succ, n
  <1>8. Succ(L \ {b}, a, n)
    <2>1. CASE b < n /\ \A c \in L : c <= b \/ n <= c
      <3>1. a < n
        BY <1>1, <1>2, <1>3, <2>1
      <3>2. ASSUME NEW c \in L \ {b} PROVE c <= a \/ n <= c
        <4>1. c \in Nat /\ c # b /\ (c <= b \/ n <= c) /\ (c <= a \/ b <= c)
          BY <1>3, <1>6, <2>1
        <4> QED
          BY <1>2, <4>1
      <3> QED
        BY <3>1, <3>2 DEF Succ
    <2>2. CASE n = Base /\ \A c \in L : c <= b
      <3>1. ASSUME NEW c \in L \ {b} PROVE c <= a
        <4>1. c \in Nat /\ c # b /\ c <= b /\ (c <= a \/ b <= c)
          BY <1>3, <1>6, <2>2
        <4> QED
          BY <1>2, <4>1
      <3> QED
        BY <2>2, <3>1 DEF Succ
    <2> QED
      BY <1>7, <2>1, <2>2 DEF Succ
  <1>9. ASSUME NEW c \in L \ {a, b} PROVE h.next[c] \in L \ {b} /\ Succ(L \ {b}, c, h.next[c])
    <2>1. h.next[c] \in L /\ Succ(L, c, h.next[c])
      BY <1>1
    <2>2. h.next[c] # b
      <3>1. ASSUME h.next[c] = b PROVE FALSE
        <4>1. c < b /\ (a <= c \/ b <= a) /\ (c <= a \/ b <= c) /\ c \in Nat
          BY <1>1, <1>2, <1>3, <1>6, <2>1, <3>1 DEF Succ
        <4> QED
          BY <1>2, <4>1
      <3> QED
        BY <3>1
    <2> QED
      BY <2>1, <2>2 DEF Succ
  <1>10. Ring(k)
    <2>1. ASSUME NEW c \in On(k) PROVE k.next[c] \in On(k) /\ Succ(On(k), c, k.next[c])
      <3>1. CASE c = a
        BY <1>1, <1>4, <1>5, <1>7, <1>8, <3>1
      <3>2. CASE c # a
        <4>1. c \in L \ {a, b} /\ c \in Addrs
          BY <1>3, <1>5, <3>2
        <4> QED
          BY <1>4, <1>5, <1>9, <4>1
      <3> QED
        BY <3>1, <3>2
    <2> QED
      BY <1>1, <1>2, <1>5, <2>1 DEF Ring, L
  <1>11. ASSUME NEW c \in On(k) \ {a} PROVE k.next[c] = h.next[c] /\ k.next[c] # b
    <2>1. c \in L \ {a, b} /\ c \in Addrs
      BY <1>3, <1>5
    <2> QED
      BY <1>4, <1>9, <2>1
  <1> QED
    BY <1>2, <1>4, <1>5, <1>10, <1>11 DEF L, n, Shorter

\* The block a takes in the one behind it, which is its next on the list.
LEMMA AbsorbIs ==
  ASSUME NEW h, NEW G, Whole(h, G), NEW a \in Blocks(h), NEW b, b = h.next[a], a + h.size[a] = b,
         NEW k \in Heaps, Absorbed(h, k, a, b), k.brk = h.brk, ~k.stuck, k.freep \in On(h) \ {b}
  PROVE  /\ Whole(k, G) /\ On(k) = On(h) \ {b} /\ b # a /\ b # Base
         /\ k.next[a] = h.next[b] /\ k.size[a] = h.size[a] + h.size[b]
         /\ \A c \in On(k) \ {a} : k.next[c] = h.next[c] /\ k.next[c] # b /\ k.size[c] = h.size[c]
  <1> DEFINE L == On(h)
  <1>1. /\ L \in SUBSET (0 .. HeapEnd - 1) /\ Base \in L /\ a \in L /\ b \in L /\ a # Base
        /\ \A c \in L : h.next[c] \in L /\ h.next[c] # Nil /\ Succ(L, c, h.next[c])
        /\ h.next \in [Addrs -> Addrs \cup {Nil}] /\ h.size \in [Addrs -> Nat]
    BY Headers DEF Blocks
  <1>2. a \in Nat /\ b \in Nat /\ a < b /\ h.size[a] \in Nat \ {0} /\ b # Base
    <2>1. h.size[a] \in Nat \ {0}
      BY TilesAre
    <2>2. a \in 0 .. HeapEnd - 1
      BY <1>1
    <2> QED
      BY <2>1, <2>2, Bounds
  <1>3. (\A c \in L : c \in Nat /\ c \in Addrs /\ c >= Base) /\ a \in Addrs /\ b \in Addrs
    BY <1>1, Bounds, SMTT(30)
  <1>4. /\ k.size[a] = h.size[a] + h.size[b]
        /\ \A c \in Addrs \ {a, b} : k.size[c] = h.size[c]
    BY <1>1, <1>2, <1>3 DEF Absorbed
  <1>10. Shorter(h, k, a, b)
    <2>1. b \in Blocks(h) /\ Unlinked(h, k, a, b)
      BY <1>1, <1>2 DEF Blocks, Absorbed, Unlinked, L
    <2> QED
      BY <1>1, <2>1, UnlinkIs DEF L
  <1>5. On(k) = L \ {b} /\ Ring(k)
    BY <1>10 DEF Shorter
  <1>6. \A c \in L : c <= a \/ b <= c
    BY <1>1, <1>2 DEF Succ
  <1> HIDE DEF L
  <1> DEFINE B == G \cup Blocks(h)
             B1 == G \cup Blocks(k)
  <1>11. B1 = B \ {b} /\ a \in B /\ b \in B
    <2>1. b \notin G
      BY <1>1, TilesAre DEF L
    <2> QED
      BY <1>1, <1>2, <1>5, <2>1 DEF Blocks, L
  <1>12. /\ \A c \in B : c \in HeapStart .. HeapEnd - 1 /\ h.size[c] \in Nat \ {0} /\ c + h.size[c] <= h.brk
         /\ \A c, d \in B : c < d => c + h.size[c] <= d
         /\ \A u \in HeapStart .. h.brk - 1 : \E c \in B : c <= u /\ u < c + h.size[c]
         /\ h.brk \in HeapStart .. HeapEnd
    BY TilesAre, Headers
  <1>13. /\ \A c \in B1 \ {a} : c \in Addrs /\ k.size[c] = h.size[c]
         /\ k.size[a] = h.size[a] + h.size[b] /\ a + k.size[a] = b + h.size[b]
         /\ k.size[a] \in Nat \ {0}
    <2>1. \A c \in B1 \ {a} : c \in Addrs \ {a, b}
      BY <1>11, <1>12, Bounds
    <2> HIDE DEF B, B1
    <2> QED
      BY <1>2, <1>4, <1>11, <1>12, <2>1
  <1>14. Tiles(k, B1)
    <2> HIDE DEF B, B1
    <2>1. B1 \subseteq HeapStart .. k.brk - 1
      <3>1. ASSUME NEW c \in B1 PROVE c \in HeapStart .. k.brk - 1
        <4>1. c \in HeapStart .. HeapEnd - 1 /\ h.size[c] \in Nat \ {0} /\ c + h.size[c] <= h.brk
          BY <1>11, <1>12
        <4> QED
          BY <1>12, <4>1, Bounds
      <3> QED
        BY <3>1
    <2>2. ASSUME NEW c \in B1 PROVE k.size[c] > 0 /\ c + k.size[c] <= k.brk
      <3>1. CASE c = a
        BY <1>11, <1>12, <1>13, <3>1
      <3>2. CASE c # a
        BY <1>11, <1>12, <1>13, <3>2
      <3> QED
        BY <3>1, <3>2
    <2>3. ASSUME NEW c \in B1, NEW d \in B1, c < d PROVE c + k.size[c] <= d
      <3>1. CASE c = a
        <4>1. a + h.size[a] <= d /\ d # b /\ d \in Nat
          BY <1>11, <1>12, <2>3, <3>1, Bounds
        <4>2. b < d
          BY <1>2, <4>1
        <4> QED
          BY <1>11, <1>12, <1>13, <3>1, <4>2
      <3>2. CASE c # a
        BY <1>11, <1>12, <1>13, <2>3, <3>2
      <3> QED
        BY <3>1, <3>2
    <2>4. ASSUME NEW u \in HeapStart .. k.brk - 1 PROVE \E c \in B1 : c <= u /\ u < c + k.size[c]
      <3>1. PICK c \in B : c <= u /\ u < c + h.size[c]
        BY <1>12
      <3>2. u \in Nat /\ c \in Nat
        BY <1>12, Bounds
      <3>3. CASE c = b
        <4>1. a <= u /\ u < a + k.size[a]
          BY <1>2, <1>13, <3>1, <3>2, <3>3
        <4> QED
          BY <1>2, <1>11, <4>1
      <3>4. CASE c = a
        <4>1. u < b /\ b <= b + h.size[b] /\ b + h.size[b] \in Nat
          BY <1>2, <1>11, <1>12, <3>1, <3>2, <3>4
        <4>2. a <= u /\ u < a + k.size[a]
          BY <1>2, <1>13, <3>1, <3>2, <3>4, <4>1
        <4> QED
          BY <1>2, <1>11, <4>2
      <3>5. CASE c # a /\ c # b
        BY <1>11, <1>13, <3>1, <3>5
      <3> QED
        BY <3>3, <3>4, <3>5
    <2> QED
      BY <2>1, <2>2, <2>3, <2>4 DEF Tiles
  <1>15. k.size[Base] = 0 /\ G \cap On(k) = {}
    <2>1. Base \in Addrs \ {a, b}
      BY <1>1, <1>2, <1>3
    <2> QED
      BY <1>4, <1>5, <2>1 DEF Whole, L
  <1>16. Whole(k, G)
    BY <1>5, <1>14, <1>15 DEF Whole
  <1>17. ASSUME NEW c \in On(k) \ {a} PROVE k.next[c] = h.next[c] /\ k.next[c] # b /\ k.size[c] = h.size[c]
    <2>1. c \in L \ {a, b} /\ c \in Addrs
      BY <1>3, <1>5
    <2> QED
      BY <1>4, <1>10, <2>1 DEF Shorter
  <1> QED
    BY <1>2, <1>4, <1>5, <1>10, <1>16, <1>17 DEF L, Shorter

LEMMA Twice ==
  ASSUME NEW S, NEW f \in [Addrs -> S], NEW x \in Addrs, NEW y \in Addrs, NEW u \in S, NEW v \in S
  PROVE  [f EXCEPT ![x] = u, ![y] = v] \in [Addrs -> S]
  OBVIOUS

LEMMA JoinIs ==
  ASSUME NEW h \in Heaps, NEW a \in Addrs, NEW b \in Addrs
  PROVE  /\ Join(h, a, b) \in Heaps /\ Join(h, a, b).brk = h.brk /\ Join(h, a, b).stuck = h.stuck
         /\ Join(h, a, b).freep = h.freep
         /\ a + h.size[a] = b => Absorbed(h, Join(h, a, b), a, b)
         /\ a + h.size[a] # b => Behind(h, Join(h, a, b), a, b)
  <1>1. /\ h.next \in [Addrs -> Addrs \cup {Nil}] /\ h.size \in [Addrs -> Nat]
        /\ h.size[a] \in Nat /\ h.size[b] \in Nat /\ h.size[a] + h.size[b] \in Nat
        /\ h.next[b] \in Addrs \cup {Nil} /\ 0 \in Nat /\ Nil \in Addrs \cup {Nil}
    BY DEF Heaps
  <1>2. CASE a + h.size[a] = b
    <2> DEFINE nx == [h.next EXCEPT ![a] = h.next[b], ![b] = Nil]
               sz == [h.size EXCEPT ![a] = @ + h.size[b], ![b] = 0]
    <2>1. nx \in [Addrs -> Addrs \cup {Nil}] /\ sz \in [Addrs -> Nat]
      BY <1>1, Twice
    <2>2. Join(h, a, b) = [h EXCEPT !.next = nx, !.size = sz]
      <3> DEFINE k == [h EXCEPT !.size[a] = @ + h.size[b], !.next[a] = h.next[b]]
      <3>1. Join(h, a, b) = [k EXCEPT !.next[b] = Nil, !.size[b] = 0]
        BY <1>2 DEF Join, Forget
      <3>2. k = [h EXCEPT !.next = [h.next EXCEPT ![a] = h.next[b]],
                          !.size = [h.size EXCEPT ![a] = @ + h.size[b]]]
        BY DEF Heaps
      <3>3. k.next = [h.next EXCEPT ![a] = h.next[b]] /\ k.size = [h.size EXCEPT ![a] = @ + h.size[b]]
        BY <3>2 DEF Heaps
      <3> HIDE DEF k
      <3>4. Join(h, a, b) = [k EXCEPT !.next = nx, !.size = sz]
        BY <3>1, <3>3
      <3> QED
        BY <3>2, <3>4 DEF Heaps
    <2> HIDE DEF nx, sz
    <2> QED
      BY <1>2, <2>1, <2>2 DEF Heaps, nx, sz, Absorbed
  <1>3. CASE a + h.size[a] # b
    <2>1. [h.next EXCEPT ![a] = b] \in [Addrs -> Addrs \cup {Nil}]
      BY <1>1
    <2>2. Join(h, a, b) = [h EXCEPT !.next = [h.next EXCEPT ![a] = b]]
      BY <1>3 DEF Join
    <2> QED
      BY <1>3, <2>1, <2>2 DEF Heaps, Behind
  <1> QED
    BY <1>2, <1>3

\* free puts the block on the list and merges it with both neighbours: no other
\* block is on the list then, none is lost, and one there is at least as big.
LEMMA FreeIs ==
  ASSUME NEW h, NEW G, HeapOK(h, G), NEW bp \in G
  PROVE  /\ HeapOK(Free(h, bp), G \ {bp}) /\ Free(h, bp).brk = h.brk
         /\ \E x \in On(Free(h, bp)) : Free(h, bp).size[x] >= h.size[bp]
  <1> DEFINE L == On(h)
             p == Place(h, bp)
             r == h.next[p]
             up == bp + h.size[bp] = r
             j == Join(h, bp, r)
             k1 == [h EXCEPT !.next = [h.next EXCEPT ![bp] = r, ![p] = bp], !.freep = p]
             k2 == [j EXCEPT !.next = [j.next EXCEPT ![p] = bp], !.freep = p]
             low == p + j.size[p] = bp
             k3 == [Join(j, p, bp) EXCEPT !.freep = p]
  <1>1. /\ Whole(h, G) /\ h \in Heaps /\ ~h.stuck
        /\ \A a \in Blocks(h) : a + h.size[a] # h.next[a]
    BY DEF HeapOK, Whole, Merged
  <1>2. /\ L \in SUBSET (0 .. HeapEnd - 1) /\ Base \in L /\ h.freep \in L
        /\ \A a \in L : h.next[a] \in L /\ h.next[a] # Nil
        /\ h.next \in [Addrs -> Addrs \cup {Nil}] /\ h.size \in [Addrs -> Nat]
    BY <1>1, Headers
  <1>3. /\ bp \in HeapStart .. HeapEnd - 1 /\ bp \notin L /\ h.size[bp] \in Nat \ {0}
        /\ bp \in Addrs /\ bp # Base /\ bp \in Nat /\ bp \in HeapStart .. HeapEnd
    BY <1>1, TilesAre, Bounds
  <1>4. p \in L /\ Under(L, p, bp) /\ r \in L
    BY <1>1, <1>2, <1>3, PlaceIs
  <1>5. /\ p \in Addrs /\ r \in Addrs /\ p # bp /\ r # bp /\ p # Nil /\ p \in Nat /\ r \in Nat /\ p < bp
        /\ bp \in Addrs \cup {Nil} /\ r \in Addrs \cup {Nil} /\ Nil \notin Addrs /\ h.freep # Nil
    <2>1. p \in 0 .. HeapEnd - 1 /\ r \in 0 .. HeapEnd - 1 /\ h.freep \in 0 .. HeapEnd - 1
      <3> HIDE DEF p, r, L
      <3> QED
        BY <1>2, <1>4
    <2>2. p # bp /\ r # bp
      <3> HIDE DEF p, r, L
      <3> QED
        BY <1>3, <1>4
    <2>3. p < bp
      <3> HIDE DEF p, r, L
      <3> QED
        BY <1>4 DEF Under
    <2> HIDE DEF p, r, L
    <2> QED
      BY <1>3, <2>1, <2>2, <2>3, Bounds
  <1>6. Free(h, bp) = k3
    BY <1>5 DEF Free, FreeOn, FreeAt, Started
  <1> HIDE DEF p
  <1>7. /\ k1 \in Heaps /\ k1.next = [h.next EXCEPT ![bp] = r, ![p] = bp] /\ k1.size = h.size
        /\ Inserted(h, k1, p, bp) /\ k1.brk = h.brk /\ ~k1.stuck /\ k1.freep = p
    <2>1. [h.next EXCEPT ![bp] = r, ![p] = bp] \in [Addrs -> Addrs \cup {Nil}]
      BY <1>2, <1>3, <1>5, Twice
    <2> QED
      BY <1>1, <1>5, <2>1 DEF Heaps, Inserted
  <1> HIDE DEF k1
  <1>8. /\ Whole(k1, G \ {bp}) /\ On(k1) = On(h) \cup {bp} /\ k1.next[bp] = h.next[p] /\ k1.next[p] = bp
        /\ \A a \in On(h) \ {p} : k1.next[a] = h.next[a]
    <2>1. /\ Whole(h, G) /\ bp \in G /\ p \in On(h) /\ Under(On(h), p, bp) /\ k1 \in Heaps
          /\ Inserted(h, k1, p, bp) /\ k1.brk = h.brk /\ ~k1.stuck /\ k1.freep \in On(h)
      BY <1>1, <1>4, <1>7
    <2>2. Whole(k1, G \ {bp}) /\ Longer(h, k1, p, bp)
      BY <2>1, InsertIs
    <2> QED
      BY <2>2 DEF Longer
  <1>9. \A a \in Blocks(k1) \ {bp, p} : a + k1.size[a] # k1.next[a]
    BY <1>1, <1>7, <1>8 DEF Blocks
  <1>10. /\ j \in Heaps /\ j.brk = h.brk /\ j.stuck = h.stuck
         /\ up => Absorbed(h, j, bp, r)
         /\ ~up => Behind(h, j, bp, r)
    BY <1>1, <1>3, <1>5, JoinIs
  <1> HIDE DEF j
  <1>11. /\ k2 \in Heaps /\ k2.next = [j.next EXCEPT ![p] = bp] /\ k2.size = j.size
         /\ k2.brk = h.brk /\ ~k2.stuck /\ k2.freep = p
    <2>1. [j.next EXCEPT ![p] = bp] \in [Addrs -> Addrs \cup {Nil}]
      BY <1>3, <1>5, <1>10 DEF Heaps
    <2> QED
      BY <1>1, <1>5, <1>10, <2>1 DEF Heaps
  <1> HIDE DEF k2
  <1>12. /\ Whole(k2, G \ {bp}) /\ k2.next[p] = bp
         /\ bp \in Blocks(k2) /\ bp + k2.size[bp] # k2.next[bp] /\ k2.size[bp] >= h.size[bp]
         /\ p \in On(k2) /\ \A a \in Blocks(k2) \ {bp, p} : a + k2.size[a] # k2.next[a]
         /\ k2.size[bp] \in Nat
    <2>1. CASE up
      <3>1. r # p /\ r # Base /\ r \in Blocks(h)
        BY <1>3, <1>4, <1>5, <2>1, Bounds, SMTT(30) DEF Blocks
      <3>2. k1.next[r] = h.next[r] /\ k1.next[r] \in Addrs \cup {Nil} /\ h.size[r] \in Nat
        BY <1>2, <1>4, <1>5, <1>8, <3>1
      <3>3. Absorbed(k1, k2, bp, r)
        <4>1. k2.next = [[[h.next EXCEPT ![bp] = h.next[r]] EXCEPT ![r] = Nil] EXCEPT ![p] = bp]
          BY <1>10, <1>11, <2>1 DEF Absorbed
        <4>2. [k1.next EXCEPT ![bp] = k1.next[r], ![r] = Nil]
                = [[[[h.next EXCEPT ![bp] = r] EXCEPT ![p] = bp] EXCEPT ![bp] = h.next[r]] EXCEPT ![r] = Nil]
          BY <1>7, <3>2
        <4> QED
          BY <1>2, <1>3, <1>5, <1>7, <1>10, <1>11, <2>1, <3>1, <4>1, <4>2 DEF Absorbed
      <3>4. bp \in Blocks(k1) /\ bp + k1.size[bp] = r /\ p \in On(k1) \ {r} /\ r = k1.next[bp]
        BY <1>1, <1>3, <1>4, <1>7, <1>8, <2>1, <3>1 DEF Blocks
      <3>5. /\ Whole(k2, G \ {bp}) /\ On(k2) = On(k1) \ {r}
            /\ k2.next[bp] = k1.next[r] /\ k2.size[bp] = k1.size[bp] + k1.size[r]
            /\ \A c \in On(k2) \ {bp} : k2.next[c] = k1.next[c] /\ k2.next[c] # r /\ k2.size[c] = k1.size[c]
        <4>1. /\ Whole(k1, G \ {bp}) /\ bp \in Blocks(k1) /\ r = k1.next[bp] /\ bp + k1.size[bp] = r
              /\ k2 \in Heaps /\ Absorbed(k1, k2, bp, r) /\ k2.brk = k1.brk /\ ~k2.stuck
              /\ k2.freep \in On(k1) \ {r}
          BY <1>7, <1>8, <1>11, <3>3, <3>4
        <4> HIDE DEF L, r
        <4> QED
          BY <4>1, AbsorbIs, SMTT(30)
      <3>6. r + h.size[r] # h.next[r]
        BY <1>1, <3>1
      <3>7. bp + k2.size[bp] # k2.next[bp] /\ k2.size[bp] >= h.size[bp] /\ k2.size[bp] \in Nat
        BY <1>3, <1>5, <1>7, <2>1, <3>2, <3>5, <3>6
      <3>8. p \in On(k2) \ {bp} /\ bp \in On(k2)
        BY <1>4, <1>5, <1>8, <3>1, <3>5
      <3>9. \A a \in Blocks(k2) \ {bp, p} : a + k2.size[a] # k2.next[a]
        BY <1>9, <3>5 DEF Blocks
      <3> QED
        BY <1>3, <1>8, <3>5, <3>7, <3>8, <3>9 DEF Blocks
    <2>2. CASE ~up
      <3>1. k2 = k1
        <4>1. k2.next = k1.next
          BY <1>2, <1>3, <1>5, <1>7, <1>10, <1>11, <2>2 DEF Behind
        <4>2. k2.size = k1.size /\ k2.brk = k1.brk /\ k2.stuck = k1.stuck /\ k2.freep = k1.freep
          BY <1>1, <1>7, <1>10, <1>11, <2>2 DEF Heaps, Behind
        <4> QED
          BY <1>7, <1>11, <4>1, <4>2 DEF Heaps
      <3>2. bp \in On(k1) /\ p \in On(k1) /\ bp # Base
        BY <1>3, <1>4, <1>8
      <3>3. k1.size[bp] = h.size[bp] /\ k1.next[bp] = r /\ bp + k1.size[bp] # k1.next[bp]
        BY <1>7, <1>8, <2>2
      <3>4. k1.size[bp] >= h.size[bp] /\ k1.size[bp] \in Nat
        <4>1. h.size[bp] \in Nat
          BY <1>3
        <4> QED
          BY <3>3, <4>1
      <3> HIDE DEF r
      <3> QED
        BY <1>8, <1>9, <3>1, <3>2, <3>3, <3>4 DEF Blocks
    <2> QED
      BY <2>1, <2>2
  <1>13. k3.freep = p /\ k3.brk = h.brk /\ ~k3.stuck /\ k3 \in Heaps
         /\ k3.next = Join(j, p, bp).next /\ k3.size = Join(j, p, bp).size
    BY <1>1, <1>3, <1>5, <1>10, JoinIs DEF Heaps
  <1>14. /\ low => Absorbed(j, k3, p, bp)
         /\ ~low => Behind(j, k3, p, bp)
    <2>1. /\ low => Absorbed(j, Join(j, p, bp), p, bp)
          /\ ~low => Behind(j, Join(j, p, bp), p, bp)
      BY <1>3, <1>5, <1>10, JoinIs
    <2> QED
      BY <1>13, <2>1 DEF Absorbed, Behind
  <1> HIDE DEF k3
  <1>15. j.next \in [Addrs -> Addrs \cup {Nil}] /\ j.size \in [Addrs -> Nat] /\ k2.next[bp] = j.next[bp]
    BY <1>3, <1>5, <1>10, <1>11 DEF Heaps
  <1>16. /\ Whole(k3, G \ {bp}) /\ Merged(k3) /\ \E x \in On(k3) : k3.size[x] >= h.size[bp]
    <2>1. CASE low
      <3>1. Absorbed(k2, k3, p, bp)
        <4>1. [[[j.next EXCEPT ![p] = bp] EXCEPT ![p] = j.next[bp]] EXCEPT ![bp] = Nil]
                = [[j.next EXCEPT ![p] = j.next[bp]] EXCEPT ![bp] = Nil]
          BY <1>3, <1>5, <1>15
        <4> QED
          BY <1>11, <1>14, <1>15, <2>1, <4>1 DEF Absorbed
      <3>2. p # Base
        <4>1. k2.size[Base] = 0
          BY <1>12 DEF Whole
        <4> QED
          BY <1>3, <1>5, <1>11, <2>1, <4>1, Bounds
      <3>3. p \in Blocks(k2) /\ p \in On(k2) \ {bp} /\ p + k2.size[p] = bp
        BY <1>5, <1>11, <1>12, <2>1, <3>2 DEF Blocks
      <3>4. /\ Whole(k3, G \ {bp}) /\ On(k3) = On(k2) \ {bp}
            /\ k3.next[p] = k2.next[bp] /\ k3.size[p] = k2.size[p] + k2.size[bp]
            /\ \A c \in On(k3) \ {p} : k3.next[c] = k2.next[c] /\ k3.next[c] # bp /\ k3.size[c] = k2.size[c]
        <4>1. k3.brk = k2.brk /\ k3.freep \in On(k2) \ {bp} /\ bp = k2.next[p]
          BY <1>11, <1>12, <1>13, <3>3
        <4> QED
          BY <1>12, <1>13, <3>1, <3>3, <4>1, AbsorbIs
      <3>5. k2.size[p] \in Nat
        BY <1>5, <1>11, <1>15
      <3>6. p + k3.size[p] # k3.next[p] /\ k3.size[p] >= h.size[bp]
        BY <1>3, <1>5, <1>12, <3>3, <3>4, <3>5
      <3>7. \A a \in Blocks(k3) : a + k3.size[a] # k3.next[a]
        BY <1>12, <3>4, <3>6 DEF Blocks
      <3> QED
        BY <3>3, <3>4, <3>6, <3>7 DEF Merged
    <2>2. CASE ~low
      <3>1. k3 = k2
        BY <1>10, <1>11, <1>13, <1>14, <1>1, <2>2 DEF Heaps, Behind
      <3>2. \A a \in Blocks(k2) : a + k2.size[a] # k2.next[a]
        BY <1>11, <1>12, <2>2
      <3> QED
        BY <1>12, <3>1, <3>2 DEF Merged, Blocks
    <2> QED
      BY <2>1, <2>2
  <1> QED
    BY <1>6, <1>13, <1>16 DEF HeapOK
-----------------------------------------------------------------------------
(* What malloc does to the list *)

\* sbrk's block lies behind the others; free gives it to the list.
LEMMA MoreIs ==
  ASSUME NEW h, NEW G, HeapOK(h, G), NEW nu \in Nat \ {0}, MoreCore(h, nu).ok
  PROVE  /\ HeapOK(MoreCore(h, nu).h, G)
         /\ \E x \in On(MoreCore(h, nu).h) : MoreCore(h, nu).h.size[x] >= nu
  <1> DEFINE u == Units(nu)
             b == h.brk
             k == [h EXCEPT !.size = [h.size EXCEPT ![b] = u], !.brk = b + u]
             B == G \cup Blocks(h)
  <1>1. /\ Whole(h, G) /\ h \in Heaps /\ ~h.stuck /\ Ring(h) /\ Merged(h) /\ h.size[Base] = 0
        /\ G \cap On(h) = {}
    BY DEF HeapOK, Whole
  <1>2. /\ h.next \in [Addrs -> Addrs \cup {Nil}] /\ h.size \in [Addrs -> Nat]
        /\ b \in HeapStart .. HeapEnd /\ b \in Addrs /\ b \in Nat /\ b # Base /\ b >= HeapStart
    BY <1>1, Headers, Bounds, SMTT(30)
  <1>3. u \in Nat \ {0} /\ u >= nu
    BY Bounds DEF Units
  <1> HIDE DEF u
  <1>4. b + u <= HeapEnd /\ MoreCore(h, nu).h = Free(k, b)
    <2>1. b + u <= HeapEnd
      BY DEF MoreCore, u
    <2>2. [h EXCEPT !.size[b] = u, !.brk = @ + u] = k
      BY <1>1 DEF Heaps
    <2> QED
      BY <2>1, <2>2 DEF MoreCore, u
  <1>5. /\ k \in Heaps /\ k.next = h.next /\ k.freep = h.freep /\ ~k.stuck /\ k.brk = b + u
        /\ k.size = [h.size EXCEPT ![b] = u]
    <2>1. [h.size EXCEPT ![b] = u] \in [Addrs -> Nat] /\ b + u \in HeapStart .. HeapEnd
      BY <1>2, <1>3, <1>4, Bounds
    <2> QED
      BY <1>1, <2>1 DEF Heaps
  <1> HIDE DEF k
  <1>6. /\ \A a \in B : a \in HeapStart .. HeapEnd - 1 /\ h.size[a] \in Nat \ {0} /\ a + h.size[a] <= b
        /\ \A a, c \in B : a < c => a + h.size[a] <= c
        /\ \A v \in HeapStart .. b - 1 : \E a \in B : a <= v /\ v < a + h.size[a]
    BY <1>1, TilesAre
  <1>7. /\ \A a \in B : a \in Nat /\ a < b /\ a >= HeapStart /\ a # b /\ k.size[a] = h.size[a]
        /\ k.size[b] = u /\ k.size[Base] = 0
    <2>1. \A a \in B : a \in Nat /\ a \in Addrs /\ a < b /\ a >= HeapStart /\ a # b
      <3>1. ASSUME NEW a \in B PROVE a \in Nat /\ a \in Addrs /\ a < b /\ a >= HeapStart
        <4>1. a \in HeapStart .. HeapEnd - 1 /\ h.size[a] \in Nat \ {0} /\ a + h.size[a] <= b
          BY <1>6
        <4> HIDE DEF b
        <4> QED
          BY <1>2, <4>1, Bounds
      <3> HIDE DEF B, b
      <3> QED
        BY <1>2, <3>1
    <2>2. k.size[b] = u /\ \A a \in Addrs \ {b} : k.size[a] = h.size[a]
      BY <1>2, <1>5
    <2>3. Base \in Addrs \ {b}
      BY <1>2, Bounds
    <2> QED
      BY <1>1, <2>1, <2>2, <2>3
  <1>8. On(k) = On(h) /\ Blocks(k) = Blocks(h)
    BY <1>5 DEF On, Blocks
  <1>9. b \notin On(h) /\ b \notin G
    BY <1>2, <1>7 DEF Blocks
  <1>10. Tiles(k, B \cup {b})
    <2> HIDE DEF B
    <2>1. B \cup {b} \subseteq HeapStart .. k.brk - 1
      BY <1>2, <1>3, <1>5, <1>7, Bounds
    <2>2. ASSUME NEW a \in B \cup {b} PROVE k.size[a] > 0 /\ a + k.size[a] <= k.brk
      BY <1>2, <1>3, <1>5, <1>6, <1>7
    <2>3. ASSUME NEW a \in B \cup {b}, NEW c \in B \cup {b}, a < c PROVE a + k.size[a] <= c
      BY <1>2, <1>6, <1>7, <2>3
    <2>4. ASSUME NEW v \in HeapStart .. k.brk - 1 PROVE \E a \in B \cup {b} : a <= v /\ v < a + k.size[a]
      <3>1. CASE v < b
        <4>1. PICK a \in B : a <= v /\ v < a + h.size[a]
          <5>1. v \in HeapStart .. b - 1
            BY <1>2, <1>3, <1>5, <3>1, Bounds
          <5> QED
            BY <1>6, <5>1
        <4> QED
          BY <1>7, <4>1
      <3>2. CASE ~(v < b)
        <4>1. b <= v /\ v < b + k.size[b]
          BY <1>2, <1>3, <1>5, <1>7, <3>2, Bounds
        <4> QED
          BY <4>1
      <3> QED
        BY <3>1, <3>2
    <2> QED
      BY <2>1, <2>2, <2>3, <2>4 DEF Tiles
  <1>11. (G \cup {b}) \cup Blocks(k) = B \cup {b} /\ (G \cup {b}) \cap On(k) = {}
    BY <1>1, <1>8, <1>9
  <1>12. Ring(k)
    BY <1>1, <1>5, <1>8 DEF Ring
  <1>13. Whole(k, G \cup {b})
    BY <1>5, <1>7, <1>10, <1>11, <1>12 DEF Whole
  <1>14. Merged(k)
    <2>1. ASSUME NEW a \in Blocks(k) PROVE a + k.size[a] # k.next[a]
      BY <1>1, <1>5, <1>7, <1>8 DEF Merged
    <2> QED
      BY <2>1 DEF Merged
  <1>15. HeapOK(k, G \cup {b}) /\ b \in G \cup {b} /\ (G \cup {b}) \ {b} = G
    BY <1>9, <1>13, <1>14 DEF HeapOK
  <1> HIDE DEF B, b
  <1>16. HeapOK(Free(k, b), G) /\ \E x \in On(Free(k, b)) : Free(k, b).size[x] >= u
    <2>1. HeapOK(Free(k, b), (G \cup {b}) \ {b}) /\ \E x \in On(Free(k, b)) : Free(k, b).size[x] >= k.size[b]
      BY <1>15, FreeIs
    <2> QED
      BY <1>7, <1>15, <2>1
  <1>17. PICK x \in On(Free(k, b)) : Free(k, b).size[x] >= u
    BY <1>16
  <1>18. Free(k, b).size[x] >= nu
    <2>1. Free(k, b).size[x] \in Nat
      BY <1>16 DEF HeapOK, Whole, Heaps, On
    <2> QED
      BY <1>3, <1>17, <2>1
  <1> QED
    BY <1>4, <1>16, <1>18
\* A block that is as big as asked for leaves the list.
LEMMA CutWhole ==
  ASSUME NEW h, NEW G, HeapOK(h, G), NEW prevp \in On(h), NEW p \in Blocks(h), p = h.next[prevp],
         NEW k \in Heaps, Unlinked(h, k, prevp, p), k.size = h.size, k.brk = h.brk, ~k.stuck, k.freep = prevp
  PROVE  HeapOK(k, G \cup {p}) /\ p \notin G
  <1>1. Whole(h, G) /\ Merged(h) /\ h.size[Base] = 0 /\ G \cap On(h) = {} /\ Tiles(h, G \cup Blocks(h))
    BY DEF HeapOK, Whole
  <1>2. p \in On(h) /\ p # Base /\ p # prevp
    <2>1. Base \in On(h) /\ Succ(On(h), prevp, p)
      BY <1>1, Headers
    <2>2. On(h) \subseteq Nat
      BY <1>1, Headers
    <2> QED
      BY <2>1, <2>2 DEF Blocks, Succ
  <1>3. Shorter(h, k, prevp, p) /\ prevp < p
    <2>1. k.freep \in On(h) \ {p}
      BY <1>2
    <2> QED
      BY <1>1, <2>1, UnlinkIs
  <1>4. Ring(k) /\ On(k) = On(h) \ {p}
    BY <1>3 DEF Shorter
  <1>5. /\ (G \cup {p}) \cup Blocks(k) = G \cup Blocks(h) /\ p \notin G
        /\ (G \cup {p}) \cap On(k) = {}
    BY <1>1, <1>2, <1>4 DEF Blocks
  <1>6. Tiles(k, (G \cup {p}) \cup Blocks(k))
    BY <1>1, <1>5 DEF Tiles
  <1>7. Whole(k, G \cup {p})
    BY <1>1, <1>4, <1>5, <1>6 DEF Whole
  <1>8. ASSUME NEW a \in Blocks(k) PROVE a + k.size[a] # k.next[a]
    <2>1. a \in Blocks(h) /\ a # p /\ a \in On(k)
      BY <1>4 DEF Blocks
    <2>2. CASE a # prevp
      <3>1. k.next[a] = h.next[a] /\ a + h.size[a] # h.next[a]
        BY <1>1, <1>3, <2>1, <2>2 DEF Shorter, Merged
      <3> QED
        BY <3>1
    \* The block before p ends below the one behind p.
    <2>3. CASE a = prevp
      <3> DEFINE n == h.next[p]
      <3>1. k.next[a] = n /\ Succ(On(h), p, n) /\ n \in On(h)
        BY <1>1, <1>2, <1>3, <2>3, Headers DEF Shorter
      <3>2. a + h.size[a] <= p /\ a \in Nat \ {0} /\ h.size[a] \in Nat /\ p \in Nat /\ n \in Nat
        <4>1. a \in HeapStart .. HeapEnd - 1 /\ h.size[a] \in Nat /\ p \in HeapStart .. HeapEnd - 1
          BY <1>1, <2>1, TilesAre
        <4>2. a + h.size[a] <= p
          BY <1>1, <1>3, <2>1, <2>3, TilesAre
        <4>3. n \in 0 .. HeapEnd - 1
          BY <1>1, <3>1, Headers
        <4> QED
          BY <4>1, <4>2, <4>3, Bounds
      <3> HIDE DEF n
      <3>3. p < n \/ n = 0
        BY <3>1, Bounds DEF Succ
      <3> QED
        BY <3>1, <3>2, <3>3
    <2> QED
      BY <2>2, <2>3
  <1> QED
    BY <1>5, <1>7, <1>8 DEF HeapOK, Merged

\* A bigger one keeps its head on the list; its tail a is given out.
LEMMA CutTailIs ==
  ASSUME NEW h, NEW G, HeapOK(h, G), NEW prevp \in On(h), NEW p \in Blocks(h), NEW nu \in Nat \ {0},
         h.size[p] > nu, NEW a, a = p + h.size[p] - nu, NEW k \in Heaps, k.next = h.next,
         k.size = [h.size EXCEPT ![p] = @ - nu, ![a] = nu], k.brk = h.brk, ~k.stuck, k.freep = prevp
  PROVE  HeapOK(k, G \cup {a}) /\ a \notin G /\ a \in Addrs
  <1> DEFINE B == G \cup Blocks(h)
  <1>1. Whole(h, G) /\ Merged(h) /\ h.size[Base] = 0 /\ G \cap On(h) = {} /\ Ring(h)
    BY DEF HeapOK, Whole
  <1>2. /\ \A c \in B : c \in HeapStart .. HeapEnd - 1 /\ h.size[c] \in Nat \ {0} /\ c + h.size[c] <= h.brk
        /\ \A c, d \in B : c < d => c + h.size[c] <= d
        /\ \A u \in HeapStart .. h.brk - 1 : \E c \in B : c <= u /\ u < c + h.size[c]
    BY <1>1, TilesAre
  <1>3. /\ p \in B /\ p \in On(h) /\ h.brk \in HeapStart .. HeapEnd /\ h.size \in [Addrs -> Nat]
        /\ h.next \in [Addrs -> Addrs \cup {Nil}]
    BY <1>1, Headers DEF Blocks
  <1> HIDE DEF B
  <1>4. /\ p \in Nat /\ p >= HeapStart /\ a \in Nat /\ p < a /\ a < h.brk /\ a \in Addrs /\ p \in Addrs
        /\ h.size[p] \in Nat /\ h.size[p] - nu \in Nat \ {0} /\ p + (h.size[p] - nu) = a
        /\ a + nu = p + h.size[p] /\ p + h.size[p] <= h.brk
    <2>1. p \in HeapStart .. HeapEnd - 1 /\ h.size[p] \in Nat \ {0} /\ p + h.size[p] <= h.brk
      BY <1>2, <1>3
    <2>2. h.brk \in HeapStart .. HeapEnd
      BY <1>3
    <2> DEFINE s == h.size[p]
               e == h.brk
    <2> HIDE DEF s, e
    <2>3. p \in HeapStart .. HeapEnd - 1 /\ s \in Nat \ {0} /\ p + s <= e /\ e \in HeapStart .. HeapEnd
          /\ s > nu /\ a = p + s - nu
      BY <2>1, <2>2 DEF s, e
    <2>4. s - nu \in Nat \ {0} /\ p \in Nat /\ p >= HeapStart /\ p \in Addrs
      BY <2>3, Bounds
    <2>5. a \in Nat /\ p < a /\ a < e /\ p + (s - nu) = a /\ a + nu = p + s
      BY <2>3, <2>4, Bounds
    <2>6. a \in Addrs
      BY <2>3, <2>5, Bounds
    <2> QED
      BY <2>3, <2>4, <2>5, <2>6 DEF s, e
  <1>5. /\ k.size[p] = h.size[p] - nu /\ k.size[a] = nu
        /\ \A c \in Addrs \ {p, a} : k.size[c] = h.size[c]
    BY <1>3, <1>4
  \* No block begins inside the one at p.
  <1>6. /\ \A c \in B : c \in Nat /\ c \in Addrs /\ c >= HeapStart /\ c < h.brk /\ c # a
        /\ \A c \in B : c < p => c + h.size[c] <= p
        /\ \A c \in B : p < c => a + nu <= c /\ a < c
    <2>1. ASSUME NEW c \in B
          PROVE  /\ c \in Nat /\ c \in Addrs /\ c >= HeapStart /\ c < h.brk /\ c # a
                 /\ c < p => c + h.size[c] <= p
                 /\ p < c => a + nu <= c /\ a < c
      <3>1. c \in HeapStart .. HeapEnd - 1 /\ h.size[c] \in Nat \ {0} /\ c + h.size[c] <= h.brk
        BY <1>2
      <3>2. (c < p => c + h.size[c] <= p) /\ (p < c => p + h.size[p] <= c)
        BY <1>2, <1>3
      <3>3. h.brk \in HeapStart .. HeapEnd
        BY <1>3
      <3>4. c \in Nat /\ c \in Addrs /\ c >= HeapStart /\ c < h.brk
        <4> DEFINE s == h.size[c]
                   e == h.brk
        <4>1. c \in HeapStart .. HeapEnd - 1 /\ s \in Nat \ {0} /\ c + s <= e /\ e \in HeapStart .. HeapEnd
          BY <3>1, <3>3
        <4> HIDE DEF s, e
        <4>2. c \in Nat /\ c \in Addrs /\ c >= HeapStart /\ c < e
          BY <4>1, Bounds
        <4> QED
          BY <4>2 DEF e
      <3>5. p < c => a + nu <= c
        BY <1>4, <3>2
      <3>6. p < c => a < c
        BY <1>4, <3>4, <3>5
      <3>7. c # a
        <4>1. CASE p < c
          BY <1>4, <3>4, <3>6, <4>1
        <4>2. CASE ~(p < c)
          BY <1>4, <3>4, <4>2
        <4> QED
          BY <4>1, <4>2
      <3> QED
        BY <3>2, <3>4, <3>5, <3>6, <3>7
    <2> QED
      BY <2>1
  <1>7. a \notin G /\ a \notin On(h) /\ On(k) = On(h) /\ Blocks(k) = Blocks(h)
    <2>1. a # Base
      BY <1>4, Bounds
    <2>2. a \notin B
      BY <1>6
    <2> QED
      BY <2>1, <2>2 DEF B, Blocks, On
  <1>8. (G \cup {a}) \cup Blocks(k) = B \cup {a} /\ (G \cup {a}) \cap On(k) = {}
    BY <1>1, <1>7 DEF B
  <1>9. k.size[Base] = 0
    <2>1. Base \in Addrs \ {p, a}
      BY <1>4, Bounds
    <2> QED
      BY <1>1, <1>5, <2>1
  <1>10. \A c \in B \ {p} : k.size[c] = h.size[c]
    BY <1>5, <1>6
  <1>11. Tiles(k, B \cup {a})
    <2>1. B \cup {a} \subseteq HeapStart .. k.brk - 1
      <3>1. ASSUME NEW c \in B \cup {a} PROVE c \in HeapStart .. h.brk - 1
        <4>1. c \in Nat /\ c >= HeapStart /\ c < h.brk
          <5>1. c = a => c >= HeapStart
            BY <1>4, Bounds
          <5> QED
            BY <1>4, <1>6, <5>1
        <4>2. h.brk \in Nat
          BY <1>3, Bounds
        <4> DEFINE e == h.brk
        <4> HIDE DEF e
        <4>3. c \in HeapStart .. e - 1
          <5>1. c \in Nat /\ c >= HeapStart /\ c < e /\ e \in Nat
            BY <4>1, <4>2 DEF e
          <5> QED
            BY <5>1, Bounds
        <4> QED
          BY <4>3 DEF e
      <3> QED
        BY <3>1
    <2>2. ASSUME NEW c \in B \cup {a} PROVE k.size[c] > 0 /\ c + k.size[c] <= k.brk
      <3>1. CASE c = a
        BY <1>4, <1>5, <3>1
      <3>2. CASE c = p
        <4>1. p + k.size[p] = a /\ a <= h.brk /\ k.size[p] > 0
          <5>1. h.brk \in Nat
            BY <1>3, Bounds
          <5> QED
            BY <1>4, <1>5, <5>1
        <4> QED
          BY <3>2, <4>1
      <3>3. CASE c # a /\ c # p
        BY <1>2, <1>10, <3>3
      <3> QED
        BY <3>1, <3>2, <3>3
    <2>3. ASSUME NEW c \in B \cup {a}, NEW d \in B \cup {a}, c < d PROVE c + k.size[c] <= d
      <3>1. CASE c = a
        <4>1. d \in B /\ d \in Nat /\ p < d
          BY <1>4, <1>6, <2>3, <3>1
        <4> QED
          BY <1>5, <1>6, <3>1, <4>1
      <3>2. CASE c = p
        <4>1. p + k.size[p] = a /\ (d = a \/ d \in B)
          BY <1>4, <1>5
        <4>2. d \in B => a < d /\ d \in Nat
          BY <1>6, <2>3, <3>2
        <4> QED
          BY <1>4, <3>2, <4>1, <4>2
      <3>3. CASE c # a /\ c # p
        <4>1. c \in B /\ k.size[c] = h.size[c] /\ c \in Nat /\ h.size[c] \in Nat
          BY <1>2, <1>6, <1>10, <3>3
        <4>2. CASE d = a
          <5>1. c < p
            <6>1. p < c => a < c
              BY <1>6, <4>1
            <6> QED
              BY <1>4, <2>3, <3>3, <4>1, <4>2, <6>1
          <5>2. c + h.size[c] <= p
            BY <1>6, <4>1, <5>1
          <5> QED
            BY <1>4, <4>1, <4>2, <5>2
        <4>3. CASE d # a
          BY <1>2, <2>3, <4>1, <4>3
        <4> QED
          BY <4>2, <4>3
      <3> QED
        BY <3>1, <3>2, <3>3
    <2>4. ASSUME NEW u \in HeapStart .. k.brk - 1 PROVE \E c \in B \cup {a} : c <= u /\ u < c + k.size[c]
      <3>1. u \in HeapStart .. h.brk - 1
        OBVIOUS
      <3>2. PICK c \in B : c <= u /\ u < c + h.size[c]
        BY <1>2, <3>1
      <3>3. u \in Int
        BY <1>3, <3>1, Bounds
      <3>4. CASE c # p
        BY <1>10, <3>2, <3>4
      <3>5. CASE c = p /\ u < a
        <4>1. p <= u /\ u < p + k.size[p]
          BY <1>4, <1>5, <3>2, <3>3, <3>5
        <4> QED
          BY <1>3, <4>1
      <3>6. CASE c = p /\ ~(u < a)
        <4>1. a <= u /\ u < a + k.size[a]
          BY <1>4, <1>5, <3>2, <3>3, <3>6
        <4> QED
          BY <4>1
      <3> QED
        BY <3>4, <3>5, <3>6
    <2> QED
      BY <2>1, <2>2, <2>3, <2>4 DEF Tiles
  <1>12. Ring(k)
    BY <1>1, <1>7 DEF Ring
  <1>13. Whole(k, G \cup {a})
    BY <1>8, <1>9, <1>11, <1>12 DEF Whole
  <1>14. ASSUME NEW c \in Blocks(k) PROVE c + k.size[c] # k.next[c]
    <2>1. c \in Blocks(h) /\ c \in B /\ c \in On(h) /\ c + h.size[c] # h.next[c] /\ h.next[c] \in On(h)
      BY <1>1, <1>7 DEF Merged, Blocks, B, Ring
    <2>2. CASE c = p
      BY <1>4, <1>5, <1>7, <2>1, <2>2
    <2>3. CASE c # p
      BY <1>10, <2>1, <2>3
    <2> QED
      BY <2>2, <2>3
  <1> QED
    BY <1>4, <1>7, <1>13, <1>14 DEF HeapOK, Merged

\* Either way what malloc gives is a block of its own.
LEMMA CutIs ==
  ASSUME NEW h, NEW G, HeapOK(h, G), NEW prevp \in On(h), NEW p, p = h.next[prevp],
         NEW nu \in Nat \ {0}, h.size[p] >= nu
  PROVE  LET c == Cut(h, prevp, p, nu)
         IN  HeapOK(c.h, G \cup {c.at}) /\ c.at \notin G /\ c.at \in Addrs
  <1> DEFINE c == Cut(h, prevp, p, nu)
  <1>1. /\ h \in Heaps /\ Whole(h, G) /\ ~h.stuck /\ h.size[Base] = 0
        /\ h.next \in [Addrs -> Addrs \cup {Nil}] /\ h.size \in [Addrs -> Nat]
    BY DEF HeapOK, Whole, Heaps
  <1>2. p \in On(h) /\ p # Base /\ p \in Blocks(h) /\ p \in Addrs /\ prevp \in Addrs /\ h.size[p] \in Nat
    <2>1. p \in On(h) /\ Base \in Addrs
      BY <1>1, Headers, Bounds
    <2>2. p # Base
      BY <1>1
    <2> QED
      BY <1>1, <2>1, <2>2 DEF Blocks, On
  <1>3. CASE h.size[p] = nu
    <2> DEFINE nx == [h.next EXCEPT ![prevp] = h.next[p], ![p] = Nil]
               k == [h EXCEPT !.next = nx, !.freep = prevp]
    <2>1. c = [at |-> p, h |-> k]
      BY <1>3 DEF Cut
    <2>2. nx \in [Addrs -> Addrs \cup {Nil}]
      <3>1. h.next[p] \in Addrs \cup {Nil} /\ Nil \in Addrs \cup {Nil}
        BY <1>1, <1>2
      <3> QED
        BY <1>1, <1>2, <3>1, Twice
    <2>3. k \in Heaps /\ k.next = nx /\ k.size = h.size /\ k.brk = h.brk /\ ~k.stuck /\ k.freep = prevp
      <3> HIDE DEF nx
      <3> QED
        BY <1>1, <1>2, <2>2 DEF Heaps
    <2>4. Unlinked(h, k, prevp, p)
      BY <2>3 DEF Unlinked
    <2> HIDE DEF k
    <2>5. HeapOK(k, G \cup {p}) /\ p \notin G
      BY <1>2, <2>3, <2>4, CutWhole
    <2> QED
      BY <1>2, <2>1, <2>5
  <1>4. CASE h.size[p] # nu
    <2> DEFINE a == p + h.size[p] - nu
               sz == [h.size EXCEPT ![p] = @ - nu, ![a] = nu]
               k == [h EXCEPT !.size = sz, !.freep = prevp]
    <2>1. c = [at |-> a, h |-> k]
      BY <1>4 DEF Cut, CutTail
    <2>2. h.size[p] > nu /\ h.size[p] - nu \in Nat
      BY <1>2, <1>4
    <2>3. a \in Addrs
      <3>1. p \in HeapStart .. HeapEnd - 1 /\ p + h.size[p] <= h.brk /\ h.brk \in HeapStart .. HeapEnd
        BY <1>1, <1>2, TilesAre, Headers
      <3> DEFINE s == h.size[p]
                 e == h.brk
      <3>2. s \in Nat /\ s > nu /\ p + s <= e /\ e \in HeapStart .. HeapEnd
        BY <1>2, <2>2, <3>1
      <3> HIDE DEF s, e
      <3>3. p + s - nu \in 0 .. HeapEnd
        BY <3>1, <3>2, Bounds
      <3> QED
        BY <3>3, Bounds DEF s
    <2> HIDE DEF a
    <2>4. sz \in [Addrs -> Nat]
      BY <1>1, <1>2, <2>2, <2>3, Twice
    <2>5. k \in Heaps /\ k.next = h.next /\ k.size = sz /\ k.brk = h.brk /\ ~k.stuck /\ k.freep = prevp
      <3> HIDE DEF sz
      <3> QED
        BY <1>1, <1>2, <2>4 DEF Heaps
    <2> HIDE DEF k
    <2>6. HeapOK(k, G \cup {a}) /\ a \notin G
      <3>1. a = p + h.size[p] - nu
        BY DEF a
      <3> QED
        BY <1>2, <2>2, <2>5, <3>1, CutTailIs
    <2> QED
      BY <2>1, <2>3, <2>6
  <1> QED
    BY <1>3, <1>4
-----------------------------------------------------------------------------
(* The search of malloc *)

\* Where the search stands: under way, or with an answer.
States == [h : Heaps, prevp : Addrs, p : Addrs, done : BOOLEAN, at : Addrs \cup {Nil}]
Searches(G) ==
  {s \in States :
     \/ ~s.done /\ s.at = Nil /\ HeapOK(s.h, G) /\ s.prevp \in On(s.h) /\ s.p = s.h.next[s.prevp]
     \/ s.done /\ s.at = Nil /\ HeapOK(s.h, G)
     \/ s.done /\ s.at # Nil /\ HeapOK(s.h, G \cup {s.at}) /\ s.at \notin G}

\* How far it has to go at most, i turns behind its start: to freep, or to a
\* block that is big enough and lies before freep.
Ahead(s, nu, i) ==
  \E x \in On(s.h) : /\ s.h.size[x] >= nu /\ Dist(s.p, x) <= Dist(s.p, s.h.freep)
                     /\ Dist(s.p, x) + i <= 2 * HeapEnd - 1
Near(s, nu, i) == s.done \/ Dist(s.p, s.h.freep) + i <= HeapEnd - 1 \/ Ahead(s, nu, i)

LEMMA SearchIs ==
  ASSUME NEW G, NEW s \in Searches(G), ~s.done
  PROVE  /\ HeapOK(s.h, G) /\ Whole(s.h, G) /\ s.h \in Heaps
         /\ s.prevp \in On(s.h) /\ s.p = s.h.next[s.prevp] /\ s.p \in On(s.h) /\ s.at = Nil
         /\ s.prevp \in Addrs /\ s.p \in Addrs
  <1>1. /\ HeapOK(s.h, G) /\ s.h \in Heaps /\ s.prevp \in On(s.h) /\ s.p = s.h.next[s.prevp] /\ s.at = Nil
        /\ s.prevp \in Addrs /\ s.p \in Addrs
    BY DEF Searches, States
  <1>2. Whole(s.h, G)
    BY <1>1 DEF HeapOK
  <1>3. s.p \in On(s.h)
    BY <1>1, <1>2, Headers
  <1> QED
    BY <1>1, <1>2, <1>3

\* How a turn changes the state of the search.
At(s, h, prevp, p) == /\ s \in States /\ s.h = h /\ s.prevp = prevp /\ s.p = p
                      /\ ~s.done /\ s.at = Nil

LEMMA TurnMakes ==
  ASSUME NEW G, NEW s \in Searches(G), ~s.done,
         NEW h \in Heaps, NEW prevp \in Addrs, NEW p \in Addrs
  PROVE  /\ [s EXCEPT !.done = TRUE] \in States
         /\ [s EXCEPT !.done = TRUE].done /\ [s EXCEPT !.done = TRUE].h = s.h
         /\ [s EXCEPT !.done = TRUE].at = Nil
         /\ At([s EXCEPT !.h = h, !.prevp = prevp, !.p = p], h, prevp, p)
         /\ At([s EXCEPT !.prevp = prevp, !.p = p], s.h, prevp, p)
  BY DEF Searches, States, At

\* The block at p is big enough: malloc cuts it.
LEMMA FoundIs ==
  ASSUME NEW G, NEW s \in Searches(G), NEW nu \in Nat \ {0}, ~s.done, s.h.size[s.p] >= nu
  PROVE  Turn(s, nu) \in Searches(G) /\ Turn(s, nu).done
  <1> DEFINE c == Cut(s.h, s.prevp, s.p, nu)
  <1>1. Turn(s, nu) = [s EXCEPT !.done = TRUE, !.at = c.at, !.h = c.h]
    BY DEF Turn, Found
  <1>2. HeapOK(c.h, G \cup {c.at}) /\ c.at \notin G /\ c.at \in Addrs
    BY SearchIs, CutIs
  <1> HIDE DEF c
  <1>3. c.h \in Heaps
    BY <1>2 DEF HeapOK, Whole
  <1>4. c.at # Nil
    BY <1>2, Bounds
  <1>5. LET t == [s EXCEPT !.done = TRUE, !.at = c.at, !.h = c.h]
        IN  t \in States /\ t.done /\ t.at = c.at /\ t.h = c.h
    BY <1>2, <1>3 DEF Searches, States
  <1> QED
    BY <1>1, <1>2, <1>4, <1>5 DEF Searches, States

\* A heap that is searched from the block behind freep.
LEMMA FromFreep ==
  ASSUME NEW h, NEW G, HeapOK(h, G), NEW s, At(s, h, h.freep, h.next[h.freep])
  PROVE  s \in Searches(G) /\ \A x \in On(h) : /\ Dist(s.p, x) <= Dist(s.p, h.freep)
                                               /\ Dist(s.p, x) \in 0 .. HeapEnd - 1
  <1>1. /\ Whole(h, G) /\ h \in Heaps
        /\ On(h) \in SUBSET (0 .. HeapEnd - 1) /\ h.freep \in On(h) /\ s.p \in On(h)
        /\ Succ(On(h), h.freep, s.p)
    <2>1. Whole(h, G) /\ h \in Heaps /\ s.p = h.next[h.freep]
      BY DEF HeapOK, Whole, At
    <2> QED
      BY <2>1, Headers
  <1>2. h.freep \in Addrs /\ s.p \in Addrs
    BY <1>1 DEF On
  <1>3. s \in Searches(G)
    BY <1>1, <1>2 DEF Searches, At, States
  <1>4. ASSUME NEW x \in On(h)
        PROVE  Dist(s.p, x) <= Dist(s.p, h.freep) /\ Dist(s.p, x) \in 0 .. HeapEnd - 1
    <2>1. Dist(s.p, x) <= Dist(s.p, h.freep)
      BY <1>1, Furthest
    <2>2. s.p \in 0 .. HeapEnd - 1 /\ x \in 0 .. HeapEnd - 1
      BY <1>1
    <2> QED
      BY <2>1, <2>2, DistIs
  <1> QED
    BY <1>3, <1>4

\* The search has come round: it asks for more core.
LEMMA RoundIs ==
  ASSUME NEW G, NEW s \in Searches(G), NEW nu \in Nat \ {0}, ~s.done, ~(s.h.size[s.p] >= nu), s.p = s.h.freep,
         NEW i \in Nat
  PROVE  Turn(s, nu) \in Searches(G) /\ (Near(s, nu, i) => Near(Turn(s, nu), nu, i + 1))
  <1> DEFINE m == MoreCore(s.h, nu)
             t == Turn(s, nu)
  <1>1. t = WithMore(s, m)
    BY DEF Turn
  <1> HIDE DEF t
  <1>2. CASE ~m.ok
    <2>1. t = [s EXCEPT !.done = TRUE]
      BY <1>1, <1>2 DEF WithMore
    <2>2. t \in States /\ t.done /\ t.h = s.h /\ t.at = Nil
      BY <2>1, SearchIs, TurnMakes
    <2> QED
      BY <2>2, SearchIs DEF Searches, States, Near, t
  <1>3. CASE m.ok
    <2>1. HeapOK(m.h, G) /\ \E x \in On(m.h) : m.h.size[x] >= nu
      BY <1>3, SearchIs, MoreIs
    <2>2. t = [s EXCEPT !.h = m.h, !.prevp = m.h.freep, !.p = m.h.next[m.h.freep]]
      BY <1>1, <1>3 DEF WithMore
    <2> HIDE DEF m
    <2>3. At(t, m.h, m.h.freep, m.h.next[m.h.freep])
      <3>1. m.h \in Heaps /\ m.h.freep \in Addrs /\ m.h.next[m.h.freep] \in Addrs
        <4>1. m.h \in Heaps /\ Ring(m.h)
          BY <2>1 DEF HeapOK, Whole
        <4> QED
          BY <4>1 DEF Ring, On
      <3> QED
        BY <2>2, <3>1, TurnMakes
    <2>4. t \in Searches(G) /\ \A x \in On(m.h) : /\ Dist(t.p, x) <= Dist(t.p, m.h.freep)
                                                  /\ Dist(t.p, x) \in 0 .. HeapEnd - 1
      BY <2>1, <2>3, FromFreep
    <2>5. ASSUME Near(s, nu, i) PROVE i <= HeapEnd - 1
      <3> DEFINE d == Dist(s.p, s.h.freep)
      <3>1. s.p \in 0 .. HeapEnd - 1 /\ On(s.h) \in SUBSET (0 .. HeapEnd - 1)
        BY SearchIs, Headers
      <3>2. d = 0
        BY <3>1, DistIs
      <3>3. CASE d + i <= HeapEnd - 1
        BY <3>2, <3>3, Bounds
      <3>4. CASE Ahead(s, nu, i)
        <4>1. PICK x \in On(s.h) : s.h.size[x] >= nu /\ Dist(s.p, x) <= d
          BY <3>4 DEF Ahead
        <4>2. x \in 0 .. HeapEnd - 1
          BY <3>1
        <4>3. Dist(s.p, x) \in 0 .. HeapEnd - 1 /\ (Dist(s.p, x) = 0 => x = s.p)
          BY <3>1, <4>2, DistIs
        <4> HIDE DEF d
        <4>4. Dist(s.p, x) = 0
          BY <3>2, <4>1, <4>3
        <4> QED
          BY <4>1, <4>3, <4>4
      <3> QED
        BY <2>5, <3>3, <3>4 DEF Near
    <2>6. PICK x \in On(m.h) : m.h.size[x] >= nu
      BY <2>1
    <2>7. ASSUME Near(s, nu, i) PROVE Dist(t.p, x) + (i + 1) <= 2 * HeapEnd - 1
      <3>1. Dist(t.p, x) \in 0 .. HeapEnd - 1 /\ i <= HeapEnd - 1
        BY <2>4, <2>5, <2>7
      <3> QED
        BY <3>1, Bounds
    <2>8. ASSUME Near(s, nu, i) PROVE Ahead(t, nu, i + 1)
      <3>1. t.h = m.h
        BY <2>3 DEF At
      <3> QED
        BY <2>4, <2>6, <2>7, <2>8, <3>1 DEF Ahead
    <2> QED
      BY <2>4, <2>8 DEF Near, t
  <1> QED
    BY <1>2, <1>3

\* The search goes one block on.
LEMMA OnwardIs ==
  ASSUME NEW G, NEW s \in Searches(G), NEW nu \in Nat \ {0}, ~s.done, ~(s.h.size[s.p] >= nu), s.p # s.h.freep,
         NEW i \in Nat
  PROVE  Turn(s, nu) \in Searches(G) /\ (Near(s, nu, i) => Near(Turn(s, nu), nu, i + 1))
  <1> DEFINE t == Turn(s, nu)
             L == On(s.h)
             q == s.h.next[s.p]
             f == s.h.freep
  <1>1. t = [s EXCEPT !.prevp = s.p, !.p = q]
    BY DEF Turn
  <1>2. /\ L \in SUBSET (0 .. HeapEnd - 1) /\ s.p \in L /\ q \in L /\ Succ(L, s.p, q) /\ f \in L
        /\ HeapOK(s.h, G) /\ s.h \in Heaps
    BY SearchIs, Headers
  <1> HIDE DEF t
  <1>3. At(t, s.h, s.p, q)
    <2>1. s.p \in Addrs /\ q \in Addrs /\ s.h \in Heaps
      BY <1>2 DEF On
    <2> HIDE DEF q
    <2> QED
      BY <1>1, <2>1, TurnMakes
  <1>4. t \in Searches(G)
    <2>1. s.p \in Addrs /\ q \in Addrs
      BY <1>2 DEF On
    <2> QED
      BY <1>2, <1>3, <2>1 DEF Searches, At, States
  <1> HIDE DEF q, f, L
  <1>5. ASSUME NEW y \in L, y # s.p
        PROVE  /\ Dist(s.p, q) \in Nat /\ Dist(s.p, q) >= 1 /\ Dist(q, y) = Dist(s.p, y) - Dist(s.p, q)
               /\ Dist(q, y) \in Nat /\ Dist(s.p, y) \in Nat
    <2>1. Dist(s.p, q) \in Nat /\ Dist(s.p, q) >= 1 /\ Dist(q, y) = Dist(s.p, y) - Dist(s.p, q)
      BY <1>2, <1>5, Nearer
    <2>2. s.p \in 0 .. HeapEnd - 1 /\ q \in 0 .. HeapEnd - 1 /\ y \in 0 .. HeapEnd - 1
      BY <1>2
    <2>3. Dist(q, y) \in 0 .. HeapEnd - 1 /\ Dist(s.p, y) \in 0 .. HeapEnd - 1
      BY <2>2, DistIs
    <2> QED
      BY <2>1, <2>3
  <1>6. t.p = q /\ t.h = s.h /\ ~t.done
    BY <1>3 DEF At
  <1>7. f # s.p
    BY DEF f
  <1>8. CASE Dist(s.p, f) + i <= HeapEnd - 1
    <2>1. Dist(q, f) + (i + 1) <= HeapEnd - 1
      BY <1>2, <1>5, <1>7, <1>8, Bounds
    <2> QED
      BY <1>4, <1>6, <2>1 DEF Near, f, t
  <1>9. CASE Ahead(s, nu, i)
    <2>1. PICK x \in L : s.h.size[x] >= nu /\ Dist(s.p, x) <= Dist(s.p, f) /\ Dist(s.p, x) + i <= 2 * HeapEnd - 1
      BY <1>9 DEF Ahead, L, f
    <2>2. x # s.p
      BY <2>1
    <2>3. Dist(q, x) <= Dist(q, f) /\ Dist(q, x) + (i + 1) <= 2 * HeapEnd - 1
      <3>1. /\ Dist(s.p, q) \in Nat /\ Dist(s.p, q) >= 1 /\ Dist(s.p, x) \in Nat /\ Dist(s.p, f) \in Nat
            /\ Dist(q, x) = Dist(s.p, x) - Dist(s.p, q) /\ Dist(q, f) = Dist(s.p, f) - Dist(s.p, q)
        BY <1>2, <1>5, <1>7, <2>2
      <3> QED
        BY <2>1, <3>1, Bounds
    <2>4. Ahead(t, nu, i + 1)
      BY <1>6, <2>1, <2>3 DEF Ahead, L, f
    <2> QED
      BY <1>4, <2>4 DEF Near, t
  <1>10. Near(s, nu, i) => Dist(s.p, f) + i <= HeapEnd - 1 \/ Ahead(s, nu, i)
    BY DEF Near, f
  <1> QED
    BY <1>4, <1>8, <1>9, <1>10 DEF t

LEMMA TurnIs ==
  ASSUME NEW G, NEW s \in Searches(G), NEW nu \in Nat \ {0}
  PROVE  /\ Turn(s, nu) \in Searches(G)
         /\ \A i \in Nat : Near(s, nu, i) => Near(Turn(s, nu), nu, i + 1)
  <1>1. CASE s.done
    <2>1. Turn(s, nu) = s
      BY <1>1 DEF Turn
    <2> QED
      BY <1>1, <2>1 DEF Near
  <1>2. CASE ~s.done
    <2>1. CASE s.h.size[s.p] >= nu
      BY <1>2, <2>1, FoundIs DEF Near
    <2>2. CASE ~(s.h.size[s.p] >= nu) /\ s.p = s.h.freep
      BY <1>2, <2>2, RoundIs
    <2>3. CASE ~(s.h.size[s.p] >= nu) /\ s.p # s.h.freep
      BY <1>2, <2>3, OnwardIs
    <2> QED
      BY <2>1, <2>2, <2>3
  <1> QED
    BY <1>1, <1>2

\* The search of malloc ends, with a block or with none to be had.
LEMMA WalkIs ==
  ASSUME NEW h, NEW G, HeapOK(h, G), NEW nu \in Nat \ {0}
  PROVE  Walk(h, nu) \in Searches(G) /\ Walk(h, nu).done
  <1> DEFINE S == Searches(G)
             n == 2 * HeapEnd
             c == [h |-> h, prevp |-> h.freep, p |-> h.next[h.freep], done |-> FALSE, at |-> Nil]
             G1 == [x \in (1 .. n) \X S |-> Turn(x[2], nu)]
             Rec(g) == [i \in 0 .. n |-> IF i = 0 THEN c ELSE Turn(g[i - 1], nu)]
             walk == CHOOSE g : g = Rec(g)
  <1>1. Walk(h, nu) = walk[n]
    BY DEF Walk
  <1>2. At(c, h, h.freep, h.next[h.freep])
    <2>1. h \in Heaps /\ h.freep \in Addrs /\ h.next[h.freep] \in Addrs
      BY DEF HeapOK, Whole, Ring, On
    <2>2. c \in States
      BY <2>1 DEF States
    <2> QED
      BY <2>2 DEF At
  <1> HIDE DEF c
  <1>3. c \in S /\ Dist(c.p, h.freep) \in 0 .. HeapEnd - 1 /\ c.h = h
    <2>1. h.freep \in On(h)
      BY Headers DEF HeapOK
    <2> QED
      BY <1>2, <2>1, FromFreep DEF At
  <1>4. n \in Nat /\ \A i \in 1 .. n : i \in 0 .. n /\ i # 0 /\ i - 1 \in 0 .. n
    BY Bounds
  <1>5. \A s \in S : Turn(s, nu) \in S /\ \A i \in Nat : Near(s, nu, i) => Near(Turn(s, nu), nu, i + 1)
    BY TurnIs
  <1>6. G1 \in [(1 .. n) \X S -> S] /\ \A i \in 1 .. n, s \in S : G1[<<i, s>>] = Turn(s, nu)
    <2> HIDE DEF S, n
    <2> QED
      BY <1>5
  <1>7. PICK f : Follows(f, S, G1, c, n)
    <2> HIDE DEF S, G1, n
    <2> QED
      BY <1>3, <1>4, <1>6, Iterate
  <1>8. f \in [0 .. n -> S] /\ f[0] = c /\ \A i \in 1 .. n : f[i] = Turn(f[i - 1], nu)
    <2>1. f \in [0 .. n -> S] /\ f[0] = c /\ \A i \in 1 .. n : f[i] = G1[<<i, f[i - 1]>>]
      <3> HIDE DEF S, G1, n
      <3> QED
        BY <1>7 DEF Follows
    <2> HIDE DEF S, G1, n
    <2> QED
      BY <1>4, <1>6, <2>1
  <1>9. f = Rec(f)
    <2>1. \A i \in 0 .. n : f[i] = IF i = 0 THEN c ELSE Turn(f[i - 1], nu)
      <3> HIDE DEF S, n
      <3> QED
        BY <1>4, <1>8
    <2> HIDE DEF S, n
    <2> QED
      BY <1>8, <2>1
  <1>10. walk = Rec(walk)
    <2> HIDE DEF Rec
    <2> QED
      BY <1>9
  <1> HIDE DEF walk
  <1>11. \A i \in 0 .. n : walk[i] = IF i = 0 THEN c ELSE Turn(walk[i - 1], nu)
    BY <1>10
  <1> DEFINE P == {i \in Nat : i <= n => walk[i] \in S /\ Near(walk[i], nu, i)}
  <1> HIDE DEF S, n, Rec, G1
  <1>12. 0 \in P
    <2>1. walk[0] = c
      BY <1>4, <1>11
    <2>2. Dist(c.p, c.h.freep) + 0 <= HeapEnd - 1
      BY <1>3, Bounds
    <2> QED
      BY <1>3, <2>1, <2>2 DEF Near
  <1>13. ASSUME NEW i \in 0 .. n - 1, i \in P PROVE i + 1 \in P
    <2>1. i \in Nat /\ i + 1 \in 0 .. n /\ i + 1 # 0 /\ (i + 1) - 1 = i /\ i <= n /\ i + 1 \in Nat
      BY <1>4
    <2>2. walk[i + 1] = Turn(walk[i], nu) /\ walk[i] \in S /\ Near(walk[i], nu, i)
      BY <1>11, <1>13, <2>1
    <2> QED
      BY <1>5, <2>1, <2>2
  <1>14. n \in P
    <2>1. P \in SUBSET Nat /\ n \in 0 .. n
      BY <1>4
    <2> HIDE DEF P
    <2> QED
      BY <1>4, <1>12, <1>13, <2>1, InductionUpTo
  <1>15. walk[n] \in S /\ Near(walk[n], nu, n)
    BY <1>4, <1>14
  <1>16. walk[n].done
    <2> DEFINE s == walk[n]
    <2> HIDE DEF s
    <2>1. SUFFICES ASSUME ~s.done PROVE FALSE
      BY DEF s
    <2>2. s \in Searches(G) /\ Near(s, nu, n)
      BY <1>15 DEF s, S
    <2>3. s.p \in 0 .. HeapEnd - 1 /\ s.h.freep \in 0 .. HeapEnd - 1 /\ On(s.h) \in SUBSET (0 .. HeapEnd - 1)
      <3>1. Whole(s.h, G) /\ s.p \in On(s.h)
        BY <2>1, <2>2, SearchIs
      <3> QED
        BY <3>1, Headers
    <2>4. ASSUME NEW x \in 0 .. HeapEnd - 1 PROVE Dist(s.p, x) \in Nat
      <3>1. Dist(s.p, x) \in 0 .. HeapEnd - 1
        BY <2>3, DistIs
      <3> QED
        BY <3>1
    <2>5. ~(Dist(s.p, s.h.freep) + n <= HeapEnd - 1)
      <3>1. Dist(s.p, s.h.freep) \in Nat
        BY <2>3, <2>4
      <3> QED
        BY <3>1, Bounds DEF n
    <2>6. ~Ahead(s, nu, n)
      <3>1. ASSUME NEW x \in On(s.h) PROVE ~(Dist(s.p, x) + n <= 2 * HeapEnd - 1)
        <4>1. Dist(s.p, x) \in Nat
          BY <2>3, <2>4
        <4> QED
          BY <4>1, Bounds DEF n
      <3> QED
        BY <3>1 DEF Ahead
    <2> QED
      BY <2>1, <2>2, <2>5, <2>6 DEF Near
  <1> QED
    BY <1>1, <1>15, <1>16 DEF S

LEMMA AllocIs ==
  ASSUME NEW h, NEW G, HeapOK(Started(h), G), NEW nu \in Nat \ {0}
  PROVE  LET r == Alloc(h, nu)
         IN  \/ r.at = Nil /\ HeapOK(r.h, G)
             \/ r.at # Nil /\ r.at \in Addrs /\ r.at \notin G /\ HeapOK(r.h, G \cup {r.at})
  <1> DEFINE w == Walk(Started(h), nu)
  <1>1. w \in Searches(G) /\ w.done
    BY WalkIs
  <1> HIDE DEF w
  <1>2. Alloc(h, nu) = [at |-> w.at, h |-> w.h]
    BY <1>1 DEF Alloc, AllocOn, Answer, w
  <1> QED
    BY <1>1, <1>2 DEF Searches, States

-----------------------------------------------------------------------------
(* The calls keep the heap whole *)

LEMMA StartedIs ==
  ASSUME MallocInv
  PROVE  HeapOK(Started(Heap), given)
  <1>1. CASE HeapOK(Heap, given)
    <2>1. Heap.freep # Nil
      <3>1. Heap.freep \in Addrs
        BY <1>1 DEF HeapOK, Whole, Ring, On
      <3> QED
        BY <3>1, Bounds
    <2> QED
      BY <1>1, <2>1 DEF Started
  <1>2. CASE Unused
    <2> DEFINE h == Started(Heap)
               nx == [next EXCEPT ![Base] = Base]
               sz == [size EXCEPT ![Base] = 0]
    <2>1. h = [next |-> nx, size |-> sz, freep |-> Base, brk |-> brk, stuck |-> stuck]
      BY <1>2 DEF Started, Heap, Unused
    <2>2. /\ Base \in Addrs /\ \A a \in Addrs : sz[a] = 0 /\ nx[a] = IF a = Base THEN Base ELSE Nil
          /\ nx \in [Addrs -> Addrs \cup {Nil}] /\ sz \in [Addrs -> Nat]
      <3>1. Base \in Addrs
        BY Bounds
      <3>2. next \in [Addrs -> Addrs \cup {Nil}] /\ \A a \in Addrs : next[a] = Nil
        BY <1>2 DEF Unused
      <3>3. size \in [Addrs -> Nat] /\ \A a \in Addrs : size[a] = 0
        BY <1>2 DEF Unused
      <3>4. 0 \in Nat
        OBVIOUS
      <3> QED
        BY <3>1, <3>2, <3>3, <3>4
    <2> HIDE DEF h, nx, sz
    <2>3. h.next = nx /\ h.size = sz /\ h.freep = Base /\ h.brk = HeapStart /\ ~h.stuck
      BY <1>2, <2>1 DEF Unused
    <2>4. h \in Heaps
      <3>1. brk \in HeapStart .. HeapEnd /\ stuck \in BOOLEAN
        <4>1. HeapStart \in HeapStart .. HeapEnd
          BY Bounds
        <4> QED
          BY <1>2, <4>1, Zenon DEF Unused
      <3> QED
        BY <2>1, <2>2, <3>1 DEF Heaps
    <2>5. On(h) = {Base}
      BY <2>2, <2>3, Bounds DEF On
    <2>6. Ring(h)
      <3>1. h.next[Base] = Base
        BY <2>2, <2>3
      <3>2. Succ({Base}, Base, Base)
        BY Bounds DEF Succ
      <3> QED
        BY <2>3, <2>5, <3>1, <3>2 DEF Ring
    <2>7. Blocks(h) = {} /\ given = {}
      BY <1>2, <2>5 DEF Blocks, Unused
    <2>8. Tiles(h, {})
      BY <2>3, Bounds DEF Tiles
    <2>9. h.size[Base] = 0
      BY <2>2, <2>3
    <2> QED
      BY <2>3, <2>4, <2>6, <2>7, <2>8, <2>9 DEF HeapOK, Whole, Merged, h
  <1> QED
    BY <1>1, <1>2 DEF MallocInv

\* A call leaves the heap that SetHeap is told of.
LEMMA SetHeapIs ==
  ASSUME NEW h, NEW G, HeapOK(h, G), SetHeap(h), given' = G
  PROVE  MallocInv'
  <1>1. h \in Heaps
    BY DEF HeapOK, Whole
  <1>2. Heap' = h
    BY <1>1 DEF Heap, SetHeap, Heaps
  <1>3. HeapOK(Heap', given')
    BY <1>2
  <1> QED
    BY <1>3 DEF MallocInv

LEMMA MallocStep ==
  ASSUME MallocInv, MallocNext
  PROVE  MallocInv'
  <1>1. ASSUME NEW nu \in Requests PROVE nu \in Nat \ {0}
    BY MallocAssumption
  <1>2. ASSUME NEW nu \in Requests, malloc(nu) PROVE MallocInv'
    <2> DEFINE r == Alloc(Heap, nu)
    <2>1. \/ r.at = Nil /\ HeapOK(r.h, given)
          \/ r.at # Nil /\ HeapOK(r.h, given \cup {r.at})
      BY <1>1, StartedIs, AllocIs
    <2>2. SetHeap(r.h) /\ given' = IF r.at = Nil THEN given ELSE given \cup {r.at}
      BY <1>2 DEF malloc, Given
    <2> HIDE DEF r
    <2> QED
      BY <2>1, <2>2, SetHeapIs
  <1>3. ASSUME NEW bp \in given, free(bp) PROVE MallocInv'
    <2>1. HeapOK(Heap, given)
      BY <1>3 DEF MallocInv, Unused
    <2>2. HeapOK(Free(Heap, bp), given \ {bp})
      BY <2>1, FreeIs
    <2>3. SetHeap(Free(Heap, bp)) /\ given' = given \ {bp}
      BY <1>3 DEF free
    <2> QED
      BY <2>2, <2>3, SetHeapIs
  <1>4. ASSUME NEW bp \in given, NEW nu \in Requests, realloc(bp, nu) PROVE MallocInv'
    <2> DEFINE r == Alloc(Heap, nu)
    <2>1. \/ r.at = Nil /\ HeapOK(r.h, given)
          \/ r.at # Nil /\ HeapOK(r.h, given \cup {r.at})
      BY <1>1, StartedIs, AllocIs
    <2>2. IF r.at = Nil THEN SetHeap(r.h) /\ UNCHANGED given
          ELSE SetHeap(Free(r.h, bp)) /\ given' = (given \cup {r.at}) \ {bp}
      BY <1>4 DEF realloc, Moved
    <2> HIDE DEF r
    <2>3. CASE r.at = Nil
      BY <2>1, <2>2, <2>3, SetHeapIs
    <2>4. CASE r.at # Nil
      <3>1. HeapOK(r.h, given \cup {r.at}) /\ bp \in given \cup {r.at}
        BY <2>1, <2>4
      <3>2. HeapOK(Free(r.h, bp), (given \cup {r.at}) \ {bp})
        BY <3>1, FreeIs
      <3> QED
        BY <2>2, <2>4, <3>2, SetHeapIs
    <2> QED
      BY <2>3, <2>4
  <1> QED
    BY <1>2, <1>3, <1>4 DEF MallocNext

-----------------------------------------------------------------------------
(* What the invariant says of the list that malloc and free walk *)

\* Going round, the one before y lies between.
LEMMA Sooner ==
  ASSUME NEW L \in SUBSET (0 .. HeapEnd - 1), NEW f \in L, NEW q \in L, NEW y \in L, Succ(L, q, y), y # f
  PROVE  Dist(f, q) \in Nat /\ Dist(f, y) \in Nat /\ Dist(f, q) < Dist(f, y)
  BY Bounds DEF Dist, Succ

\* From freep every block of the list is reached, in fewer steps than the
\* heap has units.
LEMMA OnListIs ==
  ASSUME HeapOK(Heap, given)
  PROVE  OnList = On(Heap)
  <1> DEFINE L == On(Heap)
             S == SUBSET L
             n == HeapEnd
             c == {freep}
             step(s) == s \cup {next[a] : a \in s}
             G1 == [x \in (1 .. n) \X S |-> step(x[2])]
             Rec(g) == [i \in 0 .. n |-> IF i = 0 THEN c ELSE LET s == g[i - 1] IN s \cup {next[a] : a \in s}]
             walk == CHOOSE g : g = Rec(g)
  <1>1. /\ L \in SUBSET (0 .. HeapEnd - 1) /\ freep \in L /\ freep # Nil /\ Base \in L
        /\ \A a \in L : next[a] \in L /\ Succ(L, a, next[a])
    <2>1. Whole(Heap, given) /\ Heap.freep = freep /\ Heap.next = next
      BY DEF HeapOK, Heap
    <2>2. /\ L \in SUBSET (0 .. HeapEnd - 1) /\ freep \in L /\ Base \in L
          /\ \A a \in L : next[a] \in L /\ Succ(L, a, next[a])
      <3> HIDE DEF Heap
      <3> QED
        BY <2>1, Headers
    <2> QED
      BY <2>2, Bounds
  <1>2. OnList = walk[n]
    BY <1>1 DEF OnList
  <1> HIDE DEF L
  <1>3. n \in Nat /\ \A i \in 1 .. n : i \in 0 .. n /\ i # 0 /\ i - 1 \in 0 .. n
    BY Bounds
  <1>4. c \in S /\ \A s \in S : step(s) \in S
    BY <1>1
  <1>5. G1 \in [(1 .. n) \X S -> S] /\ \A i \in 1 .. n, s \in S : G1[<<i, s>>] = step(s)
    <2> HIDE DEF S, n, step
    <2> QED
      BY <1>4
  <1>6. PICK f : Follows(f, S, G1, c, n)
    <2> HIDE DEF S, G1, n, c
    <2> QED
      BY <1>3, <1>4, <1>5, Iterate
  <1>7. f \in [0 .. n -> S] /\ f[0] = c /\ \A i \in 1 .. n : f[i] = step(f[i - 1])
    <2>1. f \in [0 .. n -> S] /\ f[0] = c /\ \A i \in 1 .. n : f[i] = G1[<<i, f[i - 1]>>]
      <3> HIDE DEF S, G1, n, c
      <3> QED
        BY <1>6 DEF Follows
    <2> HIDE DEF S, G1, n, step, c
    <2> QED
      BY <1>3, <1>5, <2>1
  <1>8. f = Rec(f)
    <2>1. \A i \in 0 .. n : f[i] = IF i = 0 THEN c ELSE step(f[i - 1])
      <3> HIDE DEF S, n, step, c
      <3> QED
        BY <1>3, <1>7
    <2> HIDE DEF S, n, c
    <2> QED
      BY <1>7, <2>1
  <1>9. walk = Rec(walk)
    <2> HIDE DEF Rec
    <2> QED
      BY <1>8
  <1> HIDE DEF walk
  <1>10. \A i \in 0 .. n : walk[i] = IF i = 0 THEN c ELSE step(walk[i - 1])
    BY <1>9
  <1> DEFINE P == {i \in Nat : i <= n => walk[i] \in S /\ \A y \in L : Dist(freep, y) <= i => y \in walk[i]}
  <1> HIDE DEF n, Rec, G1, step, S
  <1>11. 0 \in P
    <2>1. walk[0] = c
      BY <1>3, <1>10
    <2>2. ASSUME NEW y \in L, Dist(freep, y) <= 0 PROVE y = freep
      <3>1. y \in 0 .. HeapEnd - 1 /\ freep \in 0 .. HeapEnd - 1
        BY <1>1
      <3>2. Dist(freep, y) \in 0 .. HeapEnd - 1 /\ (Dist(freep, y) = 0 => y = freep)
        BY <3>1, DistIs
      <3> QED
        BY <2>2, <3>2
    <2> QED
      BY <1>4, <2>1, <2>2
  <1>12. ASSUME NEW i \in 0 .. n - 1, i \in P PROVE i + 1 \in P
    <2>1. i \in Nat /\ i + 1 \in 0 .. n /\ i + 1 # 0 /\ (i + 1) - 1 = i /\ i <= n /\ i + 1 \in Nat
      BY <1>3
    <2>2. /\ walk[i + 1] = step(walk[i]) /\ walk[i] \in S
          /\ \A y \in L : Dist(freep, y) <= i => y \in walk[i]
      BY <1>10, <1>12, <2>1
    <2>3. ASSUME NEW y \in L, Dist(freep, y) <= i + 1 PROVE y \in walk[i + 1]
      <3>1. CASE y = freep
        <4>1. Dist(freep, freep) <= i
          <5>1. freep \in 0 .. HeapEnd - 1
            BY <1>1
          <5>2. Dist(freep, freep) = 0
            BY <5>1, DistIs
          <5> QED
            BY <2>1, <5>2
        <4> QED
          BY <1>1, <2>2, <3>1, <4>1 DEF step
      <3>2. CASE y # freep
        <4>1. PICK q \in L : (\A m \in L : Succ(L, q, m) => m = y) /\ Succ(L, q, y)
          BY <1>1, Before
        <4>2. next[q] = y
          BY <1>1, <4>1
        <4>3. Dist(freep, q) \in Nat /\ Dist(freep, y) \in Nat /\ Dist(freep, q) < Dist(freep, y)
          BY <1>1, <3>2, <4>1, Sooner
        <4>4. Dist(freep, q) <= i
          BY <2>1, <2>3, <4>3
        <4> QED
          BY <2>2, <4>2, <4>4 DEF step
      <3> QED
        BY <3>1, <3>2
    <2> QED
      BY <1>4, <2>1, <2>2, <2>3
  <1>13. n \in P
    <2>1. P \in SUBSET Nat /\ n \in 0 .. n
      BY <1>3
    <2> HIDE DEF P
    <2> QED
      BY <1>3, <1>11, <1>12, <2>1, InductionUpTo
  <1>14. ASSUME NEW y \in L PROVE Dist(freep, y) <= n
    <2>1. y \in 0 .. HeapEnd - 1 /\ freep \in 0 .. HeapEnd - 1
      BY <1>1
    <2>2. Dist(freep, y) \in 0 .. HeapEnd - 1
      BY <2>1, DistIs
    <2> QED
      BY <2>2, Bounds DEF n
  <1> QED
    BY <1>2, <1>3, <1>13, <1>14 DEF S, L

LEMMA TiledIs ==
  ASSUME HeapOK(Heap, given)
  PROVE  HeapTiled
  <1> DEFINE L == On(Heap)
             B == given \cup Blocks(Heap)
  <1>1. /\ Heap.size = size /\ Heap.brk = brk /\ OnList = L /\ Whole(Heap, given)
    BY OnListIs DEF HeapOK, Heap
  <1>2. given \cup (OnList \ {Base}) = B
    BY <1>1 DEF Blocks
  <1>3. /\ \A a \in B : /\ a \in HeapStart .. HeapEnd - 1 /\ size[a] \in Nat \ {0} /\ a + size[a] <= brk
        /\ \A a, b \in B : a < b => a + size[a] <= b
        /\ \A u \in HeapStart .. brk - 1 : \E a \in B : a <= u /\ u < a + size[a]
        /\ given \cap L = {} /\ brk \in HeapStart .. HeapEnd
    <2> HIDE DEF Heap
    <2> QED
      BY <1>1, TilesAre, Headers
  <1> HIDE DEF B, L
  <1>4. \A a \in B : a \in Nat /\ a >= HeapStart /\ size[a] \in Nat \ {0} /\ a + size[a] <= brk
    BY <1>3, Bounds
  <1>5. UNION {Block(a) : a \in B} = HeapStart .. brk - 1
    <2>1. ASSUME NEW a \in B, NEW u \in Block(a) PROVE u \in HeapStart .. brk - 1
      <3>1. u \in a .. a + size[a] - 1 /\ brk \in Nat
        BY <1>3, Bounds DEF Block
      <3> DEFINE s == size[a]
      <3>2. a \in Nat /\ a >= HeapStart /\ s \in Nat /\ a + s <= brk /\ u \in a .. a + s - 1
        BY <1>4, <3>1
      <3> HIDE DEF s
      <3> QED
        BY <3>1, <3>2, Bounds
    <2>2. ASSUME NEW u \in HeapStart .. brk - 1 PROVE \E a \in B : u \in Block(a)
      <3>1. PICK a \in B : a <= u /\ u < a + size[a]
        BY <1>3
      <3>2. u \in Nat /\ a \in Nat /\ size[a] \in Nat
        BY <1>3, <1>4, Bounds
      <3>3. u \in a .. a + size[a] - 1
        BY <3>1, <3>2
      <3> QED
        BY <3>3 DEF Block
    <2> QED
      BY <2>1, <2>2
  <1>6. ASSUME NEW a \in B, NEW b \in B, a # b PROVE Block(a) \cap Block(b) = {}
    <2>1. a \in Nat /\ b \in Nat /\ size[a] \in Nat /\ size[b] \in Nat
      BY <1>4
    <2>2. a + size[a] <= b \/ b + size[b] <= a
      BY <1>3, <1>6, <2>1
    <2> QED
      BY <2>1, <2>2 DEF Block
  <1> QED
    BY <1>1, <1>2, <1>3, <1>5, <1>6 DEF HeapTiled

LEMMA SortedIs ==
  ASSUME HeapOK(Heap, given)
  PROVE  Sorted
  <1> DEFINE L == On(Heap)
  <1>1. /\ Heap.size = size /\ Heap.next = next /\ Heap.brk = brk /\ OnList = L /\ Whole(Heap, given)
        /\ size[Base] = 0
        /\ \A a \in Blocks(Heap) : a + size[a] # next[a]
    <2>1. HeapOK(Heap, given) /\ Heap.size = size /\ Heap.next = next /\ Heap.brk = brk
      BY DEF Heap
    <2> HIDE DEF Heap
    <2> QED
      BY <2>1, OnListIs DEF HeapOK, Whole, Merged
  <1>2. /\ L \in SUBSET (0 .. HeapEnd - 1) /\ Base \in L
        /\ \A a \in L : next[a] \in L /\ Succ(L, a, next[a])
        /\ \A a \in L \ {Base} : size[a] \in Nat /\ \A b \in L \ {Base} : a < b => a + size[a] <= b
    <2> HIDE DEF Heap
    <2> QED
      BY <1>1, Headers, TilesAre DEF Blocks
  <1>3. Blocks(Heap) = L \ {Base}
    BY DEF Blocks
  <1> HIDE DEF L
  <1>4. \A a \in L : a \in Nat /\ (a # Base => a > 0)
    BY <1>2, Bounds
  <1>5. Cardinality({a \in L : next[a] <= a}) = 1
    <2>1. PICK q \in L : (\A m \in L : Succ(L, q, m) => m = Base) /\ Succ(L, q, Base)
      BY <1>2, Before
    <2>2. next[q] = Base /\ \A c \in L : c <= q
      <3>1. next[q] = Base
        BY <1>2, <2>1
      <3>2. ~(q < Base)
        BY <1>4, Bounds
      <3> QED
        BY <2>1, <3>1, <3>2 DEF Succ
    <2>3. next[q] <= q
      BY <1>4, <2>2, Bounds
    <2>4. ASSUME NEW a \in L, next[a] <= a PROVE a = q
      <3>1. next[a] \in L /\ Succ(L, a, next[a])
        BY <1>2
      <3>2. \A c \in L : c <= a
        BY <1>4, <2>4, <3>1 DEF Succ
      <3> QED
        BY <1>4, <2>2, <3>2
    <2>5. {a \in L : next[a] <= a} = {q}
      BY <2>3, <2>4
    <2> QED
      BY <2>5, FS_Singleton
  <1>6. ASSUME NEW a \in L, NEW b \in L, size[a] > 0, a + size[a] = b PROVE FALSE
    <2>1. a \in L \ {Base} /\ a \in Nat /\ b \in Nat /\ size[a] \in Nat /\ next[a] \in L /\ Succ(L, a, next[a])
          /\ next[a] \in Nat
      <3>1. a # Base
        BY <1>1, <1>6
      <3> QED
        BY <1>2, <1>4, <3>1
    <2>2. a < b
      BY <1>6, <2>1
    <2>3. ~(\A c \in L : c <= a)
      BY <2>1, <2>2
    <2>4. a < next[a] /\ next[a] <= b
      BY <2>1, <2>2, <2>3 DEF Succ
    <2>5. next[a] # Base
      BY <2>1, <2>4, Bounds
    <2>6. a + size[a] <= next[a]
      BY <1>2, <2>1, <2>4, <2>5
    <2>7. a + size[a] = next[a]
      BY <1>6, <2>1, <2>4, <2>6
    <2> QED
      BY <1>1, <1>3, <2>1, <2>7
  <1> QED
    BY <1>1, <1>2, <1>5, <1>6 DEF Sorted

LEMMA HeapIsSound ==
  ASSUME MallocInv
  PROVE  HeapSound
  <1>1. CASE Unused
    <2>1. OnList = {}
      BY <1>1 DEF Unused, OnList
    <2>2. MallocTypeOK /\ SearchesEnd
      <3>1. HeapStart \in HeapStart .. HeapEnd /\ Nil \in Addrs \cup {Nil} /\ 0 \in Nat
        BY Bounds
      <3>2. next \in [Addrs -> Addrs \cup {Nil}] /\ size \in [Addrs -> Nat]
        BY <1>1, <3>1 DEF Unused
      <3>3. SearchesEnd
        BY <1>1 DEF Unused, SearchesEnd
      <3>4. freep \in Addrs \cup {Nil} /\ brk \in HeapStart .. HeapEnd /\ given \subseteq HeapStart .. HeapEnd
        BY <1>1, <3>1 DEF Unused
      <3> QED
        BY <3>2, <3>3, <3>4 DEF MallocTypeOK
    <2>3. HeapTiled
      <3>1. brk = HeapStart /\ given = {}
        BY <1>1 DEF Unused
      <3>2. HeapStart .. HeapStart - 1 = {}
        BY Bounds
      <3> QED
        BY <2>1, <3>1, <3>2 DEF HeapTiled
    <2>4. Sorted
      BY <1>1 DEF Unused, Sorted
    <2> QED
      BY <2>2, <2>3, <2>4 DEF HeapSound
  <1>2. CASE HeapOK(Heap, given)
    <2>1. MallocTypeOK /\ SearchesEnd
      <3>1. /\ Heap.next = next /\ Heap.size = size /\ Heap.freep = freep /\ Heap.brk = brk /\ Heap.stuck = stuck
        BY DEF Heap
      <3>2. Heap \in Heaps /\ ~Heap.stuck /\ Whole(Heap, given)
        <4> HIDE DEF Heap
        <4> QED
          BY <1>2 DEF HeapOK, Whole
      <3> HIDE DEF Heap
      <3>3. given \subseteq HeapStart .. HeapEnd
        <4>1. given \in SUBSET (HeapStart .. HeapEnd - 1)
          BY <3>2, Headers
        <4> QED
          BY <4>1, Bounds
      <3>4. /\ next \in [Addrs -> Addrs \cup {Nil}] /\ size \in [Addrs -> Nat]
            /\ freep \in Addrs \cup {Nil} /\ brk \in HeapStart .. HeapEnd
        BY <3>1, <3>2 DEF Heaps
      <3> QED
        BY <3>1, <3>2, <3>3, <3>4 DEF MallocTypeOK, SearchesEnd
    <2> QED
      BY <1>2, <2>1, TiledIs, SortedIs DEF HeapSound
  <1> QED
    BY <1>1, <1>2 DEF MallocInv

-----------------------------------------------------------------------------
\* The free list of user/lib/malloc.c: its searches end, every unit that sbrk gave is
\* in one block, and the list is ordered and merged, after any calls.
THEOREM HeapCorrect == MallocSpec => []HeapSound
  <1>1. MallocInit => MallocInv
    BY DEF MallocInit, MallocInv, Unused
  <1>2. MallocInv /\ [MallocNext]_mvars => MallocInv'
    <2>1. ASSUME MallocInv, UNCHANGED mvars PROVE MallocInv'
      BY <2>1 DEF mvars, MallocInv, Unused, Heap
    <2> QED
      BY <2>1, MallocStep
  <1>3. MallocInv => HeapSound
    BY HeapIsSound
  <1> QED
    BY <1>1, <1>2, <1>3, PTL DEF MallocSpec

-----------------------------------------------------------------------------
(* Part five: the scan of the device tree.                                 *)
(*                                                                         *)
(* A node begun and not ended has a slot of the stack to itself, and that  *)
(* slot holds what the tree has said of the node so far: this is what an   *)
(* END_NODE needs, and what a slot with something left over would break.   *)

\* What fdt_read_num may return.
Nums == {fdt_read_num(c) : c \in Seq(Nat)} \cup {0}
Slot == [is_memory : BOOLEAN, is_virtio : BOOLEAN, reg_valid : BOOLEAN,
         reg_base : Nums, reg_size : Nums]
Scans == [rc : {"running", "ok", "error"}, depth : Nat, addr : Nat, size : Nat,
          stack : [1 .. MaxDepth -> Slot], mem_base : Nums, mem_size : Nums,
          bases : Seq(Nums), timebase : Rates \cup {0}]
Stated == {<<n>> : n \in Counts} \cup {Unset}
Nodes == [up : Nat, mem : BOOLEAN, virtio : BOOLEAN, reg : Regs \cup {Unset},
          addr : Stated, size : Stated]

\* Slot s holds what the tree says of node i; the cells of its "reg" are read
\* right when its bus counts them as the root does.
LikeRoot(i) == i > 1 /\ Cells(tree[i].up) = Cells(1)
Kept(i, s) ==
    /\ s.is_memory = tree[i].mem /\ s.is_virtio = tree[i].virtio
    /\ LikeRoot(i) => /\ s.reg_valid = Decodes(i)
                      /\ Decodes(i) => s.reg_base = RegBase(i) /\ s.reg_size = RegSize(i)

FdtTyped == /\ scan \in Scans /\ tree \in Seq(Nodes) /\ path \in Seq(Nat) /\ closed \in Seq(Nat)
            /\ scan.depth = Len(path) /\ Len(path) <= MaxDepth

NodeOK(i) == /\ tree[i].up < i
             /\ i > 1 => /\ tree[i].up # 0
                         /\ tree[tree[i].up].addr # Unset /\ tree[tree[i].up].size # Unset
             /\ tree[i].mem \/ tree[i].virtio => LikeRoot(i)

PathOK == /\ \A d \in 1 .. Len(path) : path[d] \in 1 .. Len(tree)
          /\ \A c, d \in 1 .. Len(path) : c < d => path[c] < path[d]
          /\ path # <<>> => path[1] = 1

SlotsOK == \A d \in 1 .. Len(path) : Kept(path[d], scan.stack[d])

ClosedOK == \A k \in 1 .. Len(closed) : /\ closed[k] \in 1 .. Len(tree)
                                        /\ \A d \in 1 .. Len(path) : closed[k] # path[d]

\* The two counters are the root's, as soon as it has stated them.
CountsOK == tree # <<>> => /\ tree[1].addr # Unset => scan.addr = tree[1].addr[1]
                           /\ tree[1].size # Unset => scan.size = tree[1].size[1]

FirstMemory ==
    IF MemNodes = {} THEN scan.mem_size = 0
    ELSE /\ scan.mem_size # 0
         /\ \E k \in MemNodes : /\ \A j \in MemNodes : k <= j
                                /\ scan.mem_base = RegBase(closed[k])
                                /\ scan.mem_size = RegSize(closed[k])

FdtInv == /\ FdtTyped /\ PathOK /\ SlotsOK /\ ClosedOK /\ CountsOK
          /\ \A i \in 1 .. Len(tree) : NodeOK(i)
          /\ scan.rc # "error" => FirstMemory
          /\ BasesAreTheTrees

-----------------------------------------------------------------------------
(* Sequences, the smaller of two numbers, and counting up to a place.      *)

LEMMA Appended ==
  ASSUME NEW S, NEW s \in Seq(S), NEW x \in S
  PROVE  /\ Append(s, x) \in Seq(S) /\ Len(Append(s, x)) = Len(s) + 1
         /\ Append(s, x)[Len(s) + 1] = x
         /\ \A i \in 1 .. Len(s) : Append(s, x)[i] = s[i]
  OBVIOUS

LEMMA LastOff ==
  ASSUME NEW S, NEW s \in Seq(S), s # <<>>
  PROVE  /\ Front(s) \in Seq(S) /\ Len(Front(s)) = Len(s) - 1
         /\ \A i \in 1 .. Len(s) - 1 : Front(s)[i] = s[i]
         /\ Last(s) = s[Len(s)] /\ Last(s) \in S /\ Len(s) \in Nat \ {0}
<1>1. Len(s) \in Nat \ {0}
  OBVIOUS
<1>2. SubSeq(s, 1, Len(s) - 1) \in Seq(S) /\ Len(SubSeq(s, 1, Len(s) - 1)) = Len(s) - 1
  <2>1. PICK l \in Nat \ {0} : l = Len(s)
    BY <1>1, Zenon
  <2>2. l - 1 \in Nat /\ l - 1 <= l
    OBVIOUS
  <2>3. PICK n \in Nat : n = l - 1 /\ n <= l
    BY <2>2, Zenon
  <2>4. SubSeq(s, 1, n) \in Seq(S) /\ Len(SubSeq(s, 1, n)) = IF 1 <= n THEN n - 1 + 1 ELSE 0
    BY <2>1, <2>3, SubSeqIs
  <2> QED
    BY <2>1, <2>3, <2>4
<1>3. \A i \in 1 .. Len(s) - 1 : SubSeq(s, 1, Len(s) - 1)[i] = s[i]
  BY <1>1
<1>4. s[Len(s)] \in S
  BY <1>1
<1> QED
  BY <1>1, <1>2, <1>3, <1>4, Zenon DEF Front, Last

LEMMA SmallerIs ==
  ASSUME NEW a \in Nat, NEW b \in Nat
  PROVE  Min({a, b}) = IF a <= b THEN a ELSE b
<1>1. \A x \in {a, b} : (\A y \in {a, b} : x <= y) => x = IF a <= b THEN a ELSE b
  OBVIOUS
<1>2. \E x \in {a, b} : \A y \in {a, b} : x <= y
  OBVIOUS
<1>3. Min({a, b}) \in {a, b} /\ \A y \in {a, b} : Min({a, b}) <= y
  BY <1>2, Zenon DEF Min
<1> QED
  BY <1>1, <1>3, Zenon

LEMMA OnePlaceMore ==
  ASSUME NEW n \in Nat, NEW A \in SUBSET (1 .. n), NEW B \in SUBSET (1 .. n + 1),
         \A k \in 1 .. n : k \in B <=> k \in A
  PROVE  B = A \cup (IF n + 1 \in B THEN {n + 1} ELSE {})
<1>1. 1 .. n + 1 = 1 .. n \cup {n + 1}
  OBVIOUS
<1>2. \A k : k \in B <=> k \in A \/ (k = n + 1 /\ n + 1 \in B)
  BY <1>1
<1> QED
  BY <1>2

\* Part of a set of places has at most as many members, and some when k is one.
LEMMA UpTo ==
  ASSUME NEW n \in Nat, NEW S \in SUBSET (1 .. n), NEW T \in SUBSET S, NEW k, k \in T
  PROVE  Cardinality(T) \in Nat /\ Cardinality(T) <= Cardinality(S) /\ Cardinality(T) > 0
<1>0. IsFiniteSet(1 .. n)
  BY FS_Interval
<1>1. IsFiniteSet(S)
  BY <1>0, FS_Subset
<1>2. IsFiniteSet(T) /\ Cardinality(T) <= Cardinality(S)
  BY <1>1, FS_Subset
<1>3. Cardinality(T) \in Nat
  BY <1>2, FS_CardinalityType
<1>4. Cardinality(T) = 0 <=> T = {}
  BY <1>2, FS_EmptySet
<1> QED
  BY <1>2, <1>3, <1>4

LEMMA NextPlace ==
  ASSUME NEW n \in Nat, NEW S \in SUBSET (1 .. n)
  PROVE  Cardinality(S) \in Nat /\ Cardinality(S \cup {n + 1}) = Cardinality(S) + 1
<1>0. IsFiniteSet(1 .. n)
  BY FS_Interval
<1>1. IsFiniteSet(S)
  BY <1>0, FS_Subset
<1>2. n + 1 \notin S
  OBVIOUS
<1> QED
  BY <1>1, <1>2, FS_AddElement, FS_CardinalityType

-----------------------------------------------------------------------------
(* What the tree says of a node is that node and its parent.               *)

LEMMA SameNode ==
  ASSUME NEW i, tree'[i].up = tree[i].up, tree'[i].reg = tree[i].reg,
         tree[i].up # 0 => tree'[tree[i].up] = tree[tree[i].up]
  PROVE  /\ Decodes(i)' = Decodes(i)
         /\ Decodes(i) => RegBase(i)' = RegBase(i) /\ RegSize(i)' = RegSize(i)
<1>1. CASE tree[i].up = 0
  BY <1>1 DEF Decodes
<1>2. CASE tree[i].up # 0
  <2>1. Addr(i)' = Addr(i) /\ Cell(i)' = Cell(i)
    BY <1>2 DEF Addr, Cell
  <2> QED
    BY <1>2, <2>1 DEF Decodes, RegBase, RegSize
<1> QED
  BY <1>1, <1>2

\* What was found stays what the closed nodes say while their entries stay.
LEMMA FoundStays ==
  ASSUME FdtTyped, closed' = closed,
         scan'.mem_base = scan.mem_base, scan'.mem_size = scan.mem_size, scan'.bases = scan.bases,
         \A k \in DOMAIN closed :
           /\ tree'[closed[k]] = tree[closed[k]]
           /\ tree[closed[k]].up # 0 => tree'[tree[closed[k]].up] = tree[tree[closed[k]].up]
  PROVE  /\ FirstMemory => FirstMemory'
         /\ BasesAreTheTrees => BasesAreTheTrees'
<1>1. \A k \in DOMAIN closed :
        /\ Decodes(closed[k])' = Decodes(closed[k])
        /\ Decodes(closed[k]) => /\ RegBase(closed[k])' = RegBase(closed[k])
                                 /\ RegSize(closed[k])' = RegSize(closed[k])
  <2>1. TAKE k \in DOMAIN closed
  <2>2. PICK i : i = closed[k]
    OBVIOUS
  <2>3. closed'[k] = i
    BY <2>2
  <2>4. /\ Decodes(i)' = Decodes(i)
        /\ Decodes(i) => RegBase(i)' = RegBase(i) /\ RegSize(i)' = RegSize(i)
    BY <2>2, SameNode
  <2> QED
    BY <2>2, <2>3, <2>4
<1>2. MemNodes' = MemNodes
  BY <1>1 DEF MemNodes
<1>3. VirtioNodes' = VirtioNodes
  BY <1>1 DEF VirtioNodes
<1>4. \A k : Rank(k)' = Rank(k)
  BY <1>3 DEF Rank
<1>5. \A k \in MemNodes : RegBase(closed[k])' = RegBase(closed[k]) /\ RegSize(closed[k])' = RegSize(closed[k])
  BY <1>1 DEF MemNodes
<1>6. \A k \in VirtioNodes : RegBase(closed[k])' = RegBase(closed[k])
  BY <1>1 DEF VirtioNodes
<1>7. FirstMemory => FirstMemory'
  BY <1>2, <1>5 DEF FirstMemory
<1>8. BasesAreTheTrees => BasesAreTheTrees'
  BY <1>3, <1>4, <1>6 DEF BasesAreTheTrees
<1> QED
  BY <1>7, <1>8

LEMMA SameLikeRoot ==
  ASSUME NEW i \in Nat, tree'[i].up = tree[i].up, tree[i].up \in Nat,
         i > 1 => tree'[tree[i].up] = tree[tree[i].up] /\ tree'[1] = tree[1]
  PROVE  LikeRoot(i)' = LikeRoot(i)
  BY DEF LikeRoot, Cells

LEMMA SameKept ==
  ASSUME NEW i \in Nat, NEW s, tree'[i] = tree[i], tree[i].up \in Nat,
         i > 1 => tree'[tree[i].up] = tree[tree[i].up] /\ tree'[1] = tree[1],
         Kept(i, s)
  PROVE  Kept(i, s)'
<1>1. LikeRoot(i)' = LikeRoot(i)
  BY SameLikeRoot
<1>2. LikeRoot(i) => i > 1
  BY DEF LikeRoot
<1>3. ASSUME LikeRoot(i)
      PROVE  /\ Decodes(i)' = Decodes(i)
             /\ Decodes(i) => RegBase(i)' = RegBase(i) /\ RegSize(i)' = RegSize(i)
  BY <1>2, <1>3, SameNode
<1> QED
  BY <1>1, <1>3 DEF Kept

LEMMA SameOK ==
  ASSUME NEW i \in Nat, tree'[i] = tree[i], tree[i].up \in Nat,
         i > 1 => tree'[tree[i].up] = tree[tree[i].up] /\ tree'[1] = tree[1],
         NodeOK(i)
  PROVE  NodeOK(i)'
<1>1. LikeRoot(i)' = LikeRoot(i)
  BY SameLikeRoot
<1> QED
  BY <1>1 DEF NodeOK

-----------------------------------------------------------------------------
(* The steps *)

LEMMA FdtStarts == FdtInit => FdtInv
<1> SUFFICES ASSUME FdtInit PROVE FdtInv
  OBVIOUS
<1> USE FdtAssumption DEF FdtInit
<1>1. FdtTyped
  <2>1. [Clear EXCEPT !.is_memory = TRUE, !.is_virtio = TRUE, !.reg_valid = TRUE] \in Slot
    BY DEF Clear, Slot, Nums
  <2>2. scan.stack \in [1 .. MaxDepth -> Slot]
    BY <2>1
  <2>3. scan \in Scans
    BY <2>2 DEF Scans, Nums
  <2> QED
    BY <2>3 DEF FdtTyped
<1>2. MemNodes = {} /\ VirtioNodes = {}
  BY DEF MemNodes, VirtioNodes
<1>3. Cardinality({}) = 0
  BY FS_EmptySet
<1>4. BasesAreTheTrees
  BY <1>2, <1>3, SmallerIs DEF BasesAreTheTrees
<1> QED
  BY <1>1, <1>2, <1>4 DEF FdtInv, PathOK, SlotsOK, ClosedOK, CountsOK, FirstMemory

\* What the invariant says of the shape of things, in the form the steps use it.
LEMMA Shape ==
  ASSUME FdtInv
  PROVE  /\ Len(tree) \in Nat /\ Len(path) \in Nat /\ Len(closed) \in Nat
         /\ (tree = <<>> <=> Len(tree) = 0) /\ (path = <<>> <=> Len(path) = 0)
         /\ scan.depth = Len(path) /\ Len(path) <= MaxDepth /\ MaxDepth \in Nat
         /\ scan.stack \in [1 .. MaxDepth -> Slot]
         /\ DOMAIN closed = 1 .. Len(closed)
         /\ \A i \in 1 .. Len(tree) : tree[i] \in Nodes /\ tree[i].up \in 0 .. i - 1 /\ NodeOK(i)
         /\ \A d \in 1 .. Len(path) : path[d] \in 1 .. Len(tree) /\ Kept(path[d], scan.stack[d])
         /\ \A k \in 1 .. Len(closed) : closed[k] \in 1 .. Len(tree)
<1>1. FdtTyped
  BY DEF FdtInv
<1>2. /\ Len(tree) \in Nat /\ Len(path) \in Nat /\ Len(closed) \in Nat
      /\ (tree = <<>> <=> Len(tree) = 0) /\ (path = <<>> <=> Len(path) = 0)
      /\ DOMAIN closed = 1 .. Len(closed)
      /\ \A i \in 1 .. Len(tree) : tree[i] \in Nodes
  BY <1>1 DEF FdtTyped
<1>3. scan.depth = Len(path) /\ Len(path) <= MaxDepth /\ MaxDepth \in Nat
  BY <1>1, FdtAssumption DEF FdtTyped
<1>4. scan.stack \in [1 .. MaxDepth -> Slot]
  BY <1>1 DEF FdtTyped, Scans
<1>5. \A i \in 1 .. Len(tree) : NodeOK(i)
  BY DEF FdtInv
<1>6. \A i \in 1 .. Len(tree) : tree[i].up \in 0 .. i - 1
  <2>1. \A i \in 1 .. Len(tree) : tree[i].up \in Nat
    BY <1>2 DEF Nodes
  <2>2. \A i \in 1 .. Len(tree) : tree[i].up < i
    BY <1>5 DEF NodeOK
  <2> QED
    BY <2>1, <2>2, <1>2
<1>7. \A d \in 1 .. Len(path) : path[d] \in 1 .. Len(tree) /\ Kept(path[d], scan.stack[d])
  BY DEF FdtInv, PathOK, SlotsOK
<1>8. \A k \in 1 .. Len(closed) : closed[k] \in 1 .. Len(tree)
  BY DEF FdtInv, ClosedOK
<1> QED
  BY <1>2, <1>3, <1>4, <1>5, <1>6, <1>7, <1>8

LEMMA BeginStep == FdtInv /\ BeginNode => FdtInv'
<1> SUFFICES ASSUME FdtInv, BeginNode PROVE FdtInv'
  OBVIOUS
<1>n. PICK n \in Nat : n = Len(tree) + 1
  BY Shape
<1>u. PICK up : up = IF path = <<>> THEN 0 ELSE Last(path)
  OBVIOUS
<1>1. /\ scan.rc = "running" /\ Len(path) < MaxDepth
      /\ path = <<>> => tree = <<>>
      /\ path # <<>> => tree[Last(path)].addr # Unset /\ tree[Last(path)].size # Unset
      /\ scan' = [scan EXCEPT !.stack[scan.depth + 1] = Clear, !.depth = @ + 1]
      /\ tree' = Append(tree, NewNode(up)) /\ path' = Append(path, n)
      /\ UNCHANGED closed
  BY <1>n, <1>u DEF BeginNode, Node
<1>2. /\ Len(tree) \in Nat /\ Len(path) \in Nat /\ Len(closed) \in Nat
      /\ (tree = <<>> <=> Len(tree) = 0) /\ (path = <<>> <=> Len(path) = 0)
      /\ scan.depth = Len(path) /\ Len(path) <= MaxDepth /\ MaxDepth \in Nat
      /\ scan.stack \in [1 .. MaxDepth -> Slot]
      /\ DOMAIN closed = 1 .. Len(closed)
      /\ \A i \in 1 .. Len(tree) : tree[i] \in Nodes /\ tree[i].up \in 0 .. i - 1 /\ NodeOK(i)
      /\ \A d \in 1 .. Len(path) : path[d] \in 1 .. Len(tree) /\ Kept(path[d], scan.stack[d])
      /\ \A k \in 1 .. Len(closed) : closed[k] \in 1 .. Len(tree)
  BY Shape
<1>t. FdtTyped
  BY DEF FdtInv
<1>3. up \in 0 .. Len(tree) /\ (path # <<>> => up \in 1 .. Len(tree)) /\ n \in Nat \ {0}
  <2>1. CASE path = <<>>
    BY <2>1, <1>2, <1>n, <1>u
  <2>2. CASE path # <<>>
    <3>1. Last(path) = path[Len(path)]
      BY DEF Last
    <3>2. Last(path) \in 1 .. Len(tree)
      BY <2>2, <3>1, <1>2
    <3> QED
      BY <2>2, <3>2, <1>2, <1>n, <1>u
  <2> QED
    BY <2>1, <2>2
<1>4. NewNode(up) \in Nodes
  BY <1>3 DEF NewNode, Nodes, Stated
<1>5. /\ tree' \in Seq(Nodes) /\ Len(tree') = n /\ tree'[n] = NewNode(up)
      /\ \A i \in 1 .. Len(tree) : tree'[i] = tree[i]
  <2>1. tree \in Seq(Nodes)
    BY <1>t DEF FdtTyped
  <2> QED
    BY <2>1, <1>1, <1>n, <1>4, Appended
<1>6. /\ path' \in Seq(Nat) /\ Len(path') = Len(path) + 1 /\ path'[Len(path) + 1] = n
      /\ \A d \in 1 .. Len(path) : path'[d] = path[d]
  <2>1. path \in Seq(Nat) /\ n \in Nat
    BY <1>t, <1>3 DEF FdtTyped
  <2> QED
    BY <2>1, <1>1, Appended
<1>7. /\ scan' \in Scans /\ scan'.depth = Len(path) + 1
      /\ scan'.stack = [scan.stack EXCEPT ![Len(path) + 1] = Clear]
      /\ scan'.rc = scan.rc /\ scan'.mem_base = scan.mem_base /\ scan'.mem_size = scan.mem_size
      /\ scan'.bases = scan.bases /\ scan'.addr = scan.addr /\ scan'.size = scan.size
  <2>1. Clear \in Slot
    BY DEF Clear, Slot, Nums
  <2>2. [scan.stack EXCEPT ![Len(path) + 1] = Clear] \in [1 .. MaxDepth -> Slot]
    BY <2>1, <1>2
  <2>3. scan \in Scans
    BY <1>t DEF FdtTyped
  <2>4. scan' = [scan EXCEPT !.stack = [scan.stack EXCEPT ![Len(path) + 1] = Clear], !.depth = Len(path) + 1]
    BY <1>1, <1>2
  <2>a. Len(path) + 1 \in Nat
    BY <1>2
  <2>5. PICK st \in [1 .. MaxDepth -> Slot], q \in Nat :
          st = [scan.stack EXCEPT ![Len(path) + 1] = Clear] /\ q = Len(path) + 1
    BY <2>2, <2>a, Zenon
  <2>6. scan' = [scan EXCEPT !.stack = st, !.depth = q]
    BY <2>4, <2>5
  <2> QED
    BY <2>3, <2>5, <2>6 DEF Scans
<1>8. FdtTyped'
  <2>1. closed' \in Seq(Nat)
    BY <1>1, <1>t DEF FdtTyped
  <2>2. Len(path') <= MaxDepth
    BY <1>1, <1>2, <1>6
  <2> QED
    BY <2>1, <2>2, <1>5, <1>6, <1>7 DEF FdtTyped
<1>9. \A i \in 1 .. Len(tree) : /\ tree[i].up \in Nat /\ NodeOK(i) /\ tree'[i] = tree[i]
                                /\ i > 1 => tree'[tree[i].up] = tree[tree[i].up] /\ tree'[1] = tree[1]
  <2>1. ASSUME NEW i \in 1 .. Len(tree)
        PROVE  /\ tree[i].up \in Nat /\ NodeOK(i) /\ tree'[i] = tree[i]
               /\ i > 1 => tree'[tree[i].up] = tree[tree[i].up] /\ tree'[1] = tree[1]
    <3>1. PICK u \in 0 .. i - 1 : u = tree[i].up
      BY <1>2
    <3>2. i > 1 => u # 0
      BY <3>1, <1>2 DEF NodeOK
    <3>3. i > 1 => u \in 1 .. Len(tree) /\ 1 \in 1 .. Len(tree)
      BY <3>2, <1>2
    <3>4. tree'[i] = tree[i] /\ NodeOK(i)
      BY <1>2, <1>5
    <3>5. i > 1 => tree'[u] = tree[u] /\ tree'[1] = tree[1]
      BY <3>3, <1>5
    <3> QED
      BY <3>1, <3>4, <3>5
  <2> QED
    BY <2>1
<1>10. \A i \in 1 .. Len(tree') : NodeOK(i)'
  <2>1. ASSUME NEW i \in 1 .. Len(tree) PROVE NodeOK(i)'
    BY <1>9, SameOK
  <2>2. NodeOK(n)'
    <3>1. tree'[n].up = up /\ ~tree'[n].mem /\ ~tree'[n].virtio
      BY <1>5 DEF NewNode
    <3>2. n > 1 => path # <<>>
      BY <1>1, <1>2, <1>n
    <3>6. n \in Nat /\ (n > 1 => 1 \in 1 .. Len(tree))
      BY <1>2, <1>n
    <3>3. path # <<>> => tree'[up] = tree[up] /\ up = Last(path)
      BY <1>3, <1>5, <1>u
    <3>4. n > 1 => up # 0 /\ tree'[up].addr # Unset /\ tree'[up].size # Unset
      BY <3>2, <3>3, <1>1, <1>3
    <3>5. up < n
      BY <1>2, <1>3, <1>n
    <3> QED
      BY <3>1, <3>4, <3>5 DEF NodeOK
  <2>3. 1 .. Len(tree') = 1 .. Len(tree) \cup {n}
    BY <1>2, <1>5, <1>n
  <2> QED
    BY <2>1, <2>2, <2>3
<1>11. PathOK'
  <2>1. path = <<>> => n = 1
    BY <1>1, <1>2, <1>n
  <2>2. \A d \in 1 .. Len(path) : path'[d] \in 1 .. Len(tree)
    BY <1>2, <1>6
  <2>3. \A d \in 1 .. Len(path') : path'[d] \in 1 .. Len(tree')
    BY <2>2, <1>2, <1>5, <1>6, <1>n
  <2>4. \A c, d \in 1 .. Len(path) : c < d => path'[c] < path'[d]
    BY <1>6 DEF FdtInv, PathOK
  <2>5. \A c, d \in 1 .. Len(path') : c < d => path'[c] < path'[d]
    <3>1. ASSUME NEW c \in 1 .. Len(path'), NEW d \in 1 .. Len(path'), c < d PROVE path'[c] < path'[d]
      <4>1. c \in 1 .. Len(path) /\ d \in 1 .. Len(path) + 1
        BY <3>1, <1>2, <1>6
      <4>2. CASE d \in 1 .. Len(path)
        <5>1. path'[c] = path[c] /\ path'[d] = path[d]
          BY <4>1, <4>2, <1>6
        <5> QED
          BY <5>1, <3>1, <4>1, <4>2 DEF FdtInv, PathOK
      <4>3. CASE d = Len(path) + 1
        <5>1. path'[d] = n
          BY <4>3, <1>6
        <5>2. path'[c] \in 1 .. Len(tree)
          BY <3>1, <4>1, <4>3, <2>2, <1>2
        <5> QED
          BY <5>1, <5>2, <1>2, <1>n
      <4>4. d \in 1 .. Len(path) \/ d = Len(path) + 1
        <5>1. Len(path) \in Nat
          BY <1>2
        <5> QED
          BY <4>1, <5>1
      <4> QED
        BY <4>2, <4>3, <4>4
    <3> QED
      BY <3>1
  <2>6. path'[1] = 1
    <3>1. CASE path = <<>>
      BY <3>1, <2>1, <1>2, <1>6
    <3>2. CASE path # <<>>
      <4>1. path[1] = 1 /\ 1 \in 1 .. Len(path)
        BY <3>2, <1>2 DEF FdtInv, PathOK
      <4> QED
        BY <4>1, <1>6
    <3> QED
      BY <3>1, <3>2
  <2> QED
    BY <2>3, <2>5, <2>6 DEF PathOK
<1>12. SlotsOK'
  <2>1. ASSUME NEW d \in 1 .. Len(path) PROVE Kept(path[d], scan.stack[d])'
    <3>1. PICK i \in 1 .. Len(tree) : i = path[d]
      BY <1>2
    <3>2. PICK s : s = scan.stack[d]
      OBVIOUS
    <3>3. Kept(i, s)
      BY <3>1, <3>2, <1>2
    <3>4. Kept(i, s)'
      BY <3>3, <1>9, SameKept
    <3>5. path'[d] = i
      BY <3>1, <1>6
    <3>6. scan'.stack[d] = s
      <4>1. d \in 1 .. MaxDepth /\ d # Len(path) + 1
        BY <1>2
      <4>2. PICK f \in [1 .. MaxDepth -> Slot] : f = scan.stack
        BY <1>2, <1>t DEF FdtTyped, Scans
      <4>3. [f EXCEPT ![Len(path) + 1] = Clear][d] = f[d]
        BY <4>1
      <4> QED
        BY <3>2, <4>2, <4>3, <1>7, Zenon
    <3> QED
      BY <3>4, <3>5, <3>6
  <2>2. Kept(n, Clear)'
    <3>1. tree'[n].reg = Unset /\ tree'[n].mem = FALSE /\ tree'[n].virtio = FALSE
      BY <1>5 DEF NewNode
    <3>2. Decodes(n)' = FALSE
      BY <3>1 DEF Decodes
    <3>3. Clear.is_memory = FALSE /\ Clear.is_virtio = FALSE /\ Clear.reg_valid = FALSE
      BY DEF Clear
    <3> QED
      BY <3>1, <3>2, <3>3, Zenon DEF Kept
  <2>3. scan'.stack[Len(path) + 1] = Clear
    BY <1>1, <1>2, <1>7
  <2>4. 1 .. Len(path') = 1 .. Len(path) \cup {Len(path) + 1}
    BY <1>2, <1>6
  <2>5. ASSUME NEW d, d = Len(path) + 1 PROVE Kept(path[d], scan.stack[d])'
    <3>1. path'[d] = n /\ scan'.stack[d] = Clear
      BY <2>5, <2>3, <1>6
    <3> QED
      BY <2>2, <3>1
  <2>6. \A d \in 1 .. Len(path') : Kept(path[d], scan.stack[d])'
    BY <2>1, <2>4, <2>5
  <2> QED
    BY <2>6 DEF SlotsOK
<1>13. ClosedOK'
  <2>1. \A k \in 1 .. Len(closed) : closed[k] \in 1 .. Len(tree) /\ \A d \in 1 .. Len(path) : closed[k] # path[d]
    BY DEF FdtInv, ClosedOK
  <2> QED
    BY <2>1, <1>1, <1>2, <1>5, <1>6, <1>n DEF ClosedOK
<1>14. CountsOK'
  <2>1. CASE tree = <<>>
    <3>1. n = 1
      BY <2>1, <1>2, <1>n
    <3>2. tree'[1].addr = Unset /\ tree'[1].size = Unset
      BY <3>1, <1>5 DEF NewNode
    <3> QED
      BY <3>2 DEF CountsOK
  <2>2. CASE tree # <<>>
    <3>1. tree'[1] = tree[1]
      BY <2>2, <1>2, <1>5
    <3>2. CountsOK
      BY DEF FdtInv
    <3> QED
      BY <2>2, <3>1, <3>2, <1>7 DEF CountsOK
  <2> QED
    BY <2>1, <2>2
<1>15. (FirstMemory => FirstMemory') /\ (BasesAreTheTrees => BasesAreTheTrees')
  <2>1. ASSUME NEW k \in DOMAIN closed
        PROVE  /\ tree'[closed[k]] = tree[closed[k]]
               /\ tree[closed[k]].up # 0 => tree'[tree[closed[k]].up] = tree[tree[closed[k]].up]
    <3>1. PICK i \in 1 .. Len(tree) : i = closed[k]
      BY <1>2
    <3>2. PICK u \in 0 .. i - 1 : u = tree[i].up
      BY <1>2
    <3>3. u # 0 => u \in 1 .. Len(tree)
      BY <1>2
    <3>4. tree'[i] = tree[i] /\ (u # 0 => tree'[u] = tree[u])
      BY <3>3, <1>5
    <3> QED
      BY <3>1, <3>2, <3>4
  <2> QED
    BY <2>1, <1>1, <1>t, <1>7, FoundStays
<1> QED
  BY <1>7, <1>8, <1>10, <1>11, <1>12, <1>13, <1>14, <1>15 DEF FdtInv

\* Of the node whose properties come now, what the steps use.
LEMMA TopNode ==
  ASSUME FdtInv, InNode, NEW n, n = Len(tree), NEW p, p = Len(path)
  PROVE  /\ n \in Nat \ {0} /\ p \in 1 .. MaxDepth /\ path[p] = n /\ Top = p /\ (p = 1 <=> n = 1)
         /\ tree[n] \in Nodes /\ NodeOK(n) /\ tree[n].up \in 0 .. n - 1
         /\ scan.stack[p] \in Slot /\ Kept(n, scan.stack[p]) /\ scan \in Scans
<1>1. p \in Nat \ {0} /\ n \in Nat
  BY Shape DEF InNode
<1>2. p \in 1 .. MaxDepth /\ p \in 1 .. Len(path)
  BY <1>1, Shape
<1>3. path[p] = n
  BY DEF InNode, Last
<1>4. n \in 1 .. Len(tree)
  BY <1>2, <1>3, Shape
<1>5. Top = p
  BY Shape DEF Top
<1>6. p = 1 <=> n = 1
  <2>1. path[1] = 1
    BY DEF FdtInv, PathOK, InNode
  <2>2. p > 1 => path[1] < path[p]
    BY <1>1, <1>2 DEF FdtInv, PathOK
  <2> QED
    BY <2>1, <2>2, <1>1, <1>3
<1>7. Kept(n, scan.stack[p])
  BY <1>2, <1>3, Shape
<1>8. scan.stack[p] \in Slot
  BY <1>2, Shape
<1>9. scan \in Scans
  BY DEF FdtInv, FdtTyped
<1> QED
  BY <1>1, <1>2, <1>3, <1>4, <1>5, <1>6, <1>7, <1>8, <1>9, Shape, SMTT(30)

\* The entry of that node becomes m and its slot st, which agrees with it.
Sets(n, p, m, st) ==
    /\ InNode /\ n = Len(tree) /\ p = Len(path) /\ m \in Nodes
    /\ tree' = [tree EXCEPT ![n] = m] /\ m.up = tree[n].up /\ UNCHANGED <<path, closed>>
    /\ m.mem \/ m.virtio => LikeRoot(n)
    /\ scan' \in Scans /\ scan'.depth = scan.depth /\ scan'.rc = scan.rc
    /\ scan'.mem_base = scan.mem_base /\ scan'.mem_size = scan.mem_size /\ scan'.bases = scan.bases
    /\ scan'.stack = [scan.stack EXCEPT ![p] = st]
    /\ CountsOK' /\ Kept(n, st)'

LEMMA SetNode == ASSUME FdtInv, NEW n, NEW p, NEW m, NEW st, Sets(n, p, m, st) PROVE FdtInv'
<1> USE DEF Sets
<1>1. /\ n \in Nat \ {0} /\ p \in 1 .. MaxDepth /\ path[p] = n /\ tree[n] \in Nodes /\ NodeOK(n)
      /\ tree[n].up \in 0 .. n - 1
  BY TopNode
<1>2. /\ tree' \in Seq(Nodes) /\ Len(tree') = n /\ tree'[n] = m
      /\ \A i \in 1 .. n - 1 : tree'[i] = tree[i]
  <2>1. tree \in Seq(Nodes)
    BY DEF FdtInv, FdtTyped
  <2> QED
    BY <2>1, <1>1
<1>3. ASSUME NEW i \in 1 .. n, i # n
      PROVE  /\ tree'[i] = tree[i] /\ tree[i].up \in Nat /\ NodeOK(i)
             /\ tree[i].up # 0 => tree'[tree[i].up] = tree[tree[i].up]
             /\ i > 1 => tree'[tree[i].up] = tree[tree[i].up] /\ tree'[1] = tree[1]
  <2>1. PICK u \in 0 .. i - 1 : u = tree[i].up
    BY Shape
  <2>2. NodeOK(i)
    BY Shape
  <2>3. i > 1 => u # 0
    BY <2>1, <2>2 DEF NodeOK
  <2>4. (u # 0 => u \in 1 .. n - 1) /\ (i > 1 => 1 \in 1 .. n - 1) /\ i \in 1 .. n - 1
    BY <1>1, <1>3
  <2> QED
    BY <2>1, <2>2, <2>3, <2>4, <1>2
<1>4. LikeRoot(n)' = LikeRoot(n)
  <2>1. PICK u \in 0 .. n - 1 : u = tree[n].up
    BY <1>1
  <2>2. n > 1 => u # 0
    BY <2>1, <1>1 DEF NodeOK
  <2>3. (u # 0 => u \in 1 .. n - 1) /\ (n > 1 => 1 \in 1 .. n - 1)
    BY <1>1
  <2>4. n > 1 => tree'[tree[n].up] = tree[tree[n].up] /\ tree'[1] = tree[1]
    BY <2>1, <2>2, <2>3, <1>2
  <2> QED
    BY <2>1, <2>4, <1>1, <1>2, SameLikeRoot
<1>5. \A i \in 1 .. Len(tree') : NodeOK(i)'
  <2>1. ASSUME NEW i \in 1 .. n, i # n PROVE NodeOK(i)'
    BY <2>1, <1>3, SameOK
  <2>2. NodeOK(n)'
    <3>1. PICK u \in 0 .. n - 1 : u = tree[n].up
      BY <1>1
    <3>2. n > 1 => u # 0 /\ tree[u].addr # Unset /\ tree[u].size # Unset
      BY <3>1, <1>1 DEF NodeOK
    <3>3. u # 0 => tree'[u] = tree[u]
      BY <1>1, <1>2
    <3>4. tree'[n].up = u /\ u < n
      BY <3>1, <1>1, <1>2
    <3>5. tree'[n].mem \/ tree'[n].virtio => LikeRoot(n)'
      BY <1>2, <1>4
    <3> QED
      BY <3>2, <3>3, <3>4, <3>5 DEF NodeOK
  <2> QED
    BY <2>1, <2>2, <1>2
<1>6. FdtTyped'
  BY <1>2 DEF FdtInv, FdtTyped
<1>7. PathOK' /\ ClosedOK'
  BY <1>2 DEF FdtInv, PathOK, ClosedOK
<1>8. SlotsOK'
  <2>1. ASSUME NEW d \in 1 .. Len(path) PROVE Kept(path[d], scan.stack[d])'
    <3>1. CASE d = p
      <4>1. path'[d] = n /\ scan'.stack[d] = st
        BY <3>1, <1>1, Shape
      <4> QED
        BY <4>1
    <3>2. CASE d # p
      <4>0. PICK s : s = scan.stack[d]
        OBVIOUS
      <4>1. PICK i \in 1 .. n : i = path[d] /\ s = scan.stack[d]
        BY <4>0, Shape
      <4>2. i # n
        <5>1. d < p /\ p \in 1 .. Len(path)
          BY <3>2, <1>1, Shape
        <5>2. path[d] < path[p]
          BY <5>1 DEF FdtInv, PathOK
        <5> QED
          BY <4>1, <5>2, <1>1
      <4>3. Kept(i, s)
        BY <4>1, Shape
      <4>4. Kept(i, s)'
        BY <4>2, <4>3, <1>3, SameKept
      <4>5. path'[d] = i /\ scan'.stack[d] = s
        BY <4>1, <3>2, Shape
      <4> QED
        BY <4>4, <4>5
    <3> QED
      BY <3>1, <3>2
  <2> QED
    BY <2>1 DEF SlotsOK
<1>9. (FirstMemory => FirstMemory') /\ (BasesAreTheTrees => BasesAreTheTrees')
  <2>1. ASSUME NEW k \in DOMAIN closed
        PROVE  /\ tree'[closed[k]] = tree[closed[k]]
               /\ tree[closed[k]].up # 0 => tree'[tree[closed[k]].up] = tree[tree[closed[k]].up]
    <3>1. PICK i \in 1 .. n : i = closed[k]
      BY Shape
    <3>2. i # n
      <4>1. k \in 1 .. Len(closed) /\ p \in 1 .. Len(path)
        BY <1>1, Shape
      <4> QED
        BY <4>1, <3>1, <1>1 DEF FdtInv, ClosedOK
    <3> QED
      BY <3>1, <3>2, <1>3
  <2>2. FdtTyped
    BY DEF FdtInv
  <2> QED
    BY <2>1, <2>2, FoundStays
<1> QED
  BY <1>5, <1>6, <1>7, <1>8, <1>9 DEF FdtInv

\* The bus of that node is known: when it counts as the root does, the two
\* counters are its cells.
LEMMA BusCells ==
  ASSUME FdtInv, InNode, NEW n, n = Len(tree), LikeRoot(n)
  PROVE  /\ n > 1 /\ tree[n].up \in 1 .. n - 1
         /\ Addr(n) = scan.addr /\ Cell(n) = scan.addr + scan.size
<1>1. n \in Nat \ {0} /\ NodeOK(n) /\ tree[n].up \in 0 .. n - 1
  BY TopNode
<1>2. n > 1 /\ Cells(tree[n].up) = Cells(1)
  BY DEF LikeRoot
<1>3. PICK u \in 1 .. n - 1 : u = tree[n].up
  BY <1>1, <1>2 DEF NodeOK
<1>4. tree[u].addr # Unset /\ tree[u].size # Unset
  BY <1>1, <1>2, <1>3 DEF NodeOK
<1>5. tree[u].addr = tree[1].addr /\ tree[u].size = tree[1].size
  BY <1>2, <1>3 DEF Cells
<1>6. tree # <<>>
  BY <1>1, Shape
<1>7. scan.addr = tree[u].addr[1] /\ scan.size = tree[u].size[1]
  BY <1>4, <1>5, <1>6 DEF FdtInv, CountsOK
<1> QED
  BY <1>2, <1>3, <1>7 DEF Addr, Cell

\* A slot that is as before but for the two marks still agrees.
LEMMA KeptAgain ==
  ASSUME FdtInv, InNode, NEW n, n = Len(tree), NEW m, NEW s, NEW st,
         tree' = [tree EXCEPT ![n] = m], m.up = tree[n].up, m.reg = tree[n].reg,
         Kept(n, s), st.is_memory = m.mem, st.is_virtio = m.virtio,
         st.reg_valid = s.reg_valid, st.reg_base = s.reg_base, st.reg_size = s.reg_size
  PROVE  Kept(n, st)'
<1>1. n \in Nat \ {0} /\ NodeOK(n) /\ tree[n].up \in 0 .. n - 1
  BY TopNode
<1>2. PICK u \in 0 .. n - 1 : u = tree[n].up
  BY <1>1
<1>3. tree'[n] = m /\ (u # 0 => tree'[u] = tree[u]) /\ (n > 1 => tree'[1] = tree[1])
  <2>1. tree \in Seq(Nodes)
    BY DEF FdtInv, FdtTyped
  <2> QED
    BY <2>1, <1>1
<1>4. n > 1 => u # 0
  BY <1>1, <1>2 DEF NodeOK
<1>5. LikeRoot(n)' = LikeRoot(n)
  BY <1>1, <1>2, <1>3, <1>4, SameLikeRoot
<1>6. /\ Decodes(n)' = Decodes(n)
      /\ Decodes(n) => RegBase(n)' = RegBase(n) /\ RegSize(n)' = RegSize(n)
  BY <1>2, <1>3, SameNode
<1> QED
  BY <1>3, <1>5, <1>6 DEF Kept

\* The root's counters while the entry of another node changes.
LEMMA CountsStay ==
  ASSUME FdtInv, InNode, NEW n, n = Len(tree), NEW m, tree' = [tree EXCEPT ![n] = m],
         m.addr = tree[n].addr, m.size = tree[n].size,
         scan'.addr = scan.addr, scan'.size = scan.size
  PROVE  CountsOK'
<1>1. n \in Nat \ {0}
  BY TopNode
<1>2. tree'[1].addr = tree[1].addr /\ tree'[1].size = tree[1].size /\ tree # <<>>
  <2>1. tree \in Seq(Nodes)
    BY DEF FdtInv, FdtTyped
  <2> QED
    BY <2>1, <1>1
<1> QED
  BY <1>2 DEF FdtInv, CountsOK

LEMMA AddressCellsStep ==
  ASSUME FdtInv, NEW c \in Counts, PropAddressCells(c)
  PROVE  FdtInv'
<1>1. PICK n, p, s : n = Len(tree) /\ p = Len(path) /\ s = scan.stack[p]
  OBVIOUS
<1>2. InNode /\ ~tree[n].mem /\ ~tree[n].virtio /\ tree[n].reg = Unset
  BY <1>1 DEF PropAddressCells, OnBus
<1>3. /\ n \in Nat \ {0} /\ p \in 1 .. MaxDepth /\ (p = 1 <=> n = 1) /\ tree[n] \in Nodes
      /\ Kept(n, s) /\ scan \in Scans
  BY <1>1, <1>2, TopNode
<1>4. PICK m : m = [tree[n] EXCEPT !.addr = <<c>>]
  OBVIOUS
<1>5. /\ m \in Nodes /\ m.up = tree[n].up /\ m.reg = tree[n].reg /\ m.addr = <<c>>
      /\ m.size = tree[n].size /\ m.mem = tree[n].mem /\ m.virtio = tree[n].virtio
  <2>1. <<c>> \in Stated
    BY DEF Stated
  <2>2. PICK a \in Stated : a = <<c>>
    BY <2>1, Zenon
  <2>3. m = [tree[n] EXCEPT !.addr = a]
    BY <1>4, <2>2
  <2>4. /\ m \in Nodes /\ m.up = tree[n].up /\ m.reg = tree[n].reg /\ m.addr = a /\ m.size = tree[n].size
    BY <2>3, <1>3 DEF Nodes
  <2>5. m.mem = tree[n].mem /\ m.virtio = tree[n].virtio
    BY <2>3, <1>3, Zenon DEF Nodes
  <2> QED
    BY <2>2, <2>4, <2>5
<1>6. tree' = [tree EXCEPT ![n] = m]
  BY <1>1, <1>4 DEF PropAddressCells
<1>7. c \in Nat
  BY FdtAssumption
<1>8. scan' = IF p = 1 THEN [scan EXCEPT !.addr = c] ELSE scan
  <2>1. scan.depth = p
    BY <1>1, Shape
  <2> QED
    BY <2>1 DEF PropAddressCells, CellsAt1
<1>9. /\ scan' \in Scans /\ scan'.depth = scan.depth /\ scan'.rc = scan.rc /\ scan'.size = scan.size
      /\ scan'.mem_base = scan.mem_base /\ scan'.mem_size = scan.mem_size /\ scan'.bases = scan.bases
      /\ scan'.stack = scan.stack /\ scan'.addr = IF p = 1 THEN c ELSE scan.addr
  BY <1>3, <1>7, <1>8 DEF Scans
<1>10. scan'.stack = [scan.stack EXCEPT ![p] = s]
  BY <1>1, <1>3, <1>9, Shape
<1>11. CountsOK'
  <2>1. tree \in Seq(Nodes)
    BY DEF FdtInv, FdtTyped
  <2>2. CASE n = 1
    <3>1. tree'[1] = m
      BY <2>1, <2>2, <1>1, <1>3, <1>6
    <3>2. tree # <<>> /\ CountsOK
      BY <1>1, <1>3, Shape DEF FdtInv
    <3>3. <<c>>[1] = c
      OBVIOUS
    <3> QED
      BY <2>2, <3>1, <3>2, <3>3, <1>3, <1>5, <1>9 DEF CountsOK
  <2>3. CASE n # 1
    <3>1. tree'[1] = tree[1] /\ tree # <<>> /\ CountsOK
      BY <2>1, <2>3, <1>1, <1>3, <1>6, Shape DEF FdtInv
    <3> QED
      BY <2>3, <3>1, <1>3, <1>9 DEF CountsOK
  <2> QED
    BY <2>2, <2>3
<1>12. s.is_memory = tree[n].mem /\ s.is_virtio = tree[n].virtio
  BY <1>3 DEF Kept
<1>13. Kept(n, s)'
  BY <1>1, <1>2, <1>3, <1>5, <1>6, <1>12, KeptAgain
<1>14. UNCHANGED <<path, closed>> /\ ~(m.mem \/ m.virtio)
  BY <1>2, <1>5 DEF PropAddressCells
<1>15. Sets(n, p, m, s)
  BY <1>1, <1>2, <1>5, <1>6, <1>9, <1>10, <1>11, <1>13, <1>14 DEF Sets
<1> QED
  BY <1>15, SetNode

LEMMA SizeCellsStep ==
  ASSUME FdtInv, NEW c \in Counts, PropSizeCells(c)
  PROVE  FdtInv'
<1>1. PICK n, p, s : n = Len(tree) /\ p = Len(path) /\ s = scan.stack[p]
  OBVIOUS
<1>2. InNode /\ ~tree[n].mem /\ ~tree[n].virtio /\ tree[n].reg = Unset
  BY <1>1 DEF PropSizeCells, OnBus
<1>3. /\ n \in Nat \ {0} /\ p \in 1 .. MaxDepth /\ (p = 1 <=> n = 1) /\ tree[n] \in Nodes
      /\ Kept(n, s) /\ scan \in Scans
  BY <1>1, <1>2, TopNode
<1>4. PICK m : m = [tree[n] EXCEPT !.size = <<c>>]
  OBVIOUS
<1>5. /\ m \in Nodes /\ m.up = tree[n].up /\ m.reg = tree[n].reg /\ m.size = <<c>>
      /\ m.addr = tree[n].addr /\ m.mem = tree[n].mem /\ m.virtio = tree[n].virtio
  <2>1. <<c>> \in Stated
    BY DEF Stated
  <2>2. PICK a \in Stated : a = <<c>>
    BY <2>1, Zenon
  <2>3. m = [tree[n] EXCEPT !.size = a]
    BY <1>4, <2>2
  <2>4. /\ m \in Nodes /\ m.up = tree[n].up /\ m.reg = tree[n].reg /\ m.size = a /\ m.addr = tree[n].addr
    BY <2>3, <1>3 DEF Nodes
  <2>5. m.mem = tree[n].mem /\ m.virtio = tree[n].virtio
    BY <2>3, <1>3, Zenon DEF Nodes
  <2> QED
    BY <2>2, <2>4, <2>5
<1>6. tree' = [tree EXCEPT ![n] = m]
  BY <1>1, <1>4 DEF PropSizeCells
<1>7. c \in Nat
  BY FdtAssumption
<1>8. scan' = IF p = 1 THEN [scan EXCEPT !.size = c] ELSE scan
  <2>1. scan.depth = p
    BY <1>1, Shape
  <2> QED
    BY <2>1 DEF PropSizeCells, CellsAt1
<1>9. /\ scan' \in Scans /\ scan'.depth = scan.depth /\ scan'.rc = scan.rc /\ scan'.addr = scan.addr
      /\ scan'.mem_base = scan.mem_base /\ scan'.mem_size = scan.mem_size /\ scan'.bases = scan.bases
      /\ scan'.stack = scan.stack /\ scan'.size = IF p = 1 THEN c ELSE scan.size
  BY <1>3, <1>7, <1>8 DEF Scans
<1>10. scan'.stack = [scan.stack EXCEPT ![p] = s]
  BY <1>1, <1>3, <1>9, Shape
<1>11. CountsOK'
  <2>1. tree \in Seq(Nodes)
    BY DEF FdtInv, FdtTyped
  <2>2. CASE n = 1
    <3>1. tree'[1] = m
      BY <2>1, <2>2, <1>1, <1>3, <1>6
    <3>2. tree # <<>> /\ CountsOK
      BY <1>1, <1>3, Shape DEF FdtInv
    <3>3. <<c>>[1] = c
      OBVIOUS
    <3> QED
      BY <2>2, <3>1, <3>2, <3>3, <1>3, <1>5, <1>9 DEF CountsOK
  <2>3. CASE n # 1
    <3>1. tree'[1] = tree[1] /\ tree # <<>> /\ CountsOK
      BY <2>1, <2>3, <1>1, <1>3, <1>6, Shape DEF FdtInv
    <3> QED
      BY <2>3, <3>1, <1>3, <1>9 DEF CountsOK
  <2> QED
    BY <2>2, <2>3
<1>12. s.is_memory = tree[n].mem /\ s.is_virtio = tree[n].virtio
  BY <1>3 DEF Kept
<1>13. Kept(n, s)'
  BY <1>1, <1>2, <1>3, <1>5, <1>6, <1>12, KeptAgain
<1>14. UNCHANGED <<path, closed>> /\ ~(m.mem \/ m.virtio)
  BY <1>2, <1>5 DEF PropSizeCells
<1>15. Sets(n, p, m, s)
  BY <1>1, <1>2, <1>5, <1>6, <1>9, <1>10, <1>11, <1>13, <1>14 DEF Sets
<1> QED
  BY <1>15, SetNode

\* The two marks: the entry and the slot are marked, the rest stays.
LEMMA MarkStep ==
  ASSUME NEW n, NEW p, NEW s, NEW m \in Nodes, NEW st \in Slot
  PROVE  /\ FdtInv /\ AsRoot /\ n = Len(tree) /\ p = Len(path) /\ s = scan.stack[p]
         /\ m.up = tree[n].up /\ m.reg = tree[n].reg /\ m.addr = tree[n].addr /\ m.size = tree[n].size
         /\ st.is_memory = m.mem /\ st.is_virtio = m.virtio
         /\ st.reg_valid = s.reg_valid /\ st.reg_base = s.reg_base /\ st.reg_size = s.reg_size
         /\ tree' = [tree EXCEPT ![n] = m] /\ scan' = [scan EXCEPT !.stack[p] = st]
         /\ UNCHANGED <<path, closed>>
         => FdtInv'
<1>0. SUFFICES ASSUME
         FdtInv, AsRoot, n = Len(tree), p = Len(path), s = scan.stack[p],
         m.up = tree[n].up, m.reg = tree[n].reg, m.addr = tree[n].addr, m.size = tree[n].size,
         st.is_memory = m.mem, st.is_virtio = m.virtio,
         st.reg_valid = s.reg_valid, st.reg_base = s.reg_base, st.reg_size = s.reg_size,
         tree' = [tree EXCEPT ![n] = m], scan' = [scan EXCEPT !.stack[p] = st],
         UNCHANGED <<path, closed>>
       PROVE  FdtInv'
  OBVIOUS
<1>1. InNode /\ n > 1 /\ Cells(tree[n].up) = Cells(1)
  BY <1>0 DEF AsRoot, OnDevice
<1>2. p \in 1 .. MaxDepth /\ scan \in Scans /\ Kept(n, s)
  BY <1>0, <1>1, TopNode
<1>3. LikeRoot(n)
  BY <1>1 DEF LikeRoot
<1>4. /\ scan' \in Scans /\ scan'.depth = scan.depth /\ scan'.rc = scan.rc
      /\ scan'.addr = scan.addr /\ scan'.size = scan.size
      /\ scan'.mem_base = scan.mem_base /\ scan'.mem_size = scan.mem_size /\ scan'.bases = scan.bases
      /\ scan'.stack = [scan.stack EXCEPT ![p] = st]
  <2>1. PICK ss \in [1 .. MaxDepth -> Slot] : ss = [scan.stack EXCEPT ![p] = st]
    BY <1>0, <1>2, Shape
  <2>2. scan' = [scan EXCEPT !.stack = ss]
    BY <1>0, <2>1
  <2> QED
    BY <2>1, <2>2, <1>2 DEF Scans
<1>5. CountsOK'
  BY <1>0, <1>1, <1>4, CountsStay
<1>6. Kept(n, st)'
  BY <1>0, <1>1, <1>2, KeptAgain
<1>7. /\ FdtInv /\ n = Len(tree) /\ p = Len(path) /\ tree' = [tree EXCEPT ![n] = m]
      /\ m.up = tree[n].up /\ UNCHANGED <<path, closed>>
  BY <1>0
<1>8. m.mem \/ m.virtio => LikeRoot(n)
  BY <1>3
<1>9. Sets(n, p, m, st)
  BY <1>1, <1>4, <1>5, <1>6, <1>7, <1>8 DEF Sets
<1> QED
  BY <1>7, <1>9, SetNode

LEMMA DeviceTypeStep == FdtInv /\ PropDeviceType => FdtInv'
<1> SUFFICES ASSUME FdtInv, PropDeviceType PROVE FdtInv'
  OBVIOUS
<1>1. PICK n, p, s : n = Len(tree) /\ p = Len(path) /\ s = scan.stack[p]
  OBVIOUS
<1>2. AsRoot /\ InNode /\ UNCHANGED <<path, closed>>
  BY DEF PropDeviceType, AsRoot, OnDevice
<1>3. tree[n] \in Nodes /\ s \in Slot /\ Kept(n, s) /\ Top = p
  BY <1>1, <1>2, TopNode
<1>4. PICK m, st : m = [tree[n] EXCEPT !.mem = TRUE] /\ st = [s EXCEPT !.is_memory = TRUE]
  OBVIOUS
<1>5. /\ m \in Nodes /\ m.up = tree[n].up /\ m.reg = tree[n].reg /\ m.addr = tree[n].addr
      /\ m.size = tree[n].size
  BY <1>3, <1>4 DEF Nodes
<1>6. m.mem = TRUE /\ m.virtio = tree[n].virtio
  BY <1>3, <1>4, Zenon DEF Nodes
<1>7. st \in Slot /\ st.reg_base = s.reg_base /\ st.reg_size = s.reg_size
  BY <1>3, <1>4 DEF Slot
<1>8. st.is_memory = TRUE /\ st.is_virtio = s.is_virtio /\ st.reg_valid = s.reg_valid
  BY <1>3, <1>4, Zenon DEF Slot
<1>9. s.is_virtio = tree[n].virtio
  BY <1>3 DEF Kept
<1>10. tree' = [tree EXCEPT ![n] = m] /\ scan' = [scan EXCEPT !.stack[p] = st]
  <2>1. tree' = [tree EXCEPT ![n].mem = TRUE] /\ scan' = [scan EXCEPT !.stack[p].is_memory = TRUE]
    BY <1>1, <1>3, Zenon DEF PropDeviceType
  <2> QED
    BY <2>1, <1>1, <1>4
<1>11. st.is_memory = m.mem /\ st.is_virtio = m.virtio
  BY <1>6, <1>8, <1>9, Zenon
<1> QED
  BY <1>1, <1>2, <1>5, <1>7, <1>8, <1>10, <1>11, MarkStep

LEMMA CompatibleStep == FdtInv /\ PropCompatible => FdtInv'
<1> SUFFICES ASSUME FdtInv, PropCompatible PROVE FdtInv'
  OBVIOUS
<1>1. PICK n, p, s : n = Len(tree) /\ p = Len(path) /\ s = scan.stack[p]
  OBVIOUS
<1>2. AsRoot /\ InNode /\ UNCHANGED <<path, closed>>
  BY DEF PropCompatible, AsRoot, OnDevice
<1>3. tree[n] \in Nodes /\ s \in Slot /\ Kept(n, s) /\ Top = p
  BY <1>1, <1>2, TopNode
<1>4. PICK m, st : m = [tree[n] EXCEPT !.virtio = TRUE] /\ st = [s EXCEPT !.is_virtio = TRUE]
  OBVIOUS
<1>5. /\ m \in Nodes /\ m.up = tree[n].up /\ m.reg = tree[n].reg /\ m.addr = tree[n].addr
      /\ m.size = tree[n].size
  BY <1>3, <1>4 DEF Nodes
<1>6. m.virtio = TRUE /\ m.mem = tree[n].mem
  BY <1>3, <1>4, Zenon DEF Nodes
<1>7. st \in Slot /\ st.reg_base = s.reg_base /\ st.reg_size = s.reg_size
  BY <1>3, <1>4 DEF Slot
<1>8. st.is_virtio = TRUE /\ st.is_memory = s.is_memory /\ st.reg_valid = s.reg_valid
  BY <1>3, <1>4, Zenon DEF Slot
<1>9. s.is_memory = tree[n].mem
  BY <1>3 DEF Kept
<1>10. tree' = [tree EXCEPT ![n] = m] /\ scan' = [scan EXCEPT !.stack[p] = st]
  <2>1. tree' = [tree EXCEPT ![n].virtio = TRUE] /\ scan' = [scan EXCEPT !.stack[p].is_virtio = TRUE]
    BY <1>1, <1>3, Zenon DEF PropCompatible
  <2> QED
    BY <2>1, <1>1, <1>4
<1>11. st.is_memory = m.mem /\ st.is_virtio = m.virtio
  BY <1>6, <1>8, <1>9, Zenon
<1> QED
  BY <1>1, <1>2, <1>5, <1>7, <1>8, <1>10, <1>11, MarkStep

LEMMA RegStep ==
  ASSUME FdtInv, NEW cells \in Regs, PropReg(cells)
  PROVE  FdtInv'
<1>1. PICK n, p, s : n = Len(tree) /\ p = Len(path) /\ s = scan.stack[p]
  OBVIOUS
<1>2. InNode /\ tree[n].reg = Unset /\ UNCHANGED <<path, closed>>
  BY <1>1 DEF PropReg, OnDevice
<1>3. /\ n \in Nat \ {0} /\ p \in 1 .. MaxDepth /\ Top = p /\ tree[n] \in Nodes /\ NodeOK(n)
      /\ s \in Slot /\ Kept(n, s) /\ scan \in Scans
  BY <1>1, <1>2, TopNode
<1>4. PICK m : m = [tree[n] EXCEPT !.reg = cells]
  OBVIOUS
<1>5. /\ m \in Nodes /\ m.up = tree[n].up /\ m.reg = cells /\ m.addr = tree[n].addr
      /\ m.size = tree[n].size
  BY <1>3, <1>4 DEF Nodes
<1>6. m.mem = tree[n].mem /\ m.virtio = tree[n].virtio
  BY <1>3, <1>4, Zenon DEF Nodes
<1>7. tree' = [tree EXCEPT ![n] = m]
  BY <1>1, <1>4 DEF PropReg
<1>8. cells \in Seq(Nat) /\ cells # Unset /\ Len(cells) \in Nat
  BY FdtAssumption DEF Unset
<1>9. PICK a \in Nat, z \in Nat : a = scan.addr /\ z = scan.size
  BY <1>3 DEF Scans
<1>10. s.is_memory = m.mem /\ s.is_virtio = m.virtio
  BY <1>3, <1>6, Zenon DEF Kept
<1>11. m.mem \/ m.virtio => LikeRoot(n)
  BY <1>3, <1>6, Zenon DEF NodeOK
<1>12. tree \in Seq(Nodes)
  BY DEF FdtInv, FdtTyped
<1>13. tree'[n] = m
  BY <1>1, <1>3, <1>7, <1>12
<1>14. LikeRoot(n)' = LikeRoot(n)
  <2>1. PICK u \in 0 .. n - 1 : u = tree[n].up
    BY <1>1, <1>2, TopNode
  <2>2. n > 1 => u # 0
    BY <2>1, <1>3 DEF NodeOK
  <2>3. (u # 0 => tree'[u] = tree[u]) /\ (n > 1 => tree'[1] = tree[1])
    BY <1>1, <1>3, <1>7, <1>12
  <2> QED
    BY <2>1, <2>2, <2>3, <1>3, <1>5, <1>13, SameLikeRoot
<1>15. ASSUME LikeRoot(n)
       PROVE  /\ Decodes(n)' <=> Len(cells) >= a + z
              /\ RegBase(n)' = fdt_read_num(SubSeq(cells, 1, a))
              /\ RegSize(n)' = fdt_read_num(SubSeq(cells, a + 1, a + z))
  <2>1. /\ n > 1 /\ tree[n].up \in 1 .. n - 1
        /\ Addr(n) = a /\ Cell(n) = a + z
    BY <1>1, <1>2, <1>9, <1>15, BusCells
  <2>2. PICK u \in 1 .. n - 1 : u = tree[n].up
    BY <2>1
  <2>3. tree'[u] = tree[u] /\ tree'[n].up = u /\ tree'[n].reg = cells
    BY <2>2, <1>1, <1>3, <1>5, <1>7, <1>12, <1>13
  <2>4. Addr(n)' = a /\ Cell(n)' = a + z
    BY <2>1, <2>2, <2>3 DEF Addr, Cell
  <2>5. u # 0
    OBVIOUS
  <2> QED
    BY <2>3, <2>4, <2>5, <1>8 DEF Decodes, RegBase, RegSize
<1>16. CASE Len(cells) < a + z
  <2>1. scan' = scan
    BY <1>9, <1>16 DEF PropReg
  <2>2. s.reg_valid = FALSE \/ ~LikeRoot(n)
    <3>1. ~Decodes(n)
      BY <1>2 DEF Decodes
    <3> QED
      BY <3>1, <1>3 DEF Kept
  <2>3. Kept(n, s)'
    <3>1. LikeRoot(n) => ~Decodes(n)'
      <4>1. ~(Len(cells) >= a + z)
        BY <1>8, <1>9, <1>16
      <4> QED
        BY <4>1, <1>15, Zenon
    <3>2. s.reg_valid \in BOOLEAN
      BY <1>3, Zenon DEF Slot
    <3>3. Decodes(n)' \in BOOLEAN
      BY DEF Decodes
    <3>4. LikeRoot(n)' => s.reg_valid = Decodes(n)'
      BY <3>1, <3>2, <3>3, <2>2, <1>14
    <3> QED
      BY <3>1, <3>4, <1>10, <1>13, <1>14, Zenon DEF Kept
  <2>4. scan'.stack = [scan.stack EXCEPT ![p] = s]
    BY <2>1, <1>1, <1>3, Shape
  <2>5. CountsOK'
    BY <2>1, <1>1, <1>2, <1>5, <1>7, CountsStay
  <2> QED
    <3>1. /\ scan' \in Scans /\ scan'.depth = scan.depth /\ scan'.rc = scan.rc
          /\ scan'.mem_base = scan.mem_base /\ scan'.mem_size = scan.mem_size
          /\ scan'.bases = scan.bases
      BY <2>1, <1>3
    <3>2. Sets(n, p, m, s)
      BY <3>1, <2>3, <2>4, <2>5, <1>1, <1>2, <1>5, <1>7, <1>11 DEF Sets
    <3> QED
      BY <3>2, SetNode
<1>17. CASE Len(cells) >= a + z
  <2>1. PICK b \in Nums, w \in Nums : /\ b = fdt_read_num(SubSeq(cells, 1, a))
                                      /\ w = fdt_read_num(SubSeq(cells, a + 1, a + z))
    <3>1. SubSeq(cells, 1, a) \in Seq(Nat) /\ SubSeq(cells, a + 1, a + z) \in Seq(Nat)
      <4>1. a <= Len(cells) /\ a + z <= Len(cells) /\ a + 1 \in Nat \ {0} /\ a + z \in Nat
        BY <1>8, <1>17
      <4> QED
        BY <4>1, <1>8, SubSeqIs
    <3>2. \A c \in Seq(Nat) : fdt_read_num(c) \in Nums
      BY Zenon DEF Nums
    <3> QED
      BY <3>1, <3>2
  <2>2. PICK st : st = [s EXCEPT !.reg_valid = TRUE, !.reg_base = b, !.reg_size = w]
    OBVIOUS
  <2>3. st \in Slot /\ st.reg_base = b /\ st.reg_size = w
    BY <2>2, <1>3 DEF Slot
  <2>4. st.reg_valid = TRUE /\ st.is_memory = s.is_memory /\ st.is_virtio = s.is_virtio
    BY <2>2, <1>3, Zenon DEF Slot
  <2>5. scan' = [scan EXCEPT !.stack[p] = st]
    <3>1. ~(Len(cells) < scan.addr + scan.size)
      BY <1>8, <1>9, <1>17
    <3>2. scan' = [scan EXCEPT !.stack[Top] =
                       [@ EXCEPT !.reg_valid = TRUE,
                                 !.reg_base = fdt_read_num(SubSeq(cells, 1, scan.addr)),
                                 !.reg_size = fdt_read_num(SubSeq(cells, scan.addr + 1,
                                                                  scan.addr + scan.size))]]
      BY <3>1, Zenon DEF PropReg
    <3> QED
      BY <3>2, <2>1, <2>2, <1>1, <1>3, <1>9
  <2>6. Kept(n, st)'
    <3>1. LikeRoot(n) => /\ Decodes(n)' = TRUE
                         /\ RegBase(n)' = b /\ RegSize(n)' = w
      BY <2>1, <1>8, <1>15, <1>17
    <3>2. st.is_memory = m.mem /\ st.is_virtio = m.virtio
      BY <2>4, <1>10, Zenon
    <3> QED
      BY <3>1, <3>2, <2>3, <2>4, <1>13, <1>14, Zenon DEF Kept
  <2>7. /\ scan' \in Scans /\ scan'.depth = scan.depth /\ scan'.rc = scan.rc
        /\ scan'.addr = scan.addr /\ scan'.size = scan.size
        /\ scan'.mem_base = scan.mem_base /\ scan'.mem_size = scan.mem_size /\ scan'.bases = scan.bases
        /\ scan'.stack = [scan.stack EXCEPT ![p] = st]
    <3>1. PICK ss \in [1 .. MaxDepth -> Slot] : ss = [scan.stack EXCEPT ![p] = st]
      BY <2>3, <1>3, Shape
    <3>2. scan' = [scan EXCEPT !.stack = ss]
      BY <3>1, <2>5
    <3> QED
      BY <3>1, <3>2, <1>3 DEF Scans
  <2>8. CountsOK'
    BY <2>7, <1>1, <1>2, <1>5, <1>7, CountsStay
  <2>9. Sets(n, p, m, st)
    BY <2>6, <2>7, <2>8, <1>1, <1>2, <1>5, <1>7, <1>11 DEF Sets
  <2> QED
    BY <2>9, SetNode
<1> QED
  BY <1>8, <1>9, <1>16, <1>17

\* END_NODE: the slot says whether the node is a memory node with a size, and
\* whether it is a virtio node, as the tree does.
LEMMA EndedNode ==
  ASSUME FdtInv, NEW p, p = Len(path), p # 0, NEW i, i = path[p], NEW cur, cur = scan.stack[p]
  PROVE  /\ p \in Nat \ {0} /\ p <= MaxDepth /\ i \in 1 .. Len(tree) /\ cur \in Slot
         /\ cur.is_memory /\ cur.reg_valid <=> tree[i].mem /\ Decodes(i)
         /\ cur.is_virtio /\ cur.reg_valid <=> tree[i].virtio /\ Decodes(i)
         /\ tree[i].mem /\ Decodes(i) => cur.reg_base = RegBase(i) /\ cur.reg_size = RegSize(i)
         /\ tree[i].virtio /\ Decodes(i) => cur.reg_base = RegBase(i)
         /\ \A d \in 1 .. p - 1 : path[d] < i
<1>1. p \in Nat \ {0} /\ p <= MaxDepth /\ p \in 1 .. Len(path)
  BY Shape
<1>2. i \in 1 .. Len(tree) /\ Kept(i, cur)
  BY <1>1, Shape
<1>3. NodeOK(i)
  BY <1>2, Shape
<1>4. cur \in Slot
  <2>1. p \in 1 .. MaxDepth
    BY <1>1, Shape
  <2> QED
    BY <2>1, Shape
<1>5. cur.is_memory = tree[i].mem /\ cur.is_virtio = tree[i].virtio
  BY <1>2 DEF Kept
<1>6. tree[i].mem \/ tree[i].virtio =>
        /\ cur.reg_valid = Decodes(i)
        /\ Decodes(i) => cur.reg_base = RegBase(i) /\ cur.reg_size = RegSize(i)
  BY <1>2, <1>3, Zenon DEF Kept, NodeOK
<1>7. \A d \in 1 .. p - 1 : path[d] < i
  BY <1>1 DEF FdtInv, PathOK
<1>8. /\ cur.is_memory /\ cur.reg_valid <=> tree[i].mem /\ Decodes(i)
      /\ cur.is_virtio /\ cur.reg_valid <=> tree[i].virtio /\ Decodes(i)
      /\ tree[i].mem /\ Decodes(i) => cur.reg_base = RegBase(i) /\ cur.reg_size = RegSize(i)
      /\ tree[i].virtio /\ Decodes(i) => cur.reg_base = RegBase(i)
  BY <1>5, <1>6, Zenon
<1> QED
  BY <1>1, <1>2, <1>4, <1>7, <1>8, Zenon

\* Nothing that the tree says changes while the tree stays.
LEMMA SameTree ==
  ASSUME tree' = tree, NEW i
  PROVE  /\ Decodes(i)' = Decodes(i) /\ RegBase(i)' = RegBase(i) /\ RegSize(i)' = RegSize(i)
         /\ NodeOK(i)' = NodeOK(i) /\ \A s : Kept(i, s)' = Kept(i, s)
<1>1. Decodes(i)' = Decodes(i) /\ RegBase(i)' = RegBase(i) /\ RegSize(i)' = RegSize(i)
  BY DEF Decodes, RegBase, RegSize, Addr, Cell
<1>2. LikeRoot(i)' = LikeRoot(i)
  BY DEF LikeRoot, Cells
<1>3. NodeOK(i)' = NodeOK(i)
  BY <1>2 DEF NodeOK
<1>4. \A s : Kept(i, s)' = Kept(i, s)
  BY <1>1, <1>2, Zenon DEF Kept
<1> QED
  BY <1>1, <1>3, <1>4

LEMMA MemoryFound ==
  ASSUME FdtInv, FirstMemory, tree' = tree, NEW i, closed' = Append(closed, i), i \in Nat,
         NEW mem \in BOOLEAN, NEW base, NEW length,
         mem <=> tree[i].mem /\ Decodes(i) /\ scan.mem_size = 0,
         tree[i].mem /\ Decodes(i) => base = RegBase(i) /\ length = RegSize(i),
         scan'.mem_base = (IF mem THEN base ELSE scan.mem_base),
         scan'.mem_size = (IF mem THEN length ELSE scan.mem_size)
  PROVE  FirstMemory'
<1>1. PICK n \in Nat : n = Len(closed)
  BY Shape
<1>2. /\ DOMAIN closed = 1 .. n /\ DOMAIN closed' = 1 .. n + 1 /\ closed'[n + 1] = i
      /\ \A k \in 1 .. n : closed'[k] = closed[k]
  BY <1>1 DEF FdtInv, FdtTyped
<1>3. \A j : Decodes(j)' = Decodes(j) /\ RegBase(j)' = RegBase(j) /\ RegSize(j)' = RegSize(j)
  BY SameTree
<1>4. \A k \in 1 .. n : /\ Decodes(closed[k])' = Decodes(closed[k])
                        /\ RegBase(closed[k])' = RegBase(closed[k])
                        /\ RegSize(closed[k])' = RegSize(closed[k])
                        /\ tree'[closed'[k]] = tree[closed[k]]
  <2>1. TAKE k \in 1 .. n
  <2>2. PICK j : j = closed[k] /\ j = closed'[k]
    BY <1>2
  <2> QED
    BY <2>2, <1>3
<1>5. ASSUME NEW k, k = n + 1
      PROVE  /\ Decodes(closed[k])' = Decodes(i) /\ RegBase(closed[k])' = RegBase(i)
             /\ RegSize(closed[k])' = RegSize(i) /\ tree'[closed'[k]] = tree[i]
  <2>1. closed'[k] = i
    BY <1>2, <1>5
  <2> QED
    BY <2>1, <1>3
<1>6. MemNodes' = MemNodes \cup
                  (IF tree[i].mem /\ Decodes(i) /\ RegSize(i) # 0 THEN {n + 1} ELSE {})
  <2>1. ASSUME NEW k \in 1 .. n PROVE k \in MemNodes' <=> k \in MemNodes
    BY <2>1, <1>2, <1>4 DEF MemNodes
  <2>2. n + 1 \in MemNodes' <=> tree[i].mem /\ Decodes(i) /\ RegSize(i) # 0
    <3>1. PICK k : k = n + 1
      OBVIOUS
    <3>2. k \in MemNodes' <=> tree[i].mem /\ Decodes(i) /\ RegSize(i) # 0
      BY <3>1, <1>2, <1>5 DEF MemNodes
    <3> QED
      BY <3>1, <3>2
  <2>3. MemNodes \in SUBSET (1 .. n) /\ MemNodes' \in SUBSET (1 .. n + 1)
    BY <1>2 DEF MemNodes
  <2>4. MemNodes' = MemNodes \cup (IF n + 1 \in MemNodes' THEN {n + 1} ELSE {})
    <3>1. PICK A \in SUBSET (1 .. n), B \in SUBSET (1 .. n + 1) : A = MemNodes /\ B = MemNodes'
      BY <2>3, Zenon
    <3>2. \A k \in 1 .. n : k \in B <=> k \in A
      BY <2>1, <3>1
    <3>3. B = A \cup (IF n + 1 \in B THEN {n + 1} ELSE {})
      BY <3>2, OnePlaceMore
    <3> QED
      BY <3>1, <3>3, Zenon
  <2> QED
    BY <2>2, <2>4
<1>7. MemNodes \subseteq 1 .. n
  BY <1>2 DEF MemNodes
<1>8. CASE MemNodes # {}
  <2>1. scan.mem_size # 0
    BY <1>8 DEF FirstMemory
  <2>2. PICK k \in MemNodes : /\ \A j \in MemNodes : k <= j
                              /\ scan.mem_base = RegBase(closed[k])
                              /\ scan.mem_size = RegSize(closed[k])
    BY <1>8 DEF FirstMemory
  <2>3. scan'.mem_base = scan.mem_base /\ scan'.mem_size = scan.mem_size
    BY <2>1
  <2>4. k \in MemNodes' /\ \A j \in MemNodes' : k <= j
    BY <2>2, <1>6, <1>7
  <2>5. scan'.mem_base = RegBase(closed[k])' /\ scan'.mem_size = RegSize(closed[k])'
    BY <2>2, <2>3, <1>4, <1>7
  <2> QED
    BY <2>1, <2>3, <2>4, <2>5 DEF FirstMemory
<1>9. CASE MemNodes = {} /\ tree[i].mem /\ Decodes(i) /\ RegSize(i) # 0
  <2>1. scan.mem_size = 0
    BY <1>9 DEF FirstMemory
  <2>2. mem
    BY <2>1, <1>9
  <2>3. scan'.mem_base = RegBase(i) /\ scan'.mem_size = RegSize(i)
    BY <2>2, <1>9
  <2>4. MemNodes' = {n + 1}
    BY <1>6, <1>9
  <2>5. PICK k : k = n + 1
    OBVIOUS
  <2>6. k \in MemNodes' /\ \A j \in MemNodes' : k <= j
    BY <2>4, <2>5
  <2>7. scan'.mem_base = RegBase(closed[k])' /\ scan'.mem_size = RegSize(closed[k])' /\ scan'.mem_size # 0
    BY <2>3, <2>5, <1>5, <1>9
  <2> QED
    BY <2>6, <2>7 DEF FirstMemory
<1>10. CASE MemNodes = {} /\ ~(tree[i].mem /\ Decodes(i) /\ RegSize(i) # 0)
  <2>1. scan.mem_size = 0
    BY <1>10 DEF FirstMemory
  <2>2. scan'.mem_size = 0
    BY <2>1, <1>10
  <2>3. MemNodes' = {}
    BY <1>6, <1>10
  <2> QED
    BY <2>2, <2>3 DEF FirstMemory
<1> QED
  BY <1>8, <1>9, <1>10

LEMMA BasesFound ==
  ASSUME FdtInv, tree' = tree, NEW i, closed' = Append(closed, i), i \in Nat,
         NEW virtio \in BOOLEAN, NEW base \in Nums,
         virtio <=> tree[i].virtio /\ Decodes(i) /\ Len(scan.bases) < MaxBases,
         tree[i].virtio /\ Decodes(i) => base = RegBase(i),
         scan'.bases = (IF virtio THEN Append(scan.bases, base) ELSE scan.bases)
  PROVE  BasesAreTheTrees'
<1>1. PICK n \in Nat : n = Len(closed)
  BY Shape
<1>2. /\ DOMAIN closed = 1 .. n /\ DOMAIN closed' = 1 .. n + 1 /\ closed'[n + 1] = i
      /\ \A k \in 1 .. n : closed'[k] = closed[k]
  BY <1>1 DEF FdtInv, FdtTyped
<1>3. \A j : Decodes(j)' = Decodes(j) /\ RegBase(j)' = RegBase(j)
  BY SameTree
<1>4. \A k \in 1 .. n : /\ Decodes(closed[k])' = Decodes(closed[k])
                        /\ RegBase(closed[k])' = RegBase(closed[k])
                        /\ tree'[closed'[k]] = tree[closed[k]]
  <2>1. TAKE k \in 1 .. n
  <2>2. PICK j : j = closed[k] /\ j = closed'[k]
    BY <1>2
  <2> QED
    BY <2>2, <1>3
<1>5. ASSUME NEW k, k = n + 1
      PROVE  /\ Decodes(closed[k])' = Decodes(i) /\ RegBase(closed[k])' = RegBase(i)
             /\ tree'[closed'[k]] = tree[i]
  <2>1. closed'[k] = i
    BY <1>2, <1>5
  <2> QED
    BY <2>1, <1>3
<1> DEFINE isone == tree[i].virtio /\ Decodes(i)
<1>6. VirtioNodes' = VirtioNodes \cup (IF isone THEN {n + 1} ELSE {})
  <2>1. ASSUME NEW k \in 1 .. n PROVE k \in VirtioNodes' <=> k \in VirtioNodes
    BY <2>1, <1>2, <1>4 DEF VirtioNodes
  <2>2. n + 1 \in VirtioNodes' <=> isone
    <3>1. PICK k : k = n + 1
      OBVIOUS
    <3>2. k \in VirtioNodes' <=> isone
      BY <3>1, <1>2, <1>5 DEF VirtioNodes
    <3> QED
      BY <3>1, <3>2
  <2>3. VirtioNodes \in SUBSET (1 .. n) /\ VirtioNodes' \in SUBSET (1 .. n + 1)
    BY <1>2 DEF VirtioNodes
  <2>4. VirtioNodes' = VirtioNodes \cup (IF n + 1 \in VirtioNodes' THEN {n + 1} ELSE {})
    <3>1. PICK A \in SUBSET (1 .. n), B \in SUBSET (1 .. n + 1) : A = VirtioNodes /\ B = VirtioNodes'
      BY <2>3, Zenon
    <3>2. \A k \in 1 .. n : k \in B <=> k \in A
      BY <2>1, <3>1
    <3>3. B = A \cup (IF n + 1 \in B THEN {n + 1} ELSE {})
      BY <3>2, OnePlaceMore
    <3> QED
      BY <3>1, <3>3, Zenon
  <2> HIDE DEF isone
  <2> QED
    BY <2>2, <2>4
<1>7. PICK V \in SUBSET (1 .. n) : V = VirtioNodes
  BY <1>2 DEF VirtioNodes
<1>v. V \in SUBSET (1 .. n) /\ \A j \in V : j \in Nat /\ j <= n
  <2>1. \A j \in 1 .. n : j \in Nat /\ j <= n
    OBVIOUS
  <2> QED
    BY <2>1, Zenon
<1>8. PICK c \in Nat : c = Cardinality(V)
  BY NextPlace
<1>9. MaxBases \in Nat /\ scan.bases \in Seq(Nums)
  BY FdtAssumption DEF FdtInv, FdtTyped, Scans
<1>10. /\ Len(scan.bases) = IF c <= MaxBases THEN c ELSE MaxBases
       /\ \A k \in V : Rank(k) <= MaxBases => scan.bases[Rank(k)] = RegBase(closed[k])
  BY <1>7, <1>8, <1>9, SmallerIs DEF FdtInv, BasesAreTheTrees
<1>11. \A k \in V : Rank(k) \in Nat /\ Rank(k) > 0 /\ Rank(k) <= c
  <2>1. TAKE k \in V
  <2>2. PICK T : T = {j \in V : j <= k}
    OBVIOUS
  <2>3. Rank(k) = Cardinality(T)
    BY <2>2, <1>7 DEF Rank
  <2>4. T \in SUBSET V /\ k \in T
    BY <2>2, <1>v
  <2> QED
    BY <2>3, <2>4, <1>v, <1>8, UpTo
<1>12. CASE ~isone
  <2>1. VirtioNodes' = V
    BY <1>6, <1>7, <1>12
  <2>2. \A k \in V : Rank(k)' = Rank(k)
    BY <2>1, <1>7 DEF Rank
  <2>3. scan'.bases = scan.bases
    BY <1>12
  <2>4. \A k \in V : Rank(k)' <= MaxBases => scan'.bases[Rank(k)'] = RegBase(closed[k])'
    BY <2>2, <2>3, <1>4, <1>10
  <2>5. Len(scan'.bases) = Min({Cardinality(VirtioNodes'), MaxBases})
    BY <2>1, <2>3, <1>8, <1>9, <1>10, SmallerIs
  <2> QED
    BY <2>1, <2>4, <2>5 DEF BasesAreTheTrees
<1>13. CASE isone
  <2>1. VirtioNodes' = V \cup {n + 1}
    BY <1>6, <1>7, <1>13
  <2>2. Cardinality(V \cup {n + 1}) = c + 1
    BY <1>8, NextPlace
  <2>3. \A k \in V : Rank(k)' = Rank(k)
    <3>1. TAKE k \in V
    <3>2. {j \in V \cup {n + 1} : j <= k} = {j \in V : j <= k}
      OBVIOUS
    <3> QED
      BY <3>2, <2>1, <1>7 DEF Rank
  <2>4. ASSUME NEW k, k = n + 1 PROVE Rank(k)' = c + 1
    <3>1. {j \in V \cup {n + 1} : j <= k} = V \cup {n + 1}
      <4>1. \A j \in V \cup {n + 1} : j <= k
        BY <2>4, <1>v
      <4> QED
        BY <4>1
    <3> QED
      BY <3>1, <2>1, <2>2 DEF Rank
  <2>5. base = RegBase(i) /\ (virtio <=> Len(scan.bases) < MaxBases)
    BY <1>13
  <2>6. CASE c < MaxBases
    <3>1. Len(scan.bases) = c
      BY <2>6, <1>8, <1>9, <1>10
    <3>2. scan'.bases = Append(scan.bases, base)
      BY <2>5, <2>6, <3>1
    <3>3. /\ Len(scan'.bases) = c + 1 /\ scan'.bases[c + 1] = base
          /\ \A q \in 1 .. c : scan'.bases[q] = scan.bases[q]
      <4>1. PICK bases \in Seq(Nums) : bases = scan.bases
        BY <1>9
      <4>2. /\ Len(Append(bases, base)) = Len(bases) + 1
            /\ Append(bases, base)[Len(bases) + 1] = base
            /\ \A q \in 1 .. Len(bases) : Append(bases, base)[q] = bases[q]
        BY Appended
      <4> QED
        BY <4>1, <4>2, <3>1, <3>2
    <3>4. ASSUME NEW k \in V, Rank(k)' <= MaxBases
          PROVE  scan'.bases[Rank(k)'] = RegBase(closed[k])'
      <4>1. PICK q \in 1 .. c : q = Rank(k)
        BY <1>8, <1>11
      <4>2. scan.bases[q] = RegBase(closed[k])
        BY <4>1, <3>4, <2>3, <1>10
      <4> QED
        BY <4>1, <4>2, <3>3, <2>3, <1>4
    <3>5. ASSUME NEW k, k = n + 1 PROVE scan'.bases[Rank(k)'] = RegBase(closed[k])'
      BY <3>3, <3>5, <2>4, <2>5, <1>5
    <3>6. Len(scan'.bases) = Min({Cardinality(VirtioNodes'), MaxBases})
      <4>1. Min({c + 1, MaxBases}) = c + 1
        BY <2>6, <1>8, <1>9, SmallerIs
      <4> QED
        BY <4>1, <3>3, <2>1, <2>2
    <3> QED
      BY <3>4, <3>5, <3>6, <2>1 DEF BasesAreTheTrees
  <2>7. CASE c >= MaxBases
    <3>1. Len(scan.bases) = MaxBases
      BY <2>7, <1>8, <1>9, <1>10
    <3>2. scan'.bases = scan.bases
      BY <2>5, <3>1, <1>9
    <3>3. \A k \in V : Rank(k)' <= MaxBases => scan'.bases[Rank(k)'] = RegBase(closed[k])'
      BY <2>3, <3>2, <1>4, <1>10
    <3>4. ASSUME NEW k, k = n + 1 PROVE ~(Rank(k)' <= MaxBases)
      BY <3>4, <2>4, <2>7, <1>8, <1>9
    <3>5. Len(scan'.bases) = Min({Cardinality(VirtioNodes'), MaxBases})
      <4>1. Min({c + 1, MaxBases}) = MaxBases
        BY <2>7, <1>8, <1>9, SmallerIs
      <4> QED
        BY <4>1, <3>1, <3>2, <2>1, <2>2
    <3> QED
      BY <3>3, <3>4, <3>5, <2>1 DEF BasesAreTheTrees
  <2> QED
    BY <2>6, <2>7, <1>8, <1>9
<1> QED
  BY <1>12, <1>13

LEMMA EndStep == FdtInv /\ EndNode => FdtInv'
<1> SUFFICES ASSUME FdtInv, EndNode PROVE FdtInv'
  OBVIOUS
<1>1. PICK p, i, cur : p = Len(path) /\ i = path[p] /\ cur = scan.stack[p]
  OBVIOUS
<1>2. scan.rc = "running" /\ p # 0 /\ scan.depth = p /\ Last(path) = i
  BY <1>1, Shape DEF EndNode, Last
<1>3. /\ p \in Nat \ {0} /\ p <= MaxDepth /\ i \in 1 .. Len(tree) /\ cur \in Slot
      /\ cur.is_memory /\ cur.reg_valid <=> tree[i].mem /\ Decodes(i)
      /\ cur.is_virtio /\ cur.reg_valid <=> tree[i].virtio /\ Decodes(i)
      /\ tree[i].mem /\ Decodes(i) => cur.reg_base = RegBase(i) /\ cur.reg_size = RegSize(i)
      /\ tree[i].virtio /\ Decodes(i) => cur.reg_base = RegBase(i)
      /\ \A d \in 1 .. p - 1 : path[d] < i
  BY <1>1, <1>2, EndedNode
<1>4. PICK mem \in BOOLEAN, virtio \in BOOLEAN :
        /\ mem <=> cur.is_memory /\ cur.reg_valid /\ scan.mem_size = 0
        /\ virtio <=> cur.is_virtio /\ cur.reg_valid /\ Len(scan.bases) < MaxBases
  OBVIOUS
<1>5. /\ scan' = [scan EXCEPT
                    !.depth = @ - 1,
                    !.mem_base = IF mem THEN cur.reg_base ELSE @,
                    !.mem_size = IF mem THEN cur.reg_size ELSE @,
                    !.bases = IF virtio THEN Append(@, cur.reg_base) ELSE @]
      /\ path' = Front(path) /\ closed' = Append(closed, i) /\ tree' = tree
  <2>1. LET c == scan.stack[scan.depth]
            m == c.is_memory /\ c.reg_valid /\ scan.mem_size = 0
            v == c.is_virtio /\ c.reg_valid /\ Len(scan.bases) < MaxBases
        IN  scan' = [scan EXCEPT
                      !.depth = @ - 1,
                      !.mem_base = IF m THEN c.reg_base ELSE @,
                      !.mem_size = IF m THEN c.reg_size ELSE @,
                      !.bases = IF v THEN Append(@, c.reg_base) ELSE @]
    BY DEF EndNode
  <2>2. scan.stack[scan.depth] = cur
    BY <1>1, <1>2
  <2> QED
    BY <2>1, <2>2, <1>2, <1>4 DEF EndNode
<1>6. PICK rb \in Nums, rs \in Nums : rb = cur.reg_base /\ rs = cur.reg_size
  BY <1>3 DEF Slot
<1>7. scan \in Scans /\ path \in Seq(Nat) /\ closed \in Seq(Nat)
  BY DEF FdtInv, FdtTyped
<1>8. PICK q \in Nat, mb \in Nums, ms \in Nums, bs \in Seq(Nums) :
        /\ q = p - 1
        /\ mb = IF mem THEN rb ELSE scan.mem_base
        /\ ms = IF mem THEN rs ELSE scan.mem_size
        /\ bs = IF virtio THEN Append(scan.bases, rb) ELSE scan.bases
  <2>1. p - 1 \in Nat
    BY <1>3
  <2>2. scan.mem_base \in Nums /\ scan.mem_size \in Nums /\ scan.bases \in Seq(Nums)
    BY <1>7 DEF Scans
  <2>3. Append(scan.bases, rb) \in Seq(Nums)
    BY <2>2, Appended
  <2> QED
    BY <2>1, <2>2, <2>3
<1>9. /\ scan' \in Scans /\ scan'.depth = q /\ scan'.mem_base = mb /\ scan'.mem_size = ms
      /\ scan'.bases = bs /\ scan'.stack = scan.stack /\ scan'.rc = scan.rc
      /\ scan'.addr = scan.addr /\ scan'.size = scan.size
  <2>1. scan' = [scan EXCEPT !.depth = q, !.mem_base = mb, !.mem_size = ms, !.bases = bs]
    BY <1>2, <1>5, <1>6, <1>8
  <2> QED
    BY <2>1, <1>7 DEF Scans
<1>10. /\ path' \in Seq(Nat) /\ Len(path') = q /\ \A d \in 1 .. q : path'[d] = path[d]
       /\ Len(path) = q + 1 /\ q < p
  <2>1. path # <<>>
    BY DEF EndNode
  <2>2. /\ Front(path) \in Seq(Nat) /\ Len(Front(path)) = Len(path) - 1
        /\ \A d \in 1 .. Len(path) - 1 : Front(path)[d] = path[d]
    BY <2>1, <1>7, LastOff
  <2>3. Len(path) = p /\ q = p - 1 /\ p \in Nat \ {0}
    BY <1>1, <1>3, <1>8
  <2> QED
    BY <2>2, <2>3, <1>5
<1>11. PICK n \in Nat : n = Len(closed)
  BY Shape
<1>12. /\ closed' \in Seq(Nat) /\ Len(closed') = n + 1 /\ closed'[n + 1] = i
       /\ \A k \in 1 .. n : closed'[k] = closed[k]
  <2>1. i \in Nat
    BY <1>3
  <2> QED
    BY <2>1, <1>5, <1>7, <1>11, Appended
<1>13. FdtTyped'
  <2>1. tree \in Seq(Nodes)
    BY DEF FdtInv, FdtTyped
  <2>2. q <= MaxDepth
    BY <1>3, <1>8, Shape
  <2> QED
    BY <2>1, <2>2, <1>5, <1>9, <1>10, <1>12 DEF FdtTyped
<1>14. \A j \in 1 .. Len(tree') : NodeOK(j)'
  <2>1. ASSUME NEW j \in 1 .. Len(tree) PROVE NodeOK(j)'
    <3>1. NodeOK(j)
      BY DEF FdtInv
    <3> QED
      BY <3>1, <1>5, SameTree
  <2> QED
    BY <2>1, <1>5
<1>15. PathOK'
  <2>1. /\ \A d \in 1 .. Len(path) : path[d] \in 1 .. Len(tree)
        /\ \A c, d \in 1 .. Len(path) : c < d => path[c] < path[d]
        /\ path # <<>> => path[1] = 1
    BY DEF FdtInv, PathOK
  <2>2. \A d \in 1 .. q : d \in 1 .. Len(path) /\ path'[d] = path[d]
    BY <1>10
  <2>3. path' # <<>> => path'[1] = 1
    <3>1. path' # <<>> => 1 \in 1 .. q
      BY <1>10
    <3> QED
      BY <3>1, <2>1, <2>2 DEF EndNode
  <2> QED
    BY <2>1, <2>2, <2>3, <1>5, <1>10 DEF PathOK
<1>16. SlotsOK'
  <2>1. ASSUME NEW d \in 1 .. q PROVE Kept(path[d], scan.stack[d])'
    <3>1. PICK j, s : j = path[d] /\ s = scan.stack[d]
      OBVIOUS
    <3>2. Kept(j, s)
      <4>1. d \in 1 .. Len(path)
        BY <1>10
      <4> QED
        BY <4>1, <3>1, Shape
    <3>3. Kept(j, s)'
      BY <3>2, <1>5, SameTree
    <3>4. path'[d] = j /\ scan'.stack[d] = s
      BY <3>1, <1>9, <1>10
    <3> QED
      BY <3>3, <3>4
  <2> QED
    BY <2>1, <1>10 DEF SlotsOK
<1>17. ClosedOK'
  <2>1. ASSUME NEW k \in 1 .. n + 1
        PROVE  closed'[k] \in 1 .. Len(tree) /\ \A d \in 1 .. q : closed'[k] # path[d]
    <3>1. CASE k = n + 1
      <4>1. closed'[k] = i
        BY <3>1, <1>12
      <4>2. \A d \in 1 .. q : path[d] < i /\ path[d] \in Nat /\ i \in Nat
        <5>1. ASSUME NEW d \in 1 .. q PROVE path[d] < i /\ path[d] \in Nat /\ i \in Nat
          <6>1. d \in 1 .. Len(path) /\ d \in 1 .. p - 1
            BY <1>8, <1>10
          <6>2. path[d] \in 1 .. Len(tree)
            BY <6>1, Shape
          <6> QED
            BY <6>1, <6>2, <1>3
        <5> QED
          BY <5>1
      <4> QED
        BY <4>1, <4>2, <1>3
    <3>2. CASE k # n + 1
      <4>1. k \in 1 .. n
        BY <3>2
      <4>2. closed[k] \in 1 .. Len(tree) /\ \A d \in 1 .. Len(path) : closed[k] # path[d]
        BY <4>1, <1>11 DEF FdtInv, ClosedOK
      <4> QED
        BY <4>1, <4>2, <1>10, <1>12
    <3> QED
      BY <3>1, <3>2
  <2> QED
    BY <2>1, <1>5, <1>10, <1>12, SMTT(30) DEF ClosedOK
<1>18. CountsOK'
  BY <1>5, <1>9 DEF FdtInv, CountsOK
<1>19. FirstMemory'
  <2>1. FirstMemory
    BY <1>2 DEF FdtInv
  <2>2. i \in Nat
    BY <1>3
  <2>3. mem <=> tree[i].mem /\ Decodes(i) /\ scan.mem_size = 0
    BY <1>3, <1>4, Zenon
  <2>4. tree[i].mem /\ Decodes(i) => rb = RegBase(i) /\ rs = RegSize(i)
    BY <1>3, <1>6
  <2>5. /\ scan'.mem_base = (IF mem THEN rb ELSE scan.mem_base)
        /\ scan'.mem_size = (IF mem THEN rs ELSE scan.mem_size)
    BY <1>8, <1>9
  <2> QED
    BY <2>1, <2>2, <2>3, <2>4, <2>5, <1>5, MemoryFound
<1>20. BasesAreTheTrees'
  <2>1. i \in Nat
    BY <1>3
  <2>2. virtio <=> tree[i].virtio /\ Decodes(i) /\ Len(scan.bases) < MaxBases
    BY <1>3, <1>4, Zenon
  <2>3. tree[i].virtio /\ Decodes(i) => rb = RegBase(i)
    BY <1>3, <1>6
  <2>4. scan'.bases = (IF virtio THEN Append(scan.bases, rb) ELSE scan.bases)
    BY <1>8, <1>9
  <2> QED
    BY <2>1, <2>2, <2>3, <2>4, <1>5, BasesFound
<1> QED
  BY <1>13, <1>14, <1>15, <1>16, <1>17, <1>18, <1>19, <1>20 DEF FdtInv

\* A step that leaves the tree and what was found of it alone.
LEMMA SameFound ==
  ASSUME FdtInv, UNCHANGED <<tree, path, closed>>, scan' \in Scans, scan'.depth = scan.depth,
         scan'.rc # "error" => scan.rc # "error", scan'.addr = scan.addr, scan'.size = scan.size,
         scan'.stack = scan.stack, scan'.mem_base = scan.mem_base,
         scan'.mem_size = scan.mem_size, scan'.bases = scan.bases
  PROVE  FdtInv'
<1>1. FdtTyped'
  BY DEF FdtInv, FdtTyped
<1>2. \A j \in 1 .. Len(tree') : NodeOK(j)'
  <2>1. ASSUME NEW j \in 1 .. Len(tree) PROVE NodeOK(j)'
    <3>1. NodeOK(j)
      BY DEF FdtInv
    <3> QED
      BY <3>1, SameTree
  <2> QED
    BY <2>1
<1>3. SlotsOK'
  <2>1. ASSUME NEW d \in 1 .. Len(path) PROVE Kept(path[d], scan.stack[d])'
    <3>1. PICK j, s : j = path[d] /\ s = scan.stack[d]
      OBVIOUS
    <3>2. Kept(j, s)
      BY <3>1, Shape
    <3>3. Kept(j, s)'
      BY <3>2, SameTree
    <3>4. path'[d] = j /\ scan'.stack[d] = s
      BY <3>1
    <3> QED
      BY <3>3, <3>4
  <2> QED
    BY <2>1 DEF SlotsOK
<1>4. PathOK' /\ ClosedOK' /\ CountsOK'
  BY DEF FdtInv, PathOK, ClosedOK, CountsOK
<1>5. (FirstMemory => FirstMemory') /\ (BasesAreTheTrees => BasesAreTheTrees')
  <2>1. FdtTyped
    BY DEF FdtInv
  <2> QED
    BY <2>1, FoundStays
<1> QED
  BY <1>1, <1>2, <1>3, <1>4, <1>5 DEF FdtInv

LEMMA TimebaseStep ==
  ASSUME FdtInv, NEW hz \in Rates, PropTimebase(hz)
  PROVE  FdtInv'
<1>1. scan \in Scans
  BY DEF FdtInv, FdtTyped
<1>2. PICK t \in Rates \cup {0} : t = IF scan.timebase = 0 THEN hz ELSE scan.timebase
  BY <1>1 DEF Scans
<1>3. scan' = [scan EXCEPT !.timebase = t]
  BY <1>2 DEF PropTimebase
<1>4. /\ scan' \in Scans /\ scan'.depth = scan.depth /\ scan'.rc = scan.rc
      /\ scan'.addr = scan.addr /\ scan'.size = scan.size /\ scan'.stack = scan.stack
      /\ scan'.mem_base = scan.mem_base /\ scan'.mem_size = scan.mem_size /\ scan'.bases = scan.bases
  BY <1>1, <1>3 DEF Scans
<1>5. UNCHANGED <<tree, path, closed>>
  BY DEF PropTimebase
<1> QED
  BY <1>4, <1>5, SameFound

LEMMA EndTreeStep == FdtInv /\ EndTree => FdtInv'
<1> SUFFICES ASSUME FdtInv, EndTree PROVE FdtInv'
  OBVIOUS
<1>1. scan \in Scans
  BY DEF FdtInv, FdtTyped
<1>2. scan.rc = "running" /\ scan' = [scan EXCEPT !.rc = "ok"] /\ UNCHANGED <<tree, path, closed>>
  BY DEF EndTree
<1>3. /\ scan' \in Scans /\ scan'.depth = scan.depth
      /\ scan'.addr = scan.addr /\ scan'.size = scan.size /\ scan'.stack = scan.stack
      /\ scan'.mem_base = scan.mem_base /\ scan'.mem_size = scan.mem_size /\ scan'.bases = scan.bases
  BY <1>1, <1>2 DEF Scans
<1>4. scan.rc # "error"
  BY <1>2
<1> QED
  BY <1>2, <1>3, <1>4, SameFound

LEMMA BadTreeStep == FdtInv /\ BadTree => FdtInv'
<1> SUFFICES ASSUME FdtInv, BadTree PROVE FdtInv'
  OBVIOUS
<1>1. scan \in Scans /\ MaxDepth \in Nat /\ MaxBases \in Nat
  BY FdtAssumption DEF FdtInv, FdtTyped
<1>2. /\ scan' = [scan EXCEPT !.rc = "error", !.depth = 0, !.bases = <<>>]
      /\ tree' = <<>> /\ path' = <<>> /\ closed' = <<>>
  BY DEF BadTree
<1>3. scan' \in Scans /\ scan'.rc = "error" /\ scan'.depth = 0 /\ scan'.bases = <<>>
  <2>0. <<>> \in Seq(Nums)
    OBVIOUS
  <2>1. PICK none \in Seq(Nums) : none = <<>>
    BY <2>0, Zenon
  <2>2. scan' = [scan EXCEPT !.rc = "error", !.depth = 0, !.bases = none]
    BY <2>1, <1>2
  <2> QED
    BY <2>1, <2>2, <1>1 DEF Scans
<1>4. FdtTyped'
  BY <1>1, <1>2, <1>3 DEF FdtTyped
<1>5. PathOK' /\ SlotsOK' /\ ClosedOK' /\ CountsOK' /\ \A i \in 1 .. Len(tree') : NodeOK(i)'
  BY <1>2 DEF PathOK, SlotsOK, ClosedOK, CountsOK
<1>6. VirtioNodes' = {}
  BY <1>2 DEF VirtioNodes
<1>7. Cardinality({}) = 0
  BY FS_EmptySet
<1>8. BasesAreTheTrees'
  BY <1>1, <1>3, <1>6, <1>7, SmallerIs DEF BasesAreTheTrees
<1> QED
  BY <1>3, <1>4, <1>5, <1>8 DEF FdtInv

LEMMA FdtSteps == FdtInv /\ [FdtNext]_fdtvars => FdtInv'
<1> SUFFICES ASSUME FdtInv, [FdtNext]_fdtvars PROVE FdtInv'
  OBVIOUS
<1>1. ASSUME UNCHANGED fdtvars PROVE FdtInv'
  <2>1. UNCHANGED <<tree, path, closed>> /\ scan' = scan
    BY <1>1 DEF fdtvars
  <2>2. scan \in Scans
    BY DEF FdtInv, FdtTyped
  <2> QED
    BY <2>1, <2>2, SameFound
<1>2. CASE BeginNode
  BY <1>2, BeginStep
<1>3. CASE EndNode
  BY <1>3, EndStep
<1>4. CASE PropDeviceType
  BY <1>4, DeviceTypeStep
<1>5. CASE PropCompatible
  BY <1>5, CompatibleStep
<1>6. CASE EndTree
  BY <1>6, EndTreeStep
<1>7. CASE BadTree
  BY <1>7, BadTreeStep
<1>8. ASSUME NEW c \in Counts, PropAddressCells(c) \/ PropSizeCells(c) PROVE FdtInv'
  BY <1>8, AddressCellsStep, SizeCellsStep
<1>9. ASSUME NEW cells \in Regs, PropReg(cells) PROVE FdtInv'
  BY <1>9, RegStep
<1>10. ASSUME NEW hz \in Rates, PropTimebase(hz) PROVE FdtInv'
  BY <1>10, TimebaseStep
<1> QED
  BY <1>1, <1>2, <1>3, <1>4, <1>5, <1>6, <1>7, <1>8, <1>9, <1>10 DEF FdtNext

\* What the callers read is what the invariant says was found.
LEMMA FdtIsRead == FdtInv => TreeRead
<1> SUFFICES ASSUME FdtInv PROVE TreeRead
  OBVIOUS
<1>1. scan \in Scans /\ scan.depth = Len(path)
  BY DEF FdtInv, FdtTyped
<1>2. MaxBases \in Nat
  BY FdtAssumption
<1>3. Len(scan.bases) <= MaxBases
  <2>1. PICK n \in Nat : n = Len(closed)
    BY Shape
  <2>2. PICK V \in SUBSET (1 .. n) : V = VirtioNodes
    BY <2>1, Shape DEF VirtioNodes
  <2>3. PICK c \in Nat : c = Cardinality(V)
    BY NextPlace
  <2>4. Len(scan.bases) = IF c <= MaxBases THEN c ELSE MaxBases
    BY <2>2, <2>3, <1>2, SmallerIs DEF FdtInv, BasesAreTheTrees
  <2> QED
    BY <2>3, <2>4, <1>2
<1>4. FdtTypeOK
  <2>1. DOMAIN scan.stack = 1 .. MaxDepth
    BY Shape
  <2>2. scan.rc \in {"running", "ok", "error"}
    BY <1>1 DEF Scans
  <2> QED
    BY <2>1, <2>2, <1>1, <1>3, Shape DEF FdtTypeOK
<1>5. ASSUME scan.rc = "ok"
      PROVE  IF MemNodes = {} THEN fdt_get_memory = <<>>
             ELSE \E k \in MemNodes : /\ \A j \in MemNodes : k <= j
                                     /\ fdt_get_memory = <<RegBase(closed[k]), RegSize(closed[k])>>
  <2>1. FirstMemory
    BY <1>5 DEF FdtInv
  <2> QED
    BY <2>1, <1>5 DEF FirstMemory, fdt_get_memory
<1>6. BasesAreTheTrees
  BY DEF FdtInv
<1> QED
  BY <1>4, <1>5, <1>6 DEF TreeRead, MemoryIsTheTrees

-----------------------------------------------------------------------------
\* fdt_get_memory and fdt_find_virtio_mmio answer what the tree says, for trees of
\* any size, stacks of any depth and arrays of any length: what a node said reaches
\* no other node, and no node is dropped but for want of room.
THEOREM TreeReadCorrect == FdtSpec => []TreeRead
<1>1. FdtInv /\ [FdtNext]_fdtvars => FdtInv'
  BY FdtSteps
<1> QED
  BY <1>1, FdtStarts, FdtIsRead, PTL DEF FdtSpec
=============================================================================
