-------------------------------- MODULE Timer --------------------------------
(***************************************************************************)
(* The timer tick: kernel/timer.c and sbi.c above, firmware/mtrap.c and    *)
(* trap.S below.  The machine's comparator raises a machine interrupt; the *)
(* firmware silences it and sets STIP, the supervisor's pending bit; the   *)
(* kernel's handler counts a tick, moves the deadline on by one interval   *)
(* and asks the firmware, with an ecall, to arm the comparator again.      *)
(* Machine interrupts are taken in every mode but the firmware's own; the  *)
(* supervisor's wait while the kernel runs with SIE off, however long.     *)
(***************************************************************************)
EXTENDS Naturals

CONSTANTS MaxTime,      \* bound on time
          Timebases,    \* timebase_hz the bootinfo may give, 0 for none
          TickHzs,      \* tick_hz the bootinfo may give, 0 for none
          DefTimebase,  \* 10000000 in the code
          DefTickHz     \* 100 in the code

ASSUME TimerAssumption == /\ MaxTime \in Nat /\ DefTimebase \in Nat \ {0}
                          /\ DefTickHz \in Nat \ {0}
                          /\ Timebases \subseteq Nat /\ TickHzs \subseteq Nat

Never == MaxTime + 1000   \* ~0ULL: mtimecmp that never matches

VARIABLES now,       \* the time CSR and mtime
          mtimecmp,
          stip,      \* mip.STIP
          sie,       \* sstatus.SIE; in user mode supervisor interrupts are on anyway
          at,        \* where the hart is
          frame,     \* the machine trap frame, or NoFrame
          mscratch,  \* whose stack mscratch holds: the firmware's between traps
          interval,  \* g_timer_interval
          deadline,  \* g_next_deadline
          ticks,     \* g_ticks
          start      \* ghost: time of timer_init

tvars == <<now, mtimecmp, stip, sie, at, frame, mscratch, interval, deadline, ticks, start>>

NoFrame == [cause |-> "none"]
Machine == {"mtrap", "mret"}

TimerInit ==
    /\ now = 0 /\ mtimecmp = Never /\ stip = FALSE /\ sie = FALSE
    /\ at = "boot" /\ frame = NoFrame /\ mscratch = "fw"
    /\ interval = 0 /\ deadline = 0 /\ ticks = 0 /\ start = 0

Tick == /\ now < MaxTime
        /\ now' = now + 1
        /\ UNCHANGED <<mtimecmp, stip, sie, at, frame, mscratch, interval, deadline, ticks, start>>

-----------------------------------------------------------------------------
(* Machine mode.  mtrap swaps sp with mscratch, saves every register and    *)
(* mepc, calls the handler, restores and swaps back.                        *)
Other(stack) == IF stack = "fw" THEN "os" ELSE "fw"

\* Entry with cause and argument; back is where mepc points: at the ecall or
\* at the interrupted instruction.
Mtrap(cause, arg, back, skip) ==
    /\ at \notin Machine \cup {"off"}
    /\ at' = "mtrap"
    /\ frame' = [cause |-> cause, arg |-> arg, mepc |-> back, next |-> skip]
    /\ mscratch' = Other(mscratch)

MachineTimer ==
    /\ now >= mtimecmp
    /\ Mtrap("timer", 0, at, at)
    /\ UNCHANGED <<now, mtimecmp, stip, sie, interval, deadline, ticks, start>>

mtrap_handler_NoStip ==
    /\ at = "mtrap"
    /\ at' = "mret"
    /\ \/ /\ frame.cause = "timer"
          /\ mtimecmp' = Never
          /\ stip' = stip
          /\ UNCHANGED frame
       \/ /\ frame.cause = "set_timer"
          /\ mtimecmp' = frame.arg
          /\ stip' = FALSE
          /\ frame' = [frame EXCEPT !.mepc = frame.next]
       \/ /\ frame.cause = "reset"
          /\ frame' = [frame EXCEPT !.mepc = "off"]
          /\ UNCHANGED <<mtimecmp, stip>>
    /\ UNCHANGED <<now, sie, mscratch, interval, deadline, ticks, start>>

\* mtrap_handler: the frame's mepc moves past an ecall, never past an
\* interrupted instruction.
mtrap_handler ==
    /\ at = "mtrap"
    /\ at' = "mret"
    /\ \/ /\ frame.cause = "timer"
          /\ mtimecmp' = Never
          /\ stip' = TRUE
          /\ UNCHANGED frame
       \/ /\ frame.cause = "set_timer"
          /\ mtimecmp' = frame.arg
          /\ stip' = FALSE
          /\ frame' = [frame EXCEPT !.mepc = frame.next]
       \/ /\ frame.cause = "reset"
          /\ frame' = [frame EXCEPT !.mepc = "off"]
          /\ UNCHANGED <<mtimecmp, stip>>
    /\ UNCHANGED <<now, sie, mscratch, interval, deadline, ticks, start>>

Mret == /\ at = "mret"
        /\ at' = frame.mepc
        /\ frame' = NoFrame
        /\ mscratch' = Other(mscratch)
        /\ UNCHANGED <<now, mtimecmp, stip, sie, interval, deadline, ticks, start>>

-----------------------------------------------------------------------------
(* The kernel.                                                              *)
timer_init ==
    /\ at = "boot"
    /\ \E tb \in Timebases, hz \in TickHzs :
          LET timebase == IF tb # 0 THEN tb ELSE DefTimebase
              tick_hz == IF hz # 0 THEN hz ELSE DefTickHz
              i == timebase \div tick_hz
          IN interval' = IF i = 0 THEN 1 ELSE i
    /\ ticks' = 0
    /\ deadline' = now + interval'
    /\ start' = now
    /\ at' = "arm"
    /\ UNCHANGED <<now, mtimecmp, stip, sie, frame, mscratch>>

\* sbi_set_timer of timer_init and of timer_handle.
SetTimer(from, to) ==
    /\ at = from
    /\ Mtrap("set_timer", deadline, from, to)
    /\ UNCHANGED <<now, mtimecmp, stip, sie, interval, deadline, ticks, start>>

\* trap_enable, then the idle loop, system calls and user programs.
trap_enable ==
    /\ at = "enable"
    /\ sie' = TRUE /\ at' = "run"
    /\ UNCHANGED <<now, mtimecmp, stip, frame, mscratch, interval, deadline, ticks, start>>

Syscall == /\ at = "run"
           /\ at' = "kernel" /\ sie' = FALSE
           /\ UNCHANGED <<now, mtimecmp, stip, frame, mscratch, interval, deadline, ticks, start>>

Sysret == /\ at = "kernel"
          /\ at' = "run" /\ sie' = TRUE
          /\ UNCHANGED <<now, mtimecmp, stip, frame, mscratch, interval, deadline, ticks, start>>

timer_handle_FromNow ==
    /\ at = "run" /\ sie /\ stip
    /\ sie' = FALSE
    /\ ticks' = ticks + 1
    /\ deadline' = now + interval
    /\ at' = "rearm"
    /\ UNCHANGED <<now, mtimecmp, stip, frame, mscratch, interval, start>>

\* kernel_trap_handler on cause 5, up to the call of sbi_set_timer.
timer_handle ==
    /\ at = "run" /\ sie /\ stip
    /\ sie' = FALSE
    /\ ticks' = ticks + 1
    /\ deadline' = deadline + interval
    /\ at' = "rearm"
    /\ UNCHANGED <<now, mtimecmp, stip, frame, mscratch, interval, start>>

\* sys_reboot: the firmware writes the power register; the loop behind the
\* ecall is never reached on a machine that has one.
sys_reboot ==
    /\ at = "kernel"
    /\ Mtrap("reset", 0, "kernel", "kernel")
    /\ UNCHANGED <<now, mtimecmp, stip, sie, interval, deadline, ticks, start>>

TimerWork == \/ MachineTimer \/ mtrap_handler \/ Mret
             \/ timer_init \/ SetTimer("arm", "enable") \/ trap_enable
             \/ timer_handle \/ SetTimer("rearm", "kernel") \/ Sysret

TimerNext == TimerWork \/ Tick \/ Syscall \/ sys_reboot

TimerSpec == TimerInit /\ [][TimerNext]_tvars

\* Instructions are executed, machine interrupts are taken at once, system
\* calls end, and a pending supervisor interrupt wins over the next one.
TimerFair == /\ WF_tvars(MachineTimer) /\ WF_tvars(mtrap_handler) /\ WF_tvars(Mret)
             /\ WF_tvars(timer_init \/ SetTimer("arm", "enable") \/ trap_enable)
             /\ WF_tvars(SetTimer("rearm", "kernel")) /\ SF_tvars(Sysret)
             /\ SF_tvars(timer_handle)

-----------------------------------------------------------------------------
TimerTypeOK ==
    /\ now \in 0 .. MaxTime /\ mtimecmp \in Nat /\ stip \in BOOLEAN /\ sie \in BOOLEAN
    /\ at \in Machine \cup {"boot", "arm", "enable", "run", "kernel", "rearm", "off"}
    /\ mscratch \in {"fw", "os"}
    /\ {interval, deadline, ticks, start} \subseteq Nat

Armed == \/ at \in {"enable", "run", "kernel"}
         \/ at \in Machine /\ frame.mepc \in {"run", "kernel"}

(* The tick never dies out: once armed, either the comparator holds the    *)
(* next deadline or the supervisor interrupt for it is pending (or the     *)
(* firmware is about to make it so), whatever machine interrupts and       *)
(* ecalls come in between.                                                 *)
ChainAlive == Armed => \/ mtimecmp = deadline
                       \/ stip /\ now >= deadline
                       \/ frame.cause = "set_timer" /\ frame.arg = deadline

(* No drift: between interrupts, with none pending and none due, ticks are *)
(* exactly the whole intervals since timer_init, also after a system call  *)
(* that kept interrupts off for several of them.                           *)
NoDrift == at = "run" /\ ~stip /\ now < mtimecmp => ticks = (now - start) \div interval

(* A tick is never counted before its time.                                *)
NotEarly == at # "boot" => start + ticks * interval <= now

(* The firmware's stack is in mscratch whenever the firmware is not        *)
(* running, so that the next trap does not run on the kernel's.            *)
ScratchHome == (mscratch = "fw") = (at \notin Machine)

(* The clock goes on and goes right, whatever late ticks, ecalls and       *)
(* machine interrupts come between (timer_handle, mtrap_handler).          *)
ClockRight == TimerTypeOK /\ ChainAlive /\ NoDrift /\ NotEarly /\ ScratchHome

(* Late ticks are made up for: the kernel always gets back to a deadline   *)
(* that lies ahead, unless the machine is switched off.                    *)
CatchesUp == [](at = "run" => <>(deadline > now \/ at = "off"))
=============================================================================
