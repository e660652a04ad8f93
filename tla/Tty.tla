--------------------------------- MODULE Tty ---------------------------------
(***************************************************************************)
(* The console of kernel/syscall.c and uart.c: the line discipline inside  *)
(* sys_read of descriptor 0, the echo, sys_write to descriptors 1 and 2,   *)
(* and the mode that ioctl changes for everybody.  Keys are a character, a *)
(* carriage return and an erase key (0x7f or 0x08).  The screen is what    *)
(* the terminal shows of the bytes uart_putc has sent.                     *)
(***************************************************************************)
EXTENDS Integers, Sequences, SequencesExt, FiniteSets

CONSTANTS TmpSize,   \* sizeof(tmp): 128 in the code
          Lens,      \* len arguments of read
          Fifo,      \* bytes the UART holds
          MaxTyped   \* bound on the keys typed

ASSUME TtyAssumption == TmpSize \in Nat \ {0} /\ Fifo \in Nat \ {0}
                        /\ Lens \subseteq Nat /\ MaxTyped \in Nat

Keys == {"c", "cr", "del"}

VARIABLES lflag,   \* g_tty_lflag: the flags that are set
          rx,      \* received and not read yet
          want,    \* len of the read in progress, or Idle
          tmp,     \* the bytes it has
          screen,  \* what the terminal shows
          got,     \* ghost: everything reads have returned
          typed,   \* number of keys typed
          apart    \* ghost: a key was taken without echo, or lost to a bad buffer

ttyvars == <<lflag, rx, want, tmp, screen, got, typed, apart>>

Idle == -1
Canon == "ICANON" \in lflag
Echo == "ECHO" \in lflag

TtyInit == /\ lflag = {"ICANON", "ECHO"}
           /\ rx = <<>> /\ want = Idle /\ tmp = <<>>
           /\ screen = <<>> /\ got = <<>>
           /\ typed = 0 /\ apart = FALSE

Type(k) == /\ typed < MaxTyped /\ Len(rx) < Fifo
           /\ rx' = Append(rx, k)
           /\ typed' = typed + 1
           /\ UNCHANGED <<lflag, want, tmp, screen, got, apart>>

\* TCSETS from any process with the console as descriptor 0, 1 or 2.
sys_ioctl(flags) ==
    /\ want = Idle
    /\ lflag' = flags
    /\ UNCHANGED <<rx, want, tmp, screen, got, typed, apart>>

\* sys_write to descriptor 1 or 2.
sys_write ==
    /\ want = Idle /\ \A i \in DOMAIN screen : screen[i] # "w"   \* one is enough
    /\ screen' = Append(screen, "w")
    /\ UNCHANGED <<lflag, rx, want, tmp, got, typed, apart>>

sys_read(len) ==
    /\ want = Idle
    /\ want' = len
    /\ tmp' = <<>>
    /\ UNCHANGED <<lflag, rx, screen, got, typed, apart>>

Char(k) == IF k = "cr" THEN "nl" ELSE k

CanonKey_ErasesAlways ==
    LET c == Char(Head(rx)) IN
    /\ want # Idle /\ Canon /\ rx # <<>>
    /\ Len(tmp) < want /\ Len(tmp) < TmpSize
    /\ tmp # <<>> => Last(tmp) # "nl"
    /\ rx' = Tail(rx)
    /\ \/ /\ c = "del"
          /\ tmp' = IF tmp = <<>> THEN tmp ELSE Front(tmp)
          /\ screen' = IF Echo /\ screen # <<>> THEN Front(screen) ELSE screen
       \/ /\ c # "del"
          /\ tmp' = Append(tmp, c)
          /\ screen' = IF Echo THEN Append(screen, c) ELSE screen
    /\ apart' = (apart \/ ~Echo)
    /\ UNCHANGED <<lflag, want, got, typed>>

\* One turn of the canonical loop: erase keys take back what this call has.
CanonKey ==
    LET c == Char(Head(rx)) IN
    /\ want # Idle /\ Canon /\ rx # <<>>
    /\ Len(tmp) < want /\ Len(tmp) < TmpSize
    /\ tmp # <<>> => Last(tmp) # "nl"
    /\ rx' = Tail(rx)
    /\ \/ /\ c = "del"
          /\ tmp' = IF tmp = <<>> THEN tmp ELSE Front(tmp)
          /\ screen' = IF Echo /\ tmp # <<>> THEN Front(screen) ELSE screen
       \/ /\ c # "del"
          /\ tmp' = Append(tmp, c)
          /\ screen' = IF Echo THEN Append(screen, c) ELSE screen
    /\ apart' = (apart \/ ~Echo)
    /\ UNCHANGED <<lflag, want, got, typed>>

RawKey_NoEcho ==
    LET c == Char(Head(rx)) IN
    /\ want # Idle /\ ~Canon /\ rx # <<>>
    /\ want > 0 /\ tmp = <<>>
    /\ rx' = Tail(rx)
    /\ tmp' = <<c>>
    /\ screen' = screen
    /\ apart' = (apart \/ ~Echo)
    /\ UNCHANGED <<lflag, want, got, typed>>

\* The single byte of a read in raw mode.
RawKey ==
    LET c == Char(Head(rx)) IN
    /\ want # Idle /\ ~Canon /\ rx # <<>>
    /\ want > 0 /\ tmp = <<>>
    /\ rx' = Tail(rx)
    /\ tmp' = <<c>>
    /\ screen' = IF Echo THEN Append(screen, c) ELSE screen
    /\ apart' = (apart \/ ~Echo)
    /\ UNCHANGED <<lflag, want, got, typed>>

ReadDone == \/ Canon /\ \/ Len(tmp) >= want \/ Len(tmp) >= TmpSize
                        \/ tmp # <<>> /\ Last(tmp) = "nl"
            \/ ~Canon /\ (want = 0 \/ tmp # <<>>)

\* copyout, which may refuse the buffer: what was typed is gone then.
ReadReturn(fault) ==
    /\ want # Idle /\ ReadDone
    /\ got' = IF fault THEN got ELSE got \o tmp
    /\ apart' = (apart \/ fault)
    /\ want' = Idle /\ tmp' = <<>>
    /\ UNCHANGED <<lflag, rx, screen, typed>>

TtyNext == \/ \E k \in Keys : Type(k)
           \/ \E flags \in SUBSET {"ICANON", "ECHO"} : sys_ioctl(flags)
           \/ \E len \in Lens : sys_read(len)
           \/ \E fault \in BOOLEAN : ReadReturn(fault)
           \/ sys_write \/ CanonKey \/ RawKey

TtySpec == TtyInit /\ [][TtyNext]_ttyvars

-----------------------------------------------------------------------------
Chars == {"c", "nl", "del"}

TtyTypeOK == /\ lflag \subseteq {"ICANON", "ECHO"}
             /\ rx \in Seq(Keys) /\ Len(rx) <= Fifo
             /\ want \in Lens \cup {Idle}
             /\ tmp \in Seq(Chars) /\ Len(tmp) <= TmpSize
             /\ got \in Seq(Chars) /\ screen \in Seq(Chars \cup {"w"})
             /\ typed \in 0 .. MaxTyped /\ apart \in BOOLEAN

\* How many of the first n bytes of s are not output.
Keyed(s, n) == Cardinality({i \in 1 .. n : s[i] # "w"})
\* s is what was put in, in order, with output in between.
Shows(s, in) == /\ Keyed(s, Len(s)) = Len(in)
                /\ \A i \in 1 .. Len(s) : s[i] # "w" => s[i] = in[Keyed(s, i)]

(* The screen tells the truth: as long as nothing was typed without echo   *)
(* and no buffer was refused, it shows, apart from output, exactly what    *)
(* reads have returned and the line being edited, erase keys, full         *)
(* buffers, changes of mode and output in between notwithstanding.         *)
ScreenIsInput == ~apart => Shows(screen, got \o tmp)

(* The screen and the readers of sys_read agree.                           *)
ConsoleSound == TtyTypeOK /\ ScreenIsInput

(* Erasing takes back only what the read in progress has echoed, never     *)
(* output or what an earlier read returned.                                *)
OutputStays == [][\A i \in DOMAIN screen :
                    screen[i] = "w" => i \in DOMAIN screen' /\ screen'[i] = "w"]_ttyvars
=============================================================================
