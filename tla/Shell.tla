-------------------------------- MODULE Shell --------------------------------
(***************************************************************************)
(* user/src/sh.c, the program the kernel starts as the first process: its  *)
(* line editor, its word splitter and run_command, with the descriptors    *)
(* and the console mode they change.  A key stands for a whole word where  *)
(* run_command tells words apart, so a line is a sequence of keys and a    *)
(* word is a run of keys without a blank.                                  *)
(*                                                                         *)
(* Descriptors 0 to 2 have no struct file at first: read and write then    *)
(* use the console, while dup of such a descriptor fails with EBADF.  A    *)
(* file a descriptor is open on is the one that the command's redirection  *)
(* names ("own"), or one that pwd was redirected to ("pwd").               *)
(***************************************************************************)
EXTENDS Naturals, Sequences, SequencesExt, FiniteSets

CONSTANTS Size,        \* size of the line buffer: MAX_LINE in the code
          MaxArgs,     \* MAX_ARGS
          MaxMatches,  \* MAX_MATCHES
          NOFILE,
          Listings     \* contents of the directories that completion scans

Tokens == {"w", "cd", "pwd", "exit", ">"}   \* "w" is any other word, ">" is also ">>"

ASSUME ShellAssumption == /\ Size \in Nat \ {0} /\ MaxArgs \in Nat /\ MaxArgs > 1
                          /\ MaxMatches \in Nat \ {0} /\ NOFILE \in Nat /\ NOFILE > 3
                          /\ \A dir \in Listings : dir \in Seq([name : Seq(Tokens), dir : BOOLEAN])

Keys == Tokens \cup {"blank", "tab", "del", "nl"}
Cooked == {"ICANON", "ECHO"}
Closed == "none"

VARIABLES pc,     \* where the shell is
          lflag,  \* the console mode
          line,   \* buf[0 .. len-1]
          row,    \* what the console shows behind the prompt
          argv,   \* words of the command
          ofile,  \* the shell's descriptors: Closed or what they are open on
          child,  \* the child's descriptors and how far it is, or NoChild
          term    \* g_term_valid

shvars == <<pc, lflag, line, row, argv, ofile, child, term>>

NoChild == [at |-> "none"]
Console == [fd \in 0 .. NOFILE - 1 |-> Closed]

ShellInit == /\ pc = "main" /\ lflag = Cooked /\ line = <<>> /\ row = <<>>
             /\ argv = <<>> /\ ofile = Console /\ child = NoChild /\ term = FALSE

-----------------------------------------------------------------------------
(* System calls on a descriptor table t, as sys_openat, sys_dup, sys_dup3   *)
(* and sys_close do them; the descriptor is NOFILE where the call fails.    *)
LowestFree(t) == LET free == {fd \in 3 .. NOFILE - 1 : t[fd] = Closed}
                 IN  IF free = {} THEN NOFILE ELSE CHOOSE fd \in free : \A g \in free : fd <= g
SysOpen(t, f) == [fd |-> LowestFree(t),
                  t |-> IF LowestFree(t) = NOFILE THEN t ELSE [t EXCEPT ![LowestFree(t)] = f]]
SysDup(t, fd) == IF t[fd] = Closed THEN [fd |-> NOFILE, t |-> t] ELSE SysOpen(t, t[fd])
SysDup2(t, fd, to) == IF t[fd] = Closed THEN t ELSE [t EXCEPT ![to] = t[fd]]
SysClose(t, fd) == [t EXCEPT ![fd] = Closed]

\* write(1, ...): it reaches the screen when descriptor 1 is the console.
Echoed(s) == IF ofile[1] = Closed THEN s ELSE row

-----------------------------------------------------------------------------
(* The line editor.                                                        *)
tty_set_mode(raw) == /\ lflag' = IF raw THEN lflag \ Cooked ELSE lflag \cup Cooked
                     /\ term' = TRUE

Start == /\ pc = "main"
         /\ tty_set_mode(TRUE)
         /\ pc' = "prompt"
         /\ UNCHANGED <<line, row, argv, ofile, child>>

Prompt == /\ pc = "prompt"
          /\ pc' = "read"
          /\ line' = <<>> /\ row' = <<>>
          /\ UNCHANGED <<lflag, argv, ofile, child, term>>

Key(k) == /\ pc = "read"
          /\ k \in Tokens \cup {"blank"}
          /\ Len(line) + 1 < Size
          /\ line' = Append(line, k)
          /\ row' = Echoed(Append(row, k))
          /\ UNCHANGED <<pc, lflag, argv, ofile, child, term>>

Erase_Silent == /\ pc = "read" /\ line # <<>>
         /\ line' = Front(line)
         /\ row' = row
         /\ UNCHANGED <<pc, lflag, argv, ofile, child, term>>

Erase == /\ pc = "read" /\ line # <<>>
         /\ line' = Front(line)
         /\ row' = IF row = <<>> THEN row ELSE Echoed(Front(row))
         /\ UNCHANGED <<pc, lflag, argv, ofile, child, term>>

\* The part of the word behind its last slash, the entries it is a prefix of (their
\* places in the directory, the first MaxMatches), and the longest common prefix.
Token(l) == LET starts == {i \in 1 .. Len(l) : l[i] \in {"blank", "/"}}
                s == IF starts = {} THEN 0 ELSE CHOOSE i \in starts : \A j \in starts : j <= i
            IN  SubSeq(l, s + 1, Len(l))
collect_matches(dir, prefix) ==
    LET matches == {i \in DOMAIN dir : IsPrefix(prefix, dir[i].name)}
    IN  {i \in matches : Cardinality({j \in matches : j < i}) < MaxMatches}
common_prefix(names) == LET name == CHOOSE s \in names : TRUE
                            ok == {n \in 0 .. Len(name) :
                                     \A s \in names : IsPrefix(SubSeq(name, 1, n), s)}
                        IN  SubSeq(name, 1, CHOOSE n \in ok : \A o \in ok : o <= n)

\* Completion: what is common to the matches is added as far as it fits, then
\* a slash behind a single directory; several matches that add nothing are
\* listed and prompt and line are written anew.  The bell when none match.
Complete(dir) ==
    LET t == Token(line)
        m == collect_matches(dir, t)
        common == common_prefix({dir[i].name : i \in m})
        more == SubSeq(common, Len(t) + 1, Len(common))
        room == Size - 1 - Len(line)
        add == SubSeq(more, 1, IF Len(more) <= room THEN Len(more) ELSE room)
        l1 == line \o add
        slash == /\ \E i \in m : m = {i} /\ dir[i].dir
                 /\ Len(l1) + 1 < Size
                 /\ l1 # <<>> => Last(l1) # "/"
        l2 == IF slash THEN Append(l1, "/") ELSE l1
    IN  /\ pc = "read" /\ m # {}
        /\ line' = l2
        /\ row' = IF Cardinality(m) > 1 /\ more = <<>> THEN Echoed(line)
                  ELSE Echoed(row \o SubSeq(l2, Len(line) + 1, Len(l2)))
        /\ UNCHANGED <<pc, lflag, argv, ofile, child, term>>

\* split_args: words between blanks, at most MaxArgs - 1 of them.
split_args(l) ==
    LET starts == {i \in 1 .. Len(l) : l[i] # "blank" /\ (i > 1 => l[i - 1] = "blank")}
        order == SetToSortSeq(starts, LAMBDA a, b : a < b)
        word(i) == LET ends == {j \in i .. Len(l) : j = Len(l) \/ l[j + 1] = "blank"}
                   IN  SubSeq(l, i, CHOOSE j \in ends : \A k \in ends : j <= k)
        n == IF Cardinality(starts) < MaxArgs - 1 THEN Cardinality(starts) ELSE MaxArgs - 1
    IN  [i \in 1 .. n |-> word(order[i])]

Enter == /\ pc = "read"
         /\ argv' = split_args(line)
         /\ pc' = IF argv' = <<>> THEN "prompt" ELSE "run"
         /\ line' = <<>> /\ row' = <<>>
         /\ UNCHANGED <<lflag, ofile, child, term>>

-----------------------------------------------------------------------------
(* run_command.                                                            *)
Is(word, s) == word = <<s>>
Redir == LET is == {i \in DOMAIN argv : Is(argv[i], ">")}
         IN  IF is = {} THEN 0 ELSE CHOOSE i \in is : \A j \in is : i <= j
NoPath == Redir # 0 /\ Redir = Len(argv)
Args == IF Redir = 0 THEN argv
        ELSE SubSeq(argv, 1, Redir - 1) \o SubSeq(argv, Redir + 2, Len(argv))

Done == /\ argv' = <<>> /\ pc' = "prompt"

MissingPath == /\ pc = "run" /\ NoPath
               /\ Done
               /\ UNCHANGED <<lflag, line, row, ofile, child, term>>

\* Nothing but a redirection: strcmp reads through argv[0], which is NULL, and
\* the kernel ends the shell; the console mode stays as it was.
NoCommand == /\ pc = "run" /\ ~NoPath /\ Args = <<>>
             /\ pc' = "dead" /\ argv' = <<>>
             /\ UNCHANGED <<lflag, line, row, ofile, child, term>>

Runs(s) == pc = "run" /\ ~NoPath /\ Args # <<>> /\ Is(Args[1], s)

\* cd ignores a redirection.
builtin_cd == /\ Runs("cd")
              /\ Done
              /\ UNCHANGED <<lflag, line, row, ofile, child, term>>

\* pwd in the shell itself: descriptor 1 is moved away and back with dup and
\* dup2, unless dup has failed.
PwdTable(t) ==
    LET o == SysOpen(t, "pwd")
        d == SysDup(o.t, 1)
        t1 == SysClose(SysDup2(d.t, o.fd, 1), o.fd)
    IN  IF o.fd = NOFILE THEN t
        ELSE IF d.fd # NOFILE THEN SysClose(SysDup2(t1, d.fd, 1), d.fd)
        ELSE t1

builtin_pwd == /\ Runs("pwd")
               /\ \/ Redir = 0 /\ UNCHANGED ofile
                  \/ Redir # 0 /\ ofile' = PwdTable(ofile)
                  \/ Redir # 0 /\ UNCHANGED ofile     \* openat has failed
               /\ Done
               /\ UNCHANGED <<lflag, line, row, child, term>>

tty_restore == lflag' = IF term THEN Cooked ELSE lflag

ExitShell == /\ Runs("exit")
             /\ tty_restore
             /\ pc' = "gone" /\ argv' = <<>>
             /\ UNCHANGED <<line, row, ofile, child, term>>

\* Any other command: fork, which copies the descriptors.
External == pc = "run" /\ ~NoPath /\ Args # <<>>
            /\ ~\E s \in {"cd", "pwd", "exit"} : Is(Args[1], s)

Fork == /\ External
        /\ tty_restore
        /\ child' = [at |-> "forked", ofile |-> ofile, redir |-> Redir # 0]
        /\ pc' = "wait"
        /\ UNCHANGED <<line, row, argv, ofile, term>>

ForkFails == /\ External
             /\ lflag' = {} /\ term' = TRUE   \* tty_restore, then raw mode again
             /\ Done
             /\ UNCHANGED <<line, row, ofile, child>>

\* The name does not fit into path[128].
TooLong == /\ External
           /\ Done
           /\ UNCHANGED <<lflag, line, row, ofile, child, term>>

Redirect_ClosesFirst ==
            /\ child.at = "forked" /\ child.redir /\ LowestFree(child.ofile) # NOFILE
            /\ LET o == SysOpen(child.ofile, "own")
               IN  child' = [child EXCEPT !.at = "exec", !.redir = FALSE,
                                          !.ofile = SysDup2(SysClose(o.t, o.fd), o.fd, 1)]
            /\ UNCHANGED <<pc, lflag, line, row, argv, ofile, term>>

\* The child: redirect, then execve, either of which may fail.
Redirect == /\ child.at = "forked" /\ child.redir /\ LowestFree(child.ofile) # NOFILE
            /\ LET o == SysOpen(child.ofile, "own")
               IN  child' = [child EXCEPT !.at = "exec", !.redir = FALSE,
                                          !.ofile = SysClose(SysDup2(o.t, o.fd, 1), o.fd)]
            /\ UNCHANGED <<pc, lflag, line, row, argv, ofile, term>>

Exec == /\ child.at = "exec" \/ (child.at = "forked" /\ ~child.redir)
        /\ child' = [child EXCEPT !.at = "program"]
        /\ UNCHANGED <<pc, lflag, line, row, argv, ofile, term>>

\* A program may leave the console in a mode of its own.
ProgramIoctl(flags) == /\ child.at = "program"
                       /\ lflag' = flags
                       /\ UNCHANGED <<pc, line, row, argv, ofile, child, term>>

ChildExits == /\ child.at \in {"forked", "exec", "program"}
              /\ child' = [child EXCEPT !.at = "zombie"]
              /\ UNCHANGED <<pc, lflag, line, row, argv, ofile, term>>

Wait_OnlyRun == /\ pc = "wait" /\ child.at = "zombie" /\ ~child.redir
        /\ child' = NoChild
        /\ tty_set_mode(TRUE)
        /\ Done
        /\ UNCHANGED <<line, row, ofile>>

Wait == /\ pc = "wait" /\ child.at = "zombie"
        /\ child' = NoChild
        /\ tty_set_mode(TRUE)
        /\ Done
        /\ UNCHANGED <<line, row, ofile>>

Command == \/ MissingPath \/ NoCommand \/ builtin_cd \/ builtin_pwd \/ ExitShell
           \/ Fork \/ ForkFails \/ TooLong

ShellNext == \/ Start \/ Prompt \/ Erase \/ Enter \/ Command \/ Redirect \/ Exec
             \/ ChildExits \/ Wait
             \/ \E k \in Keys : Key(k)
             \/ \E dir \in Listings : Complete(dir)
             \/ \E flags \in SUBSET Cooked : ProgramIoctl(flags)

ShellSpec == ShellInit /\ [][ShellNext]_shvars

\* Commands run and programs end; nobody has to type.
ShellFair == WF_shvars(Command) /\ WF_shvars(Wait) /\ WF_shvars(ChildExits)
             /\ WF_shvars(Prompt)

-----------------------------------------------------------------------------
ShellTypeOK == /\ pc \in {"main", "prompt", "read", "run", "wait", "dead", "gone"}
               /\ lflag \subseteq Cooked
               /\ line \in Seq(Keys \cup {"/"}) /\ Len(line) < Size
               /\ Len(argv) < MaxArgs
               /\ ofile \in [0 .. NOFILE - 1 -> {Closed, "pwd", "own"}]

(* The editor never shows anything but the line it will run: what stands   *)
(* behind the prompt is buf, after any mix of keys, erasures, completions  *)
(* and listings, as long as the shell's output is the console.             *)
RowIsLine == pc = "read" /\ ofile[1] = Closed => row = line

(* Raw when the shell reads keys, cooked when a program starts, whatever   *)
(* mode the last program left behind and also after fork has failed.       *)
ModeFits == /\ pc = "read" => lflag = {}
            /\ child.at \in {"forked", "exec"} => lflag = Cooked

(* A program writes to the file its command names, or else to whatever the *)
(* shell writes to, and neither of them has anything else open.            *)
OutputFits ==
  /\ child.at = "program" => child.ofile[1] = IF Redir # 0 THEN "own" ELSE ofile[1]
  /\ pc = "prompt" => \A fd \in 3 .. NOFILE - 1 : ofile[fd] = Closed
  /\ child.at = "program" => \A fd \in 3 .. NOFILE - 1 : child.ofile[fd] = Closed

(* Programs and the shell hand each other the console and the descriptors  *)
(* above 2 as the other needs them, and a redirection reaches its program  *)
(* (run_command, tty_set_mode).  Where the shell itself writes is the      *)
(* matter of ConsoleAtPrompt.                                              *)
HandedOver == ShellTypeOK /\ ModeFits /\ OutputFits

(* The shell's own output is the console again whenever it prompts: what   *)
(* run_command saves with dup and puts back with dup2 behind pwd.          *)
ConsoleAtPrompt == pc = "prompt" => ofile[1] = Closed

(* A command always gives the prompt back, unless the shell has ended.     *)
PromptComesBack == pc = "run" ~> pc \in {"prompt", "gone", "dead"}
=============================================================================
