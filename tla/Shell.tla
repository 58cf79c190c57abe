------------------------------- MODULE Shell -------------------------------
(***************************************************************************)
(* The shell of src/3 - Shell: a loop that reads a line, forks a child for *)
(* it and waits; the child runs one program, or forks again for the two    *)
(* programs of a pipe, of which it becomes the second itself.              *)
(*                                                                         *)
(* Processes run side by side, so every system call another process can    *)
(* see is a step: fork, closing a pipe's ends, reading, writing, ending,   *)
(* wait.  The code after execve is reached when the program is not found:  *)
(* the child then returns from forkChild into the loop of main and is a    *)
(* second shell.                                                           *)
(*                                                                         *)
(* Left out: cd (it changes the shell's directory only), what is printed,  *)
(* arguments, signals from the keyboard (they end every process at once),  *)
(* and a pipe() that fails.  The programs are not the repository's: they   *)
(* read what comes through a pipe to its end, write some lines, and may    *)
(* give up at any moment.                                                  *)
(***************************************************************************)
EXTENDS Integers, SequencesExt, FiniteSetsExt

CONSTANTS
  MaxProc,   \* processes the host allows
  Command,   \* lines with a command: the programs between the |
  Lines,     \* lines a program writes into a pipe
  Cap,       \* lines a pipe holds
  MaxTyped   \* bound: lines read by the shells

Proc == 1..MaxProc
Root == 1
Host == 0      \* parent of the first shell and of every orphan
Tty == -1
File == -2
Program == [name : {"found", "missing", "empty"}, redirect : {"none", "in", "out"}]

ASSUME ShellAssumption ==
  /\ MaxProc \in Nat \ {0} /\ Lines \in Nat /\ Cap \in Nat \ {0} /\ MaxTyped \in Nat
  /\ Command \subseteq Seq(Program) /\ <<>> \notin Command

VARIABLES
  proc,     \* the process table
  buf,      \* lines in the pipe that process p has made
  typed,
  strayed   \* history: a program of a pipe was not found and its process is a shell now

vars == <<proc, buf, typed, strayed>>

(* in and out are what descriptors 0 and 1 are open for, a pipe being named  *)
(* by the process that made it; ends are the descriptors pd[0] and pd[1].    *)
Process ==
  [pc : {"none", "prompt", "wait", "child", "head", "tail", "run", "zombie"},
   parent : {Host} \cup Proc,
   in : Proc \cup {Tty, File}, out : Proc \cup {Tty, File},
   ends : SUBSET (Proc \X {"r", "w"}),
   cmd : Seq(Program), left : 0..Lines]
Nobody == [pc |-> "none", parent |-> Host, in |-> Tty, out |-> Tty, ends |-> {}, cmd |-> <<>>, left |-> 0]

TypeOK ==
  /\ proc \in [Proc -> Process]
  /\ \A p \in Proc : proc[p].pc \in {"child", "head", "tail"} => proc[p].cmd # <<>>
  /\ buf \in [Proc -> 0..Cap]
  /\ typed \in 0..MaxTyped /\ strayed \in BOOLEAN

Init ==
  /\ proc = [p \in Proc |-> IF p = Root THEN [Nobody EXCEPT !.pc = "prompt"] ELSE Nobody]
  /\ buf = [p \in Proc |-> 0]
  /\ typed = 0
  /\ strayed = FALSE

Readers(q) == {p \in Proc : proc[p].in = q \/ <<q, "r">> \in proc[p].ends}
Writers(q) == {p \in Proc : proc[p].out = q \/ <<q, "w">> \in proc[p].ends}
IsPipe(fd) == fd \in Proc
AtEnd(q) == buf[q] = 0 /\ Writers(q) = {}

(* The lowest number nobody has and no pipe is named by. *)
Free == {p \in Proc : proc[p].pc = "none" /\ Readers(p) \cup Writers(p) = {}}
NewProc == Min(Free)

(* The table when process p ends: its children belong to the host, which     *)
(* waits for them, and it stays for its own parent to wait for.              *)
Ended(p) ==
  [x \in Proc |->
    IF x = p THEN IF proc[p].parent = Host THEN Nobody
                  ELSE [Nobody EXCEPT !.pc = "zombie", !.parent = proc[p].parent]
    ELSE IF proc[x].parent # p THEN proc[x]
    ELSE IF proc[x].pc = "zombie" THEN Nobody ELSE [proc[x] EXCEPT !.parent = Host]]
End(p) == proc' = Ended(p)

-----------------------------------------------------------------------------
(* getInput: a line from descriptor 0.  At the end of a pipe or of a file    *)
(* fgets leaves the buffer as it was, any line for all we know.              *)
ReadLine(p) ==
  /\ proc[p].pc = "prompt"
  /\ typed < MaxTyped
  /\ typed' = typed + 1
  /\ LET q == proc[p].in
     IN IF IsPipe(q) THEN /\ buf[q] > 0 \/ AtEnd(q)
                          /\ buf' = IF buf[q] > 0 THEN [buf EXCEPT ![q] = @ - 1] ELSE buf
        ELSE UNCHANGED buf

(* exitProgram. *)
Exit(p) ==
  /\ ReadLine(p)
  /\ End(p)
  /\ UNCHANGED strayed

(* An empty line has no first word: Execute compares a NULL pointer. *)
EmptyLine(p) == ReadLine(p) /\ End(p) /\ UNCHANGED strayed

(* forkChild, in the shell.  Faulty form: it does not wait. *)
Child(p, c) == [proc[p] EXCEPT !.pc = "child", !.parent = p, !.cmd = c]
ForkChildNoWait(p, c) ==
  /\ ReadLine(p)
  /\ IF Free = {} THEN End(p)
     ELSE proc' = [proc EXCEPT ![NewProc] = Child(p, c)]
  /\ UNCHANGED strayed
ForkChild(p, c) ==
  /\ ReadLine(p)
  /\ IF Free = {} THEN End(p)
     ELSE proc' = [proc EXCEPT ![NewProc] = Child(p, c), ![p].pc = "wait"]
  /\ UNCHANGED strayed

(* wait returns for whichever child has ended. *)
Wait(p) ==
  /\ proc[p].pc = "wait"
  /\ \E c \in Proc :
       /\ proc[c].pc = "zombie" /\ proc[c].parent = p
       /\ proc' = [proc EXCEPT ![c] = Nobody, ![p].pc = "prompt"]
  /\ UNCHANGED <<buf, typed, strayed>>

(* runProgram by process p, whose descriptors are those of d: the first      *)
(* redirection among the arguments, then execve along the path.  Where it    *)
(* comes back, a process that is not part of a pipe goes on as a shell.  One *)
(* that is goes through memory CheckIfPipe has freed: it dies, or is a shell *)
(* as well.  Without any word there is no name to copy: it dies.             *)
Redirect(c) ==
  LET k == SelectInSeq(c, LAMBDA g : g.redirect # "none") IN IF k = 0 THEN "none" ELSE c[k].redirect
Redirected(d) ==
  CASE Redirect(d.cmd) = "in" -> [d EXCEPT !.in = File]
    [] Redirect(d.cmd) = "out" -> [d EXCEPT !.out = File]
    [] OTHER -> d
RunProgram(p, d, piped) ==
  LET g == Head(d.cmd).name
      r == [Redirected(d) EXCEPT !.cmd = <<>>]
  IN \/ /\ g = "found"
        /\ proc' = [proc EXCEPT ![p] = [r EXCEPT !.pc = "run", !.left = IF IsPipe(r.out) THEN Lines ELSE 0]]
        /\ UNCHANGED strayed
     \/ /\ g = "missing"
        /\ proc' = [proc EXCEPT ![p] = [r EXCEPT !.pc = "prompt"]]
        /\ strayed' = (strayed \/ piped)
     \/ /\ g = "empty" \/ (g = "missing" /\ piped)
        /\ End(p)
        /\ UNCHANGED strayed

Simple(p) ==
  /\ proc[p].pc = "child" /\ Len(proc[p].cmd) = 1
  /\ RunProgram(p, proc[p], FALSE)
  /\ UNCHANGED <<buf, typed>>

(* CheckIfPipe cuts the line at the first |: what follows is one program,    *)
(* the next | one of its arguments.  NewPipe makes the pipe and forks: the   *)
(* new process is the head, and if there is none the tail runs all the same. *)
(* Faulty form: head and tail change places.                                 *)
TailOf(c) == Tail(c)
NewPipeSwapped(p) ==
  /\ proc[p].pc = "child" /\ Len(proc[p].cmd) > 1
  /\ LET d == [proc[p] EXCEPT !.ends = {p} \X {"r", "w"}]
         tail == [d EXCEPT !.pc = "tail", !.cmd = TailOf(d.cmd)]
         head == [d EXCEPT !.pc = "head", !.cmd = <<Head(d.cmd)>>]
     IN proc' = IF Free = {} THEN [proc EXCEPT ![p] = tail]
                ELSE [proc EXCEPT ![p] = head, ![NewProc] = [tail EXCEPT !.parent = p]]
  /\ buf' = [buf EXCEPT ![p] = 0]
  /\ UNCHANGED <<typed, strayed>>
NewPipe(p) ==
  /\ proc[p].pc = "child" /\ Len(proc[p].cmd) > 1
  /\ LET d == [proc[p] EXCEPT !.ends = {p} \X {"r", "w"}]
         tail == [d EXCEPT !.pc = "tail", !.cmd = TailOf(d.cmd)]
         head == [d EXCEPT !.pc = "head", !.cmd = <<Head(d.cmd)>>, !.parent = p]
     IN proc' = IF Free = {} THEN [proc EXCEPT ![p] = tail]
                ELSE [proc EXCEPT ![p] = tail, ![NewProc] = head]
  /\ buf' = [buf EXCEPT ![p] = 0]
  /\ UNCHANGED <<typed, strayed>>

(* The rest of NewPipe in either process: the end it has no use for closed,  *)
(* the other one moved to descriptor 1 or 0.  Faulty form: the head keeps    *)
(* the end it has no use for.                                                *)
PipeOf(p) == CHOOSE q \in Proc : <<q, "r">> \in proc[p].ends
AsHeadKeeps(p) == [proc[p] EXCEPT !.out = PipeOf(p), !.ends = {<<PipeOf(p), "r">>}]
AsHead(p) == [proc[p] EXCEPT !.out = PipeOf(p), !.ends = {}]
AsTail(p) == [proc[p] EXCEPT !.in = PipeOf(p), !.ends = {}]
PipeHead(p) ==
  /\ proc[p].pc = "head"
  /\ RunProgram(p, AsHead(p), TRUE)
  /\ UNCHANGED <<buf, typed>>
PipeTail(p) ==
  /\ proc[p].pc = "tail"
  /\ RunProgram(p, AsTail(p), TRUE)
  /\ UNCHANGED <<buf, typed>>

-----------------------------------------------------------------------------
(* The programs.  A write into a pipe nobody can read ends the writer.       *)
Write(p) ==
  LET q == proc[p].out
  IN /\ proc[p].pc = "run" /\ IsPipe(q) /\ proc[p].left > 0
     /\ IF Readers(q) = {} THEN End(p) /\ UNCHANGED buf
        ELSE /\ buf[q] < Cap
             /\ buf' = [buf EXCEPT ![q] = @ + 1]
             /\ proc' = [proc EXCEPT ![p].left = @ - 1]
     /\ UNCHANGED <<typed, strayed>>
Read(p) ==
  LET q == proc[p].in
  IN /\ proc[p].pc = "run" /\ IsPipe(q) /\ buf[q] > 0
     /\ buf' = [buf EXCEPT ![q] = @ - 1]
     /\ UNCHANGED <<proc, typed, strayed>>
Finish(p) ==
  /\ proc[p].pc = "run" /\ proc[p].left = 0
  /\ IsPipe(proc[p].in) => AtEnd(proc[p].in)
  /\ End(p)
  /\ UNCHANGED <<buf, typed, strayed>>
GiveUp(p) ==
  /\ proc[p].pc = "run"
  /\ End(p)
  /\ UNCHANGED <<buf, typed, strayed>>

(* What a process does by itself; the user types, and a program gives up, or *)
(* not.                                                                      *)
Step(p) ==
  \/ Wait(p) \/ Simple(p) \/ NewPipe(p) \/ PipeHead(p) \/ PipeTail(p)
  \/ Write(p) \/ Read(p) \/ Finish(p)

Next ==
  \E p \in Proc :
    \/ Exit(p) \/ EmptyLine(p) \/ \E c \in Command : ForkChild(p, c)
    \/ GiveUp(p)
    \/ Step(p)

Fairness == \A p \in Proc : WF_vars(Step(p))
Spec == Init /\ [][Next]_vars /\ Fairness

-----------------------------------------------------------------------------
At(pc) == {p \in Proc : proc[p].pc = pc}
Shells == At("prompt") \cup At("wait")

(* Two shells never read at the same time: each new one has the one before   *)
(* it waiting.  Fails once a process of a pipe has become a shell, which     *)
(* nobody may be waiting for.  (And everything is of its type.)               *)
OneReader == TypeOK /\ (~strayed => Cardinality(At("prompt")) <= 1)

(* When a shell reads, the command before is over: what still runs is the    *)
(* head of a pipe whose tail has ended, and it has no one to write to.       *)
Quiet ==
  ~strayed /\ At("prompt") # {} =>
    \A p \in At("child") \cup At("head") \cup At("tail") \cup At("run") :
      /\ proc[p].parent = Host /\ ~IsPipe(proc[p].in)
      /\ IsPipe(proc[p].out) => Readers(proc[p].out) = {}

(* Programs that are found end, and the shell comes back to its prompt: the   *)
(* tail of a pipe sees the end of it, since no process that outlives the     *)
(* head has the end to write to; the head of one whose tail has ended is     *)
(* ended by its next write, since it does not have the end to read from.     *)
ProgramsEnd ==
  /\ proc[Root].pc = "wait" ~> proc[Root].pc # "wait" \/ Shells # {Root}
  /\ \A p \in Proc : proc[p].pc = "run" ~> proc[p].pc # "run" \/ strayed
=============================================================================
