------------------------------ MODULE ShellProofs ------------------------------
(***************************************************************************)
(* Proofs about the shell, for every limit of processes, every size of a   *)
(* pipe and every set of command lines: that only one shell reads at a     *)
(* time, and what may still run while it does.                             *)
(***************************************************************************)
EXTENDS Shell, FiniteSetTheorems, WellFoundedInduction, TLAPS

USE ShellAssumption

(* A set of natural numbers has a least element: fork finds a process slot  *)
(* if there is one.                                                         *)
LEMMA LeastNat ==
  ASSUME NEW T \in SUBSET Nat, T # {}
  PROVE  Min(T) \in T
<1>1. \E x \in T : \A y \in T : ~(<<y, x>> \in OpToRel(<, Nat))
  BY NatLessThanWellFounded, WFMin
<1>2. PICK x \in T : \A y \in T : ~(<<y, x>> \in OpToRel(<, Nat))
  BY <1>1
<1>3. \A y \in T : ~(y < x)
  BY <1>2 DEF OpToRel
<1>4. \A y \in T : x =< y
  BY <1>3
<1> QED BY <1>4 DEF Min

(* What fork makes is a process nobody is, whose number names no pipe.      *)
LEMMA NewProcFree ==
  ASSUME Free # {}
  PROVE  /\ NewProc \in Proc /\ proc[NewProc].pc = "none"
         /\ Readers(NewProc) = {} /\ Writers(NewProc) = {}
<1>1. Free \in SUBSET Nat BY DEF Free, Proc
<1>2. NewProc \in Free BY <1>1, LeastNat DEF NewProc
<1> QED BY <1>2 DEF Free

(* The terminal, a file and the host are no processes; the first shell is.  *)
LEMMA ProcFacts == Root \in Proc /\ Host \notin Proc /\ Tty \notin Proc /\ File \notin Proc
  BY DEF Root, Host, Tty, File, Proc

-----------------------------------------------------------------------------
(* Types.                                                                   *)
Named(d) == d.pc \in {"child", "head", "tail"} => d.cmd # <<>>

(* An entry of the table that nobody uses is one of its entries.            *)
LEMMA NobodyType == Nobody \in Process /\ Named(Nobody)
<1>1. <<>> \in Seq(Program) /\ 0 \in 0..Lines OBVIOUS
<1> QED BY <1>1, ProcFacts DEF Nobody, Process, Named

(* A process that ends leaves a table of processes.                         *)
LEMMA EndedType ==
  ASSUME TypeOK, NEW p \in Proc
  PROVE  Ended(p) \in [Proc -> Process] /\ \A x \in Proc : Named(Ended(p)[x])
<1> DEFINE zombie == [Nobody EXCEPT !.pc = "zombie", !.parent = proc[p].parent]
<1>1. zombie \in Process /\ Named(zombie)
  <2>1. proc[p].parent \in {Host} \cup Proc BY DEF TypeOK, Process
  <2> QED BY <2>1, NobodyType DEF Process, Named
<1>2. ASSUME NEW x \in Proc
      PROVE  [proc[x] EXCEPT !.parent = Host] \in Process /\ Named([proc[x] EXCEPT !.parent = Host])
  <2>1. proc[x] \in Process /\ Named(proc[x]) BY DEF TypeOK, Named
  <2> QED BY <2>1 DEF Process, Named
<1>3. \A x \in Proc : proc[x] \in Process /\ Named(proc[x]) BY DEF TypeOK, Named
<1> HIDE DEF zombie
<1>4. \A x \in Proc : Ended(p)[x] \in Process /\ Named(Ended(p)[x])
  BY <1>1, <1>2, <1>3, NobodyType DEF Ended, zombie
<1>5. Ended(p) = [x \in Proc |-> Ended(p)[x]] BY DEF Ended
<1> QED BY <1>4, <1>5

(* What runProgram makes of a process: a program, a shell, or nothing.       *)
Became(p, d, pc) ==
  \E e \in Process : /\ proc' = [proc EXCEPT ![p] = e]
                     /\ e.pc = pc /\ e.parent = d.parent /\ e.ends = d.ends
                     /\ e.in \in {d.in, File} /\ e.out \in {d.out, File}

(* runProgram has three outcomes, whatever the arguments redirect: the      *)
(* program runs, the process is a shell, or it ends.                        *)
LEMMA RunFacts ==
  ASSUME NEW p \in Proc, NEW d \in Process, NEW piped \in BOOLEAN, RunProgram(p, d, piped)
  PROVE  \/ Became(p, d, "run") /\ strayed' = strayed
         \/ Became(p, d, "prompt") /\ strayed' = (strayed \/ piped)
         \/ End(p) /\ strayed' = strayed
<1> DEFINE s == Redirected(d)
           r == [s EXCEPT !.cmd = <<>>]
           e1 == [r EXCEPT !.pc = "run", !.left = IF IsPipe(r.out) THEN Lines ELSE 0]
           e2 == [r EXCEPT !.pc = "prompt"]
<1>1. s \in {d, [d EXCEPT !.in = File], [d EXCEPT !.out = File]}
  BY DEF Redirected
<1>2. s \in Process /\ s.parent = d.parent /\ s.ends = d.ends
      /\ s.in \in {d.in, File} /\ s.out \in {d.out, File}
  BY <1>1 DEF Process
<1> HIDE DEF s
<1>3. <<>> \in Seq(Program) /\ 0 \in 0..Lines /\ Lines \in 0..Lines OBVIOUS
<1>4. r \in Process /\ r.parent = d.parent /\ r.ends = d.ends
      /\ r.in \in {d.in, File} /\ r.out \in {d.out, File}
  BY <1>2, <1>3 DEF Process
<1> HIDE DEF r
<1>5. e1 \in Process /\ e1.pc = "run" /\ e1.parent = d.parent /\ e1.ends = d.ends
      /\ e1.in \in {d.in, File} /\ e1.out \in {d.out, File}
  BY <1>3, <1>4 DEF Process
<1>6. e2 \in Process /\ e2.pc = "prompt" /\ e2.parent = d.parent /\ e2.ends = d.ends
      /\ e2.in \in {d.in, File} /\ e2.out \in {d.out, File}
  BY <1>4 DEF Process
<1>7. \/ proc' = [proc EXCEPT ![p] = e1] /\ strayed' = strayed
      \/ proc' = [proc EXCEPT ![p] = e2] /\ strayed' = (strayed \/ piped)
      \/ End(p) /\ strayed' = strayed
  BY DEF RunProgram, r, s
<1> HIDE DEF e1, e2
<1> QED BY <1>5, <1>6, <1>7 DEF Became

(* Types, with what the code between fork and execve relies on: both sides  *)
(* of a pipe still have both its ends.                                      *)
BothEnds(d) == d.pc \in {"head", "tail"} => \E q \in Proc : d.ends = {q} \X {"r", "w"}
Sound(d) == Named(d) /\ BothEnds(d)
TypeInv == TypeOK /\ \A p \in Proc : BothEnds(proc[p])

(* The parts of TypeInv, for citing.                                        *)
LEMMA TypeInvFacts ==
  TypeInv => TypeOK /\ proc \in [Proc -> Process] /\ \A p \in Proc : Sound(proc[p])
  BY DEF TypeInv, TypeOK, Sound, Named

(* A process that ends leaves both sides of every other pipe their ends.    *)
LEMMA EndedSound ==
  ASSUME TypeInv, NEW p \in Proc
  PROVE  Ended(p) \in [Proc -> Process] /\ \A x \in Proc : Sound(Ended(p)[x])
<1>1. Ended(p) \in [Proc -> Process] /\ \A x \in Proc : Named(Ended(p)[x])
  BY EndedType DEF TypeInv
<1>2. \A x \in Proc : Ended(p)[x].pc \in {"head", "tail"} =>
        Ended(p)[x].pc = proc[x].pc /\ Ended(p)[x].ends = proc[x].ends
  BY DEF Ended, Nobody, TypeInv, TypeOK, Process
<1> QED BY <1>1, <1>2 DEF Sound, BothEnds, TypeInv

(* One process changed and sound, the table is.                             *)
LEMMA OneSound ==
  ASSUME TypeInv, NEW p \in Proc, NEW e \in Process, Sound(e)
  PROVE  /\ [proc EXCEPT ![p] = e] \in [Proc -> Process]
         /\ \A x \in Proc : Sound([proc EXCEPT ![p] = e][x])
  BY TypeInvFacts

(* What a step has to show about the types.                                 *)
LEMMA TableType ==
  ASSUME proc' \in [Proc -> Process], \A x \in Proc : Sound(proc'[x]),
         buf' \in [Proc -> 0..Cap], typed' \in 0..MaxTyped, strayed' \in BOOLEAN
  PROVE  TypeInv'
  BY DEF TypeInv, TypeOK, Sound, Named

(* runProgram preserves the types.                                          *)
LEMMA RunType ==
  ASSUME TypeInv, NEW p \in Proc, NEW d \in Process, NEW piped \in BOOLEAN,
         RunProgram(p, d, piped), UNCHANGED <<buf, typed>>
  PROVE  TypeInv'
<1>1. proc' \in [Proc -> Process] /\ \A x \in Proc : Sound(proc'[x])
  <2>1. ASSUME NEW e \in Process, e.pc \in {"run", "prompt"}, proc' = [proc EXCEPT ![p] = e]
        PROVE  proc' \in [Proc -> Process] /\ \A x \in Proc : Sound(proc'[x])
    <3>1. Sound(e) BY <2>1 DEF Sound, Named, BothEnds
    <3> QED BY <2>1, <3>1, OneSound
  <2>2. CASE End(p) BY <2>2, EndedSound DEF End
  <2> QED BY <2>1, <2>2, RunFacts DEF Became
<1>2. strayed' \in BOOLEAN BY RunFacts DEF TypeInv, TypeOK
<1> QED BY <1>1, <1>2, TableType DEF TypeInv, TypeOK

(* The descriptors of the two processes of a pipe.                          *)
LEMMA SidesType ==
  ASSUME TypeInv, NEW p \in Proc, NEW q \in Proc, proc[p].ends = {q} \X {"r", "w"}
  PROVE  PipeOf(p) = q /\ AsHead(p) \in Process /\ AsTail(p) \in Process
<1>1. PipeOf(p) = q
  <2>1. \A x \in Proc : <<x, "r">> \in proc[p].ends <=> x = q OBVIOUS
  <2> QED BY <2>1 DEF PipeOf
<1>2. proc[p] \in Process /\ {} \in SUBSET (Proc \X {"r", "w"}) BY TypeInvFacts
<1> QED BY <1>1, <1>2 DEF AsHead, AsTail, Process

(* The process fork makes, and what becomes of the one that forks.           *)
LEMMA ChildType ==
  ASSUME TypeInv, NEW p \in Proc, NEW c \in Command
  PROVE  Child(p, c) \in Process /\ Sound(Child(p, c))
<1>1. c \in Seq(Program) /\ c # <<>> OBVIOUS
<1>2. proc[p] \in Process BY TypeInvFacts
<1> QED BY <1>1, <1>2 DEF Child, Process, Sound, Named, BothEnds

(* ReadLine takes a line out of a pipe, if it reads from one.               *)
LEMMA ReadLineType ==
  ASSUME TypeInv, NEW p \in Proc, ReadLine(p)
  PROVE  buf' \in [Proc -> 0..Cap] /\ typed' \in 0..MaxTyped
<1>1. typed' \in 0..MaxTyped BY DEF ReadLine, TypeInv, TypeOK
<1>2. CASE ~IsPipe(proc[p].in) BY <1>2 DEF ReadLine, TypeInv, TypeOK
<1>3. CASE IsPipe(proc[p].in)
  <2> DEFINE q == proc[p].in
  <2>1. q \in Proc BY <1>3 DEF IsPipe
  <2>2. (buf' = [buf EXCEPT ![q] = @ - 1] /\ buf[q] > 0) \/ buf' = buf
    BY <1>3 DEF ReadLine
  <2>3. buf[q] > 0 => buf[q] - 1 \in 0..Cap BY <2>1 DEF TypeInv, TypeOK
  <2> HIDE DEF q
  <2> QED BY <1>1, <2>1, <2>2, <2>3 DEF TypeInv, TypeOK
<1> QED BY <1>1, <1>2, <1>3

(* Waiting, or back at the prompt, a process is otherwise what it was.       *)
LEMMA PcType ==
  ASSUME NEW d \in Process, NEW pc \in {"wait", "prompt"}
  PROVE  LET e == [d EXCEPT !.pc = pc]
         IN /\ e \in Process /\ Sound(e) /\ e.pc = pc /\ e.parent = d.parent
            /\ e.in = d.in /\ e.out = d.out /\ e.ends = d.ends
<1> DEFINE e == [d EXCEPT !.pc = pc]
<1>1. /\ e \in Process /\ e.pc = pc /\ e.parent = d.parent
      /\ e.in = d.in /\ e.out = d.out /\ e.ends = d.ends
  BY DEF Process
<1> HIDE DEF e
<1>2. Sound(e) BY <1>1 DEF Sound, Named, BothEnds
<1> QED BY <1>1, <1>2 DEF e

(* What is before the first | and what is after it. *)
LEMMA Cut ==
  ASSUME NEW c \in Seq(Program), Len(c) > 1
  PROVE  /\ Tail(c) \in Seq(Program) /\ Tail(c) # <<>>
         /\ <<Head(c)>> \in Seq(Program) /\ <<Head(c)>> # <<>>
<1>1. Len(Tail(c)) = Len(c) - 1 /\ Tail(c) \in Seq(Program) OBVIOUS
<1>2. Head(c) \in Program OBVIOUS
<1>3. Len(<<>>) = 0 OBVIOUS
<1>4. Tail(c) # <<>>
  <2>1. Len(c) - 1 # 0
    <3>1. Len(c) \in Nat OBVIOUS
    <3>2. \A l \in Nat : l > 1 => l - 1 # 0 OBVIOUS
    <3> QED BY <3>1, <3>2
  <2>2. Len(Tail(c)) # 0 BY <1>1, <2>1
  <2> QED BY <1>3, <2>2
<1> QED BY <1>1, <1>2, <1>4

(* Every step preserves the types.                                          *)
LEMMA StepTypes ==
  ASSUME TypeInv, [Next]_vars
  PROVE  TypeInv'
<1>t. /\ proc \in [Proc -> Process] /\ \A x \in Proc : Sound(proc[x])
      /\ buf \in [Proc -> 0..Cap] /\ typed \in 0..MaxTyped /\ strayed \in BOOLEAN
  BY TypeInvFacts DEF TypeOK
<1>1. ASSUME NEW p \in Proc, ReadLine(p), UNCHANGED strayed,
             \/ End(p)
             \/ \E c \in Command : Free # {} /\
                  proc' = [proc EXCEPT ![NewProc] = Child(p, c), ![p].pc = "wait"]
      PROVE  TypeInv'
  <2>1. CASE End(p)
    BY <1>1, <1>t, <2>1, EndedSound, ReadLineType, TableType DEF End
  <2>2. ASSUME NEW c \in Command, Free # {},
               proc' = [proc EXCEPT ![NewProc] = Child(p, c), ![p].pc = "wait"]
        PROVE  TypeInv'
    <3>1. NewProc \in Proc /\ NewProc # p BY <1>1, <2>2, NewProcFree DEF ReadLine
    <3> DEFINE w == [proc[p] EXCEPT !.pc = "wait"]
               d == Child(p, c)
    <3>2. w \in Process /\ Sound(w) BY <1>t, PcType
    <3>3. d \in Process /\ Sound(d) BY ChildType
    <3>6. proc' = [proc EXCEPT ![NewProc] = d, ![p] = w]
      BY <1>t, <2>2, <3>1
    <3> HIDE DEF w, d
    <3>4. \A x \in Proc : proc'[x] \in Process /\ Sound(proc'[x])
      BY <1>t, <3>1, <3>2, <3>3, <3>6
    <3>5. proc' \in [Proc -> Process] BY <3>4, <3>6, <1>t
    <3> QED BY <1>1, <1>t, <3>4, <3>5, ReadLineType, TableType
  <2> QED BY <1>1, <2>1, <2>2
<1>2. ASSUME NEW p \in Proc, Wait(p) PROVE TypeInv'
  <2>1. PICK z \in Proc : proc[z].pc = "zombie"
                         /\ proc' = [proc EXCEPT ![z] = Nobody, ![p].pc = "prompt"]
    BY <1>2 DEF Wait
  <2>2. p # z BY <1>2, <2>1 DEF Wait
  <2> DEFINE w == [proc[p] EXCEPT !.pc = "prompt"]
  <2>3. w \in Process /\ Sound(w) BY <1>t, PcType
  <2>4. proc' = [proc EXCEPT ![z] = Nobody, ![p] = w] BY <1>t, <2>1, <2>2
  <2>5. Sound(Nobody) BY NobodyType DEF Sound, BothEnds, Nobody
  <2> HIDE DEF w
  <2>6. \A x \in Proc : proc'[x] \in Process /\ Sound(proc'[x])
    BY <1>t, <2>3, <2>4, <2>5, NobodyType
  <2>7. proc' \in [Proc -> Process] BY <2>4, <2>6, <1>t
  <2> QED BY <1>2, <1>t, <2>6, <2>7, TableType DEF Wait
<1>3. ASSUME NEW p \in Proc, Simple(p) PROVE TypeInv'
  BY <1>3, <1>t, RunType DEF Simple
<1>4. ASSUME NEW p \in Proc, NewPipe(p) PROVE TypeInv'
  <2> DEFINE d == [proc[p] EXCEPT !.ends = {p} \X {"r", "w"}]
             tail == [d EXCEPT !.pc = "tail", !.cmd = TailOf(d.cmd)]
             head == [d EXCEPT !.pc = "head", !.cmd = <<Head(d.cmd)>>, !.parent = p]
  <2>1. proc[p].cmd \in Seq(Program) /\ Len(proc[p].cmd) > 1 /\ proc[p].pc = "child"
    BY <1>4, <1>t DEF NewPipe, Process
  <2>2. /\ Tail(proc[p].cmd) \in Seq(Program) /\ Tail(proc[p].cmd) # <<>>
        /\ <<Head(proc[p].cmd)>> \in Seq(Program) /\ <<Head(proc[p].cmd)>> # <<>>
    BY <2>1, Cut
  <2>3. d \in Process /\ d.cmd = proc[p].cmd /\ d.ends = {p} \X {"r", "w"}
    <3>1. {p} \X {"r", "w"} \in SUBSET (Proc \X {"r", "w"}) /\ proc[p] \in Process
      BY <1>t
    <3> QED BY <3>1 DEF Process
  <2> HIDE DEF d
  <2>4. tail \in Process /\ Sound(tail)
    BY <2>2, <2>3 DEF Process, Sound, Named, BothEnds, TailOf
  <2>5. head \in Process /\ Sound(head)
    BY <2>2, <2>3 DEF Process, Sound, Named, BothEnds
  <2> HIDE DEF head, tail
  <2>6. \/ proc' = [proc EXCEPT ![p] = tail]
        \/ Free # {} /\ proc' = [proc EXCEPT ![p] = tail, ![NewProc] = head]
    BY <1>4 DEF NewPipe, d, head, tail
  <2>7. proc' \in [Proc -> Process] /\ \A x \in Proc : Sound(proc'[x])
    BY <1>t, <2>4, <2>5, <2>6, NewProcFree
  <2>8. buf' \in [Proc -> 0..Cap] BY <1>4, <1>t DEF NewPipe
  <2> QED BY <1>4, <1>t, <2>7, <2>8, TableType DEF NewPipe
<1>5. ASSUME NEW p \in Proc, PipeHead(p) PROVE TypeInv'
  <2>1. PICK q \in Proc : proc[p].ends = {q} \X {"r", "w"}
    BY <1>5, <1>t DEF PipeHead, Sound, BothEnds
  <2> QED BY <1>5, <2>1, SidesType, RunType DEF PipeHead
<1>6. ASSUME NEW p \in Proc, PipeTail(p) PROVE TypeInv'
  <2>1. PICK q \in Proc : proc[p].ends = {q} \X {"r", "w"}
    BY <1>6, <1>t DEF PipeTail, Sound, BothEnds
  <2> QED BY <1>6, <2>1, SidesType, RunType DEF PipeTail
<1>7. ASSUME NEW p \in Proc, Write(p) PROVE TypeInv'
  <2> DEFINE q == proc[p].out
             e == [proc[p] EXCEPT !.left = @ - 1]
  <2>1. q \in Proc /\ UNCHANGED <<typed, strayed>> /\ proc[p].left > 0 /\ proc[p].pc = "run"
    BY <1>7 DEF Write, IsPipe
  <2>2. CASE End(p) /\ UNCHANGED buf
    BY <1>t, <2>1, <2>2, EndedSound, TableType DEF End
  <2>3. CASE buf[q] < Cap /\ buf' = [buf EXCEPT ![q] = @ + 1] /\ proc' = [proc EXCEPT ![p] = e]
    <3>1. proc[p] \in Process /\ proc[p].left - 1 \in 0..Lines
      BY <1>t, <2>1 DEF Process
    <3>2. e \in Process /\ e.pc = "run" BY <2>1, <3>1 DEF Process
    <3>3. Sound(e) BY <3>2 DEF Sound, Named, BothEnds
    <3> HIDE DEF e
    <3>4. buf' \in [Proc -> 0..Cap]
      <4>1. buf[q] + 1 \in 0..Cap BY <1>t, <2>1, <2>3
      <4> QED BY <1>t, <2>1, <2>3, <4>1
    <3>5. proc' \in [Proc -> Process] /\ \A x \in Proc : Sound(proc'[x])
      BY <2>3, <3>2, <3>3, OneSound
    <3> QED BY <1>t, <2>1, <3>4, <3>5, TableType
  <2> QED BY <1>7, <2>2, <2>3 DEF Write
<1>8. ASSUME NEW p \in Proc, Read(p) PROVE TypeInv'
  <2> DEFINE q == proc[p].in
  <2>1. q \in Proc /\ buf[q] > 0 /\ buf' = [buf EXCEPT ![q] = @ - 1]
    BY <1>8 DEF Read, IsPipe
  <2>2. buf[q] - 1 \in 0..Cap BY <1>t, <2>1
  <2>3. buf' \in [Proc -> 0..Cap] BY <1>t, <2>1, <2>2
  <2> QED BY <1>8, <1>t, <2>3, TableType DEF Read
<1>9. ASSUME NEW p \in Proc, Finish(p) \/ GiveUp(p) PROVE TypeInv'
  BY <1>9, <1>t, EndedSound, TableType DEF Finish, GiveUp, End
<1>10. CASE UNCHANGED vars
  BY <1>10, <1>t, TableType DEF vars
<1>11. ASSUME NEW p \in Proc, Exit(p) \/ EmptyLine(p) \/ \E c \in Command : ForkChild(p, c)
       PROVE  TypeInv'
  <2>1. CASE Exit(p) \/ EmptyLine(p) BY <1>1, <2>1 DEF Exit, EmptyLine
  <2>2. ASSUME NEW c \in Command, ForkChild(p, c) PROVE TypeInv'
    BY <1>1, <2>2 DEF ForkChild
  <2> QED BY <1>11, <2>1, <2>2
<1> QED BY <1>2, <1>3, <1>4, <1>5, <1>6, <1>7, <1>8, <1>9, <1>10, <1>11 DEF Next, Step

-----------------------------------------------------------------------------
(* Why OneReader and Quiet are inductive.  The shells wait for each other   *)
(* in a line: each but the last waits for the next, its only child, and     *)
(* whatever else lives is the head of a pipe, or was: a child of the last   *)
(* one, or nobody's.                                                        *)
InLine(n, c, p) == \E i \in 1..n : c[i] = p
Line(n, c) ==
  /\ \A i, j \in 1..n : c[i] = c[j] => i = j
  /\ n > 0 => c[1] = Root /\ proc[Root].parent = Host
  /\ n > 0 => proc[c[n]].pc \in {"prompt", "child", "tail", "run", "zombie"}
  /\ \A i \in 1..n-1 : proc[c[i]].pc = "wait" /\ proc[c[i + 1]].parent = c[i]
  /\ \A p \in Proc : proc[p].pc \in {"prompt", "wait", "child", "tail"} => InLine(n, c, p)
  /\ \A p \in Proc : proc[p].parent \in Proc /\ ~InLine(n, c, p) =>
       n > 0 /\ proc[p].parent = c[n] /\ proc[c[n]].pc \in {"tail", "run"}

(* Who has which end of which pipe.  A pipe is named by its tail, in whose   *)
(* time as a child nobody has an end of it; it has one head.                *)
HeadOf(p, q) == \/ proc[p].pc = "head" /\ <<q, "w">> \in proc[p].ends
                \/ proc[p].pc = "run" /\ proc[p].out = q
EndsOK(n, c, p) ==
  LET d == proc[p]
  IN /\ d.pc # "run" => d.in \notin Proc /\ d.out \notin Proc
     /\ d.pc \notin {"head", "tail"} => d.ends = {}
     /\ d.pc = "tail" => d.ends = {p} \X {"r", "w"}
     /\ d.pc = "head" => \E q \in Proc : d.ends = {q} \X {"r", "w"}
     /\ d.pc = "child" => Readers(p) = {} /\ Writers(p) = {}
     /\ d.in \in Proc => InLine(n, c, p)
Pipes(n, c) ==
  /\ \A p \in Proc : EndsOK(n, c, p)
  /\ \A p, q, r \in Proc : HeadOf(p, r) /\ HeadOf(q, r) => p = q

InOrder == \E n \in Nat : \E c \in [1..n -> Proc] : Line(n, c) /\ Pipes(n, c)
Orderly == ~strayed => InOrder

(* What a step can do to a process, as far as pipes go: nothing, let go of  *)
(* all ends, make it without one, or close one end and keep the other.      *)
Alike(x) == /\ proc'[x].pc = proc[x].pc /\ proc'[x].in = proc[x].in
            /\ proc'[x].out = proc[x].out /\ proc'[x].ends = proc[x].ends
Plain(x) == /\ proc'[x].pc \notin {"child", "head", "tail"}
            /\ proc'[x].in \notin Proc /\ proc'[x].out \notin Proc /\ proc'[x].ends = {}
Fresh(x) == /\ proc'[x].in \notin Proc /\ proc'[x].out \notin Proc /\ proc'[x].ends = {}
            /\ proc'[x].pc = "child" /\ Readers(x) = {} /\ Writers(x) = {}
TailRuns(x) == /\ proc[x].pc = "tail" /\ proc'[x].pc = "run" /\ proc'[x].ends = {}
               /\ proc'[x].in = x \/ proc'[x].in \notin Proc
               /\ proc'[x].out \notin Proc
HeadRuns(x) == /\ proc[x].pc = "head" /\ proc'[x].pc = "run" /\ proc'[x].ends = {}
               /\ proc'[x].in \notin Proc
               /\ proc'[x].out \in Proc => <<proc'[x].out, "w">> \in proc[x].ends

(* Who has which end stays in order when each process is changed in one of  *)
(* these ways, along whatever line.                                         *)
LEMMA PipesKept ==
  ASSUME NEW n, NEW c, NEW n2, NEW c2, Pipes(n, c),
         \A x \in Proc :
           \/ Alike(x) /\ (proc[x].in \in Proc => InLine(n2, c2, x))
           \/ Plain(x) \/ Fresh(x) \/ (TailRuns(x) /\ InLine(n2, c2, x)) \/ HeadRuns(x)
  PROVE  Pipes(n2, c2)'
<1>0. \A p \in Proc : EndsOK(n, c, p) BY DEF Pipes
<1>1. ASSUME NEW p \in Proc, NEW r \in Proc, HeadOf(p, r)' PROVE HeadOf(p, r)
  <2>1. CASE Alike(p) BY <1>1, <2>1 DEF HeadOf, Alike
  <2>2. CASE Plain(p) \/ Fresh(p) \/ TailRuns(p)
    BY <1>1, <2>2 DEF HeadOf, Plain, Fresh, TailRuns
  <2>3. CASE HeadRuns(p) BY <1>1, <2>3 DEF HeadOf, HeadRuns
  <2> QED BY <2>1, <2>2, <2>3
<1>2. ASSUME NEW p \in Proc, proc'[p].pc = "child"
      PROVE  Readers(p)' = {} /\ Writers(p)' = {}
  <2>1. Readers(p) = {} /\ Writers(p) = {}
    <3>1. Alike(p) \/ Fresh(p) BY <1>2 DEF Plain, TailRuns, HeadRuns
    <3> QED BY <1>0, <1>2, <3>1 DEF Alike, Fresh, EndsOK
  <2>2. ASSUME NEW x \in Proc
        PROVE  /\ proc'[x].in # p /\ proc'[x].out # p
               /\ <<p, "r">> \notin proc'[x].ends /\ <<p, "w">> \notin proc'[x].ends
    <3>1. /\ proc[x].in # p /\ proc[x].out # p
          /\ <<p, "r">> \notin proc[x].ends /\ <<p, "w">> \notin proc[x].ends
      BY <2>1 DEF Readers, Writers
    <3>2. CASE Alike(x) BY <3>1, <3>2 DEF Alike
    <3>3. CASE Plain(x) \/ Fresh(x) BY <3>3 DEF Plain, Fresh
    <3>4. CASE TailRuns(x) BY <1>2, <3>4 DEF TailRuns
    <3>5. CASE HeadRuns(x) BY <3>1, <3>5 DEF HeadRuns
    <3> QED BY <3>2, <3>3, <3>4, <3>5
  <2> QED BY <2>2 DEF Readers, Writers
<1>3. ASSUME NEW p \in Proc PROVE EndsOK(n2, c2, p)'
  <2>1. CASE Alike(p) /\ (proc[p].in \in Proc => InLine(n2, c2, p))
    BY <1>0, <1>2, <2>1 DEF EndsOK, Alike, InLine
  <2>2. CASE Plain(p) BY <2>2 DEF EndsOK, Plain
  <2>3. CASE Fresh(p) BY <1>2, <2>3 DEF EndsOK, Fresh
  <2>4. CASE TailRuns(p) /\ InLine(n2, c2, p) BY <2>4 DEF EndsOK, TailRuns, InLine
  <2>5. CASE HeadRuns(p) BY <2>5 DEF EndsOK, HeadRuns
  <2> QED BY <2>1, <2>2, <2>3, <2>4, <2>5
<1>4. \A p, q, r \in Proc : HeadOf(p, r)' /\ HeadOf(q, r)' => p = q
  BY <1>1 DEF Pipes
<1> QED BY <1>3, <1>4 DEF Pipes

(* Who is in line: the last, or one that waits for the next.                *)
LEMMA LastOfLine ==
  ASSUME NEW n \in Nat, NEW c \in [1..n -> Proc], Line(n, c), NEW p \in Proc, InLine(n, c, p)
  PROVE  /\ n > 0 /\ n \in 1..n
         /\ proc[p].pc = "wait" <=> p # c[n]
         /\ proc[p].pc # "none"
         /\ proc[p].parent \notin Proc => n = 1 \/ p # c[n]
         /\ proc[p].parent \in Proc => \E i \in 1..n-1 : proc[p].parent = c[i] /\ p = c[i + 1]
<1>1. PICK i \in 1..n : c[i] = p BY DEF InLine
<1>2. n > 0 /\ n \in 1..n BY <1>1
<1>3. proc[c[n]].pc \in {"prompt", "child", "tail", "run", "zombie"} BY <1>2 DEF Line
<1>4. i # n => i \in 1..n-1 /\ proc[p].pc = "wait" BY <1>1 DEF Line
<1>5. p = c[n] <=> i = n BY <1>1, <1>2 DEF Line
<1>6. i = 1 => proc[p].parent = Host BY <1>1, <1>2 DEF Line
<1>7. i # 1 => i - 1 \in 1..n-1 /\ (i - 1) + 1 = i BY <1>1
<1>8. i # 1 => proc[p].parent = c[i - 1] /\ c[i - 1] \in Proc
  <2> SUFFICES ASSUME i # 1 PROVE proc[p].parent = c[i - 1] /\ c[i - 1] \in Proc OBVIOUS
  <2>1. i - 1 \in 1..n-1 /\ i - 1 \in 1..n /\ (i - 1) + 1 = i BY <1>7
  <2>2. proc[c[(i - 1) + 1]].parent = c[i - 1] BY <2>1 DEF Line
  <2> QED BY <1>1, <2>1, <2>2
<1>9. proc[p].parent \notin Proc => n = 1 \/ p # c[n] BY <1>5, <1>8
<1>10. proc[p].parent \in Proc => \E j \in 1..n-1 : proc[p].parent = c[j] /\ p = c[j + 1]
  BY <1>1, <1>6, <1>7, <1>8, ProcFacts
<1> QED BY <1>2, <1>3, <1>4, <1>5, <1>9, <1>10

(* A step that changes no parents and keeps everybody's place keeps the     *)
(* line: those who wait go on waiting, the last may go from child to        *)
(* prompt, and nobody joins.                                                *)
LEMMA LineKept ==
  ASSUME NEW n \in Nat, NEW c \in [1..n -> Proc], Line(n, c),
         \A x \in Proc : /\ proc'[x].parent = proc[x].parent
                         /\ \/ proc'[x].pc = proc[x].pc
                            \/ proc[x].pc = "head" /\ proc'[x].pc = "run"
                            \/ proc[x].pc = "child" /\ proc'[x].pc \in {"prompt", "run", "tail"}
                            \/ proc[x].pc = "tail" /\ proc'[x].pc = "run"
  PROVE  Line(n, c)'
<1>1. \A x \in Proc : proc'[x].pc \in {"prompt", "wait", "child", "tail"} => InLine(n, c, x)
  BY DEF Line
<1>2. ASSUME NEW x \in Proc, proc'[x].parent \in Proc, ~InLine(n, c, x)
      PROVE  n > 0 /\ proc'[x].parent = c[n] /\ proc'[c[n]].pc \in {"tail", "run"}
  <2>1. n > 0 /\ proc[x].parent = c[n] /\ proc[c[n]].pc \in {"tail", "run"}
    BY <1>2 DEF Line
  <2>2. n \in 1..n BY <2>1
  <2> QED BY <2>1, <2>2
<1>3. n > 0 => proc'[c[n]].pc \in {"prompt", "child", "tail", "run", "zombie"}
  <2> SUFFICES ASSUME n > 0 PROVE proc'[c[n]].pc \in {"prompt", "child", "tail", "run", "zombie"}
    OBVIOUS
  <2>1. n \in 1..n OBVIOUS
  <2> QED BY <2>1 DEF Line
<1>4. \A i \in 1..n-1 : proc'[c[i]].pc = "wait" /\ proc'[c[i + 1]].parent = c[i]
  <2> SUFFICES ASSUME NEW i \in 1..n-1
               PROVE  proc'[c[i]].pc = "wait" /\ proc'[c[i + 1]].parent = c[i]
    OBVIOUS
  <2>1. i \in 1..n /\ i + 1 \in 1..n OBVIOUS
  <2> QED BY <2>1 DEF Line
<1>5. n > 0 => c[1] = Root /\ proc'[Root].parent = Host BY ProcFacts DEF Line
<1> QED BY <1>1, <1>2, <1>3, <1>4, <1>5 DEF Line, InLine

(* What the end of a process changes.                                       *)
LEMMA EndFacts ==
  ASSUME TypeInv, NEW p \in Proc, End(p)
  PROVE  /\ Plain(p) /\ proc'[p].pc \in {"none", "zombie"}
         /\ proc[p].parent \in Proc => proc'[p].pc = "zombie" /\ proc'[p].parent = proc[p].parent
         /\ proc[p].parent \notin Proc => proc'[p].pc = "none" /\ proc'[p].parent = Host
         /\ \A x \in Proc \ {p} :
              /\ Plain(x) \/ Alike(x)
              /\ proc'[x].pc \in {proc[x].pc, "none"}
              /\ proc[x].parent # p => proc'[x] = proc[x]
              /\ proc[x].parent = p => proc'[x].parent = Host
<1>t. proc \in [Proc -> Process] BY TypeInvFacts
<1>0. proc' = Ended(p) BY DEF End
<1>1. /\ Nobody.in = Tty /\ Nobody.out = Tty /\ Nobody.ends = {} /\ Nobody.pc = "none"
      /\ Nobody.parent = Host
  BY DEF Nobody
<1>2. proc[p].parent \in {Host} \cup Proc BY <1>t DEF Process
<1> DEFINE z == [Nobody EXCEPT !.pc = "zombie", !.parent = proc[p].parent]
<1>3. z.pc = "zombie" /\ z.parent = proc[p].parent /\ z.in = Tty /\ z.out = Tty /\ z.ends = {}
  BY DEF Nobody
<1> HIDE DEF z
<1>4. proc'[p] = IF proc[p].parent = Host THEN Nobody ELSE z
  BY <1>0 DEF Ended, z
<1>5. /\ Plain(p) /\ proc'[p].pc \in {"none", "zombie"}
      /\ proc[p].parent \in Proc => proc'[p].pc = "zombie" /\ proc'[p].parent = proc[p].parent
      /\ proc[p].parent \notin Proc => proc'[p].pc = "none" /\ proc'[p].parent = Host
  BY <1>1, <1>2, <1>3, <1>4, ProcFacts DEF Plain
<1>6. ASSUME NEW x \in Proc \ {p}
      PROVE  /\ Plain(x) \/ Alike(x)
             /\ proc'[x].pc \in {proc[x].pc, "none"}
             /\ proc[x].parent # p => proc'[x] = proc[x]
             /\ proc[x].parent = p => proc'[x].parent = Host
  <2>1. CASE proc[x].parent # p
    <3>1. proc'[x] = proc[x] BY <1>0, <2>1 DEF Ended
    <3> QED BY <2>1, <3>1 DEF Alike
  <2>2. CASE proc[x].parent = p /\ proc[x].pc = "zombie"
    <3>1. proc'[x] = Nobody BY <1>0, <2>2 DEF Ended
    <3> QED BY <1>1, <2>2, <3>1, ProcFacts DEF Plain
  <2>3. CASE proc[x].parent = p /\ proc[x].pc # "zombie"
    <3>1. proc'[x] = [proc[x] EXCEPT !.parent = Host] BY <1>0, <2>3 DEF Ended
    <3>2. /\ proc'[x].pc = proc[x].pc /\ proc'[x].in = proc[x].in /\ proc'[x].out = proc[x].out
          /\ proc'[x].ends = proc[x].ends /\ proc'[x].parent = Host
      BY <1>t, <3>1 DEF Process
    <3> QED BY <2>3, <3>2 DEF Alike
  <2> QED BY <2>1, <2>2, <2>3
<1> QED BY <1>5, <1>6

(* The end of a process, wherever it happens: the last in line stays there  *)
(* as a zombie its parent waits for, the first shell takes the line with    *)
(* it, and the head of a pipe leaves nothing.                               *)
LEMMA EndKeeps ==
  ASSUME TypeInv, NEW n \in Nat, NEW c \in [1..n -> Proc], Line(n, c), Pipes(n, c),
         NEW p \in Proc, proc[p].pc \in {"prompt", "child", "head", "tail", "run"}, End(p)
  PROVE  InOrder'
<1>t. \A x \in Proc : proc[x].parent \in {Host} \cup Proc BY TypeInvFacts DEF Process
<1>p. \A x \in Proc : proc[x].in \in Proc => InLine(n, c, x) BY DEF Pipes, EndsOK
<1>1. CASE InLine(n, c, p) /\ proc[p].parent \in Proc
  <2>1. n > 0 /\ n \in 1..n /\ p = c[n] BY <1>1, LastOfLine
  <2>2. ASSUME NEW x \in Proc \ {p}, InLine(n, c, x) PROVE proc'[x] = proc[x]
    <3>1. proc[x].parent # p
      <4>1. \A i \in 1..n-1 : proc[c[i]].pc = "wait" BY DEF Line
      <4> QED BY <2>2, <4>1, LastOfLine
    <3> QED BY <3>1, EndFacts
  <2>3. \A x \in Proc : proc'[x].pc \in {"prompt", "wait", "child", "tail"} => InLine(n, c, x)
    BY EndFacts DEF Line
  <2>4. ASSUME NEW x \in Proc, proc'[x].parent \in Proc, ~InLine(n, c, x) PROVE FALSE
    <3>1. x # p BY <1>1, <2>4
    <3>2. proc[x].parent # p BY <2>4, <3>1, EndFacts, ProcFacts
    <3>3. proc[x].parent \in Proc BY <2>4, <3>1, <3>2, EndFacts
    <3> QED BY <2>1, <2>4, <3>2, <3>3 DEF Line
  <2>5. proc'[c[n]].pc = "zombie" /\ proc'[c[n]].parent = proc[c[n]].parent
    BY <1>1, <2>1, EndFacts
  <2>6. \A i \in 1..n-1 : proc'[c[i]].pc = "wait" /\ proc'[c[i + 1]].parent = c[i]
    <3> SUFFICES ASSUME NEW i \in 1..n-1
                 PROVE  proc'[c[i]].pc = "wait" /\ proc'[c[i + 1]].parent = c[i]
      OBVIOUS
    <3>1. i \in 1..n /\ i + 1 \in 1..n /\ i # n OBVIOUS
    <3>2. proc[c[i]].pc = "wait" /\ proc[c[i + 1]].parent = c[i] BY DEF Line
    <3>3. c[i] # p BY <2>1, <3>2, LastOfLine
    <3>4. proc'[c[i]].pc = "wait" BY <2>2, <3>1, <3>2, <3>3 DEF InLine
    <3>5. proc'[c[i + 1]].parent = proc[c[i + 1]].parent
      BY <2>1, <2>2, <2>5, <3>1 DEF InLine
    <3> QED BY <3>2, <3>4, <3>5
  <2>7. c[1] = Root /\ proc'[Root].parent = Host
    <3>1. c[1] = Root /\ proc[Root].parent = Host /\ 1 \in 1..n BY <2>1 DEF Line
    <3>2. Root # p BY <1>1, <3>1, ProcFacts
    <3>3. InLine(n, c, Root) BY <3>1 DEF InLine
    <3> QED BY <2>2, <3>1, <3>2, <3>3, ProcFacts
  <2>8. Line(n, c)' BY <2>1, <2>3, <2>4, <2>5, <2>6, <2>7 DEF Line, InLine
  <2>9. Pipes(n, c)' BY <1>p, EndFacts, PipesKept DEF Alike
  <2> QED BY <2>8, <2>9 DEF InOrder
<1>2. CASE InLine(n, c, p) /\ proc[p].parent \notin Proc
  <2>1. n = 1 /\ p = c[1] BY <1>2, LastOfLine
  <2> DEFINE e == [i \in 1..0 |-> Root]
  <2>2. \A x \in Proc \ {p} : ~InLine(n, c, x) BY <2>1 DEF InLine
  <2>3. \A x \in Proc : proc'[x].pc \notin {"prompt", "wait", "child", "tail"}
    BY <2>2, EndFacts DEF Line
  <2>4. \A x \in Proc : proc'[x].parent \notin Proc
    <3> SUFFICES ASSUME NEW x \in Proc, proc'[x].parent \in Proc PROVE FALSE OBVIOUS
    <3>1. x # p BY <1>2, EndFacts, ProcFacts
    <3>2. proc[x].parent # p BY <3>1, EndFacts, ProcFacts
    <3>3. proc[x].parent \in Proc BY <3>1, <3>2, EndFacts
    <3> QED BY <2>1, <2>2, <3>1, <3>2, <3>3 DEF Line
  <2>5. Line(0, e)' BY <2>3, <2>4 DEF Line
  <2>6. Pipes(0, e)'
    <3>1. \A x \in Proc \ {p} : proc[x].in \notin Proc BY <1>p, <2>2
    <3> HIDE DEF e
    <3> QED BY <3>1, EndFacts, PipesKept
  <2>7. e \in [1..0 -> Proc] BY ProcFacts
  <2> HIDE DEF e
  <2> QED BY <2>5, <2>6, <2>7 DEF InOrder
<1>3. CASE ~InLine(n, c, p)
  <2>1. \A x \in Proc : proc[x].parent # p
    <3> SUFFICES ASSUME NEW x \in Proc, proc[x].parent = p PROVE FALSE OBVIOUS
    <3>1. CASE InLine(n, c, x)
      <4>1. PICK i \in 1..n-1 : p = c[i] BY <3>1, LastOfLine
      <4>2. i \in 1..n OBVIOUS
      <4> QED BY <1>3, <4>1, <4>2 DEF InLine
    <3>2. CASE ~InLine(n, c, x)
      <4>1. n > 0 /\ p = c[n] BY <3>2 DEF Line
      <4>2. n \in 1..n BY <4>1
      <4> QED BY <1>3, <4>1, <4>2 DEF InLine
    <3> QED BY <3>1, <3>2
  <2>2. \A x \in Proc \ {p} : proc'[x] = proc[x] BY <2>1, EndFacts
  <2>3. \A i \in 1..n : c[i] # p /\ proc'[c[i]] = proc[c[i]] BY <1>3, <2>2 DEF InLine
  <2>4. proc'[p].pc \in {"none", "zombie"}
        /\ (proc'[p].parent \in Proc => proc'[p].parent = proc[p].parent)
    BY EndFacts, ProcFacts
  <2>5. n > 0 => n \in 1..n /\ 1 \in 1..n OBVIOUS
  <2>6. n > 0 => proc'[c[n]] = proc[c[n]] /\ proc'[c[1]] = proc[c[1]] BY <2>3, <2>5
  <2>7. \A i \in 1..n-1 : proc'[c[i]].pc = "wait" /\ proc'[c[i + 1]].parent = c[i]
    <3> SUFFICES ASSUME NEW i \in 1..n-1
                 PROVE  proc'[c[i]].pc = "wait" /\ proc'[c[i + 1]].parent = c[i]
      OBVIOUS
    <3>1. i \in 1..n /\ i + 1 \in 1..n OBVIOUS
    <3> QED BY <2>3, <3>1 DEF Line
  <2>8. Line(n, c)' BY <2>2, <2>4, <2>6, <2>7 DEF Line, InLine
  <2>9. Pipes(n, c)' BY <1>p, EndFacts, PipesKept DEF Alike
  <2> QED BY <2>8, <2>9 DEF InOrder
<1> QED BY <1>1, <1>2, <1>3

(* At first one shell is at its prompt.                                     *)
LEMMA InitOrder == Init => TypeInv /\ InOrder
<1> SUFFICES ASSUME Init PROVE TypeInv /\ InOrder OBVIOUS
<1> DEFINE s == [Nobody EXCEPT !.pc = "prompt"]
<1>1. /\ Nobody.in = Tty /\ Nobody.out = Tty /\ Nobody.ends = {} /\ Nobody.pc = "none"
      /\ Nobody.parent = Host
  BY DEF Nobody
<1>2. /\ s \in Process /\ Sound(s) /\ s.in = Tty /\ s.out = Tty /\ s.ends = {}
      /\ s.pc = "prompt" /\ s.parent = Host
  <2>1. s \in Process /\ Sound(s) BY NobodyType, PcType
  <2> QED BY <2>1 DEF Nobody
<1>3. Sound(Nobody) BY NobodyType DEF Sound, BothEnds, Nobody
<1>4. proc = [p \in Proc |-> IF p = Root THEN s ELSE Nobody] BY DEF Init
<1> HIDE DEF s
<1>5. TypeInv
  <2>1. proc \in [Proc -> Process] /\ \A p \in Proc : Sound(proc[p])
    BY <1>2, <1>3, <1>4, NobodyType
  <2>2. buf \in [Proc -> 0..Cap] /\ typed \in 0..MaxTyped /\ strayed \in BOOLEAN
    <3>1. 0 \in 0..Cap /\ 0 \in 0..MaxTyped OBVIOUS
    <3> QED BY <3>1 DEF Init
  <2> QED BY <2>1, <2>2 DEF TypeInv, TypeOK, Sound, Named
<1> DEFINE c == [i \in 1..1 |-> Root]
<1>6. c \in [1..1 -> Proc] BY ProcFacts
<1>7. \A p \in Proc : /\ proc[p].in \notin Proc /\ proc[p].out \notin Proc /\ proc[p].ends = {}
                      /\ proc[p].pc = IF p = Root THEN "prompt" ELSE "none"
                      /\ proc[p].parent = Host
  BY <1>1, <1>2, <1>4, ProcFacts
<1>8. c[1] = Root /\ \A i \in 1..1 : i = 1 OBVIOUS
<1> HIDE DEF c
<1>9. Line(1, c)
  <2>1. \A p \in Proc : proc[p].pc # "none" => InLine(1, c, p) BY <1>7, <1>8 DEF InLine
  <2>2. \A i \in 1..1-1 : FALSE OBVIOUS
  <2> QED BY <1>7, <1>8, <2>1, <2>2, ProcFacts DEF Line
<1>10. Pipes(1, c)
  <2>1. \A p \in Proc : EndsOK(1, c, p) BY <1>7 DEF EndsOK
  <2>2. \A p, r \in Proc : ~HeadOf(p, r) BY <1>7 DEF HeadOf
  <2> QED BY <2>1, <2>2 DEF Pipes
<1> QED BY <1>5, <1>6, <1>9, <1>10 DEF InOrder

(* The shell that forks goes on to wait, and its child is the last in line. *)
LEMMA ForkKeeps ==
  ASSUME TypeInv, NEW n \in Nat, NEW c \in [1..n -> Proc], Line(n, c), Pipes(n, c),
         NEW p \in Proc, proc[p].pc = "prompt", NEW m \in Proc, proc[m].pc = "none",
         Readers(m) = {}, Writers(m) = {}, NEW g \in Command,
         proc' = [proc EXCEPT ![m] = Child(p, g), ![p].pc = "wait"]
  PROVE  InOrder'
<1>t. proc \in [Proc -> Process] BY TypeInvFacts
<1>1. InLine(n, c, p) /\ n > 0 /\ n \in 1..n /\ p = c[n]
  <2>1. InLine(n, c, p) BY DEF Line
  <2> QED BY <2>1, LastOfLine
<1>2. \A i \in 1..n : c[i] # m
  <2> SUFFICES ASSUME NEW i \in 1..n, c[i] = m PROVE FALSE OBVIOUS
  <2>1. InLine(n, c, m) BY DEF InLine
  <2> QED BY <2>1, LastOfLine
<1>3. proc[p].in \notin Proc /\ proc[p].out \notin Proc /\ proc[p].ends = {}
  BY DEF Pipes, EndsOK
<1>4. /\ proc'[m].pc = "child" /\ proc'[m].parent = p /\ proc'[m].in = proc[p].in
      /\ proc'[m].out = proc[p].out /\ proc'[m].ends = {}
  <2>1. proc'[m] = Child(p, g) BY <1>t
  <2> QED BY <1>t, <1>3, <2>1 DEF Child, Process
<1>5. /\ proc'[p].pc = "wait" /\ proc'[p].parent = proc[p].parent /\ proc'[p].in = proc[p].in
      /\ proc'[p].out = proc[p].out /\ proc'[p].ends = {}
  <2>1. proc'[p] = [proc[p] EXCEPT !.pc = "wait"] BY <1>t
  <2> QED BY <1>t, <1>3, <2>1 DEF Process
<1>6. \A x \in Proc \ {m, p} : proc'[x] = proc[x] BY <1>t
<1> DEFINE c2 == [i \in 1..n + 1 |-> IF i <= n THEN c[i] ELSE m]
<1>7. c2 \in [1..n + 1 -> Proc] OBVIOUS
<1>8. (\A i \in 1..n : c2[i] = c[i]) /\ c2[n + 1] = m OBVIOUS
<1>9. n + 1 \in Nat /\ n + 1 > 0 /\ (\A i \in 1..n + 1 : i \in 1..n \/ i = n + 1) OBVIOUS
<1> HIDE DEF c2
<1>10. \A x \in Proc : InLine(n, c, x) => InLine(n + 1, c2, x)
  <2> SUFFICES ASSUME NEW x \in Proc, NEW i \in 1..n, c[i] = x PROVE InLine(n + 1, c2, x)
    BY DEF InLine
  <2>1. i \in 1..n + 1 OBVIOUS
  <2> QED BY <1>8, <2>1 DEF InLine
<1>11. InLine(n + 1, c2, m)
  <2>1. n + 1 \in 1..n + 1 OBVIOUS
  <2> QED BY <1>8, <2>1 DEF InLine
<1>12. Line(n + 1, c2)'
  <2>1. \A i, j \in 1..n + 1 : c2[i] = c2[j] => i = j BY <1>2, <1>8, <1>9 DEF Line
  <2>2. c2[1] = Root /\ proc'[Root].parent = Host
    <3>1. 1 \in 1..n BY <1>1
    <3>2. c[1] = Root /\ proc[Root].parent = Host BY <1>1 DEF Line
    <3>3. Root # m BY <1>2, <3>1, <3>2
    <3> QED BY <1>5, <1>6, <1>8, <3>1, <3>2, <3>3, ProcFacts
  <2>3. proc'[c2[n + 1]].pc \in {"prompt", "child", "tail", "run", "zombie"} BY <1>4, <1>8
  <2>4. ASSUME NEW i \in 1..n
        PROVE  proc'[c2[i]].pc = "wait" /\ proc'[c2[i + 1]].parent = c2[i]
    <3>1. CASE i = n BY <1>1, <1>4, <1>5, <1>8, <3>1
    <3>2. CASE i # n
      <4>1. i \in 1..n-1 /\ i + 1 \in 1..n BY <3>2
      <4>2. proc[c[i]].pc = "wait" /\ proc[c[i + 1]].parent = c[i] BY <4>1 DEF Line
      <4>3. c[i] # p /\ c[i] \in Proc \ {m, p} BY <1>2, <4>2
      <4>4. proc'[c[i]].pc = "wait" BY <1>6, <4>2, <4>3
      <4>5. c[i + 1] \in Proc \ {m} BY <1>2, <4>1
      <4>6. proc'[c[i + 1]].parent = proc[c[i + 1]].parent BY <1>5, <1>6, <4>5
      <4> QED BY <1>8, <4>1, <4>2, <4>4, <4>6
    <3> QED BY <3>1, <3>2
  <2>5. \A x \in Proc : proc'[x].pc \in {"prompt", "wait", "child", "tail"} => InLine(n + 1, c2, x)
    BY <1>1, <1>6, <1>10, <1>11 DEF Line
  <2>6. ASSUME NEW x \in Proc, proc'[x].parent \in Proc, ~InLine(n + 1, c2, x) PROVE FALSE
    <3>1. x # m /\ x # p /\ ~InLine(n, c, x) BY <1>1, <1>10, <1>11, <2>6
    <3>2. proc[x].parent \in Proc BY <1>6, <2>6, <3>1
    <3> QED BY <1>1, <3>1, <3>2 DEF Line
  <2>7. \A i \in 1..(n + 1)-1 : i \in 1..n OBVIOUS
  <2> QED BY <2>1, <2>2, <2>3, <2>4, <2>5, <2>6, <2>7 DEF Line, InLine
<1>13. Pipes(n + 1, c2)'
  <2>1. \A x \in Proc : proc[x].in \in Proc => InLine(n + 1, c2, x)
    BY <1>10 DEF Pipes, EndsOK
  <2>2. Fresh(m) BY <1>3, <1>4 DEF Fresh
  <2>3. Plain(p) BY <1>3, <1>5 DEF Plain
  <2> QED BY <1>6, <2>1, <2>2, <2>3, PipesKept DEF Alike
<1> QED BY <1>7, <1>9, <1>12, <1>13 DEF InOrder

(* The shell that waited for the last in line is the last itself.           *)
LEMMA WaitKeeps ==
  ASSUME TypeInv, NEW n \in Nat, NEW c \in [1..n -> Proc], Line(n, c), Pipes(n, c),
         NEW p \in Proc, proc[p].pc = "wait",
         NEW z \in Proc, proc[z].pc = "zombie", proc[z].parent = p,
         proc' = [proc EXCEPT ![z] = Nobody, ![p].pc = "prompt"]
  PROVE  InOrder'
<1>t. proc \in [Proc -> Process] BY TypeInvFacts
<1>1. InLine(n, c, p) BY DEF Line
<1>2. n > 0 /\ n \in 1..n /\ p # c[n] BY <1>1, LastOfLine
<1>3. InLine(n, c, z)
  <2> SUFFICES ASSUME ~InLine(n, c, z) PROVE FALSE OBVIOUS
  <2> QED BY <1>2 DEF Line
<1>4. z = c[n] BY <1>3, LastOfLine
<1>5. PICK i \in 1..n-1 : p = c[i] /\ z = c[i + 1]
  <2>1. proc[z].parent \in Proc OBVIOUS
  <2>2. \E i \in 1..n-1 : proc[z].parent = c[i] /\ z = c[i + 1] BY <1>3, <2>1, LastOfLine
  <2> QED BY <2>2
<1>6. i + 1 = n /\ n - 1 \in Nat /\ n - 1 > 0 /\ n - 1 \in 1..n /\ p = c[n - 1]
  <2>1. i + 1 \in 1..n OBVIOUS
  <2>2. i + 1 = n BY <1>2, <1>4, <1>5, <2>1 DEF Line
  <2> QED BY <1>5, <2>2
<1>7. proc[p].in \notin Proc /\ proc[p].out \notin Proc /\ proc[p].ends = {}
  BY DEF Pipes, EndsOK
<1>8. /\ proc'[p].pc = "prompt" /\ proc'[p].parent = proc[p].parent /\ proc'[p].in = proc[p].in
      /\ proc'[p].out = proc[p].out /\ proc'[p].ends = {}
  <2>1. proc'[p] = [proc[p] EXCEPT !.pc = "prompt"] BY <1>t, <1>2, <1>4
  <2> QED BY <1>t, <1>7, <2>1 DEF Process
<1>9. /\ proc'[z].pc = "none" /\ proc'[z].parent = Host /\ proc'[z].in = Tty
      /\ proc'[z].out = Tty /\ proc'[z].ends = {}
  BY <1>t, <1>2, <1>4 DEF Nobody
<1>10. \A x \in Proc \ {z, p} : proc'[x] = proc[x] BY <1>t
<1> DEFINE c2 == [j \in 1..n-1 |-> c[j]]
<1>11. c2 \in [1..n-1 -> Proc] OBVIOUS
<1>12. \A j \in 1..n-1 : c2[j] = c[j] /\ j \in 1..n /\ j # n OBVIOUS
<1> HIDE DEF c2
<1>13. \A x \in Proc : InLine(n, c, x) => x = z \/ InLine(n-1, c2, x)
  <2> SUFFICES ASSUME NEW x \in Proc, NEW j \in 1..n, c[j] = x, x # z PROVE InLine(n-1, c2, x)
    BY DEF InLine
  <2>1. j # n BY <1>4
  <2>2. j \in 1..n-1 BY <2>1
  <2> QED BY <1>12, <2>2 DEF InLine
<1>14. n-1 \in 1..n-1 /\ 1 \in 1..n-1 BY <1>6
<1>15. c2[n-1] = p BY <1>6, <1>12, <1>14
<1>16. \A j \in 1..n-1 : c[j] # z BY <1>2, <1>4, <1>12 DEF Line
<1>17. Line(n-1, c2)'
  <2>1. \A j, k \in 1..n-1 : c2[j] = c2[k] => j = k BY <1>12 DEF Line
  <2>2. c2[1] = Root /\ proc'[Root].parent = Host
    <3>1. c[1] = Root /\ proc[Root].parent = Host BY <1>2 DEF Line
    <3>2. Root # z BY <1>14, <1>16, <3>1
    <3>3. proc'[Root].parent = proc[Root].parent BY <1>8, <1>10, <3>2, ProcFacts
    <3>4. c2[1] = c[1] BY <1>12, <1>14
    <3> QED BY <3>1, <3>3, <3>4
  <2>3. proc'[c2[n-1]].pc \in {"prompt", "child", "tail", "run", "zombie"} BY <1>8, <1>15
  <2>4. ASSUME NEW j \in 1..(n-1)-1
        PROVE  proc'[c2[j]].pc = "wait" /\ proc'[c2[j + 1]].parent = c2[j]
    <3>1. j \in 1..n-1 /\ j + 1 \in 1..n-1 /\ j # n - 1 OBVIOUS
    <3>2. proc[c[j]].pc = "wait" /\ proc[c[j + 1]].parent = c[j] BY <3>1 DEF Line
    <3>3. c[j] # p BY <1>6, <1>12, <3>1 DEF Line
    <3>4. c[j] # z /\ c[j + 1] # z BY <1>16, <3>1
    <3>5. c[j] \in Proc \ {z, p} /\ c[j + 1] \in Proc \ {z} BY <1>12, <3>1, <3>3, <3>4
    <3>6. proc'[c[j]].pc = "wait" BY <1>10, <3>2, <3>5
    <3>7. proc'[c[j + 1]].parent = proc[c[j + 1]].parent BY <1>8, <1>10, <3>5
    <3>8. c2[j] = c[j] /\ c2[j + 1] = c[j + 1] BY <1>12, <3>1
    <3> QED BY <3>2, <3>6, <3>7, <3>8
  <2>5. \A x \in Proc : proc'[x].pc \in {"prompt", "wait", "child", "tail"} => InLine(n-1, c2, x)
    BY <1>1, <1>2, <1>4, <1>9, <1>10, <1>13 DEF Line
  <2>6. ASSUME NEW x \in Proc, proc'[x].parent \in Proc, ~InLine(n-1, c2, x) PROVE FALSE
    <3>1. x # z BY <1>9, <2>6, ProcFacts
    <3>2. ~InLine(n, c, x) /\ x # p BY <1>1, <1>13, <2>6, <3>1
    <3>3. proc[x].parent \in Proc BY <1>10, <2>6, <3>1, <3>2
    <3> QED BY <1>4, <3>2, <3>3 DEF Line
  <2> QED BY <2>1, <2>2, <2>3, <2>4, <2>5, <2>6 DEF Line, InLine
<1>18. Pipes(n-1, c2)'
  <2>1. \A x \in Proc \ {z} : proc[x].in \in Proc => InLine(n-1, c2, x)
    BY <1>13 DEF Pipes, EndsOK
  <2>2. Plain(p) /\ Plain(z) BY <1>7, <1>8, <1>9, ProcFacts DEF Plain
  <2> QED BY <1>10, <2>1, <2>2, PipesKept DEF Alike
<1> QED BY <1>6, <1>11, <1>17, <1>18 DEF InOrder

(* The child of a shell runs its one program, is a shell itself, or ends.   *)
LEMMA SimpleKeeps ==
  ASSUME TypeInv, NEW n \in Nat, NEW c \in [1..n -> Proc], Line(n, c), Pipes(n, c),
         NEW p \in Proc, Simple(p)
  PROVE  InOrder'
<1>t. proc \in [Proc -> Process] BY TypeInvFacts
<1>1. proc[p].pc = "child" /\ RunProgram(p, proc[p], FALSE) BY DEF Simple
<1>2. \/ Became(p, proc[p], "run") \/ Became(p, proc[p], "prompt") \/ End(p)
  BY <1>t, <1>1, RunFacts
<1>3. CASE End(p) BY <1>1, <1>3, EndKeeps
<1>4. ASSUME NEW pc \in {"run", "prompt"}, Became(p, proc[p], pc) PROVE InOrder'
  <2>1. /\ proc'[p].pc = pc /\ proc'[p].parent = proc[p].parent /\ proc'[p].ends = proc[p].ends
        /\ proc'[p].in \in {proc[p].in, File} /\ proc'[p].out \in {proc[p].out, File}
        /\ \A x \in Proc \ {p} : proc'[x] = proc[x]
    BY <1>t, <1>4 DEF Became
  <2>2. Line(n, c)' BY <1>1, <2>1, LineKept
  <2>3. Pipes(n, c)'
    <3>1. proc[p].in \notin Proc /\ proc[p].out \notin Proc /\ proc[p].ends = {}
      BY <1>1 DEF Pipes, EndsOK
    <3>2. Plain(p) BY <2>1, <3>1, ProcFacts DEF Plain
    <3>3. \A x \in Proc \ {p} : Alike(x) /\ (proc[x].in \in Proc => InLine(n, c, x))
      BY <2>1 DEF Alike, Pipes, EndsOK
    <3> QED BY <3>2, <3>3, PipesKept
  <2> QED BY <2>2, <2>3 DEF InOrder
<1> QED BY <1>2, <1>3, <1>4

(* The head of a pipe keeps the end it writes to, or ends.                  *)
LEMMA HeadKeeps ==
  ASSUME TypeInv, NEW n \in Nat, NEW c \in [1..n -> Proc], Line(n, c), Pipes(n, c),
         NEW p \in Proc, PipeHead(p), ~strayed'
  PROVE  InOrder'
<1>t. proc \in [Proc -> Process] BY TypeInvFacts
<1>1. proc[p].pc = "head" /\ RunProgram(p, AsHead(p), TRUE) BY DEF PipeHead
<1>2. PICK q \in Proc : proc[p].ends = {q} \X {"r", "w"} BY <1>1 DEF Pipes, EndsOK
<1>3. PipeOf(p) = q /\ AsHead(p) \in Process BY <1>2, SidesType
<1>4. Became(p, AsHead(p), "run") \/ End(p) BY <1>1, <1>3, RunFacts
<1>5. CASE End(p) BY <1>1, <1>5, EndKeeps
<1>6. CASE Became(p, AsHead(p), "run")
  <2>1. /\ AsHead(p).parent = proc[p].parent /\ AsHead(p).ends = {}
        /\ AsHead(p).in = proc[p].in /\ AsHead(p).out = q
    BY <1>t, <1>3 DEF AsHead, Process
  <2>2. /\ proc'[p].pc = "run" /\ proc'[p].parent = proc[p].parent /\ proc'[p].ends = {}
        /\ proc'[p].in \in {proc[p].in, File} /\ proc'[p].out \in {q, File}
        /\ \A x \in Proc \ {p} : proc'[x] = proc[x]
    BY <1>t, <1>6, <2>1 DEF Became
  <2>3. Line(n, c)' BY <1>1, <2>2, LineKept
  <2>4. Pipes(n, c)'
    <3>1. proc[p].in \notin Proc /\ <<q, "w">> \in proc[p].ends BY <1>1, <1>2 DEF Pipes, EndsOK
    <3>2. HeadRuns(p) BY <1>1, <2>2, <3>1, ProcFacts DEF HeadRuns
    <3>3. \A x \in Proc \ {p} : Alike(x) /\ (proc[x].in \in Proc => InLine(n, c, x))
      BY <2>2 DEF Alike, Pipes, EndsOK
    <3> QED BY <3>2, <3>3, PipesKept
  <2> QED BY <2>3, <2>4 DEF InOrder
<1> QED BY <1>4, <1>5, <1>6

(* The tail of a pipe keeps the end it reads from, or ends.                 *)
LEMMA TailKeeps ==
  ASSUME TypeInv, NEW n \in Nat, NEW c \in [1..n -> Proc], Line(n, c), Pipes(n, c),
         NEW p \in Proc, PipeTail(p), ~strayed'
  PROVE  InOrder'
<1>t. proc \in [Proc -> Process] BY TypeInvFacts
<1>1. proc[p].pc = "tail" /\ RunProgram(p, AsTail(p), TRUE) BY DEF PipeTail
<1>2. proc[p].ends = {p} \X {"r", "w"} BY <1>1 DEF Pipes, EndsOK
<1>3. PipeOf(p) = p /\ AsTail(p) \in Process BY <1>2, SidesType
<1>4. Became(p, AsTail(p), "run") \/ End(p) BY <1>1, <1>3, RunFacts
<1>5. CASE End(p) BY <1>1, <1>5, EndKeeps
<1>6. CASE Became(p, AsTail(p), "run")
  <2>1. /\ AsTail(p).parent = proc[p].parent /\ AsTail(p).ends = {}
        /\ AsTail(p).in = p /\ AsTail(p).out = proc[p].out
    BY <1>t, <1>3 DEF AsTail, Process
  <2>2. /\ proc'[p].pc = "run" /\ proc'[p].parent = proc[p].parent /\ proc'[p].ends = {}
        /\ proc'[p].in \in {p, File} /\ proc'[p].out \in {proc[p].out, File}
        /\ \A x \in Proc \ {p} : proc'[x] = proc[x]
    BY <1>t, <1>6, <2>1 DEF Became
  <2>3. Line(n, c)' BY <1>1, <2>2, LineKept
  <2>4. Pipes(n, c)'
    <3>1. proc[p].out \notin Proc /\ InLine(n, c, p) BY <1>1 DEF Pipes, EndsOK, Line
    <3>2. TailRuns(p) BY <1>1, <2>2, <3>1, ProcFacts DEF TailRuns
    <3>3. \A x \in Proc \ {p} : Alike(x) /\ (proc[x].in \in Proc => InLine(n, c, x))
      BY <2>2 DEF Alike, Pipes, EndsOK
    <3> QED BY <3>1, <3>2, <3>3, PipesKept
  <2> QED BY <2>3, <2>4 DEF InOrder
<1> QED BY <1>4, <1>5, <1>6

(* A child cuts its line at the |: both sides (M is the head, or nobody if  *)
(* the host has no process left) have both ends of a pipe nobody else has.  *)
LEMMA CutKeeps ==
  ASSUME TypeInv, NEW n \in Nat, NEW c \in [1..n -> Proc], Line(n, c), Pipes(n, c),
         NEW p \in Proc, proc[p].pc = "child", NEW M \in SUBSET Proc, \A x, y \in M : x = y,
         \A m \in M : /\ proc[m].pc = "none" /\ proc'[m].pc = "head" /\ proc'[m].parent = p
                      /\ proc'[m].in = proc[p].in /\ proc'[m].out = proc[p].out
                      /\ proc'[m].ends = {p} \X {"r", "w"},
         /\ proc'[p].pc = "tail" /\ proc'[p].parent = proc[p].parent
         /\ proc'[p].in = proc[p].in /\ proc'[p].out = proc[p].out
         /\ proc'[p].ends = {p} \X {"r", "w"},
         \A x \in Proc \ (M \cup {p}) : proc'[x] = proc[x]
  PROVE  InOrder'
<1>1. InLine(n, c, p) /\ n > 0 /\ n \in 1..n /\ p = c[n]
  <2>1. InLine(n, c, p) BY DEF Line
  <2> QED BY <2>1, LastOfLine
<1>2. \A m \in M : ~InLine(n, c, m) BY LastOfLine
<1>3. \A i \in 1..n : c[i] \notin M BY <1>2 DEF InLine
<1>4. \A x \in Proc \ M : proc'[x].parent = proc[x].parent /\ (x # p => proc'[x] = proc[x])
  OBVIOUS
<1>5. Line(n, c)'
  <2>1. c[1] = Root /\ proc'[Root].parent = Host
    <3>1. 1 \in 1..n /\ c[1] = Root /\ proc[Root].parent = Host BY <1>1 DEF Line
    <3>2. Root \in Proc \ M BY <1>3, <3>1, ProcFacts
    <3> QED BY <1>4, <3>1, <3>2
  <2>2. proc'[c[n]].pc = "tail" BY <1>1
  <2>3. \A i \in 1..n-1 : proc'[c[i]].pc = "wait" /\ proc'[c[i + 1]].parent = c[i]
    <3> SUFFICES ASSUME NEW i \in 1..n-1
                 PROVE  proc'[c[i]].pc = "wait" /\ proc'[c[i + 1]].parent = c[i]
      OBVIOUS
    <3>1. i \in 1..n /\ i + 1 \in 1..n OBVIOUS
    <3>2. proc[c[i]].pc = "wait" /\ proc[c[i + 1]].parent = c[i] BY DEF Line
    <3>3. c[i] # p /\ c[i] \in Proc \ M /\ c[i + 1] \in Proc \ M BY <1>3, <3>1, <3>2
    <3> QED BY <1>4, <3>2, <3>3
  <2>4. \A x \in Proc : proc'[x].pc \in {"prompt", "wait", "child", "tail"} => InLine(n, c, x)
    BY <1>1, <1>4 DEF Line
  <2>5. ASSUME NEW x \in Proc, proc'[x].parent \in Proc, ~InLine(n, c, x)
        PROVE  proc'[x].parent = c[n]
    <3>1. CASE x \in M BY <1>1, <3>1
    <3>2. CASE x \notin M
      <4>1. proc[x].parent \in Proc BY <1>4, <2>5, <3>2
      <4> QED BY <1>1, <2>5, <4>1 DEF Line
    <3> QED BY <3>1, <3>2
  <2>6. \A i, j \in 1..n : c[i] = c[j] => i = j BY DEF Line
  <2> QED BY <1>1, <2>1, <2>2, <2>3, <2>4, <2>5, <2>6 DEF Line, InLine
<1>6. \A x \in Proc : EndsOK(n, c, x) BY DEF Pipes
<1>7. proc[p].in \notin Proc /\ proc[p].out \notin Proc /\ Writers(p) = {}
  BY <1>6 DEF EndsOK
<1>8. ASSUME NEW x \in Proc PROVE EndsOK(n, c, x)'
  <2>1. CASE x \in M \cup {p} BY <1>7, <2>1 DEF EndsOK
  <2>2. CASE x \notin M \cup {p}
    <3>1. proc'[x] = proc[x] BY <2>2
    <3>2. proc[x].pc # "child"
      <4> SUFFICES ASSUME proc[x].pc = "child" PROVE FALSE OBVIOUS
      <4>1. InLine(n, c, x) BY DEF Line
      <4>2. x = c[n] BY <4>1, LastOfLine
      <4> QED BY <1>1, <2>2, <4>2
    <3> QED BY <1>6, <3>1, <3>2 DEF EndsOK, InLine
  <2> QED BY <2>1, <2>2
<1>9. ASSUME NEW x \in Proc, NEW r \in Proc, HeadOf(x, r)'
      PROVE  (x \in M /\ r = p) \/ (r # p /\ HeadOf(x, r))
  <2>1. CASE x \in M
    <3>1. proc'[x].pc = "head" /\ proc'[x].ends = {p} \X {"r", "w"} BY <2>1
    <3>2. <<r, "w">> \in {p} \X {"r", "w"} BY <1>9, <3>1 DEF HeadOf
    <3> QED BY <2>1, <3>2
  <2>2. CASE x = p BY <1>9, <2>2 DEF HeadOf
  <2>3. CASE x \notin M \cup {p}
    <3>1. HeadOf(x, r) BY <1>9, <2>3 DEF HeadOf
    <3>2. x \notin Writers(p) BY <1>7
    <3>3. r # p BY <3>1, <3>2 DEF HeadOf, Writers
    <3> QED BY <3>1, <3>3
  <2> QED BY <2>1, <2>2, <2>3
<1>10. \A x, y, r \in Proc : HeadOf(x, r)' /\ HeadOf(y, r)' => x = y
  BY <1>9 DEF Pipes
<1>11. Pipes(n, c)' BY <1>8, <1>10 DEF Pipes
<1> QED BY <1>5, <1>11 DEF InOrder

(* CutKeeps covers NewPipe, with a head and without one.                    *)
LEMMA NewPipeKeeps ==
  ASSUME TypeInv, NEW n \in Nat, NEW c \in [1..n -> Proc], Line(n, c), Pipes(n, c),
         NEW p \in Proc, NewPipe(p)
  PROVE  InOrder'
<1>t. proc \in [Proc -> Process] BY TypeInvFacts
<1> DEFINE d == [proc[p] EXCEPT !.ends = {p} \X {"r", "w"}]
           tail == [d EXCEPT !.pc = "tail", !.cmd = TailOf(d.cmd)]
           head == [d EXCEPT !.pc = "head", !.cmd = <<Head(d.cmd)>>, !.parent = p]
<1>1. proc[p].pc = "child" BY DEF NewPipe
<1>2. /\ tail.pc = "tail" /\ tail.parent = proc[p].parent
      /\ tail.in = proc[p].in /\ tail.out = proc[p].out /\ tail.ends = {p} \X {"r", "w"}
  BY <1>t DEF Process
<1>3. /\ head.pc = "head" /\ head.parent = p
      /\ head.in = proc[p].in /\ head.out = proc[p].out /\ head.ends = {p} \X {"r", "w"}
  BY <1>t DEF Process
<1>4. \/ Free = {} /\ proc' = [proc EXCEPT ![p] = tail]
      \/ Free # {} /\ proc' = [proc EXCEPT ![p] = tail, ![NewProc] = head]
  BY DEF NewPipe
<1> HIDE DEF d, tail, head
<1>5. CASE proc' = [proc EXCEPT ![p] = tail]
  <2>1. proc'[p] = tail /\ \A x \in Proc \ {p} : proc'[x] = proc[x] BY <1>t, <1>5
  <2> DEFINE M == {}
  <2>2. M \in SUBSET Proc /\ \A x \in M : FALSE OBVIOUS
  <2>3. \A x \in Proc \ (M \cup {p}) : proc'[x] = proc[x] BY <2>1
  <2> HIDE DEF M
  <2> QED BY <1>1, <1>2, <2>1, <2>2, <2>3, CutKeeps
<1>6. CASE Free # {} /\ proc' = [proc EXCEPT ![p] = tail, ![NewProc] = head]
  <2>1. PICK m \in Proc : m = NewProc /\ proc[m].pc = "none" BY <1>6, NewProcFree
  <2>2. m # p /\ proc' = [proc EXCEPT ![p] = tail, ![m] = head] BY <1>1, <1>6, <2>1
  <2>3. proc'[p] = tail /\ proc'[m] = head /\ \A x \in Proc \ {m, p} : proc'[x] = proc[x]
    BY <1>t, <2>2
  <2> DEFINE M == {m}
  <2>4. M \in SUBSET Proc /\ m \in M /\ (\A x \in M : x = m) OBVIOUS
  <2>5. \A x \in Proc \ (M \cup {p}) : proc'[x] = proc[x] BY <2>3
  <2>6. \A x, y \in M : x = y BY <2>4
  <2> HIDE DEF M
  <2>7. \A x \in M : /\ proc[x].pc = "none" /\ proc'[x].pc = "head" /\ proc'[x].parent = p
                     /\ proc'[x].in = proc[p].in /\ proc'[x].out = proc[p].out
                     /\ proc'[x].ends = {p} \X {"r", "w"}
    BY <1>3, <2>1, <2>3, <2>4
  <2>8. /\ proc'[p].pc = "tail" /\ proc'[p].parent = proc[p].parent
        /\ proc'[p].in = proc[p].in /\ proc'[p].out = proc[p].out
        /\ proc'[p].ends = {p} \X {"r", "w"}
    BY <1>2, <2>3
  <2> QED BY <1>1, <2>4, <2>5, <2>6, <2>7, <2>8, CutKeeps
<1> QED BY <1>4, <1>5, <1>6

(* A program that has written a line is what it was, or it has ended.       *)
LEMMA WriteKeeps ==
  ASSUME TypeInv, NEW n \in Nat, NEW c \in [1..n -> Proc], Line(n, c), Pipes(n, c),
         NEW p \in Proc, Write(p)
  PROVE  InOrder'
<1>t. proc \in [Proc -> Process] BY TypeInvFacts
<1>1. proc[p].pc = "run" /\ (End(p) \/ proc' = [proc EXCEPT ![p].left = @ - 1]) BY DEF Write
<1>2. CASE End(p) BY <1>1, <1>2, EndKeeps
<1>3. CASE proc' = [proc EXCEPT ![p].left = @ - 1]
  <2>1. proc'[p].parent = proc[p].parent /\ Alike(p) BY <1>t, <1>3 DEF Process, Alike
  <2>2. \A x \in Proc \ {p} : proc'[x] = proc[x] BY <1>t, <1>3
  <2>3. \A x \in Proc : proc'[x].parent = proc[x].parent /\ Alike(x) BY <2>1, <2>2 DEF Alike
  <2>4. Line(n, c)' BY <2>3, LineKept DEF Alike
  <2>5. Pipes(n, c)'
    <3>1. \A x \in Proc : proc[x].in \in Proc => InLine(n, c, x) BY DEF Pipes, EndsOK
    <3> QED BY <2>3, <3>1, PipesKept
  <2> QED BY <2>4, <2>5 DEF InOrder
<1> QED BY <1>1, <1>2, <1>3

(* Every step by which no process of a pipe becomes a shell keeps the       *)
(* order.                                                                   *)
LEMMA StepOrder ==
  ASSUME TypeInv, NEW n \in Nat, NEW c \in [1..n -> Proc], Line(n, c), Pipes(n, c),
         [Next]_vars, ~strayed'
  PROVE  InOrder'
<1>1. CASE UNCHANGED proc
  <2>1. Line(n, c)' /\ Pipes(n, c)'
    BY <1>1 DEF Line, Pipes, EndsOK, HeadOf, InLine, Readers, Writers
  <2> QED BY <2>1 DEF InOrder
<1>2. ASSUME NEW p \in Proc, Exit(p) \/ EmptyLine(p) PROVE InOrder'
  <2>1. proc[p].pc = "prompt" /\ End(p) BY <1>2 DEF Exit, EmptyLine, ReadLine
  <2> QED BY <2>1, EndKeeps
<1>3. ASSUME NEW p \in Proc, NEW g \in Command, ForkChild(p, g) PROVE InOrder'
  <2>1. proc[p].pc = "prompt" BY <1>3 DEF ForkChild, ReadLine
  <2>2. CASE Free = {}
    <3>1. End(p) BY <1>3, <2>2 DEF ForkChild
    <3> QED BY <2>1, <3>1, EndKeeps
  <2>3. CASE Free # {}
    <3>1. PICK m \in Proc : /\ m = NewProc /\ proc[m].pc = "none"
                            /\ Readers(m) = {} /\ Writers(m) = {}
      BY <2>3, NewProcFree
    <3>2. proc' = [proc EXCEPT ![m] = Child(p, g), ![p].pc = "wait"]
      BY <1>3, <2>3, <3>1 DEF ForkChild
    <3> QED BY <2>1, <3>1, <3>2, ForkKeeps
  <2> QED BY <2>2, <2>3
<1>4. ASSUME NEW p \in Proc, GiveUp(p) \/ Finish(p) PROVE InOrder'
  <2>1. proc[p].pc = "run" /\ End(p) BY <1>4 DEF GiveUp, Finish
  <2> QED BY <2>1, EndKeeps
<1>5. ASSUME NEW p \in Proc, Wait(p) PROVE InOrder'
  <2>1. proc[p].pc = "wait" BY <1>5 DEF Wait
  <2>2. PICK z \in Proc : /\ proc[z].pc = "zombie" /\ proc[z].parent = p
                          /\ proc' = [proc EXCEPT ![z] = Nobody, ![p].pc = "prompt"]
    BY <1>5 DEF Wait
  <2> QED BY <2>1, <2>2, WaitKeeps
<1>6. ASSUME NEW p \in Proc, Read(p) PROVE InOrder' BY <1>1, <1>6 DEF Read
<1>7. CASE Next
  BY <1>2, <1>3, <1>4, <1>5, <1>6, <1>7, SimpleKeeps, NewPipeKeeps, HeadKeeps, TailKeeps,
     WriteKeeps DEF Next, Step
<1> QED BY <1>1, <1>7 DEF vars

(* strayed is a history: it never goes back.                                *)
LEMMA StrayedStays ==
  ASSUME TypeInv, [Next]_vars, ~strayed'
  PROVE  ~strayed
<1>1. ASSUME NEW p \in Proc, NEW d, NEW piped \in BOOLEAN, RunProgram(p, d, piped)
      PROVE  ~strayed
  BY <1>1 DEF RunProgram
<1> QED BY <1>1 DEF Next, Step, vars, Exit, EmptyLine, ForkChild, GiveUp, Wait, Simple, NewPipe,
                    PipeHead, PipeTail, Write, Read, Finish

ShellInv == TypeInv /\ Orderly

(* The order holds in every behaviour: the inductive invariant of this      *)
(* module.                                                                  *)
THEOREM OrderKept == Spec => []ShellInv
<1>1. Init => ShellInv BY InitOrder DEF ShellInv, Orderly
<1>2. ASSUME ShellInv, [Next]_vars PROVE ShellInv'
  <2>1. TypeInv' BY <1>2, StepTypes DEF ShellInv
  <2>2. Orderly'
    <3> SUFFICES ASSUME ~strayed' PROVE InOrder' BY DEF Orderly
    <3>1. TypeInv /\ InOrder BY <1>2, StrayedStays DEF ShellInv, Orderly
    <3>2. PICK n \in Nat : \E c \in [1..n -> Proc] : Line(n, c) /\ Pipes(n, c)
      BY <3>1 DEF InOrder
    <3>3. PICK c \in [1..n -> Proc] : Line(n, c) /\ Pipes(n, c) BY <3>2
    <3> QED BY <1>2, <3>1, <3>3, StepOrder
  <2> QED BY <2>1, <2>2 DEF ShellInv
<1> QED BY <1>1, <1>2, PTL DEF Spec

-----------------------------------------------------------------------------
(* What the order means for the user.                                       *)

(* A shell that reads is the last in line.                                  *)
LEMMA ReaderIsLast ==
  ASSUME NEW n \in Nat, NEW c \in [1..n -> Proc], Line(n, c),
         NEW p \in Proc, proc[p].pc \in {"prompt", "child", "tail"}
  PROVE  n > 0 /\ p = c[n]
<1>1. InLine(n, c, p) BY DEF Line
<1> QED BY <1>1, LastOfLine

(* One line has one last shell.                                             *)
LEMMA OrderOne ==
  ASSUME TypeInv, InOrder
  PROVE  Cardinality(At("prompt")) <= 1
<1>1. PICK n \in Nat : \E c \in [1..n -> Proc] : Line(n, c) /\ Pipes(n, c) BY DEF InOrder
<1>2. PICK c \in [1..n -> Proc] : Line(n, c) BY <1>1
<1>3. \A p \in At("prompt") : p = c[n]
  <2> SUFFICES ASSUME NEW p \in Proc, proc[p].pc = "prompt" PROVE p = c[n] BY DEF At
  <2> QED BY <1>2, ReaderIsLast
<1>4. CASE At("prompt") = {}
  <2>1. Cardinality(At("prompt")) = 0 BY <1>4, FS_EmptySet
  <2> QED BY <2>1
<1>5. CASE At("prompt") # {}
  <2>1. At("prompt") = {c[n]} BY <1>3, <1>5
  <2>2. Cardinality(At("prompt")) = 1 BY <2>1, FS_Singleton
  <2> QED BY <2>2
<1> QED BY <1>4, <1>5

(* Nobody reads a pipe whose head lives on while a shell reads: the tail is *)
(* gone, and the head itself does not have that end.                        *)
LEMMA OrderQuiet ==
  ASSUME TypeInv, InOrder, At("prompt") # {},
         NEW x \in Proc, proc[x].pc \in {"child", "head", "tail", "run"}
  PROVE  /\ proc[x].parent = Host /\ ~IsPipe(proc[x].in)
         /\ IsPipe(proc[x].out) => Readers(proc[x].out) = {}
<1>1. PICK n \in Nat : \E c \in [1..n -> Proc] : Line(n, c) /\ Pipes(n, c) BY DEF InOrder
<1>2. PICK c \in [1..n -> Proc] : Line(n, c) /\ Pipes(n, c) BY <1>1
<1>3. PICK s \in Proc : proc[s].pc = "prompt" BY DEF At
<1>4. n > 0 /\ s = c[n] BY <1>2, <1>3, ReaderIsLast
<1>5. \A y \in Proc : InLine(n, c, y) => proc[y].pc \in {"prompt", "wait"}
  BY <1>2, <1>3, <1>4, LastOfLine
<1>6. ~InLine(n, c, x) BY <1>5
<1>7. proc[x].parent = Host
  <2>1. proc[x].parent \in {Host} \cup Proc BY TypeInvFacts DEF Process
  <2> QED BY <1>2, <1>3, <1>4, <1>6, <2>1 DEF Line
<1>8. \A y \in Proc : proc[y].in \in Proc => InLine(n, c, y) BY <1>2 DEF Pipes, EndsOK
<1>9. \A y \in Proc : EndsOK(n, c, y) BY <1>2 DEF Pipes
<1>10. ASSUME proc[x].out \in Proc, NEW y \in Readers(proc[x].out) PROVE FALSE
  <2> DEFINE q == proc[x].out
  <2>1. HeadOf(x, q)
    <3>1. proc[x].pc = "run" BY <1>9, <1>10 DEF EndsOK
    <3> QED BY <3>1 DEF HeadOf
  <2>2. y \in Proc /\ (proc[y].in = q \/ <<q, "r">> \in proc[y].ends) BY <1>10 DEF Readers
  <2>3. CASE proc[y].in = q
    <3>1. InLine(n, c, y) /\ proc[y].pc = "run" BY <1>8, <1>9, <1>10, <2>2, <2>3 DEF EndsOK
    <3> QED BY <1>5, <2>2, <3>1
  <2>4. CASE <<q, "r">> \in proc[y].ends
    <3>1. proc[y].pc \in {"head", "tail"} BY <1>9, <2>2, <2>4 DEF EndsOK
    <3>2. proc[y].pc # "tail"
      <4> SUFFICES ASSUME proc[y].pc = "tail" PROVE FALSE OBVIOUS
      <4>1. InLine(n, c, y) BY <1>2, <2>2 DEF Line
      <4> QED BY <1>5, <2>2, <4>1
    <3>3. PICK r \in Proc : proc[y].ends = {r} \X {"r", "w"} BY <1>9, <2>2, <3>1, <3>2 DEF EndsOK
    <3>4. r = q BY <2>4, <3>3
    <3>5. HeadOf(y, q) BY <3>1, <3>2, <3>3, <3>4 DEF HeadOf
    <3>6. y = x BY <1>2, <1>10, <2>1, <2>2, <3>5 DEF Pipes
    <3>7. proc[x].pc = "run" BY <1>9, <1>10 DEF EndsOK
    <3> QED BY <3>1, <3>6, <3>7
  <2> QED BY <2>2, <2>3, <2>4
<1> QED BY <1>5, <1>6, <1>7, <1>8, <1>10 DEF IsPipe

(* At most one shell reads from the user at any moment: main waits for the  *)
(* child before it reads again, and a child that becomes a shell is waited  *)
(* for by the one that made it (unless a process of a pipe has).            *)
THEOREM OneShellReads == Spec => []OneReader
<1>1. ShellInv => OneReader BY OrderOne DEF ShellInv, Orderly, TypeInv, OneReader
<1> QED BY <1>1, OrderKept, PTL

(* When a shell reads, the command before it is over, but for a head that   *)
(* writes to nobody: main waits for the tail, which is its child.           *)
THEOREM QuietPrompt == Spec => []Quiet
<1>1. ShellInv => Quiet
  <2> SUFFICES ASSUME TypeInv, InOrder, At("prompt") # {},
                      NEW x \in At("child") \cup At("head") \cup At("tail") \cup At("run")
               PROVE  /\ proc[x].parent = Host /\ ~IsPipe(proc[x].in)
                      /\ IsPipe(proc[x].out) => Readers(proc[x].out) = {}
    BY DEF ShellInv, Orderly, Quiet
  <2>1. x \in Proc /\ proc[x].pc \in {"child", "head", "tail", "run"} BY DEF At
  <2> QED BY <2>1, OrderQuiet
<1> QED BY <1>1, OrderKept, PTL
=============================================================================
