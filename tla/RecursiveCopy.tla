---------------------------- MODULE RecursiveCopy ---------------------------
(***************************************************************************)
(* "4 - myRCP": cp -r on the host's file system (myrcp.c).  A step is one  *)
(* directory entry: readdir gives those there when the directory was       *)
(* opened and perhaps those made since, in any order.  Of a file, it is    *)
(* the truncating open; the file is written in a later step, and what a    *)
(* device without room does not take is lost, for nobody looks at what     *)
(* write returns (a read that fails is tried for ever: the program stays   *)
(* where it is).  A failure ends the program in the middle (exit 1), but   *)
(* for mkdir and symlink, whose results nobody looks at either.  No        *)
(* descriptor is ever closed.                                              *)
(*                                                                         *)
(* A path is its text: a slash before each name as it was typed, from the  *)
(* root, `.' included, and "/" for a slash too many or at the end ("/a/"   *)
(* is <<"a", "/">>, "/" is <<"/">>).  A symbolic link leads to a path      *)
(* without links in its middle.  Left out: `..', hard links, relative      *)
(* paths, permissions, and other programs at work on the same files.       *)
(***************************************************************************)
EXTENDS Integers, SequencesExt, FiniteSetsExt

CONSTANTS
  Trees,      \* file systems: functions from paths to nodes
  Arguments,  \* <<f1, f2>> typed
  MAXFD,      \* descriptors the program may still open
  PATH_MAX    \* names in a path

FileName == STRING \ {".", "/"}
Directory == [kind |-> "dir"]
File(d) == [kind |-> "file", data |-> d]
LinkTo(p) == [kind |-> "link", to |-> p]
NodeOK(n) ==
  \/ n = Directory
  \/ n.kind = "file" /\ n = File(n.data)
  \/ n.kind = "link" /\ n = LinkTo(n.to) /\ n.to \in Seq(FileName)
Node(t, q, kind) == q \in DOMAIN t /\ t[q].kind = kind

(* The root is a directory, and so is whatever has something in it. *)
TreeOK(t) ==
  /\ DOMAIN t \subseteq Seq(FileName) /\ Node(t, <<>>, "dir")
  /\ \A p \in DOMAIN t : NodeOK(t[p]) /\ (p # <<>> => Node(t, Front(p), "dir"))

ASSUME RecursiveCopyAssumption ==
  /\ MAXFD \in Nat /\ PATH_MAX \in Nat
  /\ \A t \in Trees :
       /\ TreeOK(t) /\ IsFiniteSet(DOMAIN t)
       /\ \A p \in DOMAIN t : Len(p) <= PATH_MAX
  /\ \A a \in Arguments : a \in Seq(STRING) \X Seq(STRING) /\ a[1] # <<>> /\ a[2] # <<>>

VARIABLES
  fs,      \* the host's file system
  stack,   \* calls of cpd2d: source, destination, names read, names to read
  writing, \* <<>>, or the file being copied, truncated but not yet written: <<from, to>>
  fds,     \* descriptors open
  status,  \* "start", "running", "done" or "exit"
  typed,   \* <<f1, f2>>
  before,  \* history: fs at the start
  cut,     \* history: files of which the device did not take all that was written
  full     \* history: the device had no room for a new name, at some step

vars == <<fs, stack, writing, fds, status, typed, before, cut, full>>

f1 == typed[1]
f2 == typed[2]

Init ==
  /\ fs \in Trees /\ before = fs /\ typed \in Arguments
  /\ stack = <<>> /\ writing = <<>> /\ fds = 0 /\ status = "start"
  /\ cut = {} /\ full = FALSE

-----------------------------------------------------------------------------
(* The host: the node a path leads to when links are followed in its middle,  *)
(* and at its end as well; lstat, readdir, mkdir, symlink, and whether a path *)
(* may be opened for writing.                                                *)
Follow(t, q) == IF Node(t, q, "link") THEN t[q].to ELSE q
Through(t, q) == Follow(t, Follow(t, q))
Along(t, q, n) ==
  LET y == Through(t, q) IN IF n \notin FileName /\ Node(t, y, "dir") THEN y ELSE Append(y, n)
Real(t, p) == FoldLeft(LAMBDA q, n : Along(t, q, n), <<>>, p)
Final(t, p) == Through(t, Real(t, p))
Is(t, p, kind) == Node(t, Real(t, p), kind)
Exists(t, p) == Real(t, p) \in DOMAIN t
Names(t, p) == {Last(q) : q \in {x \in DOMAIN t : x # <<>> /\ Front(x) = Final(t, p)}}

Addable(t, q, p) ==
  q \notin DOMAIN t /\ q # <<>> /\ Node(t, Front(q), "dir") /\ Len(p) <= PATH_MAX
Made(t, q, p, node) ==
  IF Addable(t, q, p) THEN [x \in DOMAIN t \cup {q} |-> IF x = q THEN node ELSE t[x]] ELSE t

(* The text without the slashes at its end, which mkdir leaves out, and so    *)
(* does basename, in its argument, unless nothing else is there.             *)
Stem(p) == SubSeq(p, 1, Max({0} \cup {k \in DOMAIN p : p[k] # "/"}))
Stripped(p) == IF Stem(p) = <<>> THEN p ELSE Stem(p)
Base(p) == IF Stem(p) = <<>> THEN <<Last(p), Last(p)>> ELSE <<Last(Stem(p))>>

-----------------------------------------------------------------------------
(* What a step works on; `room' says whether the device takes a new name.    *)
Now(room) == [fs |-> fs, stack |-> stack, writing |-> <<>>, fds |-> fds, status |-> "running",
              cut |-> cut, room |-> room]
Becomes(st) ==
  /\ fs' = st.fs /\ stack' = st.stack /\ writing' = st.writing /\ fds' = st.fds
  /\ status' = st.status /\ cut' = st.cut /\ full' = (full \/ ~st.room)
  /\ UNCHANGED <<typed, before>>
Exit(st) == [st EXCEPT !.status = "exit", !.stack = <<>>]
Return(st) == IF st.stack = <<>> THEN [st EXCEPT !.status = "done"] ELSE st

Making(st, q, p, node) == IF st.room THEN [st EXCEPT !.fs = Made(@, q, p, node)] ELSE st
Mkdir(st, p) == Making(st, Real(st.fs, Stem(p)), p, Directory)
Symlink(st, to, p) == Making(st, Real(st.fs, p), p, LinkTo(to))
Writable(st, p) ==
  \/ Node(st.fs, Final(st.fs, p), "file")
  \/ st.room /\ Addable(st.fs, Final(st.fs, p), p)

(* cpf2f: a link is copied as a link to the source; a file is truncated, and  *)
(* will be written, through whatever link is in its place.  Faulty form: the *)
(* two files are never the same.                                             *)
Copy(st, a, b) ==
  LET out == Final(st.fs, b)
  IN [st EXCEPT !.fds = @ + 2, !.writing = <<Real(st.fs, a), out>>,
        !.fs = [x \in DOMAIN @ \cup {out} |-> IF x = out THEN File("empty") ELSE @[x]]]
CpF2FSame(st, a, b) ==
  IF Is(st.fs, a, "link")
  THEN IF Exists(st.fs, b) THEN Exit(st) ELSE Return(Symlink(st, Real(st.fs, a), b))
  ELSE IF ~Writable(st, b) \/ st.fds + 2 > MAXFD THEN Exit(st)
  ELSE Copy(st, a, b)
CpF2F(st, a, b) ==
  IF Exists(st.fs, b) /\ (Real(st.fs, a) = Real(st.fs, b) \/ Is(st.fs, a, "link")) THEN Exit(st)
  ELSE IF Is(st.fs, a, "link") THEN Return(Symlink(st, Real(st.fs, a), b))
  ELSE IF ~Writable(st, b) \/ st.fds + 2 > MAXFD THEN Exit(st)
  ELSE Copy(st, a, b)

(* Its loop of read and write: it finds what the file holds by now (nothing,  *)
(* if that is the file it truncated), and goes on whatever write returns.    *)
Written(text) == Return([Now(TRUE) EXCEPT !.fs[writing[2]] = text])
Short == Return([Now(TRUE) EXCEPT !.fs[writing[2]] = File("cut"), !.cut = @ \cup {writing[2]}])
Write ==
  /\ writing # <<>>
  /\ \/ Becomes(Written(fs[writing[1]]))
     \/ writing[1] # writing[2] /\ Becomes(Short)

(* cpf2d: into the directory, and on into one there of the same name.        *)
Within(p, n, k) == p \o [j \in 1..k |-> n]
Levels(t, p, n) == Min({k \in 0..PATH_MAX+1 : ~Is(t, Within(p, n, k), "dir")})
CpF2D(st, a, b) ==
  LET k == Levels(st.fs, b, Last(a))
  IN IF st.fds + k > MAXFD THEN Exit(st)
     ELSE CpF2F([st EXCEPT !.fds = @ + k], a, Within(b, Last(a), k))

(* cpd2d up to its loop: only the text of the paths tells a directory in      *)
(* itself.  Faulty form: nothing does.                                       *)
Opened(st, a, b) ==
  IF st.fds = MAXFD \/ Len(a) > PATH_MAX THEN Exit(st)
  ELSE [st EXCEPT !.fds = @ + 1,
          !.stack = Append(@, [src |-> a, dst |-> b, seen |-> {}, must |-> Names(st.fs, a)])]
CpD2DInto(st, a, b) == Opened(st, a, b)
CpD2D(st, a, b) == IF IsStrictPrefix(a, b) THEN Exit(st) ELSE Opened(st, a, b)

(* One turn of its loop.  Faulty forms: strcat on dst itself; a mkdir that    *)
(* fails is the end.                                                         *)
Turn(n, room) == [Now(room) EXCEPT !.stack[Len(stack)].seen = @ \cup {n}]
EntryStrcat(top, n, room) ==
  LET a == Append(top.src, n)
      b == Append(top.dst, n)
      st == [Turn(n, room) EXCEPT !.stack[Len(stack)].dst = b]
  IN IF Is(fs, a, "dir") THEN CpD2D(Mkdir(st, b), a, b) ELSE CpF2F(st, a, b)
EntryChecked(top, n, room) ==
  LET a == Append(top.src, n)
      b == Append(top.dst, n)
      st == Turn(n, room)
  IN IF ~Is(fs, a, "dir") THEN CpF2F(st, a, b)
     ELSE IF Exists(fs, b) THEN Exit(st) ELSE CpD2D(Mkdir(st, b), a, b)
Entry(top, n, room) ==
  LET a == Append(top.src, n)
      b == Append(top.dst, n)
      st == Turn(n, room)
  IN IF Is(fs, a, "dir") THEN CpD2D(Mkdir(st, b), a, b) ELSE CpF2F(st, a, b)
ReadEntry ==
  /\ stack # <<>> /\ writing = <<>>
  /\ \E n \in Names(fs, Last(stack).src) \ Last(stack).seen, room \in BOOLEAN :
       Becomes(Entry(Last(stack), n, room))

Returned == Return([Now(TRUE) EXCEPT !.stack = Front(@)])
EndOfDir ==
  /\ stack # <<>> /\ writing = <<>>
  /\ Last(stack).must \subseteq Last(stack).seen /\ Becomes(Returned)

(* myrcp; basename strips the slashes off f1 itself.  *)
From(t) == IF Is(t, f1, "dir") /\ Exists(t, f2) THEN Stripped(f1) ELSE f1
Onto(t) ==
  IF ~Is(t, f1, "dir") THEN Within(f2, Last(f1), Levels(t, f2, Last(f1)))
  ELSE IF Exists(t, f2) THEN f2 \o Base(f1) ELSE f2
MyRcp ==
  /\ status = "start"
  /\ \E room \in BOOLEAN :
       \/ ~Exists(fs, f1) /\ Becomes(Exit(Now(room)))
       \/ Exists(fs, f1) /\ ~Is(fs, f1, "dir") /\ Becomes(CpF2D(Now(room), f1, f2))
       \/ Is(fs, f1, "dir") /\ Exists(fs, f2) /\ ~Is(fs, f2, "dir") /\ Becomes(Exit(Now(room)))
       \/ /\ Is(fs, f1, "dir") /\ (Exists(fs, f2) => Is(fs, f2, "dir"))
          /\ Becomes(CpD2D(Mkdir(Now(room), Onto(fs)), From(fs), Onto(fs)))

Next == MyRcp \/ ReadEntry \/ Write \/ EndOfDir

Spec == Init /\ [][Next]_vars

-----------------------------------------------------------------------------
TypeOK ==
  /\ TreeOK(fs) /\ TreeOK(before)
  /\ \A k \in DOMAIN stack : stack[k].seen \subseteq Names(fs, stack[k].src)
  /\ writing # <<>> =>
       writing = <<writing[1], writing[2]>> /\ \A k \in 1..2 : Node(fs, writing[k], "file")
  /\ fds \in 0..MAXFD /\ status \in {"start", "running", "done", "exit"}
  /\ (stack = <<>> /\ writing = <<>>) = (status # "running")
  /\ cut \subseteq DOMAIN fs /\ full \in BOOLEAN

(* What is copied where, as seen at the start; links and directories in the   *)
(* way of the copy.                                                          *)
S == Real(before, f1)
D == Real(before, IF Is(before, f1, "dir") THEN Stem(Onto(before)) ELSE Onto(before))
Inner == {SubSeq(q, Len(S) + 1, Len(q)) : q \in {x \in DOMAIN before : IsPrefix(S, x)}}
Source(r) == before[S \o r]
Copied(r) == IF Source(r).kind = "link" THEN LinkTo(S \o r) ELSE Source(r)
Links == {q \in DOMAIN before : before[q].kind = "link"}
Linked == \E q \in Links : \E r \in Inner : IsPrefix(q, D \o r)
Beside(p, q) == ~IsPrefix(p, q) /\ ~IsPrefix(q, p)
Overlap == Is(before, f1, "dir") /\ ~Beside(S, D)
Apart == ~Linked /\ ~Overlap

(* What the copy may stop or stumble over. *)
Conflict ==
  \/ Inner = {} \/ S = D
  \/ Is(before, f1, "dir") /\ Exists(before, f2) /\ ~Is(before, f2, "dir")
  \/ Is(before, f1, "dir") /\ IsStrictPrefix(From(before), Onto(before))
  \/ ~Node(before, Front(D), "dir")
  \/ \E r \in Inner :
       \/ D \o r \in DOMAIN before
            /\ (Source(r).kind = "link" \/ Source(r).kind # before[D \o r].kind)
       \/ Len(From(before) \o r) > PATH_MAX \/ Len(Onto(before) \o r) > PATH_MAX
Count(kind) == Cardinality({r \in Inner : Source(r).kind = kind})
Needed ==
  IF Is(before, f1, "dir") THEN Count("dir") + 2 * Count("file")
  ELSE Levels(before, f2, Last(f1)) + 2 * Count("file")

(* At every moment, and where an exit leaves it, each path is as it was or as *)
(* the copy makes it, in whatever order the entries come; all but a file the *)
(* copy makes that is being written, or of which the device did not take all *)
(* (nothing tells: the program goes on).  (And everything is of its type.)   *)
BeingWritten(p) == writing # <<>> /\ p = writing[2]
OldOrNew ==
  /\ TypeOK
  /\ Apart =>
       /\ DOMAIN before \subseteq DOMAIN fs
       /\ \A p \in DOMAIN fs :
            \/ p \in DOMAIN before /\ fs[p] = before[p]
            \/ \E r \in Inner :
                 /\ p = D \o r /\ fs[p].kind = Source(r).kind
                 /\ fs[p] = Copied(r) \/ p \in cut \/ BeingWritten(p)

(* As long as the device has room for new names, a copy that ends well is     *)
(* whole, but for the files of which the device did not take all, and unless *)
(* a mkdir or symlink nobody looked at met something in its place; it stops  *)
(* half-way for a conflict only, or because a tree needs a descriptor for    *)
(* each directory and two for each file.                                     *)
WholeOrWhy ==
  Apart /\ ~full =>
    /\ status = "done" /\ ~Conflict =>
         \A r \in Inner : D \o r \in DOMAIN fs /\ (fs[D \o r] = Copied(r) \/ D \o r \in cut)
    /\ status = "exit" => Conflict \/ Needed > MAXFD

(* A directory is not copied into itself if both paths are typed as they      *)
(* lead: there is one new directory in it at most.  It is, again and again   *)
(* until something runs out, if f1 is typed with a slash at its end and the  *)
(* destination is not there, or is the root: only the texts are compared.    *)
NeverInto ==
  Is(before, f1, "dir") /\ f1 = S /\ Onto(before) = D /\ IsPrefix(S, D)
  => /\ \A p \in DOMAIN before : p \in DOMAIN fs /\ fs[p] = before[p]
     /\ DOMAIN fs \ DOMAIN before \subseteq {D}

(* The files copied keep their contents, unless a link leads to them or above *)
(* them, or the copy goes into them.                                         *)
SourceKept ==
  ~Overlap /\ (\A q \in Links : Beside(S, before[q].to))
  => \A r \in Inner : fs[S \o r] = Source(r)
=============================================================================
