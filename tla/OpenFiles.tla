------------------------------ MODULE OpenFiles ------------------------------
(***************************************************************************)
(* The open files and the current directory of the EXT2 shell: the oft[]   *)
(* table and fd[] array (utils/file.c), and the commands that get and put  *)
(* in-memory inodes on their behalf (cmd/open.c, close.c, lseek.c, cat.c,  *)
(* cp.c, cd.c, ls.c, pwd.c, touch.c, stat.c, creat.c, mkdir.c, unlink.c,   *)
(* rmdir.c).                                                               *)
(*                                                                         *)
(* The shell has one process and one thread: an action is one command from *)
(* its prompt to the next, and what interleaves is the life of the         *)
(* pointers the commands leave behind in cwd and in oft[].mptr.  A slot of *)
(* minodes[] that such a pointer leads to is protected by its refCount     *)
(* only, and several error paths get it wrong: `lost' counts the           *)
(* references nobody gives back, `over' those given back although their    *)
(* pointer lives on.                                                       *)
(*                                                                         *)
(* get_inode_number gets and puts the directories a longer path leads      *)
(* through, one after the other, before the command starts its own work:   *)
(* that is a Visit to each of them, then the command.                      *)
(*                                                                         *)
(* A step of the C program that dereferences NULL or copies a negative     *)
(* number of bytes ends the program and has no action here; the program    *)
(* then starts again from Init.  A command refused before it changes       *)
(* anything is a stuttering step.                                          *)
(***************************************************************************)
EXTENDS Integers, Sequences, FiniteSetsExt

Seqs == INSTANCE SequencesExt

CONSTANTS
  NMINODE,  \* slots in minodes[] (64 in the code)
  NOFT,     \* slots in oft[] (64)
  NFD,      \* file descriptors (16)
  MaxIno,   \* inodes on the device
  MaxSize,  \* bound: size of a file
  Mode,     \* the modes tried; cat opens with any value its stack holds
  MaxWrong, \* bound: references lost or given back twice
  Dirs,     \* inodes that are directories whenever they are in use
  Image     \* inodes in use on the image the program is started on

READ == 0
WRITE == 1
READ_WRITE == 2
APPEND == 3
GARBAGE == 4       \* any other value of cat's uninitialised `mode'
ROOT_INODE == 2

ASSUME OpenFilesAssumption ==
  /\ NMINODE \in Nat \ {0} /\ NOFT \in Nat \ {0} /\ NFD \in Nat \ {0}
  /\ MaxIno \in Nat /\ MaxIno >= ROOT_INODE
  /\ MaxSize \in Nat /\ MaxWrong \in Nat
  /\ Mode \subseteq READ..GARBAGE
  /\ Dirs \subseteq ROOT_INODE..MaxIno /\ Image \subseteq ROOT_INODE..MaxIno
  /\ ROOT_INODE \in Dirs \cap Image

VARIABLES
  minodes,    \* in memory: the slots
  oft, fd,    \* open file table, descriptors (0 is NULL)
  cwd,        \* running->cwd: a slot
  size,       \* i_size of each inode, as its users see it
  named,      \* inodes a directory entry leads to
  allocated,  \* inodes marked in the bitmap
  lost, over, \* history: wrong references, per slot
  meant,      \* history: the inode each pointer was taken for
  skipped     \* history: how far into the file the last cat began

disk == <<size, named, allocated>>
vars == <<minodes, oft, fd, cwd, disk, lost, over, meant, skipped>>

Slot == 1..NMINODE
Root == 1          \* the slot mount_root gets for the global `root'
Ino == ROOT_INODE..MaxIno
NoIno == 0
NULL == 0
Oft == 1..NOFT
Fd == 0..NFD-1
Cwd == -1
Pointer == Fd \cup {Cwd}   \* what keeps a slot between commands

TypeOK ==
  /\ minodes \in [Slot -> [ino : Ino \cup {NoIno}, refCount : Int]]
  /\ oft \in [Oft -> [mode : Mode \cup {READ, WRITE}, refCount : {0, 1},
                      mptr : Slot \cup {NULL}, offset : 0..MaxSize]]
  /\ fd \in [Fd -> Oft \cup {NULL}]
  /\ cwd \in Slot
  /\ size \in [Ino -> 0..MaxSize]
  /\ named \subseteq Ino /\ allocated \subseteq Ino
  /\ lost \in [Slot -> Nat] /\ over \in [Slot -> Nat]
  /\ meant \in [Pointer -> Ino \cup {NoIno}]
  /\ skipped \in 0..MaxSize

-----------------------------------------------------------------------------
Least(S) == CHOOSE x \in S : \A y \in S : x <= y

(* get_minode and put_minode on the slots m: see InodeCache.  Faulty form:   *)
(* a slot with one reference left is taken for unused.                       *)
Holding(m, i) == {s \in Slot : m[s].ino = i}
UnusedLow(m) == {s \in Slot : m[s].refCount <= 1}
Unused(m) == {s \in Slot : m[s].refCount = 0}
CanGet(m, i) == Holding(m, i) \cup Unused(m) # {}
Where(m, i) == IF Holding(m, i) # {} THEN Least(Holding(m, i)) ELSE Least(Unused(m))
Get(m, i) ==
  LET s == Where(m, i)
  IN [m EXCEPT ![s] = [ino |-> i, refCount |-> IF m[s].ino = i THEN @.refCount + 1 ELSE 1]]
Put(m, s) == [m EXCEPT ![s].refCount = @ - 1]

(* mount_root: the root has two references, `root' and cwd. *)
Init ==
  /\ minodes = [s \in Slot |-> IF s = Root THEN [ino |-> ROOT_INODE, refCount |-> 2]
                                           ELSE [ino |-> NoIno, refCount |-> 0]]
  /\ oft = [o \in Oft |-> [mode |-> READ, refCount |-> 0, mptr |-> NULL, offset |-> 0]]
  /\ fd = [f \in Fd |-> NULL]
  /\ cwd = Root
  /\ size \in [Ino -> {0, MaxSize}]
  /\ \A i \in Dirs : size[i] = MaxSize
  /\ named = Image /\ allocated = Image
  /\ lost = [s \in Slot |-> 0] /\ over = lost
  /\ meant = [p \in Pointer |-> IF p = Cwd THEN ROOT_INODE ELSE NoIno]
  /\ skipped = 0

-----------------------------------------------------------------------------
(* duplicate_oft: somebody has the inode of slot s open for more than READ. *)
(* Faulty form: the other open files are trusted, only a second WRITE is     *)
(* refused.                                                                  *)
ClashesOnWrite(files, m, o, s) ==
  files[o].refCount > 0 /\ m[files[o].mptr].ino = m[s].ino /\ files[o].mode = WRITE
Clashes(files, m, o, s) ==
  files[o].refCount > 0 /\ m[files[o].mptr].ino = m[s].ino /\ files[o].mode # READ

Stray(files, o) == files[o].refCount > 0 /\ files[o].mptr = NULL
Duplicate(files, m, s) == \E o \in Oft : ~Stray(files, o) /\ Clashes(files, m, o, s)

(* The scan of duplicate_oft meets a NULL mptr before it finds a clash. *)
Faults(files, m, s) ==
  \E o \in Oft : Stray(files, o) /\ \A p \in 1..o-1 : Stray(files, p) \/ ~Clashes(files, m, p, s)

(* get_oft: the entries not in use. *)
FreeEntries(files) == {o \in Oft : files[o].refCount = 0}

(* The part of the state open_file works on, and thrown_error. *)
Tables == [oft |-> oft, fd |-> fd, size |-> size, err |-> FALSE, ret |-> -1]
Fail(st) == [st EXCEPT !.err = TRUE, !.ret = -1]

(* The offset a file is opened at: kept from the last use of the slot unless *)
(* the mode is one of three.                                                 *)
StartOffset(st, mode, o, i) ==
  IF mode \in {READ, READ_WRITE} THEN 0
  ELSE IF mode = APPEND THEN st.size[i] ELSE st.oft[o].offset

(* The descriptor entry that open_file fills: it takes the table slot, opens *)
(* (and truncates) the file, and only then looks for a free descriptor.      *)
Install(st, i, s, mode, o) ==
  LET free == {f \in Fd : st.fd[f] = NULL}
      f == IF free = {} THEN -1 ELSE Least(free)
  IN [oft |-> [st.oft EXCEPT ![o] = [mode |-> mode, refCount |-> 1, mptr |-> s,
                                     offset |-> StartOffset(st, mode, o, i)]],
      fd |-> [g \in Fd |-> IF g = f THEN o ELSE st.fd[g]],
      size |-> IF mode = WRITE THEN [st.size EXCEPT ![i] = 0] ELSE st.size,
      err |-> free = {}, ret |-> f]

(* open_file on slot s.  get_oft has taken its slot when an error left by an *)
(* earlier open_file of the same command makes it return.                    *)
OpenFile(st, m, s, mode) ==
  LET free == FreeEntries(st.oft)
  IN IF Duplicate(st.oft, m, s) \/ free = {} THEN Fail(st)
     ELSE IF st.err THEN Fail([st EXCEPT !.oft[Least(free)].refCount = 1])
     ELSE Install(st, m[s].ino, s, mode, Least(free))

SetTables(st) == oft' = st.oft /\ fd' = st.fd /\ size' = st.size
NoWrong == UNCHANGED <<lost, over>>
Room == MapThenSumSet(LAMBDA t : lost[t] + over[t], Slot) < MaxWrong
Lose(s) == Room /\ lost' = [lost EXCEPT ![s] = @ + 1] /\ UNCHANGED over
PutTwice(s) == Room /\ over' = [over EXCEPT ![s] = @ + 1] /\ UNCHANGED lost

(* open: a file that is not regular keeps its reference; one that open_file  *)
(* refuses gives it back.  Faulty form: it keeps the reference as well.      *)
OpenForget(i, mode) ==
  /\ mode # GARBAGE /\ CanGet(minodes, i)
  /\ \E m \in {Get(minodes, i)}, s \in {Where(minodes, i)} :
       /\ i \notin Dirs /\ ~Faults(oft, m, s)
       /\ \E st \in {OpenFile(Tables, m, s, mode)} :
            /\ SetTables(st) /\ minodes' = m
            /\ meant' = IF st.err THEN meant ELSE [meant EXCEPT ![st.ret] = i]
       /\ NoWrong
  /\ skipped' = 0 /\ UNCHANGED <<cwd, named, allocated>>
Open(i, mode) ==
  /\ mode # GARBAGE /\ CanGet(minodes, i)
  /\ \E m \in {Get(minodes, i)}, s \in {Where(minodes, i)} :
       \/ /\ i \in Dirs
          /\ minodes' = m /\ Lose(s)
          /\ UNCHANGED <<oft, fd, size, meant>>
       \/ /\ i \notin Dirs /\ ~Faults(oft, m, s)
          /\ \E st \in {OpenFile(Tables, m, s, mode)} :
               /\ SetTables(st)
               /\ minodes' = IF st.err THEN Put(m, s) ELSE m
               /\ meant' = IF st.err THEN meant ELSE [meant EXCEPT ![st.ret] = i]
          /\ NoWrong
  /\ skipped' = 0 /\ UNCHANGED <<cwd, named, allocated>>

(* close: the offset stays in the slot.  Faulty form: the descriptor stays.  *)
CloseKeepsFd(f) ==
  LET o == fd[f]
  IN /\ o # NULL /\ oft[o].refCount # 0
     /\ oft' = [oft EXCEPT ![o].refCount = @ - 1]
     /\ minodes' = IF oft[o].refCount = 1 THEN Put(minodes, oft[o].mptr) ELSE minodes
     /\ skipped' = 0 /\ NoWrong
     /\ UNCHANGED <<fd, cwd, disk, meant>>
Close(f) ==
  LET o == fd[f]
  IN /\ o # NULL /\ oft[o].refCount # 0
     /\ fd' = [fd EXCEPT ![f] = NULL]
     /\ oft' = [oft EXCEPT ![o].refCount = @ - 1]
     /\ minodes' = IF oft[o].refCount = 1 THEN Put(minodes, oft[o].mptr) ELSE minodes
     /\ meant' = [meant EXCEPT ![f] = NoIno]
     /\ skipped' = 0 /\ NoWrong
     /\ UNCHANGED <<cwd, disk>>

(* lseek: the new offset lies strictly inside the file. *)
Inside(off, i) == off > 0 /\ off < size[i]
Lseek(f, delta) ==
  LET o == fd[f]
  IN /\ o # NULL /\ oft[o].refCount # 0
     /\ Inside(oft[o].offset + delta, minodes[oft[o].mptr].ino)
     /\ oft' = [oft EXCEPT ![o].offset = @ + delta]
     /\ skipped' = 0 /\ NoWrong
     /\ UNCHANGED <<minodes, fd, cwd, disk, meant>>

(* cat: any file, in whatever mode its uninitialised `mode' happens to be;   *)
(* read to the end and closed, the offset left there.  A file that open_file *)
(* refuses keeps the reference.                                              *)
Cat(i, mode) ==
  /\ CanGet(minodes, i)
  /\ \E m \in {Get(minodes, i)}, s \in {Where(minodes, i)} :
       /\ ~Faults(oft, m, s)
       /\ \E st \in {OpenFile(Tables, m, s, mode)} :
            \/ /\ st.err
               /\ SetTables(st) /\ minodes' = m /\ Lose(s) /\ skipped' = 0
            \/ /\ ~st.err /\ NoWrong
               /\ LET o == st.fd[st.ret]
                      shown == st.size[i] - st.oft[o].offset
                  IN /\ shown >= 0
                     /\ oft' = [st.oft EXCEPT ![o].offset = st.size[i], ![o].refCount = 0]
                     /\ skipped' = size[i] - shown
               /\ size' = st.size /\ UNCHANGED fd
               /\ minodes' = Put(m, s)
  /\ UNCHANGED <<cwd, named, allocated, meant>>

(* creat_file under parent p: the new inode is got, filled in and put. *)
Created(m, p, i) ==
  LET held == Get(m, p)
  IN Put(Put(Get(held, i), Where(held, i)), Where(m, p))
CanCreate(m, p, i) == i \notin allocated /\ CanGet(m, p) /\ CanGet(Get(m, p), i)

(* cp: both inodes are got and opened, the second one even when the first    *)
(* was refused.  If one was, both are put, and a source that did open keeps  *)
(* its descriptor; if not, the source is copied to its end.                  *)
CopyRefused(i, src, st1, st2) ==
  /\ SetTables(st2)
  /\ IF st1.err THEN NoWrong /\ UNCHANGED meant
     ELSE PutTwice(src) /\ meant' = [meant EXCEPT ![st1.ret] = i]

CopyDone(i, j, st1, st2) ==
  LET ended == {st2.fd[st1.ret], st2.fd[st2.ret]}
  IN /\ oft' = [o \in Oft |-> IF o \in ended THEN [st2.oft[o] EXCEPT !.refCount = 0, !.offset = 0]
                                             ELSE st2.oft[o]]
     /\ size' = [st2.size EXCEPT ![j] = st2.size[i]]
     /\ NoWrong /\ UNCHANGED <<fd, meant>>

Copy(m, i, j, st) ==
  /\ CanGet(m, i) /\ CanGet(Get(m, i), j)
  /\ \E m1 \in {Get(m, i)}, src \in {Where(m, i)} :
     \E m2 \in {Get(m1, j)}, dst \in {Where(m1, j)} :
       /\ ~Faults(oft, m2, src)
       /\ \E st1 \in {OpenFile(st, m2, src, READ)} :
            /\ ~Faults(st1.oft, m2, dst)
            /\ \E st2 \in {OpenFile(st1, m2, dst, WRITE)} :
                 IF st2.err THEN CopyRefused(i, src, st1, st2) ELSE CopyDone(i, j, st1, st2)
       /\ minodes' = Put(Put(m2, src), dst)
  /\ skipped' = 0 /\ UNCHANGED cwd

Cp(i, j) == Copy(minodes, i, j, Tables) /\ UNCHANGED <<named, allocated>>

(* A destination that is missing is made first. *)
CpNew(i, p, j) ==
  /\ j \notin Dirs /\ CanCreate(minodes, p, j)
  /\ Copy(Created(minodes, p, j), i, j, [Tables EXCEPT !.size[j] = 0])
  /\ named' = named \cup {j} /\ allocated' = allocated \cup {j}

(* cd: the new directory is got before the old one is put. *)
Cd(i) ==
  /\ CanGet(minodes, i) /\ i \in Dirs
  /\ minodes' = Put(Get(minodes, i), cwd)
  /\ cwd' = Where(minodes, i)
  /\ meant' = [meant EXCEPT ![Cwd] = i]
  /\ skipped' = 0 /\ NoWrong /\ UNCHANGED <<oft, fd, disk>>
CdRoot ==
  /\ minodes' = [Put(minodes, cwd) EXCEPT ![Root].refCount = @ + 1]
  /\ cwd' = Root
  /\ meant' = [meant EXCEPT ![Cwd] = ROOT_INODE]
  /\ skipped' = 0 /\ NoWrong /\ UNCHANGED <<oft, fd, disk>>

(* touch, stat, chmod, chown; cd to a file; link and the refused forms of    *)
(* creat, mkdir, rmdir and unlink: an inode is got and put.                  *)
Visit(i) ==
  /\ CanGet(minodes, i)
  /\ minodes' = Put(Get(minodes, i), Where(minodes, i))
  /\ skipped' = 0 /\ NoWrong /\ UNCHANGED <<oft, fd, cwd, disk, meant>>

(* ls: the directory is held while its entries are got and put one after the *)
(* other; those not in memory take the same slot, and the last of them, i,   *)
(* is still there at the end.                                                *)
Ls(p, i) ==
  LET m == Get(minodes, p)
  IN /\ CanGet(minodes, p) /\ CanGet(m, i)
     /\ minodes' = Put(Put(Get(m, i), Where(m, i)), Where(minodes, p))
     /\ skipped' = 0 /\ NoWrong /\ UNCHANGED <<oft, fd, cwd, disk, meant>>

(* pwd: every directory on the way up from cwd is held until the path down   *)
(* from it is written, and the slot it was got in is put then; the way up    *)
(* ends at the global `root'.  Climb(q)[n]: minodes[] with n of them held.   *)
Climb(q) ==
  LET up[n \in 0..Len(q)] ==
        IF n = 0 THEN minodes
        ELSE IF CanGet(up[n-1], q[n]) THEN Get(up[n-1], q[n]) ELSE up[n-1]
  IN up
GotIn(q, s, n) == {k \in 1..n : Where(Climb(q)[k-1], q[k]) = s}
Pwd(q) ==
  /\ cwd # Root /\ minodes[Root].ino = ROOT_INODE
  /\ \A n \in 1..Len(q) : CanGet(Climb(q)[n-1], q[n])
  /\ minodes' = [s \in Slot |->
       [Climb(q)[Len(q)][s] EXCEPT !.refCount = @ - Cardinality(GotIn(q, s, Len(q)))]]
  /\ skipped' = 0 /\ NoWrong /\ UNCHANGED <<oft, fd, cwd, disk, meant>>

(* creat, mkdir *)
Make(p, i) ==
  /\ CanCreate(minodes, p, i)
  /\ minodes' = Created(minodes, p, i)
  /\ size' = [size EXCEPT ![i] = IF i \in Dirs THEN MaxSize ELSE 0]
  /\ named' = named \cup {i} /\ allocated' = allocated \cup {i}
  /\ skipped' = 0 /\ NoWrong /\ UNCHANGED <<oft, fd, cwd, meant>>

(* "File busy", "Directory busy": a pointer besides the command's own.       *)
Busy(m, s) == m[s].refCount > 1

(* unlink of a file with one name, rmdir: the inode's blocks are freed       *)
(* through its slot after the parent has been got as well; only rmdir gives  *)
(* the inode itself back to the bitmap.                                      *)
Remove(i, p) ==
  LET m1 == Get(minodes, i)
      s == Where(minodes, i)
      m2 == Get(m1, p)
  IN /\ CanGet(minodes, i) /\ ~Busy(m1, s) /\ CanGet(m1, p)
     /\ i # ROOT_INODE
     /\ minodes' = Put(Put(m2, s), Where(m1, p))
     /\ size' = [j \in Ino |-> IF j \in {i, m2[s].ino} THEN 0 ELSE size[j]]
     /\ named' = named \ {i}
     /\ allocated' = IF i \in Dirs THEN allocated \ {m2[s].ino} ELSE allocated
     /\ skipped' = 0 /\ NoWrong /\ UNCHANGED <<oft, fd, cwd, meant>>

Directory == Dirs \cap named

(* The ways up from cwd to the root.                                         *)
Above ==
  LET between == Directory \ {ROOT_INODE, minodes[cwd].ino}
  IN {q \o <<ROOT_INODE>> : q \in UNION {Seqs!SetToSeqs(D) : D \in SUBSET between}}

Next ==
  \/ \E i \in named :
       \/ \E mode \in Mode : Open(i, mode) \/ Cat(i, mode)
       \/ \E j \in named : Cp(i, j)
       \/ \E p \in Directory, j \in Ino : CpNew(i, p, j)
       \/ Cd(i) \/ Visit(i)
       \/ \E p \in Directory : Remove(i, p) \/ Ls(p, i)
  \/ \E p \in Directory, i \in Ino : Make(p, i)
  \/ \E f \in Fd : Close(f) \/ \E delta \in -MaxSize..MaxSize : Lseek(f, delta)
  \/ CdRoot
  \/ \E q \in Above : Pwd(q)

Spec == Init /\ [][Next]_vars

-----------------------------------------------------------------------------
Users(s) == Cardinality({f \in Fd : fd[f] # NULL /\ oft[fd[f]].mptr = s})
            + (IF cwd = s THEN 1 ELSE 0) + (IF s = Root THEN 1 ELSE 0)

(* Reference accounting: refCount is the number of pointers to the slot,     *)
(* plus what the refused opens and cats lost, minus what the refused cps     *)
(* gave back twice.  Every other path of every command is balanced, slots    *)
(* that were reused under a dangling pointer included.                       *)
RefsAccounted ==
  \A s \in Slot : minodes[s].refCount = Users(s) + lost[s] - over[s]

(* A descriptor, and cwd, still lead to the inode they were taken for as     *)
(* long as no reference to that slot was given back twice.                   *)
At(p) == IF p = Cwd THEN cwd ELSE oft[fd[p]].mptr
Pinned ==
  \A p \in Pointer :
    (p = Cwd \/ fd[p] # NULL) /\ over[At(p)] = 0 => minodes[At(p)].ino = meant[p]

(* Each descriptor has a table entry of its own, in use, so that closing one *)
(* descriptor or moving its offset never affects another.                    *)
OwnEntry ==
  \A f, g \in Fd : fd[f] # NULL =>
    oft[fd[f]].refCount = 1 /\ oft[fd[f]].mptr # NULL /\ (fd[g] = fd[f] => g = f)

(* A file has at most one descriptor open for more than READ                 *)
(* (duplicate_oft), even after references went wrong and slots were reused.  *)
SingleWriter ==
  \A f, g \in Fd :
    /\ fd[f] # NULL /\ fd[g] # NULL
    /\ oft[fd[f]].mode # READ /\ oft[fd[g]].mode # READ
    /\ minodes[oft[fd[f]].mptr].ino = minodes[oft[fd[g]].mptr].ino
    => f = g

(* A file open for reading and writing, or for appending, keeps its bytes    *)
(* while it is open: nobody else may truncate or remove it, so that its      *)
(* offset never lies beyond its end.  (And everything is of its type.)        *)
OffsetInFile ==
  TypeOK /\ \A f \in Fd :
    /\ fd[f] # NULL /\ oft[fd[f]].mode \in {READ_WRITE, APPEND}
    /\ over[oft[fd[f]].mptr] = 0
    => oft[fd[f]].offset <= size[minodes[oft[fd[f]].mptr].ino]

(* cat shows a file from its first byte. *)
CatFromStart == skipped = 0
=============================================================================
