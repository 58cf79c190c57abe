----------------------------- MODULE InodeCache -----------------------------
(***************************************************************************)
(* The in-memory inodes of the EXT2 shell: minodes[], get_minode and       *)
(* put_minode (utils/readwrite.c), mount_root's use of them                *)
(* (cmd/mount_root.c).                                                     *)
(*                                                                         *)
(* A command gets a pointer to a slot with get_minode, reads and changes   *)
(* the inode through it, sets its dirty flag, and gives the pointer back   *)
(* with put_minode, which writes the inode to the disk when the last       *)
(* pointer is gone.  Nothing but refCount protects a slot from being       *)
(* loaded with another inode while a pointer to it is still around.        *)
(* Commands, the current directory and the open files hold pointers at the *)
(* same time, so gets and puts of the same inode nest and interleave; the  *)
(* commands are the environment here.  A get_minode that finds no slot     *)
(* changes nothing but the error message and is a stuttering step.         *)
(*                                                                         *)
(* put_minode writes nothing while an error is thrown: the last pointer    *)
(* may go and leave the slot dirty, and free for the next get_minode to    *)
(* take (an `open' for writing or a `cp' refused because fd[] is full has  *)
(* truncated the file when it throws its error, and puts it afterwards).   *)
(* Whether an error is thrown at a put is a choice of the environment.     *)
(***************************************************************************)
EXTENDS Integers

CONSTANTS
  NMINODE,   \* slots in minodes[] (64 in the code)
  MaxIno,    \* inodes on the device
  Value,     \* the contents an inode may have
  MaxRefs    \* bound: pointers to one inode at a time, `root' aside

ROOT_INODE == 2

ASSUME CacheAssumption ==
  /\ NMINODE \in Nat \ {0}
  /\ MaxIno \in Nat /\ MaxIno >= ROOT_INODE
  /\ MaxRefs \in Nat

VARIABLES
  minodes,  \* the slots
  table,    \* on disk: the inode table
  held,     \* history: held[s][i] pointers to slot s were got for inode i
  dropped,  \* history: inodes in a slot whose last put wrote nothing, under an error
  call      \* history: the last call and what it showed or wrote

vars == <<minodes, table, held, dropped, call>>

Slot == 1..NMINODE
Ino == ROOT_INODE..MaxIno
NoIno == 0     \* mip->ino of a slot never used

Minode == [ino : Ino \cup {NoIno}, refCount : Nat, dirty : BOOLEAN, ip : Value]

TypeOK ==
  /\ minodes \in [Slot -> Minode]
  /\ table \in [Ino -> Value]
  /\ held \in [Slot -> [Ino -> Nat]]
  /\ dropped \subseteq Ino

-----------------------------------------------------------------------------
(* mount_root: every slot is emptied, then the root is got into the first   *)
(* slot with two references, the global `root' and the first cwd.           *)
Mounted(disk) ==
  [s \in Slot |->
     [ino |-> IF s = 1 THEN ROOT_INODE ELSE NoIno,
      refCount |-> IF s = 1 THEN 2 ELSE 0,
      dirty |-> FALSE, ip |-> disk[ROOT_INODE]]]
MountedHeld == [s \in Slot |-> [i \in Ino |-> IF s = 1 /\ i = ROOT_INODE THEN 2 ELSE 0]]

Init ==
  /\ table \in [Ino -> Value]
  /\ minodes = Mounted(table)
  /\ held = MountedHeld
  /\ dropped = {}
  /\ call = <<"boot">>

(* The first slot that holds the inode, whatever its refCount.  Faulty      *)
(* form: a slot nobody points to is not a hit.                              *)
HitInUse(s, i) == minodes[s].ino = i /\ minodes[s].refCount > 0
Hit(s, i) == minodes[s].ino = i
FirstHit(s, i) == Hit(s, i) /\ \A t \in Slot : Hit(t, i) => s <= t
Cached(i) == \E s \in Slot : Hit(s, i)

(* The first slot with no references.  Faulty form: any clean slot will do. *)
FreeIfClean(s) == ~minodes[s].dirty
Free(s) == minodes[s].refCount = 0
FirstFree(s) == Free(s) /\ \A t \in Slot : Free(t) => s <= t

Hold(s, i) == held' = [held EXCEPT ![s][i] = @ + 1]

(* get_minode, the inode is in memory: one more reference.  Faulty form:    *)
(* the inode is read from the disk again.                                   *)
GetHitReread(s, i) ==
  /\ FirstHit(s, i)
  /\ minodes' = [minodes EXCEPT ![s].refCount = @ + 1, ![s].ip = table[i]]
  /\ UNCHANGED dropped
GetHit(s, i) ==
  /\ FirstHit(s, i)
  /\ minodes' = [minodes EXCEPT ![s].refCount = @ + 1]
  /\ UNCHANGED dropped

(* get_minode, the inode is not in memory: the first free slot takes it,    *)
(* whether or not the inode it holds was ever written (dirty is not read).  *)
GetLoad(s, i) ==
  /\ ~Cached(i)
  /\ FirstFree(s)
  /\ minodes' = [minodes EXCEPT ![s] =
                   [ino |-> i, refCount |-> 1, dirty |-> FALSE, ip |-> table[i]]]
  /\ dropped' = dropped \ {minodes[s].ino}

(* The global `root' points to the root for the whole session. *)
Permanent(i) == IF i = ROOT_INODE THEN 1 ELSE 0

GetMinode(s, i) ==
  /\ held[s][i] < MaxRefs + Permanent(i)
  /\ GetHit(s, i) \/ GetLoad(s, i)
  /\ Hold(s, i)
  /\ call' = <<"get", i, minodes'[s].ip>>
  /\ UNCHANGED table

(* A command changes the inode it has a pointer to and sets dirty: every    *)
(* command that changes mip->ip does both before it puts the pointer back.  *)
Change(s, i, v) ==
  /\ held[s][i] > 0
  /\ minodes' = [minodes EXCEPT ![s].ip = v, ![s].dirty = TRUE]
  /\ call' = <<"change", i, v>>
  /\ UNCHANGED <<table, held, dropped>>

LastDirty(m) == m.refCount - 1 <= 0 /\ m.dirty

(* When put_minode writes: at the last put, unless an error is thrown.      *)
(* Faulty form: only below zero.                                            *)
WritesBelowZero(m, thrown) == m.refCount - 1 < 0 /\ m.dirty /\ ~thrown
Writes(m, thrown) == LastDirty(m) /\ ~thrown

(* What put_minode leaves of a slot.  Faulty form: the reference is counted *)
(* down once in the condition and once more when the inode is written.      *)
PutTwice(m, thrown) ==
  IF LastDirty(m) THEN [m EXCEPT !.refCount = @ - 2, !.dirty = thrown]
                  ELSE [m EXCEPT !.refCount = @ - 1]
AfterPut(m, thrown) ==
  [m EXCEPT !.refCount = @ - 1, !.dirty = @ /\ (m.refCount - 1 > 0 \/ thrown)]

(* put_minode by the holder of a pointer, with an error thrown or not. *)
PutMinode(s, i, thrown) ==
  /\ held[s][i] > Permanent(i)
  /\ minodes' = [minodes EXCEPT ![s] = AfterPut(@, thrown)]
  /\ table' = IF Writes(minodes[s], thrown)
              THEN [table EXCEPT ![minodes[s].ino] = minodes[s].ip] ELSE table
  /\ dropped' = IF ~LastDirty(minodes[s]) THEN dropped
                ELSE IF thrown THEN dropped \cup {minodes[s].ino}
                ELSE dropped \ {minodes[s].ino}
  /\ held' = [held EXCEPT ![s][i] = @ - 1]
  /\ call' = <<"put", i>>

(* The program is killed, the only way it ends, and started again: at any   *)
(* time and any number of times.                                           *)
Kill ==
  /\ minodes' = Mounted(table)
  /\ held' = MountedHeld
  /\ dropped' = {}
  /\ call' = <<"boot">>
  /\ UNCHANGED table

Next ==
  \/ \E s \in Slot, i \in Ino :
       \/ GetMinode(s, i)
       \/ \E thrown \in BOOLEAN : PutMinode(s, i, thrown)
       \/ \E v \in Value : Change(s, i, v)
  \/ Kill

Spec == Init /\ [][Next]_vars

-----------------------------------------------------------------------------
(* An inode is in at most one slot, so that all its users share one copy:   *)
(* get_minode must find a slot whose references are all gone as well, since *)
(* such a slot is not emptied (readwrite.c 35-46).                          *)
Unique ==
  \A s, t \in Slot : minodes[s].ino = minodes[t].ino /\ minodes[s].ino # NoIno => s = t

(* A pointer keeps pointing to the inode it was got for: no slot is loaded  *)
(* with another inode while somebody holds it, and refCount counts exactly  *)
(* the pointers around.                                                     *)
PointersStable ==
  \A s \in Slot :
    /\ \A i \in Ino : held[s][i] > 0 => minodes[s].ino = i
    /\ minodes[s].ino = NoIno => minodes[s].refCount = 0
    /\ minodes[s].ino # NoIno => minodes[s].refCount = held[s][minodes[s].ino]

(* What get_minode may overwrite: a clean slot holds what the disk holds; a *)
(* slot with no pointers is dirty, and its update can be lost, only when    *)
(* its last put came while an error was thrown (readwrite.c 90-93); and an  *)
(* inode so dropped is still in its slot, for a later get to find and a     *)
(* later put to write, until another inode takes the slot.                  *)
NothingToLose ==
  \A s \in Slot : ~minodes[s].dirty /\ minodes[s].ino # NoIno => minodes[s].ip = table[minodes[s].ino]
FreeIsClean ==
  \A s \in Slot : minodes[s].refCount = 0 /\ minodes[s].dirty => minodes[s].ino \in dropped
DroppedIsKept ==
  \A i \in dropped : \E s \in Slot : minodes[s].ino = i /\ minodes[s].dirty
EvictionSafe == NothingToLose /\ FreeIsClean /\ DroppedIsKept

-----------------------------------------------------------------------------
(* The cache implements the store: what get_minode shows of an inode is     *)
(* what its users last made of it, through any mix of hits, evictions and   *)
(* reloads; an update is lost only by a kill while the inode is in use or   *)
(* dropped, or when the slot of a dropped inode is taken.                   *)
View ==
  [i \in Ino |-> IF Cached(i) THEN minodes[CHOOSE s \in Slot : Hit(s, i)].ip ELSE table[i]]
Busy == {i \in Ino : \E s \in Slot : held[s][i] > 0}

Store == INSTANCE InodeStore
           WITH Root <- ROOT_INODE, current <- View, stable <- table, busy <- Busy
ImplementsStore == Store!Spec

(* What the commands rely on when they return: an inode nobody points to any  *)
(* more is on the disk as its last user left it, evicted since or not, unless *)
(* it was put under an error and has not been written since.                  *)
Settled == Store!Durable
=============================================================================
