-------------------------- MODULE InodeCacheProofs --------------------------
(***************************************************************************)
(* Proofs about the inode cache, for every number of slots, of inodes and  *)
(* of pointers: its invariants, which are inductive together, and that it  *)
(* implements InodeStore.                                                  *)
(***************************************************************************)
EXTENDS InodeCache, TLAPS

(* The invariants lean on each other.  A slot with no references has no    *)
(* pointers (PointersStable), so loading it takes no inode away from       *)
(* anybody and, being clean or dropped (EvictionSafe), loses nothing but a *)
(* dropped update; a put writes one inode of the table, which no other     *)
(* slot holds (Unique).                                                    *)
CacheInv == TypeOK /\ Unique /\ PointersStable /\ EvictionSafe

USE CacheAssumption DEF ROOT_INODE

MountedState ==
  /\ table \in [Ino -> Value]
  /\ minodes = Mounted(table)
  /\ held = MountedHeld
  /\ dropped = {}

LEMMA MountedInv == MountedState => CacheInv
<1> SUFFICES ASSUME MountedState PROVE CacheInv OBVIOUS
<1> USE DEF MountedState
<1>1. ROOT_INODE \in Ino /\ NoIno \notin Ino /\ 1 \in Slot
  BY DEF Ino, NoIno, Slot
<1>2. minodes \in [Slot -> Minode]
  BY <1>1 DEF Mounted, Minode
<1>3. held \in [Slot -> [Ino -> Nat]]
  BY DEF MountedHeld
<1>4. TypeOK
  BY <1>2, <1>3 DEF TypeOK
<1>5. \A s \in Slot : minodes[s].ino # NoIno => s = 1
  BY DEF Mounted
<1>6. Unique
  BY <1>5 DEF Unique
<1>7. PointersStable
  BY <1>1 DEF PointersStable, Mounted, MountedHeld, NoIno
<1>8. EvictionSafe
  BY <1>1, <1>5 DEF EvictionSafe, NothingToLose, FreeIsClean, DroppedIsKept, Mounted
<1> QED BY <1>4, <1>6, <1>7, <1>8 DEF CacheInv

LEMMA InitInv == Init => CacheInv
  BY MountedInv DEF Init, MountedState

(* A slot somebody has a pointer to holds that inode and counts the pointer. *)
LEMMA PointerSlot ==
  ASSUME CacheInv, NEW s \in Slot, NEW i \in Ino, held[s][i] > 0
  PROVE  minodes[s].ino = i /\ minodes[s].refCount = held[s][i] /\ i # NoIno
  BY DEF CacheInv, TypeOK, PointersStable, Ino, NoIno

(* A slot get_minode may take has no pointer to it. *)
LEMMA FreeSlot ==
  ASSUME CacheInv, NEW s \in Slot, Free(s), NEW i \in Ino
  PROVE  held[s][i] = 0 /\ (minodes[s].dirty => minodes[s].ino \in dropped)
<1>1. held[s][i] \in Nat
  BY DEF CacheInv, TypeOK
<1>2. ASSUME held[s][i] > 0 PROVE FALSE
  BY <1>2, PointerSlot DEF Free
<1>3. minodes[s].dirty => minodes[s].ino \in dropped
  BY DEF CacheInv, EvictionSafe, FreeIsClean, Free
<1> QED BY <1>1, <1>2, <1>3

LEMMA GetHitInv ==
  ASSUME CacheInv, NEW s \in Slot, NEW i \in Ino, GetMinode(s, i), GetHit(s, i)
  PROVE  CacheInv'
<1>1. /\ minodes[s].ino = i /\ minodes' = [minodes EXCEPT ![s].refCount = @ + 1]
      /\ dropped' = dropped
  BY DEF GetHit, FirstHit, Hit
<1>2. /\ held' = [held EXCEPT ![s][i] = @ + 1]
      /\ table' = table
  BY DEF GetMinode, Hold
<1>3. TypeOK /\ Unique /\ PointersStable /\ EvictionSafe
  BY DEF CacheInv
<1>4. TypeOK'
  <2>1. minodes' \in [Slot -> Minode]
    BY <1>1, <1>3 DEF TypeOK, Minode
  <2>2. held' \in [Slot -> [Ino -> Nat]]
    BY <1>2, <1>3 DEF TypeOK
  <2> QED BY <1>1, <1>2, <1>3, <2>1, <2>2 DEF TypeOK
<1>5. \A t \in Slot : /\ minodes'[t].ino = minodes[t].ino
                      /\ minodes'[t].dirty = minodes[t].dirty
                      /\ minodes'[t].ip = minodes[t].ip
  BY <1>1, <1>3 DEF TypeOK, Minode
<1>6. /\ minodes'[s].refCount = minodes[s].refCount + 1
      /\ held'[s][i] = held[s][i] + 1
      /\ \A t \in Slot \ {s} : minodes'[t] = minodes[t] /\ held'[t] = held[t]
      /\ \A j \in Ino \ {i} : held'[s][j] = held[s][j]
  BY <1>1, <1>2, <1>3 DEF TypeOK, Minode
<1>7. Unique'
  BY <1>3, <1>5 DEF Unique
<1>8. PointersStable'
  <2> SUFFICES ASSUME NEW t \in Slot
               PROVE  /\ \A j \in Ino : held'[t][j] > 0 => minodes'[t].ino = j
                      /\ minodes'[t].ino = NoIno => minodes'[t].refCount = 0
                      /\ minodes'[t].ino # NoIno =>
                           minodes'[t].refCount = held'[t][minodes'[t].ino]
    BY DEF PointersStable
  <2>1. CASE t = s
    BY <1>1, <1>3, <1>5, <1>6, <2>1 DEF PointersStable, Ino, NoIno
  <2>2. CASE t # s
    BY <1>3, <1>6, <2>2 DEF PointersStable
  <2> QED BY <2>1, <2>2
<1>9. EvictionSafe'
  <2>1. NothingToLose' /\ DroppedIsKept'
    BY <1>1, <1>2, <1>3, <1>5 DEF EvictionSafe, NothingToLose, DroppedIsKept
  <2>2. minodes[s].refCount \in Nat
    BY <1>3 DEF TypeOK, Minode
  <2>3. FreeIsClean'
    BY <1>1, <1>3, <1>5, <1>6, <2>2 DEF EvictionSafe, FreeIsClean
  <2> QED BY <2>1, <2>3 DEF EvictionSafe
<1> QED BY <1>4, <1>7, <1>8, <1>9 DEF CacheInv

LEMMA GetLoadInv ==
  ASSUME CacheInv, NEW s \in Slot, NEW i \in Ino, GetMinode(s, i), GetLoad(s, i)
  PROVE  CacheInv'
<1>1. /\ ~Cached(i) /\ Free(s)
      /\ minodes' = [minodes EXCEPT ![s] =
           [ino |-> i, refCount |-> 1, dirty |-> FALSE, ip |-> table[i]]]
      /\ dropped' = dropped \ {minodes[s].ino}
  BY DEF GetLoad, FirstFree
<1>2. /\ held' = [held EXCEPT ![s][i] = @ + 1]
      /\ table' = table
  BY DEF GetMinode, Hold
<1>3. TypeOK /\ Unique /\ PointersStable /\ EvictionSafe
  BY DEF CacheInv
<1>4. TypeOK'
  BY <1>1, <1>2, <1>3 DEF TypeOK, Minode
<1>5. /\ minodes'[s] = [ino |-> i, refCount |-> 1, dirty |-> FALSE, ip |-> table[i]]
      /\ \A t \in Slot \ {s} : minodes'[t] = minodes[t] /\ held'[t] = held[t]
      /\ \A j \in Ino : held'[s][j] = IF j = i THEN 1 ELSE 0
  <2>1. \A j \in Ino : held[s][j] = 0
    BY <1>1, FreeSlot
  <2> QED BY <1>1, <1>2, <1>3, <2>1 DEF TypeOK
<1>6. \A t \in Slot : minodes[t].ino # i
  BY <1>1 DEF Cached, Hit
<1>7. Unique'
  BY <1>3, <1>5, <1>6 DEF Unique
<1>8. PointersStable'
  BY <1>3, <1>5 DEF PointersStable, Ino, NoIno
<1>9. EvictionSafe'
  <2>1. NothingToLose'
    BY <1>2, <1>3, <1>5 DEF EvictionSafe, NothingToLose
  <2>2. FreeIsClean'
    <3> SUFFICES ASSUME NEW t \in Slot, minodes'[t].refCount = 0, minodes'[t].dirty
                 PROVE  minodes'[t].ino \in dropped'
      BY DEF FreeIsClean
    <3>1. t # s /\ minodes'[t] = minodes[t]
      BY <1>5
    <3>2. minodes[t].ino \in dropped
      BY <1>3, <3>1 DEF EvictionSafe, FreeIsClean
    <3>3. minodes[t].ino # NoIno
      BY <1>3, <3>2 DEF TypeOK, Ino, NoIno
    <3>4. minodes[t].ino # minodes[s].ino
      BY <1>3, <3>1, <3>3 DEF Unique
    <3> QED BY <1>1, <3>1, <3>2, <3>4
  <2>3. DroppedIsKept'
    <3> SUFFICES ASSUME NEW j \in dropped'
                 PROVE  \E t \in Slot : minodes'[t].ino = j /\ minodes'[t].dirty
      BY DEF DroppedIsKept
    <3>1. PICK t \in Slot : minodes[t].ino = j /\ minodes[t].dirty
      BY <1>1, <1>3 DEF EvictionSafe, DroppedIsKept
    <3>2. t # s
      BY <1>1, <3>1
    <3> QED BY <1>5, <3>1, <3>2
  <2> QED BY <2>1, <2>2, <2>3 DEF EvictionSafe
<1> QED BY <1>4, <1>7, <1>8, <1>9 DEF CacheInv

LEMMA ChangeInv ==
  ASSUME CacheInv, NEW s \in Slot, NEW i \in Ino, NEW v \in Value, Change(s, i, v)
  PROVE  CacheInv'
<1>1. /\ held[s][i] > 0 /\ held' = held /\ table' = table /\ dropped' = dropped
      /\ minodes' = [minodes EXCEPT ![s].ip = v, ![s].dirty = TRUE]
  BY DEF Change
<1>2. TypeOK /\ Unique /\ PointersStable /\ EvictionSafe
  BY DEF CacheInv
<1>3. TypeOK'
  BY <1>1, <1>2 DEF TypeOK, Minode
<1>4. /\ \A t \in Slot : minodes'[t].ino = minodes[t].ino
                         /\ minodes'[t].refCount = minodes[t].refCount
      /\ minodes'[s].dirty = TRUE
      /\ \A t \in Slot \ {s} : minodes'[t] = minodes[t]
  BY <1>1, <1>2 DEF TypeOK, Minode
<1>5. minodes[s].refCount # 0
  BY <1>1, PointerSlot
<1>6. Unique'
  BY <1>2, <1>4 DEF Unique
<1>7. PointersStable'
  BY <1>1, <1>2, <1>4 DEF PointersStable, TypeOK
<1>8. FreeIsClean'
  <2> SUFFICES ASSUME NEW t \in Slot, minodes'[t].refCount = 0, minodes'[t].dirty
               PROVE  minodes'[t].ino \in dropped'
    BY DEF FreeIsClean
  <2>1. t # s
    BY <1>4, <1>5
  <2>2. minodes'[t] = minodes[t]
    BY <1>4, <2>1
  <2>3. minodes[t].refCount = 0 /\ minodes[t].dirty
    BY <2>2
  <2>4. minodes[t].ino \in dropped
    BY <1>2, <2>3 DEF EvictionSafe, FreeIsClean
  <2> QED BY <1>1, <2>2, <2>4
<1>10. DroppedIsKept'
  <2> SUFFICES ASSUME NEW j \in dropped'
               PROVE  \E t \in Slot : minodes'[t].ino = j /\ minodes'[t].dirty
    BY DEF DroppedIsKept
  <2>1. PICK t \in Slot : minodes[t].ino = j /\ minodes[t].dirty
    BY <1>1, <1>2 DEF EvictionSafe, DroppedIsKept
  <2>2. CASE t = s
    BY <1>4, <2>1, <2>2
  <2>3. CASE t # s
    BY <1>4, <2>1, <2>3
  <2> QED BY <2>2, <2>3
<1>9. NothingToLose'
  <2> SUFFICES ASSUME NEW t \in Slot, ~minodes'[t].dirty, minodes'[t].ino # NoIno
               PROVE  minodes'[t].ip = table'[minodes'[t].ino]
    BY DEF NothingToLose
  <2>1. t # s
    BY <1>4
  <2>2. minodes'[t] = minodes[t]
    BY <1>4, <2>1
  <2> QED BY <1>1, <1>2, <2>2 DEF EvictionSafe, NothingToLose
<1> QED BY <1>3, <1>6, <1>7, <1>8, <1>9, <1>10 DEF CacheInv, EvictionSafe

(* What put_minode does to the slot of a pointer and to the disk. *)
PutEffect(s, i, thrown) ==
  /\ minodes[s].ino = i
  /\ minodes[s].refCount = held[s][i] /\ held[s][i] \in Nat \ {0}
  /\ minodes'[s].ino = i /\ minodes'[s].ip = minodes[s].ip
  /\ minodes'[s].refCount = minodes[s].refCount - 1
  /\ minodes'[s].dirty = (minodes[s].dirty /\ (minodes[s].refCount # 1 \/ thrown))
  /\ \A t \in Slot \ {s} : minodes'[t] = minodes[t] /\ held'[t] = held[t]
  /\ held'[s][i] = held[s][i] - 1
  /\ \A j \in Ino \ {i} : held'[s][j] = held[s][j]
  /\ table' = IF minodes[s].dirty /\ minodes[s].refCount = 1 /\ ~thrown
              THEN [table EXCEPT ![i] = minodes[s].ip] ELSE table
  /\ dropped' = IF ~(minodes[s].dirty /\ minodes[s].refCount = 1) THEN dropped
                ELSE IF thrown THEN dropped \cup {i} ELSE dropped \ {i}

LEMMA PutMinodeEffect ==
  ASSUME CacheInv, NEW s \in Slot, NEW i \in Ino, NEW thrown \in BOOLEAN,
         PutMinode(s, i, thrown)
  PROVE  PutEffect(s, i, thrown)
<1>1. /\ held[s][i] > Permanent(i)
      /\ minodes' = [minodes EXCEPT ![s] = AfterPut(@, thrown)]
      /\ table' = IF Writes(minodes[s], thrown)
                  THEN [table EXCEPT ![minodes[s].ino] = minodes[s].ip] ELSE table
      /\ held' = [held EXCEPT ![s][i] = @ - 1]
      /\ dropped' = IF ~LastDirty(minodes[s]) THEN dropped
                    ELSE IF thrown THEN dropped \cup {minodes[s].ino}
                    ELSE dropped \ {minodes[s].ino}
  BY DEF PutMinode
<1>2. TypeOK
  BY DEF CacheInv
<1>3. held[s][i] \in Nat \ {0}
  BY <1>1, <1>2 DEF TypeOK, Permanent
<1>4. minodes[s].ino = i /\ minodes[s].refCount = held[s][i]
  BY <1>3, PointerSlot
<1>5. minodes[s] \in Minode /\ minodes'[s] = AfterPut(minodes[s], thrown)
  BY <1>1, <1>2 DEF TypeOK
<1>6. /\ minodes'[s].ino = i /\ minodes'[s].ip = minodes[s].ip
      /\ minodes'[s].refCount = minodes[s].refCount - 1
  BY <1>4, <1>5 DEF AfterPut, Minode
<1>7. minodes'[s].dirty = (minodes[s].dirty /\ (minodes[s].refCount - 1 > 0 \/ thrown))
  BY <1>5 DEF AfterPut, Minode
<1>8. (minodes[s].refCount - 1 > 0) = (minodes[s].refCount # 1)
  BY <1>3, <1>4
<1>9. LastDirty(minodes[s]) = (minodes[s].dirty /\ minodes[s].refCount = 1)
  <2>1. (minodes[s].refCount - 1 <= 0) = (minodes[s].refCount = 1)
    BY <1>3, <1>4
  <2> QED BY <2>1, Zenon DEF LastDirty
<1>10. /\ \A t \in Slot \ {s} : minodes'[t] = minodes[t] /\ held'[t] = held[t]
       /\ held'[s][i] = held[s][i] - 1
       /\ \A j \in Ino \ {i} : held'[s][j] = held[s][j]
  BY <1>1, <1>2 DEF TypeOK
<1>11. minodes'[s].dirty = (minodes[s].dirty /\ (minodes[s].refCount # 1 \/ thrown))
  BY <1>7, <1>8, Zenon
<1>12. table' = IF minodes[s].dirty /\ minodes[s].refCount = 1 /\ ~thrown
               THEN [table EXCEPT ![i] = minodes[s].ip] ELSE table
  <2>1. Writes(minodes[s], thrown) = (minodes[s].dirty /\ minodes[s].refCount = 1 /\ ~thrown)
    BY <1>9, Zenon DEF Writes
  <2> QED BY <1>1, <1>4, <2>1, Zenon
<1>13. dropped' = IF ~(minodes[s].dirty /\ minodes[s].refCount = 1) THEN dropped
                  ELSE IF thrown THEN dropped \cup {i} ELSE dropped \ {i}
  BY <1>1, <1>4, <1>9, Zenon
<1> QED BY <1>3, <1>4, <1>6, <1>10, <1>11, <1>12, <1>13 DEF PutEffect

LEMMA PutInv ==
  ASSUME CacheInv, NEW s \in Slot, NEW i \in Ino, NEW thrown \in BOOLEAN,
         PutMinode(s, i, thrown)
  PROVE  CacheInv'
<1>0. PutEffect(s, i, thrown)
  BY PutMinodeEffect
<1>1. TypeOK /\ Unique /\ PointersStable /\ EvictionSafe
  BY DEF CacheInv
<1>2. TypeOK'
  <2>1. minodes' \in [Slot -> Minode]
    <3>1. minodes' = [minodes EXCEPT ![s] = AfterPut(minodes[s], thrown)]
      BY DEF PutMinode
    <3>0. minodes[s].refCount \in Nat \ {0}
      BY <1>0 DEF PutEffect
    <3>2. minodes[s] \in Minode /\ minodes[s].refCount - 1 \in Nat
      BY <1>1, <3>0 DEF TypeOK
    <3>3. AfterPut(minodes[s], thrown) \in Minode
      BY <3>2 DEF AfterPut, Minode
    <3> QED BY <1>1, <3>1, <3>3 DEF TypeOK
  <2>2. table' \in [Ino -> Value]
    BY <1>0, <1>1 DEF PutEffect, TypeOK, Minode
  <2>3. held' \in [Slot -> [Ino -> Nat]]
    <3>1. held' = [held EXCEPT ![s][i] = held[s][i] - 1]
      BY DEF PutMinode
    <3>2. held[s][i] - 1 \in Nat
      BY <1>0 DEF PutEffect
    <3> QED BY <1>1, <3>1, <3>2 DEF TypeOK
  <2>4. dropped' \subseteq Ino
    BY <1>0, <1>1 DEF PutEffect, TypeOK
  <2> QED BY <1>1, <2>1, <2>2, <2>3, <2>4 DEF TypeOK
<1>3. Unique'
  BY <1>0, <1>1 DEF Unique, PutEffect
<1>4. PointersStable'
  <2> SUFFICES ASSUME NEW t \in Slot
               PROVE  /\ \A j \in Ino : held'[t][j] > 0 => minodes'[t].ino = j
                      /\ minodes'[t].ino = NoIno => minodes'[t].refCount = 0
                      /\ minodes'[t].ino # NoIno =>
                           minodes'[t].refCount = held'[t][minodes'[t].ino]
    BY DEF PointersStable
  <2>1. CASE t = s
    BY <1>0, <1>1, <2>1 DEF PointersStable, PutEffect, Ino, NoIno
  <2>2. CASE t # s
    BY <1>0, <1>1, <2>2 DEF PointersStable, PutEffect
  <2> QED BY <2>1, <2>2
<1>5. FreeIsClean'
  <2> SUFFICES ASSUME NEW t \in Slot, minodes'[t].refCount = 0, minodes'[t].dirty
               PROVE  minodes'[t].ino \in dropped'
    BY DEF FreeIsClean
  <2>1. CASE t = s
    <3>1. minodes[s].refCount = 1
      BY <1>0, <2>1 DEF PutEffect
    <3>2. minodes[s].dirty /\ thrown
      BY <1>0, <2>1, <3>1 DEF PutEffect
    <3> QED BY <1>0, <2>1, <3>1, <3>2 DEF PutEffect
  <2>2. CASE t # s
    <3>1. minodes'[t] = minodes[t] /\ minodes[t].ino \in dropped
      BY <1>0, <1>1, <2>2 DEF EvictionSafe, FreeIsClean, PutEffect
    <3>2. minodes[t].ino # NoIno
      BY <1>1, <3>1 DEF TypeOK, Ino, NoIno
    <3>3. minodes[t].ino # i
      BY <1>0, <1>1, <2>2, <3>2 DEF PutEffect, Unique
    <3> QED BY <1>0, <3>1, <3>3 DEF PutEffect
  <2> QED BY <2>1, <2>2
<1>7. DroppedIsKept'
  <2> SUFFICES ASSUME NEW j \in dropped'
               PROVE  \E t \in Slot : minodes'[t].ino = j /\ minodes'[t].dirty
    BY DEF DroppedIsKept
  <2>1. CASE j = i
    <3>1. CASE minodes[s].dirty /\ minodes[s].refCount = 1
      <4>1. thrown
        BY <1>0, <2>1, <3>1 DEF PutEffect
      <4> QED BY <1>0, <2>1, <3>1, <4>1 DEF PutEffect
    <3>2. CASE ~(minodes[s].dirty /\ minodes[s].refCount = 1)
      <4>1. PICK t \in Slot : minodes[t].ino = i /\ minodes[t].dirty
        BY <1>0, <1>1, <2>1, <3>2 DEF PutEffect, EvictionSafe, DroppedIsKept
      <4>2. t = s
        BY <1>0, <1>1, <4>1 DEF PutEffect, Unique, Ino, NoIno
      <4> QED BY <1>0, <2>1, <3>2, <4>1, <4>2 DEF PutEffect
    <3> QED BY <3>1, <3>2
  <2>2. CASE j # i
    <3>1. j \in dropped
      BY <1>0, <2>2 DEF PutEffect
    <3>2. PICK t \in Slot : minodes[t].ino = j /\ minodes[t].dirty
      BY <1>1, <3>1 DEF EvictionSafe, DroppedIsKept
    <3>3. t # s
      BY <1>0, <2>2, <3>2 DEF PutEffect
    <3> QED BY <1>0, <3>2, <3>3 DEF PutEffect
  <2> QED BY <2>1, <2>2
<1>6. NothingToLose'
  <2> SUFFICES ASSUME NEW t \in Slot, ~minodes'[t].dirty, minodes'[t].ino # NoIno
               PROVE  minodes'[t].ip = table'[minodes'[t].ino]
    BY DEF NothingToLose
  <2>1. CASE t = s
    <3>1. CASE minodes[s].dirty
      <4>1. minodes[s].refCount = 1
        BY <1>0, <2>1, <3>1 DEF PutEffect
      <4>2. ~thrown
        BY <1>0, <2>1, <3>1, <4>1 DEF PutEffect
      <4> QED BY <1>0, <1>1, <2>1, <3>1, <4>1, <4>2 DEF PutEffect, TypeOK
    <3>2. CASE ~minodes[s].dirty
      BY <1>0, <1>1, <2>1, <3>2 DEF PutEffect, EvictionSafe, NothingToLose
    <3> QED BY <3>1, <3>2
  <2>2. CASE t # s
    <3>1. minodes'[t] = minodes[t] /\ minodes[t].ino # i
      BY <1>0, <1>1, <2>2 DEF PutEffect, Unique, NoIno, Ino
    <3>2. minodes[t].ip = table[minodes[t].ino]
      BY <1>1, <3>1 DEF EvictionSafe, NothingToLose
    <3>3. minodes[t].ino \in Ino
      BY <1>1, <3>1 DEF TypeOK, Minode
    <3>4. table'[minodes[t].ino] = table[minodes[t].ino]
      BY <1>0, <1>1, <3>1, <3>3 DEF PutEffect, TypeOK
    <3> QED BY <3>1, <3>2, <3>4
  <2> QED BY <2>1, <2>2
<1> QED BY <1>2, <1>3, <1>4, <1>5, <1>6, <1>7 DEF CacheInv, EvictionSafe

LEMMA KillInv ==
  ASSUME CacheInv, Kill
  PROVE  CacheInv'
<1>1. MountedState'
  BY DEF Kill, MountedState, Mounted, MountedHeld, CacheInv, TypeOK
<1> QED BY <1>1, MountedInv, PTL

LEMMA StepInv == CacheInv /\ [Next]_vars => CacheInv'
<1> SUFFICES ASSUME CacheInv, [Next]_vars PROVE CacheInv' OBVIOUS
<1>1. ASSUME NEW s \in Slot, NEW i \in Ino, GetMinode(s, i) PROVE CacheInv'
  BY <1>1, GetHitInv, GetLoadInv DEF GetMinode
<1>2. ASSUME NEW s \in Slot, NEW i \in Ino, NEW thrown \in BOOLEAN, PutMinode(s, i, thrown)
      PROVE  CacheInv'
  BY <1>2, PutInv
<1>3. ASSUME NEW s \in Slot, NEW i \in Ino, NEW v \in Value, Change(s, i, v) PROVE CacheInv'
  BY <1>3, ChangeInv
<1>4. CASE Kill
  BY <1>4, KillInv
<1>5. CASE UNCHANGED vars
  BY <1>5 DEF vars, CacheInv, TypeOK, Unique, PointersStable, EvictionSafe,
              NothingToLose, FreeIsClean, DroppedIsKept
<1> QED BY <1>1, <1>2, <1>3, <1>4, <1>5 DEF Next

(* The conjunction of the cache's invariants is an invariant. *)
THEOREM CacheInvariant == Spec => []CacheInv
  BY InitInv, StepInv, PTL DEF Spec

(* The cache state stays in its types; in particular no refCount is ever    *)
(* negative while gets and puts are balanced.                               *)
THEOREM TypeCorrect == Spec => []TypeOK
  BY CacheInvariant, PTL DEF CacheInv

(* No inode is ever in two slots of minodes[]. *)
THEOREM UniqueCopy == Spec => []Unique
  BY CacheInvariant, PTL DEF CacheInv

(* No slot is loaded with another inode under a pointer to it, and refCount  *)
(* counts the pointers.                                                     *)
THEOREM StablePointers == Spec => []PointersStable
  BY CacheInvariant, PTL DEF CacheInv

(* Every slot get_minode may overwrite holds what the disk already has, or   *)
(* an inode whose last put came under an error, which stays in its slot     *)
(* until another takes it.                                                  *)
THEOREM SafeEviction == Spec => []EvictionSafe
  BY CacheInvariant, PTL DEF CacheInv

-----------------------------------------------------------------------------
(* The refinement.  What View shows of an inode: the slot that holds it, or  *)
(* the disk.                                                                *)
ViewIs ==
  /\ \A s \in Slot : minodes[s].ino \in Ino => View[minodes[s].ino] = minodes[s].ip
  /\ \A i \in Ino : (\A s \in Slot : minodes[s].ino # i) => View[i] = table[i]

LEMMA ViewShows == CacheInv => ViewIs
<1> SUFFICES ASSUME CacheInv PROVE ViewIs OBVIOUS
<1>1. ASSUME NEW s \in Slot, minodes[s].ino \in Ino
      PROVE  View[minodes[s].ino] = minodes[s].ip
  <2> DEFINE i == minodes[s].ino
             c == CHOOSE t \in Slot : Hit(t, i)
  <2>1. c \in Slot /\ Hit(c, i) /\ Cached(i)
    BY DEF Hit, Cached
  <2>2. c = s
    BY <1>1, <2>1 DEF CacheInv, Unique, Hit, Ino, NoIno
  <2>3. View[i] = minodes[c].ip
    BY <1>1, <2>1 DEF View
  <2> QED BY <2>2, <2>3
<1>2. ASSUME NEW i \in Ino, \A s \in Slot : minodes[s].ino # i PROVE View[i] = table[i]
  BY <1>2 DEF View, Cached, Hit
<1> QED BY <1>1, <1>2 DEF ViewIs

(* View is a function on the inodes, in any state. *)
ViewOnIno == View = [i \in Ino |-> View[i]] /\ DOMAIN View = Ino

LEMMA ViewFun == ViewOnIno
  BY DEF View, ViewOnIno

LEMMA SameView ==
  ASSUME CacheInv, CacheInv',
         \A t \in Slot : minodes'[t].ino = minodes[t].ino /\ minodes'[t].ip = minodes[t].ip,
         \A i \in Ino : Cached(i) \/ table'[i] = table[i]
  PROVE  View' = View
<1>1. ViewIs /\ ViewIs'
  BY ViewShows, PTL
<1>2. ASSUME NEW i \in Ino PROVE View'[i] = View[i]
  <2>1. ASSUME NEW s \in Slot, minodes[s].ino = i PROVE View'[i] = View[i]
    BY <1>1, <2>1 DEF ViewIs
  <2>2. CASE \A s \in Slot : minodes[s].ino # i
    BY <1>1, <2>2 DEF ViewIs, Cached, Hit
  <2> QED BY <2>1, <2>2
<1>3. ViewOnIno /\ ViewOnIno'
  BY ViewFun, PTL
<1> QED BY <1>2, <1>3 DEF ViewOnIno

(* A load takes the place of the slot it overwrites: nothing is seen to      *)
(* change, but for a dropped inode that was in it.                          *)
LEMMA LoadShows ==
  ASSUME CacheInv, CacheInv', NEW s \in Slot, NEW i \in Ino, GetLoad(s, i), table' = table
  PROVE  /\ View[i] = table[i] /\ View'[i] = table[i]
         /\ \A j \in Ino \ {i} :
              View'[j] = IF j = minodes[s].ino THEN table[j] ELSE View[j]
<1>0. ViewIs /\ ViewIs'
  BY ViewShows, PTL
<1>1. /\ ~Cached(i) /\ minodes \in [Slot -> Minode]
      /\ minodes' = [minodes EXCEPT ![s] =
           [ino |-> i, refCount |-> 1, dirty |-> FALSE, ip |-> table[i]]]
  BY DEF GetLoad, CacheInv, TypeOK
<1>2. /\ minodes'[s] = [ino |-> i, refCount |-> 1, dirty |-> FALSE, ip |-> table[i]]
      /\ \A t \in Slot \ {s} : minodes'[t] = minodes[t]
  BY <1>1
<1>3. \A t \in Slot : minodes[t].ino # i
  BY <1>1 DEF Cached, Hit
<1>4. View[i] = table[i] /\ View'[i] = table[i]
  BY <1>0, <1>2, <1>3 DEF ViewIs
<1>5. ASSUME NEW j \in Ino \ {i}, j = minodes[s].ino PROVE View'[j] = table[j]
  <2>1. \A t \in Slot : minodes'[t].ino # j
    BY <1>2, <1>5 DEF CacheInv, Unique, Ino, NoIno
  <2> QED BY <1>0, <2>1 DEF ViewIs
<1>6. ASSUME NEW j \in Ino \ {i}, j # minodes[s].ino PROVE View'[j] = View[j]
  <2>1. ASSUME NEW t \in Slot, minodes[t].ino = j PROVE View'[j] = View[j]
    BY <1>0, <1>2, <1>6, <2>1 DEF ViewIs
  <2>2. CASE \A t \in Slot : minodes[t].ino # j
    <3>1. \A t \in Slot : minodes'[t].ino # j
      BY <1>2, <1>6, <2>2
    <3> QED BY <1>0, <2>2, <3>1 DEF ViewIs
  <2> QED BY <2>1, <2>2
<1> QED BY <1>4, <1>5, <1>6

LEMMA GetRefines ==
  ASSUME CacheInv, CacheInv', NEW s \in Slot, NEW i \in Ino, GetMinode(s, i)
  PROVE  Store!Acquire(i) \/ \E j \in Ino : Store!AcquireOver(i, j)
<1>0. ViewIs /\ ViewIs' /\ ViewOnIno /\ ViewOnIno'
  BY ViewShows, ViewFun, PTL
<1>1. TypeOK /\ held' = [held EXCEPT ![s][i] = @ + 1] /\ table' = table
      /\ call' = <<"get", i, minodes'[s].ip>>
  BY DEF CacheInv, GetMinode, Hold
<1>2. Busy' = Busy \cup {i}
  BY <1>1 DEF Busy, TypeOK
<1>3. CASE GetHit(s, i)
  <2>1. /\ minodes[s].ino = i /\ minodes' = [minodes EXCEPT ![s].refCount = @ + 1]
        /\ dropped' = dropped
    BY <1>3 DEF GetHit, FirstHit, Hit
  <2>2. \A t \in Slot : minodes'[t].ino = minodes[t].ino /\ minodes'[t].ip = minodes[t].ip
    BY <1>1, <2>1 DEF TypeOK, Minode
  <2>3. View' = View
    BY <1>1, <2>2, SameView
  <2>4. View[i] = minodes'[s].ip
    BY <1>0, <2>1, <2>2 DEF ViewIs
  <2> QED BY <1>1, <1>2, <2>1, <2>3, <2>4 DEF Store!Acquire
<1>4. CASE GetLoad(s, i)
  <2> DEFINE d == minodes[s].ino
  <2>1. /\ ~Cached(i) /\ Free(s) /\ minodes'[s].ip = table[i]
        /\ dropped' = dropped \ {d}
    BY <1>1, <1>4 DEF GetLoad, FirstFree, TypeOK
  <2>2. /\ View[i] = table[i] /\ View'[i] = table[i]
        /\ \A j \in Ino \ {i} : View'[j] = IF j = d THEN table[j] ELSE View[j]
    BY <1>1, <1>4, LoadShows
  <2>3. d # i
    BY <2>1 DEF Cached, Hit
  <2>4. CASE d \in dropped
    <3>1. d \in Ino
      BY <1>1, <2>4 DEF TypeOK
    <3>2. \A t \in Slot : held[t][d] = 0
      <4> SUFFICES ASSUME NEW t \in Slot, held[t][d] > 0 PROVE FALSE
        BY <1>1, <3>1 DEF TypeOK
      <4>1. minodes[t].ino = d /\ minodes[t].refCount # 0 /\ d # NoIno
        BY <3>1, PointerSlot
      <4>2. t = s
        BY <4>1 DEF CacheInv, Unique
      <4> QED BY <2>1, <4>1, <4>2 DEF Free
    <3>3. d \notin Busy
      BY <3>2 DEF Busy
    <3>4. View' = [View EXCEPT ![d] = table[d]]
      BY <1>0, <2>2, <2>3, <3>1 DEF ViewOnIno
    <3>5. Store!AcquireOver(i, d)
      BY <1>1, <1>2, <2>1, <2>2, <2>3, <2>4, <3>3, <3>4 DEF Store!AcquireOver
    <3> QED BY <3>1, <3>5
  <2>5. CASE d \notin dropped
    <3>1. d \in Ino => View[d] = table[d]
      <4> SUFFICES ASSUME d \in Ino PROVE View[d] = table[d] OBVIOUS
      <4>1. ~minodes[s].dirty
        BY <2>1, <2>5 DEF CacheInv, EvictionSafe, FreeIsClean, Free
      <4>2. minodes[s].ip = table[d]
        BY <4>1 DEF CacheInv, EvictionSafe, NothingToLose, Ino, NoIno
      <4> QED BY <1>0, <4>2 DEF ViewIs
    <3>2. View' = View
      BY <1>0, <2>2, <3>1 DEF ViewOnIno
    <3>3. dropped' = dropped
      BY <2>1, <2>5
    <3> QED BY <1>1, <1>2, <2>1, <2>2, <3>2, <3>3 DEF Store!Acquire
  <2> QED BY <2>4, <2>5
<1> QED BY <1>3, <1>4 DEF GetMinode

LEMMA ChangeRefines ==
  ASSUME CacheInv, CacheInv', NEW s \in Slot, NEW i \in Ino, NEW v \in Value, Change(s, i, v)
  PROVE  Store!Write(i, v)
<1>0. ViewIs /\ ViewIs'
  BY ViewShows, PTL
<1>1. /\ TypeOK /\ held[s][i] > 0 /\ held' = held /\ table' = table /\ dropped' = dropped
      /\ minodes' = [minodes EXCEPT ![s].ip = v, ![s].dirty = TRUE]
      /\ call' = <<"change", i, v>>
  BY DEF CacheInv, Change
<1>2. minodes[s].ino = i
  BY <1>1, PointerSlot
<1>3. /\ minodes'[s].ino = i /\ minodes'[s].ip = v
      /\ \A t \in Slot \ {s} : minodes'[t] = minodes[t]
  BY <1>1, <1>2 DEF TypeOK, Minode
<1>4. View'[i] = v
  BY <1>0, <1>3 DEF ViewIs
<1>5. ASSUME NEW j \in Ino \ {i} PROVE View'[j] = View[j]
  <2>1. \A t \in Slot : minodes[t].ino = j => t # s /\ minodes'[t] = minodes[t]
    BY <1>2, <1>3
  <2>2. ASSUME NEW t \in Slot, minodes[t].ino = j PROVE View'[j] = View[j]
    BY <1>0, <2>1, <2>2 DEF ViewIs
  <2>3. CASE \A t \in Slot : minodes[t].ino # j
    <3>1. \A t \in Slot : minodes'[t].ino # j
      BY <1>2, <1>3, <2>3
    <3> QED BY <1>0, <1>1, <2>3, <3>1 DEF ViewIs
  <2> QED BY <2>2, <2>3
<1>6. ViewOnIno /\ ViewOnIno'
  BY ViewFun, PTL
<1>7. View' = [View EXCEPT ![i] = v]
  BY <1>4, <1>5, <1>6 DEF ViewOnIno
<1>8. i \in Busy /\ Busy' = Busy
  BY <1>1 DEF Busy
<1> QED BY <1>1, <1>7, <1>8 DEF Store!Write

LEMMA PutRefines ==
  ASSUME CacheInv, CacheInv', NEW s \in Slot, NEW i \in Ino, NEW thrown \in BOOLEAN,
         PutMinode(s, i, thrown)
  PROVE  Store!Release(i) \/ Store!ReleaseLast(i) \/ Store!Drop(i)
<1>0. PutEffect(s, i, thrown) /\ TypeOK /\ ViewIs
  BY PutMinodeEffect, ViewShows DEF CacheInv
<1>1. call' = <<"put", i>> /\ held[s][i] > Permanent(i)
  BY DEF PutMinode
<1>2. \A t \in Slot : minodes'[t].ino = minodes[t].ino /\ minodes'[t].ip = minodes[t].ip
  BY <1>0 DEF PutEffect
<1>3. \A j \in Ino : Cached(j) \/ table'[j] = table[j]
  BY <1>0 DEF PutEffect, Cached, Hit, TypeOK
<1>4. View' = View
  BY <1>2, <1>3, SameView
<1>5. i \in Busy
  BY <1>0 DEF PutEffect, Busy
<1>6. View[i] = minodes[s].ip
  BY <1>0 DEF PutEffect, ViewIs
<1>7. \A t \in Slot \ {s} : held[t][i] = 0
  <2> SUFFICES ASSUME NEW t \in Slot \ {s}, held[t][i] > 0 PROVE FALSE
    BY <1>0 DEF TypeOK
  <2>1. minodes[t].ino = i /\ minodes[s].ino = i /\ i # NoIno
    BY <1>0, PointerSlot DEF PutEffect
  <2> QED BY <2>1 DEF CacheInv, Unique
<1>8. CASE held[s][i] = 1
  <2>1. i # ROOT_INODE
    BY <1>1, <1>8 DEF Permanent
  <2>2. held'[s][i] = 0 /\ \A t \in Slot : held'[t][i] = 0
    BY <1>0, <1>7, <1>8 DEF PutEffect
  <2>3. \A t \in Slot, j \in Ino \ {i} : held'[t][j] = held[t][j]
    BY <1>0 DEF PutEffect
  <2>4. Busy' = Busy \ {i}
    BY <2>2, <2>3 DEF Busy
  <2>5. CASE minodes[s].dirty /\ thrown
    <3>1. table' = table /\ dropped' = dropped \cup {i}
      BY <1>0, <1>8, <2>5 DEF PutEffect
    <3>2. Store!Drop(i)
      BY <1>1, <1>4, <1>5, <2>1, <2>4, <3>1 DEF Store!Drop
    <3> QED BY <3>2
  <2>6. CASE minodes[s].dirty /\ ~thrown
    <3>1. table' = [table EXCEPT ![i] = View[i]] /\ dropped' = dropped \ {i}
      BY <1>0, <1>6, <1>8, <2>6 DEF PutEffect
    <3>2. Store!ReleaseLast(i)
      BY <1>1, <1>4, <1>5, <2>1, <2>4, <3>1 DEF Store!ReleaseLast
    <3> QED BY <3>2
  <2>7. CASE ~minodes[s].dirty
    <3>1. minodes[s].ip = table[i]
      BY <1>0, <2>7 DEF PutEffect, CacheInv, EvictionSafe, NothingToLose, Ino, NoIno
    <3>2. table' = [table EXCEPT ![i] = View[i]]
      BY <1>0, <1>6, <2>7, <3>1 DEF PutEffect, TypeOK
    <3>3. i \notin dropped
      BY <1>0, <2>7 DEF PutEffect, CacheInv, EvictionSafe, DroppedIsKept, Unique, Ino, NoIno
    <3>4. dropped' = dropped \ {i}
      BY <1>0, <2>7, <3>3 DEF PutEffect
    <3>5. Store!ReleaseLast(i)
      BY <1>1, <1>4, <1>5, <2>1, <2>4, <3>2, <3>4 DEF Store!ReleaseLast
    <3> QED BY <3>5
  <2> QED BY <2>5, <2>6, <2>7
<1>9. CASE held[s][i] # 1
  <2>1. held'[s][i] > 0 /\ table' = table /\ dropped' = dropped
    BY <1>0, <1>9 DEF PutEffect
  <2>2. Busy' = Busy
    <3>1. \A t \in Slot \ {s} : held'[t] = held[t]
      BY <1>0 DEF PutEffect
    <3>2. \A j \in Ino \ {i} : held'[s][j] = held[s][j]
      BY <1>0 DEF PutEffect
    <3>3. held[s][i] > 0
      BY <1>0 DEF PutEffect
    <3>4. \A t \in Slot, j \in Ino : (held'[t][j] > 0) = (held[t][j] > 0)
      BY <2>1, <3>1, <3>2, <3>3
    <3> QED BY <3>4 DEF Busy
  <2>3. Store!Release(i)
    BY <1>1, <1>4, <1>5, <2>1, <2>2 DEF Store!Release
  <2> QED BY <2>3
<1> QED BY <1>8, <1>9

MountedView == View = table /\ Busy = {ROOT_INODE}

LEMMA MountedRefines == MountedState => MountedView
<1> SUFFICES ASSUME MountedState PROVE MountedView OBVIOUS
<1>1. ViewIs /\ ViewOnIno
  BY MountedInv, ViewShows, ViewFun
<1>2. ROOT_INODE \in Ino /\ NoIno \notin Ino /\ 1 \in Slot
  BY DEF Ino, NoIno, Slot
<1>3. /\ minodes[1].ino = ROOT_INODE /\ minodes[1].ip = table[ROOT_INODE]
      /\ \A s \in Slot \ {1} : minodes[s].ino = NoIno
  BY <1>2 DEF MountedState, Mounted
<1>4. ASSUME NEW i \in Ino PROVE View[i] = table[i]
  <2>1. CASE i = ROOT_INODE
    BY <1>1, <1>2, <1>3, <2>1 DEF ViewIs
  <2>2. CASE i # ROOT_INODE
    <3>1. \A s \in Slot : minodes[s].ino # i
      BY <1>2, <1>3, <2>2
    <3> QED BY <1>1, <3>1 DEF ViewIs
  <2> QED BY <2>1, <2>2
<1>5. View = table
  BY <1>1, <1>4 DEF MountedState, ViewOnIno
<1>6. \A s \in Slot, i \in Ino : held[s][i] = IF s = 1 /\ i = ROOT_INODE THEN 2 ELSE 0
  BY DEF MountedState, MountedHeld
<1>7. Busy = {ROOT_INODE}
  BY <1>2, <1>6 DEF Busy
<1> QED BY <1>5, <1>7 DEF MountedView

LEMMA KillRefines ==
  ASSUME CacheInv, CacheInv', Kill
  PROVE  Store!Kill
<1>1. MountedState' /\ table' = table /\ call' = <<"boot">> /\ dropped' = {}
  BY DEF Kill, MountedState, Mounted, MountedHeld, CacheInv, TypeOK
<1>2. MountedView'
  BY <1>1, MountedRefines, PTL
<1> QED BY <1>1, <1>2 DEF Store!Kill, MountedView

LEMMA InitRefines == Init => Store!Init
<1> SUFFICES ASSUME Init PROVE Store!Init OBVIOUS
<1>1. MountedState
  BY DEF Init, MountedState
<1> QED BY <1>1, MountedRefines DEF Init, Store!Init, MountedView

LEMMA StepRefines == CacheInv /\ CacheInv' /\ [Next]_vars => [Store!Next]_(Store!storeVars)
<1> SUFFICES ASSUME CacheInv, CacheInv', [Next]_vars
             PROVE  [Store!Next]_(Store!storeVars)
  OBVIOUS
<1>1. ASSUME NEW s \in Slot, NEW i \in Ino, GetMinode(s, i) PROVE Store!Next
  BY <1>1, GetRefines DEF Store!Next
<1>2. ASSUME NEW s \in Slot, NEW i \in Ino, NEW thrown \in BOOLEAN, PutMinode(s, i, thrown)
      PROVE  Store!Next
  BY <1>2, PutRefines DEF Store!Next
<1>3. ASSUME NEW s \in Slot, NEW i \in Ino, NEW v \in Value, Change(s, i, v) PROVE Store!Next
  BY <1>3, ChangeRefines DEF Store!Next
<1>4. CASE Kill
  BY <1>4, KillRefines DEF Store!Next
<1>5. CASE UNCHANGED vars
  <2>1. View' = View
    BY <1>5, SameView DEF vars
  <2> QED BY <1>5, <2>1 DEF vars, Store!storeVars, Busy
<1> QED BY <1>1, <1>2, <1>3, <1>4, <1>5 DEF Next

(* The cache implements the store: get_minode shows what the users of the    *)
(* inode last made of it; updates are lost only by a kill, to inodes in use  *)
(* or dropped, and when the slot of a dropped inode is taken, whatever the  *)
(* number of slots, inodes and pointers.                                    *)
THEOREM Refinement == Spec => ImplementsStore
<1>1. Init => Store!Init BY InitRefines
<1>2. CacheInv /\ CacheInv' /\ [Next]_vars => [Store!Next]_(Store!storeVars) BY StepRefines
<1>3. Spec => []CacheInv BY CacheInvariant
<1>4. Spec => Store!Init /\ [][Store!Next]_(Store!storeVars)
  BY <1>1, <1>2, <1>3, PTL DEF Spec
<1> QED BY <1>4 DEF ImplementsStore, Store!Spec

(* An inode nobody points to, and not dropped under an error, is on the disk  *)
(* as its last user left it, after any run of the cache: the store keeps     *)
(* that promise by itself, and the cache implements the store.               *)
THEOREM Durability == Spec => []Settled
<1>1. Store!Init => Settled
  BY DEF Store!Init, Settled, Store!Durable
<1>2. CacheInv /\ Settled /\ [Store!Next]_(Store!storeVars) => Settled'
  <2> SUFFICES ASSUME CacheInv, Settled, [Store!Next]_(Store!storeVars), NEW j \in Ino,
                      j \notin Busy', j \notin dropped'
               PROVE  table'[j] = View'[j]
    BY DEF Settled, Store!Durable
  <2>1. ASSUME NEW i \in Ino, Store!Acquire(i) PROVE table'[j] = View'[j]
    BY <2>1 DEF Store!Acquire, Settled, Store!Durable
  <2>2. ASSUME NEW i \in Ino, Store!Release(i) PROVE table'[j] = View'[j]
    BY <2>2 DEF Store!Release, Settled, Store!Durable
  <2>3. ASSUME NEW i \in Ino, Store!ReleaseLast(i) PROVE table'[j] = View'[j]
    BY <2>3 DEF CacheInv, TypeOK, Store!ReleaseLast, Settled, Store!Durable
  <2>7. ASSUME NEW i \in Ino, Store!Drop(i) PROVE table'[j] = View'[j]
    BY <2>7 DEF Store!Drop, Settled, Store!Durable
  <2>8. ASSUME NEW i \in Ino, NEW k \in Ino, Store!AcquireOver(i, k)
        PROVE  table'[j] = View'[j]
    <3>1. View' = [View EXCEPT ![k] = table[k]] /\ table' = table
      BY <2>8 DEF Store!AcquireOver
    <3>2. CASE j = k
      BY <3>1, <3>2, ViewFun DEF ViewOnIno
    <3>3. CASE j # k
      <4>1. j \notin Busy /\ j \notin dropped
        BY <2>8, <3>3 DEF Store!AcquireOver
      <4> QED BY <3>1, <3>3, <4>1, ViewFun DEF ViewOnIno, Settled, Store!Durable
    <3> QED BY <3>2, <3>3
  <2>4. ASSUME NEW i \in Ino, NEW v \in Value, Store!Write(i, v) PROVE table'[j] = View'[j]
    BY <2>4 DEF Store!Write, Settled, Store!Durable
  <2>5. CASE Store!Kill
    BY <2>5 DEF Store!Kill
  <2>6. CASE UNCHANGED Store!storeVars
    BY <2>6 DEF Store!storeVars, Settled, Store!Durable
  <2> QED BY <2>1, <2>2, <2>3, <2>4, <2>5, <2>6, <2>7, <2>8 DEF Store!Next
<1> QED BY Refinement, CacheInvariant, <1>1, <1>2, PTL DEF ImplementsStore, Store!Spec
=============================================================================
