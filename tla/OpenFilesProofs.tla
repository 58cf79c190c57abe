--------------------------- MODULE OpenFilesProofs ---------------------------
(***************************************************************************)
(* Proofs about the open files and the current directory, for tables and   *)
(* devices of any size: who holds which slot and which table entry, and    *)
(* that an offset stays in its file.                                       *)
(***************************************************************************)
EXTENDS OpenFiles, FiniteSetTheorems, WellFoundedInduction, TLAPS

USE OpenFilesAssumption

(* A set of natural numbers has a least element, which is what Least is.     *)
LEMMA LeastNat ==
  ASSUME NEW T \in SUBSET Nat, T # {}
  PROVE  \E x \in T : \A y \in T : x <= y
<1>1. \E x \in T : \A y \in T : ~(<<y, x>> \in OpToRel(<, Nat))
  BY NatLessThanWellFounded, WFMin
<1>2. PICK x \in T : \A y \in T : ~(<<y, x>> \in OpToRel(<, Nat))
  BY <1>1
<1>3. \A y \in T : ~(y < x)
  BY <1>2 DEF OpToRel
<1> QED BY <1>3

(* Least picks a member.                                                     *)
LEMMA LeastIn ==
  ASSUME NEW T \in SUBSET Nat, T # {}
  PROVE  Least(T) \in T
  BY LeastNat DEF Least

-----------------------------------------------------------------------------
(* The slots.  No inode is in two of them: get_minode looks for it first.    *)
MinodesType == [Slot -> [ino : Ino \cup {NoIno}, refCount : Int]]
Distinct(m) == \A s, t \in Slot : m[s].ino = m[t].ino /\ m[s].ino # NoIno => s = t
Good(m) == m \in MinodesType /\ Distinct(m)

(* n comes of m by gets, and by puts of what was got on the way: a slot with *)
(* a reference keeps its inode.  The references gained since.               *)
Held(m, n) ==
  /\ Good(n)
  /\ \A s \in Slot :
       /\ n[s].refCount >= m[s].refCount
       /\ m[s].refCount >= 1 => n[s].ino = m[s].ino
       /\ m[s].ino # NoIno => n[s].ino # NoIno
Gained(m, n, t) ==
  Held(m, n) /\ \A s \in Slot : n[s].refCount = m[s].refCount + (IF s = t THEN 1 ELSE 0)
Balanced(m, n) ==
  Held(m, n) /\ \A s \in Slot : n[s].refCount = m[s].refCount

(* get_minode finds the slot of the inode, or an unused one when the inode   *)
(* is in none.                                                               *)
LEMMA WhereFacts ==
  ASSUME NEW m, Good(m), NEW i \in Ino, CanGet(m, i)
  PROVE  /\ Where(m, i) \in Slot
         /\ m[Where(m, i)].ino = i \/ m[Where(m, i)].refCount = 0
         /\ m[Where(m, i)].ino # i => \A s \in Slot : m[s].ino # i
<1>1. Holding(m, i) \in SUBSET Nat /\ Unused(m) \in SUBSET Nat
  BY DEF Holding, Unused, Slot
<1>2. CASE Holding(m, i) # {}
  BY <1>1, <1>2, LeastIn DEF Where, Holding
<1>3. CASE Holding(m, i) = {}
  <2>1. Unused(m) # {} /\ Where(m, i) = Least(Unused(m))
    BY <1>3 DEF CanGet, Where
  <2> QED BY <1>1, <1>3, <2>1, LeastIn DEF Holding, Unused
<1> QED BY <1>2, <1>3

(* A get gains one reference, in the slot it returns, which then holds the   *)
(* inode; no other slot changes.                                             *)
LEMMA GetGains ==
  ASSUME NEW m, Good(m), NEW i \in Ino, CanGet(m, i)
  PROVE  /\ Gained(m, Get(m, i), Where(m, i)) /\ Where(m, i) \in Slot
         /\ Get(m, i)[Where(m, i)].ino = i
         /\ \A s \in Slot : s # Where(m, i) => Get(m, i)[s] = m[s]
<1> DEFINE w == Where(m, i)
           n == Get(m, i)
<1>1. /\ w \in Slot /\ (m[w].ino = i \/ m[w].refCount = 0)
      /\ m[w].ino # i => \A s \in Slot : m[s].ino # i
  BY WhereFacts
<1>2. m \in MinodesType /\ i # NoIno /\ m[w].refCount \in Int
  BY <1>1 DEF Good, MinodesType, Ino, NoIno, ROOT_INODE
<1>3. n = [m EXCEPT ![w] = [ino |-> i, refCount |-> IF m[w].ino = i THEN m[w].refCount + 1 ELSE 1]]
  BY <1>1, <1>2 DEF Get, MinodesType
<1> HIDE DEF w, n
<1>4. n \in MinodesType /\ n[w].ino = i /\ n[w].refCount = m[w].refCount + 1
  BY <1>1, <1>2, <1>3 DEF MinodesType
<1>5. \A s \in Slot : s # w => n[s] = m[s]
  BY <1>2, <1>3 DEF MinodesType
<1>6. Distinct(n)
  BY <1>1, <1>2, <1>4, <1>5 DEF Good, Distinct
<1>7. \A s \in Slot : m[s].refCount \in Int
  BY <1>2 DEF MinodesType
<1>8. Held(m, n)
  BY <1>1, <1>2, <1>4, <1>5, <1>6, <1>7 DEF Held, Good
<1>9. Gained(m, n, w)
  BY <1>1, <1>4, <1>5, <1>7, <1>8 DEF Gained
<1> QED BY <1>1, <1>4, <1>5, <1>9 DEF w, n

(* A put keeps the inode. *)
LEMMA PutFacts ==
  ASSUME NEW m, Good(m), NEW t \in Slot
  PROVE  /\ Good(Put(m, t))
         /\ \A s \in Slot :
              /\ Put(m, t)[s].ino = m[s].ino
              /\ Put(m, t)[s].refCount = m[s].refCount - (IF s = t THEN 1 ELSE 0)
<1>1. m \in MinodesType /\ Distinct(m) /\ Put(m, t) = [m EXCEPT ![t].refCount = @ - 1]
  BY DEF Good, Put
<1>2. Put(m, t) \in MinodesType
  BY <1>1 DEF MinodesType
<1>3. \A s \in Slot :
        /\ Put(m, t)[s].ino = m[s].ino
        /\ Put(m, t)[s].refCount = m[s].refCount - (IF s = t THEN 1 ELSE 0)
  BY <1>1 DEF MinodesType
<1>4. Distinct(Put(m, t))
  BY <1>1, <1>3 DEF Distinct
<1> QED BY <1>2, <1>3, <1>4 DEF Good

(* The fields of a slot are of their types.                                  *)
LEMMA Refs ==
  ASSUME NEW m, Good(m)
  PROVE  \A s \in Slot : m[s].refCount \in Int /\ m[s].ino \in Ino \cup {NoIno}
  BY DEF Good, MinodesType

(* To put what was just got leaves every count as it was.                    *)
LEMMA PutBack ==
  ASSUME NEW m, NEW n, NEW t \in Slot, Good(m), Gained(m, n, t)
  PROVE  Balanced(m, Put(n, t))
<1>1. /\ Good(n) /\ Held(m, n)
      /\ \A s \in Slot : n[s].refCount = m[s].refCount + (IF s = t THEN 1 ELSE 0)
  BY DEF Gained, Held
<1>2. /\ Good(Put(n, t))
      /\ \A s \in Slot :
           /\ Put(n, t)[s].ino = n[s].ino
           /\ Put(n, t)[s].refCount = n[s].refCount - (IF s = t THEN 1 ELSE 0)
  BY <1>1, PutFacts
<1>3. \A s \in Slot : m[s].refCount \in Int
  BY Refs
<1>4. \A s \in Slot : Put(n, t)[s].refCount = m[s].refCount
  BY <1>1, <1>2, <1>3
<1> QED BY <1>1, <1>2, <1>3, <1>4 DEF Balanced, Held

(* Held, and then held: held.                                                *)
LEMMA HeldTrans ==
  ASSUME NEW m, NEW n, NEW k, Good(m), Held(m, n), Held(n, k)
  PROVE  Held(m, k)
<1>1. Good(n) /\ Good(k) BY DEF Held
<1> QED BY <1>1, Refs DEF Held

(* A reference gained is not lost by a balanced command.                     *)
LEMMA GainedThenBalanced ==
  ASSUME NEW m, NEW n, NEW k, NEW t, Good(m), Gained(m, n, t), Balanced(n, k)
  PROVE  Gained(m, k, t)
<1>1. Held(m, k) BY HeldTrans DEF Gained, Balanced
<1> QED BY <1>1 DEF Gained, Balanced

(* Nor by one that went before.                                              *)
LEMMA BalancedThenGained ==
  ASSUME NEW m, NEW n, NEW k, NEW t, Good(m), Balanced(m, n), Gained(n, k, t)
  PROVE  Gained(m, k, t)
<1>1. Held(m, k) BY HeldTrans DEF Gained, Balanced
<1> QED BY <1>1 DEF Gained, Balanced

(* Two balanced commands are balanced.                                       *)
LEMMA BalancedTwice ==
  ASSUME NEW m, NEW n, NEW k, Good(m), Balanced(m, n), Balanced(n, k)
  PROVE  Balanced(m, k)
<1>1. Held(m, k) BY HeldTrans DEF Balanced
<1> QED BY <1>1 DEF Balanced

(* The order of two puts does not matter.                                    *)
LEMMA PutSwap ==
  ASSUME NEW m, Good(m), NEW s \in Slot, NEW t \in Slot
  PROVE  Put(Put(m, s), t) = Put(Put(m, t), s)
<1>1. Good(Put(m, s)) /\ Good(Put(m, t)) /\ Good(Put(Put(m, s), t)) /\ Good(Put(Put(m, t), s))
  BY PutFacts
<1>2. \A r \in Slot : /\ Put(Put(m, s), t)[r].ino = Put(Put(m, t), s)[r].ino
                      /\ Put(Put(m, s), t)[r].refCount = Put(Put(m, t), s)[r].refCount
  <2>1. \A r \in Slot : /\ m[r].refCount \in Int
                        /\ Put(m, s)[r].ino = m[r].ino /\ Put(m, t)[r].ino = m[r].ino
                        /\ Put(m, s)[r].refCount = m[r].refCount - (IF r = s THEN 1 ELSE 0)
                        /\ Put(m, t)[r].refCount = m[r].refCount - (IF r = t THEN 1 ELSE 0)
    BY PutFacts, Refs
  <2>2. \A r \in Slot :
          /\ Put(Put(m, s), t)[r].ino = Put(m, s)[r].ino
          /\ Put(Put(m, t), s)[r].ino = Put(m, t)[r].ino
          /\ Put(Put(m, s), t)[r].refCount = Put(m, s)[r].refCount - (IF r = t THEN 1 ELSE 0)
          /\ Put(Put(m, t), s)[r].refCount = Put(m, t)[r].refCount - (IF r = s THEN 1 ELSE 0)
    BY <1>1, PutFacts
  <2> QED BY <2>1, <2>2
<1>3. \A r \in Slot : Put(Put(m, s), t)[r] = Put(Put(m, t), s)[r]
  BY <1>1, <1>2 DEF Good, MinodesType
<1> QED BY <1>1, <1>3 DEF Good, MinodesType

(* What the commands do with the slots of one and of two inodes. *)
LEMMA GetAndPut ==
  ASSUME NEW m, Good(m), NEW i \in Ino, CanGet(m, i)
  PROVE  Balanced(m, Put(Get(m, i), Where(m, i)))
  BY GetGains, PutBack

(* Two inodes got and put, in either order: ls, creat, mkdir, cp, rmdir and  *)
(* unlink.                                                                   *)
LEMMA TwoGets ==
  ASSUME NEW m, Good(m), NEW p \in Ino, CanGet(m, p), NEW i \in Ino, CanGet(Get(m, p), i)
  PROVE  /\ Balanced(m, Put(Put(Get(Get(m, p), i), Where(Get(m, p), i)), Where(m, p)))
         /\ Balanced(m, Put(Put(Get(Get(m, p), i), Where(m, p)), Where(Get(m, p), i)))
         /\ Held(m, Get(Get(m, p), i))
<1> DEFINE n == Get(m, p)
           k == Get(n, i)
           a == Where(m, p)
           b == Where(n, i)
<1>1. Gained(m, n, a) /\ a \in Slot /\ Good(n)
  BY GetGains DEF Gained, Held
<1>2. Gained(n, k, b) /\ b \in Slot /\ Good(k)
  BY <1>1, GetGains DEF Gained, Held
<1>3. Held(m, k)
  BY <1>1, <1>2, HeldTrans DEF Gained
<1> HIDE DEF n, k, a, b
<1>4. Gained(m, Put(k, b), a)
  BY <1>1, <1>2, PutBack, GainedThenBalanced
<1>5. Balanced(m, Put(Put(k, b), a))
  BY <1>1, <1>4, PutBack
<1>6. Put(Put(k, b), a) = Put(Put(k, a), b)
  BY <1>1, <1>2, PutSwap
<1> QED BY <1>3, <1>5, <1>6 DEF n, k, a, b
-----------------------------------------------------------------------------
(* pwd.  One step up, and that there is a table for each: by induction on    *)
(* the steps taken, the least number of steps without one being impossible.  *)
Up(m, i) == IF CanGet(m, i) THEN Get(m, i) ELSE m
Climbs(q, k, up) == up = [n \in 0..k |-> IF n = 0 THEN minodes ELSE Up(up[n-1], q[n])]

(* For every path there is a table of the climb, so that Climb is it.        *)
LEMMA ClimbExists ==
  ASSUME NEW q \in Seq(Ino)
  PROVE  \E up : Climbs(q, Len(q), up)
<1> DEFINE T == {k \in Nat : ~\E up : Climbs(q, k, up)}
<1>0. Len(q) \in Nat
  OBVIOUS
<1> SUFFICES ASSUME T # {} PROVE FALSE BY <1>0
<1>1. PICK k \in T : \A j \in T : k <= j
  BY LeastNat
<1>2. CASE k = 0
  <2> DEFINE up == [n \in 0..0 |-> minodes]
  <2>1. up = [n \in 0..0 |-> IF n = 0 THEN minodes ELSE Up(up[n-1], q[n])]
    OBVIOUS
  <2> QED BY <1>1, <1>2, <2>1 DEF Climbs
<1>3. CASE k # 0
  <2>1. k \in Nat /\ k-1 \in Nat /\ k-1 \notin T
    BY <1>1, <1>3
  <2>2. PICK up : Climbs(q, k-1, up)
    BY <2>1
  <2>3. up = [n \in 0..k-1 |-> IF n = 0 THEN minodes ELSE Up(up[n-1], q[n])]
    BY <2>2 DEF Climbs
  <2> DEFINE new == [n \in 0..k |-> IF n = k THEN Up(up[k-1], q[k]) ELSE up[n]]
  <2>4. \A n \in 0..k-1 : new[n] = up[n]
    BY <2>1
  <2>5. ASSUME NEW n \in 0..k
        PROVE  new[n] = IF n = 0 THEN minodes ELSE Up(new[n-1], q[n])
    <3>1. CASE n = k
      BY <1>3, <2>1, <2>4, <3>1
    <3>2. CASE n # k
      <4>1. n \in 0..k-1 /\ new[n] = up[n]
        BY <2>1, <2>4, <3>2
      <4>2. up[n] = IF n = 0 THEN minodes ELSE Up(up[n-1], q[n])
        BY <2>3, <4>1
      <4>3. n # 0 => n-1 \in 0..k-1 /\ new[n-1] = up[n-1]
        BY <2>1, <2>4, <4>1
      <4> QED BY <4>1, <4>2, <4>3
    <3> QED BY <3>1, <3>2
  <2>6. Climbs(q, k, new)
    BY <2>5 DEF Climbs
  <2> QED BY <1>1, <2>6
<1> QED BY <1>2, <1>3

(* What the table of the climb holds: rpwd's gets, one directory after the   *)
(* other.                                                                    *)
LEMMA ClimbFacts ==
  ASSUME NEW q \in Seq(Ino)
  PROVE  /\ Climb(q)[0] = minodes
         /\ \A n \in 1..Len(q) : Climb(q)[n] = Up(Climb(q)[n-1], q[n])
<1>1. Climb(q) = CHOOSE up : Climbs(q, Len(q), up)
  BY DEF Climb, Climbs, Up
<1>2. Climbs(q, Len(q), Climb(q))
  BY <1>1, ClimbExists
<1> QED BY <1>2 DEF Climbs

(* Going up, every slot gains one reference for each directory got in it.    *)
LEMMA ClimbGains ==
  ASSUME Good(minodes), NEW q \in Seq(Ino),
         \A n \in 1..Len(q) : CanGet(Climb(q)[n-1], q[n])
  PROVE  \A n \in 0..Len(q) :
           /\ Held(minodes, Climb(q)[n])
           /\ \A s \in Slot :
                /\ IsFiniteSet(GotIn(q, s, n))
                /\ Climb(q)[n][s].refCount = minodes[s].refCount + Cardinality(GotIn(q, s, n))
<1> DEFINE P(n) == /\ Held(minodes, Climb(q)[n])
                   /\ \A s \in Slot :
                        /\ IsFiniteSet(GotIn(q, s, n))
                        /\ Climb(q)[n][s].refCount = minodes[s].refCount + Cardinality(GotIn(q, s, n))
           T == {n \in 0..Len(q) : ~P(n)}
<1> SUFFICES ASSUME T # {} PROVE FALSE OBVIOUS
<1>0. Len(q) \in Nat /\ \A n \in 1..Len(q) : q[n] \in Ino
  OBVIOUS
<1>1. PICK k \in T : \A j \in T : k <= j
  <2>1. T \in SUBSET Nat
    BY <1>0
  <2> QED BY <2>1, LeastNat
<1>2. CASE k = 0
  <2>1. Held(minodes, Climb(q)[0])
    BY ClimbFacts, Refs DEF Held
  <2>2. \A s \in Slot : GotIn(q, s, 0) = {}
    BY DEF GotIn
  <2>3. IsFiniteSet({}) /\ Cardinality({}) = 0
    BY FS_EmptySet
  <2>4. \A s \in Slot : Climb(q)[0][s].refCount = minodes[s].refCount + 0
    BY ClimbFacts, Refs
  <2>5. P(0)
    BY <2>1, <2>2, <2>3, <2>4
  <2> QED BY <1>1, <1>2, <2>5
<1>3. CASE k # 0
  <2> DEFINE m == Climb(q)[k-1]
             n == Climb(q)[k]
             w == Where(m, q[k])
  <2>1. k \in 1..Len(q) /\ k-1 \in 0..Len(q) /\ k-1 \notin T
    BY <1>0, <1>1, <1>3
  <2>2. P(k-1)
    BY <2>1
  <2>3. Good(m)
    BY <2>2 DEF Held
  <2>4. n = Get(m, q[k])
    BY <2>1, ClimbFacts DEF Up
  <2>5. Gained(m, n, w) /\ w \in Slot
    BY <1>0, <2>1, <2>3, <2>4, GetGains
  <2>6. Held(minodes, n)
    BY <2>2, <2>5, HeldTrans DEF Gained
  <2>7. ASSUME NEW s \in Slot
        PROVE  /\ IsFiniteSet(GotIn(q, s, k))
               /\ n[s].refCount = minodes[s].refCount + Cardinality(GotIn(q, s, k))
    <3>1. n[s].refCount = m[s].refCount + (IF s = w THEN 1 ELSE 0)
      BY <2>5 DEF Gained
    <3>2. /\ IsFiniteSet(GotIn(q, s, k-1)) /\ k \notin GotIn(q, s, k-1)
          /\ m[s].refCount = minodes[s].refCount + Cardinality(GotIn(q, s, k-1))
      BY <2>1, <2>2 DEF GotIn
    <3>3. CASE s = w
      <4>1. GotIn(q, s, k) = GotIn(q, s, k-1) \cup {k}
        BY <2>1, <3>3 DEF GotIn
      <4>2. /\ IsFiniteSet(GotIn(q, s, k)) /\ Cardinality(GotIn(q, s, k-1)) \in Nat
            /\ Cardinality(GotIn(q, s, k)) = Cardinality(GotIn(q, s, k-1)) + 1
        BY <3>2, <4>1, FS_AddElement, FS_CardinalityType
      <4>3. minodes[s].refCount \in Int
        BY Refs
      <4> HIDE DEF n, m, w
      <4> QED BY <3>1, <3>2, <3>3, <4>2, <4>3
    <3>4. CASE s # w
      <4>1. GotIn(q, s, k) = GotIn(q, s, k-1)
        BY <2>1, <3>4 DEF GotIn
      <4>2. Cardinality(GotIn(q, s, k-1)) \in Nat /\ minodes[s].refCount \in Int
        BY <3>2, Refs, FS_CardinalityType
      <4> HIDE DEF n, m, w
      <4> QED BY <3>1, <3>2, <3>4, <4>1, <4>2
    <3> QED BY <3>3, <3>4
  <2> QED BY <1>1, <2>6, <2>7
<1> QED BY <1>2, <1>3

(* pwd puts every directory it got, in the slot it was got in.               *)
LEMMA PwdBalanced ==
  ASSUME Good(minodes), NEW q \in Seq(Ino),
         \A n \in 1..Len(q) : CanGet(Climb(q)[n-1], q[n]),
         minodes' = [s \in Slot |->
           [Climb(q)[Len(q)][s] EXCEPT !.refCount = @ - Cardinality(GotIn(q, s, Len(q)))]]
  PROVE  Balanced(minodes, minodes')
<1> DEFINE top == Climb(q)[Len(q)]
<1>1. /\ Held(minodes, top)
      /\ \A s \in Slot :
           /\ Cardinality(GotIn(q, s, Len(q))) \in Nat
           /\ top[s].refCount = minodes[s].refCount + Cardinality(GotIn(q, s, Len(q)))
  BY ClimbGains, FS_CardinalityType
<1>2. Good(top)
  BY <1>1 DEF Held
<1> HIDE DEF top
<1>3. minodes' = [s \in Slot |-> [top[s] EXCEPT !.refCount = @ - Cardinality(GotIn(q, s, Len(q)))]]
  BY DEF top
<1>4. ASSUME NEW s \in Slot
      PROVE  /\ minodes'[s].ino = top[s].ino
             /\ minodes'[s].refCount = top[s].refCount - Cardinality(GotIn(q, s, Len(q)))
             /\ minodes'[s] \in [ino : Ino \cup {NoIno}, refCount : Int]
  <2> DEFINE c == Cardinality(GotIn(q, s, Len(q)))
  <2>1. top[s] \in [ino : Ino \cup {NoIno}, refCount : Int] /\ c \in Nat
    BY <1>1, <1>2 DEF Good, MinodesType
  <2>2. minodes'[s] = [top[s] EXCEPT !.refCount = @ - c]
    BY <1>3
  <2> HIDE DEF c
  <2>3. /\ minodes'[s].ino = top[s].ino /\ minodes'[s].refCount = top[s].refCount - c
        /\ minodes'[s] \in [ino : Ino \cup {NoIno}, refCount : Int]
    BY <2>1, <2>2
  <2> QED BY <2>3 DEF c
<1>5. \A s \in Slot : minodes[s].refCount \in Int /\ minodes'[s].refCount = minodes[s].refCount
  <2> SUFFICES ASSUME NEW s \in Slot
               PROVE  minodes[s].refCount \in Int /\ minodes'[s].refCount = minodes[s].refCount
    OBVIOUS
  <2> DEFINE c == Cardinality(GotIn(q, s, Len(q)))
  <2>1. /\ c \in Nat /\ minodes[s].refCount \in Int
        /\ top[s].refCount = minodes[s].refCount + c
        /\ minodes'[s].refCount = top[s].refCount - c
    BY <1>1, <1>4, Refs
  <2> HIDE DEF c
  <2> QED BY <2>1
<1>6. minodes' \in MinodesType
  BY <1>3, <1>4 DEF MinodesType
<1>7. Distinct(minodes')
  BY <1>2, <1>4 DEF Good, Distinct
<1>8. \A s \in Slot : /\ minodes[s].refCount >= 1 => top[s].ino = minodes[s].ino
                      /\ minodes[s].ino # NoIno => top[s].ino # NoIno
  BY <1>1 DEF Held
<1>9. Held(minodes, minodes')
  BY <1>4, <1>5, <1>6, <1>7, <1>8 DEF Held, Good
<1> QED BY <1>5, <1>9 DEF Balanced
-----------------------------------------------------------------------------
(* open_file. *)
OftType == [Oft -> [mode : Mode \cup {READ, WRITE}, refCount : {0, 1},
                    mptr : Slot \cup {NULL}, offset : 0..MaxSize]]
FdType == [Fd -> Oft \cup {NULL}]
SizeType == [Ino -> 0..MaxSize]
States == [oft : OftType, fd : FdType, size : SizeType, err : BOOLEAN, ret : Fd \cup {-1}]

(* Only entries not in use have changed; those that have lead to s.          *)
Around(ft, ft2, s) ==
  \A o \in Oft : /\ o \notin FreeEntries(ft) => ft2[o] = ft[o]
                 /\ ft2[o].mptr \in {ft[o].mptr, s}

(* An open_file that goes through fills descriptor f and entry e.            *)
Filling(st, m, s, mode, r, f, e) ==
  /\ f \in Fd /\ st.fd[f] = NULL /\ e \in FreeEntries(st.oft)
  /\ r.ret = f /\ r.fd = [st.fd EXCEPT ![f] = e]
  /\ r.oft = [st.oft EXCEPT ![e] = [mode |-> mode, refCount |-> 1, mptr |-> s,
                                    offset |-> StartOffset(st, mode, e, m[s].ino)]]

Truncates(st, m, s, mode, r) ==
  \/ r.size = st.size /\ mode # WRITE
  \/ r.size = st.size /\ r.err = TRUE
  \/ /\ mode = WRITE /\ ~Duplicate(st.oft, m, s)
     /\ r.size = [st.size EXCEPT ![m[s].ino] = 0]

(* open_file once it has its entry: the entry and the descriptor it fills,   *)
(* and what happens when no descriptor is free.                              *)
LEMMA InstallFacts ==
  ASSUME NEW st \in States, NEW m, NEW s \in Slot, m[s].ino \in Ino,
         NEW mode \in Mode \cup {READ, WRITE}, NEW e \in FreeEntries(st.oft),
         ~Duplicate(st.oft, m, s), NEW r, r = Install(st, m[s].ino, s, mode, e)
  PROVE  /\ r \in States
         /\ Around(st.oft, r.oft, s) /\ Truncates(st, m, s, mode, r)
         /\ r.err = TRUE => r.fd = st.fd
         /\ r.err = FALSE => \E f \in Fd : Filling(st, m, s, mode, r, f, e)
<1> DEFINE free == {f \in Fd : st.fd[f] = NULL}
           f == IF free = {} THEN -1 ELSE Least(free)
           entry == [mode |-> mode, refCount |-> 1, mptr |-> s,
                     offset |-> StartOffset(st, mode, e, m[s].ino)]
<1>1. /\ st.oft \in OftType /\ st.fd \in FdType /\ st.size \in SizeType
      /\ e \in Oft /\ st.oft[e].refCount = 0
  BY DEF States, FreeEntries
<1>2. free \in SUBSET Nat /\ (free # {} => f \in free)
  BY LeastIn DEF Fd
<1>3. /\ r.oft = [st.oft EXCEPT ![e] = entry]
      /\ r.fd = [g \in Fd |-> IF g = f THEN e ELSE st.fd[g]]
      /\ r.size = IF mode = WRITE THEN [st.size EXCEPT ![m[s].ino] = 0] ELSE st.size
      /\ r.err = (free = {}) /\ r.ret = f
      /\ r = [oft |-> r.oft, fd |-> r.fd, size |-> r.size, err |-> r.err, ret |-> r.ret]
  BY DEF Install
<1>4. StartOffset(st, mode, e, m[s].ino) \in 0..MaxSize
  <2>1. st.oft[e].offset \in 0..MaxSize /\ st.size[m[s].ino] \in 0..MaxSize /\ 0 \in 0..MaxSize
    BY <1>1 DEF OftType, SizeType
  <2> QED BY <2>1 DEF StartOffset
<1>5. entry \in [mode : Mode \cup {READ, WRITE}, refCount : {0, 1},
                 mptr : Slot \cup {NULL}, offset : 0..MaxSize]
  BY <1>4
<1> HIDE DEF free, f
<1>6. r.oft \in OftType
  BY <1>1, <1>3, <1>5 DEF OftType
<1>7. r.fd \in FdType
  BY <1>1, <1>3 DEF FdType
<1>8. r.size \in SizeType
  BY <1>1, <1>3 DEF SizeType
<1>9. r.ret \in Fd \cup {-1} /\ r.err \in BOOLEAN
  BY <1>2, <1>3 DEF free, f
<1>10. r \in States
  BY <1>3, <1>6, <1>7, <1>8, <1>9 DEF States
<1>11. Around(st.oft, r.oft, s)
  <2>1. entry.mptr = s
    OBVIOUS
  <2> HIDE DEF entry
  <2>2. r.oft[e] = entry /\ \A o \in Oft : o # e => r.oft[o] = st.oft[o]
    BY <1>1, <1>3 DEF OftType
  <2> QED BY <1>1, <2>1, <2>2 DEF Around, FreeEntries
<1>12. Truncates(st, m, s, mode, r)
  BY <1>3 DEF Truncates
<1>13. r.err = TRUE => r.fd = st.fd
  <2> SUFFICES ASSUME r.err = TRUE PROVE r.fd = st.fd OBVIOUS
  <2>0. free = {}
    BY <1>3
  <2>1. f \notin Fd
    BY <2>0 DEF Fd, f
  <2>2. \A g \in Fd : r.fd[g] = st.fd[g]
    BY <1>3, <2>1
  <2> QED BY <1>1, <1>7, <2>2 DEF FdType
<1>14. r.err = FALSE => Filling(st, m, s, mode, r, f, e) /\ f \in Fd
  <2> SUFFICES ASSUME r.err = FALSE PROVE Filling(st, m, s, mode, r, f, e) /\ f \in Fd OBVIOUS
  <2>1. f \in Fd /\ st.fd[f] = NULL
    BY <1>2, <1>3 DEF free
  <2>2. r.fd = [st.fd EXCEPT ![f] = e]
    BY <1>1, <1>3, <2>1 DEF FdType
  <2> QED BY <1>3, <2>1, <2>2 DEF Filling
<1> QED BY <1>10, <1>11, <1>12, <1>13, <1>14

(* All that is known of an open_file.                                        *)
Outcome(st, m, s, mode, r) ==
  /\ r \in States /\ Around(st.oft, r.oft, s) /\ Truncates(st, m, s, mode, r)
  /\ r.err = TRUE => r.fd = st.fd
  /\ r.err = FALSE => /\ st.err = FALSE /\ ~Duplicate(st.oft, m, s)
                      /\ \E f \in Fd, e \in Oft : Filling(st, m, s, mode, r, f, e)

(* open_file, refused or not.                                                *)
LEMMA OpenFileFacts ==
  ASSUME NEW st \in States, NEW m, NEW s \in Slot, m[s].ino \in Ino,
         NEW mode \in Mode \cup {READ, WRITE}
  PROVE  Outcome(st, m, s, mode, OpenFile(st, m, s, mode))
<1> DEFINE e == Least(FreeEntries(st.oft))
<1>1. /\ st.oft \in OftType /\ st.fd \in FdType /\ st.size \in SizeType /\ st.err \in BOOLEAN
      /\ st = [oft |-> st.oft, fd |-> st.fd, size |-> st.size, err |-> st.err, ret |-> st.ret]
  BY DEF States
<1>2. FreeEntries(st.oft) # {} => e \in FreeEntries(st.oft) /\ e \in Oft
  <2>1. FreeEntries(st.oft) \in SUBSET Nat /\ FreeEntries(st.oft) \subseteq Oft
    BY DEF FreeEntries, Oft
  <2> QED BY <2>1, LeastIn
<1> HIDE DEF e
<1> SUFFICES ASSUME NEW r, r = OpenFile(st, m, s, mode)
             PROVE
             /\ r \in States
             /\ Around(st.oft, r.oft, s) /\ Truncates(st, m, s, mode, r)
             /\ r.err = TRUE => r.fd = st.fd
             /\ r.err = FALSE => /\ st.err = FALSE /\ ~Duplicate(st.oft, m, s)
                                 /\ \E f \in Fd, x \in Oft : Filling(st, m, s, mode, r, f, x)
  BY DEF Outcome
<1>3. ASSUME Duplicate(st.oft, m, s) \/ FreeEntries(st.oft) = {}
      PROVE  /\ r \in States /\ r.oft = st.oft /\ r.fd = st.fd /\ r.size = st.size /\ r.err = TRUE
  <2>1. r = [st EXCEPT !.err = TRUE, !.ret = -1]
    BY <1>3 DEF OpenFile, Fail
  <2> QED BY <1>1, <2>1 DEF States
<1>4. ASSUME ~Duplicate(st.oft, m, s), FreeEntries(st.oft) # {}, st.err = TRUE
      PROVE  /\ r \in States /\ r.oft = [st.oft EXCEPT ![e].refCount = 1]
             /\ r.fd = st.fd /\ r.size = st.size /\ r.err = TRUE
  <2> DEFINE new == [st.oft EXCEPT ![e].refCount = 1]
  <2>1. r = [[st EXCEPT !.oft[e].refCount = 1] EXCEPT !.err = TRUE, !.ret = -1]
    BY <1>4 DEF OpenFile, Fail, e
  <2>2. new \in OftType
    BY <1>1, <1>2, <1>4 DEF OftType
  <2>3. r = [oft |-> new, fd |-> st.fd, size |-> st.size, err |-> TRUE, ret |-> -1]
    BY <1>1, <2>1
  <2> HIDE DEF new
  <2>4. r \in States
    BY <1>1, <2>2, <2>3 DEF States
  <2> QED BY <2>3, <2>4 DEF new
<1>5. ASSUME ~Duplicate(st.oft, m, s), FreeEntries(st.oft) # {}, st.err = FALSE
      PROVE  r = Install(st, m[s].ino, s, mode, e)
  BY <1>5 DEF OpenFile, e
<1>6. CASE Duplicate(st.oft, m, s) \/ FreeEntries(st.oft) = {}
  BY <1>3, <1>6 DEF Around, Truncates
<1>7. CASE ~Duplicate(st.oft, m, s) /\ FreeEntries(st.oft) # {} /\ st.err = TRUE
  <2>1. /\ r \in States /\ r.oft = [st.oft EXCEPT ![e].refCount = 1]
        /\ r.fd = st.fd /\ r.size = st.size /\ r.err = TRUE
    BY <1>4, <1>7
  <2>2. Around(st.oft, r.oft, s)
    BY <1>1, <1>2, <1>7, <2>1 DEF Around, OftType
  <2> QED BY <2>1, <2>2 DEF Truncates
<1>8. CASE ~Duplicate(st.oft, m, s) /\ FreeEntries(st.oft) # {} /\ st.err = FALSE
  <2>1. e \in FreeEntries(st.oft) /\ e \in Oft /\ r = Install(st, m[s].ino, s, mode, e)
    BY <1>2, <1>5, <1>8
  <2>2. /\ r \in States
        /\ Around(st.oft, r.oft, s) /\ Truncates(st, m, s, mode, r)
        /\ r.err = TRUE => r.fd = st.fd
        /\ r.err = FALSE => \E f \in Fd : Filling(st, m, s, mode, r, f, e)
    BY <1>8, <2>1, InstallFacts
  <2> QED BY <1>8, <2>1, <2>2
<1> QED BY <1>1, <1>6, <1>7, <1>8
-----------------------------------------------------------------------------
(* The inductive invariant. *)
Owned(ft, ds) ==
  \A f, g \in Fd : ds[f] # NULL =>
    ft[ds[f]].refCount = 1 /\ ft[ds[f]].mptr # NULL /\ (ds[g] = ds[f] => g = f)

(* No two descriptors open for more than READ lead to the same slot.         *)
Writers(ft, ds) ==
  \A f, g \in Fd :
    /\ ds[f] # NULL /\ ds[g] # NULL
    /\ ft[ds[f]].mode # READ /\ ft[ds[g]].mode # READ
    /\ ft[ds[f]].mptr = ft[ds[g]].mptr
    => f = g

(* A slot that a pointer was ever set to holds an inode; the slot of the     *)
(* root holds the root.                                                      *)
Filled ==
  /\ minodes[cwd].ino # NoIno /\ minodes[Root].ino # NoIno
  /\ \A o \in Oft : oft[o].mptr # NULL => minodes[oft[o].mptr].ino # NoIno
RootHeld == over[Root] = 0 => minodes[Root].ino = ROOT_INODE

(* What a descriptor keeps from truncation and removal: the file it was      *)
(* opened for, which stays marked.                                           *)
Keeps(ft, ds, f) == ds[f] # NULL /\ ft[ds[f]].mode \in {READ_WRITE, APPEND}
Kept ==
  \A f \in Fd : Keeps(oft, fd, f) =>
    /\ meant[f] \in allocated \ Dirs
    /\ over[oft[fd[f]].mptr] = 0 => oft[fd[f]].offset <= size[meant[f]]
FilesMarked == named \ Dirs \subseteq allocated

TablesInv == Distinct(minodes) /\ Owned(oft, fd) /\ Writers(oft, fd) /\ Filled
HeldInv == RefsAccounted /\ Pinned /\ RootHeld
FilesInv == Kept /\ FilesMarked
IInv == TypeOK /\ TablesInv /\ HeldInv /\ FilesInv
(* The types in the terms of the lemmas.                                     *)
LEMMA Types ==
  ASSUME TypeOK
  PROVE  /\ minodes \in MinodesType /\ oft \in OftType /\ fd \in FdType /\ size \in SizeType
         /\ Tables \in States
  BY DEF TypeOK, MinodesType, OftType, FdType, SizeType, Tables, States

(* And back again.                                                           *)
LEMMA TypesBack ==
  ASSUME minodes \in MinodesType, oft \in OftType, fd \in FdType, size \in SizeType,
         cwd \in Slot, named \subseteq Ino, allocated \subseteq Ino,
         lost \in [Slot -> Nat], over \in [Slot -> Nat],
         meant \in [Pointer -> Ino \cup {NoIno}], skipped \in 0..MaxSize
  PROVE  TypeOK
  BY DEF TypeOK, MinodesType, OftType, FdType, SizeType

(* The descriptors that lead to a slot are as many as a step makes them.     *)
Pointers(ft, ds, s) == {f \in Fd : ds[f] # NULL /\ ft[ds[f]].mptr = s}

(* There are finitely many descriptors, so those that lead to a slot can be  *)
(* counted.                                                                  *)
LEMMA PointersFinite ==
  ASSUME NEW ft, NEW ds, NEW s
  PROVE  /\ IsFiniteSet(Pointers(ft, ds, s))
         /\ Cardinality(Pointers(ft, ds, s)) \in Nat
<1>1. IsFiniteSet(0..NFD-1)
  BY FS_Interval
<1>2. Pointers(ft, ds, s) \subseteq 0..NFD-1
  BY DEF Pointers, Fd
<1>3. IsFiniteSet(Pointers(ft, ds, s))
  BY <1>1, <1>2, FS_Subset
<1> QED BY <1>3, FS_CardinalityType

(* A slot that something leads to has a reference, unless one too many was   *)
(* given back.                                                               *)
LEMMA UserHolds ==
  ASSUME TypeOK, RefsAccounted, NEW s \in Slot, over[s] = 0,
         s = cwd \/ s = Root \/ \E f \in Fd : fd[f] # NULL /\ oft[fd[f]].mptr = s
  PROVE  minodes[s].refCount >= 1
<1> DEFINE c == Cardinality(Pointers(oft, fd, s))
<1>1. minodes[s].refCount = (c + (IF cwd = s THEN 1 ELSE 0) + (IF s = Root THEN 1 ELSE 0))
                            + lost[s] - over[s]
  BY DEF RefsAccounted, Users, Pointers
<1>2. c \in Nat /\ lost[s] \in Nat
  BY PointersFinite DEF TypeOK
<1>3. (\E f \in Fd : fd[f] # NULL /\ oft[fd[f]].mptr = s) => c # 0
  <2>1. c = 0 => Pointers(oft, fd, s) = {}
    BY PointersFinite, FS_EmptySet
  <2> QED BY <2>1 DEF Pointers
<1> HIDE DEF c
<1> QED BY <1>1, <1>2, <1>3

(* Only entries no descriptor leads to have changed.                         *)
Undisturbed(ft, ds, ft2) == \A f \in Fd : ds[f] # NULL => ft2[ds[f]] = ft[ds[f]]

(* An open_file leaves the entries in use as they were.                      *)
LEMMA AroundUsed ==
  ASSUME NEW ft, NEW ds \in FdType, NEW ft2, NEW s, Owned(ft, ds), Around(ft, ft2, s)
  PROVE  Undisturbed(ft, ds, ft2) /\ Owned(ft2, ds) /\ (Writers(ft, ds) => Writers(ft2, ds))
<1>1. \A f \in Fd : ds[f] # NULL => ds[f] \in Oft /\ ds[f] \notin FreeEntries(ft)
  BY DEF Owned, FdType, FreeEntries
<1>2. Undisturbed(ft, ds, ft2)
  BY <1>1 DEF Undisturbed, Around
<1> QED BY <1>2 DEF Undisturbed, Owned, Writers

(* Steps that open and close no descriptor: what they keep of the invariant. *)
LEMMA SameTables ==
  ASSUME TablesInv, Held(minodes, minodes'), cwd \in Slot, cwd' = cwd, fd' = fd,
         Undisturbed(oft, fd, oft'), oft \in OftType,
         \A o \in Oft : \/ oft'[o].mptr = oft[o].mptr
                        \/ oft'[o].mptr # NULL => minodes'[oft'[o].mptr].ino # NoIno
  PROVE  TablesInv'
<1>1. Distinct(minodes')
  BY DEF Held, Good
<1>2. Owned(oft', fd') /\ Writers(oft', fd')
  BY DEF TablesInv, Undisturbed, Owned, Writers
<1>3. \A s \in Slot : minodes[s].ino # NoIno => minodes'[s].ino # NoIno
  BY DEF Held
<1>4. \A o \in Oft : oft[o].mptr # NULL => oft[o].mptr \in Slot
  BY DEF OftType
<1>5. Filled'
  BY <1>3, <1>4 DEF TablesInv, Filled, Root, Slot
<1> QED BY <1>1, <1>2, <1>5 DEF TablesInv

(* The counts and the pinned pointers, when no pointer came or went.         *)
LEMMA SameHolders ==
  ASSUME TypeOK, HeldInv, Held(minodes, minodes'), cwd' = cwd, fd' = fd, meant' = meant,
         Undisturbed(oft, fd, oft'),
         Owned(oft, fd),
         \A s \in Slot :
           /\ over'[s] \in Nat /\ over'[s] >= over[s] /\ lost'[s] \in Nat
           /\ minodes'[s].refCount - lost'[s] + over'[s] = minodes[s].refCount - lost[s] + over[s]
  PROVE  HeldInv'
<1>1. \A s \in Slot : Pointers(oft', fd', s) = Pointers(oft, fd, s)
  BY DEF Undisturbed, Pointers
<1>2. \A s \in Slot : /\ minodes[s].refCount \in Int /\ minodes'[s].refCount \in Int
                      /\ lost[s] \in Nat /\ over[s] \in Nat
  BY Refs DEF TypeOK, Held, Good, MinodesType
<1>3. ASSUME NEW s \in Slot
      PROVE  minodes'[s].refCount = Users(s)' + lost'[s] - over'[s]
  <2>1. Users(s)' = Users(s)
    BY <1>1 DEF Users, Pointers
  <2>2. Users(s) \in Nat
    <3> DEFINE c == Cardinality(Pointers(oft, fd, s))
    <3>1. c \in Nat
      BY PointersFinite
    <3>2. Users(s) = c + (IF cwd = s THEN 1 ELSE 0) + (IF s = Root THEN 1 ELSE 0)
      BY DEF Users, Pointers
    <3> HIDE DEF c
    <3> QED BY <3>1, <3>2
  <2>3. minodes[s].refCount = Users(s) + lost[s] - over[s]
    BY DEF HeldInv, RefsAccounted
  <2> HIDE DEF Users
  <2> QED BY <1>2, <2>1, <2>2, <2>3
<1>4. \A s \in Slot : over'[s] = 0 => over[s] = 0
  BY <1>2
<1>5. ASSUME NEW s \in Slot, over'[s] = 0,
             s = cwd \/ s = Root \/ \E f \in Fd : fd[f] # NULL /\ oft[fd[f]].mptr = s
      PROVE  minodes'[s].ino = minodes[s].ino
  <2>1. minodes[s].refCount >= 1
    BY <1>4, <1>5, UserHolds DEF HeldInv
  <2> QED BY <2>1 DEF Held
<1>6. Pinned'
  <2>1. ASSUME NEW p \in Pointer, p = Cwd \/ fd[p] # NULL, over'[At(p)'] = 0
        PROVE  minodes'[At(p)'].ino = meant'[p]
    <3>1. At(p)' = At(p)
      BY <2>1 DEF At, Undisturbed, Pointer
    <3>2. At(p) \in Slot
      BY <2>1 DEF At, TypeOK, Pointer, Owned
    <3>3. minodes[At(p)].ino = meant[p]
      BY <1>4, <2>1, <3>1, <3>2 DEF HeldInv, Pinned
    <3>4. \/ At(p) = cwd
          \/ \E f \in Fd : fd[f] # NULL /\ oft[fd[f]].mptr = At(p)
      BY <2>1 DEF At, Pointer
    <3> QED BY <1>5, <2>1, <3>1, <3>2, <3>3, <3>4
  <2> QED BY <2>1 DEF Pinned
<1>7. RootHeld'
  <2>1. Root \in Slot
    BY DEF Root, Slot
  <2> QED BY <1>4, <1>5, <2>1 DEF HeldInv, RootHeld
<1> QED BY <1>3, <1>6, <1>7 DEF HeldInv, RefsAccounted

(* The files that descriptors keep, when no descriptor came or went.         *)
LEMMA SameKept ==
  ASSUME TypeOK, TablesInv, Kept, fd' = fd, meant' = meant, Undisturbed(oft, fd, oft'),
         \A s \in Slot : over[s] \in Nat /\ over'[s] \in Nat /\ over'[s] >= over[s],
         allocated \ Dirs \subseteq allocated',
         \A f \in Fd : Keeps(oft, fd, f) /\ over[oft[fd[f]].mptr] = 0 =>
           size'[meant[f]] = size[meant[f]]
  PROVE  Kept'
<1> SUFFICES ASSUME NEW f \in Fd, Keeps(oft', fd', f)
             PROVE  /\ meant'[f] \in allocated' \ Dirs
                    /\ over'[oft'[fd'[f]].mptr] = 0 => oft'[fd'[f]].offset <= size'[meant'[f]]
  BY DEF Kept
<1>1. oft'[fd[f]] = oft[fd[f]] /\ Keeps(oft, fd, f) /\ fd[f] # NULL
  BY DEF Keeps, Undisturbed
<1>2. oft[fd[f]].mptr \in Slot
  BY <1>1 DEF TablesInv, Owned, TypeOK
<1>3. over'[oft[fd[f]].mptr] = 0 => over[oft[fd[f]].mptr] = 0
  BY <1>2
<1> QED BY <1>1, <1>3 DEF Kept
(* A step that opens descriptor f on slot s, through entry e. *)
Opens(f, e, s) ==
  /\ fd[f] = NULL /\ fd' = [fd EXCEPT ![f] = e] /\ e \in FreeEntries(oft)
  /\ Undisturbed(oft, fd, oft') /\ oft'[e].refCount = 1 /\ oft'[e].mptr = s
  /\ \A p \in Pointer : p # f => meant'[p] = meant[p]

(* A new descriptor is the only one of its entry.                            *)
LEMMA OpensFacts ==
  ASSUME TypeOK, Owned(oft, fd), NEW f \in Fd, NEW e \in Oft, NEW s \in Slot, Opens(f, e, s)
  PROVE  /\ fd'[f] = e /\ \A g \in Fd : g # f => fd'[g] = fd[g] /\ fd[g] # e
         /\ \A g \in Fd : fd[g] # NULL => oft'[fd[g]] = oft[fd[g]]
<1>1. \A g \in Fd : fd[g] # NULL => fd[g] \in Oft /\ fd[g] \notin FreeEntries(oft)
  BY DEF Owned, TypeOK, FreeEntries
<1>2. e # NULL
  BY DEF Oft, NULL
<1> QED BY <1>1, <1>2 DEF Opens, TypeOK, Undisturbed

(* The tables with a new descriptor.                                         *)
LEMMA NewTables ==
  ASSUME TypeOK, TablesInv, Held(minodes, minodes'), cwd' = cwd,
         NEW f \in Fd, NEW e \in Oft, NEW s \in Slot, Opens(f, e, s),
         oft'[e].mode # READ =>
           \A g \in Fd : fd[g] # NULL /\ oft[fd[g]].mode # READ => oft[fd[g]].mptr # s,
         \A o \in Oft : \/ oft'[o].mptr = oft[o].mptr
                        \/ oft'[o].mptr # NULL => minodes'[oft'[o].mptr].ino # NoIno
  PROVE  TablesInv'
<1>1. Distinct(minodes')
  BY DEF Held, Good
<1>2. /\ fd'[f] = e /\ \A g \in Fd : g # f => fd'[g] = fd[g] /\ fd[g] # e
      /\ \A g \in Fd : fd[g] # NULL => oft'[fd[g]] = oft[fd[g]]
  BY OpensFacts DEF TablesInv
<1>3. oft'[e].refCount = 1 /\ oft'[e].mptr = s /\ s # NULL
  BY DEF Opens, Slot, NULL
<1>4. Owned(oft', fd')
  BY <1>2, <1>3 DEF TablesInv, Owned
<1>5. Writers(oft', fd')
  BY <1>2, <1>3 DEF TablesInv, Writers
<1>6. \A t \in Slot : minodes[t].ino # NoIno => minodes'[t].ino # NoIno
  BY DEF Held
<1>7. cwd \in Slot /\ \A o \in Oft : oft[o].mptr # NULL => oft[o].mptr \in Slot
  BY DEF TypeOK
<1>8. Filled'
  BY <1>6, <1>7 DEF TablesInv, Filled, Root, Slot
<1> QED BY <1>1, <1>4, <1>5, <1>8 DEF TablesInv

(* The counts and the pinned pointers with a new descriptor.                 *)
LEMMA NewHolders ==
  ASSUME TypeOK, TablesInv, HeldInv, Held(minodes, minodes'), cwd' = cwd,
         NEW f \in Fd, NEW e \in Oft, NEW s \in Slot, Opens(f, e, s),
         over'[s] = 0 => minodes'[s].ino = meant'[f],
         \A t \in Slot :
           /\ over'[t] \in Nat /\ over'[t] >= over[t] /\ lost'[t] \in Nat
           /\ minodes'[t].refCount - lost'[t] + over'[t]
                = minodes[t].refCount - lost[t] + over[t] + (IF t = s THEN 1 ELSE 0)
  PROVE  HeldInv'
<1>1. /\ fd'[f] = e /\ \A g \in Fd : g # f => fd'[g] = fd[g] /\ fd[g] # e
      /\ \A g \in Fd : fd[g] # NULL => oft'[fd[g]] = oft[fd[g]]
  BY OpensFacts DEF TablesInv
<1>2. /\ fd[f] = NULL /\ oft'[e].mptr = s /\ e # NULL
      /\ \A p \in Pointer : p # f => meant'[p] = meant[p]
  BY DEF Opens, Oft, NULL
<1>3. \A t \in Slot : /\ minodes[t].refCount \in Int /\ minodes'[t].refCount \in Int
                      /\ lost[t] \in Nat /\ over[t] \in Nat
  BY Refs DEF TypeOK, Held, Good, MinodesType
<1>4. ASSUME NEW t \in Slot
      PROVE  minodes'[t].refCount = Users(t)' + lost'[t] - over'[t]
  <2> DEFINE c == Cardinality(Pointers(oft, fd, t))
             d == Cardinality(Pointers(oft', fd', t))
             r == (IF cwd = t THEN 1 ELSE 0) + (IF t = Root THEN 1 ELSE 0)
  <2>1. c \in Nat /\ d \in Nat /\ r \in Nat
    BY PointersFinite
  <2>2. d = c + (IF t = s THEN 1 ELSE 0)
    <3>1. CASE t = s
      <4>1. Pointers(oft', fd', t) = Pointers(oft, fd, t) \cup {f} /\ f \notin Pointers(oft, fd, t)
        BY <1>1, <1>2, <3>1 DEF Pointers
      <4>2. IsFiniteSet(Pointers(oft, fd, t))
        BY PointersFinite
      <4>3. Cardinality(Pointers(oft, fd, t) \cup {f}) = Cardinality(Pointers(oft, fd, t)) + 1
        BY <4>1, <4>2, FS_AddElement
      <4>4. d = c + 1
        BY <4>1, <4>3
      <4> HIDE DEF c, d
      <4> QED BY <3>1, <4>4
    <3>2. CASE t # s
      <4>1. Pointers(oft', fd', t) = Pointers(oft, fd, t)
        BY <1>1, <1>2, <3>2 DEF Pointers
      <4> QED BY <2>1, <3>2, <4>1
    <3> QED BY <3>1, <3>2
  <2>3. Users(t)' = d + (IF cwd = t THEN 1 ELSE 0) + (IF t = Root THEN 1 ELSE 0)
    BY DEF Users, Pointers
  <2>4. Users(t) = c + (IF cwd = t THEN 1 ELSE 0) + (IF t = Root THEN 1 ELSE 0)
    BY DEF Users, Pointers
  <2>5. minodes[t].refCount = Users(t) + lost[t] - over[t]
    BY DEF HeldInv, RefsAccounted
  <2> HIDE DEF c, d, r
  <2>6. minodes'[t].refCount = d + (IF cwd = t THEN 1 ELSE 0) + (IF t = Root THEN 1 ELSE 0)
                               + lost'[t] - over'[t]
    BY <1>3, <2>1, <2>2, <2>4, <2>5
  <2> QED BY <2>3, <2>6
<1>5. \A t \in Slot : over'[t] = 0 => over[t] = 0
  BY <1>3
<1>6. ASSUME NEW t \in Slot, over'[t] = 0,
             t = cwd \/ t = Root \/ \E g \in Fd : fd[g] # NULL /\ oft[fd[g]].mptr = t
      PROVE  minodes'[t].ino = minodes[t].ino
  <2>1. minodes[t].refCount >= 1
    BY <1>5, <1>6, UserHolds DEF HeldInv
  <2> QED BY <2>1 DEF Held
<1>7. Pinned'
  <2>1. ASSUME NEW p \in Pointer, p = Cwd \/ fd'[p] # NULL, over'[At(p)'] = 0
        PROVE  minodes'[At(p)'].ino = meant'[p]
    <3>1. CASE p = f
      <4>1. At(p)' = s
        BY <1>1, <1>2, <3>1 DEF At, Cwd, Fd
      <4> QED BY <2>1, <3>1, <4>1
    <3>2. CASE p # f
      <4>1. At(p)' = At(p) /\ (p = Cwd \/ fd[p] # NULL)
        BY <1>1, <2>1, <3>2 DEF At, Pointer
      <4>2. At(p) \in Slot
        BY <4>1 DEF At, TypeOK, Pointer, TablesInv, Owned
      <4>3. minodes[At(p)].ino = meant[p]
        BY <1>5, <2>1, <4>1, <4>2 DEF HeldInv, Pinned
      <4>4. \/ At(p) = cwd
            \/ \E g \in Fd : fd[g] # NULL /\ oft[fd[g]].mptr = At(p)
        BY <4>1 DEF At, Pointer
      <4> QED BY <1>2, <1>6, <2>1, <3>2, <4>1, <4>2, <4>3, <4>4
    <3> QED BY <3>1, <3>2
  <2> QED BY <2>1 DEF Pinned
<1>8. RootHeld'
  <2>1. Root \in Slot
    BY DEF Root, Slot
  <2> QED BY <1>5, <1>6, <2>1 DEF HeldInv, RootHeld
<1> QED BY <1>4, <1>7, <1>8 DEF HeldInv, RefsAccounted

(* The files that descriptors keep, with a new one.                          *)
LEMMA NewKept ==
  ASSUME TypeOK, TablesInv, Kept,
         NEW f \in Fd, NEW e \in Oft, NEW s \in Slot, Opens(f, e, s),
         \A t \in Slot : over[t] \in Nat /\ over'[t] \in Nat /\ over'[t] >= over[t],
         allocated \ Dirs \subseteq allocated',
         \A g \in Fd : Keeps(oft, fd, g) /\ over[oft[fd[g]].mptr] = 0 =>
           size'[meant[g]] = size[meant[g]],
         oft'[e].mode \in {READ_WRITE, APPEND} =>
           meant'[f] \in allocated' \ Dirs /\ oft'[e].offset <= size'[meant'[f]]
  PROVE  Kept'
<1>1. /\ fd'[f] = e /\ \A g \in Fd : g # f => fd'[g] = fd[g] /\ fd[g] # e
      /\ \A g \in Fd : fd[g] # NULL => oft'[fd[g]] = oft[fd[g]]
  BY OpensFacts DEF TablesInv
<1> SUFFICES ASSUME NEW g \in Fd, Keeps(oft', fd', g)
             PROVE  /\ meant'[g] \in allocated' \ Dirs
                    /\ over'[oft'[fd'[g]].mptr] = 0 => oft'[fd'[g]].offset <= size'[meant'[g]]
  BY DEF Kept
<1>2. CASE g = f
  BY <1>1, <1>2 DEF Keeps
<1>3. CASE g # f
  <2>1. oft'[fd'[g]] = oft[fd[g]] /\ Keeps(oft, fd, g) /\ fd[g] # NULL
    BY <1>1, <1>3 DEF Keeps
  <2>2. oft[fd[g]].mptr \in Slot /\ meant'[g] = meant[g]
    BY <1>3, <2>1 DEF TablesInv, Owned, TypeOK, Opens, Pointer
  <2>3. over'[oft[fd[g]].mptr] = 0 => over[oft[fd[g]].mptr] = 0
    BY <2>2
  <2> QED BY <2>1, <2>2, <2>3 DEF Kept
<1> QED BY <1>2, <1>3

(* open_file opens only what nobody has open for more than READ.             *)
LEMMA NotShared ==
  ASSUME NEW ft, NEW m, NEW s, ~Duplicate(ft, m, s), NEW g \in Fd,
         fd[g] \in Oft, ft[fd[g]] = oft[fd[g]], oft[fd[g]].refCount = 1,
         oft[fd[g]].mptr # NULL, oft[fd[g]].mode # READ
  PROVE  m[oft[fd[g]].mptr].ino # m[s].ino
<1>1. ~(~Stray(ft, fd[g]) /\ Clashes(ft, m, fd[g], s))
  BY DEF Duplicate
<1>2. ft[fd[g]].refCount > 0
  OBVIOUS
<1> QED BY <1>1, <1>2 DEF Stray, Clashes

(* So what open_file may truncate is no file that a descriptor keeps.        *)
LEMMA KeepsOthers ==
  ASSUME TypeOK, TablesInv, HeldInv, NEW ft, Undisturbed(oft, fd, ft), NEW m, Held(minodes, m),
         NEW s, ~Duplicate(ft, m, s), NEW f \in Fd, Keeps(oft, fd, f),
         over[oft[fd[f]].mptr] = 0
  PROVE  meant[f] # m[s].ino
<1>1. /\ fd[f] \in Oft /\ ft[fd[f]] = oft[fd[f]] /\ oft[fd[f]].refCount = 1
      /\ oft[fd[f]].mptr \in Slot /\ oft[fd[f]].mptr # NULL /\ oft[fd[f]].mode # READ
  BY DEF Keeps, TypeOK, TablesInv, Owned, Undisturbed, READ, READ_WRITE, APPEND
<1>2. m[oft[fd[f]].mptr].ino # m[s].ino
  BY <1>1, NotShared
<1>3. minodes[oft[fd[f]].mptr].refCount >= 1
  BY <1>1, UserHolds DEF Keeps, HeldInv
<1>4. minodes[oft[fd[f]].mptr].ino = meant[f]
  <2>1. f \in Pointer /\ At(f) = oft[fd[f]].mptr
    BY DEF Pointer, At, Cwd, Fd
  <2> QED BY <2>1 DEF HeldInv, Pinned, Keeps
<1> QED BY <1>1, <1>2, <1>3, <1>4 DEF Held
-----------------------------------------------------------------------------
(* Commands that leave the tables and every pointer as they were, and give   *)
(* back what they got.                                                       *)
LEMMA Idle ==
  ASSUME IInv, Balanced(minodes, minodes'), UNCHANGED <<oft, fd, cwd, meant, lost, over>>,
         skipped' \in 0..MaxSize, size' \in SizeType, named' \subseteq Ino,
         allocated' \subseteq Ino, FilesMarked', allocated \ Dirs \subseteq allocated',
         \A f \in Fd : Keeps(oft, fd, f) /\ over[oft[fd[f]].mptr] = 0 =>
           size'[meant[f]] = size[meant[f]]
  PROVE  IInv'
<1>1. /\ TypeOK /\ TablesInv /\ HeldInv /\ FilesInv
      /\ Held(minodes, minodes') /\ Undisturbed(oft, fd, oft')
  BY DEF IInv, Balanced, Undisturbed
<1>2. oft \in OftType /\ fd \in FdType /\ cwd \in Slot
  BY <1>1, Types DEF TypeOK
<1>3. /\ lost \in [Slot -> Nat] /\ over \in [Slot -> Nat]
      /\ meant \in [Pointer -> Ino \cup {NoIno}]
  BY <1>1 DEF TypeOK
<1>4. TypeOK'
  BY <1>1, <1>2, <1>3 DEF TypeOK, Held, Good, MinodesType, SizeType
<1>5. TablesInv'
  BY <1>1, <1>2, SameTables
<1>6. \A s \in Slot :
        /\ over'[s] \in Nat /\ over'[s] >= over[s] /\ lost'[s] \in Nat
        /\ minodes'[s].refCount - lost'[s] + over'[s] = minodes[s].refCount - lost[s] + over[s]
  BY <1>3 DEF Balanced
<1>7. HeldInv'
  BY <1>1, <1>6, SameHolders DEF TablesInv
<1>8. Kept'
  BY <1>1, <1>3, <1>6, SameKept DEF FilesInv
<1> QED BY <1>4, <1>5, <1>7, <1>8 DEF IInv, FilesInv

(* The same, of a command that leaves the files alone as well.               *)
LEMMA IdleDisk ==
  ASSUME IInv, Balanced(minodes, minodes'), UNCHANGED <<oft, fd, cwd, disk, meant, lost, over>>,
         skipped' = 0
  PROVE  IInv'
<1>1. /\ size \in SizeType /\ named \subseteq Ino /\ allocated \subseteq Ino /\ FilesMarked
      /\ skipped' \in 0..MaxSize
  BY Types DEF IInv, TypeOK, FilesInv
<1>2. UNCHANGED <<size, named, allocated>>
  BY DEF disk
<1>3. FilesMarked'
  BY <1>1, <1>2 DEF FilesMarked
<1> QED BY <1>1, <1>2, <1>3, Idle

(* The invariant holds the slots' part.                                      *)
LEMMA GoodMinodes ==
  ASSUME IInv
  PROVE  Good(minodes)
  BY Types DEF IInv, Good, TablesInv

(* touch, stat, chmod, chown, link and the refused commands keep the         *)
(* invariant.                                                                *)
LEMMA VisitInv ==
  ASSUME IInv, NEW i \in Ino, Visit(i)
  PROVE  IInv'
<1>1. Balanced(minodes, minodes')
  BY GoodMinodes, GetAndPut DEF Visit
<1> QED BY <1>1, IdleDisk DEF Visit, NoWrong

(* ls keeps the invariant.                                                   *)
LEMMA LsInv ==
  ASSUME IInv, NEW p \in Ino, NEW i \in Ino, Ls(p, i)
  PROVE  IInv'
<1>1. Balanced(minodes, minodes')
  BY GoodMinodes, TwoGets DEF Ls
<1> QED BY <1>1, IdleDisk DEF Ls, NoWrong

(* pwd keeps the invariant.                                                  *)
LEMMA PwdInv ==
  ASSUME IInv, NEW q \in Seq(Ino), Pwd(q)
  PROVE  IInv'
<1>1. Balanced(minodes, minodes')
  BY GoodMinodes, PwdBalanced DEF Pwd
<1> QED BY <1>1, IdleDisk DEF Pwd, NoWrong

(* creat_file gives back both the parent and the new inode.                  *)
LEMMA CreatedBalanced ==
  ASSUME NEW m, Good(m), NEW p \in Ino, NEW i \in Ino, CanCreate(m, p, i)
  PROVE  Balanced(m, Created(m, p, i))
  BY TwoGets DEF CanCreate, Created

(* A file that a descriptor keeps is marked: it is not the one made.         *)
LEMMA MakeInv ==
  ASSUME IInv, NEW p \in Ino, NEW i \in Ino, Make(p, i)
  PROVE  IInv'
<1>1. Balanced(minodes, minodes')
  BY GoodMinodes, CreatedBalanced DEF Make
<1>2. /\ size \in SizeType /\ named \subseteq Ino /\ allocated \subseteq Ino /\ FilesMarked
      /\ 0 \in 0..MaxSize /\ MaxSize \in 0..MaxSize /\ Kept
  BY Types DEF IInv, TypeOK, FilesInv
<1>3. size' \in SizeType
  BY <1>2 DEF Make, SizeType
<1>4. \A j \in Ino : j # i => size'[j] = size[j]
  BY <1>2 DEF Make, SizeType
<1>5. /\ named' = named \cup {i} /\ allocated' = allocated \cup {i} /\ i \notin allocated
      /\ UNCHANGED <<oft, fd, cwd, meant, lost, over>> /\ skipped' \in 0..MaxSize
  BY <1>2 DEF Make, CanCreate, NoWrong
<1>6. FilesMarked'
  BY <1>2, <1>5 DEF FilesMarked
<1>7. \A f \in Fd : Keeps(oft, fd, f) => size'[meant[f]] = size[meant[f]]
  BY <1>2, <1>4, <1>5 DEF Kept
<1> QED BY <1>1, <1>2, <1>3, <1>5, <1>6, <1>7, Idle

(* What a descriptor keeps is busy, so it is not removed.                    *)
LEMMA RemoveInv ==
  ASSUME IInv, NEW p \in Dirs, NEW i \in Ino, Remove(i, p)
  PROVE  IInv'
<1> DEFINE m1 == Get(minodes, i)
           s == Where(minodes, i)
           m2 == Get(m1, p)
<1>1. /\ CanGet(minodes, i) /\ ~Busy(m1, s) /\ CanGet(m1, p)
      /\ minodes' = Put(Put(m2, s), Where(m1, p))
      /\ size' = [j \in Ino |-> IF j \in {i, m2[s].ino} THEN 0 ELSE size[j]]
      /\ named' = named \ {i}
      /\ allocated' = IF i \in Dirs THEN allocated \ {m2[s].ino} ELSE allocated
      /\ UNCHANGED <<oft, fd, cwd, meant, lost, over>> /\ skipped' \in 0..MaxSize
  BY DEF Remove, NoWrong
<1>2. Good(minodes) /\ p \in Ino
  BY GoodMinodes DEF Ino
<1>3. Balanced(minodes, minodes')
  BY <1>1, <1>2, TwoGets
<1>4. /\ Gained(minodes, m1, s) /\ s \in Slot /\ m1[s].ino = i /\ Good(m1)
  BY <1>1, <1>2, GetGains DEF Gained, Held
<1>5. m2[s].ino \in {i, p}
  BY <1>1, <1>2, <1>4, GetGains
<1>6. minodes[s].refCount < 1
  <2>1. /\ minodes[s].refCount \in Int /\ m1[s].refCount = minodes[s].refCount + 1
        /\ ~(m1[s].refCount > 1)
    BY <1>1, <1>2, <1>4, Refs DEF Gained, Busy
  <2> HIDE DEF m1, s
  <2> QED BY <2>1
<1>7. \A t \in Slot : minodes[t].ino = i => t = s
  <2>1. minodes[s].ino # i => \A t \in Slot : minodes[t].ino # i
    BY <1>1, <1>2, WhereFacts
  <2> QED BY <1>2, <1>4, <2>1 DEF Good, Distinct, Ino, NoIno, ROOT_INODE
<1> HIDE DEF m1, s, m2
<1>8. /\ TypeOK /\ TablesInv /\ HeldInv /\ Kept /\ FilesMarked
      /\ size \in SizeType /\ named \subseteq Ino /\ allocated \subseteq Ino /\ 0 \in 0..MaxSize
  BY Types DEF IInv, TypeOK, FilesInv
<1>9. size' \in SizeType
  BY <1>1, <1>8 DEF SizeType
<1>10. ASSUME NEW f \in Fd, Keeps(oft, fd, f), over[oft[fd[f]].mptr] = 0
       PROVE  size'[meant[f]] = size[meant[f]]
  <2>1. /\ meant[f] \in Ino /\ meant[f] # p
        /\ oft[fd[f]].mptr \in Slot /\ fd[f] # NULL
    BY <1>8, <1>10 DEF Kept, Keeps, TablesInv, Owned, TypeOK
  <2>2. minodes[oft[fd[f]].mptr].refCount >= 1
    BY <1>8, <1>10, <2>1, UserHolds DEF HeldInv
  <2>3. minodes[oft[fd[f]].mptr].ino = meant[f]
    <3>1. f \in Pointer /\ At(f) = oft[fd[f]].mptr
      BY DEF Pointer, At, Cwd, Fd
    <3> QED BY <1>8, <1>10, <2>1, <3>1 DEF HeldInv, Pinned
  <2>4. meant[f] # i
    <3>1. minodes[s].refCount \in Int
      BY <1>2, <1>4, Refs
    <3> QED BY <1>6, <1>7, <2>1, <2>2, <2>3, <3>1
  <2> QED BY <1>1, <1>5, <2>1, <2>4
<1>11. FilesMarked' /\ allocated \ Dirs \subseteq allocated'
  BY <1>1, <1>5, <1>8 DEF FilesMarked
<1> QED BY <1>1, <1>3, <1>8, <1>9, <1>10, <1>11, Idle
-----------------------------------------------------------------------------
(* Commands that open a file: first those that leave no new descriptor.      *)
LEMMA TypesStep ==
  ASSUME minodes' \in MinodesType, oft' \in OftType, fd' \in FdType, cwd' \in Slot,
         size' \in SizeType, named' \subseteq Ino, allocated' \subseteq Ino,
         lost' \in [Slot -> Nat], over' \in [Slot -> Nat],
         meant' \in [Pointer -> Ino \cup {NoIno}], skipped' \in 0..MaxSize
  PROVE  TypeOK'
  BY DEF TypeOK, MinodesType, OftType, FdType, SizeType

(* What a step may do to the files, whoever opens or closes: the inodes stay *)
(* of their types, and what descriptors keep keeps its size and its mark.    *)
Files ==
  /\ size' \in SizeType /\ named' \subseteq Ino /\ allocated' \subseteq Ino
  /\ FilesMarked' /\ allocated \ Dirs \subseteq allocated'
  /\ \A f \in Fd : Keeps(oft, fd, f) /\ over[oft[fd[f]].mptr] = 0 =>
       size'[meant[f]] = size[meant[f]]

(* The references that are right after a step, if one was gained in slot t   *)
(* (none if t is NULL).                                                      *)
Counts(t) ==
  /\ lost' \in [Slot -> Nat] /\ over' \in [Slot -> Nat]
  /\ \A s \in Slot :
       /\ over'[s] >= over[s]
       /\ minodes'[s].refCount - lost'[s] + over'[s]
            = minodes[s].refCount - lost[s] + over[s] + (IF s = t THEN 1 ELSE 0)

PointersFilled ==
  \A o \in Oft : \/ oft'[o].mptr = oft[o].mptr
                 \/ oft'[o].mptr # NULL => minodes'[oft'[o].mptr].ino # NoIno

(* What a command keeps that opens and closes no descriptor.                 *)
LEMMA NotOpened ==
  ASSUME IInv, Held(minodes, minodes'), UNCHANGED <<fd, cwd, meant>>, oft' \in OftType,
         Undisturbed(oft, fd, oft'), PointersFilled, Files, Counts(NULL), skipped' \in 0..MaxSize
  PROVE  IInv'
<1>1. TypeOK /\ TablesInv /\ HeldInv /\ FilesInv
  BY DEF IInv
<1>2. /\ oft \in OftType /\ fd \in FdType /\ cwd \in Slot
      /\ lost \in [Slot -> Nat] /\ over \in [Slot -> Nat]
      /\ meant \in [Pointer -> Ino \cup {NoIno}]
  BY <1>1, Types DEF TypeOK
<1>3. TypeOK'
  BY <1>2, TypesStep DEF Files, Counts, Held, Good
<1>4. TablesInv'
  BY <1>1, <1>2, SameTables DEF PointersFilled
<1>5. \A s \in Slot :
        /\ over'[s] \in Nat /\ over'[s] >= over[s] /\ lost'[s] \in Nat
        /\ minodes'[s].refCount - lost'[s] + over'[s] = minodes[s].refCount - lost[s] + over[s]
  <2> TAKE s \in Slot
  <2>1. /\ over'[s] \in Nat /\ over'[s] >= over[s] /\ lost'[s] \in Nat /\ s # NULL
        /\ over[s] \in Nat /\ lost[s] \in Nat /\ minodes[s].refCount \in Int
        /\ minodes'[s].refCount - lost'[s] + over'[s]
            = minodes[s].refCount - lost[s] + over[s] + (IF s = NULL THEN 1 ELSE 0)
    BY SMTT(30), <1>2, GoodMinodes, Refs DEF Counts, Slot, NULL
  <2> QED BY <2>1
<1>6. HeldInv'
  BY <1>1, <1>5, SameHolders DEF TablesInv
<1>7. Kept'
  BY <1>1, <1>2, <1>5, SameKept DEF FilesInv, Files
<1> QED BY <1>3, <1>4, <1>6, <1>7 DEF IInv, FilesInv, Files

(* What a command keeps that opens one descriptor.                           *)
LEMMA Opened ==
  ASSUME IInv, Held(minodes, minodes'), UNCHANGED cwd, oft' \in OftType, fd' \in FdType,
         NEW f \in Fd, NEW e \in Oft, NEW s \in Slot, Opens(f, e, s),
         PointersFilled, Files, Counts(s), skipped' \in 0..MaxSize,
         meant' \in [Pointer -> Ino \cup {NoIno}],
         oft'[e].mode # READ =>
           \A g \in Fd : fd[g] # NULL /\ oft[fd[g]].mode # READ => oft[fd[g]].mptr # s,
         over'[s] = 0 => minodes'[s].ino = meant'[f],
         oft'[e].mode \in {READ_WRITE, APPEND} =>
           meant'[f] \in allocated' \ Dirs /\ oft'[e].offset <= size'[meant'[f]]
  PROVE  IInv'
<1>1. TypeOK /\ TablesInv /\ HeldInv /\ FilesInv
  BY DEF IInv
<1>2. cwd \in Slot /\ over \in [Slot -> Nat]
  BY <1>1 DEF TypeOK
<1>3. TypeOK'
  BY <1>2, TypesStep DEF Files, Counts, Held, Good
<1>4. TablesInv'
  BY <1>1, NewTables DEF PointersFilled
<1>5. \A t \in Slot :
        /\ over[t] \in Nat /\ over'[t] \in Nat /\ over'[t] >= over[t] /\ lost'[t] \in Nat
        /\ minodes'[t].refCount - lost'[t] + over'[t]
             = minodes[t].refCount - lost[t] + over[t] + (IF t = s THEN 1 ELSE 0)
  BY <1>2 DEF Counts
<1>6. HeldInv'
  BY <1>1, <1>5, NewHolders
<1>7. Kept'
  BY <1>1, <1>5, NewKept DEF FilesInv, Files
<1> QED BY <1>3, <1>4, <1>6, <1>7 DEF IInv, FilesInv, Files

(* The counts after a step that is balanced, that loses a reference to s, or *)
(* that leaves one in a new descriptor.                                      *)
LEMMA CountsFacts ==
  ASSUME TypeOK, NEW s \in Slot
  PROVE  /\ Balanced(minodes, minodes') /\ NoWrong => Counts(NULL)
         /\ Gained(minodes, minodes', s) /\ Lose(s) => Counts(NULL)
         /\ Gained(minodes, minodes', s) /\ NoWrong => Counts(s)
         /\ Balanced(minodes, minodes') /\ PutTwice(s) => Counts(s)
<1>1. /\ lost \in [Slot -> Nat] /\ over \in [Slot -> Nat]
      /\ \A t \in Slot : minodes[t].refCount \in Int /\ t # NULL
  BY DEF TypeOK, Slot, NULL
<1>2. Balanced(minodes, minodes') /\ NoWrong => Counts(NULL)
  BY <1>1 DEF Balanced, NoWrong, Counts
<1>3. Gained(minodes, minodes', s) /\ Lose(s) => Counts(NULL)
  BY <1>1 DEF Gained, Lose, Counts
<1>4. Gained(minodes, minodes', s) /\ NoWrong => Counts(s)
  BY <1>1 DEF Gained, NoWrong, Counts
<1>5. Balanced(minodes, minodes') /\ PutTwice(s) => Counts(s)
  <2> SUFFICES ASSUME Balanced(minodes, minodes'), PutTwice(s) PROVE Counts(s) OBVIOUS
  <2>1. over' = [over EXCEPT ![s] = over[s] + 1] /\ lost' = lost
    BY <1>1 DEF PutTwice
  <2>2. over' \in [Slot -> Nat] /\ \A t \in Slot : over'[t] = over[t] + (IF t = s THEN 1 ELSE 0)
    BY <1>1, <2>1
  <2>3. \A t \in Slot : minodes'[t].refCount = minodes[t].refCount
    BY DEF Balanced
  <2> QED BY <1>1, <2>1, <2>2, <2>3 DEF Counts
<1> QED BY <1>2, <1>3, <1>4, <1>5

(* open_file truncates only what no descriptor keeps.                        *)
LEMMA TruncationKeeps ==
  ASSUME IInv, NEW st \in States, Undisturbed(oft, fd, st.oft), NEW m, Held(minodes, m),
         NEW s, NEW mode, NEW r, Truncates(st, m, s, mode, r), NEW f \in Fd, Keeps(oft, fd, f),
         over[oft[fd[f]].mptr] = 0
  PROVE  r.size[meant[f]] = st.size[meant[f]]
<1>1. meant[f] \in Ino /\ st.size \in SizeType
  BY DEF IInv, FilesInv, Kept, TypeOK, States
<1>2. CASE r.size = st.size
  BY <1>2
<1>3. CASE ~Duplicate(st.oft, m, s) /\ r.size = [st.size EXCEPT ![m[s].ino] = 0]
  <2>1. meant[f] # m[s].ino
    BY <1>3, KeepsOthers DEF IInv
  <2> QED BY <1>1, <1>3, <2>1 DEF SizeType
<1> QED BY <1>2, <1>3 DEF Truncates

(* A command that makes and removes no file.                                 *)
LEMMA SameNames ==
  ASSUME IInv, size' \in SizeType, UNCHANGED <<named, allocated>>,
         \A f \in Fd : Keeps(oft, fd, f) /\ over[oft[fd[f]].mptr] = 0 =>
           size'[meant[f]] = size[meant[f]]
  PROVE  Files
  BY DEF IInv, TypeOK, FilesInv, FilesMarked, Files

(* What the command's first open_file, on the slot it got, leaves: the       *)
(* tables around the descriptors in use, and what they keep, untouched.      *)
FirstOpen(m, s, i, mode, st) ==
  /\ Gained(minodes, m, s) /\ s \in Slot /\ m[s].ino = i
  /\ Outcome(Tables, m, s, mode, st) /\ Undisturbed(oft, fd, st.oft)
  /\ \A f \in Fd : Keeps(oft, fd, f) /\ over[oft[fd[f]].mptr] = 0 =>
       st.size[meant[f]] = size[meant[f]]

(* The first open_file of a command does that.                               *)
LEMMA OpenTables ==
  ASSUME IInv, NEW i \in Ino, CanGet(minodes, i), NEW mode \in Mode \cup {READ, WRITE},
         NEW m, m = Get(minodes, i), NEW s, s = Where(minodes, i)
  PROVE  FirstOpen(m, s, i, mode, OpenFile(Tables, m, s, mode))
<1>1. Gained(minodes, m, s) /\ s \in Slot /\ m[s].ino = i
  BY GoodMinodes, GetGains
<1>2. Tables \in States /\ Tables.oft = oft /\ Tables.size = size /\ fd \in FdType
  BY Types DEF IInv, Tables
<1> DEFINE st == OpenFile(Tables, m, s, mode)
<1>3. Outcome(Tables, m, s, mode, st)
  BY <1>1, <1>2, OpenFileFacts
<1> HIDE DEF st
<1>4. Around(oft, st.oft, s) /\ Truncates(Tables, m, s, mode, st)
  BY <1>2, <1>3 DEF Outcome
<1>5. Undisturbed(oft, fd, st.oft) /\ Undisturbed(oft, fd, Tables.oft)
  BY <1>2, <1>4, AroundUsed DEF IInv, TablesInv, Undisturbed
<1>6. ASSUME NEW f \in Fd, Keeps(oft, fd, f), over[oft[fd[f]].mptr] = 0
      PROVE  st.size[meant[f]] = Tables.size[meant[f]]
  BY <1>1, <1>2, <1>4, <1>5, <1>6, TruncationKeeps DEF Gained
<1>7. FirstOpen(m, s, i, mode, st)
  BY <1>1, <1>2, <1>3, <1>5, <1>6 DEF FirstOpen
<1> QED BY <1>7 DEF st

(* open keeps the invariant: of a directory, refused, and done.              *)
LEMMA OpenInv ==
  ASSUME IInv, NEW i \in named, NEW mode \in Mode, Open(i, mode)
  PROVE  IInv'
<1> DEFINE m == Get(minodes, i)
           s == Where(minodes, i)
           st == OpenFile(Tables, m, s, mode)
<1>1. TypeOK /\ TablesInv /\ FilesInv /\ i \in Ino /\ 0 \in 0..MaxSize
  BY DEF IInv, TypeOK
<1>2. /\ CanGet(minodes, i) /\ skipped' = 0 /\ UNCHANGED <<cwd, named, allocated>>
      /\ \/ i \in Dirs /\ minodes' = m /\ Lose(s) /\ UNCHANGED <<oft, fd, size, meant>>
         \/ /\ i \notin Dirs /\ SetTables(st) /\ NoWrong
            /\ minodes' = IF st.err THEN Put(m, s) ELSE m
            /\ meant' = IF st.err THEN meant ELSE [meant EXCEPT ![st.ret] = i]
  BY DEF Open
<1>3. /\ Gained(minodes, m, s) /\ s \in Slot /\ m[s].ino = i
      /\ st \in States /\ Undisturbed(oft, fd, st.oft) /\ Around(oft, st.oft, s)
      /\ Truncates(Tables, m, s, mode, st)
      /\ \A f \in Fd : Keeps(oft, fd, f) /\ over[oft[fd[f]].mptr] = 0 =>
           st.size[meant[f]] = size[meant[f]]
      /\ st.err = TRUE => st.fd = fd
      /\ st.err = FALSE =>
           /\ ~Duplicate(oft, m, s)
           /\ \E f \in Fd, e \in Oft : Filling(Tables, m, s, mode, st, f, e)
  <2>1. i \in Ino /\ CanGet(minodes, i) /\ mode \in Mode \cup {READ, WRITE}
    BY <1>1, <1>2
  <2>2. FirstOpen(m, s, i, mode, st)
    BY <2>1, OpenTables
  <2>3. Tables.oft = oft /\ Tables.fd = fd
    BY DEF Tables
  <2> HIDE DEF m, s, st
  <2> QED BY <2>2, <2>3 DEF FirstOpen, Outcome
<1> HIDE DEF m, s, st
<1>4. st.oft \in OftType /\ st.fd \in FdType /\ st.size \in SizeType /\ st.err \in BOOLEAN
  BY <1>3 DEF States
<1>5. oft \in OftType /\ fd \in FdType /\ size \in SizeType /\ i # NoIno
  BY <1>1, Types DEF Ino, NoIno, ROOT_INODE
<1>6. CASE i \in Dirs /\ minodes' = m /\ Lose(s) /\ UNCHANGED <<oft, fd, size, meant>>
  <2>1. Counts(NULL) /\ Held(minodes, minodes')
    BY <1>1, <1>3, <1>6, CountsFacts DEF Gained
  <2>2. Files
    BY <1>2, <1>5, <1>6, SameNames
  <2>3. Undisturbed(oft, fd, oft') /\ PointersFilled
    BY <1>6 DEF Undisturbed, PointersFilled
  <2> QED BY <1>1, <1>2, <1>5, <1>6, <2>1, <2>2, <2>3, NotOpened
<1>7. CASE i \notin Dirs /\ SetTables(st) /\ NoWrong /\ st.err = TRUE
           /\ minodes' = Put(m, s) /\ meant' = meant
  <2>1. Balanced(minodes, minodes')
    BY <1>3, <1>7, GoodMinodes, PutBack
  <2>2. Counts(NULL) /\ Held(minodes, minodes')
    BY <1>1, <1>3, <1>7, <2>1, CountsFacts DEF Balanced
  <2>3. UNCHANGED fd /\ oft' = st.oft /\ size' = st.size
    BY <1>3, <1>7 DEF SetTables
  <2>4. Files
    BY <1>2, <1>3, <1>4, <2>3, SameNames
  <2>5. minodes'[s].ino = i
    BY <1>3, <1>7, PutFacts DEF Gained, Held
  <2>6. PointersFilled
    BY <1>3, <1>5, <2>3, <2>5 DEF PointersFilled, Around
  <2> QED BY <1>1, <1>2, <1>3, <1>4, <1>7, <2>2, <2>3, <2>4, <2>6, NotOpened
<1>8. CASE i \notin Dirs /\ SetTables(st) /\ NoWrong /\ st.err = FALSE
           /\ minodes' = m /\ meant' = [meant EXCEPT ![st.ret] = i]
  <2>1. PICK f \in Fd, e \in Oft : Filling(Tables, m, s, mode, st, f, e)
    BY <1>3, <1>8
  <2>2. Counts(s) /\ Held(minodes, minodes') /\ minodes'[s].ino = i
    BY <1>1, <1>3, <1>8, CountsFacts DEF Gained
  <2>3. /\ fd[f] = NULL /\ e \in FreeEntries(oft) /\ st.ret = f /\ fd' = [fd EXCEPT ![f] = e]
        /\ oft' = st.oft /\ size' = st.size
        /\ oft' = [oft EXCEPT ![e] = [mode |-> mode, refCount |-> 1, mptr |-> s,
                                      offset |-> StartOffset(Tables, mode, e, i)]]
    BY <1>3, <1>8, <2>1 DEF SetTables, Filling, Tables
  <2>4. meant' \in [Pointer -> Ino \cup {NoIno}] /\ meant'[f] = i
        /\ \A p \in Pointer : p # f => meant'[p] = meant[p]
    BY <1>1, <1>8, <2>3 DEF TypeOK, Pointer
  <2>5. /\ oft'[e].refCount = 1 /\ oft'[e].mptr = s /\ oft'[e].mode = mode
        /\ oft'[e].offset = StartOffset(Tables, mode, e, i)
    BY <1>5, <2>3 DEF OftType
  <2>6. Opens(f, e, s)
    BY <1>3, <2>3, <2>4, <2>5 DEF Opens
  <2>7. Files
    BY <1>2, <1>3, <1>4, <2>3, SameNames
  <2>8. PointersFilled
    BY <1>3, <1>5, <2>2, <2>3 DEF PointersFilled, Around
  <2>9. \A g \in Fd : fd[g] # NULL /\ oft[fd[g]].mode # READ => oft[fd[g]].mptr # s
    <3>1. \A g \in Fd : fd[g] # NULL =>
            fd[g] \in Oft /\ oft[fd[g]].refCount = 1 /\ oft[fd[g]].mptr # NULL
      BY <1>1, <1>5 DEF TablesInv, Owned, FdType
    <3> QED BY <1>3, <1>8, <3>1, NotShared
  <2>10. ASSUME mode \in {READ_WRITE, APPEND}
         PROVE  i \in allocated' \ Dirs /\ oft'[e].offset <= size'[i]
    <3>1. size' = size
      BY <1>3, <1>8, <2>3, <2>10 DEF Truncates, Tables, READ_WRITE, APPEND, WRITE
    <3>2. oft'[e].offset \in {0, size[i]} /\ size[i] \in 0..MaxSize
      BY <1>1, <1>5, <2>5, <2>10 DEF StartOffset, Tables, READ, READ_WRITE, APPEND, SizeType
    <3>3. i \in allocated' \ Dirs
      BY <1>1, <1>2, <1>8 DEF FilesInv, FilesMarked
    <3> QED BY <3>1, <3>2, <3>3
  <2>11. oft' \in OftType /\ fd' \in FdType /\ skipped' \in 0..MaxSize
    BY <1>1, <1>2, <1>4, <1>8 DEF SetTables
  <2>12. /\ oft'[e].mode # READ =>
              \A g \in Fd : fd[g] # NULL /\ oft[fd[g]].mode # READ => oft[fd[g]].mptr # s
         /\ over'[s] = 0 => minodes'[s].ino = meant'[f]
         /\ oft'[e].mode \in {READ_WRITE, APPEND} =>
              meant'[f] \in allocated' \ Dirs /\ oft'[e].offset <= size'[meant'[f]]
    BY <2>2, <2>4, <2>5, <2>9, <2>10
  <2>13. UNCHANGED cwd /\ s \in Slot
    BY <1>2, <1>3
  <2> QED BY <2>2, <2>4, <2>6, <2>7, <2>8, <2>11, <2>12, <2>13, Opened
<1> QED BY <1>2, <1>4, <1>6, <1>7, <1>8

(* cat leaves no descriptor; it gives the entry back, its offset at the end. *)
LEMMA CatInv ==
  ASSUME IInv, NEW i \in named, NEW mode \in Mode, Cat(i, mode)
  PROVE  IInv'
<1> DEFINE m == Get(minodes, i)
           s == Where(minodes, i)
           st == OpenFile(Tables, m, s, mode)
           o == st.fd[st.ret]
           shown == st.size[i] - st.oft[o].offset
<1>1. TypeOK /\ TablesInv /\ FilesInv /\ i \in Ino /\ 0 \in 0..MaxSize
  BY DEF IInv, TypeOK
<1>2. /\ CanGet(minodes, i) /\ UNCHANGED <<cwd, named, allocated, meant>>
      /\ \/ st.err /\ SetTables(st) /\ minodes' = m /\ Lose(s) /\ skipped' = 0
         \/ /\ ~st.err /\ NoWrong /\ shown >= 0
            /\ oft' = [st.oft EXCEPT ![o].offset = st.size[i], ![o].refCount = 0]
            /\ skipped' = size[i] - shown
            /\ size' = st.size /\ UNCHANGED fd /\ minodes' = Put(m, s)
  BY DEF Cat
<1>3. /\ Gained(minodes, m, s) /\ s \in Slot /\ m[s].ino = i
      /\ st \in States /\ Undisturbed(oft, fd, st.oft) /\ Around(oft, st.oft, s)
      /\ Truncates(Tables, m, s, mode, st)
      /\ \A f \in Fd : Keeps(oft, fd, f) /\ over[oft[fd[f]].mptr] = 0 =>
           st.size[meant[f]] = size[meant[f]]
      /\ st.err = TRUE => st.fd = fd
      /\ st.err = FALSE =>
           /\ ~Duplicate(oft, m, s)
           /\ \E f \in Fd, e \in Oft : Filling(Tables, m, s, mode, st, f, e)
  <2>1. i \in Ino /\ CanGet(minodes, i) /\ mode \in Mode \cup {READ, WRITE}
    BY <1>1, <1>2
  <2>2. FirstOpen(m, s, i, mode, st)
    BY <2>1, OpenTables
  <2>3. Tables.oft = oft /\ Tables.fd = fd
    BY DEF Tables
  <2> HIDE DEF m, s, st
  <2> QED BY <2>2, <2>3 DEF FirstOpen, Outcome
<1> HIDE DEF m, s, st
<1>4. st.oft \in OftType /\ st.fd \in FdType /\ st.size \in SizeType /\ st.err \in BOOLEAN
  BY <1>3 DEF States
<1>5. oft \in OftType /\ fd \in FdType /\ size \in SizeType /\ i # NoIno
  BY <1>1, Types DEF Ino, NoIno, ROOT_INODE
<1>6. CASE st.err /\ SetTables(st) /\ minodes' = m /\ Lose(s) /\ skipped' = 0
  <2>1. Counts(NULL) /\ Held(minodes, minodes') /\ minodes'[s].ino = i
    BY <1>1, <1>3, <1>6, CountsFacts DEF Gained
  <2>2. UNCHANGED fd /\ oft' = st.oft /\ size' = st.size
    BY <1>3, <1>4, <1>6 DEF SetTables
  <2>3. Files
    BY <1>2, <1>3, <1>4, <2>2, SameNames
  <2>4. PointersFilled
    BY <1>3, <1>5, <2>1, <2>2 DEF PointersFilled, Around
  <2> QED BY <1>1, <1>2, <1>3, <1>4, <1>6, <2>1, <2>2, <2>3, <2>4, NotOpened
<1>7. CASE /\ ~st.err /\ NoWrong /\ shown >= 0
           /\ oft' = [st.oft EXCEPT ![o].offset = st.size[i], ![o].refCount = 0]
           /\ skipped' = size[i] - shown
           /\ size' = st.size /\ UNCHANGED fd /\ minodes' = Put(m, s)
  <2>1. PICK f \in Fd, e \in Oft : Filling(Tables, m, s, mode, st, f, e)
    BY <1>3, <1>4, <1>7
  <2>2. Balanced(minodes, minodes')
    BY <1>3, <1>7, GoodMinodes, PutBack
  <2>3. Counts(NULL) /\ Held(minodes, minodes') /\ minodes'[s].ino = i
    BY <1>1, <1>3, <1>7, <2>2, CountsFacts, PutFacts DEF Balanced, Gained, Held
  <2>4. o = e /\ e \in FreeEntries(oft)
    BY <1>5, <2>1 DEF Filling, Tables, FdType
  <2> HIDE DEF o
  <2>5. /\ oft' \in OftType /\ oft'[e].mptr = st.oft[e].mptr
        /\ \A x \in Oft : x # e => oft'[x] = st.oft[x]
    <3>1. st.size[i] \in 0..MaxSize
      BY <1>1, <1>4 DEF SizeType
    <3> QED BY <1>4, <1>7, <2>4, <3>1 DEF OftType
  <2>6. Files
    BY <1>2, <1>3, <1>4, <1>7, SameNames
  <2>7. PointersFilled
    BY <1>3, <1>5, <2>3, <2>5 DEF PointersFilled, Around
  <2>8. Undisturbed(oft, fd, oft')
    <3>1. \A g \in Fd : fd[g] # NULL => fd[g] \in Oft /\ fd[g] # e
      BY <1>1, <1>5, <2>4 DEF TablesInv, Owned, FdType, FreeEntries
    <3> QED BY <1>3, <2>5, <3>1 DEF Undisturbed
  <2>9. skipped' \in 0..MaxSize
    <3>1. /\ st.size[i] \in {size[i], 0} /\ size[i] \in 0..MaxSize
          /\ st.oft[e].offset \in 0..MaxSize
      BY <1>1, <1>3, <1>4, <1>5 DEF Truncates, Tables, SizeType, OftType
    <3> QED BY <1>7, <2>4, <3>1
  <2> QED BY <1>2, <1>7, <2>3, <2>5, <2>6, <2>7, <2>8, <2>9, NotOpened
<1> QED BY <1>2, <1>6, <1>7

(* cp: two open_files on slots got one after the other.  m and st0 are what  *)
(* it starts from, the slots after creat_file and the tables with the new    *)
(* file empty when the destination was missing.                              *)
LEMMA CopyInv ==
  ASSUME IInv, NEW i \in Ino, NEW j \in Ino, NEW m, Balanced(minodes, m),
         NEW st0 \in States, st0.oft = oft, st0.fd = fd,
         \A f \in Fd : Keeps(oft, fd, f) /\ over[oft[fd[f]].mptr] = 0 =>
           st0.size[meant[f]] = size[meant[f]],
         named' \subseteq Ino, allocated' \subseteq Ino, FilesMarked',
         allocated \ Dirs \subseteq allocated',
         Copy(m, i, j, st0)
  PROVE  IInv'
<1> DEFINE m1 == Get(m, i)
           src == Where(m, i)
           m2 == Get(m1, j)
           dst == Where(m1, j)
           st1 == OpenFile(st0, m2, src, READ)
           st2 == OpenFile(st1, m2, dst, WRITE)
<1>1. /\ CanGet(m, i) /\ CanGet(m1, j) /\ minodes' = Put(Put(m2, src), dst)
      /\ IF st2.err THEN CopyRefused(i, src, st1, st2) ELSE CopyDone(i, j, st1, st2)
      /\ skipped' = 0 /\ UNCHANGED cwd
  BY DEF Copy
<1>2. Good(minodes) /\ Good(m)
  BY GoodMinodes DEF Balanced, Held
<1>3. /\ Gained(m, m1, src) /\ src \in Slot /\ m1[src].ino = i /\ Good(m1)
      /\ Gained(m1, m2, dst) /\ dst \in Slot /\ m2[dst].ino = j /\ Good(m2)
      /\ m2[src].ino \in {i, j}
  BY <1>1, <1>2, GetGains DEF Gained, Held
<1>4. Balanced(m, Put(Put(m2, src), dst)) /\ Held(m, m2)
  BY <1>1, <1>2, TwoGets
<1>5. Balanced(minodes, minodes') /\ Held(minodes, m2)
  BY <1>1, <1>2, <1>4, BalancedTwice, HeldTrans DEF Balanced
<1>6. Outcome(st0, m2, src, READ, st1)
  BY <1>3, OpenFileFacts
<1>7. Outcome(st1, m2, dst, WRITE, st2)
  <2>1. st1 \in States
    BY <1>6 DEF Outcome
  <2> HIDE DEF st1, m2, dst
  <2> QED BY <1>3, <2>1, OpenFileFacts
<1> HIDE DEF m1, m2, src, dst, st1, st2
<1>8. /\ TypeOK /\ TablesInv /\ HeldInv /\ FilesInv /\ 0 \in 0..MaxSize
      /\ oft \in OftType /\ fd \in FdType /\ size \in SizeType
      /\ i # NoIno /\ j # NoIno /\ over \in [Slot -> Nat]
      /\ meant \in [Pointer -> Ino \cup {NoIno}]
  <2>1. i # NoIno /\ j # NoIno
    BY DEF Ino, NoIno, ROOT_INODE
  <2>2. TypeOK /\ TablesInv /\ HeldInv /\ FilesInv
    BY DEF IInv
  <2>3. /\ oft \in OftType /\ fd \in FdType /\ size \in SizeType
        /\ over \in [Slot -> Nat] /\ meant \in [Pointer -> Ino \cup {NoIno}]
    BY <2>2, Types DEF TypeOK
  <2> QED BY <2>1, <2>2, <2>3
<1>9. /\ st1.oft \in OftType /\ st1.fd \in FdType /\ st1.size \in SizeType /\ st1.err \in BOOLEAN
      /\ st2.oft \in OftType /\ st2.fd \in FdType /\ st2.size \in SizeType /\ st2.err \in BOOLEAN
      /\ st1 \in States /\ st2 \in States
  BY <1>6, <1>7 DEF Outcome, States
<1>10. /\ Undisturbed(oft, fd, st1.oft) /\ Owned(st1.oft, fd)
  BY <1>6, <1>8, AroundUsed DEF Outcome, TablesInv
<1>11. Undisturbed(st1.oft, fd, st2.oft)
  BY <1>7, <1>8, <1>10, AroundUsed DEF Outcome
<1>12. Undisturbed(oft, fd, st0.oft) /\ Undisturbed(oft, fd, st2.oft)
  BY <1>10, <1>11 DEF Undisturbed
<1>13. ASSUME NEW f \in Fd, Keeps(oft, fd, f), over[oft[fd[f]].mptr] = 0
       PROVE  st2.size[meant[f]] = size[meant[f]]
  <2>1. st1.size[meant[f]] = st0.size[meant[f]]
    BY <1>5, <1>6, <1>12, <1>13, TruncationKeeps DEF Outcome
  <2>2. st2.size[meant[f]] = st1.size[meant[f]]
    BY <1>5, <1>7, <1>9, <1>10, <1>13, TruncationKeeps DEF Outcome
  <2> QED BY <1>13, <2>1, <2>2
<1>14. \A o \in Oft : st2.oft[o].mptr \in {oft[o].mptr, src, dst}
  BY <1>6, <1>7 DEF Outcome, Around
<1>15. minodes'[src].ino # NoIno /\ minodes'[dst].ino # NoIno
  <2>1. Good(Put(m2, src)) /\ \A s \in Slot : Put(m2, src)[s].ino = m2[s].ino
    BY <1>3, PutFacts
  <2>2. \A s \in Slot : minodes'[s].ino = m2[s].ino
    BY <1>1, <1>3, <2>1, PutFacts
  <2> QED BY <1>3, <1>8, <2>2
<1>16. ASSUME \A o \in Oft : oft'[o].mptr = st2.oft[o].mptr
       PROVE  PointersFilled
  BY <1>14, <1>15, <1>16 DEF PointersFilled
<1>17. Held(minodes, minodes') /\ skipped' \in 0..MaxSize /\ UNCHANGED cwd
  BY <1>1, <1>5, <1>8 DEF Balanced
<1>18. CASE st2.err = TRUE /\ st1.err = TRUE
  <2>1. SetTables(st2) /\ NoWrong /\ meant' = meant
    BY <1>1, <1>18 DEF CopyRefused
  <2>2. UNCHANGED fd /\ oft' = st2.oft /\ size' = st2.size
    BY <1>6, <1>7, <1>18, <2>1 DEF SetTables, Outcome
  <2>3. Counts(NULL)
    BY <1>3, <1>5, <1>8, <2>1, CountsFacts
  <2>4. Files
    BY <1>9, <1>13, <2>2 DEF Files
  <2>5. PointersFilled
    BY <1>16, <2>2
  <2> QED BY <1>9, <1>12, <1>17, <2>1, <2>2, <2>3, <2>4, <2>5, NotOpened
<1>19. CASE st2.err = TRUE /\ st1.err = FALSE
  <2>1. SetTables(st2) /\ PutTwice(src) /\ meant' = [meant EXCEPT ![st1.ret] = i]
    BY <1>1, <1>19 DEF CopyRefused
  <2>2. PICK f \in Fd, e \in Oft : Filling(st0, m2, src, READ, st1, f, e)
    BY <1>6, <1>19 DEF Outcome
  <2>3. /\ fd[f] = NULL /\ e \in FreeEntries(oft) /\ st1.ret = f /\ st1.fd = [fd EXCEPT ![f] = e]
        /\ st1.oft = [oft EXCEPT ![e] = [mode |-> READ, refCount |-> 1, mptr |-> src,
                                         offset |-> StartOffset(st0, READ, e, m2[src].ino)]]
    BY <2>2 DEF Filling
  <2>4. oft' = st2.oft /\ size' = st2.size /\ fd' = [fd EXCEPT ![f] = e]
    BY <1>7, <1>19, <2>1, <2>3 DEF SetTables, Outcome
  <2>5. oft'[e].refCount = 1 /\ oft'[e].mptr = src /\ oft'[e].mode = READ
    <3>1. st1.oft[e].refCount = 1 /\ st1.oft[e].mptr = src /\ st1.oft[e].mode = READ
      BY <1>8, <2>3 DEF OftType
    <3> QED BY <1>7, <2>4, <3>1 DEF Outcome, Around, FreeEntries
  <2>6. meant' \in [Pointer -> Ino \cup {NoIno}] /\ \A p \in Pointer : p # f => meant'[p] = meant[p]
    BY <1>8, <2>1, <2>3
  <2>7. Opens(f, e, src)
    BY <1>12, <2>3, <2>4, <2>5, <2>6 DEF Opens
  <2>8. Counts(src)
    BY <1>3, <1>5, <1>8, <2>1, CountsFacts
  <2>9. over'[src] # 0
    BY <1>3, <1>8, <2>1 DEF PutTwice
  <2>10. Files
    BY <1>9, <1>13, <2>4 DEF Files
  <2>11. PointersFilled
    BY <1>16, <2>4
  <2>12. oft' \in OftType /\ fd' \in FdType
    BY <1>9, <2>1 DEF SetTables
  <2>13. oft'[e].mode \notin {READ_WRITE, APPEND}
    BY <2>5 DEF READ, READ_WRITE, APPEND
  <2> QED BY <1>3, <1>17, <2>5, <2>6, <2>7, <2>8, <2>9, <2>10, <2>11, <2>12, <2>13, Opened
<1>20. CASE st2.err = FALSE
  <2>1. CopyDone(i, j, st1, st2)
    BY <1>1, <1>20
  <2>2. st1.err = FALSE /\ ~Duplicate(st1.oft, m2, dst)
    BY <1>7, <1>20 DEF Outcome
  <2>3. PICK f1 \in Fd, e1 \in Oft : Filling(st0, m2, src, READ, st1, f1, e1)
    BY <1>6, <2>2 DEF Outcome
  <2>4. PICK f2 \in Fd, e2 \in Oft : Filling(st1, m2, dst, WRITE, st2, f2, e2)
    BY <1>7, <1>20 DEF Outcome
  <2>5. /\ st1.ret = f1 /\ st2.ret = f2 /\ e1 \in FreeEntries(oft) /\ e2 \in FreeEntries(st1.oft)
        /\ st2.fd[f1] = e1 /\ st2.fd[f2] = e2
    <3>1. /\ st1.ret = f1 /\ e1 \in FreeEntries(oft) /\ st1.fd = [fd EXCEPT ![f1] = e1]
          /\ st2.ret = f2 /\ e2 \in FreeEntries(st1.oft) /\ st2.fd = [st1.fd EXCEPT ![f2] = e2]
          /\ st1.fd[f2] = NULL
      BY <2>3, <2>4 DEF Filling
    <3>2. st1.fd[f1] = e1 /\ e1 # NULL
      BY <1>8, <3>1 DEF FdType, Oft, NULL
    <3> QED BY <1>9, <3>1, <3>2 DEF FdType
  <2>6. /\ oft' = [o \in Oft |-> IF o \in {e1, e2} THEN [st2.oft[o] EXCEPT !.refCount = 0, !.offset = 0]
                                                   ELSE st2.oft[o]]
        /\ size' = [st2.size EXCEPT ![j] = st2.size[i]]
        /\ NoWrong /\ UNCHANGED <<fd, meant>>
    BY <2>1, <2>5 DEF CopyDone
  <2>7. oft' \in OftType /\ \A o \in Oft : oft'[o].mptr = st2.oft[o].mptr
    <3>1. \A o \in Oft :
            /\ oft'[o] = IF o \in {e1, e2} THEN [st2.oft[o] EXCEPT !.refCount = 0, !.offset = 0]
                                           ELSE st2.oft[o]
            /\ st2.oft[o] \in [mode : Mode \cup {READ, WRITE}, refCount : {0, 1},
                               mptr : Slot \cup {NULL}, offset : 0..MaxSize]
      BY <1>9, <2>6 DEF OftType
    <3>2. \A o \in Oft :
            /\ oft'[o].mptr = st2.oft[o].mptr
            /\ oft'[o] \in [mode : Mode \cup {READ, WRITE}, refCount : {0, 1},
                            mptr : Slot \cup {NULL}, offset : 0..MaxSize]
      <4> TAKE o \in Oft
      <4> DEFINE entry == st2.oft[o]
      <4>1. /\ entry \in [mode : Mode \cup {READ, WRITE}, refCount : {0, 1},
                           mptr : Slot \cup {NULL}, offset : 0..MaxSize]
            /\ 0 \in 0..MaxSize
            /\ \/ oft'[o] = entry
               \/ oft'[o] = [entry EXCEPT !.refCount = 0, !.offset = 0]
        BY <1>8, <3>1
      <4> HIDE DEF entry
      <4>2. CASE oft'[o] = entry
        BY <4>1, <4>2 DEF entry
      <4>3. CASE oft'[o] = [entry EXCEPT !.refCount = 0, !.offset = 0]
        <5>1. /\ oft'[o].mptr = entry.mptr
              /\ oft'[o] \in [mode : Mode \cup {READ, WRITE}, refCount : {0, 1},
                              mptr : Slot \cup {NULL}, offset : 0..MaxSize]
          BY <4>1, <4>3
        <5> QED BY <5>1 DEF entry
      <4> QED BY <4>1, <4>2, <4>3
    <3>3. oft' = [o \in Oft |-> oft'[o]]
      BY <2>6
    <3> QED BY <3>2, <3>3 DEF OftType
  <2>8. Undisturbed(oft, fd, oft')
    <3>1. \A g \in Fd : fd[g] # NULL => fd[g] \in Oft /\ fd[g] # e1 /\ fd[g] # e2
      BY <1>8, <1>10, <2>5 DEF TablesInv, Owned, FdType, FreeEntries
    <3> QED BY <1>12, <2>6, <3>1 DEF Undisturbed
  <2>9. Counts(NULL)
    BY <1>3, <1>5, <1>8, <2>6, CountsFacts
  <2>10. size' \in SizeType
    BY <1>9, <2>6 DEF SizeType
  <2>11. ASSUME NEW f \in Fd, Keeps(oft, fd, f), over[oft[fd[f]].mptr] = 0
         PROVE  size'[meant[f]] = size[meant[f]]
    <3>1. meant[f] # m2[dst].ino
      BY <1>5, <1>8, <1>10, <2>2, <2>11, KeepsOthers
    <3>2. meant[f] \in Ino
      BY <1>8, <2>11 DEF FilesInv, Kept, TypeOK
    <3> QED BY <1>3, <1>9, <1>13, <2>6, <2>11, <3>1, <3>2 DEF SizeType
  <2>12. Files
    BY <2>10, <2>11 DEF Files
  <2>13. PointersFilled
    BY <1>16, <2>7
  <2> QED BY <1>17, <2>6, <2>7, <2>8, <2>9, <2>12, <2>13, NotOpened
<1> QED BY <1>9, <1>18, <1>19, <1>20

(* cp onto a file that exists keeps the invariant.                           *)
LEMMA CpInv ==
  ASSUME IInv, NEW i \in named, NEW j \in named, Cp(i, j)
  PROVE  IInv'
<1>1. /\ i \in Ino /\ j \in Ino /\ named' \subseteq Ino /\ allocated' \subseteq Ino /\ FilesMarked'
      /\ allocated \ Dirs \subseteq allocated'
  BY DEF IInv, TypeOK, FilesInv, FilesMarked, Cp
<1>2. Tables \in States /\ Tables.oft = oft /\ Tables.fd = fd /\ Tables.size = size
  BY Types DEF IInv, Tables
<1>3. Balanced(minodes, minodes)
  BY GoodMinodes, Refs DEF Balanced, Held
<1>4. Copy(minodes, i, j, Tables)
  BY DEF Cp
<1> HIDE DEF Tables
<1> QED BY <1>1, <1>2, <1>3, <1>4, CopyInv

(* cp to a new name keeps the invariant: the new inode was not marked, so no *)
(* descriptor keeps it.                                                      *)
LEMMA CpNewInv ==
  ASSUME IInv, NEW i \in named, NEW p \in Ino, NEW j \in Ino, CpNew(i, p, j)
  PROVE  IInv'
<1> DEFINE st0 == [Tables EXCEPT !.size[j] = 0]
           m == Created(minodes, p, j)
<1>1. /\ j \notin Dirs /\ CanCreate(minodes, p, j) /\ j \notin allocated /\ Copy(m, i, j, st0)
      /\ named' = named \cup {j} /\ allocated' = allocated \cup {j}
  BY DEF CpNew, CanCreate
<1>2. Balanced(minodes, m)
  BY <1>1, GoodMinodes, CreatedBalanced
<1>3. /\ size \in SizeType /\ named \subseteq Ino /\ allocated \subseteq Ino /\ FilesMarked
      /\ Kept /\ i \in Ino /\ Tables \in States
  BY Types DEF IInv, TypeOK, FilesInv
<1>4. st0.oft = oft /\ st0.fd = fd /\ st0.size = [size EXCEPT ![j] = 0] /\ st0 \in States
  <2>1. [size EXCEPT ![j] = 0] \in SizeType
    BY <1>3 DEF SizeType
  <2>2. st0 = [oft |-> oft, fd |-> fd, size |-> [size EXCEPT ![j] = 0], err |-> FALSE, ret |-> -1]
    <3>1. /\ Tables.oft = oft /\ Tables.fd = fd /\ Tables.size = size
          /\ Tables.err = FALSE /\ Tables.ret = -1
          /\ Tables = [oft |-> Tables.oft, fd |-> Tables.fd, size |-> Tables.size,
                       err |-> Tables.err, ret |-> Tables.ret]
      BY DEF Tables
    <3>2. st0 = [Tables EXCEPT !.size[j] = 0]
      OBVIOUS
    <3> HIDE DEF Tables, st0
    <3>3. st0 = [oft |-> Tables.oft, fd |-> Tables.fd, size |-> [Tables.size EXCEPT ![j] = 0],
                 err |-> Tables.err, ret |-> Tables.ret]
      BY <3>1, <3>2
    <3> QED BY <3>1, <3>3
  <2>3. oft \in OftType /\ fd \in FdType /\ -1 \in Fd \cup {-1}
    BY Types DEF IInv
  <2> HIDE DEF st0
  <2>4. st0.oft = oft /\ st0.fd = fd /\ st0.size = [size EXCEPT ![j] = 0]
    BY <2>2
  <2>5. st0 \in States
    BY <2>1, <2>2, <2>3 DEF States
  <2> QED BY <2>4, <2>5
<1> HIDE DEF st0, m
<1>5. \A f \in Fd : Keeps(oft, fd, f) => st0.size[meant[f]] = size[meant[f]]
  BY <1>1, <1>3, <1>4 DEF Kept, SizeType
<1>6. /\ named' \subseteq Ino /\ allocated' \subseteq Ino /\ FilesMarked'
      /\ allocated \ Dirs \subseteq allocated'
  BY <1>1, <1>3 DEF FilesMarked
<1> QED BY <1>1, <1>2, <1>3, <1>4, <1>5, <1>6, CopyInv
-----------------------------------------------------------------------------
(* Commands that move a pointer: cd in its two forms, lseek, close.          *)
LEMMA CwdMoves ==
  ASSUME IInv, Good(minodes'), cwd' \in Slot, UNCHANGED <<oft, fd, disk, lost, over>>,
         skipped' = 0, meant' \in [Pointer -> Ino \cup {NoIno}],
         \A f \in Fd : meant'[f] = meant[f],
         \A s \in Slot :
           /\ minodes'[s].refCount = minodes[s].refCount + (IF s = cwd' THEN 1 ELSE 0)
                                                         - (IF s = cwd THEN 1 ELSE 0)
           /\ minodes[s].refCount >= 1 => minodes'[s].ino = minodes[s].ino
           /\ minodes[s].ino # NoIno => minodes'[s].ino # NoIno,
         minodes'[cwd'].ino # NoIno,
         over[cwd'] = 0 => minodes'[cwd'].ino = meant'[Cwd]
  PROVE  IInv'
<1>1. TypeOK /\ TablesInv /\ HeldInv /\ FilesInv
  BY DEF IInv
<1>2. /\ lost \in [Slot -> Nat] /\ over \in [Slot -> Nat]
      /\ \A s \in Slot : minodes[s].refCount \in Int
      /\ \A o \in Oft : oft[o].mptr # NULL => oft[o].mptr \in Slot
  BY <1>1 DEF TypeOK
<1>3. TypeOK'
  <2>1. UNCHANGED <<oft, fd, size, named, allocated, lost, over>> /\ 0 \in 0..MaxSize
    BY DEF disk
  <2>2. /\ oft \in OftType /\ fd \in FdType /\ size \in SizeType
        /\ named \subseteq Ino /\ allocated \subseteq Ino
        /\ lost \in [Slot -> Nat] /\ over \in [Slot -> Nat]
    BY <1>1, Types DEF TypeOK
  <2>3. minodes' \in MinodesType
    BY DEF Good
  <2>4. /\ oft' \in OftType /\ fd' \in FdType /\ size' \in SizeType
        /\ named' \subseteq Ino /\ allocated' \subseteq Ino
        /\ lost' \in [Slot -> Nat] /\ over' \in [Slot -> Nat] /\ skipped' \in 0..MaxSize
    BY <2>1, <2>2
  <2> QED BY <2>3, <2>4, TypesStep
<1>4. Filled'
  <2>1. \A s \in Slot : minodes[s].ino # NoIno => minodes'[s].ino # NoIno
    OBVIOUS
  <2>2. minodes[Root].ino # NoIno /\ \A o \in Oft : oft[o].mptr # NULL => minodes[oft[o].mptr].ino # NoIno
    BY <1>1 DEF TablesInv, Filled
  <2>3. Root \in Slot
    BY DEF Root, Slot
  <2> QED BY <1>2, <2>1, <2>2, <2>3 DEF Filled
<1>5. TablesInv'
  BY <1>1, <1>4 DEF TablesInv, Good, Owned, Writers
<1>6. ASSUME NEW s \in Slot
      PROVE  minodes'[s].refCount = Users(s)' + lost'[s] - over'[s]
  <2> DEFINE c == Cardinality(Pointers(oft, fd, s))
  <2>1. c \in Nat
    BY PointersFinite
  <2>2. Users(s)' = c + (IF cwd' = s THEN 1 ELSE 0) + (IF s = Root THEN 1 ELSE 0)
    BY DEF Users, Pointers
  <2>3. Users(s) = c + (IF cwd = s THEN 1 ELSE 0) + (IF s = Root THEN 1 ELSE 0)
    BY DEF Users, Pointers
  <2>4. minodes[s].refCount = Users(s) + lost[s] - over[s]
    BY <1>1 DEF HeldInv, RefsAccounted
  <2>5. lost[s] \in Nat /\ over[s] \in Nat
    BY <1>2
  <2> HIDE DEF c
  <2>6. minodes'[s].refCount = c + (IF cwd' = s THEN 1 ELSE 0) + (IF s = Root THEN 1 ELSE 0)
                               + lost[s] - over[s]
    BY <1>2, <2>1, <2>3, <2>4, <2>5
  <2> QED BY <2>2, <2>6
<1>7. ASSUME NEW s \in Slot, over[s] = 0,
             s = cwd \/ s = Root \/ \E f \in Fd : fd[f] # NULL /\ oft[fd[f]].mptr = s
      PROVE  minodes'[s].ino = minodes[s].ino
  BY <1>1, <1>7, UserHolds DEF HeldInv
<1>8. Pinned'
  <2>1. ASSUME NEW f \in Fd, fd[f] # NULL, over[oft[fd[f]].mptr] = 0
        PROVE  minodes'[oft[fd[f]].mptr].ino = meant[f]
    <3>1. oft[fd[f]].mptr \in Slot
      BY <1>1, <2>1 DEF TablesInv, Owned, TypeOK
    <3>2. f \in Pointer /\ At(f) = oft[fd[f]].mptr
      BY DEF Pointer, At, Cwd, Fd
    <3> QED BY <1>1, <1>7, <2>1, <3>1, <3>2 DEF HeldInv, Pinned
  <2>2. Cwd \notin Fd
    BY DEF Cwd, Fd
  <2> QED BY <2>1, <2>2 DEF Pinned, At, Pointer
<1>9. RootHeld'
  <2>1. Root \in Slot
    BY DEF Root, Slot
  <2> QED BY <1>1, <1>7, <2>1 DEF HeldInv, RootHeld
<1>10. FilesInv'
  BY <1>1 DEF FilesInv, Kept, Keeps, FilesMarked, disk
<1> QED BY <1>3, <1>5, <1>6, <1>8, <1>9, <1>10 DEF IInv, HeldInv, RefsAccounted

(* cd to a directory keeps the invariant.                                    *)
LEMMA CdInv ==
  ASSUME IInv, NEW i \in named, Cd(i)
  PROVE  IInv'
<1> DEFINE n == Get(minodes, i)
           w == Where(minodes, i)
<1>1. /\ Good(minodes) /\ i \in Ino /\ cwd \in Slot /\ CanGet(minodes, i)
      /\ meant \in [Pointer -> Ino \cup {NoIno}]
  BY GoodMinodes DEF IInv, TypeOK, Cd
<1>2. /\ minodes' = Put(n, cwd) /\ cwd' = w /\ meant' = [meant EXCEPT ![Cwd] = i]
      /\ UNCHANGED <<oft, fd, disk, lost, over>> /\ skipped' = 0
  BY DEF Cd, NoWrong
<1>3. Gained(minodes, n, w) /\ w \in Slot /\ n[w].ino = i /\ Good(n)
  BY <1>1, GetGains DEF Gained, Held
<1> HIDE DEF n, w
<1>4. /\ Good(minodes')
      /\ \A s \in Slot : /\ minodes'[s].ino = n[s].ino
                         /\ minodes'[s].refCount = n[s].refCount - (IF s = cwd THEN 1 ELSE 0)
  BY <1>1, <1>2, <1>3, PutFacts
<1>5. \A s \in Slot :
        /\ minodes'[s].refCount = minodes[s].refCount + (IF s = cwd' THEN 1 ELSE 0)
                                                      - (IF s = cwd THEN 1 ELSE 0)
        /\ minodes[s].refCount >= 1 => minodes'[s].ino = minodes[s].ino
        /\ minodes[s].ino # NoIno => minodes'[s].ino # NoIno
  <2> TAKE s \in Slot
  <2>1. /\ minodes[s].refCount \in Int /\ minodes'[s].ino = n[s].ino
        /\ minodes'[s].refCount = n[s].refCount - (IF s = cwd THEN 1 ELSE 0)
        /\ n[s].refCount = minodes[s].refCount + (IF s = w THEN 1 ELSE 0)
    BY <1>1, <1>3, <1>4, Refs DEF Gained
  <2>2. /\ minodes[s].refCount >= 1 => n[s].ino = minodes[s].ino
        /\ minodes[s].ino # NoIno => n[s].ino # NoIno
    BY <1>3 DEF Gained, Held
  <2> QED BY <1>2, <2>1, <2>2
<1>6. /\ meant' \in [Pointer -> Ino \cup {NoIno}] /\ meant'[Cwd] = i
      /\ \A f \in Fd : meant'[f] = meant[f]
  BY <1>1, <1>2 DEF Pointer, Cwd, Fd
<1>7. minodes'[cwd'].ino = i /\ i # NoIno /\ cwd' \in Slot
  BY <1>1, <1>2, <1>3, <1>4 DEF Ino, NoIno, ROOT_INODE
<1> QED BY <1>2, <1>4, <1>5, <1>6, <1>7, CwdMoves

(* cd without a path keeps it: the slot of `root' holds the root inode.      *)
LEMMA CdRootInv ==
  ASSUME IInv, CdRoot
  PROVE  IInv'
<1> DEFINE n == Put(minodes, cwd)
<1>1. /\ Good(minodes) /\ cwd \in Slot /\ Root \in Slot /\ over \in [Slot -> Nat]
      /\ meant \in [Pointer -> Ino \cup {NoIno}] /\ HeldInv /\ TypeOK
  <2>1. TypeOK /\ HeldInv /\ Root \in Slot
    BY DEF IInv, Root, Slot
  <2> QED BY <2>1, GoodMinodes DEF TypeOK
<1>2. /\ minodes' = [n EXCEPT ![Root].refCount = @ + 1]
      /\ cwd' = Root /\ meant' = [meant EXCEPT ![Cwd] = ROOT_INODE]
      /\ UNCHANGED <<oft, fd, disk, lost, over>> /\ skipped' = 0
  BY DEF CdRoot, NoWrong
<1>3. /\ Good(n)
      /\ \A s \in Slot : /\ n[s].ino = minodes[s].ino
                         /\ n[s].refCount = minodes[s].refCount - (IF s = cwd THEN 1 ELSE 0)
  BY <1>1, PutFacts
<1> HIDE DEF n
<1>4. /\ minodes' \in MinodesType
      /\ \A s \in Slot : /\ minodes'[s].ino = n[s].ino
                         /\ minodes'[s].refCount = n[s].refCount + (IF s = Root THEN 1 ELSE 0)
  BY <1>1, <1>2, <1>3 DEF Good, MinodesType
<1>5. Good(minodes')
  BY <1>3, <1>4 DEF Good, Distinct
<1>6. \A s \in Slot : minodes[s].refCount \in Int
  BY <1>1, Refs
<1>7. \A s \in Slot :
        /\ minodes'[s].refCount = minodes[s].refCount + (IF s = cwd' THEN 1 ELSE 0)
                                                      - (IF s = cwd THEN 1 ELSE 0)
        /\ minodes[s].refCount >= 1 => minodes'[s].ino = minodes[s].ino
        /\ minodes[s].ino # NoIno => minodes'[s].ino # NoIno
  BY <1>2, <1>3, <1>4, <1>6
<1>8. /\ meant' \in [Pointer -> Ino \cup {NoIno}] /\ meant'[Cwd] = ROOT_INODE
      /\ \A f \in Fd : meant'[f] = meant[f]
  BY <1>1, <1>2 DEF Pointer, Cwd, Fd, Ino, ROOT_INODE
<1>9. over[Root] = 0 => minodes'[Root].ino = ROOT_INODE
  BY <1>1, <1>3, <1>4 DEF HeldInv, RootHeld
<1>10. minodes'[Root].ino # NoIno
  BY <1>1, <1>3, <1>4 DEF IInv, TablesInv, Filled
<1> QED BY <1>1, <1>2, <1>5, <1>7, <1>8, <1>9, <1>10, CwdMoves

(* lseek keeps the invariant: the new offset lies inside the file.           *)
LEMMA LseekInv ==
  ASSUME IInv, NEW f \in Fd, NEW delta \in -MaxSize..MaxSize, Lseek(f, delta)
  PROVE  IInv'
<1> DEFINE e == fd[f]
           off == oft[e].offset + delta
<1>1. /\ TypeOK /\ TablesInv /\ HeldInv /\ FilesInv
      /\ oft \in OftType /\ fd \in FdType /\ size \in SizeType
  BY Types DEF IInv
<1>2. /\ e # NULL /\ Inside(off, minodes[oft[e].mptr].ino)
      /\ oft' = [oft EXCEPT ![e].offset = @ + delta]
      /\ skipped' = 0 /\ UNCHANGED <<minodes, fd, cwd, size, named, allocated, meant, lost, over>>
  BY DEF Lseek, NoWrong, disk
<1>3. /\ e \in Oft /\ oft[e].mptr \in Slot /\ oft[e].offset \in 0..MaxSize
      /\ minodes[oft[e].mptr].ino \in Ino /\ 0 \in 0..MaxSize
  <2>1. e \in Oft /\ oft[e].mptr \in Slot /\ oft[e].offset \in 0..MaxSize /\ 0 \in 0..MaxSize
    BY <1>1, <1>2 DEF TablesInv, Owned, OftType, FdType
  <2> QED BY <1>1, <2>1 DEF TablesInv, Filled, TypeOK, Slot, NULL
<1>4. off \in 0..MaxSize /\ off <= size[minodes[oft[e].mptr].ino]
  <2>1. size[minodes[oft[e].mptr].ino] \in 0..MaxSize
    BY <1>1, <1>3 DEF SizeType
  <2> QED BY <1>2, <1>3, <2>1 DEF Inside
<1>5. oft' \in OftType /\ oft'[e].offset = off
  BY <1>1, <1>2, <1>3, <1>4 DEF OftType
<1>6. \A o \in Oft : /\ oft'[o].mode = oft[o].mode /\ oft'[o].refCount = oft[o].refCount
                     /\ oft'[o].mptr = oft[o].mptr /\ (o # e => oft'[o] = oft[o])
  BY <1>1, <1>2, <1>3 DEF OftType
<1> HIDE DEF e, off
<1>7. \A g \in Fd : fd[g] # NULL => fd[g] \in Oft
  BY <1>1 DEF FdType
<1>8. TypeOK'
  BY <1>1, <1>2, <1>3, <1>5 DEF TypeOK, OftType
<1>9. Owned(oft', fd') /\ Writers(oft', fd')
  BY <1>1, <1>2, <1>6, <1>7 DEF TablesInv, Owned, Writers
<1>10. Filled'
  BY <1>1, <1>2, <1>6 DEF TablesInv, Filled
<1>11. TablesInv'
  BY <1>1, <1>2, <1>9, <1>10 DEF TablesInv, Distinct
<1>12. RefsAccounted'
  <2>1. ASSUME NEW s \in Slot
        PROVE  Users(s)' = Users(s)
    <3>1. Pointers(oft', fd', s) = Pointers(oft, fd, s)
      BY <1>2, <1>6, <1>7 DEF Pointers
    <3> QED BY <1>2, <3>1 DEF Users, Pointers
  <2> QED BY <1>1, <1>2, <2>1 DEF HeldInv, RefsAccounted
<1>13. Pinned'
  <2>1. \A p \in Pointer : (p = Cwd \/ fd[p] # NULL) => At(p)' = At(p)
    BY <1>2, <1>6, <1>7 DEF At, Pointer
  <2> QED BY <1>1, <1>2, <2>1 DEF HeldInv, Pinned
<1>14. RootHeld'
  BY <1>1, <1>2 DEF HeldInv, RootHeld
<1>15. Kept'
  <2> SUFFICES ASSUME NEW g \in Fd, Keeps(oft', fd', g)
               PROVE  /\ meant'[g] \in allocated' \ Dirs
                      /\ over'[oft'[fd'[g]].mptr] = 0 => oft'[fd'[g]].offset <= size'[meant'[g]]
    BY DEF Kept
  <2>1. fd[g] # NULL /\ Keeps(oft, fd, g)
    BY <1>2, <1>6, <1>7 DEF Keeps
  <2>2. /\ meant[g] \in allocated \ Dirs
        /\ over[oft[fd[g]].mptr] = 0 => oft[fd[g]].offset <= size[meant[g]]
    BY <1>1, <2>1 DEF FilesInv, Kept
  <2>3. CASE fd[g] # e
    BY <1>2, <1>6, <1>7, <2>1, <2>2, <2>3
  <2>4. CASE fd[g] = e
    <3>1. g \in Pointer /\ At(g) = oft[e].mptr
      BY <2>4 DEF Pointer, At, Cwd, Fd
    <3>2. over[oft[e].mptr] = 0 => minodes[oft[e].mptr].ino = meant[g]
      BY <1>1, <2>1, <3>1 DEF HeldInv, Pinned
    <3> QED BY <1>2, <1>3, <1>4, <1>5, <1>6, <2>2, <2>4, <3>2
  <2> QED BY <2>3, <2>4
<1>16. FilesMarked'
  BY <1>1, <1>2 DEF FilesInv, FilesMarked
<1> QED BY <1>8, <1>11, <1>12, <1>13, <1>14, <1>15, <1>16 DEF IInv, HeldInv, FilesInv

(* close keeps the invariant: the one pointer and the one reference go       *)
(* together.                                                                 *)
LEMMA CloseInv ==
  ASSUME IInv, NEW f \in Fd, Close(f)
  PROVE  IInv'
<1> DEFINE e == fd[f]
           s == oft[e].mptr
<1>1. /\ TypeOK /\ TablesInv /\ HeldInv /\ FilesInv /\ Good(minodes)
      /\ oft \in OftType /\ fd \in FdType
  BY Types, GoodMinodes DEF IInv
<1>2. /\ meant \in [Pointer -> Ino \cup {NoIno}]
      /\ lost \in [Slot -> Nat] /\ over \in [Slot -> Nat] /\ 0 \in 0..MaxSize
  BY <1>1 DEF TypeOK
<1>3. e \in Oft /\ s \in Slot /\ oft[e].refCount = 1
  <2>1. e # NULL
    BY DEF Close
  <2>2. oft[e].refCount = 1 /\ s # NULL
    BY <1>1, <2>1 DEF TablesInv, Owned
  <2>3. e \in Oft
    BY <1>1, <2>1 DEF FdType
  <2> QED BY <1>1, <2>2, <2>3 DEF OftType
<1>4. /\ fd' = [fd EXCEPT ![f] = NULL] /\ oft' = [oft EXCEPT ![e].refCount = @ - 1]
      /\ minodes' = Put(minodes, s) /\ meant' = [meant EXCEPT ![f] = NoIno]
      /\ skipped' = 0 /\ UNCHANGED <<cwd, size, named, allocated, lost, over>>
  BY <1>3 DEF Close, NoWrong, disk
<1>5. /\ Good(minodes')
      /\ \A t \in Slot : /\ minodes'[t].ino = minodes[t].ino
                         /\ minodes'[t].refCount = minodes[t].refCount - (IF t = s THEN 1 ELSE 0)
  BY <1>1, <1>3, <1>4, PutFacts
<1> HIDE DEF e, s
<1>6. /\ oft' \in OftType /\ \A o \in Oft : oft'[o].mptr = oft[o].mptr
      /\ \A o \in Oft : o # e => oft'[o] = oft[o]
  BY <1>1, <1>3, <1>4 DEF OftType
<1>7. /\ fd' \in FdType /\ fd'[f] = NULL
      /\ \A g \in Fd : g # f => fd'[g] = fd[g] /\ (fd[g] # NULL => fd[g] # e /\ fd[g] \in Oft)
  BY <1>1, <1>3, <1>4 DEF FdType, TablesInv, Owned, e, NULL, Oft
<1>8. /\ meant' \in [Pointer -> Ino \cup {NoIno}]
      /\ \A p \in Pointer : p # f => meant'[p] = meant[p]
  BY <1>2, <1>4
<1>9. \A g \in Fd : fd'[g] # NULL =>
        /\ g # f /\ fd[g] # NULL /\ fd'[g] = fd[g] /\ oft'[fd[g]] = oft[fd[g]]
  BY <1>6, <1>7
<1>10. TypeOK'
  BY <1>1, <1>2, <1>4, <1>5, <1>6, <1>7, <1>8 DEF TypeOK, Good, MinodesType, OftType, FdType
<1>11. Owned(oft', fd') /\ Writers(oft', fd')
  BY <1>1, <1>9 DEF TablesInv, Owned, Writers
<1>12. Filled'
  <2>1. cwd \in Slot /\ Root \in Slot /\ \A o \in Oft : oft[o].mptr # NULL => oft[o].mptr \in Slot
    BY <1>1 DEF TypeOK, Root, Slot
  <2> QED BY <1>1, <1>4, <1>5, <1>6, <2>1 DEF TablesInv, Filled
<1>13. TablesInv'
  BY <1>5, <1>11, <1>12 DEF TablesInv, Good
<1>14. ASSUME NEW t \in Slot
       PROVE  minodes'[t].refCount = Users(t)' + lost'[t] - over'[t]
  <2> DEFINE c == Cardinality(Pointers(oft, fd, t))
             d == Cardinality(Pointers(oft', fd', t))
  <2>1. c \in Nat /\ d \in Nat
    BY PointersFinite
  <2>2. c = d + (IF t = s THEN 1 ELSE 0)
    <3>1. CASE t = s
      <4>1. Pointers(oft, fd, t) = Pointers(oft', fd', t) \cup {f} /\ f \notin Pointers(oft', fd', t)
        BY <1>3, <1>7, <1>9, <3>1 DEF Pointers, e, s, Oft, NULL
      <4>2. IsFiniteSet(Pointers(oft', fd', t))
        BY PointersFinite
      <4>3. Cardinality(Pointers(oft', fd', t) \cup {f}) = Cardinality(Pointers(oft', fd', t)) + 1
        BY <4>1, <4>2, FS_AddElement
      <4>4. c = d + 1
        BY <4>1, <4>3
      <4> HIDE DEF c, d
      <4> QED BY <3>1, <4>4
    <3>2. CASE t # s
      <4>1. Pointers(oft', fd', t) = Pointers(oft, fd, t)
        BY <1>7, <1>9, <3>2 DEF Pointers, e, s
      <4> QED BY <2>1, <3>2, <4>1
    <3> QED BY <3>1, <3>2
  <2>3. Users(t)' = d + (IF cwd = t THEN 1 ELSE 0) + (IF t = Root THEN 1 ELSE 0)
    BY <1>4 DEF Users, Pointers
  <2>4. Users(t) = c + (IF cwd = t THEN 1 ELSE 0) + (IF t = Root THEN 1 ELSE 0)
    BY DEF Users, Pointers
  <2>5. minodes[t].refCount = Users(t) + lost[t] - over[t]
    BY <1>1 DEF HeldInv, RefsAccounted
  <2>6. minodes'[t].refCount = minodes[t].refCount - (IF t = s THEN 1 ELSE 0)
        /\ lost'[t] = lost[t] /\ over'[t] = over[t] /\ lost[t] \in Nat /\ over[t] \in Nat
    BY <1>2, <1>4, <1>5
  <2> HIDE DEF c, d
  <2>7. minodes'[t].refCount = d + (IF cwd = t THEN 1 ELSE 0) + (IF t = Root THEN 1 ELSE 0)
                               + lost'[t] - over'[t]
    BY <2>1, <2>2, <2>4, <2>5, <2>6
  <2> QED BY <2>3, <2>7
<1>15. Pinned'
  <2>1. ASSUME NEW p \in Pointer, p = Cwd \/ fd'[p] # NULL, over'[At(p)'] = 0
        PROVE  minodes'[At(p)'].ino = meant'[p]
    <3>1. p # f
      BY <1>7, <2>1 DEF Cwd, Fd
    <3>2. At(p)' = At(p) /\ (p = Cwd \/ fd[p] # NULL)
      BY <1>4, <1>9, <2>1 DEF At, Pointer
    <3>3. At(p) \in Slot
      BY <1>1, <3>2 DEF At, TypeOK, Pointer, TablesInv, Owned
    <3>4. minodes[At(p)].ino = meant[p]
      BY <1>1, <1>4, <2>1, <3>2 DEF HeldInv, Pinned
    <3> QED BY <1>5, <1>8, <3>1, <3>2, <3>3, <3>4
  <2> QED BY <2>1 DEF Pinned
<1>16. RootHeld'
  <2>1. Root \in Slot
    BY DEF Root, Slot
  <2> QED BY <1>1, <1>4, <1>5, <2>1 DEF HeldInv, RootHeld
<1>17. Kept'
  <2> SUFFICES ASSUME NEW g \in Fd, Keeps(oft', fd', g)
               PROVE  /\ meant'[g] \in allocated' \ Dirs
                      /\ over'[oft'[fd'[g]].mptr] = 0 => oft'[fd'[g]].offset <= size'[meant'[g]]
    BY DEF Kept
  <2>1. /\ g # f /\ fd'[g] = fd[g] /\ oft'[fd[g]] = oft[fd[g]] /\ Keeps(oft, fd, g)
        /\ g \in Pointer
    BY <1>9 DEF Keeps, Pointer
  <2> QED BY <1>1, <1>4, <1>8, <2>1 DEF FilesInv, Kept
<1>18. FilesMarked'
  BY <1>1, <1>4 DEF FilesInv, FilesMarked
<1> QED BY <1>10, <1>13, <1>14, <1>15, <1>16, <1>17, <1>18 DEF IInv, HeldInv, RefsAccounted, FilesInv
-----------------------------------------------------------------------------
(* The invariant holds at the start.                                         *)
LEMMA InitInv ==
  ASSUME Init
  PROVE  IInv
<1>1. Root \in Slot /\ ROOT_INODE \in Ino /\ 0 \in 0..MaxSize /\ MaxSize \in 0..MaxSize
  BY DEF Root, Slot, Ino, ROOT_INODE
<1>2. minodes \in MinodesType
  BY <1>1 DEF Init, MinodesType
<1>3. oft \in OftType /\ fd \in FdType /\ size \in SizeType
  BY <1>1 DEF Init, OftType, FdType, SizeType
<1>4. meant \in [Pointer -> Ino \cup {NoIno}]
  BY <1>1 DEF Init
<1>5. lost \in [Slot -> Nat] /\ over \in [Slot -> Nat] /\ cwd \in Slot /\ skipped \in 0..MaxSize
  BY <1>1 DEF Init
<1>6. named \subseteq Ino /\ allocated \subseteq Ino /\ FilesMarked
  BY DEF Init, Ino, FilesMarked
<1>7. TypeOK
  BY <1>2, <1>3, <1>4, <1>5, <1>6, TypesBack
<1>8. \A f \in Fd : fd[f] = NULL
  BY DEF Init
<1>9. \A s \in Slot : /\ minodes[s].ino = IF s = Root THEN ROOT_INODE ELSE NoIno
                      /\ minodes[s].refCount = IF s = Root THEN 2 ELSE 0
                      /\ lost[s] = 0 /\ over[s] = 0
  BY DEF Init
<1>10. TablesInv
  <2>1. Distinct(minodes)
    BY <1>9 DEF Distinct
  <2>2. Owned(oft, fd) /\ Writers(oft, fd)
    BY <1>8 DEF Owned, Writers
  <2>3. Filled
    BY <1>1, <1>9 DEF Init, Filled, NoIno, ROOT_INODE
  <2> QED BY <2>1, <2>2, <2>3 DEF TablesInv
<1>11. RefsAccounted
  <2>1. ASSUME NEW s \in Slot
        PROVE  minodes[s].refCount = Users(s) + lost[s] - over[s]
    <3>1. Pointers(oft, fd, s) = {}
      BY <1>8 DEF Pointers
    <3>2. Cardinality({}) = 0
      BY FS_EmptySet
    <3>3. Users(s) = 0 + (IF cwd = s THEN 1 ELSE 0) + (IF s = Root THEN 1 ELSE 0)
      BY <3>1, <3>2 DEF Users, Pointers
    <3>4. cwd = Root
      BY DEF Init
    <3> QED BY <1>9, <3>3, <3>4
  <2> QED BY <2>1 DEF RefsAccounted
<1>12. Pinned
  <2>1. At(Cwd) = Root /\ meant[Cwd] = ROOT_INODE
    BY DEF Init, At, Pointer
  <2> QED BY <1>1, <1>8, <1>9, <2>1 DEF Pinned, Pointer
<1>13. RootHeld
  BY <1>1, <1>9 DEF RootHeld
<1>14. Kept
  BY <1>8 DEF Kept, Keeps
<1> QED BY <1>6, <1>7, <1>10, <1>11, <1>12, <1>13, <1>14 DEF IInv, HeldInv, FilesInv

(* The directories pwd climbs through are a sequence of inodes.              *)
LEMMA AbovePaths ==
  ASSUME IInv, NEW q \in Above
  PROVE  q \in Seq(Ino)
<1>0. PICK D \in SUBSET Ino : \E q1 \in Seqs!SetToSeqs(D) : q = q1 \o <<ROOT_INODE>>
  <2> DEFINE between == Directory \ {ROOT_INODE, minodes[cwd].ino}
  <2>1. between \subseteq Ino
    BY DEF IInv, TypeOK, Directory
  <2>2. q \in {x \o <<ROOT_INODE>> : x \in UNION {Seqs!SetToSeqs(D) : D \in SUBSET between}}
    BY DEF Above
  <2> HIDE DEF between
  <2>3. PICK x \in UNION {Seqs!SetToSeqs(D) : D \in SUBSET between} : q = x \o <<ROOT_INODE>>
    BY <2>2
  <2>4. PICK D \in SUBSET between : x \in Seqs!SetToSeqs(D)
    BY <2>3
  <2> QED BY <2>1, <2>3, <2>4
<1>1. PICK q1 \in Seqs!SetToSeqs(D) : q = q1 \o <<ROOT_INODE>>
  BY <1>0
<1>2. IsFiniteSet(D)
  <2>1. IsFiniteSet(ROOT_INODE..MaxIno)
    BY FS_Interval DEF ROOT_INODE
  <2> QED BY <2>1, FS_Subset DEF Ino
<1>3. Cardinality(D) \in Nat
  BY <1>2, FS_CardinalityType
<1>4. q1 \in [1..Cardinality(D) -> D]
  <2>1. Seqs!Cardinality(D) = Cardinality(D)
    BY DEF Seqs!Cardinality, Cardinality
  <2>2. q1 \in [1..Seqs!Cardinality(D) -> D]
    BY <1>1 DEF Seqs!SetToSeqs
  <2> QED BY <2>1, <2>2
<1>5. q1 \in Seq(Ino)
  BY <1>3, <1>4
<1>6. <<ROOT_INODE>> \in Seq(Ino)
  BY DEF Ino, ROOT_INODE
<1> QED BY <1>1, <1>5, <1>6

(* And every command keeps it.                                               *)
LEMMA StepInv ==
  ASSUME IInv, [Next]_vars
  PROVE  IInv'
<1>1. /\ named \subseteq Ino /\ Directory \subseteq Ino /\ Directory \subseteq Dirs
  BY DEF IInv, TypeOK, Directory
<1>2. ASSUME NEW i \in named,
             \/ \E mode \in Mode : Open(i, mode) \/ Cat(i, mode)
             \/ \E j \in named : Cp(i, j)
             \/ \E p \in Directory, j \in Ino : CpNew(i, p, j)
             \/ Cd(i) \/ Visit(i)
             \/ \E p \in Directory : Remove(i, p) \/ Ls(p, i)
      PROVE  IInv'
  <2>1. ASSUME NEW mode \in Mode, Open(i, mode) PROVE IInv'
    BY <2>1, OpenInv
  <2>2. ASSUME NEW mode \in Mode, Cat(i, mode) PROVE IInv'
    BY <2>2, CatInv
  <2>3. ASSUME NEW j \in named, Cp(i, j) PROVE IInv'
    BY <2>3, CpInv
  <2>4. ASSUME NEW p \in Directory, NEW j \in Ino, CpNew(i, p, j) PROVE IInv'
    BY <1>1, <2>4, CpNewInv
  <2>5. CASE Cd(i)
    BY <2>5, CdInv
  <2>6. CASE Visit(i)
    BY <1>1, <2>6, VisitInv
  <2>7. ASSUME NEW p \in Directory, Remove(i, p) PROVE IInv'
    BY <1>1, <2>7, RemoveInv
  <2>8. ASSUME NEW p \in Directory, Ls(p, i) PROVE IInv'
    BY <1>1, <2>8, LsInv
  <2> QED BY <1>2, <2>1, <2>2, <2>3, <2>4, <2>5, <2>6, <2>7, <2>8
<1>3. ASSUME NEW p \in Directory, NEW i \in Ino, Make(p, i) PROVE IInv'
  BY <1>1, <1>3, MakeInv
<1>4. ASSUME NEW f \in Fd, Close(f) PROVE IInv'
  BY <1>4, CloseInv
<1>5. ASSUME NEW f \in Fd, NEW delta \in -MaxSize..MaxSize, Lseek(f, delta) PROVE IInv'
  BY <1>5, LseekInv
<1>6. CASE CdRoot
  BY <1>6, CdRootInv
<1>7. ASSUME NEW q \in Above, Pwd(q) PROVE IInv'
  BY <1>7, AbovePaths, PwdInv
<1>8. CASE UNCHANGED vars
  <2>1. Balanced(minodes, minodes')
    BY <1>8, GoodMinodes, Refs DEF vars, Balanced, Held
  <2>2. UNCHANGED <<oft, fd, cwd, size, named, allocated, lost, over, meant, skipped>>
    BY <1>8 DEF vars, disk
  <2>3. /\ size \in SizeType /\ named \subseteq Ino /\ allocated \subseteq Ino
        /\ skipped \in 0..MaxSize /\ FilesMarked
    BY Types DEF IInv, TypeOK, FilesInv
  <2>4. FilesMarked'
    BY <2>2, <2>3 DEF FilesMarked
  <2> QED BY <2>1, <2>2, <2>3, <2>4, Idle
<1> QED BY <1>2, <1>3, <1>4, <1>5, <1>6, <1>7, <1>8 DEF Next

(* Always: the inductive invariant.                                          *)
THEOREM Inductive == Spec => []IInv
<1> QED BY InitInv, StepInv, PTL DEF Spec

(* Reference accounting: the refCount of a slot is the number of pointers to *)
(* it, plus what was lost, minus what was given back twice.                  *)
THEOREM References == Spec => []RefsAccounted
<1>1. IInv => RefsAccounted
  BY DEF IInv, HeldInv
<1> QED BY <1>1, Inductive, PTL

(* Each descriptor, and cwd, leads to the inode it was taken for, as long as *)
(* no reference to its slot was given back twice.                            *)
THEOREM PointersPinned == Spec => []Pinned
<1>1. IInv => Pinned
  BY DEF IInv, HeldInv
<1> QED BY <1>1, Inductive, PTL

(* Each descriptor has a table entry of its own, in use.                     *)
THEOREM EntriesOwned == Spec => []OwnEntry
<1>1. IInv => OwnEntry
  BY DEF IInv, TablesInv, Owned, OwnEntry
<1> QED BY <1>1, Inductive, PTL

(* duplicate_oft: at most one descriptor of a file is open for more than     *)
(* READ.  It compares inodes, so that this also needs no inode to be in two  *)
(* slots, and no pointer to lead to a slot without one.                      *)
THEOREM OneWriter == Spec => []SingleWriter
<1>1. IInv => SingleWriter
  <2> SUFFICES ASSUME IInv, NEW f \in Fd, NEW g \in Fd, fd[f] # NULL, fd[g] # NULL,
                      oft[fd[f]].mode # READ, oft[fd[g]].mode # READ,
                      minodes[oft[fd[f]].mptr].ino = minodes[oft[fd[g]].mptr].ino
               PROVE  f = g
    BY DEF SingleWriter
  <2>1. TablesInv /\ oft \in OftType /\ fd \in FdType
    BY Types DEF IInv
  <2>2. /\ fd[f] \in Oft /\ fd[g] \in Oft
        /\ oft[fd[f]].mptr \in Slot /\ oft[fd[g]].mptr \in Slot
        /\ oft[fd[f]].mptr # NULL
    BY <2>1 DEF TablesInv, Owned, OftType, FdType
  <2>3. oft[fd[f]].mptr = oft[fd[g]].mptr
    BY <2>1, <2>2 DEF TablesInv, Filled, Distinct
  <2> QED BY <2>1, <2>3 DEF TablesInv, Writers
<1> QED BY <1>1, Inductive, PTL

(* The offset of a file open for reading and writing, or for appending,      *)
(* stays in the file: nobody truncates or removes it meanwhile.              *)
THEOREM OffsetsInFiles == Spec => []OffsetInFile
<1>1. IInv => OffsetInFile
  <2> SUFFICES ASSUME IInv, NEW f \in Fd, Keeps(oft, fd, f), over[oft[fd[f]].mptr] = 0
               PROVE  oft[fd[f]].offset <= size[minodes[oft[fd[f]].mptr].ino]
    BY DEF OffsetInFile, Keeps, IInv
  <2>1. f \in Pointer /\ At(f) = oft[fd[f]].mptr
    BY DEF Pointer, At, Cwd, Fd
  <2>2. minodes[oft[fd[f]].mptr].ino = meant[f]
    BY <2>1 DEF IInv, HeldInv, Pinned, Keeps
  <2> QED BY <2>2 DEF IInv, FilesInv, Kept
<1> QED BY <1>1, Inductive, PTL
=============================================================================
