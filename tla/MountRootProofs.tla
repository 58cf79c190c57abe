--------------------------- MODULE MountRootProofs --------------------------
(***************************************************************************)
(* Proofs about MountRoot, for every size of the table, every image and    *)
(* every set of paths: what is in which slot, the table full or not.       *)
(*                                                                         *)
(* The commands are folds over names, entries and blocks.  What holds of a *)
(* fold is shown by the least counterexample: the function its definition  *)
(* chooses exists (FoldFun), and its values stay in a set that the step    *)
(* does not leave (FoldStays).                                             *)
(***************************************************************************)
EXTENDS MountRoot, FiniteSetTheorems, WellFoundedInduction, TLAPS

(* What is in a sequence, and in two.                                       *)
LEMMA InSequence ==
  ASSUME NEW E, NEW u \in Seq(E)
  PROVE  /\ \A x : x \in ToSet(u) <=> \E i \in 1..Len(u) : u[i] = x
         /\ ToSet(u) \subseteq E
<1>1. ToSet(u) = {u[i] : i \in 1..Len(u)} BY DEF ToSet
<1> QED BY <1>1

(* A sequence of other things, if all of it are.                           *)
LEMMA InSmaller ==
  ASSUME NEW E, NEW D, NEW u \in Seq(E), \A j \in 1..Len(u) : u[j] \in D
  PROVE  u \in Seq(D)
<1>1. Len(u) \in Nat /\ u \in [1..Len(u) -> E] OBVIOUS
<1>2. u \in [1..Len(u) -> D] BY <1>1
<1> QED BY <1>1, <1>2

(* What is in two sequences, one behind the other.                         *)
LEMMA InBoth ==
  ASSUME NEW E, NEW u \in Seq(E), NEW v \in Seq(E)
  PROVE  u \o v \in Seq(E) /\ ToSet(u \o v) = ToSet(u) \cup ToSet(v)
<1>1. u \o v \in Seq(E) /\ Len(u \o v) = Len(u) + Len(v) /\ Len(u) \in Nat /\ Len(v) \in Nat OBVIOUS
<1>2. ASSUME NEW i \in 1..Len(u) PROVE i \in 1..Len(u \o v) /\ (u \o v)[i] = u[i] OBVIOUS
<1>3. ASSUME NEW i \in 1..Len(v) PROVE Len(u) + i \in 1..Len(u \o v) /\ (u \o v)[Len(u) + i] = v[i] OBVIOUS
<1>4. ASSUME NEW i \in 1..Len(u \o v), i \notin 1..Len(u)
      PROVE  i - Len(u) \in 1..Len(v) /\ (u \o v)[i] = v[i - Len(u)]
  BY <1>1, <1>4
<1>5. ASSUME NEW x \in ToSet(u \o v) PROVE x \in ToSet(u) \cup ToSet(v)
  <2>1. PICK i \in 1..Len(u \o v) : (u \o v)[i] = x BY <1>1, InSequence
  <2>2. CASE i \in 1..Len(u) BY <1>2, <2>1, <2>2, InSequence
  <2>3. CASE i \notin 1..Len(u) BY <1>4, <2>1, <2>3, InSequence
  <2> QED BY <2>2, <2>3
<1>6. ASSUME NEW x \in ToSet(u) PROVE x \in ToSet(u \o v)
  <2>1. PICK i \in 1..Len(u) : u[i] = x BY <1>6, InSequence
  <2> QED BY <1>1, <1>2, <2>1, InSequence
<1>7. ASSUME NEW x \in ToSet(v) PROVE x \in ToSet(u \o v)
  <2>1. PICK i \in 1..Len(v) : v[i] = x BY <1>7, InSequence
  <2>2. Len(u) + i \in 1..Len(u \o v) /\ (u \o v)[Len(u) + i] = x BY <1>3, <2>1
  <2> QED BY <1>1, <2>2, InSequence
<1> QED BY <1>1, <1>5, <1>6, <1>7

USE MountRootAssumption

(* The directories are a tree.                                              *)
LEMMA Upward ==
  /\ ROOT_INODE \in Dir /\ Parent(ROOT_INODE) = ROOT_INODE
  /\ \A i \in Dir : i \in Ino /\ i # NoIno /\ Image[i] # <<>> /\ Parent(i) \in Dir
<1>1. \A i \in Dir : Parent(i) \in Dir BY TreeAssumption
<1>2. \A i \in Dir : i \in Ino /\ i # NoIno /\ Image[i] # <<>> BY DEF Dir, Ino, NoIno
<1> QED BY <1>1, <1>2, TreeAssumption

(* An entry leads to the directory itself, up, or one down.                *)
LEMMA EntryLeads ==
  ASSUME NEW i \in Dir, NEW e \in ToSet(Entries(i)), e.inode \in Dir
  PROVE  e.inode \in {i, Parent(i)} \/ Parent(e.inode) = i
BY TreeAssumption

(* A set of natural numbers has a least element.                            *)
LEMMA LeastNat ==
  ASSUME NEW T \in SUBSET Nat, T # {}
  PROVE  Min(T) \in T /\ \A y \in T : Min(T) <= y
<1>1. \E x \in T : \A y \in T : ~(<<y, x>> \in OpToRel(<, Nat))
  BY NatLessThanWellFounded, WFMin
<1>2. PICK x \in T : \A y \in T : ~(<<y, x>> \in OpToRel(<, Nat))
  BY <1>1
<1>3. \A y \in T : ~(y < x)
  BY <1>2 DEF OpToRel
<1>4. \A y \in T : x =< y
  BY <1>3
<1> QED BY <1>4 DEF Min

(* A bounded one has a greatest.                                            *)
LEMMA GreatestNat ==
  ASSUME NEW T \in SUBSET Nat, T # {}, NEW b \in Nat, \A x \in T : x <= b
  PROVE  Max(T) \in T /\ \A y \in T : y <= Max(T)
<1> DEFINE U == {u \in Nat : \A x \in T : x <= u}
<1>1. U \in SUBSET Nat /\ U # {} OBVIOUS
<1>2. Min(U) \in U /\ \A y \in U : Min(U) <= y BY <1>1, LeastNat
<1>3. PICK u \in Nat : (\A x \in T : x <= u) /\ \A y \in U : u <= y BY <1>2
<1>4. u \in T
  <2> SUFFICES ASSUME u \notin T PROVE FALSE OBVIOUS
  <2>1. PICK x \in T : TRUE OBVIOUS
  <2>2. x <= u /\ x # u /\ x \in Nat BY <1>3, <2>1
  <2>3. u - 1 \in Nat BY <2>2
  <2>4. \A y \in T : y \in Nat /\ y <= u /\ y # u BY <1>3
  <2>5. \A y \in T : y <= u - 1 BY <2>4
  <2>6. u - 1 \in U BY <2>3, <2>5
  <2>7. u <= u - 1 BY <1>3, <2>6
  <2>8. ~(u <= u - 1) BY <2>2
  <2> QED BY <2>7, <2>8
<1>5. \E x \in T : \A y \in T : x >= y BY <1>3, <1>4
<1>6. Max(T) \in T /\ \A y \in T : Max(T) >= y BY <1>5 DEF Max
<1> QED BY <1>6

(* Finitely many numbers have a bound.                                      *)
LEMMA SequenceBound ==
  ASSUME NEW n \in Nat, NEW w \in [1..n -> Nat]
  PROVE  \E b \in Nat : \A j \in 1..n : w[j] <= b
<1> DEFINE Bounded(k) == \E b \in Nat : \A j \in 1..k : w[j] <= b
           Bad == {k \in 0..n : ~Bounded(k)}
<1>1. Bounded(0)
  <2>1. 0 \in Nat /\ \A j \in 1..0 : FALSE OBVIOUS
  <2> QED BY <2>1
<1>2. ASSUME NEW k \in 1..n, Bounded(k - 1) PROVE Bounded(k)
  <2>1. PICK b \in Nat : \A j \in 1..k-1 : w[j] <= b BY <1>2
  <2>2. w[k] \in Nat OBVIOUS
  <2>5. b + w[k] \in Nat /\ b <= b + w[k] /\ w[k] <= b + w[k] BY <2>2
  <2>3. PICK b2 \in Nat : b <= b2 /\ w[k] <= b2 BY <2>5
  <2>4. ASSUME NEW j \in 1..k PROVE w[j] <= b2
    <3>1. CASE j = k BY <2>3, <3>1
    <3>2. CASE j # k
      <4>1. j \in 1..k-1 /\ w[j] \in Nat BY <3>2
      <4>2. w[j] <= b BY <2>1, <4>1
      <4> QED BY <2>3, <4>1, <4>2
    <3> QED BY <3>1, <3>2
  <2> QED BY <2>4
<1> HIDE DEF Bounded
<1>3. Bad = {}
  <2> SUFFICES ASSUME Bad # {} PROVE FALSE OBVIOUS
  <2>1. Bad \in SUBSET Nat OBVIOUS
  <2>2. Min(Bad) \in Bad /\ \A y \in Bad : Min(Bad) <= y BY <2>1, LeastNat
  <2>3. PICK k \in Bad : \A y \in Bad : k <= y BY <2>2
  <2>4. k \in 0..n /\ ~Bounded(k) OBVIOUS
  <2>5. k \in 1..n /\ k - 1 \in 0..n /\ ~(k <= k - 1) BY <1>1, <2>4
  <2>6. Bounded(k - 1) BY <2>3, <2>5
  <2> QED BY <1>2, <2>4, <2>5, <2>6
<1>4. Bounded(n)
  <2>1. n \in 0..n OBVIOUS
  <2> QED BY <1>3, <2>1
<1> QED BY <1>4 DEF Bounded

(* So do the numbers a finite set is mapped to.                             *)
LEMMA FiniteBound ==
  ASSUME NEW S, IsFiniteSet(S), NEW f \in [S -> Nat]
  PROVE  \E b \in Nat : \A x \in S : f[x] <= b
<1>1. PICK n \in Nat : ExistsBijection(1..n, S)
  <2>1. Cardinality(S) \in Nat /\ ExistsBijection(1..Cardinality(S), S) BY FS_CardinalityType
  <2> QED BY <2>1
<1>2. PICK e \in [1..n -> S] : \A x \in S : \E k \in 1..n : e[k] = x
  BY <1>1 DEF ExistsBijection, Bijection, Surjection
<1> DEFINE w == [k \in 1..n |-> f[e[k]]]
<1>3. w \in [1..n -> Nat] BY <1>2
<1>4. PICK b \in Nat : \A k \in 1..n : w[k] <= b
  <2> HIDE DEF w
  <2> QED BY <1>3, SequenceBound
<1> QED BY <1>2, <1>4

(* The greatest number of a set of numbers within 1..n, and what is left.   *)
LEMMA MaxOf ==
  ASSUME NEW n \in Nat, NEW s \in SUBSET (1..n), s # {}
  PROVE  Max(s) \in s /\ Max(s) \in 1..n /\ s \ {Max(s)} \in SUBSET (1..Max(s) - 1)
<1>1. s \in SUBSET Nat /\ \A x \in s : x <= n OBVIOUS
<1>2. Max(s) \in s /\ \A y \in s : y <= Max(s) BY <1>1, GreatestNat
<1>3. \A y \in s \ {Max(s)} : y \in 1..Max(s) - 1
  <2> SUFFICES ASSUME NEW y \in s, y # Max(s) PROVE y \in 1..Max(s) - 1 OBVIOUS
  <2>1. y \in 1..n /\ Max(s) \in 1..n /\ y <= Max(s) BY <1>2
  <2> QED BY <2>1
<1> QED BY <1>2, <1>3

(* The value of a fold stays where its steps stay.                          *)
Closed(n, X, h) ==
  /\ h[{}] \in X
  /\ \A s \in SUBSET (1..n) : s # {} /\ h[s \ {Max(s)}] \in X => h[s] \in X

(* What the step does not leave, the fold does not leave either.            *)
LEMMA FoldStays ==
  ASSUME NEW n \in Nat, NEW X, NEW h, Closed(n, X, h)
  PROVE  h[1..n] \in X
<1> USE DEF Closed
<1> DEFINE Bad == {k \in 0..n : \E s \in SUBSET (1..k) : h[s] \notin X}
<1>1. Bad = {}
  <2> SUFFICES ASSUME Bad # {} PROVE FALSE OBVIOUS
  <2>1. Bad \in SUBSET Nat OBVIOUS
  <2>2. Min(Bad) \in Bad /\ \A y \in Bad : Min(Bad) <= y BY <2>1, LeastNat
  <2>3. PICK k \in Bad : \A y \in Bad : k <= y BY <2>2
  <2>4. k \in 0..n OBVIOUS
  <2>5. PICK s \in SUBSET (1..k) : h[s] \notin X BY <2>3
  <2>6. s # {} BY <2>5
  <2>7. Max(s) \in 1..k /\ s \ {Max(s)} \in SUBSET (1..Max(s) - 1) BY <2>4, <2>6, MaxOf
  <2>8. Max(s) - 1 \in 0..n /\ ~(k <= Max(s) - 1) BY <2>4, <2>7
  <2>9. Max(s) - 1 \notin Bad BY <2>3, <2>8
  <2>10. h[s \ {Max(s)}] \in X BY <2>7, <2>8, <2>9
  <2>11. s \in SUBSET (1..n) BY <2>4
  <2> QED BY <2>5, <2>6, <2>10, <2>11
<1>2. n \in 0..n /\ 1..n \in SUBSET (1..n) OBVIOUS
<1> QED BY <1>1, <1>2

(* The function a fold is the last value of exists.                         *)
Folds(n, X, F, base, seq, g) ==
  /\ g \in [SUBSET (1..n) -> X]
  /\ \A s \in SUBSET (1..n) :
       g[s] = IF s = {} THEN base ELSE F[<<g[s \ {Max(s)}], seq[Max(s)]>>]

(* For every length there is such a function: the least that had none       *)
(* would be one longer than one that has.                                   *)
LEMMA FoldFun ==
  ASSUME NEW n \in Nat, NEW X, NEW A, NEW F \in [X \X A -> X], NEW base \in X, NEW seq \in [1..n -> A]
  PROVE  \E g : Folds(n, X, F, base, seq, g)
<1> DEFINE Good(k, g) == \A s \in SUBSET (1..k) :
             g[s] = IF s = {} THEN base ELSE F[<<g[s \ {Max(s)}], seq[Max(s)]>>]
           Bad == {k \in 0..n : ~\E g \in [SUBSET (1..k) -> X] : Good(k, g)}
<1>1. Bad = {}
  <2> SUFFICES ASSUME Bad # {} PROVE FALSE OBVIOUS
  <2>1. Bad \in SUBSET Nat OBVIOUS
  <2>2. Min(Bad) \in Bad /\ \A y \in Bad : Min(Bad) <= y BY <2>1, LeastNat
  <2>3. PICK k \in Bad : \A y \in Bad : k <= y BY <2>2
  <2>4. k \in 0..n OBVIOUS
  <2>5. k # 0
    <3> SUFFICES ASSUME k = 0 PROVE FALSE OBVIOUS
    <3> DEFINE g == [s \in SUBSET (1..0) |-> base]
    <3>1. g \in [SUBSET (1..0) -> X] OBVIOUS
    <3>2. \A s \in SUBSET (1..0) : s = {} OBVIOUS
    <3>3. Good(0, g) BY <3>2
    <3> HIDE DEF g
    <3> QED BY <2>3, <3>1, <3>3
  <2>6. k - 1 \in 0..n /\ ~(k <= k - 1) BY <2>4, <2>5
  <2>14. k - 1 \notin Bad BY <2>3, <2>6
  <2>7. PICK g \in [SUBSET (1..k-1) -> X] : Good(k-1, g) BY <2>6, <2>14
  <2>8. k \in 1..n /\ seq[k] \in A BY <2>4, <2>5
  <2>9. \A s \in SUBSET (1..k) : s \ {k} \in SUBSET (1..k-1) BY <2>8
  <2> DEFINE g2 == [s \in SUBSET (1..k) |-> IF k \in s THEN F[<<g[s \ {k}], seq[k]>>] ELSE g[s]]
  <2>10. \A s \in SUBSET (1..k) : k \notin s => s \in SUBSET (1..k-1) BY <2>8
  <2>11. g2 \in [SUBSET (1..k) -> X] BY <2>8, <2>9, <2>10
  <2>12. ASSUME NEW s \in SUBSET (1..k)
         PROVE  g2[s] = IF s = {} THEN base ELSE F[<<g2[s \ {Max(s)}], seq[Max(s)]>>]
    <3>1. CASE k \in s
      <4>1. Max(s) = k
        <5>1. s \in SUBSET (1..n) /\ s # {} BY <2>8, <3>1
        <5>2. Max(s) \in 1..n /\ s \ {Max(s)} \in SUBSET (1..Max(s) - 1) /\ Max(s) \in s
          BY <5>1, MaxOf
        <5>3. Max(s) <= k BY <2>8, <5>2
        <5>4. Max(s) # k => k \in 1..Max(s) - 1 BY <3>1, <5>2
        <5> QED BY <2>8, <5>2, <5>3, <5>4
      <4>2. g2[s] = F[<<g[s \ {k}], seq[k]>>] BY <3>1
      <4>3. s \ {k} \in SUBSET (1..k) /\ k \notin s \ {k} OBVIOUS
      <4>4. g2[s \ {k}] = g[s \ {k}] BY <4>3
      <4> HIDE DEF g2
      <4> QED BY <3>1, <4>1, <4>2, <4>4
    <3>2. CASE k \notin s
      <4>1. s \in SUBSET (1..k-1) BY <2>10, <3>2
      <4>2. g[s] = IF s = {} THEN base ELSE F[<<g[s \ {Max(s)}], seq[Max(s)]>>] BY <2>7, <4>1
      <4>3. s \ {Max(s)} \in SUBSET (1..k) /\ k \notin s \ {Max(s)} BY <3>2
      <4>4. g2[s] = g[s] /\ g2[s \ {Max(s)}] = g[s \ {Max(s)}] BY <3>2, <4>3
      <4> HIDE DEF g2
      <4> QED BY <4>2, <4>4
    <3> QED BY <3>1, <3>2
  <2>13. Good(k, g2) BY <2>12
  <2> HIDE DEF g2
  <2> QED BY <2>3, <2>11, <2>13
<1>2. n \in 0..n OBVIOUS
<1>3. \E g \in [SUBSET (1..n) -> X] : Good(n, g) BY <1>1, <1>2
<1> QED BY <1>3 DEF Folds

(* The values of a fold, one after the other, if its step stays in X.       *)
Way(n, X, F, base, seq, end, R) ==
  /\ R \in [0..n -> X] /\ R[0] = base /\ R[n] = end
  /\ \A k \in 1..n : R[k] = F[<<R[k-1], seq[k]>>]

Steps(n, X, F, base, seq, h) ==
  \A s \in SUBSET (1..n) :
    /\ s = {} => h[s] = base
    /\ s # {} /\ h[s \ {Max(s)}] \in X => h[s] = F[<<h[s \ {Max(s)}], seq[Max(s)]>>]

(* A fold whose step stays in X takes such a way.                          *)
LEMMA FoldWay ==
  ASSUME NEW n \in Nat, NEW X, NEW A, NEW F \in [X \X A -> X], NEW base \in X, NEW seq \in [1..n -> A],
         NEW h, Steps(n, X, F, base, seq, h)
  PROVE  \E R : Way(n, X, F, base, seq, h[1..n], R)
<1> USE DEF Steps
<1>1. ASSUME NEW k \in 0..n PROVE h[1..k] \in X
  <2>1. SUBSET (1..k) \subseteq SUBSET (1..n) /\ {} \in SUBSET (1..n) OBVIOUS
  <2>2. h[{}] \in X BY <2>1
  <2>3. ASSUME NEW s \in SUBSET (1..k), s # {}, h[s \ {Max(s)}] \in X PROVE h[s] \in X
    <3>1. s \in SUBSET (1..n) BY <2>1
    <3>2. h[s] = F[<<h[s \ {Max(s)}], seq[Max(s)]>>] BY <2>3, <3>1
    <3>3. Max(s) \in 1..n BY <2>3, <3>1, MaxOf
    <3> QED BY <2>3, <3>2, <3>3
  <2>4. Closed(k, X, h) BY <2>2, <2>3 DEF Closed
  <2> QED BY <2>4, FoldStays
<1> DEFINE R == [k \in 0..n |-> h[1..k]]
<1>2. R \in [0..n -> X] BY <1>1
<1>3. R[0] = base
  <2>1. 1..0 = {} /\ 0 \in 0..n /\ {} \in SUBSET (1..n) OBVIOUS
  <2> QED BY <2>1
<1>4. ASSUME NEW k \in 1..n PROVE R[k] = F[<<R[k-1], seq[k]>>]
  <2>1. k \in 0..n /\ k-1 \in 0..n /\ 1..k \in SUBSET (1..n) /\ k \in 1..k /\ k \in Nat OBVIOUS
  <2>2. Max(1..k) \in 1..k /\ (1..k) \ {Max(1..k)} \in SUBSET (1..Max(1..k) - 1) BY <2>1, MaxOf
  <2>3. Max(1..k) = k
    <3>1. k # Max(1..k) => k \in 1..Max(1..k) - 1 BY <2>1, <2>2
    <3> QED BY <2>1, <2>2, <3>1
  <2>4. (1..k) \ {k} = 1..k-1 BY <2>1
  <2>5. h[1..k-1] \in X BY <1>1, <2>1
  <2>6. h[1..k] = F[<<h[1..k-1], seq[k]>>] BY <2>1, <2>3, <2>4, <2>5
  <2> QED BY <2>1, <2>6
<1>5. n \in 0..n /\ h[1..n] = R[n] OBVIOUS
<1> HIDE DEF R
<1> QED BY <1>2, <1>3, <1>4, <1>5 DEF Way

-----------------------------------------------------------------------------
(* What holds of the slots at any moment of a command.                      *)
Held == Ino \cup {NoIno}
Tables == [Slot -> [ino : Held, ip : Held]]
State == [m : Tables, at : Slot, ino : Held, met : SUBSET Ino, full : BOOLEAN,
          wrong : BOOLEAN, out : Seq(Held)]

(* A slot keeps the number it got.  All but the last hold that inode, the   *)
(* last one some inode; no number is in two slots.                          *)
Table(m) ==
  /\ \A s \in Slot : m[s].ino # NoIno => m[s].ip \in Ino
  /\ \A s \in Slot \ {NMINODE} : m[s].ip = m[s].ino
  /\ \A s, t \in Slot : m[s].ino = m[t].ino /\ m[s].ino # NoIno => s = t
  /\ m[root].ino = ROOT_INODE

(* The table is full of inodes met before another one was.                  *)
Counted(m, seen, over) ==
  /\ \A s \in Slot : m[s].ino # NoIno => m[s].ino \in seen
  /\ over => Cardinality(seen) > NMINODE

(* With a directory its parent is in the table; until the table is full the *)
(* last slot is no exception, and what a command comes to next is near.     *)
Homed(m, i) == i \in Dir => Hit(m, Parent(i)) # {}
Near(m, i) == Unused(m) = {} \/ Homed(m, i)
Rooted(m, over) ==
  /\ \A s \in Slot : m[s].ino # NoIno => Homed(m, m[s].ino)
  /\ over => Unused(m) = {}
  /\ ~over => \A s \in Slot : m[s].ip = m[s].ino

Fine(st) == /\ st \in State /\ Table(st.m) /\ Counted(st.m, st.met, st.full)
            /\ Rooted(st.m, st.full) /\ st.m[st.at].ino # NoIno
            /\ st.ino # NoIno => Near(st.m, st.ino)
Kept(m, m2) == \A s \in Slot : m[s].ino # NoIno => m2[s].ino = m[s].ino

(* Constants.                                                               *)
LEMMA Sizes == /\ NMINODE \in Nat /\ NMINODE > 0 /\ root \in Slot /\ NMINODE \in Slot
               /\ Slot \in SUBSET Nat /\ NoIno \notin Ino /\ IsFiniteSet(Ino) /\ ROOT_INODE \in Ino
  BY DEF root, Slot, NoIno, Ino

(* A number that is in no slot of a full table makes one more than slots.   *)
LEMMA OneTooMany ==
  ASSUME NEW m \in Tables, Table(m), NEW seen \in SUBSET Ino, Counted(m, seen, FALSE),
         NEW i \in Ino, Hit(m, i) = {}, Unused(m) = {}
  PROVE  Cardinality(seen \cup {i}) > NMINODE
<1> DEFINE T == seen \cup {i}
           f == [s \in 0..NMINODE |-> IF s = 0 THEN i ELSE m[s].ino]
<1>1. \A s \in Slot : m[s].ino # NoIno /\ m[s].ino # i BY DEF Hit, Unused
<1>2. \A s \in 0..NMINODE : s = 0 \/ s \in Slot BY DEF Slot
<1>3. f \in [0..NMINODE -> T] BY <1>1, <1>2 DEF Counted
<1>4. \A s, t \in 0..NMINODE : f[s] = f[t] => s = t
  <2> SUFFICES ASSUME NEW s \in 0..NMINODE, NEW t \in 0..NMINODE, f[s] = f[t] PROVE s = t OBVIOUS
  <2>1. CASE s = 0 \/ t = 0 BY <1>1, <1>2, <2>1
  <2>2. CASE s # 0 /\ t # 0
    <3>1. s \in Slot /\ t \in Slot /\ m[s].ino = m[t].ino BY <1>2, <2>2
    <3> QED BY <1>1, <3>1 DEF Table
  <2> QED BY <2>1, <2>2
<1>5. IsFiniteSet(T) BY Sizes, FS_Subset
<1> HIDE DEF f, T
<1>6. f \in Injection(0..NMINODE, T) BY <1>3, <1>4 DEF Injection, IsInjective
<1>7. Cardinality(0..NMINODE) <= Cardinality(T) BY <1>5, <1>6, FS_Injection
<1>8. Cardinality(0..NMINODE) = NMINODE + 1
  <2>1. 0 \in Int /\ NMINODE \in Int /\ ~(0 > NMINODE) BY Sizes
  <2>2. Cardinality(0..NMINODE) = NMINODE - 0 + 1 BY <2>1, FS_Interval
  <2> QED BY <2>1, <2>2
<1>9. Cardinality(T) \in Nat BY <1>5, FS_CardinalityType
<1>10. Cardinality(T) > NMINODE BY <1>7, <1>8, <1>9, Sizes
<1> QED BY <1>10 DEF T

(* What is near stays so.                                                   *)
LEMMA HomedKept ==
  ASSUME NEW m \in Tables, NEW m2 \in Tables, Kept(m, m2), NEW i
  PROVE  /\ Homed(m, i) => Homed(m2, i)
         /\ Unused(m) = {} => Unused(m2) = {}
         /\ Near(m, i) => Near(m2, i)
<1>1. Homed(m, i) => Homed(m2, i)
  <2> SUFFICES ASSUME i \in Dir, Hit(m, Parent(i)) # {} PROVE Hit(m2, Parent(i)) # {} BY DEF Homed
  <2>1. PICK s \in Slot : m[s].ino = Parent(i) BY DEF Hit
  <2>2. Parent(i) \in Ino BY TreeAssumption DEF Dir
  <2>3. m2[s].ino = Parent(i) BY <2>1, <2>2, Sizes DEF Kept
  <2> QED BY <2>3 DEF Hit
<1>2. Unused(m) = {} => Unused(m2) = {} BY DEF Unused, Kept
<1> QED BY <1>1, <1>2 DEF Near

(* get_minode keeps the slots in order, and each its number.                *)
LEMMA GetFine ==
  ASSUME NEW st, Fine(st), NEW i \in Ino, Near(st.m, i)
  PROVE  Fine(GetMinode(st, i)) /\ Kept(st.m, GetMinode(st, i).m)
<1>0. st \in State /\ st.m \in Tables /\ st.met \in SUBSET Ino /\ st.full \in BOOLEAN
      /\ Table(st.m) /\ Counted(st.m, st.met, st.full) /\ Rooted(st.m, st.full)
  BY DEF Fine, State
<1> DEFINE m == st.m
           hit == Hit(m, i)
           free == Unused(m)
           s == Min(IF hit # {} THEN hit ELSE free \cup {NMINODE})
           seen == st.met \cup {i}
           over == st.full \/ (hit = {} /\ free = {})
           e == [ino |-> IF free = {} THEN m[s].ino ELSE i, ip |-> i]
           m2 == IF hit # {} THEN m ELSE [m EXCEPT ![s] = e]
           r == GetMinode(st, i)
<1>1. hit \in SUBSET Slot /\ free \in SUBSET Slot BY DEF Hit, Unused
<1>2. s \in Slot /\ (hit # {} => s \in hit) /\ (hit = {} /\ free # {} => s \in free)
      /\ (hit = {} /\ free = {} => s = NMINODE)
  <2>1. CASE hit # {}
    <3>1. hit \in SUBSET Nat BY <1>1, Sizes
    <3>2. Min(hit) \in hit BY <2>1, <3>1, LeastNat
    <3> QED BY <1>1, <2>1, <3>2
  <2>2. CASE hit = {}
    <3> DEFINE T == free \cup {NMINODE}
    <3>1. T \in SUBSET Nat /\ T # {} /\ T \in SUBSET Slot BY <1>1, Sizes
    <3>2. Min(T) \in T /\ \A y \in T : Min(T) <= y BY <3>1, LeastNat
    <3>3. s = Min(T) BY <2>2
    <3> HIDE DEF s
    <3>4. s \in T /\ s \in Slot /\ \A y \in T : s <= y BY <3>1, <3>2, <3>3
    <3>5. ASSUME free # {} PROVE s \in free
      <4>1. PICK y \in free : TRUE BY <3>5
      <4>2. s <= y /\ y \in Slot BY <1>1, <3>4, <4>1
      <4>3. s # NMINODE \/ y = NMINODE BY <3>4, <4>2, Sizes DEF Slot
      <4> QED BY <3>4, <4>1, <4>3
    <3> QED BY <2>2, <3>4, <3>5
  <2> QED BY <2>1, <2>2
<1>3. r = [st EXCEPT !.at = s, !.met = seen, !.full = over, !.m = m2]
  BY DEF GetMinode
<1> HIDE DEF s, r
<1>4. e \in [ino : Held, ip : Held] /\ e.ip = i /\ e.ino = IF free = {} THEN m[s].ino ELSE i
  BY <1>0, <1>2 DEF Tables, Held
<1> HIDE DEF e
<1>5. m2 \in Tables BY <1>0, <1>4 DEF Tables
<1>6. \A t \in Slot : m2[t] = IF hit = {} /\ t = s THEN e ELSE m[t] BY <1>0 DEF Tables
<1> HIDE DEF m2
<1>7. seen \in SUBSET Ino /\ over \in BOOLEAN BY <1>0
<1> HIDE DEF over, seen
<1>8. r \in State /\ r.m = m2 /\ r.at = s /\ r.met = seen /\ r.full = over
  BY <1>0, <1>2, <1>3, <1>5, <1>7 DEF State
<1>9. \A t \in Slot : m[t].ino # NoIno => m2[t].ino = m[t].ino
  <2> SUFFICES ASSUME NEW t \in Slot, m[t].ino # NoIno PROVE m2[t].ino = m[t].ino OBVIOUS
  <2>1. t = s /\ hit = {} => free = {} BY <1>2 DEF Unused
  <2> QED BY <1>4, <1>6, <2>1
<1>10. m2[s].ino # NoIno
  <2>1. CASE hit # {} BY <1>2, <1>6, <2>1, Sizes DEF Hit
  <2>2. CASE hit = {} /\ free # {} BY <1>2, <1>4, <1>6, <2>2, Sizes
  <2>3. CASE hit = {} /\ free = {} BY <1>2, <1>4, <1>6, <2>3 DEF Unused
  <2> QED BY <2>1, <2>2, <2>3
<1>11. Table(m2)
  <2>1. \A t \in Slot : m2[t].ino # NoIno => m2[t].ip \in Ino
    BY <1>0, <1>4, <1>6 DEF Table
  <2>2. \A t \in Slot \ {NMINODE} : m2[t].ip = m2[t].ino
    BY <1>0, <1>2, <1>4, <1>6 DEF Table
  <2>3. \A t \in Slot : m2[t].ino = m[t].ino \/ (hit = {} /\ t = s /\ m2[t].ino = i)
    BY <1>4, <1>6
  <2>4. ASSUME NEW t \in Slot, NEW u \in Slot, m2[t].ino = m2[u].ino, m2[t].ino # NoIno
        PROVE  t = u
    <3>1. CASE m2[t].ino = m[t].ino /\ m2[u].ino = m[u].ino BY <1>0, <2>4, <3>1 DEF Table
    <3>2. CASE hit = {} /\ t = s /\ m2[t].ino = i
      <4>1. m[u].ino # i BY <3>2 DEF Hit
      <4> QED BY <2>3, <2>4, <3>2, <4>1
    <3>3. CASE hit = {} /\ u = s /\ m2[u].ino = i
      <4>1. m[t].ino # i BY <3>3 DEF Hit
      <4> QED BY <2>3, <2>4, <3>3, <4>1
    <3> QED BY <2>3, <3>1, <3>2, <3>3
  <2>5. m2[root].ino = ROOT_INODE BY <1>0, <1>9, Sizes DEF Table
  <2> QED BY <2>1, <2>2, <2>4, <2>5 DEF Table
<1>12. Counted(m2, seen, over)
  <2>1. \A t \in Slot : m2[t].ino # NoIno => m2[t].ino \in seen
    BY <1>0, <1>4, <1>6 DEF Counted, seen
  <2>2. over => Cardinality(seen) > NMINODE
    <3>1. CASE st.full
      <4>1. Cardinality(st.met) > NMINODE BY <1>0, <3>1 DEF Counted
      <4>2. IsFiniteSet(seen) /\ st.met \in SUBSET seen BY <1>7, Sizes, FS_Subset DEF seen
      <4>3. Cardinality(st.met) <= Cardinality(seen) BY <4>2, FS_Subset
      <4>4. Cardinality(seen) \in Nat /\ Cardinality(st.met) \in Nat
        BY <1>0, <4>2, Sizes, FS_Subset, FS_CardinalityType
      <4> QED BY <4>1, <4>3, <4>4, Sizes
    <3>2. CASE hit = {} /\ free = {}
      <4>1. Counted(m, st.met, FALSE) BY <1>0 DEF Counted
      <4> QED BY <1>0, <3>2, <4>1, OneTooMany DEF seen
    <3> QED BY <3>1, <3>2 DEF over
  <2> QED BY <2>1, <2>2 DEF Counted
<1>14. Kept(m, m2) BY <1>9 DEF Kept
<1>15. Rooted(m2, over)
  <2>1. ASSUME NEW t \in Slot, m2[t].ino # NoIno PROVE Homed(m2, m2[t].ino)
    <3>1. CASE m[t].ino # NoIno
      <4>1. Homed(m, m[t].ino) /\ m2[t].ino = m[t].ino BY <1>0, <1>9, <3>1 DEF Rooted
      <4> QED BY <1>0, <1>5, <1>14, <4>1, HomedKept
    <3>2. CASE m[t].ino = NoIno
      <4>1. hit = {} /\ t = s BY <1>6, <2>1, <3>2
      <4>2. t \in free BY <3>2 DEF Unused
      <4>3. m2[t].ino = i BY <1>4, <1>6, <4>1, <4>2
      <4>4. Homed(m, i) BY <4>2 DEF Near
      <4> QED BY <1>0, <1>5, <1>14, <4>3, <4>4, HomedKept
    <3> QED BY <3>1, <3>2
  <2>2. ASSUME over PROVE Unused(m2) = {}
    <3>1. Unused(m) = {} BY <1>0, <2>2 DEF Rooted, over
    <3> QED BY <1>0, <1>5, <1>14, <3>1, HomedKept
  <2>3. ASSUME ~over, NEW t \in Slot PROVE m2[t].ip = m2[t].ino
    <3>1. ~st.full /\ (hit = {} => free # {}) BY <2>3 DEF over
    <3>2. m[t].ip = m[t].ino BY <1>0, <3>1 DEF Rooted
    <3> QED BY <1>4, <1>6, <3>1, <3>2
  <2> QED BY <2>1, <2>2, <2>3 DEF Rooted
<1>16. r.ino = st.ino BY <1>0, <1>3 DEF State
<1>17. r.ino # NoIno => Near(r.m, r.ino) BY <1>0, <1>5, <1>8, <1>14, <1>16, HomedKept DEF Fine
<1>13. Fine(r) BY <1>8, <1>10, <1>11, <1>12, <1>15, <1>17 DEF Fine
<1> QED BY <1>8, <1>13, <1>14 DEF r

-----------------------------------------------------------------------------
(* The entries of a directory.                                              *)
Entry == [name : STRING, inode : Ino]

(* Sequences are flattened one after the other.                             *)
Joined(ss, E, R) ==
  /\ R \in [0..Len(ss) -> Seq(E)] /\ R[0] = <<>>
  /\ \A k \in 1..Len(ss) : R[k] = R[k-1] \o ss[k]

(* There is such a way to what is flattened.                               *)
LEMMA FlattenWay ==
  ASSUME NEW E, NEW ss \in Seq(Seq(E))
  PROVE  \E R : Joined(ss, E, R) /\ FlattenSeq(ss) = R[Len(ss)]
<1> DEFINE n == Len(ss)
<1>1. CASE n = 0
  <2> DEFINE R == [k \in 0..0 |-> <<>>]
  <2>1. FlattenSeq(ss) = ss /\ ss = <<>> BY <1>1 DEF FlattenSeq
  <2>2. R \in [0..n -> Seq(E)] /\ R[0] = <<>> /\ R[n] = <<>> BY <1>1
  <2>3. \A k \in 1..n : FALSE BY <1>1
  <2> HIDE DEF R
  <2> QED BY <2>1, <2>2, <2>3 DEF Joined
<1>2. CASE n # 0
  <2>1. n \in Nat /\ n > 0 /\ ss \in [1..n -> Seq(E)] BY <1>2
  <2> DEFINE F == [x \in Seq(E) \X Seq(E) |-> x[1] \o x[2]]
  <2>2. F \in [Seq(E) \X Seq(E) -> Seq(E)] /\ <<>> \in Seq(E) OBVIOUS
  <2>3. \A x, y \in Seq(E) : F[<<x, y>>] = x \o y OBVIOUS
  <2> HIDE DEF n, F
  <2>12. PICK g : Folds(n, Seq(E), F, <<>>, ss, g) BY <2>1, <2>2, FoldFun
  <2>4. /\ g \in [SUBSET (1..n) -> Seq(E)]
        /\ \A s \in SUBSET (1..n) :
             g[s] = IF s = {} THEN <<>> ELSE F[<<g[s \ {Max(s)}], ss[Max(s)]>>]
    BY <2>12 DEF Folds
  <2> DEFINE f == [i \in 1..n |-> g[1..i]]
  <2>5. ASSUME NEW i \in 1..n PROVE f[i] = IF i = 1 THEN ss[i] ELSE f[i - 1] \o ss[i]
    <3>0. i \in Nat /\ i \in 1..i /\ \A j \in 1..i : j \in 1..n BY <2>1
    <3>1. i \in 1..i /\ 1..i # {} /\ 1..i \in SUBSET (1..n) /\ i \in Nat BY <3>0
    <3>2. Max(1..i) \in 1..i /\ (1..i) \ {Max(1..i)} \in SUBSET (1..Max(1..i) - 1)
      BY <3>1, MaxOf
    <3>3. Max(1..i) = i
      <4>1. Max(1..i) \in Nat /\ Max(1..i) <= i BY <3>1, <3>2
      <4>2. i # Max(1..i) => i \in 1..Max(1..i) - 1 BY <3>1, <3>2
      <4> QED BY <3>1, <4>1, <4>2
    <3>4. (1..i) \ {i} = 1..i-1 BY <3>1
    <3>5. g[1..i] = F[<<g[1..i-1], ss[i]>>] BY <2>4, <3>1, <3>3, <3>4
    <3>6. 1..i-1 \in SUBSET (1..n) /\ g[1..i-1] \in Seq(E) /\ ss[i] \in Seq(E)
      BY <2>1, <2>4, <3>1
    <3>7. g[1..i] = g[1..i-1] \o ss[i] BY <2>3, <3>5, <3>6
    <3>8. CASE i = 1
      <4>1. 1..i-1 = {} BY <3>8
      <4>2. g[1..i-1] = <<>> BY <2>4, <3>6, <4>1
      <4> QED BY <3>6, <3>7, <3>8, <4>2
    <3>9. CASE i # 1
      <4>1. i - 1 \in 1..n BY <2>1, <3>9
      <4> QED BY <3>7, <3>9, <4>1
    <3> QED BY <3>8, <3>9
  <2>6. f = [i \in 1..n |-> IF i = 1 THEN ss[i] ELSE f[i - 1] \o ss[i]] BY <2>5
  <2> HIDE DEF f
  <2> DEFINE h == CHOOSE fl : fl = [i \in 1..n |-> IF i = 1 THEN ss[i] ELSE fl[i - 1] \o ss[i]]
  <2>7. h = [i \in 1..n |-> IF i = 1 THEN ss[i] ELSE h[i - 1] \o ss[i]] BY <2>6
  <2>8. FlattenSeq(ss) = h[n] BY <1>2 DEF FlattenSeq, n
  <2> HIDE DEF h
  <2>9. \A i \in 1..n : h[i] = IF i = 1 THEN ss[i] ELSE h[i - 1] \o ss[i] BY <2>7
  <2> DEFINE Bad == {i \in 1..n : h[i] \notin Seq(E)}
  <2>10. Bad = {}
    <3> SUFFICES ASSUME Bad # {} PROVE FALSE OBVIOUS
    <3>1. Bad \in SUBSET Nat OBVIOUS
    <3>2. Min(Bad) \in Bad /\ \A y \in Bad : Min(Bad) <= y BY <3>1, LeastNat
    <3>3. PICK i \in Bad : \A y \in Bad : i <= y BY <3>2
    <3>4. i \in 1..n /\ ss[i] \in Seq(E) /\ h[i] \notin Seq(E) BY <2>1
    <3>5. i # 1 BY <2>9, <3>4
    <3>6. i - 1 \in 1..n /\ ~(i <= i - 1) BY <2>1, <3>4, <3>5
    <3>7. h[i - 1] \in Seq(E) BY <3>3, <3>6
    <3>8. h[i] = h[i - 1] \o ss[i] BY <2>9, <3>4, <3>5
    <3> QED BY <3>4, <3>7, <3>8
  <2>11. n \in 1..n /\ n # 0 /\ n \in 0..n BY <2>1
  <2> DEFINE R == [k \in 0..n |-> IF k = 0 THEN <<>> ELSE h[k]]
  <2>13. \A k \in 0..n : k # 0 => k \in 1..n BY <2>1
  <2>14. \A k \in 1..n : h[k] \in Seq(E) BY <2>10
  <2>15. <<>> \in Seq(E) OBVIOUS
  <2>16. R \in [0..n -> Seq(E)] BY <2>13, <2>14, <2>15
  <2>17. R[0] = <<>> /\ R[n] = h[n] BY <2>1, <2>11
  <2>18. ASSUME NEW k \in 1..n PROVE R[k] = R[k-1] \o ss[k]
    <3>1. k \in 0..n /\ k # 0 /\ k-1 \in 0..n BY <2>1
    <3>2. R[k] = h[k] BY <3>1
    <3>3. CASE k = 1
      <4>1. k-1 = 0 /\ ss[k] \in Seq(E) BY <2>1, <3>3
      <4>2. R[k-1] = <<>> BY <2>17, <4>1
      <4>3. <<>> \o ss[k] = ss[k] BY <4>1
      <4> QED BY <2>9, <3>2, <3>3, <4>2, <4>3
    <3>4. CASE k # 1
      <4>1. k-1 # 0 BY <2>1, <3>4
      <4>2. R[k-1] = h[k-1] BY <3>1, <4>1
      <4> QED BY <2>9, <3>2, <3>4, <4>2
    <3> QED BY <3>3, <3>4
  <2> HIDE DEF R
  <2> QED BY <2>8, <2>16, <2>17, <2>18 DEF Joined, n
<1> QED BY <1>1, <1>2

(* Flattened, sequences of entries are a sequence of entries, all of them.  *)
LEMMA Flattened ==
  ASSUME NEW E, NEW ss \in Seq(Seq(E))
  PROVE  FlattenSeq(ss) \in Seq(E)
<1>1. PICK R : Joined(ss, E, R) /\ FlattenSeq(ss) = R[Len(ss)] BY FlattenWay
<1>2. Len(ss) \in 0..Len(ss) OBVIOUS
<1> QED BY <1>1, <1>2 DEF Joined

(* All that was in them is in it.                                          *)
LEMMA FlattenedAll ==
  ASSUME NEW E, NEW ss \in Seq(Seq(E)), NEW b \in 1..Len(ss), NEW j \in 1..Len(ss[b])
  PROVE  ss[b][j] \in ToSet(FlattenSeq(ss))
<1>1. PICK R : Joined(ss, E, R) /\ FlattenSeq(ss) = R[Len(ss)] BY FlattenWay
<1> DEFINE n == Len(ss)
           x == ss[b][j]
           Bad == {k \in b..n : x \notin ToSet(R[k])}
<1>2. n \in Nat /\ n \in b..n OBVIOUS
<1>3. \A k \in 0..n : R[k] \in Seq(E) BY <1>1 DEF Joined
<1>5. ASSUME NEW k \in b..n, k = b \/ x \in ToSet(R[k-1]) PROVE x \in ToSet(R[k])
  <2>1. k \in 1..n /\ k-1 \in 0..n BY <1>2
  <2>2. R[k] = R[k-1] \o ss[k] BY <1>1, <2>1 DEF Joined
  <2>3. R[k-1] \in Seq(E) /\ ss[k] \in Seq(E) BY <1>3, <2>1
  <2>4. k = b => x \in ToSet(ss[k]) BY <2>3, InSequence
  <2> QED BY <1>5, <2>2, <2>3, <2>4, InBoth
<1> HIDE DEF x
<1>6. Bad = {}
  <2> SUFFICES ASSUME Bad # {} PROVE FALSE OBVIOUS
  <2>1. Bad \in SUBSET Nat OBVIOUS
  <2>2. Min(Bad) \in Bad /\ \A y \in Bad : Min(Bad) <= y BY <2>1, LeastNat
  <2>3. PICK k \in Bad : \A y \in Bad : k <= y BY <2>2
  <2>4. k \in b..n /\ x \notin ToSet(R[k]) OBVIOUS
  <2>5. k # b /\ x \notin ToSet(R[k-1]) BY <1>5, <2>4
  <2>6. k-1 \in b..n /\ ~(k <= k-1) BY <1>2, <2>4, <2>5
  <2> QED BY <2>3, <2>5, <2>6
<1> QED BY <1>1, <1>2, <1>6 DEF x

(* What ls and search read of a directory are entries.                      *)
LEMMA EntriesType ==
  ASSUME NEW i \in Ino
  PROVE  Entries(i) \in Seq(Entry) /\ Image[i] \in Seq(Seq(Entry))
<1>1. Image[i] \in Seq(Seq(Entry)) BY DEF Ino, Entry
<1> QED BY <1>1, Flattened DEF Entries

(* What a directory in a table that was never full has in it is near.       *)
LEMMA EntryNear ==
  ASSUME NEW m \in Tables, NEW over \in BOOLEAN, Table(m), Rooted(m, over),
         NEW s \in Slot, m[s].ino # NoIno, NEW e \in ToSet(Entries(m[s].ip))
  PROVE  e.inode \in Ino /\ Near(m, e.inode)
<1> DEFINE i == m[s].ip
<1>1. i \in Ino /\ Entries(i) \in Seq(Entry) BY EntriesType DEF Table
<1>2. e \in Entry BY <1>1, InSequence
<1>3. CASE over BY <1>2, <1>3 DEF Rooted, Near, Entry
<1>4. CASE ~over
  <2>1. m[s].ino = i /\ Homed(m, i) BY <1>4 DEF Rooted
  <2> SUFFICES ASSUME e.inode \in Dir PROVE Hit(m, Parent(e.inode)) # {} BY <1>2 DEF Near, Homed, Entry
  <2>2. i \in Dir
    <3> SUFFICES ASSUME Image[i] = <<>> PROVE FALSE BY <1>1 DEF Dir
    <3>1. Entries(i) = <<>> BY DEF Entries, FlattenSeq
    <3> QED BY <3>1 DEF ToSet
  <2>3. e.inode \in {i, Parent(i)} \/ Parent(e.inode) = i BY <2>2, EntryLeads
  <2>4. s \in Hit(m, i) BY <2>1 DEF Hit
  <2>5. Hit(m, Parent(i)) # {} BY <2>1, <2>2 DEF Homed
  <2>6. CASE e.inode = Parent(i)
    <3>1. PICK t \in Slot : m[t].ino = Parent(i) BY <2>5 DEF Hit
    <3>2. Parent(i) # NoIno /\ Parent(i) \in Dir BY <2>2, Upward
    <3>3. Homed(m, Parent(i)) BY <3>1, <3>2 DEF Rooted
    <3> QED BY <2>6, <3>2, <3>3 DEF Homed
  <2> QED BY <2>3, <2>4, <2>5, <2>6
<1> QED BY <1>3, <1>4

-----------------------------------------------------------------------------
(* Commands.                                                                *)

(* The slots may be in order whatever else a command has changed.           *)
LEMMA FineSame ==
  ASSUME NEW st, Fine(st), NEW r \in State, r.m = st.m, r.met = st.met, r.full = st.full,
         r.at = st.at, r.ino # NoIno => Near(r.m, r.ino)
  PROVE  Fine(r) /\ Kept(st.m, r.m)
  BY DEF Fine, Kept

(* What is in the slot one is at.                                           *)
LEMMA IpType ==
  ASSUME NEW st, Fine(st)
  PROVE  st \in State /\ Ip(st) \in Ino /\ st.at \in Slot
  BY DEF Fine, State, Table, Ip

(* What two calls one after the other keep.                                 *)
LEMMA KeptOn ==
  ASSUME NEW m, NEW m2, NEW m3, Kept(m, m2), Kept(m2, m3)
  PROVE  Kept(m, m3)
  BY DEF Kept

(* A name leads to an inode of the image or to none.                        *)
LEMMA SearchFine ==
  ASSUME NEW st, Fine(st), NEW n
  PROVE  Fine(Search(st, n)) /\ Kept(st.m, Search(st, n).m)
<1> DEFINE es == Entries(Ip(st))
           k == SelectInSeq(es, LAMBDA e : <<e.name, n>> \in Begins)
           ino == IF k = 0 THEN NoIno ELSE es[k].inode
           wrong == st.wrong \/ (k # 0 /\ es[k].name # n)
           r == [st EXCEPT !.ino = ino, !.wrong = wrong]
<1>1. st \in State /\ es \in Seq(Entry) BY IpType, EntriesType
<1>2. Search(st, n) = r BY DEF Search
<1>3. k = 0 \/ k \in 1..Len(es)
  <2> DEFINE I == {i \in 1..Len(es) : <<es[i].name, n>> \in Begins}
  <2>1. k = IF I # {} THEN Min(I) ELSE 0 BY DEF SelectInSeq
  <2>2. I \in SUBSET (1..Len(es)) /\ I \in SUBSET Nat OBVIOUS
  <2>3. I # {} => Min(I) \in I BY <2>2, LeastNat
  <2> HIDE DEF I, k, es
  <2> QED BY <2>1, <2>2, <2>3
<1> HIDE DEF k
<1>4. ino \in Held /\ (ino # NoIno => Near(st.m, ino))
  <2>1. CASE k = 0 BY <2>1 DEF Held
  <2>2. CASE k \in 1..Len(es)
    <3>1. es[k] \in ToSet(es) BY <1>1, <2>2, InSequence
    <3>2. /\ st.m \in Tables /\ st.full \in BOOLEAN /\ Table(st.m) /\ Rooted(st.m, st.full)
          /\ st.at \in Slot /\ st.m[st.at].ino # NoIno
      BY DEF Fine, State
    <3>3. es[k].inode \in Ino /\ Near(st.m, es[k].inode) BY <3>1, <3>2, EntryNear DEF Ip
    <3>4. k # 0 BY <2>2
    <3> QED BY <3>3, <3>4 DEF Held
  <2> QED BY <1>3, <2>1, <2>2
<1>5. wrong \in BOOLEAN OBVIOUS
<1> HIDE DEF ino, wrong
<1>6. /\ r \in State /\ r.m = st.m /\ r.met = st.met /\ r.full = st.full /\ r.at = st.at
      /\ r.ino # NoIno => Near(r.m, r.ino)
  BY <1>1, <1>4, <1>5 DEF State
<1> HIDE DEF r
<1> QED BY <1>2, <1>6, FineSame

(* The states a command may lead to from slots m.                           *)
Reach(m) == {st \in State : Fine(st) /\ Kept(m, st.m)}

(* What is reached is in order.                                             *)
LEMMA ReachFine ==
  ASSUME NEW m, NEW st \in Reach(m)
  PROVE  Fine(st) /\ Kept(m, st.m)
  BY DEF Reach

(* And what is reached from there.                                          *)
LEMMA ReachOn ==
  ASSUME NEW m, NEW st \in Reach(m), NEW r, Fine(r), Kept(st.m, r.m)
  PROVE  r \in Reach(m)
  BY KeptOn DEF Reach, Fine

(* What was near is near in what is reached.                                *)
LEMMA ReachNear ==
  ASSUME NEW m \in Tables, NEW st \in Reach(m), NEW i, Near(m, i)
  PROVE  Near(st.m, i)
<1>1. st.m \in Tables /\ Kept(m, st.m) BY DEF Reach, State
<1> QED BY <1>1, HomedKept

(* get_inode_number, name by name.                                          *)
Look(x, a) == IF x.ino = NoIno THEN x ELSE Search(GetMinode(x, x.ino), a)
LookWay(base, names, R) ==
  /\ R \in [0..Len(names) -> Reach(base.m)] /\ R[0] = base
  /\ \A k \in 1..Len(names) : R[k] = Look(R[k-1], names[k])
(* Every state on the way is in order.                                     *)
LEMMA LookupWay ==
  ASSUME NEW base, Fine(base), NEW names \in Seq(STRING)
  PROVE  \E R : /\ LookWay(base, names, R)
                /\ FoldLeft(LAMBDA st, n : IF st.ino = NoIno THEN st
                                           ELSE Search(GetMinode(st, st.ino), n), base, names) = R[Len(names)]
<1> DEFINE Step(x, a) == Look(x, a)
           X == Reach(base.m)
           n == Len(names)
           F == [y \in X \X STRING |-> Step(y[1], y[2])]
           h == CHOOSE g : g = [s \in SUBSET (DOMAIN names) |->
                                 IF s = {} THEN base ELSE Step(g[s \ {Max(s)}], names[Max(s)])]
<1>1. base \in X BY DEF Reach, Kept, Fine
<1>2. ASSUME NEW x \in X, NEW a \in STRING PROVE Step(x, a) \in X
  <2> USE DEF Look
  <2>1. CASE x.ino = NoIno BY <2>1
  <2>2. CASE x.ino # NoIno
    <3>1. Fine(x) /\ x.ino \in Ino /\ Near(x.m, x.ino) BY <2>2, ReachFine DEF Fine, State, Held
    <3>2. Fine(GetMinode(x, x.ino)) /\ Kept(x.m, GetMinode(x, x.ino).m) BY <3>1, GetFine
    <3>3. /\ Fine(Search(GetMinode(x, x.ino), a))
          /\ Kept(GetMinode(x, x.ino).m, Search(GetMinode(x, x.ino), a).m)
      BY <3>2, SearchFine
    <3>4. Kept(x.m, Search(GetMinode(x, x.ino), a).m) BY <3>2, <3>3, KeptOn
    <3> QED BY <2>2, <3>3, <3>4, ReachOn
  <2> QED BY <2>1, <2>2
<1> HIDE DEF X
<1>3. FoldLeft(LAMBDA st, a : IF st.ino = NoIno THEN st
                              ELSE Search(GetMinode(st, st.ino), a), base, names) = h[DOMAIN names]
  BY DEF FoldLeft, MapThenFoldSet, Look
<1> HIDE DEF Step
<1>4. F \in [X \X STRING -> X] BY <1>2
<1>5. \A x \in X, a \in STRING : F[<<x, a>>] = Step(x, a) OBVIOUS
<1>6. n \in Nat /\ DOMAIN names = 1..n /\ names \in [1..n -> STRING] OBVIOUS
<1> HIDE DEF F, n
<1>0. PICK g : Folds(n, X, F, base, names, g) BY <1>1, <1>4, <1>6, FoldFun
<1>7. /\ g \in [SUBSET (1..n) -> X]
      /\ \A s \in SUBSET (1..n) :
           g[s] = IF s = {} THEN base ELSE F[<<g[s \ {Max(s)}], names[Max(s)]>>]
  BY <1>0 DEF Folds
<1>8. \A s \in SUBSET (1..n) : s # {} =>
        Max(s) \in 1..n /\ s \ {Max(s)} \in SUBSET (1..n) /\ names[Max(s)] \in STRING
  BY <1>6, MaxOf
<1>9. \A s \in SUBSET (1..n) :
        g[s] = IF s = {} THEN base ELSE Step(g[s \ {Max(s)}], names[Max(s)])
  BY <1>5, <1>7, <1>8
<1>10. g = [s \in SUBSET (DOMAIN names) |->
              IF s = {} THEN base ELSE Step(g[s \ {Max(s)}], names[Max(s)])]
  BY <1>6, <1>7, <1>9
<1>11. h = [s \in SUBSET (DOMAIN names) |->
              IF s = {} THEN base ELSE Step(h[s \ {Max(s)}], names[Max(s)])]
  BY <1>10
<1> HIDE DEF h
<1>12. \A s \in SUBSET (1..n) :
         h[s] = IF s = {} THEN base ELSE Step(h[s \ {Max(s)}], names[Max(s)])
  BY <1>6, <1>11
<1>13. PICK R : Way(n, X, F, base, names, h[1..n], R)
  <2>1. ASSUME NEW s \in SUBSET (1..n), s # {}, h[s \ {Max(s)}] \in X
        PROVE  h[s] = F[<<h[s \ {Max(s)}], names[Max(s)]>>]
    BY <1>5, <1>8, <1>12, <2>1
  <2>2. h[{}] = base BY <1>12
  <2>3. Steps(n, X, F, base, names, h) BY <2>1, <2>2 DEF Steps
  <2> QED BY <1>1, <1>4, <1>6, <2>3, FoldWay
<1>16. R \in [0..n -> X] /\ R[0] = base /\ R[n] = h[1..n] /\ \A k \in 1..n : R[k] = F[<<R[k-1], names[k]>>]
  BY <1>13 DEF Way
<1>17. \A k \in 1..n : R[k-1] \in X /\ R[k] = Step(R[k-1], names[k])
  <2> SUFFICES ASSUME NEW k \in 1..n PROVE R[k-1] \in X /\ R[k] = Step(R[k-1], names[k]) OBVIOUS
  <2>1. k-1 \in 0..n BY <1>6
  <2>2. R[k-1] \in X /\ R[k] = F[<<R[k-1], names[k]>>] BY <1>16, <2>1
  <2> QED BY <1>5, <1>6, <2>2
<1>18. LookWay(base, names, R) BY <1>16, <1>17 DEF LookWay, X, n, Step
<1> QED BY <1>3, <1>6, <1>16, <1>18 DEF n

(* And the last one.                                                       *)
LEMMA LookupFine ==
  ASSUME NEW base, Fine(base), NEW names \in Seq(STRING)
  PROVE  LET end == FoldLeft(LAMBDA st, n : IF st.ino = NoIno THEN st
                                           ELSE Search(GetMinode(st, st.ino), n), base, names)
         IN Fine(end) /\ Kept(base.m, end.m)
<1>1. PICK R : /\ LookWay(base, names, R)
               /\ FoldLeft(LAMBDA st, n : IF st.ino = NoIno THEN st
                                          ELSE Search(GetMinode(st, st.ino), n), base, names) = R[Len(names)]
  BY LookupWay
<1>2. Len(names) \in 0..Len(names) OBVIOUS
<1>3. R[Len(names)] \in Reach(base.m) BY <1>1, <1>2 DEF LookWay
<1> QED BY <1>1, <1>3, ReachFine

(* What a command prints may be anything.                                   *)
LEMMA OutFine ==
  ASSUME NEW st, Fine(st), NEW out \in Seq(Held)
  PROVE  Fine([st EXCEPT !.out = out]) /\ Kept(st.m, [st EXCEPT !.out = out].m)
<1> DEFINE r == [st EXCEPT !.out = out]
<1>1. st \in State BY DEF Fine
<1>2. /\ r \in State /\ r.m = st.m /\ r.met = st.met /\ r.full = st.full /\ r.at = st.at
      /\ r.ino = st.ino
  BY <1>1 DEF State
<1>4. r.ino # NoIno => Near(r.m, r.ino) BY <1>2 DEF Fine
<1> HIDE DEF r
<1>3. Fine(r) /\ Kept(st.m, r.m) BY <1>2, <1>4, FineSame
<1> QED BY <1>3 DEF r

(* The entries of a block, got one after the other.                         *)
Listed(x, a) ==
  IF a.name \in {".", ".."} THEN x
  ELSE LET y == GetMinode(x, a.inode) IN [y EXCEPT !.out = Append(y.out, Ip(y))]
ListWay(base, es, R) ==
  /\ R \in [0..Len(es) -> Reach(base.m)] /\ R[0] = base
  /\ \A k \in 1..Len(es) : R[k] = Listed(R[k-1], es[k])
Close(m) == {e \in Entry : Near(m, e.inode)}
(* Every state on the way is in order, if the entries are near.            *)
LEMMA LsBlockWay ==
  ASSUME NEW base, Fine(base), NEW es \in Seq(Close(base.m))
  PROVE  \E R : ListWay(base, es, R) /\ LsBlock(base, es) = R[Len(es)]
<1> DEFINE Step(x, a) == Listed(x, a)
           X == Reach(base.m)
           A == Close(base.m)
           n == Len(es)
           F == [y \in X \X A |-> Step(y[1], y[2])]
           h == CHOOSE g : g = [s \in SUBSET (DOMAIN es) |->
                                 IF s = {} THEN base ELSE Step(g[s \ {Max(s)}], es[Max(s)])]
<1>1. base \in X BY DEF Reach, Kept, Fine
<1>2. ASSUME NEW x \in X, NEW a \in A PROVE Step(x, a) \in X
  <2> USE DEF Listed
  <2>1. CASE a.name \in {".", ".."} BY <2>1
  <2>2. CASE a.name \notin {".", ".."}
    <3> DEFINE y == GetMinode(x, a.inode)
               r == [y EXCEPT !.out = Append(y.out, Ip(y))]
    <3>0. base.m \in Tables BY DEF Fine, State
    <3>1. Fine(x) /\ a.inode \in Ino /\ Near(x.m, a.inode) BY <3>0, ReachFine, ReachNear DEF Entry, Close
    <3>2. Fine(y) /\ Kept(x.m, y.m) BY <3>1, GetFine
    <3> HIDE DEF y
    <3>3. Append(y.out, Ip(y)) \in Seq(Held)
      <4>1. y.out \in Seq(Held) /\ Ip(y) \in Held BY <3>2, IpType DEF State, Held
      <4> QED BY <4>1
    <3>4. Fine(r) /\ Kept(y.m, r.m) BY <3>2, <3>3, OutFine
    <3> HIDE DEF r
    <3>5. Kept(x.m, r.m) BY <3>2, <3>4, KeptOn
    <3>6. Step(x, a) = r BY <2>2 DEF r, y
    <3> HIDE DEF Step
    <3> QED BY <3>4, <3>5, <3>6, ReachOn
  <2> QED BY <2>1, <2>2
<1> HIDE DEF X
<1>3. FoldLeft(LAMBDA x, e : IF e.name \in {".", ".."} THEN x
                            ELSE LET y == GetMinode(x, e.inode)
                                 IN [y EXCEPT !.out = Append(@, Ip(y))], base, es) = h[DOMAIN es]
  BY DEF FoldLeft, MapThenFoldSet, Listed
<1> HIDE DEF Step
<1>4. F \in [X \X A -> X] BY <1>2
<1>5. \A x \in X, a \in A : F[<<x, a>>] = Step(x, a) OBVIOUS
<1>6. n \in Nat /\ DOMAIN es = 1..n /\ es \in [1..n -> A] OBVIOUS
<1> HIDE DEF F, n, A
<1>0. PICK g : Folds(n, X, F, base, es, g) BY <1>1, <1>4, <1>6, FoldFun
<1>7. /\ g \in [SUBSET (1..n) -> X]
      /\ \A s \in SUBSET (1..n) :
           g[s] = IF s = {} THEN base ELSE F[<<g[s \ {Max(s)}], es[Max(s)]>>]
  BY <1>0 DEF Folds
<1>8. \A s \in SUBSET (1..n) : s # {} =>
        Max(s) \in 1..n /\ s \ {Max(s)} \in SUBSET (1..n) /\ es[Max(s)] \in A
  BY <1>6, MaxOf
<1>9. \A s \in SUBSET (1..n) :
        g[s] = IF s = {} THEN base ELSE Step(g[s \ {Max(s)}], es[Max(s)])
  BY <1>5, <1>7, <1>8
<1>10. g = [s \in SUBSET (DOMAIN es) |->
              IF s = {} THEN base ELSE Step(g[s \ {Max(s)}], es[Max(s)])]
  BY <1>6, <1>7, <1>9
<1>11. h = [s \in SUBSET (DOMAIN es) |->
              IF s = {} THEN base ELSE Step(h[s \ {Max(s)}], es[Max(s)])]
  BY <1>10
<1> HIDE DEF h
<1>12. \A s \in SUBSET (1..n) :
         h[s] = IF s = {} THEN base ELSE Step(h[s \ {Max(s)}], es[Max(s)])
  BY <1>6, <1>11
<1>13. PICK R : Way(n, X, F, base, es, h[1..n], R)
  <2>1. ASSUME NEW s \in SUBSET (1..n), s # {}, h[s \ {Max(s)}] \in X
        PROVE  h[s] = F[<<h[s \ {Max(s)}], es[Max(s)]>>]
    BY <1>5, <1>8, <1>12, <2>1
  <2>2. h[{}] = base BY <1>12
  <2>3. Steps(n, X, F, base, es, h) BY <2>1, <2>2 DEF Steps
  <2> QED BY <1>1, <1>4, <1>6, <2>3, FoldWay
<1>16. R \in [0..n -> X] /\ R[0] = base /\ R[n] = h[1..n] /\ \A k \in 1..n : R[k] = F[<<R[k-1], es[k]>>]
  BY <1>13 DEF Way
<1>17. \A k \in 1..n : R[k-1] \in X /\ R[k] = Step(R[k-1], es[k])
  <2> SUFFICES ASSUME NEW k \in 1..n PROVE R[k-1] \in X /\ R[k] = Step(R[k-1], es[k]) OBVIOUS
  <2>1. k-1 \in 0..n BY <1>6
  <2>2. R[k-1] \in X /\ R[k] = F[<<R[k-1], es[k]>>] BY <1>16, <2>1
  <2> QED BY <1>5, <1>6, <2>2
<1>18. ListWay(base, es, R) BY <1>16, <1>17 DEF ListWay, X, n, Step
<1> QED BY <1>3, <1>6, <1>16, <1>18 DEF n, LsBlock

(* And the last one.                                                       *)
LEMMA LsBlockFine ==
  ASSUME NEW base, Fine(base), NEW es \in Seq(Close(base.m))
  PROVE  Fine(LsBlock(base, es)) /\ Kept(base.m, LsBlock(base, es).m)
<1>1. PICK R : ListWay(base, es, R) /\ LsBlock(base, es) = R[Len(es)] BY LsBlockWay
<1>2. Len(es) \in 0..Len(es) OBVIOUS
<1>3. R[Len(es)] \in Reach(base.m) BY <1>1, <1>2 DEF ListWay
<1> QED BY <1>1, <1>3, ReachFine

(* The longest directory is as long as any.                                 *)
Longest == Max({Len(Image[i]) : i \in Ino})
(* It is a number, and no directory has more blocks.                       *)
LEMMA NoLonger ==
  Longest \in Nat /\ \A i \in Ino : Len(Image[i]) \in Nat /\ Len(Image[i]) <= Longest
<1> DEFINE f == [i \in Ino |-> Len(Image[i])]
           T == {Len(Image[i]) : i \in Ino}
<1>1. \A i \in Ino : Len(Image[i]) \in Nat
  <2> SUFFICES ASSUME NEW i \in Ino PROVE Len(Image[i]) \in Nat OBVIOUS
  <2>1. Image[i] \in Seq(Seq(Entry)) BY EntriesType
  <2> QED BY <2>1
<1>2. f \in [Ino -> Nat] /\ \A i \in Ino : f[i] = Len(Image[i]) BY <1>1
<1>3. PICK b \in Nat : \A i \in Ino : f[i] <= b
  <2> HIDE DEF f
  <2> QED BY <1>2, Sizes, FiniteBound
<1>4. T \in SUBSET Nat /\ T # {} /\ (\A x \in T : x <= b) /\ \A i \in Ino : Len(Image[i]) \in T
  BY <1>1, <1>2, <1>3, Sizes
<1>5. Longest = Max(T) BY DEF Longest
<1> HIDE DEF T
<1>6. Max(T) \in T /\ \A x \in T : x <= Max(T) BY <1>4, GreatestNat
<1> QED BY <1>1, <1>4, <1>5, <1>6

(* ls of a directory, whatever becomes of the slot it is in meanwhile: its  *)
(* blocks, one after the other.                                             *)
Paged(st, x, k) ==
  LET blocks == Image[x.m[st.at].ip]
  IN IF k > Len(blocks) THEN x ELSE LsBlock(x, blocks[k])
DirWay(base, end, R) ==
  /\ R \in [0..Longest -> Reach(base.m)] /\ R[0] = base /\ R[Longest] = end
  /\ \A k \in 1..Longest : R[k] = Paged(base, R[k-1], k)
(* Every state on the way is in order.                                     *)
LEMMA LsDirWay ==
  ASSUME NEW base, Fine(base)
  PROVE  \E R : DirWay(base, LsDir(base), R)
<1> DEFINE Step(x, k) == Paged(base, x, k)
           X == Reach(base.m)
           n == Longest
           ks == [k \in 1..n |-> k]
           Pos == Nat \ {0}
           F == [y \in X \X Pos |-> Step(y[1], y[2])]
           h == CHOOSE g : g = [s \in SUBSET (DOMAIN ks) |->
                                 IF s = {} THEN base ELSE Step(g[s \ {Max(s)}], ks[Max(s)])]
<1>1. base \in X BY DEF Reach, Kept, Fine
<1>2. ASSUME NEW x \in X, NEW k \in Pos PROVE Step(x, k) \in X
  <2> DEFINE i == x.m[base.at].ip
             blocks == Image[i]
  <2>1. x \in State /\ Fine(x) /\ Kept(base.m, x.m) BY DEF Reach
  <2>2. base.at \in Slot /\ base.m[base.at].ino # NoIno BY IpType DEF Fine
  <2>3. i \in Ino /\ x.m[base.at].ino # NoIno BY <2>1, <2>2 DEF Kept, Fine, Table
  <2>4. blocks \in Seq(Seq(Entry)) BY <2>3, EntriesType
  <2>5. CASE k > Len(blocks) BY <2>5 DEF Paged
  <2>6. CASE ~(k > Len(blocks))
    <3> DEFINE es == blocks[k]
    <3>1. k \in 1..Len(blocks) /\ es \in Seq(Entry)
      <4> HIDE DEF blocks
      <4>1. k \in 1..Len(blocks) BY <2>4, <2>6
      <4> QED BY <2>4, <4>1
    <3>3. ASSUME NEW j \in 1..Len(es) PROVE es[j] \in Close(x.m)
      <4>1. es[j] \in ToSet(Entries(i)) BY <2>4, <3>1, FlattenedAll DEF Entries
      <4>2. /\ x.m \in Tables /\ x.full \in BOOLEAN /\ Table(x.m) /\ Rooted(x.m, x.full)
        BY <2>1 DEF Fine, State
      <4>3. Near(x.m, es[j].inode) BY <2>2, <2>3, <4>1, <4>2, EntryNear
      <4>4. es[j] \in Entry
        <5> HIDE DEF es
        <5> QED BY <3>1
      <4> QED BY <4>3, <4>4 DEF Close
    <3>4. es \in Seq(Close(x.m))
      <4> HIDE DEF es
      <4> QED BY <3>1, <3>3, InSmaller
    <3>2. Fine(LsBlock(x, es)) /\ Kept(x.m, LsBlock(x, es).m)
      BY <2>1, <3>4, LsBlockFine
    <3>5. Step(x, k) = LsBlock(x, es) BY <2>6 DEF Paged
    <3> HIDE DEF Step, es
    <3> QED BY <3>2, <3>5, ReachOn
  <2> QED BY <2>5, <2>6
<1> HIDE DEF X
<1>3. FoldLeft(LAMBDA x, k : LET blocks == Image[x.m[base.at].ip]
                            IN IF k > Len(blocks) THEN x ELSE LsBlock(x, blocks[k]), base, ks) = h[DOMAIN ks]
  BY DEF FoldLeft, MapThenFoldSet, Paged
<1> HIDE DEF Step
<1>4. F \in [X \X Pos -> X] BY <1>2
<1>5. \A x \in X, a \in Pos : F[<<x, a>>] = Step(x, a) OBVIOUS
<1>6. n \in Nat /\ DOMAIN ks = 1..n /\ ks \in [1..n -> Pos] /\ \A k \in 1..n : ks[k] = k
  BY NoLonger
<1> HIDE DEF F, ks, n
<1>0. PICK g : Folds(n, X, F, base, ks, g) BY <1>1, <1>4, <1>6, FoldFun
<1>7. /\ g \in [SUBSET (1..n) -> X]
      /\ \A s \in SUBSET (1..n) :
           g[s] = IF s = {} THEN base ELSE F[<<g[s \ {Max(s)}], ks[Max(s)]>>]
  BY <1>0 DEF Folds
<1>8. \A s \in SUBSET (1..n) : s # {} =>
        Max(s) \in 1..n /\ s \ {Max(s)} \in SUBSET (1..n) /\ ks[Max(s)] \in Pos
  BY <1>6, MaxOf
<1>9. \A s \in SUBSET (1..n) :
        g[s] = IF s = {} THEN base ELSE Step(g[s \ {Max(s)}], ks[Max(s)])
  BY <1>5, <1>7, <1>8
<1>10. g = [s \in SUBSET (DOMAIN ks) |->
              IF s = {} THEN base ELSE Step(g[s \ {Max(s)}], ks[Max(s)])]
  BY <1>6, <1>7, <1>9
<1>11. h = [s \in SUBSET (DOMAIN ks) |->
              IF s = {} THEN base ELSE Step(h[s \ {Max(s)}], ks[Max(s)])]
  BY <1>10
<1> HIDE DEF h
<1>12. \A s \in SUBSET (1..n) :
         h[s] = IF s = {} THEN base ELSE Step(h[s \ {Max(s)}], ks[Max(s)])
  BY <1>6, <1>11
<1>13. PICK R : Way(n, X, F, base, ks, h[1..n], R)
  <2>1. ASSUME NEW s \in SUBSET (1..n), s # {}, h[s \ {Max(s)}] \in X
        PROVE  h[s] = F[<<h[s \ {Max(s)}], ks[Max(s)]>>]
    BY <1>5, <1>8, <1>12, <2>1
  <2>2. h[{}] = base BY <1>12
  <2>3. Steps(n, X, F, base, ks, h) BY <2>1, <2>2 DEF Steps
  <2> QED BY <1>1, <1>4, <1>6, <2>3, FoldWay
<1>16. /\ R \in [0..n -> X] /\ R[0] = base /\ R[n] = h[1..n]
       /\ \A k \in 1..n : R[k] = F[<<R[k-1], ks[k]>>]
  BY <1>13 DEF Way
<1>17. \A k \in 1..n : R[k-1] \in X /\ R[k] = Step(R[k-1], k)
  <2> SUFFICES ASSUME NEW k \in 1..n PROVE R[k-1] \in X /\ R[k] = Step(R[k-1], k) OBVIOUS
  <2>1. k-1 \in 0..n BY <1>6
  <2>2. R[k-1] \in X /\ R[k] = F[<<R[k-1], k>>] BY <1>6, <1>16, <2>1
  <2>3. k \in Pos BY <1>6
  <2> QED BY <1>5, <2>2, <2>3
<1>14. LsDir(base) = h[1..n] BY <1>3, <1>6 DEF LsDir, ks, Longest, n
<1> QED BY <1>14, <1>16, <1>17 DEF DirWay, X, n, Step

(* And the last one.                                                       *)
LEMMA LsDirFine ==
  ASSUME NEW base, Fine(base)
  PROVE  Fine(LsDir(base)) /\ Kept(base.m, LsDir(base).m)
<1>1. PICK R : DirWay(base, LsDir(base), R) BY LsDirWay
<1>2. Longest \in 0..Longest BY NoLonger
<1>3. LsDir(base) \in Reach(base.m) BY <1>1, <1>2 DEF DirWay
<1> QED BY <1>3, ReachFine

(* The parent of a directory one is in is near.                             *)
LEMMA ParentNear ==
  ASSUME NEW st, Fine(st), Ip(st) \in Dir
  PROVE  /\ Ip(st) \in Ino /\ Parent(Ip(st)) \in Ino /\ Near(st.m, Parent(Ip(st)))
         /\ ~st.full => Hit(st.m, Parent(Ip(st))) # {}
<1> DEFINE i == Ip(st)
<1>0. i \in Ino /\ Parent(i) \in Dir /\ Parent(i) \in Ino /\ Parent(i) # NoIno BY Upward
<1>1. /\ st.at \in Slot /\ st.m[st.at].ino # NoIno /\ Rooted(st.m, st.full)
      /\ st.full \in BOOLEAN
  BY DEF Fine, State
<1>2. CASE st.full BY <1>0, <1>1, <1>2 DEF Rooted, Near
<1>3. CASE ~st.full
  <2>1. st.m[st.at].ino = i BY <1>1, <1>3 DEF Rooted, Ip
  <2>2. Homed(st.m, i) BY <1>1, <2>1 DEF Rooted
  <2>3. PICK t \in Slot : st.m[t].ino = Parent(i) BY <2>2 DEF Homed, Hit
  <2>4. Homed(st.m, Parent(i)) BY <1>0, <1>1, <2>3 DEF Rooted
  <2>5. t \in Hit(st.m, Parent(i)) BY <2>3 DEF Hit
  <2> QED BY <1>0, <2>4, <2>5 DEF Near
<1> QED BY <1>1, <1>2, <1>3

(* pwd, as far up as it comes.                                              *)
Higher(x) == IF x.at = root \/ Ip(x) \notin Dir THEN x ELSE Up(x)
Climbs == NMINODE * Cardinality(Ino)
ClimbWay(end, R) ==
  /\ R \in [0..Climbs -> Reach(minodes)] /\ R[0] = Now /\ R[Climbs] = end
  /\ \A k \in 1..Climbs : R[k] = Higher(R[k-1])
(* Every state on the way is in order.                                     *)
LEMMA ClimbedWay ==
  ASSUME Fine(Now)
  PROVE  \E R : ClimbWay(Climbed, R)
<1> DEFINE Step(x, k) == Higher(x)
           base == Now
           X == Reach(base.m)
           n == Climbs
           ks == [k \in 1..n |-> k]
           Pos == Nat \ {0}
           F == [y \in X \X Pos |-> Step(y[1], y[2])]
           h == CHOOSE g : g = [s \in SUBSET (DOMAIN ks) |->
                                 IF s = {} THEN base ELSE Step(g[s \ {Max(s)}], ks[Max(s)])]
<1>1. base \in X BY DEF Reach, Kept, Fine
<1>2. ASSUME NEW x \in X, NEW k \in Pos PROVE Step(x, k) \in X
  <2>1. CASE x.at = root \/ Ip(x) \notin Dir BY <2>1 DEF Higher
  <2>2. CASE ~(x.at = root \/ Ip(x) \notin Dir)
    <3> DEFINE up == GetMinode(x, Parent(Ip(x)))
               v == IF \E e \in ToSet(Entries(Ip(up))) : e.inode = Ip(x) THEN Ip(x) ELSE NoIno
               r == [up EXCEPT !.out = <<v>> \o up.out]
    <3>1. Fine(x) /\ Ip(x) \in Ino /\ Parent(Ip(x)) \in Ino /\ Near(x.m, Parent(Ip(x)))
      BY <2>2, ReachFine, ParentNear
    <3>2. Fine(up) /\ Kept(x.m, up.m) BY <3>1, GetFine
    <3>3. Up(x) = r BY DEF Up
    <3>4. v \in Held BY <3>1 DEF Held
    <3> HIDE DEF v, up
    <3>5. <<v>> \o up.out \in Seq(Held)
      <4>1. up.out \in Seq(Held) BY <3>2, IpType DEF State
      <4> QED BY <3>4, <4>1
    <3>6. Fine(r) /\ Kept(up.m, r.m) BY <3>2, <3>5, OutFine
    <3> HIDE DEF r
    <3>7. Kept(x.m, r.m) BY <3>2, <3>6, KeptOn
    <3>8. Step(x, k) = r BY <2>2, <3>3 DEF Higher
    <3> HIDE DEF Step
    <3> QED BY <3>6, <3>7, <3>8, ReachOn
  <2> QED BY <2>1, <2>2
<1> HIDE DEF X
<1>3. FoldLeft(LAMBDA x, k : IF x.at = root \/ Ip(x) \notin Dir THEN x ELSE Up(x), base, ks) = h[DOMAIN ks]
  BY DEF FoldLeft, MapThenFoldSet, Higher
<1> HIDE DEF Step
<1>4. F \in [X \X Pos -> X] BY <1>2
<1>5. \A x \in X, a \in Pos : F[<<x, a>>] = Step(x, a) OBVIOUS
<1>6. n \in Nat /\ DOMAIN ks = 1..n /\ ks \in [1..n -> Pos] /\ \A k \in 1..n : ks[k] = k
  <2>1. Cardinality(Ino) \in Nat BY Sizes, FS_CardinalityType
  <2>2. n \in Nat BY <2>1, Sizes DEF Climbs
  <2> HIDE DEF n
  <2> QED BY <2>2
<1> HIDE DEF F, ks, n
<1>0. PICK g : Folds(n, X, F, base, ks, g) BY <1>1, <1>4, <1>6, FoldFun
<1>7. /\ g \in [SUBSET (1..n) -> X]
      /\ \A s \in SUBSET (1..n) :
           g[s] = IF s = {} THEN base ELSE F[<<g[s \ {Max(s)}], ks[Max(s)]>>]
  BY <1>0 DEF Folds
<1>8. \A s \in SUBSET (1..n) : s # {} =>
        Max(s) \in 1..n /\ s \ {Max(s)} \in SUBSET (1..n) /\ ks[Max(s)] \in Pos
  BY <1>6, MaxOf
<1>9. \A s \in SUBSET (1..n) :
        g[s] = IF s = {} THEN base ELSE Step(g[s \ {Max(s)}], ks[Max(s)])
  BY <1>5, <1>7, <1>8
<1>10. g = [s \in SUBSET (DOMAIN ks) |->
              IF s = {} THEN base ELSE Step(g[s \ {Max(s)}], ks[Max(s)])]
  BY <1>6, <1>7, <1>9
<1>11. h = [s \in SUBSET (DOMAIN ks) |->
              IF s = {} THEN base ELSE Step(h[s \ {Max(s)}], ks[Max(s)])]
  BY <1>10
<1> HIDE DEF h
<1>12. \A s \in SUBSET (1..n) :
         h[s] = IF s = {} THEN base ELSE Step(h[s \ {Max(s)}], ks[Max(s)])
  BY <1>6, <1>11
<1>13. PICK R : Way(n, X, F, base, ks, h[1..n], R)
  <2>1. ASSUME NEW s \in SUBSET (1..n), s # {}, h[s \ {Max(s)}] \in X
        PROVE  h[s] = F[<<h[s \ {Max(s)}], ks[Max(s)]>>]
    BY <1>5, <1>8, <1>12, <2>1
  <2>2. h[{}] = base BY <1>12
  <2>3. Steps(n, X, F, base, ks, h) BY <2>1, <2>2 DEF Steps
  <2> QED BY <1>1, <1>4, <1>6, <2>3, FoldWay
<1>16. /\ R \in [0..n -> X] /\ R[0] = base /\ R[n] = h[1..n]
       /\ \A k \in 1..n : R[k] = F[<<R[k-1], ks[k]>>]
  BY <1>13 DEF Way
<1>17. \A k \in 1..n : R[k-1] \in X /\ R[k] = Step(R[k-1], k)
  <2> SUFFICES ASSUME NEW k \in 1..n PROVE R[k-1] \in X /\ R[k] = Step(R[k-1], k) OBVIOUS
  <2>1. k-1 \in 0..n BY <1>6
  <2>2. R[k-1] \in X /\ R[k] = F[<<R[k-1], k>>] BY <1>6, <1>16, <2>1
  <2>3. k \in Pos BY <1>6
  <2> QED BY <1>5, <2>2, <2>3
<1>14. Climbed = h[1..n] BY <1>3, <1>6 DEF Climbed, ks, Climbs, n
<1>15. base.m = minodes BY DEF Now
<1> QED BY <1>14, <1>15, <1>16, <1>17 DEF ClimbWay, X, n, Step

(* And the last one.                                                       *)
LEMMA ClimbedFine ==
  ASSUME Fine(Now)
  PROVE  Fine(Climbed) /\ Kept(minodes, Climbed.m)
<1>1. PICK R : ClimbWay(Climbed, R) BY ClimbedWay
<1>2. Climbs \in 0..Climbs
  <2>1. Cardinality(Ino) \in Nat BY Sizes, FS_CardinalityType
  <2>2. Climbs \in Nat BY <2>1, Sizes DEF Climbs
  <2> QED BY <2>2
<1>3. Climbed \in Reach(minodes) BY <1>1, <1>2 DEF ClimbWay
<1> QED BY <1>3, ReachFine

-----------------------------------------------------------------------------
(* Between two commands the slots are in order, and running->cwd is a slot  *)
(* that was given away.                                                     *)
MountInv ==
  /\ Fine(Now)
  /\ shown \in Seq(Held) /\ astray \in BOOLEAN /\ doubt \in BOOLEAN

(* mount_root: the root's slot is the only one given away.                  *)
LEMMA InitMount == Init => MountInv
<1> SUFFICES ASSUME Init PROVE MountInv OBVIOUS
<1> USE Sizes
<1>1. \A s \in Slot : minodes[s] = IF s = root THEN [ino |-> ROOT_INODE, ip |-> ROOT_INODE]
                                              ELSE [ino |-> NoIno, ip |-> NoIno]
  BY DEF Init
<1>2. minodes \in Tables BY DEF Init, Tables, Held
<1>3. Now \in State
  <2>1. <<>> \in Seq(Held) OBVIOUS
  <2> QED BY <1>2, <2>1 DEF Init, State, Now, Held
<1>4. \A s \in Slot : minodes[s].ino # NoIno => s = root BY <1>1
<1>5. minodes[root].ino = ROOT_INODE /\ minodes[root].ip = ROOT_INODE /\ ROOT_INODE # NoIno
  BY <1>1
<1>6. \A s \in Slot : minodes[s].ip = minodes[s].ino BY <1>1
<1>7. Table(minodes) BY <1>4, <1>5, <1>6 DEF Table
<1>8. Counted(minodes, met, full) BY <1>4, <1>5 DEF Init, Counted
<1>11. Rooted(minodes, full)
  <2>1. root \in Hit(minodes, ROOT_INODE) BY <1>5 DEF Hit
  <2>2. Homed(minodes, ROOT_INODE) BY <2>1, Upward DEF Homed
  <2>3. \A s \in Slot : minodes[s].ino # NoIno => minodes[s].ino = ROOT_INODE BY <1>4, <1>5
  <2> QED BY <1>6, <2>2, <2>3 DEF Rooted, Init
<1>9. Fine(Now)
  <2>1. Now.m = minodes /\ Now.met = met /\ Now.full = full /\ Now.at = root /\ Now.ino = NoIno
    BY DEF Now, Init
  <2> QED BY <1>3, <1>5, <1>7, <1>8, <1>11, <2>1 DEF Fine
<1>10. shown \in Seq(Held) /\ astray \in BOOLEAN /\ doubt \in BOOLEAN
  <2>1. <<>> \in Seq(Held) OBVIOUS
  <2> QED BY <2>1 DEF Init
<1> QED BY <1>9, <1>10 DEF MountInv

(* A command leaves the slots it came to, and a current directory that was  *)
(* given away.                                                              *)
LEMMA NowNext ==
  ASSUME NEW st, Fine(st), Set(st), cwd' \in Slot, st.m[cwd'].ino # NoIno
  PROVE  Fine(Now)'
<1>1. st \in State /\ Table(st.m) /\ Counted(st.m, st.met, st.full) BY DEF Fine
<1>2. st.m = minodes' /\ st.met = met' /\ st.full = full' BY DEF Set
<1>3. Now' = [m |-> minodes', at |-> cwd', ino |-> NoIno, met |-> met', full |-> full',
              wrong |-> FALSE, out |-> <<>>]
  BY DEF Now
<1>4. <<>> \in Seq(Held) OBVIOUS
<1>5. /\ Now' \in State /\ Now'.m = st.m /\ Now'.met = st.met /\ Now'.full = st.full
      /\ Now'.at = cwd' /\ Now'.ino = NoIno
  BY <1>1, <1>2, <1>3, <1>4 DEF State, Held
<1>6. Rooted(st.m, st.full) BY DEF Fine
<1>7. Fine(Now') BY <1>1, <1>5, <1>6 DEF Fine
<1> QED BY <1>7 DEF Fine, State, Table, Counted, Rooted, Homed, Near, Hit, Unused, Dir, Parent,
                    Slot, root, Held, Tables, Ino, NoIno

(* A command that leaves the current directory alone.                       *)
LEMMA NowStays ==
  ASSUME Fine(Now), NEW st, Fine(st), Kept(minodes, st.m), Set(st), cwd' = cwd
  PROVE  Fine(Now)'
<1>1. cwd \in Slot /\ minodes[cwd].ino # NoIno BY DEF Fine, State, Now
<1>2. st.m[cwd].ino # NoIno BY <1>1 DEF Kept
<1> QED BY <1>1, <1>2, NowNext

(* Where a lookup begins: at the root, or at the current directory.         *)
LEMMA StartFine ==
  ASSUME Fine(Now), NEW s \in {root, cwd}
  PROVE  Fine([Now EXCEPT !.at = s]) /\ [Now EXCEPT !.at = s].m = minodes
<1> DEFINE r == [Now EXCEPT !.at = s]
<1>1. Now \in State /\ Table(minodes) /\ Counted(minodes, met, full) /\ minodes[cwd].ino # NoIno
      /\ cwd \in Slot
  BY DEF Fine, State, Now
<1>2. s \in Slot /\ minodes[s].ino # NoIno BY <1>1, Sizes DEF Table
<1>3. r \in State /\ r.m = minodes /\ r.met = met /\ r.full = full /\ r.at = s /\ r.ino = NoIno
  BY <1>1, <1>2 DEF State, Now
<1>5. Rooted(minodes, full) BY DEF Fine, Now
<1> HIDE DEF r
<1>4. Fine(r) BY <1>1, <1>2, <1>3, <1>5 DEF Fine
<1> QED BY <1>3, <1>4 DEF r

(* A path, followed from there.                                             *)
LEMMA PathFine ==
  ASSUME Fine(Now), NEW p \in Paths
  PROVE  Fine(GetInodeNumber(p)) /\ Kept(minodes, GetInodeNumber(p).m)
<1> DEFINE s == IF p.abs THEN root ELSE cwd
           st0 == [Now EXCEPT !.at = s]
           st1 == Search(st0, Head(p.names))
<1>1. p.abs \in BOOLEAN /\ p.names \in Seq(STRING) /\ p.names # <<>> OBVIOUS
<1>2. Tail(p.names) \in Seq(STRING)
  <2>1. \A ns \in Seq(STRING) : ns # <<>> => Tail(ns) \in Seq(STRING) OBVIOUS
  <2> QED BY <1>1, <2>1
<1>3. s \in {root, cwd} OBVIOUS
<1> HIDE DEF s
<1>4. Fine(st0) /\ st0.m = minodes BY <1>3, StartFine
<1> HIDE DEF st0
<1>5. Fine(st1) /\ Kept(minodes, st1.m) BY <1>4, SearchFine
<1> HIDE DEF st1
<1>6. LET end == FoldLeft(LAMBDA st, n : IF st.ino = NoIno THEN st
                                         ELSE Search(GetMinode(st, st.ino), n),
                          st1, Tail(p.names))
      IN Fine(end) /\ Kept(st1.m, end.m)
  BY <1>2, <1>5, LookupFine
<1>7. GetInodeNumber(p) = FoldLeft(LAMBDA st, n : IF st.ino = NoIno THEN st
                                         ELSE Search(GetMinode(st, st.ino), n),
                          st1, Tail(p.names))
  BY DEF GetInodeNumber, st1, st0, s
<1>8. Fine(GetInodeNumber(p)) /\ Kept(st1.m, GetInodeNumber(p).m) BY <1>6, <1>7
<1> QED BY <1>5, <1>8, KeptOn

(* cd.                                                                      *)
LEMMA CdInv ==
  ASSUME MountInv, NEW p \in Paths, Cd(p)
  PROVE  MountInv'
<1>0. Fine(Now) BY DEF MountInv
<1> DEFINE st == GetInodeNumber(p)
<1>1. Fine(st) /\ Kept(minodes, st.m) BY <1>0, PathFine
<1>2. CdTo(p, st) BY DEF Cd
<1> HIDE DEF st
<1>3. CASE st.ino = NoIno /\ Set(st) /\ UNCHANGED <<cwd, shown, astray, doubt>>
  <2>1. Fine(Now)' BY <1>0, <1>1, <1>3, NowStays
  <2> QED BY <1>3, <2>1 DEF MountInv, Held, Ino, NoIno
<1>4. CASE /\ st.ino # NoIno
           /\ \E to \in {GetMinode(st, st.ino)} : Set(to) /\ cwd' = to.at
           /\ astray' = (st.wrong \/ (astray /\ ~p.abs))
           /\ UNCHANGED <<shown, doubt>>
  <2> DEFINE to == GetMinode(st, st.ino)
  <2>1. Set(to) /\ cwd' = to.at BY <1>4
  <2>2. st.ino \in Ino /\ st.wrong \in BOOLEAN /\ Near(st.m, st.ino)
    BY <1>1, <1>4 DEF Fine, State, Held
  <2>3. Fine(to) BY <1>1, <2>2, GetFine
  <2> HIDE DEF to
  <2>4. to.at \in Slot /\ to.m[to.at].ino # NoIno BY <2>3 DEF Fine, State
  <2>5. Fine(Now)' BY <2>1, <2>3, <2>4, NowNext
  <2>6. astray' \in BOOLEAN BY <1>4
  <2> QED BY <1>4, <2>5, <2>6 DEF MountInv, Held, Ino, NoIno
<1> QED BY <1>2, <1>3, <1>4 DEF CdTo

(* cd without an argument.                                                  *)
LEMMA CdRootInv ==
  ASSUME MountInv, CdRoot
  PROVE  MountInv'
<1>0. Fine(Now) BY DEF MountInv
<1>1. Set(Now) BY DEF CdRoot, Set, Now
<1>2. root \in Slot /\ Now.m[root].ino # NoIno BY <1>0, Sizes DEF Fine, Table
<1>3. Fine(Now)' BY <1>0, <1>1, <1>2, NowNext DEF CdRoot
<1> QED BY <1>3 DEF CdRoot, MountInv, Held, Ino, NoIno

(* ls, from a state of the slots that get_minode or nothing has led to.     *)
LEMMA LsFromInv ==
  ASSUME MountInv, NEW st, Fine(st), Kept(minodes, st.m), NEW unsure \in BOOLEAN,
         LsFrom(st, unsure)
  PROVE  MountInv'
<1>0. Fine(Now) BY DEF MountInv
<1> DEFINE end == IF Ip(st) \in Dir THEN LsDir(st) ELSE [st EXCEPT !.out = <<Ip(st)>>]
<1>1. Set(end) /\ shown' = end.out /\ doubt' = (st.wrong \/ unsure) /\ UNCHANGED <<cwd, astray>>
  BY DEF LsFrom
<1>2. Fine(end) /\ Kept(st.m, end.m)
  <2>1. CASE Ip(st) \in Dir BY <2>1, LsDirFine
  <2>2. CASE Ip(st) \notin Dir
    <3>1. Ip(st) \in Held BY IpType DEF Held
    <3>2. <<Ip(st)>> \in Seq(Held) BY <3>1
    <3> QED BY <2>2, <3>2, OutFine
  <2> QED BY <2>1, <2>2
<1> HIDE DEF end
<1>3. Kept(minodes, end.m) BY <1>2, KeptOn
<1>4. Fine(Now)' BY <1>0, <1>1, <1>2, <1>3, NowStays
<1>5. shown' \in Seq(Held) BY <1>1, <1>2, IpType DEF State
<1>6. doubt' \in BOOLEAN BY <1>1
<1> QED BY <1>1, <1>4, <1>5, <1>6 DEF MountInv, Held, Ino, NoIno

(* ls without an argument, and with one.                                    *)
LEMMA LsHereInv ==
  ASSUME MountInv, LsHere
  PROVE  MountInv'
<1>1. Fine(Now) /\ Kept(minodes, Now.m) /\ astray \in BOOLEAN BY DEF MountInv, Kept, Now
<1> QED BY <1>1, LsFromInv DEF LsHere

(* ls with an argument.                                                     *)
LEMMA LsInv ==
  ASSUME MountInv, NEW p \in Paths, Ls(p)
  PROVE  MountInv'
<1>0. Fine(Now) BY DEF MountInv
<1> DEFINE st == GetInodeNumber(p)
<1>1. Fine(st) /\ Kept(minodes, st.m) BY <1>0, PathFine
<1>2. LsTo(p, st) BY DEF Ls
<1> HIDE DEF st
<1>3. CASE st.ino = NoIno /\ Set(st) /\ UNCHANGED <<cwd, shown, astray, doubt>>
  <2>1. Fine(Now)' BY <1>0, <1>1, <1>3, NowStays
  <2> QED BY <1>3, <2>1 DEF MountInv, Held, Ino, NoIno
<1>4. CASE st.ino # NoIno /\ LsFrom(GetMinode(st, st.ino), astray /\ ~p.abs)
  <2>1. st.ino \in Ino /\ Near(st.m, st.ino) BY <1>1, <1>4 DEF Fine, State, Held
  <2>2. /\ Fine(GetMinode(st, st.ino))
        /\ Kept(st.m, GetMinode(st, st.ino).m)
    BY <1>1, <2>1, GetFine
  <2>3. Kept(minodes, GetMinode(st, st.ino).m) BY <1>1, <2>2, KeptOn
  <2>4. (astray /\ ~p.abs) \in BOOLEAN OBVIOUS
  <2> QED BY <1>4, <2>2, <2>3, <2>4, LsFromInv
<1> QED BY <1>2, <1>3, <1>4 DEF LsTo

(* pwd.                                                                     *)
LEMMA PwdInv ==
  ASSUME MountInv, Pwd
  PROVE  MountInv'
<1>0. Fine(Now) BY DEF MountInv
<1> DEFINE st == Climbed
<1>1. Fine(st) /\ Kept(minodes, st.m) BY <1>0, ClimbedFine
<1>2. Set(st) /\ shown' = st.out /\ doubt' = astray /\ UNCHANGED <<cwd, astray>> BY DEF Pwd
<1> HIDE DEF st
<1>3. Fine(Now)' BY <1>0, <1>1, <1>2, NowStays
<1>4. shown' \in Seq(Held) BY <1>1, <1>2, IpType DEF State
<1>5. astray \in BOOLEAN BY DEF MountInv
<1> QED BY <1>2, <1>3, <1>4, <1>5 DEF MountInv, Held, Ino, NoIno

(* What the invariant was for.                                              *)
LEMMA MountTrue == MountInv => SlotsTrue
<1> SUFFICES ASSUME MountInv PROVE SlotsTrue OBVIOUS
<1>1. /\ minodes \in Tables /\ cwd \in Slot /\ met \in SUBSET Ino /\ full \in BOOLEAN
      /\ Table(minodes) /\ Counted(minodes, met, full) /\ minodes[cwd].ino # NoIno
  BY DEF MountInv, Fine, State, Now
<1>2. TypeOK
  <2>1. minodes[cwd].ip \in Ino BY <1>1 DEF Table
  <2> QED BY <1>1, <2>1 DEF TypeOK, MountInv, Tables, Held
<1>3. \A s \in Slot \ {NMINODE} : minodes[s].ip = minodes[s].ino BY <1>1 DEF Table
<1>4. ASSUME NEW i \in Ino PROVE Cardinality(Hit(minodes, i)) <= 1
  <2>1. CASE Hit(minodes, i) = {}
    <3>1. Cardinality(Hit(minodes, i)) = 0 BY <2>1, FS_EmptySet
    <3> QED BY <3>1
  <2>2. CASE Hit(minodes, i) # {}
    <3>1. PICK s \in Hit(minodes, i) : TRUE BY <2>2
    <3>2. s \in Slot /\ minodes[s].ino = i /\ i # NoIno BY <3>1, Sizes DEF Hit
    <3>3. \A t \in Hit(minodes, i) : t = s BY <1>1, <3>2 DEF Hit, Table
    <3>4. Hit(minodes, i) = {s} BY <3>1, <3>3
    <3>5. Cardinality(Hit(minodes, i)) = 1 BY <3>4, FS_Singleton
    <3> QED BY <3>5
  <2> QED BY <2>1, <2>2
<1>5. full => Cardinality(met) > NMINODE BY <1>1 DEF Counted
<1> QED BY <1>2, <1>3, <1>4, <1>5 DEF SlotsTrue

(* Every command keeps them so.                                             *)
LEMMA MountStep == MountInv /\ [Next]_vars => MountInv'
<1> SUFFICES ASSUME MountInv, [Next]_vars PROVE MountInv' OBVIOUS
<1>1. ASSUME NEW p \in Paths, Cd(p) PROVE MountInv' BY <1>1, CdInv
<1>2. ASSUME NEW p \in Paths, Ls(p) PROVE MountInv' BY <1>2, LsInv
<1>3. CASE CdRoot BY <1>3, CdRootInv
<1>4. CASE LsHere BY <1>4, LsHereInv
<1>5. CASE Pwd BY <1>5, PwdInv
<1>6. CASE UNCHANGED vars
  BY <1>6 DEF vars, MountInv, Fine, State, Table, Counted, Rooted, Homed, Near, Hit, Unused, Dir,
             Parent, Now, Held, Tables, Slot, root, Ino, NoIno
<1> QED BY <1>1, <1>2, <1>3, <1>4, <1>5, <1>6 DEF Next

(* get_minode's table, after whatever commands: all slots but the last hold *)
(* what they are named for, no inode has two slots, and as long as no more  *)
(* inodes were met than there are slots the last one is no exception.       *)
THEOREM SlotsHold == Spec => []SlotsTrue
BY MountStep, InitMount, MountTrue, PTL DEF Spec

-----------------------------------------------------------------------------
(* pwd: one slot up, as long as the table was never full.                   *)
LEMMA OneUp ==
  ASSUME NEW x, Fine(x), ~x.full, Ip(x) \in Dir, x.at # root
  PROVE  /\ Fine(Higher(x)) /\ ~Higher(x).full /\ Higher(x).m = x.m
         /\ Ip(x) # ROOT_INODE /\ Ip(Higher(x)) = Parent(Ip(x))
         /\ Higher(x).out = <<Ip(x)>> \o x.out
<1> DEFINE i == Ip(x)
           up == GetMinode(x, Parent(i))
           v == IF \E e \in ToSet(Entries(Ip(up))) : e.inode = i THEN i ELSE NoIno
           r == [up EXCEPT !.out = <<v>> \o up.out]
           hit == Hit(x.m, Parent(i))
<1>1. /\ x \in State /\ x.m \in Tables /\ x.at \in Slot /\ x.m[x.at].ino # NoIno
      /\ Table(x.m) /\ Rooted(x.m, x.full)
  BY DEF Fine, State
<1>2. x.m[x.at].ino = i BY <1>1 DEF Rooted, Ip
<1>3. i # ROOT_INODE
  <2> SUFFICES ASSUME x.m[x.at].ino = ROOT_INODE PROVE FALSE BY <1>2
  <2>1. x.m[root].ino = ROOT_INODE BY <1>1 DEF Table
  <2> QED BY <1>1, <2>1, Sizes DEF Table
<1>4. hit # {} /\ Parent(i) \in Ino /\ Near(x.m, Parent(i)) BY ParentNear
<1>5. Fine(up) BY <1>4, GetFine
<1>6. Min(hit) \in hit
  <2>1. hit \in SUBSET Nat BY Sizes DEF Hit
  <2> QED BY <1>4, <2>1, LeastNat
<1>7. up = [x EXCEPT !.at = Min(hit), !.met = x.met \cup {Parent(i)}]
  <2>1. x.full = FALSE BY <1>1 DEF State
  <2>2. \A t : t = [x EXCEPT !.at = Min(hit), !.met = x.met \cup {Parent(i)},
                             !.full = x.full, !.m = x.m]
             => t = [x EXCEPT !.at = Min(hit), !.met = x.met \cup {Parent(i)}]
    BY <1>1 DEF State
  <2>3. up = [x EXCEPT !.at = Min(hit), !.met = x.met \cup {Parent(i)},
                       !.full = x.full, !.m = x.m]
    BY <1>4, <2>1 DEF GetMinode
  <2> QED BY <2>2, <2>3
<1> HIDE DEF up
<1>8. up.at = Min(hit) /\ up.m = x.m /\ up.full = x.full /\ up.out = x.out
  BY <1>1, <1>7 DEF State
<1>9. Ip(up) = Parent(i)
  <2>1. Min(hit) \in Slot /\ x.m[Min(hit)].ino = Parent(i) BY <1>6 DEF Hit
  <2>2. x.m[Min(hit)].ip = Parent(i) BY <1>1, <2>1 DEF Rooted
  <2> QED BY <1>8, <2>2 DEF Ip
<1>10. v = i
  <2>1. \E e \in ToSet(Entries(Parent(i))) : e.inode = i
    <3> DEFINE Up2(d) == \E e \in ToSet(Entries(Parent(d))) : e.inode = d
    <3>1. \A d \in Dir : Up2(d) BY TreeAssumption
    <3> HIDE DEF Up2
    <3>2. Up2(i) BY <3>1
    <3> QED BY <3>2 DEF Up2
  <2> QED BY <1>9, <2>1
<1>11. Higher(x) = r BY DEF Higher, Up, up
<1>12. <<v>> \o up.out \in Seq(Held)
  <2>1. up.out \in Seq(Held) /\ v \in Held BY <1>5, <1>10, IpType DEF State, Held
  <2> HIDE DEF v
  <2> QED BY <2>1
<1>13. Fine(r) BY <1>5, <1>12, OutFine
<1>14. r.m = up.m /\ r.full = up.full /\ r.at = up.at /\ r.out = <<v>> \o up.out
  BY <1>5, IpType DEF State
<1> HIDE DEF r
<1>15. Ip(r) = Parent(i) BY <1>8, <1>9, <1>14 DEF Ip
<1> QED BY <1>3, <1>8, <1>10, <1>11, <1>13, <1>14, <1>15

(* The directories pwd has come through: all different, the last one's      *)
(* parent is not among them.                                                *)
Come(i, k, V) ==
  /\ V \in SUBSET (Dir \ {ROOT_INODE}) /\ Cardinality(V) = k + 1 /\ i \in V
  /\ \A v \in V : v = i \/ Parent(v) \in V

(* One more of them, if the next is not the root: it is a new one, as the  *)
(* directories are a tree.                                                 *)
LEMMA ComeOn ==
  ASSUME NEW k \in Nat, NEW i, NEW V, Come(i, k, V), Parent(i) # ROOT_INODE
  PROVE  \E W : Come(Parent(i), k + 1, W)
<1> DEFINE j == Parent(i)
           W == V \cup {j}
<1>1. V \in SUBSET (Dir \ {ROOT_INODE}) /\ Cardinality(V) = k + 1 /\ i \in V /\ i \in Dir
      /\ \A v \in V : v = i \/ Parent(v) \in V
  BY DEF Come
<1>2. j \in Dir /\ j # ROOT_INODE BY <1>1, Upward
<1>3. j \notin V
  <2> SUFFICES ASSUME j \in V PROVE FALSE OBVIOUS
  <2>1. \A v \in V : Parent(v) \in V BY <1>1
  <2>2. V # {} BY <1>1
  <2> QED BY <1>1, <2>1, <2>2, TreeAssumption
<1>4. IsFiniteSet(V)
  <2>1. V \subseteq Ino BY <1>1 DEF Dir
  <2> QED BY <2>1, Sizes, FS_Subset
<1>5. Cardinality(W) = k + 2
  <2>1. Cardinality(W) = Cardinality(V) + 1 BY <1>3, <1>4, FS_AddElement
  <2> QED BY <1>1, <2>1
<1>6. \A v \in W : v = j \/ Parent(v) \in W BY <1>1
<1>7. W \in SUBSET (Dir \ {ROOT_INODE}) /\ j \in W BY <1>1, <1>2
<1>8. k + 2 = (k + 1) + 1 OBVIOUS
<1> HIDE DEF W, j
<1>9. Come(j, k + 1, W) BY <1>5, <1>6, <1>7, <1>8 DEF Come
<1> QED BY <1>9 DEF j

(* Until it is at the root it has come through one directory more with      *)
(* every step; before it has come through more than there are it is there.  *)
LEMMA ClimbsHome ==
  ASSUME Fine(Now), ~full, Ip(Now) \in Dir, NEW end, NEW R, ClimbWay(end, R)
  PROVE  end.at = root
<1> DEFINE n == Climbs
           Up1(k) == /\ Fine(R[k]) /\ ~R[k].full /\ Ip(R[k]) \in Dir
                     /\ R[k].at # root => \E V : Come(Ip(R[k]), k, V)
           Bad == {k \in 0..n : ~Up1(k)}
<1>1. n \in Nat /\ n >= Cardinality(Ino) /\ Cardinality(Ino) \in Nat
  <2>1. Cardinality(Ino) \in Nat BY Sizes, FS_CardinalityType
  <2>2. \A a, b \in Nat : a > 0 => a * b \in Nat /\ a * b >= b
    <3> SUFFICES ASSUME NEW a \in Nat, NEW b \in Nat, a > 0 PROVE a * b \in Nat /\ a * b >= b OBVIOUS
    <3>1. a * b = (a - 1) * b + b OBVIOUS
    <3>2. a - 1 \in Nat OBVIOUS
    <3>3. \A c \in Nat : c * b \in Nat OBVIOUS
    <3>4. (a - 1) * b \in Nat BY <3>2, <3>3
    <3> QED BY <3>1, <3>4
  <2> QED BY <2>1, <2>2, Sizes DEF Climbs
<1>2. /\ R[0] = Now /\ R[n] = end
      /\ \A k \in 0..n : R[k] \in Reach(minodes)
      /\ \A k \in 1..n : R[k] = Higher(R[k-1])
  BY DEF ClimbWay
<1> HIDE DEF n
<1>3. \A k \in 0..n : Fine(R[k]) BY <1>2, ReachFine
<1>4. Up1(0)
  <2>1. ~Now.full BY DEF Now
  <2>2. ASSUME Now.at # root PROVE Come(Ip(Now), 0, {Ip(Now)})
    <3>1. Ip(Now) # ROOT_INODE BY <2>1, <2>2, OneUp
    <3>2. Cardinality({Ip(Now)}) = 1 BY FS_Singleton
    <3> QED BY <3>1, <3>2 DEF Come
  <2> QED BY <1>2, <2>1, <2>2
<1>5. ASSUME NEW k \in 1..n, Up1(k-1) PROVE Up1(k)
  <2> DEFINE x == R[k-1]
  <2>1. R[k] = Higher(x) /\ k-1 \in Nat /\ (k-1) + 1 = k BY <1>1, <1>2
  <2>2. Fine(x) /\ ~x.full /\ Ip(x) \in Dir BY <1>5
  <2>3. x.at # root => \E V : Come(Ip(x), k-1, V) BY <1>5
  <2>4. CASE x.at = root
    <3>1. R[k] = x BY <2>1, <2>4 DEF Higher
    <3> QED BY <2>2, <2>4, <3>1
  <2>5. CASE x.at # root
    <3>1. PICK V : Come(Ip(x), k-1, V) BY <2>3, <2>5
    <3> HIDE DEF x
    <3>2. Fine(R[k]) /\ ~R[k].full /\ Ip(R[k]) = Parent(Ip(x)) BY <2>1, <2>2, <2>5, OneUp
    <3>3. Ip(R[k]) \in Dir BY <2>2, <3>2, Upward
    <3>4. ASSUME R[k].at # root PROVE \E W : Come(Ip(R[k]), k, W)
      <4>1. Ip(R[k]) # ROOT_INODE BY <3>2, <3>3, <3>4, OneUp
      <4>2. \E W : Come(Parent(Ip(x)), (k-1) + 1, W) BY <2>1, <3>1, <3>2, <4>1, ComeOn
      <4> QED BY <2>1, <3>2, <4>2
    <3> QED BY <3>2, <3>3, <3>4
  <2> QED BY <2>4, <2>5
<1> HIDE DEF Up1
<1>6. Bad = {}
  <2> SUFFICES ASSUME Bad # {} PROVE FALSE OBVIOUS
  <2>1. Bad \in SUBSET Nat BY <1>1
  <2>2. Min(Bad) \in Bad /\ \A y \in Bad : Min(Bad) <= y BY <2>1, LeastNat
  <2>3. PICK k \in Bad : \A y \in Bad : k <= y BY <2>2
  <2>4. k \in 0..n /\ ~Up1(k) OBVIOUS
  <2>5. k \in 1..n /\ k-1 \in 0..n /\ ~(k <= k-1) BY <1>1, <1>4, <2>4
  <2>6. Up1(k-1) BY <2>3, <2>5
  <2> QED BY <1>5, <2>4, <2>5, <2>6
<1>7. n \in 0..n BY <1>1
<1>8. Up1(n) BY <1>6, <1>7
<1> SUFFICES ASSUME end.at # root PROVE FALSE OBVIOUS
<1>9. PICK V : Come(Ip(end), n, V) BY <1>2, <1>8 DEF Up1
<1>10. V \subseteq Ino /\ Cardinality(V) = n + 1 BY <1>9 DEF Come, Dir
<1>11. Cardinality(V) <= Cardinality(Ino) BY <1>10, Sizes, FS_Subset
<1> QED BY <1>1, <1>10, <1>11

(* pwd comes to the root's slot and returns, as long as get_minode has      *)
(* found a slot for every inode: it was in the directory above before.      *)
LEMMA MountReturns == MountInv => PwdReturns
<1> SUFFICES ASSUME MountInv, ~full, minodes[cwd].ip \in Dir PROVE Climbed.at = root
  BY DEF PwdReturns
<1>1. Fine(Now) /\ Ip(Now) \in Dir BY DEF MountInv, Now, Ip
<1>2. PICK R : ClimbWay(Climbed, R) BY <1>1, ClimbedWay
<1> QED BY <1>1, <1>2, ClimbsHome

(* So pwd ends, however deep the directory and whatever was listed before, *)
(* as long as every inode had its slot.                                    *)
THEOREM PwdComesBack == Spec => []PwdReturns
BY MountStep, InitMount, MountReturns, PTL DEF Spec

-----------------------------------------------------------------------------
(* What Walk promises.  Its words for the same things.                      *)
LEMMA SameWords ==
  /\ Promise!Ino = Ino /\ Promise!NoIno = NoIno /\ Promise!Dir = Dir
  /\ \A i : Promise!Entries(i) = Entries(i)
<1>1. Promise!Ino = Ino BY DEF Promise!Ino, Ino
<1>2. Promise!NoIno = NoIno BY DEF Promise!NoIno, NoIno
<1>3. Promise!Dir = Dir BY <1>1 DEF Promise!Dir, Dir
<1>4. \A i : Promise!Entries(i) = Entries(i)
  BY DEF Promise!Entries, Entries, FlattenSeq, Promise!FlattenSeq
<1> QED BY <1>1, <1>2, <1>3, <1>4

(* The first entry of that name.                                            *)
Named(i, n) == {k \in 1..Len(Entries(i)) : Entries(i)[k].name = n}
(* It is what the name leads to in Walk.                                   *)
LEMMA ChildIs ==
  ASSUME NEW i \in Ino, NEW n
  PROVE  /\ Promise!Child(i, n) = IF Named(i, n) = {} THEN NoIno ELSE Entries(i)[Min(Named(i, n))].inode
         /\ Promise!Child(i, n) \in Held
<1> DEFINE es == Entries(i)
           I == {k \in 1..Len(es) : es[k].name = n}
           k == IF I # {} THEN Min(I) ELSE 0
<1>1. \A T : Promise!Min(T) = Min(T) BY DEF Promise!Min, Min
<1>2. Promise!SelectInSeq(es, LAMBDA e : e.name = n) = k
  BY <1>1 DEF Promise!SelectInSeq
<1>3. Promise!Child(i, n) = IF k = 0 THEN NoIno ELSE es[k].inode
  <2> HIDE DEF k
  <2> QED BY <1>2, SameWords DEF Promise!Child
<1>4. es \in Seq(Entry) BY EntriesType
<1> HIDE DEF es
<1>5. I \in SUBSET (1..Len(es)) /\ I \in SUBSET Nat BY <1>4
<1>6. I = Named(i, n) BY DEF Named, es
<1> HIDE DEF I
<1>7. CASE I = {} BY <1>3, <1>6, <1>7 DEF Held
<1>8. CASE I # {}
  <2>1. Min(I) \in I BY <1>5, <1>8, LeastNat
  <2>4. \A j \in I : j \in 1..Len(es) /\ j # 0 BY <1>4, <1>5
  <2>5. k = Min(I) BY <1>8
  <2> HIDE DEF k
  <2>2. k = Min(I) /\ k \in 1..Len(es) /\ k # 0 BY <2>1, <2>4, <2>5
  <2>3. es[k] \in Entry BY <1>4, <2>2
  <2> QED BY <1>3, <1>6, <1>8, <2>2, <2>3 DEF Held, Entry, es
<1> QED BY <1>7, <1>8

(* search, unless it took another name for the one asked.                   *)
LEMMA SearchTrue ==
  ASSUME NEW st, Fine(st), NEW n
  PROVE  /\ Search(st, n).out = st.out /\ Search(st, n).full = st.full /\ Search(st, n).m = st.m
         /\ st.wrong => Search(st, n).wrong
         /\ ~Search(st, n).wrong => Search(st, n).ino = Promise!Child(Ip(st), n)
<1> DEFINE i == Ip(st)
           es == Entries(i)
           I == {j \in 1..Len(es) : <<es[j].name, n>> \in Begins}
           k == SelectInSeq(es, LAMBDA e : <<e.name, n>> \in Begins)
           ino == IF k = 0 THEN NoIno ELSE es[k].inode
           wrong == st.wrong \/ (k # 0 /\ es[k].name # n)
           r == [st EXCEPT !.ino = ino, !.wrong = wrong]
<1>1. st \in State /\ i \in Ino /\ es \in Seq(Entry) BY IpType, EntriesType
<1>2. Search(st, n) = r BY DEF Search
<1>3. k = IF I # {} THEN Min(I) ELSE 0 BY DEF SelectInSeq
<1>4. \A j \in 1..Len(es) : <<es[j].name, es[j].name>> \in Begins
  <2> SUFFICES ASSUME NEW j \in 1..Len(es) PROVE <<es[j].name, es[j].name>> \in Begins OBVIOUS
  <2> HIDE DEF es
  <2>1. es[j] \in ToSet(es) BY <1>1, InSequence
  <2>2. \A e \in ToSet(es) : <<e.name, e.name>> \in Begins BY <1>1 DEF es, Entries, Ino
  <2> QED BY <2>1, <2>2
<1> HIDE DEF k
<1>5. ASSUME ~wrong PROVE ino = Promise!Child(i, n)
  <2> DEFINE N == {j \in 1..Len(es) : es[j].name = n}
  <2>1. N \subseteq I BY <1>4
  <2>2. N = Named(i, n) BY DEF Named
  <2> HIDE DEF es
  <2>3. I \in SUBSET Nat /\ N \in SUBSET Nat /\ \A j \in I : j \in 1..Len(es) /\ j # 0 BY <1>1
  <2>4. CASE I = {}
    <3>1. k = 0 /\ N = {} BY <1>3, <2>1, <2>4
    <3> QED BY <1>1, <2>2, <3>1, ChildIs
  <2>5. CASE I # {}
    <3>1. k \in I /\ \A j \in I : k <= j BY <1>3, <2>3, <2>5, LeastNat
    <3>2. k # 0 /\ es[k].name = n /\ k \in 1..Len(es) BY <1>5, <2>3, <3>1
    <3>3. k \in N BY <3>2
    <3> HIDE DEF I, N
    <3>4. Min(N) \in N /\ Min(N) <= k BY <2>3, <3>3, LeastNat
    <3>5. k <= Min(N) /\ Min(N) \in Nat /\ k \in Nat BY <2>1, <2>3, <3>1, <3>3, <3>4
    <3>6. Min(N) = k BY <3>4, <3>5
    <3>7. Promise!Child(i, n) = es[k].inode BY <1>1, <2>2, <3>3, <3>6, ChildIs DEF es
    <3> QED BY <3>2, <3>7
  <2> QED BY <2>4, <2>5
<1> HIDE DEF ino, wrong
<1>6. /\ r.out = st.out /\ r.full = st.full /\ r.m = st.m
      /\ r.ino = ino /\ r.wrong = wrong
  BY <1>1 DEF State
<1>7. st.wrong => wrong BY DEF wrong
<1> HIDE DEF r
<1> QED BY <1>2, <1>5, <1>6, <1>7

(* get_minode, unless it found no slot.                                     *)
LEMMA GetTrue ==
  ASSUME NEW st, Fine(st), NEW i \in Ino, Near(st.m, i)
  PROVE  LET r == GetMinode(st, i)
         IN /\ r.out = st.out /\ r.wrong = st.wrong /\ r.ino = st.ino
            /\ st.full => r.full
            /\ ~r.full => Ip(r) = i
<1> DEFINE hit == Hit(st.m, i)
           free == Unused(st.m)
           s == Min(IF hit # {} THEN hit ELSE free \cup {NMINODE})
           seen == st.met \cup {i}
           over == st.full \/ (hit = {} /\ free = {})
           e == [ino |-> IF free = {} THEN st.m[s].ino ELSE i, ip |-> i]
           m2 == IF hit # {} THEN st.m ELSE [st.m EXCEPT ![s] = e]
           r == GetMinode(st, i)
<1>1. st \in State /\ st.m \in Tables BY DEF Fine, State
<1>2. r = [st EXCEPT !.at = s, !.met = seen, !.full = over, !.m = m2] BY DEF GetMinode
<1>3. Fine(r) BY GetFine
<1> HIDE DEF r
<1>4. r.at = s /\ r.full = over /\ r.m = m2 /\ r.out = st.out /\ r.wrong = st.wrong /\ r.ino = st.ino
  <2> HIDE DEF s, seen, over, m2
  <2> QED BY <1>1, <1>2 DEF State
<1>5. st.full => r.full BY <1>4
<1>6. ASSUME ~r.full PROVE Ip(r) = i
  <2>1. s \in Slot
    <3>1. r \in State BY <1>3 DEF Fine
    <3> QED BY <1>4, <3>1 DEF State
  <2>2. CASE hit # {}
    <3>1. hit \in SUBSET Nat BY Sizes DEF Hit
    <3>2. s = Min(hit) BY <2>2
    <3>3. s \in hit BY <2>2, <3>1, <3>2, LeastNat
    <3>4. r.m = st.m /\ r.at \in Slot /\ r.m[r.at].ino = i BY <1>4, <2>2, <3>3 DEF Hit
    <3>5. r.m[r.at].ip = r.m[r.at].ino BY <1>3, <1>6, <3>4 DEF Fine, Rooted
    <3> QED BY <3>4, <3>5 DEF Ip
  <2>3. CASE hit = {}
    <3> HIDE DEF s
    <3>1. m2 = [st.m EXCEPT ![s] = e] BY <2>3
    <3>2. m2[s] = e BY <1>1, <2>1, <3>1 DEF Tables
    <3>3. e.ip = i OBVIOUS
    <3> QED BY <1>4, <3>2, <3>3 DEF Ip
  <2> QED BY <2>2, <2>3
<1> QED BY <1>4, <1>5, <1>6 DEF r

(* A function that goes on like a fold.                                     *)
LEMMA GoesOn ==
  ASSUME NEW n \in Nat, NEW X, NEW A, NEW F \in [X \X A -> X], NEW base \in X, NEW seq \in [1..n -> A]
  PROVE  \E end, R : Way(n, X, F, base, seq, end, R)
<1>1. PICK g : Folds(n, X, F, base, seq, g) BY FoldFun
<1>2. Steps(n, X, F, base, seq, g)
  <2>1. /\ g \in [SUBSET (1..n) -> X]
        /\ \A s \in SUBSET (1..n) :
             g[s] = IF s = {} THEN base ELSE F[<<g[s \ {Max(s)}], seq[Max(s)]>>]
    BY <1>1 DEF Folds
  <2> QED BY <2>1 DEF Steps
<1>3. \E R : Way(n, X, F, base, seq, g[1..n], R) BY <1>2, FoldWay
<1> QED BY <1>3

(* Walk's way along a path.                                                 *)
Child1(i, n) == IF i = NoIno THEN NoIno ELSE Promise!Child(i, n)
TargetIs(start, names, end, T) ==
  /\ T[0] = start /\ T[Len(names)] = end
  /\ \A k \in 1..Len(names) : T[k] = Child1(T[k-1], names[k])
(* There is such a way to the target.                                      *)
LEMMA TargetWay ==
  ASSUME NEW start \in Held, NEW names \in Seq(STRING)
  PROVE  \E T : TargetIs(start, names, Promise!Target(start, names), T)
<1> DEFINE n == Len(names)
           F == [y \in Held \X STRING |-> Child1(y[1], y[2])]
           h == CHOOSE to : to = [k \in 0..n |-> IF k = 0 THEN start
                                    ELSE IF to[k-1] = NoIno THEN NoIno
                                         ELSE Promise!Child(to[k-1], names[k])]
<1>1. n \in Nat /\ names \in [1..n -> STRING] OBVIOUS
<1>2. \A i \in Held, a \in STRING : Child1(i, a) \in Held BY ChildIs DEF Child1, Held
<1>3. F \in [Held \X STRING -> Held] BY <1>2
<1>4. \A i \in Held, a \in STRING : F[<<i, a>>] = Child1(i, a) OBVIOUS
<1>9. Promise!Target(start, names) = h[n] BY SameWords DEF Promise!Target
<1> HIDE DEF F, n
<1>5. PICK end, R : Way(n, Held, F, start, names, end, R) BY <1>1, <1>3, GoesOn
<1>6. R \in [0..n -> Held] /\ R[0] = start /\ \A k \in 1..n : R[k] = F[<<R[k-1], names[k]>>]
  BY <1>5 DEF Way
<1>7. ASSUME NEW k \in 0..n
      PROVE  R[k] = IF k = 0 THEN start
                    ELSE IF R[k-1] = NoIno THEN NoIno ELSE Promise!Child(R[k-1], names[k])
  <2>1. CASE k = 0 BY <1>6, <2>1
  <2>2. CASE k # 0
    <3>1. k \in 1..n /\ k-1 \in 0..n BY <1>1, <2>2
    <3>2. R[k] = Child1(R[k-1], names[k]) BY <1>1, <1>4, <1>6, <3>1
    <3> QED BY <2>2, <3>2 DEF Child1
  <2> QED BY <2>1, <2>2
<1>8. R = [k \in 0..n |-> IF k = 0 THEN start
                          ELSE IF R[k-1] = NoIno THEN NoIno ELSE Promise!Child(R[k-1], names[k])]
  BY <1>6, <1>7
<1>10. h = [k \in 0..n |-> IF k = 0 THEN start
                           ELSE IF h[k-1] = NoIno THEN NoIno ELSE Promise!Child(h[k-1], names[k])]
  BY <1>8
<1> HIDE DEF h
<1>11. h[0] = start
  <2>1. 0 \in 0..n BY <1>1
  <2> QED BY <1>10, <2>1
<1>12. ASSUME NEW k \in 1..n PROVE h[k] = Child1(h[k-1], names[k])
  <2>1. k \in 0..n /\ k # 0 BY <1>1
  <2> QED BY <1>10, <2>1 DEF Child1
<1>13. TargetIs(start, names, h[n], h) BY <1>11, <1>12 DEF TargetIs, n
<1> QED BY <1>9, <1>13

(* ls as Walk has it: entry by entry.                                       *)
Listed1(s, e) == IF e.name \in {".", ".."} THEN s ELSE Append(s, e.inode)
ListingIs(es, end, G) ==
  /\ G[0] = <<>> /\ G[Len(es)] = end
  /\ \A k \in 1..Len(es) : G[k] = Listed1(G[k-1], es[k])
(* There is such a way to the listing.                                     *)
LEMMA ListingWay ==
  ASSUME NEW i \in Dir
  PROVE  \E G : ListingIs(Entries(i), Promise!Listing(i), G)
<1> DEFINE es == Entries(i)
           n == Len(es)
           X == Seq(Ino)
           F == [y \in X \X Entry |-> Listed1(y[1], y[2])]
           h == CHOOSE upto : upto = [k \in 0..n |-> IF k = 0 THEN <<>>
                                    ELSE IF es[k].name \in {".", ".."} THEN upto[k-1]
                                         ELSE Append(upto[k-1], es[k].inode)]
<1>9. Promise!Listing(i) = h[n] BY SameWords DEF Promise!Listing
<1>0. es \in Seq(Entry) BY Upward, EntriesType
<1> HIDE DEF es
<1>1. n \in Nat /\ es \in [1..n -> Entry] /\ <<>> \in X BY <1>0
<1>2. \A s \in X, e \in Entry : Listed1(s, e) \in X
  <2> SUFFICES ASSUME NEW s \in X, NEW e \in Entry PROVE Listed1(s, e) \in X OBVIOUS
  <2>1. e.inode \in Ino BY DEF Entry
  <2> QED BY <2>1 DEF Listed1
<1> HIDE DEF X
<1>3. F \in [X \X Entry -> X] BY <1>2
<1>4. \A s \in X, e \in Entry : F[<<s, e>>] = Listed1(s, e) OBVIOUS
<1> HIDE DEF F, n
<1>5. PICK end, R : Way(n, X, F, <<>>, es, end, R) BY <1>1, <1>3, GoesOn
<1>6. R \in [0..n -> X] /\ R[0] = <<>> /\ \A k \in 1..n : R[k] = F[<<R[k-1], es[k]>>]
  BY <1>5 DEF Way
<1>7. ASSUME NEW k \in 0..n
      PROVE  R[k] = IF k = 0 THEN <<>>
                    ELSE IF es[k].name \in {".", ".."} THEN R[k-1] ELSE Append(R[k-1], es[k].inode)
  <2>1. CASE k = 0 BY <1>6, <2>1
  <2>2. CASE k # 0
    <3>1. k \in 1..n /\ k-1 \in 0..n BY <1>1, <2>2
    <3>2. R[k] = Listed1(R[k-1], es[k]) BY <1>1, <1>4, <1>6, <3>1
    <3> QED BY <2>2, <3>2 DEF Listed1
  <2> QED BY <2>1, <2>2
<1>8. R = [k \in 0..n |-> IF k = 0 THEN <<>>
                          ELSE IF es[k].name \in {".", ".."} THEN R[k-1] ELSE Append(R[k-1], es[k].inode)]
  BY <1>6, <1>7
<1>10. h = [k \in 0..n |-> IF k = 0 THEN <<>>
                           ELSE IF es[k].name \in {".", ".."} THEN h[k-1] ELSE Append(h[k-1], es[k].inode)]
  BY <1>8
<1> HIDE DEF h
<1>11. h[0] = <<>>
  <2>1. 0 \in 0..n BY <1>1
  <2> QED BY <1>10, <2>1
<1>12. ASSUME NEW k \in 1..n PROVE h[k] = Listed1(h[k-1], es[k])
  <2>1. k \in 0..n /\ k # 0 BY <1>1
  <2> QED BY <1>10, <2>1 DEF Listed1
<1>13. ListingIs(es, h[n], h) BY <1>11, <1>12 DEF ListingIs, n
<1> QED BY <1>9, <1>13 DEF es

(* A path leads where Walk's does, unless there was no slot for an inode or *)
(* a name was taken for another.                                            *)
PathStart(p) == IF p.abs THEN ROOT_INODE ELSE minodes[cwd].ip
(* What get_inode_number returns is the target from there.                 *)
LEMMA PathTrue ==
  ASSUME Fine(Now), NEW p \in Paths, NEW st, st = GetInodeNumber(p)
  PROVE  /\ st.out = <<>> /\ (full => st.full)
         /\ ~st.full /\ ~st.wrong => st.ino = Promise!Target(PathStart(p), p.names)
<1> DEFINE s == IF p.abs THEN root ELSE cwd
           st0 == [Now EXCEPT !.at = s]
           st1 == Search(st0, Head(p.names))
           ns == p.names
           rest == Tail(ns)
<1>1. ns \in Seq(STRING) /\ ns # <<>> OBVIOUS
<1>2. /\ rest \in Seq(STRING) /\ Len(ns) = Len(rest) + 1 /\ Len(rest) \in Nat /\ Head(ns) = ns[1]
      /\ \A k \in 1..Len(rest) : rest[k] = ns[k + 1]
  <2> HIDE DEF ns
  <2>1. \A u \in Seq(STRING) : u # <<>> =>
          /\ Tail(u) \in Seq(STRING) /\ Len(u) = Len(Tail(u)) + 1 /\ Len(Tail(u)) \in Nat
          /\ Head(u) = u[1] /\ \A k \in 1..Len(Tail(u)) : Tail(u)[k] = u[k + 1]
    OBVIOUS
  <2> QED BY <1>1, <2>1
<1>3. s \in {root, cwd} OBVIOUS
<1>4. Fine(st0) /\ st0.m = minodes BY <1>3, StartFine
<1>5. st0.at = s /\ st0.out = <<>> /\ st0.full = full
  <2>1. Now \in State BY DEF Fine
  <2> QED BY <2>1 DEF State, Now
<1>6. ASSUME ~full PROVE Ip(st0) = PathStart(p)
  <2>1. CASE p.abs
    <3>1. minodes[root].ino = ROOT_INODE /\ minodes[root].ip = minodes[root].ino
      BY <1>4, <1>5, <1>6, Sizes DEF Fine, Table, Rooted
    <3> QED BY <1>4, <1>5, <2>1, <3>1 DEF Ip, PathStart
  <2>2. CASE ~p.abs BY <1>4, <1>5, <2>2 DEF Ip, PathStart
  <2> QED BY <2>1, <2>2
<1> DEFINE start == PathStart(p)
<1>7. start \in Ino
  <2>1. CASE p.abs BY <2>1, Sizes DEF PathStart
  <2>2. CASE ~p.abs
    <3>1. Ip(st0) \in Ino BY <1>4, IpType
    <3> QED BY <1>4, <1>5, <2>2, <3>1 DEF Ip, PathStart
  <2> QED BY <2>1, <2>2
<1> HIDE DEF st0, start, s
<1>8. /\ st1.out = <<>> /\ st1.full = full
      /\ ~st1.wrong => st1.ino = Promise!Child(Ip(st0), Head(ns))
  BY <1>4, <1>5, SearchTrue
<1>9. Fine(st1) BY <1>4, SearchFine
<1>10. GetInodeNumber(p) = FoldLeft(LAMBDA x, n : IF x.ino = NoIno THEN x
                                      ELSE Search(GetMinode(x, x.ino), n), st1, rest)
  BY DEF GetInodeNumber, st0, s
<1> HIDE DEF st1
<1>11. PICK R : /\ LookWay(st1, rest, R)
                /\ FoldLeft(LAMBDA x, n : IF x.ino = NoIno THEN x
                                      ELSE Search(GetMinode(x, x.ino), n), st1, rest) = R[Len(rest)]
  BY <1>2, <1>9, LookupWay
<1>12. st = R[Len(rest)] BY <1>10, <1>11
<1>21. LookWay(st1, rest, R) BY <1>11
<1>13. start \in Held BY <1>7 DEF Held
<1>14. PICK T : TargetIs(start, ns, Promise!Target(start, ns), T) BY <1>1, <1>13, TargetWay
<1> HIDE DEF ns, rest
<1> DEFINE n == Len(rest)
           True(k) == /\ R[k].out = <<>> /\ (full => R[k].full)
                      /\ ~R[k].full /\ ~R[k].wrong => R[k].ino = T[k + 1]
           Bad == {k \in 0..n : ~True(k)}
<1>15. True(0)
  <2>1. R[0] = st1 BY <1>21 DEF LookWay
  <2>2. 1 \in 1..Len(ns) /\ 1 - 1 = 0 /\ 0 + 1 = 1 BY <1>2
  <2>3. T[1] = Child1(T[0], ns[1]) /\ T[0] = start BY <1>14, <2>2 DEF TargetIs
  <2>4. start # NoIno BY <1>7, Sizes
  <2>5. T[1] = Promise!Child(start, Head(ns)) BY <1>2, <2>3, <2>4 DEF Child1
  <2> QED BY <1>6, <1>8, <2>1, <2>2, <2>5 DEF start
<1>16. ASSUME NEW k \in 1..n, True(k-1) PROVE True(k)
  <2> DEFINE x == R[k-1]
             get == GetMinode(x, x.ino)
             y == Search(get, rest[k])
  <2>1. R[k] = Look(x, rest[k]) /\ k-1 \in 0..n /\ (k-1)+1 = k BY <1>2, <1>21 DEF LookWay
  <2>2. x \in Reach(st1.m) BY <1>11, <2>1 DEF LookWay
  <2>3. Fine(x) BY <2>2, ReachFine
  <2>4. x.out = <<>> /\ (full => x.full) /\ (~x.full /\ ~x.wrong => x.ino = T[k]) BY <1>16, <2>1
  <2>5. k+1 \in 1..Len(ns) /\ (k+1)-1 = k /\ rest[k] = ns[k+1] BY <1>2
  <2>6. T[k+1] = Child1(T[k], rest[k]) BY <1>14, <2>5 DEF TargetIs
  <2> HIDE DEF x
  <2>7. CASE x.ino = NoIno
    <3>1. R[k] = x BY <2>1, <2>7 DEF Look
    <3>2. T[k] = NoIno => T[k+1] = NoIno BY <2>6 DEF Child1
    <3> QED BY <2>4, <2>7, <3>1, <3>2
  <2>8. CASE x.ino # NoIno
    <3>1. x.ino \in Ino /\ Near(x.m, x.ino) BY <2>3, <2>8 DEF Fine, State, Held
    <3>2. Fine(get) BY <2>3, <3>1, GetFine
    <3>3. /\ get.out = x.out /\ get.wrong = x.wrong /\ (x.full => get.full)
          /\ ~get.full => Ip(get) = x.ino
      BY <2>3, <3>1, GetTrue
    <3> HIDE DEF get
    <3>4. /\ y.out = get.out /\ y.full = get.full /\ (get.wrong => y.wrong)
          /\ ~y.wrong => y.ino = Promise!Child(Ip(get), rest[k])
      BY <3>2, SearchTrue
    <3> HIDE DEF y
    <3>5. R[k] = y BY <2>1, <2>8 DEF Look, y, get
    <3>6. ASSUME ~y.full, ~y.wrong PROVE y.ino = T[k+1]
      <4>1. ~get.full /\ ~x.full /\ ~x.wrong BY <3>3, <3>4, <3>6
      <4>2. x.ino = T[k] /\ Ip(get) = x.ino BY <2>4, <3>3, <4>1
      <4>3. T[k+1] = Promise!Child(x.ino, rest[k]) BY <2>6, <2>8, <4>2 DEF Child1
      <4> QED BY <3>4, <3>6, <4>2, <4>3
    <3> QED BY <2>4, <3>3, <3>4, <3>5, <3>6
  <2> QED BY <2>7, <2>8
<1> HIDE DEF True
<1>17. n \in Nat /\ n \in 0..n BY <1>2
<1>18. Bad = {}
  <2> SUFFICES ASSUME Bad # {} PROVE FALSE OBVIOUS
  <2>1. Bad \in SUBSET Nat BY <1>17
  <2>2. Min(Bad) \in Bad /\ \A y \in Bad : Min(Bad) <= y BY <2>1, LeastNat
  <2>3. PICK k \in Bad : \A y \in Bad : k <= y BY <2>2
  <2>4. k \in 0..n /\ ~True(k) OBVIOUS
  <2>5. k \in 1..n /\ k-1 \in 0..n /\ ~(k <= k-1) BY <1>15, <1>17, <2>4
  <2>6. True(k-1) BY <2>3, <2>5
  <2> QED BY <1>16, <2>4, <2>5, <2>6
<1>19. True(n) BY <1>17, <1>18
<1>20. T[n + 1] = Promise!Target(start, ns) BY <1>2, <1>14 DEF TargetIs
<1> QED BY <1>12, <1>19, <1>20 DEF True, start, ns

(* Once there was no slot there never is.                                   *)
LEMMA BlockFull ==
  ASSUME NEW base, Fine(base), NEW es \in Seq(Close(base.m)), base.full
  PROVE  LsBlock(base, es).full
<1>1. PICK R : ListWay(base, es, R) /\ LsBlock(base, es) = R[Len(es)] BY LsBlockWay
<1> DEFINE n == Len(es)
           Bad == {k \in 0..n : ~R[k].full}
<1>2. n \in Nat /\ n \in 0..n /\ \A k \in 1..n : es[k] \in Close(base.m) OBVIOUS
<1>4. ASSUME NEW k \in 1..n, R[k-1].full PROVE R[k].full
  <2> DEFINE x == R[k-1]
             a == es[k]
             y == GetMinode(x, a.inode)
             r == [y EXCEPT !.out = Append(y.out, Ip(y))]
  <2>1. R[k] = Listed(x, a) /\ k-1 \in 0..n BY <1>1, <1>2 DEF ListWay
  <2>2. x \in Reach(base.m) BY <1>1, <2>1 DEF ListWay
  <2>3. Fine(x) /\ x.full /\ a \in Close(base.m) BY <1>2, <1>4, <2>2, ReachFine
  <2> HIDE DEF x, a
  <2>8. CASE a.name \in {".", ".."} BY <2>1, <2>3, <2>8 DEF Listed
  <2>9. CASE a.name \notin {".", ".."}
    <3>0. base.m \in Tables BY DEF Fine, State
    <3>1. a.inode \in Ino /\ Near(x.m, a.inode) BY <2>2, <2>3, <3>0, ReachNear DEF Entry, Close
    <3>2. Fine(y) /\ y.full BY <2>3, <3>1, GetFine, GetTrue
    <3> HIDE DEF y
    <3>6. y \in State BY <3>2, IpType
    <3>4. r.full = y.full BY <3>6 DEF State
    <3>5. R[k] = r BY <2>1, <2>9 DEF Listed, y
    <3> HIDE DEF r
    <3> QED BY <3>2, <3>4, <3>5
  <2> QED BY <2>8, <2>9
<1>18. Bad = {}
  <2> SUFFICES ASSUME Bad # {} PROVE FALSE OBVIOUS
  <2>1. Bad \in SUBSET Nat BY <1>2
  <2>2. Min(Bad) \in Bad /\ \A y \in Bad : Min(Bad) <= y BY <2>1, LeastNat
  <2>3. PICK k \in Bad : \A y \in Bad : k <= y BY <2>2
  <2>4. k \in 0..n /\ ~R[k].full /\ R[0] = base BY <1>1 DEF ListWay
  <2>5. k \in 1..n /\ k-1 \in 0..n /\ ~(k <= k-1) BY <1>2, <2>4
  <2>6. R[k-1].full BY <2>3, <2>5
  <2> QED BY <1>4, <2>4, <2>5, <2>6
<1> QED BY <1>1, <1>2, <1>18

(* The entries of a block, listed after those before.                       *)
LEMMA BlockTrue ==
  ASSUME NEW base, Fine(base), NEW es \in Seq(Close(base.m)), NEW all \in Seq(Entry),
         NEW G, NEW end, ListingIs(all, end, G), NEW o \in Nat, o + Len(es) <= Len(all),
         \A j \in 1..Len(es) : all[o + j] = es[j],
         ~base.full => base.out = G[o]
  PROVE  ~LsBlock(base, es).full => LsBlock(base, es).out = G[o + Len(es)]
<1>1. PICK R : ListWay(base, es, R) /\ LsBlock(base, es) = R[Len(es)] BY LsBlockWay
<1> DEFINE n == Len(es)
           True(k) == ~R[k].full => R[k].out = G[o + k]
           Bad == {k \in 0..n : ~True(k)}
<1>2. n \in Nat /\ n \in 0..n /\ \A k \in 1..n : es[k] \in Close(base.m) OBVIOUS
<1>3. True(0)
  <2>1. R[0] = base /\ o + 0 = o BY <1>1 DEF ListWay
  <2> QED BY <2>1
<1>4. ASSUME NEW k \in 1..n, True(k-1) PROVE True(k)
  <2> DEFINE x == R[k-1]
             a == es[k]
             y == GetMinode(x, a.inode)
             r == [y EXCEPT !.out = Append(y.out, Ip(y))]
  <2>1. R[k] = Listed(x, a) /\ k-1 \in 0..n BY <1>1, <1>2 DEF ListWay
  <2>2. x \in Reach(base.m) BY <1>1, <2>1 DEF ListWay
  <2>3. Fine(x) /\ x \in State BY <2>2, ReachFine DEF Reach
  <2>4. ~x.full => x.out = G[o + (k-1)] BY <1>4
  <2>5. o + k \in 1..Len(all) /\ (o + k) - 1 = o + (k-1) /\ all[o + k] = a BY <1>2
  <2>6. G[o + k] = Listed1(G[o + (k-1)], a) BY <2>5 DEF ListingIs
  <2>7. a \in Close(base.m) BY <1>2
  <2> HIDE DEF x, a
  <2>8. CASE a.name \in {".", ".."} BY <2>1, <2>4, <2>6, <2>8 DEF Listed, Listed1
  <2>9. CASE a.name \notin {".", ".."}
    <3>0. base.m \in Tables BY DEF Fine, State
    <3>1. a.inode \in Ino /\ Near(x.m, a.inode) BY <2>2, <2>7, <3>0, ReachNear DEF Entry, Close
    <3>2. Fine(y) BY <2>3, <3>1, GetFine
    <3>3. y.out = x.out /\ (x.full => y.full) /\ (~y.full => Ip(y) = a.inode) BY <2>3, <3>1, GetTrue
    <3> HIDE DEF y
    <3>4. r.full = y.full /\ r.out = Append(y.out, Ip(y)) BY <3>2, IpType DEF State
    <3>5. R[k] = r BY <2>1, <2>9 DEF Listed, y
    <3> HIDE DEF r
    <3>6. G[o + k] = Append(G[o + (k-1)], a.inode) BY <2>6, <2>9 DEF Listed1
    <3> QED BY <2>4, <3>3, <3>4, <3>5, <3>6
  <2> QED BY <2>8, <2>9
<1> HIDE DEF True
<1>18. Bad = {}
  <2> SUFFICES ASSUME Bad # {} PROVE FALSE OBVIOUS
  <2>1. Bad \in SUBSET Nat BY <1>2
  <2>2. Min(Bad) \in Bad /\ \A y \in Bad : Min(Bad) <= y BY <2>1, LeastNat
  <2>3. PICK k \in Bad : \A y \in Bad : k <= y BY <2>2
  <2>4. k \in 0..n /\ ~True(k) OBVIOUS
  <2>5. k \in 1..n /\ k-1 \in 0..n /\ ~(k <= k-1) BY <1>3, <1>2, <2>4
  <2>6. True(k-1) BY <2>3, <2>5
  <2> QED BY <1>4, <2>4, <2>5, <2>6
<1>19. True(n) BY <1>2, <1>18
<1> QED BY <1>1, <1>19 DEF True

(* What was flattened first stays in front.                                 *)
LEMMA InFront ==
  ASSUME NEW E, NEW ss \in Seq(Seq(E)), NEW J, Joined(ss, E, J), NEW k \in 0..Len(ss)
  PROVE  /\ J[k] \in Seq(E) /\ Len(J[k]) <= Len(J[Len(ss)])
         /\ \A j \in 1..Len(J[k]) : J[Len(ss)][j] = J[k][j]
<1> DEFINE n == Len(ss)
           Begin(c) == /\ Len(J[c]) <= Len(J[n])
                       /\ \A j \in 1..Len(J[c]) : J[n][j] = J[c][j]
           Bad == {c \in 0..n : ~Begin(c)}
<1>1. n \in Nat /\ \A c \in 0..n : J[c] \in Seq(E) /\ Len(J[c]) \in Nat
  <2>3. n \in Nat OBVIOUS
  <2>4. J \in [0..n -> Seq(E)] BY DEF Joined
  <2> HIDE DEF n
  <2>1. n \in Nat /\ \A c \in 0..n : J[c] \in Seq(E) BY <2>3, <2>4
  <2>2. \A u \in Seq(E) : Len(u) \in Nat OBVIOUS
  <2> QED BY <2>1, <2>2
<1>2. Begin(n) BY <1>1
<1>3. ASSUME NEW c \in 0..n, c # n, Begin(c + 1) PROVE Begin(c)
  <2>1. c + 1 \in 1..n /\ c + 1 \in 0..n /\ (c + 1) - 1 = c BY <1>1, <1>3
  <2>2. J[c + 1] = J[c] \o ss[c + 1] BY <2>1 DEF Joined
  <2>3. ss[c + 1] \in Seq(E) /\ J[c] \in Seq(E) BY <1>1, <2>1
  <2> HIDE DEF n
  <2>4. \A u, v \in Seq(E) : Len(u) <= Len(u \o v) /\ \A j \in 1..Len(u) : (u \o v)[j] = u[j] OBVIOUS
  <2>11. /\ Len(J[c]) <= Len(J[c] \o ss[c + 1])
         /\ \A j \in 1..Len(J[c]) : (J[c] \o ss[c + 1])[j] = J[c][j]
    BY <2>3, <2>4
  <2>5. Len(J[c]) <= Len(J[c+1]) /\ \A j \in 1..Len(J[c]) : J[c+1][j] = J[c][j] BY <2>2, <2>11
  <2>6. Len(J[c]) \in Nat /\ Len(J[c+1]) \in Nat /\ Len(J[n]) \in Nat
    <3>1. n \in 0..n BY <1>1
    <3> QED BY <1>1, <2>1, <3>1
  <2>7. Len(J[c+1]) <= Len(J[n]) /\ \A j \in 1..Len(J[c+1]) : J[n][j] = J[c+1][j] BY <1>3
  <2>8. \A j \in 1..Len(J[c]) : j \in 1..Len(J[c+1]) BY <2>5, <2>6
  <2>9. \A j \in 1..Len(J[c]) : J[n][j] = J[c][j] BY <2>5, <2>7, <2>8
  <2>10. Len(J[c]) <= Len(J[n]) BY <2>5, <2>6, <2>7
  <2> QED BY <2>9, <2>10
<1> HIDE DEF Begin
<1>4. Bad = {}
  <2> SUFFICES ASSUME Bad # {} PROVE FALSE OBVIOUS
  <2>1. Bad \in SUBSET Nat /\ \A x \in Bad : x <= n BY <1>1
  <2>2. Max(Bad) \in Bad /\ \A y \in Bad : y <= Max(Bad) BY <1>1, <2>1, GreatestNat
  <2>3. PICK c \in Bad : \A y \in Bad : y <= c BY <2>2
  <2>4. c \in 0..n /\ ~Begin(c) OBVIOUS
  <2>5. c # n BY <1>2, <2>4
  <2>6. c + 1 \in 0..n /\ ~(c + 1 <= c) BY <1>1, <2>4, <2>5
  <2>7. Begin(c + 1) BY <2>3, <2>6
  <2> QED BY <1>3, <2>4, <2>5, <2>7
<1>5. Begin(k) /\ J[k] \in Seq(E) BY <1>1, <1>4
<1> QED BY <1>5 DEF Begin

(* ls of a directory lists what is in it, all blocks, unless there was no   *)
(* slot for an inode.                                                       *)
LEMMA LsDirTrue ==
  ASSUME NEW base, Fine(base), base.out = <<>>, NEW i, i = Ip(base), i \in Dir
  PROVE  /\ base.full => LsDir(base).full
         /\ ~LsDir(base).full => LsDir(base).out = Promise!Listing(i)
<1> DEFINE es == Entries(i)
           ss == Image[i]
           n == Len(ss)
           b == base.at
<1>1. PICK R : DirWay(base, LsDir(base), R) BY LsDirWay
<1>2. i \in Ino /\ es \in Seq(Entry) /\ ss \in Seq(Seq(Entry)) BY Upward, EntriesType
<1>3. n \in Nat /\ Longest \in Nat /\ n <= Longest BY <1>2, NoLonger
<1>4. PICK G : ListingIs(es, Promise!Listing(i), G) BY ListingWay
<1>5. PICK J : Joined(ss, Entry, J) /\ FlattenSeq(ss) = J[Len(ss)] BY <1>2, FlattenWay
<1>6. es = J[n] BY <1>5 DEF Entries
<1>7. /\ J[0] = <<>> /\ G[0] = <<>> /\ G[Len(es)] = Promise!Listing(i)
      /\ \A k \in 1..n : J[k] = J[k-1] \o ss[k]
  BY <1>4, <1>5 DEF Joined, ListingIs
<1>8. \A k \in 0..n : J[k] \in Seq(Entry) /\ Len(J[k]) <= Len(J[n])
                      /\ \A j \in 1..Len(J[k]) : J[n][j] = J[k][j]
  BY <1>2, <1>5, InFront
<1>9. /\ R[0] = base /\ R[Longest] = LsDir(base)
      /\ \A k \in 0..Longest : R[k] \in Reach(base.m)
      /\ \A k \in 1..Longest : R[k] = Paged(base, R[k-1], k)
  BY <1>1 DEF DirWay
<1>10. /\ b \in Slot /\ base.m[b].ino # NoIno /\ Rooted(base.m, base.full) /\ i = base.m[b].ip
  BY DEF Fine, State, Ip
<1> HIDE DEF es, n, ss, b
<1> DEFINE True(k) == /\ base.full => R[k].full
                      /\ ~R[k].full => R[k].out = G[Len(J[IF k <= n THEN k ELSE n])]
           Bad == {k \in 0..Longest : ~True(k)}
<1>11. True(0)
  <2>1. 0 <= n /\ Len(<<>>) = 0 BY <1>3
  <2> QED BY <1>7, <1>9, <2>1
<1>12. ASSUME NEW k \in 1..Longest, True(k-1) PROVE True(k)
  <2> DEFINE x == R[k-1]
             i2 == x.m[b].ip
             es2 == Image[i2][k]
  <2>11. R[k] = Paged(base, x, k) BY <1>9
  <2>12. k-1 \in 0..Longest BY <1>3
  <2>1. k-1 \in 0..Longest /\ R[k] = Paged(base, x, k) BY <2>11, <2>12
  <2>2. x \in Reach(base.m) BY <1>9, <2>1
  <2>3. Fine(x) /\ Kept(base.m, x.m) BY <2>2, ReachFine
  <2>4. (base.full => x.full) /\ (~x.full => x.out = G[Len(J[IF k-1 <= n THEN k-1 ELSE n])]) BY <1>12
  <2> HIDE DEF x
  <2>5. x.m[b].ino = base.m[b].ino /\ x.m[b].ino # NoIno BY <1>10, <2>3 DEF Kept
  <2>6. i2 \in Ino BY <1>10, <2>3, <2>5 DEF Fine, Table
  <2>7. Image[i2] \in Seq(Seq(Entry)) BY <2>6, EntriesType
  <2>8. ~x.full => i2 = i
    <3> SUFFICES ASSUME ~x.full PROVE i2 = i OBVIOUS
    <3>1. Rooted(x.m, x.full) BY <2>3 DEF Fine
    <3>2. i2 = x.m[b].ino BY <1>10, <3>1 DEF Rooted
    <3>3. i = base.m[b].ino BY <1>10, <2>4 DEF Rooted
    <3> QED BY <2>5, <3>2, <3>3
  <2> HIDE DEF i2
  <2>9. CASE k > Len(Image[i2])
    <3>1. R[k] = x BY <2>1, <2>9 DEF Paged, b, i2
    <3>2. ASSUME ~x.full PROVE x.out = G[Len(J[IF k <= n THEN k ELSE n])]
      <4>1. k > n BY <2>8, <2>9, <3>2 DEF n, ss
      <4>2. ~(k <= n) /\ (k - 1 <= n => k - 1 = n) BY <1>3, <4>1
      <4> QED BY <2>4, <3>2, <4>2
    <3> QED BY <2>4, <3>1, <3>2
  <2>10. CASE ~(k > Len(Image[i2]))
    <3>0. k \in 1..Len(Image[i2])
      <4>1. Len(Image[i2]) \in Nat BY <2>7
      <4> QED BY <2>10, <4>1
    <3>1. es2 \in Seq(Entry) BY <2>7, <3>0
    <3>2. R[k] = LsBlock(x, es2) BY <2>1, <2>10 DEF Paged, b, i2
    <3>3. es2 \in Seq(Close(x.m))
      <4>1. ASSUME NEW j \in 1..Len(es2) PROVE es2[j] \in Close(x.m)
        <5>1. es2[j] \in ToSet(Entries(i2)) BY <2>7, <3>0, FlattenedAll DEF Entries
        <5>2. /\ x.m \in Tables /\ x.full \in BOOLEAN /\ Table(x.m) /\ Rooted(x.m, x.full)
          BY <2>3 DEF Fine, State
        <5>3. Near(x.m, es2[j].inode) BY <1>10, <2>5, <5>1, <5>2, EntryNear DEF i2
        <5> HIDE DEF es2
        <5>4. es2[j] \in Entry BY <3>1
        <5> QED BY <5>3, <5>4 DEF Close
      <4> HIDE DEF es2
      <4> QED BY <3>1, <4>1, InSmaller
    <3> DEFINE o == Len(J[k-1])
    <3>4. CASE x.full
      <4>1. LsBlock(x, es2).full
        <5> HIDE DEF es2
        <5> QED BY <2>3, <3>3, <3>4, BlockFull
      <4> QED BY <3>2, <3>4, <4>1
    <3>5. CASE ~x.full
      <4>1. i2 = i /\ k \in 1..n /\ k <= n /\ k-1 \in 0..n /\ k-1 <= n /\ k \in 0..n
        BY <1>3, <2>8, <3>0, <3>5 DEF n, ss
      <4>2. es2 = ss[k] BY <4>1 DEF ss
      <4>3. x.out = G[o] BY <2>4, <3>5, <4>1
      <4>4. J[k] = J[k-1] \o es2 /\ J[k-1] \in Seq(Entry) /\ J[k] \in Seq(Entry)
            /\ Len(J[k]) <= Len(es) /\ \A j \in 1..Len(J[k]) : es[j] = J[k][j]
        BY <1>6, <1>7, <1>8, <4>1, <4>2
      <4> HIDE DEF es2
      <4>5. o \in Nat /\ Len(J[k]) = o + Len(es2) /\ \A j \in 1..Len(es2) : J[k][o + j] = es2[j]
        BY <3>1, <4>4
      <4>6. \A j \in 1..Len(es2) : o + j \in 1..Len(J[k])
        <5>1. Len(es2) \in Nat BY <3>1
        <5> QED BY <4>5, <5>1
      <4>7. \A j \in 1..Len(es2) : es[o + j] = es2[j] BY <4>4, <4>5, <4>6
      <4>8. o + Len(es2) <= Len(es) BY <4>4, <4>5
      <4> HIDE DEF o
      <4>9. ~LsBlock(x, es2).full => LsBlock(x, es2).out = G[o + Len(es2)]
        BY <1>2, <1>4, <2>3, <3>3, <4>3, <4>5, <4>7, <4>8, BlockTrue DEF es
      <4> QED BY <2>4, <3>2, <3>5, <4>1, <4>5, <4>9
    <3> QED BY <3>4, <3>5
  <2> QED BY <2>9, <2>10
<1> HIDE DEF True
<1>18. Bad = {}
  <2> SUFFICES ASSUME Bad # {} PROVE FALSE OBVIOUS
  <2>1. Bad \in SUBSET Nat BY <1>3
  <2>2. Min(Bad) \in Bad /\ \A y \in Bad : Min(Bad) <= y BY <2>1, LeastNat
  <2>3. PICK k \in Bad : \A y \in Bad : k <= y BY <2>2
  <2>4. k \in 0..Longest /\ ~True(k) OBVIOUS
  <2>5. k \in 1..Longest /\ k-1 \in 0..Longest /\ ~(k <= k-1) BY <1>11, <1>3, <2>4
  <2>6. True(k-1) BY <2>3, <2>5
  <2> QED BY <1>12, <2>4, <2>5, <2>6
<1>19. True(Longest)
  <2>1. Longest \in 0..Longest BY <1>3
  <2> QED BY <1>18, <2>1
<1>20. (IF Longest <= n THEN Longest ELSE n) = n BY <1>3
<1> QED BY <1>6, <1>7, <1>9, <1>19, <1>20 DEF True

(* The entries of a directory begin with . and ..                           *)
LEMMA DotsFirst ==
  ASSUME NEW i \in Dir
  PROVE  Promise!Parent(i) = Parent(i)
<1> DEFINE ss == Image[i]
           es == Entries(i)
           first == Image[i][1]
           N == Named(i, "..")
<1>1. i \in Ino /\ ss # <<>> /\ ss \in Seq(Seq(Entry)) /\ es \in Seq(Entry) BY Upward, EntriesType
<1>2. first[1].name = "." /\ first[2].name = ".."
  <2>1. \A d \in Dir : Image[d][1][1] = [name |-> ".", inode |-> d] /\ Image[d][1][2].name = ".."
    BY TreeAssumption
  <2>2. Image[i][1][1] = [name |-> ".", inode |-> i] /\ Image[i][1][2].name = ".." BY <2>1
  <2> QED BY <2>2
<1>3. Len(first) >= 2 BY <1>1 DEF Ino
<1>4. 1 \in 1..Len(ss) /\ 1 \in 0..Len(ss) /\ 0 \in 0..Len(ss) /\ 1 - 1 = 0 BY <1>1
<1>5. PICK J : Joined(ss, Entry, J) /\ FlattenSeq(ss) = J[Len(ss)] BY <1>1, FlattenWay
<1>6. J[1] = first
  <2>1. J[1] = J[0] \o first /\ J[0] = <<>> BY <1>4, <1>5 DEF Joined
  <2>2. first \in Seq(Entry) BY <1>1, <1>4
  <2>3. \A u \in Seq(Entry) : <<>> \o u = u OBVIOUS
  <2> QED BY <2>1, <2>2, <2>3
<1>7. /\ Len(J[1]) <= Len(J[Len(ss)])
      /\ \A j \in 1..Len(J[1]) : J[Len(ss)][j] = J[1][j]
  BY <1>1, <1>4, <1>5, InFront
<1>8. first \in Seq(Entry) BY <1>1, <1>4
<1>9. Len(first) <= Len(es) /\ \A j \in 1..Len(first) : es[j] = first[j]
  BY <1>5, <1>6, <1>7 DEF Entries
<1> HIDE DEF es, first, ss
<1>10. Len(first) \in Nat /\ Len(es) \in Nat BY <1>1, <1>8
<1>11. 1 \in 1..Len(first) /\ 2 \in 1..Len(first) /\ 2 \in 1..Len(es) BY <1>3, <1>9, <1>10
<1>12. es[1].name # ".." /\ es[2].name = ".." /\ es[2] = first[2] BY <1>2, <1>9, <1>11
<1>13. 2 \in N /\ 1 \notin N /\ N \in SUBSET Nat /\ \A k \in N : k >= 1
  BY <1>11, <1>12 DEF Named, es
<1> HIDE DEF N
<1>14. Min(N) \in N /\ Min(N) <= 2 BY <1>13, LeastNat
<1>15. Min(N) = 2
  <2>1. Min(N) \in Nat /\ Min(N) # 1 /\ Min(N) >= 1 BY <1>13, <1>14
  <2> QED BY <1>14, <2>1
<1>16. Promise!Child(i, "..") = es[2].inode BY <1>1, <1>13, <1>15, ChildIs DEF N, es
<1> QED BY <1>12, <1>16 DEF Promise!Parent, Parent, first

(* The way up from the directories of U, which has the way of each in it.   *)
WayStep(f, i) == IF i = ROOT_INODE THEN <<>> ELSE Append(f[Parent(i)], i)
Grown(U, f) ==
  /\ U \in SUBSET Dir /\ ROOT_INODE \in U /\ \A i \in U : Parent(i) \in U
  /\ f \in [U -> Seq(Ino)] /\ \A i \in U : f[i] = WayStep(f, i)

(* The largest such set is all of them: a tree has one more to add.        *)
LEMMA GrownAll == \E f : Grown(Dir, f)
<1> DEFINE Has(c) == \E U, f : Grown(U, f) /\ Cardinality(U) = c
           T == {c \in Nat : Has(c)}
<1>1. \A U \in SUBSET Dir : /\ IsFiniteSet(U) /\ Cardinality(U) \in Nat
                            /\ Cardinality(U) <= Cardinality(Ino)
  <2> SUFFICES ASSUME NEW U \in SUBSET Dir
               PROVE  /\ IsFiniteSet(U) /\ Cardinality(U) \in Nat
                      /\ Cardinality(U) <= Cardinality(Ino)
    OBVIOUS
  <2>1. U \subseteq Ino BY DEF Dir
  <2>2. IsFiniteSet(U) /\ Cardinality(U) <= Cardinality(Ino) BY <2>1, Sizes, FS_Subset
  <2> QED BY <2>2, FS_CardinalityType
<1>2. Cardinality(Ino) \in Nat BY Sizes, FS_CardinalityType
<1>3. \A U, f : Grown(U, f) => Cardinality(U) \in T BY <1>1 DEF Grown
<1>4. T # {}
  <2> DEFINE U == {ROOT_INODE}
             f == [i \in U |-> <<>>]
  <2>1. \A i \in U : i = ROOT_INODE OBVIOUS
  <2>2. U \in SUBSET Dir /\ ROOT_INODE \in U /\ \A i \in U : Parent(i) \in U BY Upward
  <2>3. f \in [U -> Seq(Ino)] /\ \A i \in U : f[i] = <<>> OBVIOUS
  <2> HIDE DEF f, U
  <2>4. Grown(U, f) BY <2>1, <2>2, <2>3 DEF Grown, WayStep
  <2> QED BY <1>3, <2>4
<1>5. \A c \in T : c <= Cardinality(Ino) BY <1>1 DEF Grown
<1> HIDE DEF Has
<1>6. Max(T) \in T /\ \A c \in T : c <= Max(T) BY <1>2, <1>4, <1>5, GreatestNat
<1>7. PICK c \in T : \A d \in T : d <= c BY <1>6
<1>8. PICK U, f : Grown(U, f) /\ Cardinality(U) = c BY <1>7 DEF Has
<1>9. /\ U \in SUBSET Dir /\ ROOT_INODE \in U /\ \A i \in U : Parent(i) \in U
      /\ f \in [U -> Seq(Ino)] /\ \A i \in U : f[i] = WayStep(f, i)
  BY <1>8 DEF Grown
<1>10. U = Dir
  <2> SUFFICES ASSUME U # Dir PROVE FALSE OBVIOUS
  <2> DEFINE s == Dir \ U
  <2>1. s \in SUBSET (Dir \ {ROOT_INODE}) /\ s # {} BY <1>9
  <2>2. PICK i \in s : Parent(i) \notin s BY <2>1, TreeAssumption
  <2>3. i \in Dir /\ i \notin U /\ i # ROOT_INODE /\ Parent(i) \in U /\ i \in Ino
    BY <1>9, <2>2, Upward
  <2> DEFINE U2 == U \cup {i}
             f2 == [j \in U2 |-> IF j = i THEN Append(f[Parent(i)], i) ELSE f[j]]
  <2>4. U2 \in SUBSET Dir /\ ROOT_INODE \in U2 /\ \A j \in U2 : Parent(j) \in U2 BY <1>9, <2>3
  <2>5. Append(f[Parent(i)], i) \in Seq(Ino)
    <3>1. f[Parent(i)] \in Seq(Ino) BY <1>9, <2>3
    <3> QED BY <2>3, <3>1
  <2>6. f2 \in [U2 -> Seq(Ino)] BY <1>9, <2>5
  <2>7. f2[i] = Append(f[Parent(i)], i) OBVIOUS
  <2>8. \A j \in U : f2[j] = f[j] BY <2>3
  <2> HIDE DEF f2
  <2>9. f2[i] = WayStep(f2, i) BY <2>3, <2>7, <2>8 DEF WayStep
  <2>10. ASSUME NEW j \in U PROVE f2[j] = WayStep(f2, j)
    <3>1. f[j] = WayStep(f, j) /\ Parent(j) \in U BY <1>9
    <3>2. f2[Parent(j)] = f[Parent(j)] /\ f2[j] = f[j] BY <2>8, <3>1
    <3> QED BY <3>1, <3>2 DEF WayStep
  <2>11. Grown(U2, f2) BY <2>4, <2>6, <2>9, <2>10 DEF Grown
  <2>12. Cardinality(U2) = c + 1 BY <1>1, <1>8, <1>9, <2>3, FS_AddElement
  <2>13. c + 1 \in T BY <1>3, <2>11, <2>12
  <2>14. c \in Nat /\ ~(c + 1 <= c) OBVIOUS
  <2> QED BY <1>7, <2>13, <2>14
<1> QED BY <1>8, <1>10

(* Walk's way up exists, and is what its definition says.                   *)
LEMMA WayUpIs ==
  /\ Promise!WayUp \in [Dir -> Seq(Ino)]
  /\ \A i \in Dir : Promise!WayUp[i] = WayStep(Promise!WayUp, i)
<1>1. PICK f : Grown(Dir, f) BY GrownAll
<1>2. f \in [Dir -> Seq(Ino)] /\ \A i \in Dir : f[i] = WayStep(f, i) BY <1>1 DEF Grown
<1> DEFINE h == CHOOSE w : w = [i \in Dir |-> IF i = ROOT_INODE THEN <<>>
                                              ELSE Append(w[Promise!Parent(i)], i)]
<1>3. f = [i \in Dir |-> IF i = ROOT_INODE THEN <<>> ELSE Append(f[Promise!Parent(i)], i)]
  BY <1>2, DotsFirst DEF WayStep
<1>4. h = [i \in Dir |-> IF i = ROOT_INODE THEN <<>> ELSE Append(h[Promise!Parent(i)], i)]
  BY <1>3
<1>5. Promise!WayUp = h BY SameWords DEF Promise!WayUp
<1> HIDE DEF h
<1>6. \A i \in Dir : h[i] = WayStep(h, i) BY <1>4, DotsFirst DEF WayStep
<1> DEFINE Bad == {i \in Dir : h[i] # f[i]}
<1>7. Bad = {}
  <2> SUFFICES ASSUME Bad # {} PROVE FALSE OBVIOUS
  <2>1. ROOT_INODE \notin Bad BY <1>2, <1>6, Upward DEF WayStep
  <2>2. Bad \in SUBSET (Dir \ {ROOT_INODE}) BY <2>1
  <2>3. PICK i \in Bad : Parent(i) \notin Bad BY <2>2, TreeAssumption
  <2>4. i \in Dir /\ Parent(i) \in Dir /\ h[i] # f[i] BY Upward
  <2>5. h[Parent(i)] = f[Parent(i)] BY <2>3, <2>4
  <2>6. WayStep(h, i) = WayStep(f, i) BY <2>5 DEF WayStep
  <2> QED BY <1>2, <1>6, <2>4, <2>6
<1>8. \A i \in Dir : h[i] = f[i] BY <1>7
<1>9. h = f BY <1>2, <1>4, <1>8
<1> QED BY <1>2, <1>5, <1>9

(* A directory before the way down from it.                                 *)
LEMMA Before ==
  ASSUME NEW E, NEW u \in Seq(E), NEW e \in E, NEW v \in Seq(E)
  PROVE  u \o (<<e>> \o v) = Append(u, e) \o v
<1> DEFINE a == u \o (<<e>> \o v)
           b == Append(u, e) \o v
<1>1. a \in Seq(E) /\ b \in Seq(E) /\ Len(a) = Len(b) OBVIOUS
<1>2. \A k \in 1..Len(a) : a[k] = b[k] OBVIOUS
<1>5. \A t \in Seq(E) : t \in [1..Len(t) -> E] OBVIOUS
<1> HIDE DEF a, b
<1>4. a \in [1..Len(a) -> E] /\ b \in [1..Len(a) -> E] BY <1>1, <1>5
<1>3. a = b BY <1>2, <1>4
<1> QED BY <1>3 DEF a, b

(* pwd names the directories of the way up.                                 *)
LEMMA ClimbTrue ==
  ASSUME Fine(Now), ~full, Ip(Now) \in Dir
  PROVE  ~Climbed.full /\ Climbed.out = Promise!WayUp[Ip(Now)]
<1>1. PICK R : ClimbWay(Climbed, R) BY ClimbedWay
<1>2. Climbed.at = root BY <1>1, ClimbsHome
<1> DEFINE n == Climbs
           W == Promise!WayUp
           i0 == Ip(Now)
           True(k) == /\ Fine(R[k]) /\ ~R[k].full /\ Ip(R[k]) \in Dir /\ R[k].out \in Seq(Ino)
                      /\ W[i0] = W[Ip(R[k])] \o R[k].out
           Bad == {k \in 0..n : ~True(k)}
<1>3. n \in Nat /\ n \in 0..n
  <2>1. Cardinality(Ino) \in Nat BY Sizes, FS_CardinalityType
  <2>2. n \in Nat BY <2>1, Sizes DEF Climbs
  <2> QED BY <2>2
<1>4. R[0] = Now /\ R[n] = Climbed /\ \A k \in 1..n : R[k] = Higher(R[k-1]) BY <1>1 DEF ClimbWay
<1>5. \A i \in Dir : W[i] \in Seq(Ino) /\ W[i] = WayStep(W, i) /\ i \in Ino BY WayUpIs, Upward
<1> HIDE DEF n, W
<1>6. True(0)
  <2>1. Now.out = <<>> /\ Now.full = full /\ <<>> \in Seq(Ino) BY DEF Now
  <2>2. W[i0] \in Seq(Ino) BY <1>5
  <2>3. \A u \in Seq(Ino) : u \o <<>> = u OBVIOUS
  <2> QED BY <1>4, <2>1, <2>2, <2>3
<1>7. ASSUME NEW k \in 1..n, True(k-1) PROVE True(k)
  <2> DEFINE x == R[k-1]
             i == Ip(x)
             j == Parent(i)
  <2>1. R[k] = Higher(x) BY <1>4
  <2>2. Fine(x) /\ ~x.full /\ i \in Dir /\ x.out \in Seq(Ino) /\ W[i0] = W[i] \o x.out BY <1>7
  <2> HIDE DEF x
  <2>3. CASE x.at = root
    <3>1. R[k] = x BY <2>1, <2>3 DEF Higher
    <3> QED BY <2>2, <3>1
  <2>4. CASE x.at # root
    <3>1. /\ Fine(R[k]) /\ ~R[k].full /\ i # ROOT_INODE /\ Ip(R[k]) = j
          /\ R[k].out = <<i>> \o x.out
      BY <2>1, <2>2, <2>4, OneUp
    <3>2. j \in Dir BY <2>2, Upward
    <3>3. W[i] = Append(W[j], i) BY <1>5, <2>2, <3>1 DEF WayStep
    <3>4. W[j] \in Seq(Ino) /\ i \in Ino BY <1>5, <2>2, <3>2
    <3> HIDE DEF i, j
    <3>7. x.out \in Seq(Ino) BY <2>2
    <3>8. W[j] \o (<<i>> \o x.out) = Append(W[j], i) \o x.out
      <4> DEFINE u == W[j]
                 v == x.out
      <4>1. u \in Seq(Ino) /\ v \in Seq(Ino) BY <3>4, <3>7
      <4> HIDE DEF u, v
      <4>2. u \o (<<i>> \o v) = Append(u, i) \o v BY <3>4, <4>1, Before
      <4> QED BY <4>2 DEF u, v
    <3>5. W[j] \o (<<i>> \o x.out) = W[i] \o x.out BY <3>3, <3>8
    <3>6. <<i>> \o x.out \in Seq(Ino) BY <2>2, <3>4
    <3> QED BY <2>2, <3>1, <3>2, <3>5, <3>6
  <2> QED BY <2>3, <2>4
<1> HIDE DEF True
<1>8. Bad = {}
  <2> SUFFICES ASSUME Bad # {} PROVE FALSE OBVIOUS
  <2>1. Bad \in SUBSET Nat BY <1>3
  <2>2. Min(Bad) \in Bad /\ \A y \in Bad : Min(Bad) <= y BY <2>1, LeastNat
  <2>3. PICK k \in Bad : \A y \in Bad : k <= y BY <2>2
  <2>4. k \in 0..n /\ ~True(k) OBVIOUS
  <2>5. k \in 1..n /\ k-1 \in 0..n /\ ~(k <= k-1) BY <1>3, <1>6, <2>4
  <2>6. True(k-1) BY <2>3, <2>5
  <2> QED BY <1>7, <2>4, <2>5, <2>6
<1>9. True(n) BY <1>3, <1>8
<1>10. /\ Fine(Climbed) /\ ~Climbed.full /\ Climbed.out \in Seq(Ino)
       /\ W[i0] = W[Ip(Climbed)] \o Climbed.out
  BY <1>4, <1>9 DEF True
<1>11. Ip(Climbed) = ROOT_INODE
  <2>1. Climbed.m[root].ino = ROOT_INODE BY <1>10 DEF Fine, Table
  <2>2. Climbed.m[root].ip = Climbed.m[root].ino BY <1>10, Sizes DEF Fine, Rooted
  <2> QED BY <1>2, <2>1, <2>2 DEF Ip
<1>12. W[ROOT_INODE] = <<>> BY <1>5, Upward DEF WayStep
<1>13. \A u \in Seq(Ino) : <<>> \o u = u OBVIOUS
<1>14. W[i0] = Climbed.out BY <1>10, <1>11, <1>12, <1>13
<1> QED BY <1>10, <1>14 DEF W, i0

(* Once there was no slot there never is.                                   *)
LEMMA ClimbedFull ==
  ASSUME Fine(Now), full
  PROVE  Climbed.full
<1>1. PICK R : ClimbWay(Climbed, R) BY ClimbedWay
<1> DEFINE n == Climbs
           Bad == {k \in 0..n : ~R[k].full}
<1>3. n \in Nat /\ n \in 0..n
  <2>1. Cardinality(Ino) \in Nat BY Sizes, FS_CardinalityType
  <2>2. n \in Nat BY <2>1, Sizes DEF Climbs
  <2> QED BY <2>2
<1>4. /\ R[0] = Now /\ R[n] = Climbed /\ \A k \in 1..n : R[k] = Higher(R[k-1])
      /\ \A k \in 0..n : R[k] \in Reach(minodes)
  BY <1>1 DEF ClimbWay
<1> HIDE DEF n
<1>5. R[0].full BY <1>4 DEF Now
<1>6. ASSUME NEW k \in 1..n, R[k-1].full PROVE R[k].full
  <2> DEFINE x == R[k-1]
             up == GetMinode(x, Parent(Ip(x)))
             v == IF \E e \in ToSet(Entries(Ip(up))) : e.inode = Ip(x) THEN Ip(x) ELSE NoIno
             r == [up EXCEPT !.out = <<v>> \o up.out]
  <2>1. R[k] = Higher(x) BY <1>4
  <2>2. k-1 \in 0..n BY <1>3
  <2>3. x \in Reach(minodes) BY <1>4, <2>2
  <2>4. Fine(x) /\ x.full BY <1>6, <2>3, ReachFine
  <2> HIDE DEF x
  <2>5. CASE x.at = root \/ Ip(x) \notin Dir BY <2>1, <2>4, <2>5 DEF Higher
  <2>6. CASE ~(x.at = root \/ Ip(x) \notin Dir)
    <3>1. Parent(Ip(x)) \in Ino /\ Near(x.m, Parent(Ip(x))) BY <2>4, <2>6, ParentNear
    <3>2. up.full BY <2>4, <3>1, GetTrue
    <3>3. Fine(up) BY <2>4, <3>1, GetFine
    <3>4. Up(x) = r BY DEF Up
    <3> HIDE DEF up, v
    <3>5. up \in State BY <3>3, IpType
    <3>6. r.full = up.full BY <3>5 DEF State
    <3> HIDE DEF r
    <3> QED BY <2>1, <2>6, <3>2, <3>4, <3>6 DEF Higher
  <2> QED BY <2>5, <2>6
<1>8. Bad = {}
  <2> SUFFICES ASSUME Bad # {} PROVE FALSE OBVIOUS
  <2>1. Bad \in SUBSET Nat BY <1>3
  <2>2. Min(Bad) \in Bad /\ \A y \in Bad : Min(Bad) <= y BY <2>1, LeastNat
  <2>3. PICK k \in Bad : \A y \in Bad : k <= y BY <2>2
  <2>4. k \in 0..n /\ ~R[k].full OBVIOUS
  <2>5. k \in 1..n /\ k-1 \in 0..n /\ ~(k <= k-1) BY <1>3, <1>5, <2>4
  <2>6. R[k-1].full BY <2>3, <2>5
  <2> QED BY <1>6, <2>4, <2>5, <2>6
<1> QED BY <1>3, <1>4, <1>8

(* What the user sees of a state, in Walk's variables.                      *)
Here == IF full \/ astray THEN Lost ELSE minodes[cwd].ip
Seen == IF full \/ doubt THEN Lost ELSE shown

(* A command that leaves the table full leaves nothing that can be relied   *)
(* on, and Walk may always be lost.                                         *)
LEMMA LostStep ==
  ASSUME full'
  PROVE  Promise!Next
<1>1. Here' = Lost /\ Seen' = Lost BY DEF Here, Seen
<1>2. Promise!Cd(ROOT_INODE) BY <1>1 DEF Promise!Cd, Here, Seen
<1> QED BY <1>2 DEF Promise!Next

(* The current directory is what it was, as long as there was a slot.       *)
LEMMA HereStays ==
  ASSUME Fine(Now), NEW st, Fine(st), Kept(minodes, st.m), Set(st), ~st.full, ~full, cwd' = cwd
  PROVE  minodes'[cwd'].ip = minodes[cwd].ip
<1>1. /\ minodes' = st.m /\ Rooted(st.m, st.full) /\ Rooted(minodes, full)
      /\ cwd \in Slot /\ minodes[cwd].ino # NoIno
  BY DEF Set, Fine, State, Now
<1>2. st.m[cwd].ip = st.m[cwd].ino /\ minodes[cwd].ip = minodes[cwd].ino BY <1>1 DEF Rooted
<1>3. st.m[cwd].ino = minodes[cwd].ino BY <1>1 DEF Kept
<1> QED BY <1>1, <1>2, <1>3

(* Where one is, is an inode of the image, so not lost.                     *)
LEMMA HereType ==
  ASSUME Fine(Now)
  PROVE  minodes[cwd].ip \in Ino /\ minodes[cwd].ip # Lost
<1>1. Ip(Now) \in Ino BY IpType
<1> QED BY <1>1 DEF Ip, Now, Ino

(* A path that names a known place.                                         *)
LEMMA Known ==
  ASSUME Fine(Now), ~full, NEW p \in Paths, ~(astray /\ ~p.abs)
  PROVE  Promise!Known(p) /\ Promise!From(p) = PathStart(p)
<1>1. ~p.abs => Here = minodes[cwd].ip /\ Here # Lost BY HereType DEF Here
<1> QED BY <1>1 DEF Promise!Known, Promise!From, PathStart, Here

(* cd.                                                                      *)
LEMMA CdWalks ==
  ASSUME MountInv, NEW p \in Paths, Cd(p)
  PROVE  Promise!Next \/ (Here' = Here /\ Seen' = Seen)
<1>0. Fine(Now) BY DEF MountInv
<1> DEFINE st == GetInodeNumber(p)
<1>1. Fine(st) /\ Kept(minodes, st.m) BY <1>0, PathFine
<1>2. CdTo(p, st) BY DEF Cd
<1>3. /\ full => st.full
      /\ ~st.full /\ ~st.wrong => st.ino = Promise!Target(PathStart(p), p.names)
  BY <1>0, PathTrue
<1> HIDE DEF st
<1> SUFFICES ASSUME ~full' PROVE Promise!Next \/ (Here' = Here /\ Seen' = Seen) BY LostStep
<1>4. CASE st.ino = NoIno /\ Set(st) /\ UNCHANGED <<cwd, shown, astray, doubt>>
  <2>1. ~st.full /\ ~full BY <1>3, <1>4 DEF Set
  <2>2. minodes'[cwd'].ip = minodes[cwd].ip BY <1>0, <1>1, <1>4, <2>1, HereStays
  <2> QED BY <1>4, <2>1, <2>2 DEF Here, Seen
<1>5. CASE /\ st.ino # NoIno
           /\ \E to \in {GetMinode(st, st.ino)} : Set(to) /\ cwd' = to.at
           /\ astray' = (st.wrong \/ (astray /\ ~p.abs))
           /\ UNCHANGED <<shown, doubt>>
  <2> DEFINE to == GetMinode(st, st.ino)
  <2>1. Set(to) /\ cwd' = to.at BY <1>5
  <2>2. st.ino \in Ino /\ Near(st.m, st.ino) BY <1>1, <1>5 DEF Fine, State, Held
  <2>3. (st.full => to.full) /\ (~to.full => Ip(to) = st.ino) BY <1>1, <2>2, GetTrue
  <2> HIDE DEF to
  <2>4. ~to.full /\ ~st.full /\ ~full BY <1>3, <2>1, <2>3 DEF Set
  <2>5. Seen' = Seen BY <1>5, <2>4 DEF Seen
  <2>6. CASE astray'
    <3>1. Here' = Lost BY <2>6 DEF Here
    <3>2. Promise!Cd(ROOT_INODE) BY <2>5, <3>1 DEF Promise!Cd, Here, Seen
    <3> QED BY <3>2 DEF Promise!Next
  <2>7. CASE ~astray'
    <3>1. ~st.wrong /\ ~(astray /\ ~p.abs) BY <1>5, <2>7
    <3>2. Promise!Known(p) /\ Promise!From(p) = PathStart(p) BY <1>0, <2>4, <3>1, Known
    <3> DEFINE t == Promise!Target(Promise!From(p), p.names)
    <3>3. st.ino = t BY <1>3, <2>4, <3>1, <3>2
    <3>4. Here' = t
      <4>1. minodes'[cwd'].ip = t BY <2>1, <2>3, <2>4, <3>3 DEF Set, Ip
      <4> QED BY <2>7, <4>1 DEF Here
    <3> HIDE DEF t
    <3>5. Promise!Cd(t) BY <2>5, <3>4 DEF Promise!Cd, Here, Seen
    <3>6. t # Promise!NoIno BY <1>5, <3>3, SameWords
    <3> QED BY <3>2, <3>5, <3>6 DEF Promise!Next, t
  <2> QED BY <2>6, <2>7
<1> QED BY <1>2, <1>4, <1>5 DEF CdTo

(* cd without an argument.                                                  *)
LEMMA CdRootWalks ==
  ASSUME MountInv, CdRoot
  PROVE  Promise!Next
<1> SUFFICES ASSUME ~full' PROVE Promise!Next BY LostStep
<1>1. Fine(Now) /\ ~full /\ cwd' = root /\ astray' = FALSE /\ UNCHANGED <<minodes, shown, doubt, full>>
  BY DEF MountInv, CdRoot
<1>2. minodes[root].ip = ROOT_INODE
  <2>1. Table(minodes) /\ Rooted(minodes, full) BY <1>1 DEF Fine, Now
  <2> QED BY <1>1, <2>1, Sizes DEF Table, Rooted
<1>3. Here' = ROOT_INODE /\ Seen' = Seen BY <1>1, <1>2 DEF Here, Seen
<1>4. Promise!Cd(ROOT_INODE) BY <1>3 DEF Promise!Cd, Here, Seen
<1> QED BY <1>4 DEF Promise!Next

(* ls of an inode shows what Walk lists there, or nobody knows what.        *)
LEMMA LsFromWalks ==
  ASSUME Fine(Now), NEW st, Fine(st), Kept(minodes, st.m), st.out = <<>>, full => st.full,
         NEW unsure \in BOOLEAN, LsFrom(st, unsure), ~full'
  PROVE  /\ ~full /\ ~st.full
         /\ \/ Promise!Sees(Lost)
            \/ ~st.wrong /\ ~unsure /\ Promise!Sees(Promise!Listing(Ip(st)))
<1> DEFINE i == Ip(st)
           end == IF i \in Dir THEN LsDir(st) ELSE [st EXCEPT !.out = <<i>>]
<1>1. Set(end) /\ shown' = end.out /\ doubt' = (st.wrong \/ unsure) /\ UNCHANGED <<cwd, astray>>
  BY DEF LsFrom
<1>2. /\ Fine(end) /\ Kept(st.m, end.m) /\ (st.full => end.full)
      /\ ~end.full => end.out = Promise!Listing(i)
  <2>1. CASE i \in Dir
    <3>1. end = LsDir(st) BY <2>1
    <3>2. /\ st.full => LsDir(st).full
          /\ ~LsDir(st).full => LsDir(st).out = Promise!Listing(i)
      BY <2>1, LsDirTrue
    <3> HIDE DEF end
    <3> QED BY <3>1, <3>2, LsDirFine
  <2>2. CASE i \notin Dir
    <3>1. i \in Held BY IpType DEF Held
    <3>2. <<i>> \in Seq(Held) BY <3>1
    <3>3. Fine([st EXCEPT !.out = <<i>>]) /\ Kept(st.m, [st EXCEPT !.out = <<i>>].m) BY <3>2, OutFine
    <3>4. st \in State BY IpType
    <3>5. end = [st EXCEPT !.out = <<i>>] BY <2>2
    <3>6. Promise!Listing(i) = <<i>> BY <2>2, SameWords DEF Promise!Listing
    <3> HIDE DEF i
    <3>7. [st EXCEPT !.out = <<i>>].out = <<i>> /\ [st EXCEPT !.out = <<i>>].full = st.full
      BY <3>4 DEF State
    <3> HIDE DEF end
    <3> QED BY <3>3, <3>5, <3>6, <3>7
  <2> QED BY <2>1, <2>2
<1> HIDE DEF end
<1>3. Kept(minodes, end.m) BY <1>2, KeptOn
<1>4. ~end.full /\ ~st.full /\ ~full BY <1>1, <1>2 DEF Set
<1>5. Here' = Here
  <2>1. minodes'[cwd'].ip = minodes[cwd].ip BY <1>1, <1>2, <1>3, <1>4, HereStays
  <2> QED BY <1>1, <1>4, <2>1 DEF Here
<1>6. CASE doubt'
  <2>1. Seen' = Lost BY <1>6 DEF Seen
  <2>2. Promise!Sees(Lost) BY <1>5, <2>1 DEF Promise!Sees, Here, Seen
  <2> QED BY <1>4, <2>2
<1>7. CASE ~doubt'
  <2>1. Seen' = Promise!Listing(i) BY <1>1, <1>2, <1>4, <1>7 DEF Seen
  <2>2. Promise!Sees(Promise!Listing(i)) BY <1>5, <2>1 DEF Promise!Sees, Here, Seen
  <2> QED BY <1>1, <1>4, <1>7, <2>2
<1> QED BY <1>6, <1>7

(* ls without an argument.                                                 *)
LEMMA LsHereWalks ==
  ASSUME MountInv, LsHere
  PROVE  Promise!Next
<1> SUFFICES ASSUME ~full' PROVE Promise!Next BY LostStep
<1>1. /\ Fine(Now) /\ Kept(minodes, Now.m) /\ astray \in BOOLEAN /\ Now.out = <<>> /\ Now.full = full
      /\ Ip(Now) = minodes[cwd].ip
  BY DEF MountInv, Kept, Now, Ip
<1>2. LsFrom(Now, astray) BY DEF LsHere
<1>3. /\ ~full
      /\ \/ Promise!Sees(Lost)
         \/ ~astray /\ Promise!Sees(Promise!Listing(Ip(Now)))
  BY <1>1, <1>2, LsFromWalks
<1>4. CASE Promise!Sees(Lost) BY <1>4 DEF Promise!Next
<1>5. CASE ~astray /\ Promise!Sees(Promise!Listing(Ip(Now)))
  <2>1. Here = Ip(Now) /\ Here # Lost BY <1>1, <1>3, <1>5, HereType DEF Here
  <2> QED BY <1>5, <2>1 DEF Promise!Next, Here
<1> QED BY <1>3, <1>4, <1>5

(* ls with an argument.                                                    *)
LEMMA LsWalks ==
  ASSUME MountInv, NEW p \in Paths, Ls(p)
  PROVE  Promise!Next \/ (Here' = Here /\ Seen' = Seen)
<1>0. Fine(Now) /\ astray \in BOOLEAN BY DEF MountInv
<1> DEFINE st == GetInodeNumber(p)
<1>1. Fine(st) /\ Kept(minodes, st.m) BY <1>0, PathFine
<1>2. LsTo(p, st) BY DEF Ls
<1>3. /\ st.out = <<>> /\ (full => st.full)
      /\ ~st.full /\ ~st.wrong => st.ino = Promise!Target(PathStart(p), p.names)
  BY <1>0, PathTrue
<1> HIDE DEF st
<1> SUFFICES ASSUME ~full' PROVE Promise!Next \/ (Here' = Here /\ Seen' = Seen) BY LostStep
<1>4. CASE st.ino = NoIno /\ Set(st) /\ UNCHANGED <<cwd, shown, astray, doubt>>
  <2>1. ~st.full /\ ~full BY <1>3, <1>4 DEF Set
  <2>2. minodes'[cwd'].ip = minodes[cwd].ip BY <1>0, <1>1, <1>4, <2>1, HereStays
  <2> QED BY <1>4, <2>1, <2>2 DEF Here, Seen
<1>5. CASE st.ino # NoIno /\ LsFrom(GetMinode(st, st.ino), astray /\ ~p.abs)
  <2> DEFINE to == GetMinode(st, st.ino)
             unsure == astray /\ ~p.abs
  <2>2. st.ino \in Ino /\ Near(st.m, st.ino) BY <1>1, <1>5 DEF Fine, State, Held
  <2>3. /\ Fine(to) /\ Kept(st.m, to.m) /\ to.out = st.out /\ to.wrong = st.wrong
        /\ (st.full => to.full) /\ (~to.full => Ip(to) = st.ino)
    BY <1>1, <2>2, GetFine, GetTrue
  <2>4. LsFrom(to, unsure) BY <1>5
  <2>5. unsure \in BOOLEAN BY <1>0
  <2> HIDE DEF to, unsure
  <2>6. Kept(minodes, to.m) /\ to.out = <<>> /\ (full => to.full) BY <1>1, <1>3, <2>3, KeptOn
  <2>7. /\ ~full /\ ~to.full
        /\ \/ Promise!Sees(Lost)
           \/ ~to.wrong /\ ~unsure /\ Promise!Sees(Promise!Listing(Ip(to)))
    BY <1>0, <2>3, <2>4, <2>5, <2>6, LsFromWalks
  <2>8. CASE Promise!Sees(Lost) BY <2>8 DEF Promise!Next
  <2>9. CASE ~to.wrong /\ ~unsure /\ Promise!Sees(Promise!Listing(Ip(to)))
    <3>1. ~st.full /\ ~st.wrong /\ ~(astray /\ ~p.abs) BY <2>3, <2>7, <2>9 DEF unsure
    <3>2. Promise!Known(p) /\ Promise!From(p) = PathStart(p) BY <1>0, <2>7, <3>1, Known
    <3> DEFINE t == Promise!Target(Promise!From(p), p.names)
    <3>3. Ip(to) = t /\ st.ino = t BY <1>3, <2>3, <2>7, <3>1, <3>2
    <3> HIDE DEF t
    <3>4. t # Promise!NoIno BY <1>5, <3>3, SameWords
    <3>5. Promise!Sees(Promise!Listing(t)) BY <2>9, <3>3
    <3> QED BY <3>2, <3>4, <3>5 DEF Promise!Next, t
  <2> QED BY <2>7, <2>8, <2>9
<1> QED BY <1>2, <1>4, <1>5 DEF LsTo

(* pwd.                                                                     *)
LEMMA PwdWalks ==
  ASSUME MountInv, Pwd
  PROVE  Promise!Next
<1> SUFFICES ASSUME ~full' PROVE Promise!Next BY LostStep
<1>0. Fine(Now) /\ Ip(Now) = minodes[cwd].ip BY DEF MountInv, Now, Ip
<1> DEFINE st == Climbed
<1>1. Fine(st) /\ Kept(minodes, st.m) BY <1>0, ClimbedFine
<1>2. /\ minodes[cwd].ip \in Dir /\ Set(st) /\ shown' = st.out /\ doubt' = astray
      /\ UNCHANGED <<cwd, astray>>
  BY DEF Pwd
<1>3. full => st.full BY <1>0, ClimbedFull
<1>4. ~full => st.out = Promise!WayUp[Ip(Now)] BY <1>0, <1>2, ClimbTrue
<1> HIDE DEF st
<1>5. ~st.full /\ ~full BY <1>2, <1>3 DEF Set
<1>6. Here' = Here
  <2>1. minodes'[cwd'].ip = minodes[cwd].ip BY <1>0, <1>1, <1>2, <1>5, HereStays
  <2> QED BY <1>2, <1>5, <2>1 DEF Here
<1>7. CASE astray
  <2>1. Seen' = Lost BY <1>2, <1>7 DEF Seen
  <2>2. Promise!Sees(Lost) BY <1>6, <2>1 DEF Promise!Sees, Here, Seen
  <2> QED BY <2>2 DEF Promise!Next
<1>8. CASE ~astray
  <2>1. Here = Ip(Now) /\ Here \in Promise!Dir BY <1>0, <1>2, <1>5, <1>8, SameWords DEF Here
  <2>2. Seen' = Promise!WayUp[Here] BY <1>2, <1>4, <1>5, <1>8, <2>1 DEF Seen
  <2>3. Promise!Sees(Promise!WayUp[Here]) BY <1>6, <2>2 DEF Promise!Sees, Here, Seen
  <2> QED BY <2>1, <2>3 DEF Promise!Next, Here
<1>9. astray \in BOOLEAN BY DEF MountInv
<1> QED BY <1>7, <1>8

(* Every command does what Walk promises: cd leads along the names, ls lists *)
(* the directory it was asked for and pwd names the way up, as long as the   *)
(* table was never full and no name was taken for another.                   *)
THEOREM MountWalks == Spec => Walks
<1>1. Init => Promise!Init
  <2> SUFFICES ASSUME Init PROVE Promise!Init OBVIOUS
  <2>1. full = FALSE /\ astray = FALSE /\ doubt = FALSE /\ shown = <<>> /\ cwd = root BY DEF Init
  <2>2. minodes[cwd].ip = ROOT_INODE BY <2>1, Sizes DEF Init
  <2> QED BY <2>1, <2>2 DEF Promise!Init
<1>2. MountInv /\ [Next]_vars => [Promise!Next]_<<Here, Seen>>
  <2> SUFFICES ASSUME MountInv, [Next]_vars PROVE Promise!Next \/ (Here' = Here /\ Seen' = Seen)
    OBVIOUS
  <2>1. ASSUME NEW p \in Paths, Cd(p) PROVE Promise!Next \/ (Here' = Here /\ Seen' = Seen)
    BY <2>1, CdWalks
  <2>2. ASSUME NEW p \in Paths, Ls(p) PROVE Promise!Next \/ (Here' = Here /\ Seen' = Seen)
    BY <2>2, LsWalks
  <2>3. CASE CdRoot BY <2>3, CdRootWalks
  <2>4. CASE LsHere BY <2>4, LsHereWalks
  <2>5. CASE Pwd BY <2>5, PwdWalks
  <2>6. CASE UNCHANGED vars BY <2>6 DEF vars, Here, Seen
  <2> QED BY <2>1, <2>2, <2>3, <2>4, <2>5, <2>6 DEF Next
<1>3. MountInv /\ [Next]_vars => [Promise!Next]_<<IF full \/ astray THEN Lost ELSE minodes[cwd].ip,
                                                  IF full \/ doubt THEN Lost ELSE shown>>
  BY <1>2 DEF Here, Seen
<1> QED BY <1>1, <1>3, InitMount, MountStep, PTL DEF Spec, Walks, Promise!Spec
=============================================================================
