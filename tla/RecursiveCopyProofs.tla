------------------------- MODULE RecursiveCopyProofs ------------------------
(***************************************************************************)
(* Proofs about RecursiveCopy, for every tree and every two paths: what is *)
(* copied where, and what is not touched.                                  *)
(*                                                                         *)
(* Where a path leads is a fold over its names; it stays the same while    *)
(* nothing new is in its way.  Sane holds of every copy; Mixed, OneMore,   *)
(* Safe and Copying carry one of the properties each.                      *)
(***************************************************************************)
EXTENDS RecursiveCopy, SequenceTheorems, FunctionTheorems, FiniteSetTheorems, WellFoundedInduction, TLAPS

(* A set of natural numbers has a least element.                            *)
LEMMA LeastNat ==
  ASSUME NEW T \in SUBSET Nat, T # {}
  PROVE  Min(T) \in T /\ \A y \in T : Min(T) <= y
<1>1. \E x \in T : \A y \in T : ~(<<y, x>> \in OpToRel(<, Nat))
  BY NatLessThanWellFounded, WFMin
<1>2. PICK x \in T : \A y \in T : ~(<<y, x>> \in OpToRel(<, Nat))
  BY <1>1
<1>3. \A y \in T : ~(y < x)
  BY <1>2 DEF OpToRel
<1>4. \A y \in T : x =< y
  BY <1>3
<1> QED BY <1>4 DEF Min

(* A bounded one has a greatest.                                            *)
LEMMA GreatestNat ==
  ASSUME NEW T \in SUBSET Nat, T # {}, NEW b \in Nat, \A x \in T : x <= b
  PROVE  Max(T) \in T /\ \A y \in T : y <= Max(T)
<1> DEFINE U == {u \in Nat : \A x \in T : x <= u}
<1>1. U \in SUBSET Nat /\ U # {} OBVIOUS
<1>2. Min(U) \in U /\ \A y \in U : Min(U) <= y BY <1>1, LeastNat
<1>3. PICK u \in Nat : (\A x \in T : x <= u) /\ \A y \in U : u <= y BY <1>2
<1>4. u \in T
  <2> SUFFICES ASSUME u \notin T PROVE FALSE OBVIOUS
  <2>1. PICK x \in T : TRUE OBVIOUS
  <2>2. x <= u /\ x # u /\ x \in Nat BY <1>3, <2>1
  <2>3. u - 1 \in Nat BY <2>2
  <2>4. \A y \in T : y \in Nat /\ y <= u /\ y # u BY <1>3
  <2>5. \A y \in T : y <= u - 1 BY <2>4
  <2>6. u - 1 \in U BY <2>3, <2>5
  <2>7. u <= u - 1 BY <1>3, <2>6
  <2>8. ~(u <= u - 1) BY <2>2
  <2> QED BY <2>7, <2>8
<1>5. \E x \in T : \A y \in T : x >= y BY <1>3, <1>4
<1>6. Max(T) \in T /\ \A y \in T : Max(T) >= y BY <1>5 DEF Max
<1> QED BY <1>6

(* The greatest number of a set of numbers within 1..n, and what is left.   *)
LEMMA MaxOf ==
  ASSUME NEW n \in Nat, NEW s \in SUBSET (1..n), s # {}
  PROVE  Max(s) \in s /\ Max(s) \in 1..n /\ s \ {Max(s)} \in SUBSET (1..Max(s) - 1)
<1>1. s \in SUBSET Nat /\ \A x \in s : x <= n OBVIOUS
<1>2. Max(s) \in s /\ \A y \in s : y <= Max(s) BY <1>1, GreatestNat
<1>3. \A y \in s \ {Max(s)} : y \in 1..Max(s) - 1
  <2> SUFFICES ASSUME NEW y \in s, y # Max(s) PROVE y \in 1..Max(s) - 1 OBVIOUS
  <2>1. y \in 1..n /\ Max(s) \in 1..n /\ y <= Max(s) BY <1>2
  <2> QED BY <2>1
<1> QED BY <1>2, <1>3

(* The value of a fold stays where its steps stay.                          *)
Closed(n, X, h) ==
  /\ h[{}] \in X
  /\ \A s \in SUBSET (1..n) : s # {} /\ h[s \ {Max(s)}] \in X => h[s] \in X

(* What the step does not leave, the fold does not leave either.            *)
LEMMA FoldStays ==
  ASSUME NEW n \in Nat, NEW X, NEW h, Closed(n, X, h)
  PROVE  h[1..n] \in X
<1> USE DEF Closed
<1> DEFINE Bad == {k \in 0..n : \E s \in SUBSET (1..k) : h[s] \notin X}
<1>1. Bad = {}
  <2> SUFFICES ASSUME Bad # {} PROVE FALSE OBVIOUS
  <2>1. Bad \in SUBSET Nat OBVIOUS
  <2>2. Min(Bad) \in Bad /\ \A y \in Bad : Min(Bad) <= y BY <2>1, LeastNat
  <2>3. PICK k \in Bad : \A y \in Bad : k <= y BY <2>2
  <2>4. k \in 0..n OBVIOUS
  <2>5. PICK s \in SUBSET (1..k) : h[s] \notin X BY <2>3
  <2>6. s # {} BY <2>5
  <2>7. Max(s) \in 1..k /\ s \ {Max(s)} \in SUBSET (1..Max(s) - 1) BY <2>4, <2>6, MaxOf
  <2>8. Max(s) - 1 \in 0..n /\ ~(k <= Max(s) - 1) BY <2>4, <2>7
  <2>9. Max(s) - 1 \notin Bad BY <2>3, <2>8
  <2>10. h[s \ {Max(s)}] \in X BY <2>7, <2>8, <2>9
  <2>11. s \in SUBSET (1..n) BY <2>4
  <2> QED BY <2>5, <2>6, <2>10, <2>11
<1>2. n \in 0..n /\ 1..n \in SUBSET (1..n) OBVIOUS
<1> QED BY <1>1, <1>2

(* The function a fold is the last value of exists.                         *)
Folds(n, X, F, base, seq, g) ==
  /\ g \in [SUBSET (1..n) -> X]
  /\ \A s \in SUBSET (1..n) :
       g[s] = IF s = {} THEN base ELSE F[<<g[s \ {Max(s)}], seq[Max(s)]>>]

(* For every length there is such a function: the least that had none       *)
(* would be one longer than one that has.                                   *)
LEMMA FoldFun ==
  ASSUME NEW n \in Nat, NEW X, NEW A, NEW F \in [X \X A -> X], NEW base \in X, NEW seq \in [1..n -> A]
  PROVE  \E g : Folds(n, X, F, base, seq, g)
<1> DEFINE Good(k, g) == \A s \in SUBSET (1..k) :
             g[s] = IF s = {} THEN base ELSE F[<<g[s \ {Max(s)}], seq[Max(s)]>>]
           Bad == {k \in 0..n : ~\E g \in [SUBSET (1..k) -> X] : Good(k, g)}
<1>1. Bad = {}
  <2> SUFFICES ASSUME Bad # {} PROVE FALSE OBVIOUS
  <2>1. Bad \in SUBSET Nat OBVIOUS
  <2>2. Min(Bad) \in Bad /\ \A y \in Bad : Min(Bad) <= y BY <2>1, LeastNat
  <2>3. PICK k \in Bad : \A y \in Bad : k <= y BY <2>2
  <2>4. k \in 0..n OBVIOUS
  <2>5. k # 0
    <3> SUFFICES ASSUME k = 0 PROVE FALSE OBVIOUS
    <3> DEFINE g == [s \in SUBSET (1..0) |-> base]
    <3>1. g \in [SUBSET (1..0) -> X] OBVIOUS
    <3>2. \A s \in SUBSET (1..0) : s = {} OBVIOUS
    <3>3. Good(0, g) BY <3>2
    <3> HIDE DEF g
    <3> QED BY <2>3, <3>1, <3>3
  <2>6. k - 1 \in 0..n /\ ~(k <= k - 1) BY <2>4, <2>5
  <2>14. k - 1 \notin Bad BY <2>3, <2>6
  <2>7. PICK g \in [SUBSET (1..k-1) -> X] : Good(k-1, g) BY <2>6, <2>14
  <2>8. k \in 1..n /\ seq[k] \in A BY <2>4, <2>5
  <2>9. \A s \in SUBSET (1..k) : s \ {k} \in SUBSET (1..k-1) BY <2>8
  <2> DEFINE g2 == [s \in SUBSET (1..k) |-> IF k \in s THEN F[<<g[s \ {k}], seq[k]>>] ELSE g[s]]
  <2>10. \A s \in SUBSET (1..k) : k \notin s => s \in SUBSET (1..k-1) BY <2>8
  <2>11. g2 \in [SUBSET (1..k) -> X] BY <2>8, <2>9, <2>10
  <2>12. ASSUME NEW s \in SUBSET (1..k)
         PROVE  g2[s] = IF s = {} THEN base ELSE F[<<g2[s \ {Max(s)}], seq[Max(s)]>>]
    <3>1. CASE k \in s
      <4>1. Max(s) = k
        <5>1. s \in SUBSET (1..n) /\ s # {} BY <2>8, <3>1
        <5>2. Max(s) \in 1..n /\ s \ {Max(s)} \in SUBSET (1..Max(s) - 1) /\ Max(s) \in s
          BY <5>1, MaxOf
        <5>3. Max(s) <= k BY <2>8, <5>2
        <5>4. Max(s) # k => k \in 1..Max(s) - 1 BY <3>1, <5>2
        <5> QED BY <2>8, <5>2, <5>3, <5>4
      <4>2. g2[s] = F[<<g[s \ {k}], seq[k]>>] BY <3>1
      <4>3. s \ {k} \in SUBSET (1..k) /\ k \notin s \ {k} OBVIOUS
      <4>4. g2[s \ {k}] = g[s \ {k}] BY <4>3
      <4> HIDE DEF g2
      <4> QED BY <3>1, <4>1, <4>2, <4>4
    <3>2. CASE k \notin s
      <4>1. s \in SUBSET (1..k-1) BY <2>10, <3>2
      <4>2. g[s] = IF s = {} THEN base ELSE F[<<g[s \ {Max(s)}], seq[Max(s)]>>] BY <2>7, <4>1
      <4>3. s \ {Max(s)} \in SUBSET (1..k) /\ k \notin s \ {Max(s)} BY <3>2
      <4>4. g2[s] = g[s] /\ g2[s \ {Max(s)}] = g[s \ {Max(s)}] BY <3>2, <4>3
      <4> HIDE DEF g2
      <4> QED BY <4>2, <4>4
    <3> QED BY <3>1, <3>2
  <2>13. Good(k, g2) BY <2>12
  <2> HIDE DEF g2
  <2> QED BY <2>3, <2>11, <2>13
<1>2. n \in 0..n OBVIOUS
<1>3. \E g \in [SUBSET (1..n) -> X] : Good(n, g) BY <1>1, <1>2
<1> QED BY <1>3 DEF Folds


-----------------------------------------------------------------------------
Name == STRING
Path == Seq(Name)
Plain == Seq(FileName)

(* A path of names of files is a path.                                      *)
LEMMA PlainPath == Plain \subseteq Path
<1>1. FileName \subseteq Name BY DEF FileName, Name
<1> QED BY <1>1, SeqMonotonic DEF Plain, Path

(* A path with one more name.                                               *)
LEMMA PathAppend ==
  ASSUME NEW p \in Path, NEW n \in Name
  PROVE  /\ Append(p, n) \in Path /\ Len(p) \in Nat /\ Len(Append(p, n)) = Len(p) + 1
         /\ Append(p, n)[Len(p) + 1] = n /\ \A k \in 1..Len(p) : Append(p, n)[k] = p[k]
BY AppendProperties DEF Path

(* Where links lead, and where a name leads from there.                     *)
LEMMA FollowType ==
  ASSUME NEW t, TreeOK(t), NEW q \in Path
  PROVE  Follow(t, q) \in Path /\ (q \in Plain => Follow(t, q) \in Plain)
<1>1. CASE Node(t, q, "link")
  <2>1. q \in DOMAIN t /\ t[q].kind = "link" /\ NodeOK(t[q]) BY <1>1 DEF Node, TreeOK
  <2>2. Directory.kind = "dir" BY DEF Directory
  <2>3. t[q].to \in Plain BY <2>1, <2>2 DEF NodeOK, Plain
  <2> QED BY <1>1, <2>3, PlainPath DEF Follow
<1>2. CASE ~Node(t, q, "link") BY <1>2 DEF Follow
<1> QED BY <1>1, <1>2

LEMMA ThroughType ==
  ASSUME NEW t, TreeOK(t), NEW q \in Path
  PROVE  Through(t, q) \in Path /\ (q \in Plain => Through(t, q) \in Plain)
BY FollowType DEF Through

LEMMA AlongType ==
  ASSUME NEW t, TreeOK(t), NEW q \in Path, NEW n \in Name
  PROVE  Along(t, q, n) \in Path
<1>1. Through(t, q) \in Path BY ThroughType
<1>2. Append(Through(t, q), n) \in Path BY <1>1, PathAppend
<1> QED BY <1>1, <1>2 DEF Along

(* The way along a path, name by name, and its end.                         *)
Way(t, p, R) ==
  /\ R \in [0..Len(p) -> Path] /\ R[0] = <<>>
  /\ \A k \in 1..Len(p) : R[k] = Along(t, R[k-1], p[k])

LEMMA RealWay ==
  ASSUME NEW t, TreeOK(t), NEW p \in Path
  PROVE  \E R : Way(t, p, R) /\ Real(t, p) = R[Len(p)]
<1> DEFINE n == Len(p)
           F == [y \in Path \X Name |-> Along(t, y[1], y[2])]
           h == CHOOSE g : g = [s \in SUBSET (DOMAIN p) |->
                                 IF s = {} THEN <<>> ELSE Along(t, g[s \ {Max(s)}], p[Max(s)])]
<1>1. n \in Nat /\ DOMAIN p = 1..n /\ p \in [1..n -> Name] BY DEF Path
<1>2. <<>> \in Path BY DEF Path
<1>3. Real(t, p) = h[DOMAIN p] BY DEF Real, FoldLeft, MapThenFoldSet
<1>4. F \in [Path \X Name -> Path] BY AlongType
<1>5. \A x \in Path, a \in Name : F[<<x, a>>] = Along(t, x, a) OBVIOUS
<1> HIDE DEF F, n
<1>6. PICK g : Folds(n, Path, F, <<>>, p, g) BY <1>1, <1>2, <1>4, FoldFun
<1>7. /\ g \in [SUBSET (1..n) -> Path]
      /\ \A s \in SUBSET (1..n) :
           g[s] = IF s = {} THEN <<>> ELSE F[<<g[s \ {Max(s)}], p[Max(s)]>>]
  BY <1>6 DEF Folds
<1>8. \A s \in SUBSET (1..n) : s # {} =>
        Max(s) \in 1..n /\ s \ {Max(s)} \in SUBSET (1..n) /\ p[Max(s)] \in Name
  BY <1>1, MaxOf
<1>9. \A s \in SUBSET (1..n) :
        g[s] = IF s = {} THEN <<>> ELSE Along(t, g[s \ {Max(s)}], p[Max(s)])
  BY <1>5, <1>7, <1>8
<1>10. g = [s \in SUBSET (DOMAIN p) |->
              IF s = {} THEN <<>> ELSE Along(t, g[s \ {Max(s)}], p[Max(s)])]
  BY <1>1, <1>7, <1>9
<1>11. h = [s \in SUBSET (DOMAIN p) |->
              IF s = {} THEN <<>> ELSE Along(t, h[s \ {Max(s)}], p[Max(s)])]
  BY <1>10
<1> HIDE DEF h
<1>12. \A s \in SUBSET (1..n) :
         h[s] = IF s = {} THEN <<>> ELSE Along(t, h[s \ {Max(s)}], p[Max(s)])
  BY <1>1, <1>11
<1>13. ASSUME NEW k \in 0..n PROVE h[1..k] \in Path
  <2>1. SUBSET (1..k) \subseteq SUBSET (1..n) /\ {} \in SUBSET (1..n) BY <1>1
  <2>2. h[{}] \in Path BY <1>2, <1>12, <2>1
  <2>3. ASSUME NEW s \in SUBSET (1..k), s # {}, h[s \ {Max(s)}] \in Path PROVE h[s] \in Path
    <3>1. s \in SUBSET (1..n) BY <2>1
    <3>2. h[s] = Along(t, h[s \ {Max(s)}], p[Max(s)]) /\ p[Max(s)] \in Name BY <1>8, <1>12, <2>3, <3>1
    <3> QED BY <2>3, <3>2, AlongType
  <2>4. Closed(k, Path, h) BY <2>2, <2>3 DEF Closed
  <2> QED BY <1>1, <2>4, FoldStays
<1> DEFINE R == [k \in 0..n |-> h[1..k]]
<1>14. R \in [0..n -> Path] BY <1>13
<1>15. R[0] = <<>>
  <2>1. 1..0 = {} /\ 0 \in 0..n /\ {} \in SUBSET (1..n) BY <1>1
  <2> QED BY <1>12, <2>1
<1>16. ASSUME NEW k \in 1..n PROVE R[k] = Along(t, R[k-1], p[k])
  <2>1. k \in 0..n /\ k-1 \in 0..n /\ 1..k \in SUBSET (1..n) /\ k \in 1..k /\ k \in Nat BY <1>1
  <2>2. Max(1..k) \in 1..k /\ (1..k) \ {Max(1..k)} \in SUBSET (1..Max(1..k) - 1) BY <2>1, MaxOf
  <2>3. Max(1..k) = k
    <3>1. k # Max(1..k) => k \in 1..Max(1..k) - 1 BY <2>1, <2>2
    <3> QED BY <2>1, <2>2, <3>1
  <2>4. (1..k) \ {k} = 1..k-1 BY <2>1
  <2>5. h[1..k] = Along(t, h[1..k-1], p[k]) BY <1>12, <2>1, <2>3, <2>4
  <2> QED BY <2>1, <2>5
<1>17. n \in 0..n /\ Real(t, p) = R[n] BY <1>1, <1>3
<1> HIDE DEF R
<1>18. Way(t, p, R) BY <1>14, <1>15, <1>16 DEF Way, n
<1> QED BY <1>17, <1>18 DEF n

(* A path leads to a path; a longer one leads on from there.                *)
LEMMA RealIs ==
  ASSUME NEW t, TreeOK(t)
  PROVE  /\ Real(t, <<>>) = <<>>
         /\ \A p \in Path : Real(t, p) \in Path
         /\ \A p \in Path, n \in Name : Real(t, Append(p, n)) = Along(t, Real(t, p), n)
<1>1. ASSUME NEW p \in Path PROVE Real(t, p) \in Path
  <2>1. PICK R : Way(t, p, R) /\ Real(t, p) = R[Len(p)] BY RealWay
  <2>2. Len(p) \in 0..Len(p) BY DEF Path
  <2> QED BY <2>1, <2>2 DEF Way
<1>2. Real(t, <<>>) = <<>>
  <2>1. <<>> \in Path /\ Len(<<>>) = 0 BY DEF Path
  <2>2. PICK R : Way(t, <<>>, R) /\ Real(t, <<>>) = R[0] BY <2>1, RealWay
  <2> QED BY <2>2 DEF Way
<1>3. ASSUME NEW p \in Path, NEW n \in Name PROVE Real(t, Append(p, n)) = Along(t, Real(t, p), n)
  <2> DEFINE q == Append(p, n)
  <2>1. q \in Path /\ Len(p) \in Nat /\ Len(q) = Len(p) + 1 /\ q[Len(p) + 1] = n BY PathAppend
  <2>7. \A k \in 1..Len(p) : p[k] = q[k] BY PathAppend
  <2> HIDE DEF q
  <2>2. PICK R : Way(t, p, R) /\ Real(t, p) = R[Len(p)] BY RealWay
  <2>3. PICK U : Way(t, q, U) /\ Real(t, q) = U[Len(q)] BY <2>1, RealWay
  <2>4. Len(p) <= Len(q) /\ Len(p) \in 0..Len(p) /\ Len(q) \in 1..Len(q) /\ Len(q) - 1 = Len(p) BY <2>1
  <2>5. R[Len(p)] = U[Len(p)]
    <3> DEFINE Bad == {k \in 0..Len(p) : R[k] # U[k]}
    <3> SUFFICES ASSUME Bad # {} PROVE FALSE BY <2>4
    <3>1. Bad \in SUBSET Nat BY <2>1
    <3>2. Min(Bad) \in Bad /\ \A y \in Bad : Min(Bad) <= y BY <3>1, LeastNat
    <3>3. PICK k \in Bad : \A y \in Bad : k <= y BY <3>2
    <3>4. k \in 0..Len(p) /\ R[k] # U[k] BY <3>3
    <3>5. k # 0 BY <2>2, <2>3, <3>4 DEF Way
    <3>6. k \in 1..Len(p) /\ k \in 1..Len(q) /\ k - 1 \in 0..Len(p) /\ ~(k <= k - 1) BY <2>1, <3>4, <3>5
    <3>7. R[k-1] = U[k-1] BY <3>3, <3>6
    <3>8. R[k] = Along(t, R[k-1], p[k]) /\ U[k] = Along(t, U[k-1], q[k]) /\ p[k] = q[k]
      BY <2>2, <2>3, <2>7, <3>6 DEF Way
    <3> QED BY <3>4, <3>7, <3>8
  <2>6. U[Len(q)] = Along(t, U[Len(q) - 1], q[Len(q)]) BY <2>3, <2>4 DEF Way
  <2> QED BY <2>1, <2>2, <2>3, <2>4, <2>5, <2>6 DEF q
<1> QED BY <1>1, <1>2, <1>3

LEMMA RealMore ==
  ASSUME NEW t, TreeOK(t), NEW p \in Path, NEW n \in Name
  PROVE  Real(t, Append(p, n)) = Along(t, Real(t, p), n)
BY RealIs

-----------------------------------------------------------------------------
(* What can be shown of the empty path and, with every path, of one more     *)
(* name can be shown of all.                                                *)
LEMMA PathInduction ==
  ASSUME NEW A, NEW Z, <<>> \in Z, \A p \in Seq(A), n \in A : p \in Z => Append(p, n) \in Z
  PROVE  Seq(A) \subseteq Z
<1> DEFINE T == {k \in Nat : \E p \in Seq(A) : p \notin Z /\ Len(p) = k}
<1> SUFFICES ASSUME NEW p \in Seq(A), p \notin Z PROVE FALSE OBVIOUS
<1>1. Len(p) \in T OBVIOUS
<1>2. T \in SUBSET Nat /\ T # {} BY <1>1
<1>3. Min(T) \in T /\ \A y \in T : Min(T) <= y BY <1>2, LeastNat
<1>4. PICK q \in Seq(A) : q \notin Z /\ Len(q) = Min(T) BY <1>3
<1>5. q # <<>> BY <1>4
<1>6. PICK s \in Seq(A), e \in A : q = Append(s, e) BY <1>5, SequenceEmptyOrAppend
<1>7. s \notin Z BY <1>4, <1>6
<1>8. Len(s) \in T BY <1>7
<1>9. Len(q) = Len(s) + 1 /\ Len(s) \in Nat BY <1>6
<1> QED BY <1>3, <1>4, <1>8, <1>9

(* Paths joined, and lengthened.                                            *)
LEMMA Joined ==
  ASSUME NEW p \in Path, NEW q \in Path
  PROVE  p \o q \in Path /\ Len(p \o q) = Len(p) + Len(q) /\ Len(p) \in Nat /\ Len(q) \in Nat
BY ConcatProperties, LenProperties DEF Path

LEMMA JoinedEmpty ==
  ASSUME NEW p \in Path
  PROVE  <<>> \in Path /\ p \o <<>> = p /\ <<>> \o p = p
BY ConcatEmptySeq, EmptySeq DEF Path

LEMMA JoinedTwice ==
  ASSUME NEW p \in Path, NEW q \in Path, NEW r \in Path
  PROVE  (p \o q) \o r = p \o (q \o r)
BY ConcatAssociative DEF Path

LEMMA JoinedSame ==
  ASSUME NEW p \in Path, NEW q \in Path, NEW r \in Path, p \o q = p \o r
  PROVE  q = r
BY ConcatSimplifications DEF Path

LEMMA JoinedFront ==
  ASSUME NEW p \in Path, NEW q \in Path, NEW r \in Path, p \o r = q \o r
  PROVE  p = q
BY ConcatSimplifications DEF Path

LEMMA JoinedMore ==
  ASSUME NEW p \in Path, NEW q \in Path, NEW n \in Name
  PROVE  p \o Append(q, n) = Append(p \o q, n)
<1>1. Append(q, n) = q \o <<n>> /\ Append(p \o q, n) = (p \o q) \o <<n>>
  BY Joined, AppendIsConcat DEF Path
<1>2. <<n>> \in Path BY DEF Path
<1> QED BY <1>1, <1>2, JoinedTwice

LEMMA LongerSame ==
  ASSUME NEW p \in Path, NEW n \in Name, NEW q \in Path, NEW m \in Name,
         Append(p, n) = Append(q, m)
  PROVE  p = q /\ n = m
BY AppendInjective DEF Path

LEMMA Longer ==
  ASSUME NEW p \in Path, NEW n \in Name
  PROVE  /\ Append(p, n) \in Path /\ Append(p, n) # <<>>
         /\ Front(Append(p, n)) = p /\ Last(Append(p, n)) = n
<1> DEFINE q == Append(p, n)
<1>1. q \in Path /\ Len(p) \in Nat /\ Len(q) = Len(p) + 1 /\ q[Len(p) + 1] = n BY PathAppend
<1>2. \A k \in 1..Len(p) : q[k] = p[k] BY PathAppend
<1> HIDE DEF q
<1>3. Last(q) = n BY <1>1 DEF Last
<1>4. Front(q) = p
  <2>1. Len(q) - 1 = Len(p) BY <1>1
  <2>2. Front(q) = SubSeq(q, 1, Len(p)) BY <2>1 DEF Front
  <2>3. \A k \in 1..Len(p) : q[k] \in Name BY <1>2, ElementOfSeq DEF Path
  <2>4. 1 \in Int /\ Len(p) \in Int /\ Len(p) - 1 + 1 = Len(p) BY <1>1
  <2> DEFINE s == SubSeq(q, 1, Len(p))
  <2>5. s \in Seq(Name) /\ Len(s) = (IF 1 <= Len(p) THEN Len(p) - 1 + 1 ELSE 0)
        /\ \A i \in 1..Len(p) - 1 + 1 : s[i] = q[1 + i - 1]
    BY <2>3, <2>4, SubSeqProperties
  <2> HIDE DEF s
  <2>6. Len(s) = Len(p) BY <1>1, <2>5
  <2>7. \A i \in 1..Len(s) : s[i] = p[i]
    <3> SUFFICES ASSUME NEW i \in 1..Len(s) PROVE s[i] = p[i] OBVIOUS
    <3>1. i \in 1..Len(p) /\ 1 + i - 1 = i BY <1>1, <2>6
    <3> QED BY <1>2, <2>4, <2>5, <3>1
  <2>8. s = p BY <2>5, <2>6, <2>7, SeqEqual DEF Path
  <2> QED BY <2>2, <2>8 DEF s
<1>6. q # <<>> BY AppendProperties DEF Path, q
<1> QED BY <1>1, <1>3, <1>4, <1>6 DEF q

(* A path that is not empty has a last name.                                *)
LEMMA Shorter ==
  ASSUME NEW p \in Path, p # <<>>
  PROVE  Front(p) \in Path /\ Last(p) \in Name /\ p = Append(Front(p), Last(p))
<1>1. PICK q \in Path, n \in Name : p = Append(q, n) BY SequenceEmptyOrAppend DEF Path
<1>2. Front(p) = q /\ Last(p) = n BY <1>1, Longer
<1> QED BY <1>1, <1>2

(* The same where the names are of files, neither `.' nor a slash.          *)
LEMMA Plains ==
  /\ FileName \subseteq Name /\ <<>> \in Plain
  /\ \A p \in Plain, n \in FileName : Append(p, n) \in Plain
  /\ \A p \in Path, n \in Name : Append(p, n) \in Plain => p \in Plain /\ n \in FileName
  /\ \A p, q \in Plain : p \o q \in Plain
  /\ \A p, q \in Path : p \o q \in Plain => q \in Plain
<1>1. FileName \subseteq Name BY DEF FileName, Name
<1>2. <<>> \in Plain /\ \A p \in Plain, n \in FileName : Append(p, n) \in Plain
  BY AppendProperties, EmptySeq DEF Plain
<1>3. ASSUME NEW p \in Path, NEW n \in Name, Append(p, n) \in Plain PROVE p \in Plain /\ n \in FileName
  <2>1. Append(p, n) # <<>> BY Longer
  <2>2. PICK q \in Plain, m \in FileName : Append(p, n) = Append(q, m)
    BY <1>3, <2>1, SequenceEmptyOrAppend DEF Plain
  <2>3. q \in Path /\ m \in Name BY <1>1, PlainPath
  <2>4. p = q /\ n = m BY <2>2, <2>3, LongerSame
  <2> QED BY <2>4
<1>4. \A p, q \in Plain : p \o q \in Plain BY ConcatProperties DEF Plain
<1>5. ASSUME NEW p \in Path PROVE \A q \in Path : p \o q \in Plain => q \in Plain
  <2> DEFINE Z == {q \in Path : p \o q \in Plain => q \in Plain}
  <2>1. <<>> \in Z BY <1>2 DEF Path
  <2>2. ASSUME NEW q \in Path, NEW n \in Name, q \in Z PROVE Append(q, n) \in Z
    <3>0. Append(q, n) \in Path /\ p \o q \in Path BY Joined, Longer
    <3>1. p \o Append(q, n) = Append(p \o q, n) BY JoinedMore
    <3> SUFFICES ASSUME p \o Append(q, n) \in Plain PROVE Append(q, n) \in Plain BY <3>0
    <3>2. p \o q \in Plain /\ n \in FileName BY <1>3, <3>0, <3>1
    <3>3. q \in Plain BY <2>2, <3>2
    <3> QED BY <1>2, <3>2, <3>3
  <2> HIDE DEF Z
  <2>3. Path \subseteq Z BY <2>1, <2>2, PathInduction DEF Path
  <2> QED BY <2>3 DEF Z
<1> QED BY <1>1, <1>2, <1>3, <1>4, <1>5

(* A prefix and what comes after it.                                        *)
LEMMA PrefixRest ==
  ASSUME NEW p \in Path, NEW q \in Path, IsPrefix(p, q)
  PROVE  LET w == SubSeq(q, Len(p)+1, Len(q)) IN w \in Path /\ q = p \o w
<1>0. Len(p) \in Nat /\ Len(q) \in Nat BY Joined
<1>1. Len(p) <= Len(q) /\ SubSeq(p, 1, Len(p)) = SubSeq(q, 1, Len(p)) BY DEF IsPrefix
<1>2. SubSeq(p, 1, Len(p)) = p /\ SubSeq(q, 1, Len(q)) = q BY SubSeqFull DEF Path
<1>3. Len(p) \in 0..Len(q) /\ 1 \in 1..Len(q)+1 /\ Len(p) \in 1-1..Len(q) /\ Len(q) \in Len(p)..Len(q)
  BY <1>0, <1>1
<1>4. SubSeq(q, 1, Len(p)) \o SubSeq(q, Len(p)+1, Len(q)) = SubSeq(q, 1, Len(q))
  BY <1>3, ConcatAdjacentSubSeq DEF Path
<1>5. SubSeq(q, Len(p)+1, Len(q)) \in Path
  <2>1. \A i \in Len(p)+1..Len(q) : q[i] \in Name
    <3> SUFFICES ASSUME NEW i \in Len(p)+1..Len(q) PROVE q[i] \in Name OBVIOUS
    <3>1. i \in 1..Len(q) BY <1>0
    <3> QED BY <3>1, ElementOfSeq DEF Path
  <2>2. Len(p)+1 \in Int /\ Len(q) \in Int BY <1>0
  <2> QED BY <2>1, <2>2, SubSeqProperties DEF Path
<1> QED BY <1>1, <1>2, <1>4, <1>5

LEMMA PrefixIs ==
  ASSUME NEW p \in Path, NEW q \in Path
  PROVE  IsPrefix(p, q) <=> \E w \in Path : q = p \o w
<1>0. Len(p) \in Nat /\ Len(q) \in Nat BY Joined
<1>1. ASSUME NEW w \in Path, q = p \o w PROVE IsPrefix(p, q)
  <2>1. Len(q) = Len(p) + Len(w) /\ Len(w) \in Nat BY <1>1, Joined
  <2>2. SubSeq(q, 1, Len(p)) = SubSeq(p, 1, Len(p))
    <3>1. CASE Len(p) = 0
      <4>1. SubSeq(q, 1, Len(p)) = <<>> /\ SubSeq(p, 1, Len(p)) = <<>>
        BY <1>0, <3>1, SubSeqEmpty
      <4> QED BY <4>1
    <3>2. CASE Len(p) # 0
      <4>1. 1 \in 1..Len(p) /\ Len(p) \in 1..Len(p) BY <1>0, <3>2
      <4> QED BY <1>1, <4>1, SubSeqOfConcat1 DEF Path
    <3> QED BY <3>1, <3>2
  <2> QED BY <1>0, <2>1, <2>2 DEF IsPrefix
<1>2. ASSUME IsPrefix(p, q) PROVE \E w \in Path : q = p \o w BY <1>2, PrefixRest
<1> QED BY <1>1, <1>2

(* Of prefixes: each path has itself and the empty one; a prefix of a prefix *)
(* is one; a longer path has one more; two of the same path are in line.    *)
LEMMA PrefixSelf ==
  ASSUME NEW p \in Path
  PROVE  IsPrefix(p, p) /\ IsPrefix(<<>>, p) /\ (IsPrefix(p, <<>>) => p = <<>>)
<1>1. <<>> \in Path /\ p = p \o <<>> /\ p = <<>> \o p BY JoinedEmpty
<1>2. IsPrefix(p, p) /\ IsPrefix(<<>>, p) BY <1>1, PrefixIs
<1>3. ASSUME IsPrefix(p, <<>>) PROVE p = <<>>
  <2>1. PICK w \in Path : <<>> = p \o w BY <1>1, <1>3, PrefixIs
  <2> QED BY <2>1, ConcatSimplifications DEF Path
<1> QED BY <1>2, <1>3

LEMMA PrefixOn ==
  ASSUME NEW p \in Path, NEW q \in Path, NEW r \in Path, IsPrefix(p, q), IsPrefix(q, r)
  PROVE  IsPrefix(p, r)
<1>1. PICK v \in Path : q = p \o v BY PrefixIs
<1>2. PICK w \in Path : r = q \o w BY PrefixIs
<1>3. v \o w \in Path BY Joined
<1>4. r = p \o (v \o w) BY <1>1, <1>2, JoinedTwice
<1> QED BY <1>3, <1>4, PrefixIs

LEMMA PrefixMore ==
  ASSUME NEW p \in Path, NEW q \in Path, NEW n \in Name
  PROVE  /\ IsPrefix(p, Append(q, n)) <=> IsPrefix(p, q) \/ p = Append(q, n)
         /\ IsPrefix(q, Append(q, n)) /\ q # Append(q, n) /\ ~IsPrefix(Append(q, n), q)
<1>1. Append(q, n) \in Path BY Longer
<1>2. IsPrefix(q, Append(q, n))
  <2>1. <<n>> \in Path BY DEF Path
  <2>2. Append(q, n) = q \o <<n>> BY AppendIsConcat DEF Path
  <2> QED BY <1>1, <2>1, <2>2, PrefixIs
<1>3. ASSUME IsPrefix(p, Append(q, n)), p # Append(q, n) PROVE IsPrefix(p, q)
  <2>1. PICK w \in Path : Append(q, n) = p \o w BY <1>1, <1>3, PrefixIs
  <2>2. w # <<>> BY <1>3, <2>1, JoinedEmpty
  <2>3. PICK v \in Path, m \in Name : w = Append(v, m) BY <2>2, SequenceEmptyOrAppend DEF Path
  <2>4. p \o Append(v, m) = Append(p \o v, m) BY JoinedMore
  <2>5. p \o v \in Path /\ Append(q, n) = Append(p \o v, m) BY <2>1, <2>3, <2>4, Joined
  <2>6. q = p \o v BY <2>5, LongerSame
  <2> QED BY <2>6, PrefixIs
<1>4. IsPrefix(p, q) => IsPrefix(p, Append(q, n)) BY <1>1, <1>2, PrefixOn
<1>5. p = Append(q, n) => IsPrefix(p, Append(q, n)) BY <1>1, PrefixSelf
<1>6. Len(q) \in Nat /\ Len(Append(q, n)) = Len(q) + 1 BY PathAppend
<1>7. q # Append(q, n) /\ ~IsPrefix(Append(q, n), q) BY <1>6 DEF IsPrefix
<1> QED BY <1>2, <1>3, <1>4, <1>5, <1>7

LEMMA PrefixLine ==
  ASSUME NEW p \in Path, NEW q \in Path, NEW r \in Path, IsPrefix(p, r), IsPrefix(q, r)
  PROVE  IsPrefix(p, q) \/ IsPrefix(q, p)
<1> DEFINE Z == {x \in Path : IsPrefix(p, x) /\ IsPrefix(q, x) => IsPrefix(p, q) \/ IsPrefix(q, p)}
<1>1. <<>> \in Z
  <2>1. <<>> \in Path BY JoinedEmpty
  <2>2. IsPrefix(p, <<>>) => p = <<>> BY PrefixSelf
  <2>3. p = <<>> => IsPrefix(p, q) BY PrefixSelf
  <2> QED BY <2>1, <2>2, <2>3
<1>2. ASSUME NEW x \in Path, NEW n \in Name, x \in Z PROVE Append(x, n) \in Z
  <2>1. Append(x, n) \in Path BY Longer
  <2>2. IsPrefix(p, Append(x, n)) => IsPrefix(p, x) \/ p = Append(x, n) BY PrefixMore
  <2>3. IsPrefix(q, Append(x, n)) => IsPrefix(q, x) \/ q = Append(x, n) BY PrefixMore
  <2> QED BY <1>2, <2>1, <2>2, <2>3
<1> HIDE DEF Z
<1>3. Path \subseteq Z BY <1>1, <1>2, PathInduction DEF Path
<1> QED BY <1>3 DEF Z

LEMMA PrefixBoth ==
  ASSUME NEW p \in Path, NEW q \in Path, IsPrefix(p, q), IsPrefix(q, p)
  PROVE  p = q
<1>1. PICK v \in Path : q = p \o v BY PrefixIs
<1>2. PICK w \in Path : p = q \o w BY PrefixIs
<1>3. Len(q) = Len(p) + Len(v) /\ Len(p) = Len(q) + Len(w) /\ Len(p) \in Nat /\ Len(v) \in Nat /\ Len(w) \in Nat
  BY <1>1, <1>2, Joined
<1>4. v = <<>> BY <1>3, EmptySeq DEF Path
<1> QED BY <1>1, <1>4, JoinedEmpty

(* A path joined to a longer one.                                           *)
LEMMA PrefixJoined ==
  ASSUME NEW p \in Path, NEW q \in Path, NEW r \in Path
  PROVE  /\ IsPrefix(p, p \o q)
         /\ IsPrefix(p \o q, p \o r) <=> IsPrefix(q, r)
<1>1. p \o q \in Path /\ p \o r \in Path BY Joined
<1>2. IsPrefix(p, p \o q) BY <1>1, PrefixIs
<1>3. ASSUME IsPrefix(q, r) PROVE IsPrefix(p \o q, p \o r)
  <2>1. PICK w \in Path : r = q \o w BY <1>3, PrefixIs
  <2>2. p \o r = (p \o q) \o w BY <2>1, JoinedTwice
  <2> QED BY <1>1, <2>2, PrefixIs
<1>4. ASSUME IsPrefix(p \o q, p \o r) PROVE IsPrefix(q, r)
  <2>1. PICK w \in Path : p \o r = (p \o q) \o w BY <1>1, <1>4, PrefixIs
  <2>2. q \o w \in Path BY Joined
  <2>4. p \o r = p \o (q \o w) BY <2>1, JoinedTwice
  <2>3. r = q \o w BY <2>2, <2>4, JoinedSame
  <2> QED BY <2>3, PrefixIs
<1> QED BY <1>2, <1>3, <1>4

-----------------------------------------------------------------------------
(* A node is one of the three kinds, and has what its kind has.             *)
LEMMA Kinds ==
  ASSUME NEW t, TreeOK(t), NEW q \in DOMAIN t
  PROVE  /\ q \in Plain /\ q \in Path /\ NodeOK(t[q]) /\ t[q].kind \in {"dir", "file", "link"}
         /\ t[q].kind = "dir" => t[q] = Directory
         /\ t[q].kind = "file" => t[q] = File(t[q].data)
         /\ t[q].kind = "link" => t[q] = LinkTo(t[q].to) /\ t[q].to \in Plain
<1>1. q \in Plain /\ NodeOK(t[q]) BY DEF TreeOK, Plain
<1>2. q \in Path BY <1>1, PlainPath
<1>3. Directory.kind = "dir" BY DEF Directory
<1> QED BY <1>1, <1>2, <1>3 DEF NodeOK, Plain

(* Whatever has something in it is a directory.                             *)
LEMMA Above ==
  ASSUME NEW t, TreeOK(t), NEW p \in Path, NEW q \in DOMAIN t, IsPrefix(p, q)
  PROVE  p \in DOMAIN t /\ p \in Plain /\ (p # q => Node(t, p, "dir"))
<1> DEFINE Z == {x \in Path : x \in DOMAIN t =>
                   \A y \in Path : IsPrefix(y, x) => y = x \/ Node(t, y, "dir")}
<1>1. <<>> \in Z
  <2>1. <<>> \in Path BY JoinedEmpty
  <2>2. \A y \in Path : IsPrefix(y, <<>>) => y = <<>> BY PrefixSelf
  <2> QED BY <2>1, <2>2
<1>2. ASSUME NEW x \in Path, NEW n \in Name, x \in Z PROVE Append(x, n) \in Z
  <2>0. Append(x, n) \in Path /\ Append(x, n) # <<>> /\ Front(Append(x, n)) = x BY Longer
  <2> SUFFICES ASSUME Append(x, n) \in DOMAIN t, NEW y \in Path, IsPrefix(y, Append(x, n))
               PROVE  y = Append(x, n) \/ Node(t, y, "dir")
    BY <2>0
  <2>1. Node(t, x, "dir") BY <2>0 DEF TreeOK
  <2>2. IsPrefix(y, x) \/ y = Append(x, n) BY PrefixMore
  <2>3. x \in DOMAIN t BY <2>1 DEF Node
  <2> QED BY <1>2, <2>1, <2>2, <2>3
<1> HIDE DEF Z
<1>3. Path \subseteq Z BY <1>1, <1>2, PathInduction DEF Path
<1>4. q \in Path BY Kinds
<1>5. p = q \/ Node(t, p, "dir") BY <1>3, <1>4 DEF Z
<1>6. p \in DOMAIN t BY <1>5 DEF Node
<1> QED BY <1>5, <1>6, Kinds

(* What is no link leads nowhere else.                                      *)
LEMMA Straight ==
  ASSUME NEW t, NEW q, ~Node(t, q, "link")
  PROVE  Through(t, q) = q
BY DEF Through, Follow

(* One tree becomes another by new nodes and new contents of files.         *)
Grows(t, u) ==
  \A q \in DOMAIN t :
    q \in DOMAIN u /\ u[q].kind = t[q].kind /\ (t[q].kind # "file" => u[q] = t[q])

LEMMA GrowsOn ==
  ASSUME NEW t, NEW u, NEW v, Grows(t, u), Grows(u, v)
  PROVE  Grows(t, v)
BY DEF Grows

LEMMA GrowsNode ==
  ASSUME NEW t, NEW u, Grows(t, u), NEW q \in DOMAIN t, NEW kind
  PROVE  q \in DOMAIN u /\ (Node(u, q, kind) <=> Node(t, q, kind)) /\ (t[q].kind = "link" => u[q].to = t[q].to)
BY DEF Grows, Node

(* What something was reached through is still where it was.                *)
LEMMA ThroughSame ==
  ASSUME NEW t, NEW u, TreeOK(t), Grows(t, u), NEW q \in DOMAIN t, Node(t, Through(t, q), "dir")
  PROVE  Through(u, q) = Through(t, q)
<1> DEFINE x == Follow(t, q)
<1>1. Follow(u, q) = x BY GrowsNode DEF Follow, Node
<1>2. x \in DOMAIN t
  <2>1. CASE x \notin DOMAIN t BY <2>1 DEF Through, Follow, Node
  <2> QED BY <2>1
<1> HIDE DEF x
<1>3. Follow(u, x) = Follow(t, x) BY <1>2, GrowsNode DEF Follow, Node
<1> QED BY <1>1, <1>3 DEF Through, x

LEMMA ThroughStays ==
  ASSUME NEW t, NEW u, TreeOK(t), Grows(t, u), NEW q \in DOMAIN t,
         NEW n \in Name, Node(t, Through(t, q), "dir") \/ Append(Through(t, q), n) \in DOMAIN t
  PROVE  Through(u, q) = Through(t, q) /\ Along(u, q, n) = Along(t, q, n)
<1> DEFINE y == Through(t, q)
<1>1. q \in Path BY Kinds
<1>2. y \in Path BY <1>1, ThroughType
<1>3. y \in DOMAIN t
  <2>1. CASE Node(t, y, "dir") BY <2>1 DEF Node
  <2>2. CASE Append(y, n) \in DOMAIN t
    <3>1. IsPrefix(y, Append(y, n)) BY <1>2, PrefixMore
    <3> QED BY <1>2, <2>2, <3>1, Above
  <2> QED BY <2>1, <2>2
<1>4. Follow(u, q) = Follow(t, q) BY GrowsNode DEF Follow, Node
<1>5. CASE Follow(t, q) \in DOMAIN t
  <2>1. Follow(u, Follow(t, q)) = Follow(t, Follow(t, q)) BY <1>5, GrowsNode DEF Follow, Node
  <2>2. Through(u, q) = y BY <1>4, <2>1 DEF Through
  <2>3. Node(u, y, "dir") <=> Node(t, y, "dir") BY <1>3, GrowsNode
  <2> QED BY <2>2, <2>3 DEF Along
<1>6. CASE Follow(t, q) \notin DOMAIN t
  <2>1. y = Follow(t, q) BY <1>6 DEF Through, Follow, Node
  <2> QED BY <1>3, <1>6, <2>1
<1> QED BY <1>5, <1>6

(* A node is reached through nodes.                                         *)
LEMMA Reached ==
  ASSUME NEW t, TreeOK(t), NEW q \in Path, NEW n \in Name, Along(t, q, n) \in DOMAIN t
  PROVE  q \in DOMAIN t /\ (Node(t, Through(t, q), "dir") \/ Append(Through(t, q), n) \in DOMAIN t)
         /\ Node(t, Through(t, q), "dir")
<1> DEFINE y == Through(t, q)
<1>1. y \in Path BY ThroughType
<1>2. Node(t, y, "dir")
  <2>1. CASE n \notin FileName /\ Node(t, y, "dir") BY <2>1
  <2>2. CASE ~(n \notin FileName /\ Node(t, y, "dir"))
    <3>1. Append(y, n) \in DOMAIN t BY <2>2 DEF Along
    <3>2. IsPrefix(y, Append(y, n)) /\ y # Append(y, n) BY <1>1, PrefixMore
    <3> QED BY <1>1, <3>1, <3>2, Above
  <2> QED BY <2>1, <2>2
<1>3. q \in DOMAIN t
  <2>1. CASE Node(t, q, "link") BY <2>1 DEF Node
  <2>2. CASE ~Node(t, q, "link")
    <3>1. y = q BY <2>2, Straight
    <3> QED BY <1>2, <3>1 DEF Node
  <2> QED BY <2>1, <2>2
<1> QED BY <1>2, <1>3

(* A node that was reached is reached by the same path later.               *)
LEMMA RealStays ==
  ASSUME NEW t, NEW u, TreeOK(t), TreeOK(u), Grows(t, u), NEW p \in Path, Real(t, p) \in DOMAIN t
  PROVE  Real(u, p) = Real(t, p)
<1> DEFINE Z == {x \in Path : Real(t, x) \in DOMAIN t => Real(u, x) = Real(t, x)}
<1>1. <<>> \in Z BY RealIs, JoinedEmpty
<1>2. ASSUME NEW x \in Path, NEW n \in Name, x \in Z PROVE Append(x, n) \in Z
  <2>1. Append(x, n) \in Path BY Longer
  <2> SUFFICES ASSUME Real(t, Append(x, n)) \in DOMAIN t PROVE Real(u, Append(x, n)) = Real(t, Append(x, n))
    BY <2>1
  <2>2. Real(t, Append(x, n)) = Along(t, Real(t, x), n) /\ Real(u, Append(x, n)) = Along(u, Real(u, x), n)
    BY RealIs
  <2>3. Real(t, x) \in Path BY RealIs
  <2>4. Real(t, x) \in DOMAIN t /\ Node(t, Through(t, Real(t, x)), "dir") BY <2>2, <2>3, Reached
  <2>5. Real(u, x) = Real(t, x) BY <1>2, <2>4
  <2>6. Along(u, Real(t, x), n) = Along(t, Real(t, x), n) BY <2>4, ThroughStays
  <2> QED BY <2>2, <2>5, <2>6
<1> HIDE DEF Z
<1>3. Path \subseteq Z BY <1>1, <1>2, PathInduction DEF Path
<1> QED BY <1>3 DEF Z

(* Where no link is in the way, a path leads as it reads.                   *)
LEMMA RealOn ==
  ASSUME NEW t, TreeOK(t), NEW p \in Path, NEW r \in Plain,
         \A x \in Plain : IsPrefix(x, r) /\ x # r => ~Node(t, Real(t, p) \o x, "link")
  PROVE  Real(t, p \o r) = Real(t, p) \o r
<1> DEFINE q == Real(t, p)
           Z == {x \in Plain : IsPrefix(x, r) => Real(t, p \o x) = q \o x}
<1>0. q \in Path BY RealIs
<1>1. <<>> \in Z BY <1>0, JoinedEmpty, Plains
<1>2. ASSUME NEW x \in Plain, NEW n \in FileName, x \in Z PROVE Append(x, n) \in Z
  <2>1. x \in Path /\ n \in Name /\ Append(x, n) \in Plain /\ Append(x, n) \in Path /\ r \in Path
    BY PlainPath, Plains
  <2> SUFFICES ASSUME IsPrefix(Append(x, n), r) PROVE Real(t, p \o Append(x, n)) = q \o Append(x, n)
    BY <2>1
  <2>2. IsPrefix(x, Append(x, n)) /\ x # Append(x, n) /\ ~IsPrefix(Append(x, n), x) BY <2>1, PrefixMore
  <2>3. IsPrefix(x, r) BY <2>1, <2>2, PrefixOn
  <2>4. x # r BY <2>2
  <2>5. Real(t, p \o x) = q \o x BY <1>2, <2>3
  <2>6. ~Node(t, q \o x, "link") BY <2>3, <2>4
  <2>13. p \o Append(x, n) = Append(p \o x, n) BY <2>1, JoinedMore
  <2>7. p \o x \in Path BY <2>1, Joined
  <2>14. Real(t, Append(p \o x, n)) = Along(t, Real(t, p \o x), n) BY <2>1, <2>7, RealMore
  <2>8. Real(t, Append(p \o x, n)) = Along(t, q \o x, n) BY <2>5, <2>14
  <2>9. Through(t, q \o x) = q \o x BY <2>6, Straight
  <2>11. Along(t, q \o x, n) = Append(q \o x, n) BY <2>9 DEF Along
  <2>12. q \o Append(x, n) = Append(q \o x, n) BY <1>0, <2>1, JoinedMore
  <2> QED BY <2>8, <2>11, <2>12, <2>13
<1> HIDE DEF Z
<1>3. Plain \subseteq Z BY <1>1, <1>2, PathInduction DEF Plain
<1>4. IsPrefix(r, r) BY PlainPath, PrefixSelf
<1> QED BY <1>3, <1>4 DEF Z

(* So does one that leads to a node.                                        *)
LEMMA RealNode ==
  ASSUME NEW t, TreeOK(t), NEW p \in Path, NEW r \in Plain, Real(t, p) \o r \in DOMAIN t
  PROVE  Real(t, p \o r) = Real(t, p) \o r
<1> DEFINE q == Real(t, p)
<1>1. q \in Path /\ r \in Path BY RealIs, PlainPath
<1>2. ASSUME NEW x \in Plain, IsPrefix(x, r), x # r PROVE ~Node(t, q \o x, "link")
  <2>1. x \in Path /\ q \o x \in Path BY <1>1, PlainPath, Joined
  <2>2. IsPrefix(q \o x, q \o r) BY <1>1, <1>2, <2>1, PrefixJoined
  <2>3. q \o x # q \o r BY <1>1, <1>2, <2>1, JoinedSame
  <2>4. Node(t, q \o x, "dir") BY <2>1, <2>2, <2>3, Above
  <2> QED BY <2>4 DEF Node
<1> QED BY <1>2, RealOn

-----------------------------------------------------------------------------
(* What readdir gives, of the directory a path leads to in the end.         *)
LEMMA FinalType ==
  ASSUME NEW t, TreeOK(t), NEW p \in Path
  PROVE  Final(t, p) \in Path
BY RealIs, ThroughType DEF Final

LEMMA NamesIs ==
  ASSUME NEW t, TreeOK(t), NEW p \in Path
  PROVE  /\ Names(t, p) \subseteq FileName /\ Names(t, p) \subseteq Name
         /\ \A n \in Name : n \in Names(t, p) <=> Append(Final(t, p), n) \in DOMAIN t
<1> DEFINE y == Final(t, p)
<1>0. y \in Path BY FinalType
<1>1. ASSUME NEW q \in DOMAIN t, q # <<>>, Front(q) = y PROVE Last(q) \in FileName /\ q = Append(y, Last(q))
  <2>1. q \in Path /\ q \in Plain BY Kinds
  <2>2. Last(q) \in Name /\ q = Append(y, Last(q)) BY <1>1, <2>1, Shorter
  <2> QED BY <1>0, <2>1, <2>2, Plains
<1>2. Names(t, p) \subseteq FileName BY <1>1 DEF Names
<1>3. ASSUME NEW n \in Name, Append(y, n) \in DOMAIN t PROVE n \in Names(t, p)
  <2>1. Append(y, n) # <<>> /\ Front(Append(y, n)) = y /\ Last(Append(y, n)) = n BY <1>0, Longer
  <2>2. Append(y, n) \in {x \in DOMAIN t : x # <<>> /\ Front(x) = y} BY <1>3, <2>1
  <2>3. Last(Append(y, n)) \in Names(t, p) BY <2>2 DEF Names
  <2> QED BY <2>1, <2>3
<1>4. ASSUME NEW n \in Names(t, p) PROVE Append(y, n) \in DOMAIN t
  <2>1. PICK q \in DOMAIN t : q # <<>> /\ Front(q) = y /\ n = Last(q) BY DEF Names
  <2> QED BY <1>1, <2>1
<1>5. Names(t, p) \subseteq Name BY <1>2, Plains
<1> QED BY <1>2, <1>3, <1>4, <1>5

(* A tree with a node put in a place.                                       *)
Put(t, q, node) == [x \in DOMAIN t \cup {q} |-> IF x = q THEN node ELSE t[x]]

LEMMA PutIs ==
  ASSUME NEW t, NEW q, NEW node
  PROVE  /\ DOMAIN Put(t, q, node) = DOMAIN t \cup {q} /\ Put(t, q, node)[q] = node
         /\ \A x \in DOMAIN t : x # q => Put(t, q, node)[x] = t[x]
BY DEF Put

(* A node put where there was none, in a directory.                         *)
LEMMA PutNew ==
  ASSUME NEW t, TreeOK(t), NEW q \in Plain, q \notin DOMAIN t, q # <<>>,
         Node(t, Front(q), "dir"), NEW node, NodeOK(node)
  PROVE  TreeOK(Put(t, q, node)) /\ Grows(t, Put(t, q, node))
<1> DEFINE u == Put(t, q, node)
<1>1. /\ DOMAIN u = DOMAIN t \cup {q} /\ u[q] = node
      /\ \A x \in DOMAIN t : x # q => u[x] = t[x]
  BY DEF Put
<1> HIDE DEF u
<1>2. \A x \in DOMAIN t : x \in DOMAIN u /\ u[x] = t[x] BY <1>1
<1>3. \A x, kind : Node(t, x, kind) => Node(u, x, kind) BY <1>2 DEF Node
<1>4. Grows(t, u) BY <1>2 DEF Grows
<1>5. DOMAIN u \subseteq Plain /\ Node(u, <<>>, "dir") BY <1>1, <1>3 DEF TreeOK, Plain
<1>6. ASSUME NEW x \in DOMAIN u PROVE NodeOK(u[x]) /\ (x # <<>> => Node(u, Front(x), "dir"))
  <2>1. CASE x \in DOMAIN t BY <1>2, <1>3, <2>1 DEF TreeOK
  <2>2. CASE x = q BY <1>1, <1>3, <2>2
  <2> QED BY <1>1, <2>1, <2>2
<1>7. TreeOK(u) BY <1>5, <1>6 DEF TreeOK, Plain
<1> QED BY <1>4, <1>7 DEF u

(* A file put in the place of a file.                                       *)
LEMMA PutFile ==
  ASSUME NEW t, TreeOK(t), NEW q, Node(t, q, "file"), NEW d
  PROVE  TreeOK(Put(t, q, File(d))) /\ Grows(t, Put(t, q, File(d)))
<1> DEFINE u == Put(t, q, File(d))
<1>1. /\ DOMAIN u = DOMAIN t \cup {q} /\ u[q] = File(d)
      /\ \A x \in DOMAIN t : x # q => u[x] = t[x]
  BY DEF Put
<1>2. NodeOK(File(d)) /\ File(d).kind = "file"
  <2>1. File(d).kind = "file" /\ File(d).data = d BY DEF File
  <2> QED BY <2>1 DEF NodeOK
<1>3. q \in DOMAIN t /\ t[q].kind = "file" /\ DOMAIN u = DOMAIN t BY <1>1 DEF Node
<1> HIDE DEF u
<1>4. \A x \in DOMAIN t : u[x].kind = t[x].kind /\ (t[x].kind # "file" => u[x] = t[x]) BY <1>1, <1>2, <1>3
<1>5. Grows(t, u) BY <1>3, <1>4 DEF Grows
<1>6. \A x, kind : Node(t, x, kind) <=> Node(u, x, kind) BY <1>3, <1>4 DEF Node
<1>7. \A x \in DOMAIN u : NodeOK(u[x]) BY <1>1, <1>2, <1>3 DEF TreeOK
<1>8. TreeOK(u) BY <1>3, <1>6, <1>7 DEF TreeOK
<1> QED BY <1>5, <1>8 DEF u

(* A place a node may be put in is in a directory, where its path led.      *)
LEMMA NewPlace ==
  ASSUME NEW t, TreeOK(t), NEW p \in Path, Real(t, p) \notin DOMAIN t, Real(t, p) # <<>>,
         Node(t, Front(Real(t, p)), "dir")
  PROVE  /\ Real(t, p) \in Plain
         /\ \A u : TreeOK(u) /\ Grows(t, u) => Real(u, p) = Real(t, p)
<1> DEFINE q == Real(t, p)
<1>1. p # <<>> BY RealIs
<1>2. PICK v \in Path, n \in Name : p = Append(v, n) BY <1>1, SequenceEmptyOrAppend DEF Path
<1> DEFINE x == Real(t, v)
           y == Through(t, x)
<1>3. x \in Path /\ y \in Path /\ (x \in Plain => y \in Plain)
  <2>1. x \in Path BY RealIs
  <2> QED BY <2>1, ThroughType
<1>4. q = Along(t, x, n) BY <1>2, RealMore
<1>5. ~(n \notin FileName /\ Node(t, y, "dir")) BY <1>4 DEF Along, Node
<1>6. q = Append(y, n) BY <1>4, <1>5 DEF Along
<1>7. Front(q) = y BY <1>3, <1>6, Longer
<1>8. Node(t, y, "dir") BY <1>7
<1>9. n \in FileName BY <1>5, <1>8
<1>10. x \in DOMAIN t
  <2>1. CASE Node(t, x, "link") BY <2>1 DEF Node
  <2>2. CASE ~Node(t, x, "link")
    <3>1. y = x BY <2>2, Straight
    <3> QED BY <1>8, <3>1 DEF Node
  <2> QED BY <2>1, <2>2
<1>11. y \in Plain BY <1>3, <1>10, Kinds
<1>12. q \in Plain BY <1>6, <1>9, <1>11, Plains
<1>13. ASSUME NEW u, TreeOK(u), Grows(t, u) PROVE Real(u, p) = q
  <2>1. Real(u, v) = x BY <1>10, <1>13, RealStays
  <2>2. Along(u, x, n) = Along(t, x, n) BY <1>8, <1>10, <1>13, ThroughStays
  <2>3. Real(u, p) = Along(u, Real(u, v), n) BY <1>2, <1>13, RealMore
  <2> QED BY <1>4, <2>1, <2>2, <2>3
<1> QED BY <1>12, <1>13

(* A node made where it may be.                                             *)
LEMMA MadeIs ==
  ASSUME NEW t, TreeOK(t), NEW v \in Path, NEW p, NEW node, NodeOK(node)
  PROVE  LET q == Real(t, v)
             u == Made(t, q, p, node)
         IN /\ Addable(t, q, p) => u = Put(t, q, node) /\ Real(u, v) = q /\ q \in Plain
            /\ ~Addable(t, q, p) => u = t
            /\ TreeOK(u) /\ Grows(t, u)
<1> DEFINE q == Real(t, v)
           u == Made(t, q, p, node)
<1>1. ASSUME ~Addable(t, q, p) PROVE u = t /\ TreeOK(u) /\ Grows(t, u)
  <2>1. u = t BY <1>1 DEF Made
  <2> QED BY <2>1 DEF Grows
<1>2. ASSUME Addable(t, q, p) PROVE u = Put(t, q, node) /\ Real(u, v) = q /\ q \in Plain /\ TreeOK(u) /\ Grows(t, u)
  <2>1. u = Put(t, q, node) BY <1>2 DEF Made, Put
  <2>2. q \notin DOMAIN t /\ q # <<>> /\ Node(t, Front(q), "dir") BY <1>2 DEF Addable
  <2>3. q \in Plain /\ \A w : TreeOK(w) /\ Grows(t, w) => Real(w, v) = q BY <2>2, NewPlace
  <2>4. TreeOK(u) /\ Grows(t, u) BY <2>1, <2>2, <2>3, PutNew
  <2> QED BY <2>1, <2>3, <2>4
<1> QED BY <1>1, <1>2

(* A path without the slashes at its end.                                   *)
LEMMA StemMore ==
  /\ Stem(<<>>) = <<>>
  /\ \A p \in Path, n \in Name : Stem(Append(p, n)) = IF n = "/" THEN Stem(p) ELSE Append(p, n)
<1> DEFINE K(p) == {0} \cup {k \in DOMAIN p : p[k] # "/"}
<1>1. Stem(<<>>) = <<>>
  <2>1. DOMAIN <<>> = {} OBVIOUS
  <2>2. K(<<>>) = {0} BY <2>1
  <2>3. Max({0}) \in {0}
    <3>1. {0} \in SUBSET Nat /\ {0} # {} /\ 0 \in Nat /\ \A x \in {0} : x <= 0 OBVIOUS
    <3> QED BY <3>1, GreatestNat
  <2>4. Max(K(<<>>)) = 0 BY <2>2, <2>3
  <2>5. SubSeq(<<>>, 1, 0) = <<>> OBVIOUS
  <2> QED BY <2>4, <2>5 DEF Stem
<1>2. ASSUME NEW p \in Path, NEW n \in Name PROVE Stem(Append(p, n)) = IF n = "/" THEN Stem(p) ELSE Append(p, n)
  <2> DEFINE q == Append(p, n)
             l == Len(p)
  <2>1. q \in Path /\ l \in Nat /\ Len(q) = l + 1 /\ q[l + 1] = n /\ \A k \in 1..l : q[k] = p[k] BY PathAppend
  <2>2. DOMAIN p = 1..l /\ DOMAIN q = 1..l+1 BY <2>1, LenProperties DEF Path
  <2>9. q = p \o <<n>> /\ <<n>> \in Path BY AppendIsConcat DEF Path
  <2> HIDE DEF q, l
  <2>3. K(p) \in SUBSET (0..l) /\ K(q) \in SUBSET (0..l+1) BY <2>1, <2>2
  <2>4. Max(K(p)) \in K(p)
    <3>1. K(p) \in SUBSET Nat /\ K(p) # {} /\ \A x \in K(p) : x <= l BY <2>1, <2>3
    <3> QED BY <2>1, <3>1, GreatestNat
  <2>5. CASE n = "/"
    <3>1. K(q) = K(p) BY <2>1, <2>2, <2>5
    <3>2. PICK m \in 0..l : m = Max(K(p)) BY <2>3, <2>4
    <3>3. Stem(p) = SubSeq(p, 1, m) /\ Stem(q) = SubSeq(q, 1, m) BY <3>1, <3>2 DEF Stem
    <3>4. SubSeq(q, 1, m) = SubSeq(p, 1, m)
      <4>1. CASE m = 0 BY <4>1, SubSeqEmpty
      <4>2. CASE m # 0
        <5>1. 1 \in 1..l /\ m \in 1..l BY <2>1, <3>2, <4>2
        <5> QED BY <2>9, <5>1, SubSeqOfConcat1 DEF Path, l
      <4> QED BY <4>1, <4>2
    <3> QED BY <2>5, <3>3, <3>4 DEF q
  <2>6. CASE n # "/"
    <3>1. l + 1 \in K(q) BY <2>1, <2>2, <2>6
    <3>2. K(q) \in SUBSET Nat /\ K(q) # {} /\ l + 1 \in Nat /\ \A x \in K(q) : x <= l + 1 BY <2>1, <2>3
    <3>3. Max(K(q)) \in K(q) /\ \A y \in K(q) : y <= Max(K(q)) BY <3>2, GreatestNat
    <3>4. PICK m \in 0..l+1 : m = Max(K(q)) BY <2>3, <3>3
    <3>5. l + 1 <= m BY <3>1, <3>3, <3>4
    <3>6. m = Len(q) BY <2>1, <3>4, <3>5
    <3>7. Stem(q) = SubSeq(q, 1, Len(q)) BY <3>4, <3>6 DEF Stem
    <3>8. Stem(q) = q BY <2>1, <3>7, SubSeqFull DEF Path
    <3> QED BY <2>6, <3>8 DEF q
  <2> QED BY <2>5, <2>6
<1> QED BY <1>1, <1>2

LEMMA StemType ==
  ASSUME NEW p \in Path
  PROVE  Stem(p) \in Path /\ (Stem(p) # <<>> => Last(Stem(p)) # "/")
<1> DEFINE Z == {x \in Path : Stem(x) \in Path /\ (Stem(x) # <<>> => Last(Stem(x)) # "/")}
<1>1. <<>> \in Z BY JoinedEmpty, StemMore
<1>2. ASSUME NEW x \in Path, NEW n \in Name, x \in Z PROVE Append(x, n) \in Z
  <2>1. Append(x, n) \in Path /\ Last(Append(x, n)) = n BY Longer
  <2>2. Stem(Append(x, n)) = IF n = "/" THEN Stem(x) ELSE Append(x, n) BY StemMore
  <2> QED BY <1>2, <2>1, <2>2
<1> HIDE DEF Z
<1>3. Path \subseteq Z BY <1>1, <1>2, PathInduction DEF Path
<1> QED BY <1>3 DEF Z

(* It leads to the same directory; to a node, if the path does.             *)
LEMMA StemLeads ==
  ASSUME NEW t, TreeOK(t), NEW p \in Path
  PROVE  /\ Node(t, Real(t, Stem(p)), "dir") => Real(t, p) = Real(t, Stem(p))
         /\ Real(t, p) \in DOMAIN t => Real(t, Stem(p)) \in DOMAIN t
         /\ Node(t, Final(t, p), "dir") => Final(t, Stem(p)) = Final(t, p)
<1> DEFINE A(x) == Node(t, Real(t, Stem(x)), "dir") => Real(t, x) = Real(t, Stem(x))
           B(x) == Real(t, x) \in DOMAIN t => Real(t, Stem(x)) \in DOMAIN t
           C(x) == Node(t, Final(t, x), "dir") => Final(t, Stem(x)) = Final(t, x)
           Z == {x \in Path : A(x) /\ B(x) /\ C(x)}
<1>1. <<>> \in Z BY JoinedEmpty, StemMore
<1>2. ASSUME NEW x \in Path, NEW n \in Name, x \in Z PROVE Append(x, n) \in Z
  <2> DEFINE q == Append(x, n)
             y == Through(t, Real(t, x))
  <2>1. q \in Path /\ Stem(q) = IF n = "/" THEN Stem(x) ELSE q BY Longer, StemMore
  <2>2. CASE n # "/" BY <2>1, <2>2
  <2>3. CASE n = "/"
    <3>1. Stem(q) = Stem(x) /\ n \notin FileName BY <2>1, <2>3 DEF FileName
    <3>2. Real(t, q) = Along(t, Real(t, x), n) BY RealMore
    <3>3. Real(t, x) \in Path BY RealIs
    <3>4. y \in Path BY <3>3, ThroughType
    <3> HIDE DEF q
    <3>5. A(q)
      <4> SUFFICES ASSUME Node(t, Real(t, Stem(x)), "dir") PROVE Real(t, q) = Real(t, Stem(x)) BY <3>1
      <4>1. Real(t, x) = Real(t, Stem(x)) BY <1>2
      <4>2. y = Real(t, x) BY <4>1, Straight DEF Node
      <4> QED BY <3>1, <3>2, <4>1, <4>2 DEF Along
    <3>6. B(q)
      <4> SUFFICES ASSUME Real(t, q) \in DOMAIN t PROVE Real(t, Stem(x)) \in DOMAIN t BY <3>1
      <4>1. Real(t, x) \in DOMAIN t BY <3>2, <3>3, Reached
      <4> QED BY <1>2, <4>1
    <3>7. C(q)
      <4> SUFFICES ASSUME Node(t, Final(t, q), "dir") PROVE Final(t, Stem(x)) = Final(t, q) BY <3>1
      <4>1. CASE Node(t, y, "dir")
        <5>1. Real(t, q) = y BY <3>1, <3>2, <4>1 DEF Along
        <5>2. Final(t, q) = y BY <4>1, <5>1, Straight DEF Node, Final
        <5>3. Final(t, x) = y BY DEF Final
        <5> QED BY <1>2, <4>1, <5>2, <5>3
      <4>2. CASE ~Node(t, y, "dir")
        <5>1. Real(t, q) = Append(y, n) BY <3>2, <4>2 DEF Along
        <5>2. Append(y, n) \notin DOMAIN t
          <6> SUFFICES ASSUME Append(y, n) \in DOMAIN t PROVE FALSE OBVIOUS
          <6>1. Append(y, n) \in Plain BY Kinds
          <6> QED BY <3>1, <3>4, <6>1, Plains
        <5>3. Final(t, q) = Real(t, q) BY <5>1, <5>2, Straight DEF Node, Final
        <5> QED BY <5>1, <5>2, <5>3 DEF Node
      <4> QED BY <4>1, <4>2
    <3>8. q \in Path BY <2>1
    <3> HIDE DEF A, B, C
    <3>9. q \in Z BY <3>5, <3>6, <3>7, <3>8
    <3> QED BY <3>9 DEF q
  <2> QED BY <2>2, <2>3
<1> HIDE DEF Z
<1>3. Path \subseteq Z BY <1>1, <1>2, PathInduction DEF Path
<1> QED BY <1>3 DEF Z

(* Below what leads to no directory, nothing is there and nothing is put.   *)
LEMMA NoPlace ==
  ASSUME NEW t, TreeOK(t), NEW b \in Path, ~Node(t, Final(t, b), "dir"), NEW r \in Plain, r # <<>>
  PROVE  /\ Real(t, b \o r) \notin DOMAIN t /\ ~Node(t, Front(Real(t, b \o r)), "dir")
         /\ Final(t, b \o r) = Real(t, b \o r)
<1> DEFINE G(x) == Real(t, b \o x) \notin DOMAIN t /\ ~Node(t, Front(Real(t, b \o x)), "dir")
           Z == {x \in Plain : x # <<>> => G(x)}
<1>1. <<>> \in Z BY Plains
<1>2. ASSUME NEW x \in Plain, NEW n \in FileName, x \in Z PROVE Append(x, n) \in Z
  <2>1. x \in Path /\ n \in Name /\ Append(x, n) \in Plain BY PlainPath, Plains
  <2>2. b \o x \in Path /\ b \o Append(x, n) = Append(b \o x, n) BY <2>1, Joined, JoinedMore
  <2> DEFINE y == Through(t, Real(t, b \o x))
  <2>3. ~Node(t, y, "dir")
    <3>1. CASE x = <<>>
      <4>1. b \o x = b BY <3>1, JoinedEmpty
      <4> QED BY <4>1 DEF Final
    <3>2. CASE x # <<>>
      <4>1. Real(t, b \o x) \notin DOMAIN t BY <1>2, <3>2
      <4>2. y = Real(t, b \o x) BY <4>1, Straight DEF Node
      <4> QED BY <4>1, <4>2 DEF Node
    <3> QED BY <3>1, <3>2
  <2>4. y \in Path BY <2>2, RealIs, ThroughType
  <2> HIDE DEF y
  <2>5. Real(t, b \o Append(x, n)) = Append(y, n) BY <2>1, <2>2, RealMore DEF Along, y
  <2>6. Front(Append(y, n)) = y /\ Append(y, n) \in Path BY <2>1, <2>4, Longer
  <2>7. Append(y, n) \notin DOMAIN t
    <3>1. IsPrefix(y, Append(y, n)) /\ y # Append(y, n) BY <2>1, <2>4, PrefixMore
    <3> QED BY <2>3, <2>4, <3>1, Above
  <2> QED BY <2>1, <2>3, <2>5, <2>6, <2>7
<1> HIDE DEF Z
<1>3. Plain \subseteq Z BY <1>1, <1>2, PathInduction DEF Plain
<1>4. G(r) BY <1>3 DEF Z
<1>5. Final(t, b \o r) = Real(t, b \o r) BY <1>4, Straight DEF Node, Final
<1> QED BY <1>4, <1>5

(* mkdir and symlink on a device with room or without, and what they leave   *)
(* alone; what may be opened for writing.                                   *)
Dir(t, b, m) == IF m THEN Made(t, Real(t, Stem(b)), b, Directory) ELSE t
Sym(t, to, b, m) == IF m THEN Made(t, Real(t, b), b, LinkTo(to)) ELSE t
CanWrite(t, b, m) == Node(t, Final(t, b), "file") \/ (m /\ Addable(t, Final(t, b), b))

LEMMA DirIs ==
  ASSUME NEW t, TreeOK(t), NEW b \in Path, NEW m
  PROVE  LET q == Real(t, Stem(b))
             u == Dir(t, b, m)
         IN /\ m /\ Addable(t, q, b) => u = Put(t, q, Directory) /\ Real(u, Stem(b)) = q /\ q \in Plain
            /\ ~(m /\ Addable(t, q, b)) => u = t
            /\ TreeOK(u) /\ Grows(t, u)
<1>1. NodeOK(Directory) BY DEF NodeOK
<1>2. Stem(b) \in Path BY StemType
<1>3. CASE m BY <1>1, <1>2, <1>3, MadeIs DEF Dir
<1>4. CASE ~m BY <1>4 DEF Dir, Grows
<1> QED BY <1>3, <1>4

LEMMA SymIs ==
  ASSUME NEW t, TreeOK(t), NEW b \in Path, NEW m, NEW to \in Plain
  PROVE  LET q == Real(t, b)
             u == Sym(t, to, b, m)
         IN /\ m /\ Addable(t, q, b) => u = Put(t, q, LinkTo(to)) /\ Real(u, b) = q /\ q \in Plain
            /\ ~(m /\ Addable(t, q, b)) => u = t
            /\ TreeOK(u) /\ Grows(t, u)
<1>1. NodeOK(LinkTo(to))
  <2>1. LinkTo(to).kind = "link" /\ LinkTo(to).to = to BY DEF LinkTo
  <2> QED BY <2>1 DEF NodeOK, Plain
<1>2. CASE m BY <1>1, <1>2, MadeIs DEF Sym
<1>3. CASE ~m BY <1>3 DEF Sym, Grows
<1> QED BY <1>2, <1>3

(* What may be opened for writing may be put: a file in place of a file, or  *)
(* a new one.                                                               *)
LEMMA WrittenIs ==
  ASSUME NEW t, TreeOK(t), NEW p \in Path, NEW m, CanWrite(t, p, m), NEW d
  PROVE  TreeOK(Put(t, Final(t, p), File(d))) /\ Grows(t, Put(t, Final(t, p), File(d)))
<1> DEFINE q == Real(t, p)
           out == Final(t, p)
<1>1. CASE Node(t, out, "file") BY <1>1, PutFile
<1>2. CASE Addable(t, out, p)
  <2>1. out \notin DOMAIN t /\ out # <<>> /\ Node(t, Front(out), "dir") BY <1>2 DEF Addable
  <2>2. q \in Path BY RealIs
  <2>3. out \in Plain
    <3>1. CASE Node(t, q, "link")
      <4>1. q \in Plain BY <3>1, Kinds DEF Node
      <4> QED BY <2>2, <4>1, ThroughType DEF Final
    <3>2. CASE ~Node(t, q, "link")
      <4>1. out = q BY <3>2, Straight DEF Final
      <4> QED BY <2>1, <4>1, NewPlace
    <3> QED BY <3>1, <3>2
  <2>4. NodeOK(File(d))
    <3>1. File(d).kind = "file" /\ File(d).data = d BY DEF File
    <3> QED BY <3>1 DEF NodeOK
  <2> QED BY <2>1, <2>3, <2>4, PutNew
<1> QED BY <1>1, <1>2 DEF CanWrite

-----------------------------------------------------------------------------
(* The calls, on a state of the program given part by part.                 *)
State(t, s, w, d, u, c, m) ==
  [fs |-> t, stack |-> s, writing |-> w, fds |-> d, status |-> u, cut |-> c, room |-> m]
After(s, u) == IF s = <<>> THEN "done" ELSE u
Marked(n) == [stack EXCEPT ![Len(stack)].seen = @ \cup {n}]
Frame(a, b, t) == [src |-> a, dst |-> b, seen |-> {}, must |-> Names(t, a)]
Fields == {"fs", "stack", "writing", "fds", "status", "cut", "room"}

LEMMA Parts ==
  ASSUME NEW t, NEW s, NEW w, NEW d, NEW u, NEW c, NEW m
  PROVE  LET st == State(t, s, w, d, u, c, m)
         IN st.fs = t /\ st.stack = s /\ st.writing = w /\ st.fds = d /\ st.status = u
              /\ st.cut = c /\ st.room = m
BY DEF State

LEMMA SevenParts ==
  ASSUME NEW r, DOMAIN r = Fields, r = [x \in DOMAIN r |-> r[x]]
  PROVE  r = State(r.fs, r.stack, r.writing, r.fds, r.status, r.cut, r.room)
BY DEF State, Fields

LEMMA Ends ==
  ASSUME NEW t, NEW s, NEW w, NEW d, NEW u, NEW c, NEW m
  PROVE  /\ Exit(State(t, s, w, d, u, c, m)) = State(t, <<>>, w, d, "exit", c, m)
         /\ Return(State(t, s, w, d, u, c, m)) = State(t, s, w, d, After(s, u), c, m)
<1> DEFINE st == State(t, s, w, d, u, c, m)
<1>1. Exit(st) = State(t, <<>>, w, d, "exit", c, m)
  <2> DEFINE r == [st EXCEPT !.status = "exit", !.stack = <<>>]
  <2>1. DOMAIN r = Fields /\ r = [x \in DOMAIN r |-> r[x]] BY DEF State, Fields
  <2>2. /\ r.fs = t /\ r.stack = <<>> /\ r.writing = w /\ r.fds = d /\ r.status = "exit"
        /\ r.cut = c /\ r.room = m
    BY DEF State
  <2>3. Exit(st) = r BY DEF Exit
  <2> HIDE DEF r
  <2> QED BY <2>1, <2>2, <2>3, SevenParts
<1>2. [st EXCEPT !.status = "done"] = State(t, s, w, d, "done", c, m)
  <2> DEFINE r == [st EXCEPT !.status = "done"]
  <2>1. DOMAIN r = Fields /\ r = [x \in DOMAIN r |-> r[x]] BY DEF State, Fields
  <2>2. /\ r.fs = t /\ r.stack = s /\ r.writing = w /\ r.fds = d /\ r.status = "done"
        /\ r.cut = c /\ r.room = m
    BY DEF State
  <2> HIDE DEF r
  <2>3. r = State(t, s, w, d, "done", c, m) BY <2>1, <2>2, SevenParts
  <2> QED BY <2>3 DEF r
<1>3. st.stack = s BY Parts
<1> HIDE DEF st
<1>4. Return(st) = IF s = <<>> THEN State(t, s, w, d, "done", c, m) ELSE st BY <1>2, <1>3 DEF Return
<1> QED BY <1>1, <1>4 DEF After, st

LEMMA BecomesIs ==
  ASSUME NEW t, NEW s, NEW w, NEW d, NEW u, NEW c, NEW m, Becomes(State(t, s, w, d, u, c, m))
  PROVE  /\ fs' = t /\ stack' = s /\ writing' = w /\ fds' = d /\ status' = u /\ cut' = c
         /\ full' = (full \/ ~m) /\ typed' = typed /\ before' = before
BY Parts DEF Becomes

(* mkdir and symlink.                                                       *)
LEMMA MakingIs ==
  ASSUME NEW t, NEW s, NEW w, NEW d, NEW u, NEW c, NEW m, NEW b, NEW to
  PROVE  /\ Mkdir(State(t, s, w, d, u, c, m), b) = State(Dir(t, b, m), s, w, d, u, c, m)
         /\ Symlink(State(t, s, w, d, u, c, m), to, b) = State(Sym(t, to, b, m), s, w, d, u, c, m)
<1> DEFINE st == State(t, s, w, d, u, c, m)
<1>1. ASSUME NEW q, NEW node
      PROVE  Making(st, q, b, node) = State(IF m THEN Made(t, q, b, node) ELSE t, s, w, d, u, c, m)
  <2> DEFINE r == [st EXCEPT !.fs = Made(@, q, b, node)]
  <2>1. DOMAIN r = Fields /\ r = [x \in DOMAIN r |-> r[x]] BY DEF State, Fields
  <2>2. /\ r.fs = Made(t, q, b, node) /\ r.stack = s /\ r.writing = w /\ r.fds = d /\ r.status = u
        /\ r.cut = c /\ r.room = m
    BY DEF State
  <2>3. st.room = m BY Parts
  <2>4. Making(st, q, b, node) = IF m THEN r ELSE st BY <2>3 DEF Making
  <2> HIDE DEF r
  <2>5. r = State(Made(t, q, b, node), s, w, d, u, c, m) BY <2>1, <2>2, SevenParts
  <2> QED BY <2>4, <2>5
<1>2. st.fs = t BY Parts
<1> HIDE DEF st
<1>3. Mkdir(st, b) = State(Dir(t, b, m), s, w, d, u, c, m) BY <1>1, <1>2 DEF Mkdir, Dir
<1>4. Symlink(st, to, b) = State(Sym(t, to, b, m), s, w, d, u, c, m) BY <1>1, <1>2 DEF Symlink, Sym
<1> QED BY <1>3, <1>4 DEF st

(* cpf2f: it stops before a conflict or without descriptors, or it makes a  *)
(* link, or it truncates what it will write.                                *)
Clash(t, a, b) == Exists(t, b) /\ (Real(t, a) = Real(t, b) \/ Is(t, a, "link"))
Stops(t, d, a, b, m) == Clash(t, a, b) \/ (~Is(t, a, "link") /\ (~CanWrite(t, b, m) \/ d + 2 > MAXFD))

LEMMA CpF2FIs ==
  ASSUME NEW t, NEW s, NEW d, NEW u, NEW c, NEW m, NEW a, NEW b
  PROVE  CpF2F(State(t, s, <<>>, d, u, c, m), a, b) =
           IF Stops(t, d, a, b, m) THEN State(t, <<>>, <<>>, d, "exit", c, m)
           ELSE IF Is(t, a, "link") THEN State(Sym(t, Real(t, a), b, m), s, <<>>, d, After(s, u), c, m)
           ELSE State(Put(t, Final(t, b), File("empty")), s, <<Real(t, a), Final(t, b)>>, d + 2, u, c, m)
<1> DEFINE st == State(t, s, <<>>, d, u, c, m)
<1>1. st.fs = t /\ st.fds = d /\ st.room = m BY Parts
<1>2. Copy(st, a, b) = State(Put(t, Final(t, b), File("empty")), s, <<Real(t, a), Final(t, b)>>, d + 2, u, c, m)
  <2> DEFINE out == Final(t, b)
             pair == <<Real(t, a), out>>
             r == [st EXCEPT !.fds = @ + 2, !.writing = pair,
                     !.fs = [x \in DOMAIN @ \cup {out} |-> IF x = out THEN File("empty") ELSE @[x]]]
  <2>1. DOMAIN r = Fields /\ r = [x \in DOMAIN r |-> r[x]] BY DEF State, Fields
  <2>2. r.stack = s /\ r.fds = d + 2 /\ r.status = u /\ r.writing = pair /\ r.cut = c /\ r.room = m
    BY DEF State
  <2>3. r.fs = Put(t, out, File("empty")) BY DEF State, Put
  <2>4. Copy(st, a, b) = r BY <1>1 DEF Copy
  <2> HIDE DEF r
  <2> QED BY <2>1, <2>2, <2>3, <2>4, SevenParts
<1>3. Return(Symlink(st, Real(t, a), b)) = State(Sym(t, Real(t, a), b, m), s, <<>>, d, After(s, u), c, m)
  BY MakingIs, Ends
<1>4. Exit(st) = State(t, <<>>, <<>>, d, "exit", c, m) BY Ends
<1>5. Writable(st, b) <=> CanWrite(t, b, m) BY <1>1 DEF Writable, CanWrite
<1> HIDE DEF st
<1>6. CpF2F(st, a, b) =
        IF Clash(t, a, b) THEN Exit(st)
        ELSE IF Is(t, a, "link") THEN Return(Symlink(st, Real(t, a), b))
        ELSE IF ~Writable(st, b) \/ d + 2 > MAXFD THEN Exit(st) ELSE Copy(st, a, b)
  BY <1>1 DEF CpF2F, Clash
<1>7. CASE Clash(t, a, b) BY <1>4, <1>6, <1>7 DEF Stops, st
<1>8. CASE ~Clash(t, a, b) /\ Is(t, a, "link") BY <1>3, <1>6, <1>8 DEF Stops, st
<1>9. CASE ~Clash(t, a, b) /\ ~Is(t, a, "link") BY <1>2, <1>4, <1>5, <1>6, <1>9 DEF Stops, st
<1> QED BY <1>7, <1>8, <1>9

LEMMA CpD2DIs ==
  ASSUME NEW t, NEW s, NEW w, NEW d, NEW u, NEW c, NEW m, NEW a, NEW b
  PROVE  CpD2D(State(t, s, w, d, u, c, m), a, b) =
           IF IsStrictPrefix(a, b) \/ d = MAXFD \/ Len(a) > PATH_MAX
           THEN State(t, <<>>, w, d, "exit", c, m)
           ELSE State(t, Append(s, Frame(a, b, t)), w, d + 1, u, c, m)
<1> DEFINE st == State(t, s, w, d, u, c, m)
<1>1. st.fs = t /\ st.fds = d BY Parts
<1>2. [st EXCEPT !.fds = @ + 1, !.stack = Append(@, [src |-> a, dst |-> b, seen |-> {}, must |-> Names(t, a)])]
        = State(t, Append(s, Frame(a, b, t)), w, d + 1, u, c, m)
  <2> DEFINE r == [st EXCEPT !.fds = @ + 1,
                     !.stack = Append(@, [src |-> a, dst |-> b, seen |-> {}, must |-> Names(t, a)])]
  <2>1. DOMAIN r = Fields /\ r = [x \in DOMAIN r |-> r[x]] BY DEF State, Fields
  <2>2. r.fs = t /\ r.fds = d + 1 /\ r.status = u /\ r.writing = w /\ r.cut = c /\ r.room = m BY DEF State
  <2>3. r.stack = Append(s, Frame(a, b, t)) BY DEF State, Frame
  <2> HIDE DEF r
  <2>4. r = State(t, Append(s, Frame(a, b, t)), w, d + 1, u, c, m) BY <2>1, <2>2, <2>3, SevenParts
  <2> QED BY <2>4 DEF r
<1>3. Exit(st) = State(t, <<>>, w, d, "exit", c, m) BY Ends
<1> HIDE DEF st
<1> QED BY <1>1, <1>2, <1>3 DEF CpD2D, Opened, st

(* A turn of the loop of cpd2d.                                             *)
LEMMA NowIs ==
  ASSUME NEW m
  PROVE  Now(m) = State(fs, stack, <<>>, fds, "running", cut, m)
BY DEF Now, State

LEMMA EntryIs ==
  ASSUME NEW top, NEW n, NEW m
  PROVE  LET a == Append(top.src, n)
             b == Append(top.dst, n)
         IN Entry(top, n, m) =
              IF Is(fs, a, "dir")
              THEN CpD2D(State(Dir(fs, b, m), Marked(n), <<>>, fds, "running", cut, m), a, b)
              ELSE CpF2F(State(fs, Marked(n), <<>>, fds, "running", cut, m), a, b)
<1> DEFINE a == Append(top.src, n)
           b == Append(top.dst, n)
           st == Turn(n, m)
<1>1. st = State(fs, Marked(n), <<>>, fds, "running", cut, m)
  <2> DEFINE r == [Now(m) EXCEPT !.stack[Len(stack)].seen = @ \cup {n}]
  <2>1. DOMAIN r = Fields /\ r = [x \in DOMAIN r |-> r[x]] BY DEF Now, Fields
  <2>2. /\ r.fs = fs /\ r.fds = fds /\ r.status = "running" /\ r.writing = <<>>
        /\ r.cut = cut /\ r.room = m
    BY DEF Now
  <2>3. r.stack = Marked(n) BY DEF Now, Marked
  <2>4. st = r BY DEF Turn
  <2> HIDE DEF r
  <2> QED BY <2>1, <2>2, <2>3, <2>4, SevenParts
<1>2. Mkdir(st, b) = State(Dir(fs, b, m), Marked(n), <<>>, fds, "running", cut, m) BY <1>1, MakingIs
<1>4. Entry(top, n, m) = IF Is(fs, a, "dir") THEN CpD2D(Mkdir(st, b), a, b) ELSE CpF2F(st, a, b)
  BY Zenon DEF Entry
<1> HIDE DEF st
<1> QED BY <1>1, <1>2, <1>4

(* The end of a directory.                                                  *)
LEMMA ReturnedIs == Returned = State(fs, Front(stack), <<>>, fds, After(Front(stack), "running"), cut, TRUE)
<1> DEFINE R(m) == [Now(m) EXCEPT !.stack = Front(@)]
           U(m) == State(fs, Front(stack), <<>>, fds, After(Front(stack), "running"), cut, m)
<1>1. ASSUME NEW m PROVE Return(R(m)) = U(m)
  <2> DEFINE r == R(m)
  <2>1. DOMAIN r = Fields /\ r = [x \in DOMAIN r |-> r[x]] BY DEF Now, Fields
  <2>2. /\ r.fs = fs /\ r.fds = fds /\ r.status = "running" /\ r.writing = <<>>
        /\ r.cut = cut /\ r.room = m /\ r.stack = Front(stack)
    BY DEF Now
  <2> HIDE DEF r
  <2>3. r = State(fs, Front(stack), <<>>, fds, "running", cut, m) BY <2>1, <2>2, SevenParts
  <2> QED BY <2>3, Ends DEF r
<1> HIDE DEF R, U
<1>2. Return(R(TRUE)) = U(TRUE) BY <1>1, Zenon
<1>3. Returned = Return(R(TRUE)) BY DEF Returned, R
<1> QED BY <1>2, <1>3 DEF U

(* The file written, whole or not.                                          *)
LEMMA WriteIs ==
  ASSUME writing[2] \in DOMAIN fs, Write
  PROVE  /\ writing # <<>>
         /\ \/ Becomes(State(Put(fs, writing[2], fs[writing[1]]), stack, <<>>, fds, After(stack, "running"),
                             cut, TRUE))
            \/ /\ writing[1] # writing[2]
               /\ Becomes(State(Put(fs, writing[2], File("cut")), stack, <<>>, fds, After(stack, "running"),
                                cut \cup {writing[2]}, TRUE))
<1> DEFINE o == writing[2]
           W(m, text) == [Now(m) EXCEPT !.fs[o] = text]
           C(m) == [Now(m) EXCEPT !.fs[o] = File("cut"), !.cut = @ \cup {o}]
           V(m, text) == State(Put(fs, o, text), stack, <<>>, fds, After(stack, "running"), cut, m)
           U(m) == State(Put(fs, o, File("cut")), stack, <<>>, fds, After(stack, "running"), cut \cup {o}, m)
<1>0. ASSUME NEW v PROVE [fs EXCEPT ![o] = v] = Put(fs, o, v)
  BY DEF Put
<1>1. ASSUME NEW m, NEW text PROVE Return(W(m, text)) = V(m, text)
  <2> DEFINE r == W(m, text)
  <2>1. DOMAIN r = Fields /\ r = [x \in DOMAIN r |-> r[x]] BY DEF Now, Fields
  <2>2. /\ r.stack = stack /\ r.fds = fds /\ r.status = "running" /\ r.writing = <<>>
        /\ r.cut = cut /\ r.room = m
    BY DEF Now
  <2>3. r.fs = [fs EXCEPT ![o] = text] BY DEF Now
  <2> HIDE DEF r
  <2>5. r = State(Put(fs, o, text), stack, <<>>, fds, "running", cut, m) BY <1>0, <2>1, <2>2, <2>3, SevenParts
  <2> QED BY <2>5, Ends DEF r
<1>2. ASSUME NEW m PROVE Return(C(m)) = U(m)
  <2> DEFINE r == C(m)
  <2>1. DOMAIN r = Fields /\ r = [x \in DOMAIN r |-> r[x]] BY DEF Now, Fields
  <2>2. /\ r.stack = stack /\ r.fds = fds /\ r.status = "running" /\ r.writing = <<>>
        /\ r.cut = cut \cup {o} /\ r.room = m
    BY DEF Now
  <2>3. r.fs = [fs EXCEPT ![o] = File("cut")] BY DEF Now
  <2> HIDE DEF r
  <2>5. r = State(Put(fs, o, File("cut")), stack, <<>>, fds, "running", cut \cup {o}, m)
    BY <1>0, <2>1, <2>2, <2>3, SevenParts
  <2> QED BY <2>5, Ends DEF r
<1>3. \A text : Written(text) = Return(W(TRUE, text)) BY DEF Written
<1>4. Short = Return(C(TRUE)) BY DEF Short
<1> HIDE DEF W, C, V, U
<1>5. \A text : Written(text) = V(TRUE, text) BY <1>1, <1>3, Zenon
<1>6. Short = U(TRUE) BY <1>2, <1>4, Zenon
<1>7. writing # <<>> /\ (Becomes(Written(fs[writing[1]])) \/ (writing[1] # writing[2] /\ Becomes(Short)))
  BY Zenon DEF Write
<1>8. writing # <<>> /\ (Becomes(V(TRUE, fs[writing[1]])) \/ (writing[1] # writing[2] /\ Becomes(U(TRUE))))
  BY <1>5, <1>6, <1>7, Zenon
<1> QED BY <1>8, Zenon DEF V, U, o

(* myrcp                                                                    *)
LEMMA MyRcpIs ==
  ASSUME NEW a, NEW b, NEW m
  PROVE  /\ Exit(Now(m)) = State(fs, <<>>, <<>>, fds, "exit", cut, m)
         /\ CpF2D(Now(m), a, b) =
              LET k == Levels(fs, b, Last(a))
              IN IF fds + k > MAXFD THEN State(fs, <<>>, <<>>, fds, "exit", cut, m)
                 ELSE CpF2F(State(fs, stack, <<>>, fds + k, "running", cut, m), a, Within(b, Last(a), k))
         /\ CpD2D(Mkdir(Now(m), b), a, b)
              = CpD2D(State(Dir(fs, b, m), stack, <<>>, fds, "running", cut, m), a, b)
<1> DEFINE k == Levels(fs, b, Last(a))
<1>1. Now(m) = State(fs, stack, <<>>, fds, "running", cut, m) BY NowIs
<1>2. Exit(Now(m)) = State(fs, <<>>, <<>>, fds, "exit", cut, m) BY <1>1, Ends
<1>3. Mkdir(Now(m), b) = State(Dir(fs, b, m), stack, <<>>, fds, "running", cut, m) BY <1>1, MakingIs
<1>4. [Now(m) EXCEPT !.fds = @ + k] = State(fs, stack, <<>>, fds + k, "running", cut, m) BY DEF Now, State
<1>5. Now(m).fs = fs /\ Now(m).fds = fds BY DEF Now
<1> HIDE DEF k
<1>6. CpF2D(Now(m), a, b) =
        IF fds + k > MAXFD THEN State(fs, <<>>, <<>>, fds, "exit", cut, m)
        ELSE CpF2F(State(fs, stack, <<>>, fds + k, "running", cut, m), a, Within(b, Last(a), k))
  BY <1>2, <1>4, <1>5 DEF CpF2D, k
<1> QED BY <1>2, <1>3, <1>6 DEF k

-----------------------------------------------------------------------------
(* The paths that are typed, and the tree there is at the start.            *)
LEMMA Given ==
  ASSUME before \in Trees, typed \in Arguments
  PROVE  /\ MAXFD \in Nat /\ PATH_MAX \in Nat
         /\ TreeOK(before) /\ IsFiniteSet(DOMAIN before)
         /\ \A p \in DOMAIN before : Len(p) <= PATH_MAX
         /\ f1 \in Path /\ f1 # <<>> /\ f2 \in Path /\ f2 # <<>> /\ Last(f1) \in Name
<1>1. typed \in Seq(STRING) \X Seq(STRING) /\ typed[1] # <<>> /\ typed[2] # <<>> BY RecursiveCopyAssumption
<1>2. f1 \in Path /\ f1 # <<>> /\ f2 \in Path /\ f2 # <<>> BY <1>1 DEF f1, f2, Path, Name
<1>3. Last(f1) \in Name BY <1>2, Shorter
<1> QED BY <1>2, <1>3, RecursiveCopyAssumption

(* A path with a name repeated at its end.                                  *)
LEMMA WithinIs ==
  ASSUME NEW p \in Path, NEW n \in Name, NEW k \in Nat
  PROVE  /\ Within(p, n, k) \in Path
         /\ Within(p, n, 0) = p
         /\ Within(p, n, k+1) = Append(Within(p, n, k), n)
<1> DEFINE W(j) == [i \in 1..j |-> n]
<1>1. \A j \in Nat : W(j) \in Path /\ Len(W(j)) = j BY DEF Path
<1>2. W(k+1) = Append(W(k), n)
  <2>1. k + 1 \in Nat OBVIOUS
  <2>2. W(k) \in Path /\ Len(W(k)) = k /\ W(k+1) \in Path /\ Len(W(k+1)) = k+1 BY <1>1, <2>1
  <2>3. Append(W(k), n) \in Path /\ Len(Append(W(k), n)) = k+1 /\ Append(W(k), n)[k+1] = n
    BY <2>2, PathAppend
  <2>4. \A i \in 1..k : Append(W(k), n)[i] = n
    <3> SUFFICES ASSUME NEW i \in 1..k PROVE Append(W(k), n)[i] = n OBVIOUS
    <3>1. \A j \in 1..Len(W(k)) : Append(W(k), n)[j] = W(k)[j] BY <2>2, PathAppend
    <3>2. W(k)[i] = n OBVIOUS
    <3> HIDE DEF W
    <3> QED BY <2>2, <3>1, <3>2
  <2>5. \A i \in 1..k+1 : W(k+1)[i] = n OBVIOUS
  <2> HIDE DEF W
  <2>6. \A i \in 1..Len(W(k+1)) : W(k+1)[i] = Append(W(k), n)[i] BY <2>2, <2>3, <2>4, <2>5
  <2> QED BY <2>2, <2>3, <2>6, SeqEqual DEF Path
<1>3. W(0) = <<>> BY <1>1, EmptySeq DEF Path
<1> HIDE DEF W
<1>4. Within(p, n, k) = p \o W(k) /\ Within(p, n, k+1) = p \o W(k+1) /\ Within(p, n, 0) = p \o W(0)
  BY DEF Within, W
<1>5. W(k) \in Path BY <1>1
<1>6. p \o W(k) \in Path /\ p \o <<>> = p BY <1>5, Joined, JoinedEmpty
<1>7. p \o Append(W(k), n) = Append(p \o W(k), n) BY <1>5, JoinedMore
<1> QED BY <1>2, <1>3, <1>4, <1>6, <1>7

(* cpf2d comes to an end: no directory is deeper than a path is long.       *)
LEMMA LevelsIs ==
  ASSUME NEW t, TreeOK(t), PATH_MAX \in Nat, \A q \in DOMAIN t : Len(q) <= PATH_MAX,
         NEW p \in Path, NEW n \in FileName
  PROVE  Levels(t, p, n) \in Nat /\ ~Is(t, Within(p, n, Levels(t, p, n)), "dir")
<1> DEFINE T == {k \in 0..PATH_MAX+1 : ~Is(t, Within(p, n, k), "dir")}
           Bad == {k \in 0..PATH_MAX+1 : ~(Len(Real(t, Within(p, n, k))) >= k)}
<1>0. n \in Name BY Plains
<1>1. T # {}
  <2> SUFFICES ASSUME T = {} PROVE FALSE OBVIOUS
  <2>1. Bad = {}
    <3> SUFFICES ASSUME Bad # {} PROVE FALSE OBVIOUS
    <3>1. Bad \in SUBSET Nat OBVIOUS
    <3>2. Min(Bad) \in Bad /\ \A y \in Bad : Min(Bad) <= y BY <3>1, LeastNat
    <3>3. PICK k \in Bad : \A y \in Bad : k <= y BY <3>2
    <3>4. k \in 0..PATH_MAX+1 /\ ~(Len(Real(t, Within(p, n, k))) >= k) BY <3>3
    <3>5. Within(p, n, k) \in Path BY <1>0, <3>4, WithinIs
    <3>6. Real(t, Within(p, n, k)) \in Path BY <3>5, RealIs
    <3>7. k # 0 BY <3>4, <3>6, Joined
    <3>17. k - 1 \in Nat /\ k = k - 1 + 1 BY <3>4, <3>7
    <3>18. PICK j \in Nat : k = j + 1 BY <3>17
    <3>8. j \in 0..PATH_MAX+1 /\ ~(k <= j) BY <3>4, <3>18
    <3> DEFINE v == Within(p, n, j)
               x == Real(t, v)
    <3>9. Len(x) >= j BY <3>3, <3>8
    <3>10. v \in Path /\ Within(p, n, k) = Append(v, n) BY <1>0, <3>18, WithinIs
    <3>11. Node(t, x, "dir") BY <3>8 DEF Is
    <3>12. Through(t, x) = x BY <3>11, Straight DEF Node
    <3>13. x \in Path BY <3>10, RealIs
    <3> HIDE DEF x, v
    <3>14. Real(t, Append(v, n)) = Along(t, x, n) BY <1>0, <3>10, RealMore DEF x
    <3>15. Along(t, x, n) = Append(x, n) BY <1>0, <3>12 DEF Along
    <3>16. Len(Append(x, n)) = Len(x) + 1 /\ Len(x) \in Nat BY <1>0, <3>13, PathAppend
    <3> QED BY <3>4, <3>9, <3>10, <3>14, <3>15, <3>16, <3>18
  <2>2. PATH_MAX + 1 \in 0..PATH_MAX+1 OBVIOUS
  <2> DEFINE q == Real(t, Within(p, n, PATH_MAX+1))
  <2>3. Len(q) >= PATH_MAX + 1 BY <2>1, <2>2
  <2>4. q \in DOMAIN t BY <2>2 DEF Is, Node
  <2>5. Len(q) <= PATH_MAX /\ q \in Path BY <2>4, Kinds
  <2> HIDE DEF q
  <2>6. Len(q) \in Nat BY <2>5, Joined
  <2> QED BY <2>3, <2>5, <2>6
<1>2. T \in SUBSET Nat OBVIOUS
<1>3. Min(T) \in T BY <1>1, <1>2, LeastNat
<1> QED BY <1>3 DEF Levels

(* What is not a directory was not typed with `.' or a slash at its end.    *)
LEMMA LastIs ==
  ASSUME NEW t, TreeOK(t), NEW p \in Path, p # <<>>, Exists(t, p), ~Is(t, p, "dir")
  PROVE  Last(p) \in FileName
<1>1. PICK v \in Path, n \in Name : p = Append(v, n) BY SequenceEmptyOrAppend DEF Path
<1>2. Last(p) = n BY <1>1, Longer
<1> DEFINE x == Real(t, v)
           y == Through(t, x)
<1>3. Real(t, p) = Along(t, x, n) BY <1>1, RealMore
<1>4. x \in Path BY RealIs
<1>5. y \in Path BY <1>4, ThroughType
<1>6. ~(n \notin FileName /\ Node(t, y, "dir")) BY <1>3 DEF Along, Is
<1>7. Append(y, n) \in DOMAIN t BY <1>3, <1>6 DEF Along, Exists
<1>8. Append(y, n) \in Plain BY <1>7, Kinds
<1> QED BY <1>2, <1>5, <1>8, Plains

(* Where a directory is found through a link, it stays.                      *)
LEMMA FinalStays ==
  ASSUME NEW t, NEW u, TreeOK(t), TreeOK(u), Grows(t, u), NEW p \in Path, Node(t, Final(t, p), "dir")
  PROVE  Final(u, p) = Final(t, p) /\ Node(u, Final(t, p), "dir") /\ Names(t, p) \subseteq Names(u, p)
<1> DEFINE q == Real(t, p)
<1>1. q \in DOMAIN t
  <2>1. CASE Node(t, q, "link") BY <2>1 DEF Node
  <2>2. CASE ~Node(t, q, "link")
    <3>1. Final(t, p) = q BY <2>2, Straight DEF Final
    <3> QED BY <3>1 DEF Node
  <2> QED BY <2>1, <2>2
<1>2. Real(u, p) = q BY <1>1, RealStays
<1>4. Through(u, q) = Through(t, q)
  <2>1. Node(t, Through(t, q), "dir") BY DEF Final
  <2> QED BY <1>1, <2>1, ThroughSame
<1>5. Final(u, p) = Final(t, p) BY <1>2, <1>4 DEF Final
<1>6. Node(u, Final(t, p), "dir") BY GrowsNode DEF Node
<1>7. ASSUME NEW n \in Names(t, p) PROVE n \in Names(u, p)
  <2>1. n \in Name BY NamesIs
  <2>2. Append(Final(t, p), n) \in DOMAIN t BY <2>1, NamesIs
  <2>3. Append(Final(u, p), n) \in DOMAIN u BY <1>5, <2>2, GrowsNode
  <2> QED BY <2>1, <2>3, NamesIs
<1> QED BY <1>5, <1>6, <1>7

(* What is copied, and where to.                                            *)
LEMMA Settled ==
  ASSUME before \in Trees, typed \in Arguments, Exists(before, f1)
  PROVE  /\ Onto(before) \in Path /\ From(before) \in Path /\ S \in Path /\ D \in Path
         /\ S \in DOMAIN before /\ S \in Plain
         /\ ~Is(before, f1, "dir") =>
              /\ Levels(before, f2, Last(f1)) \in Nat
              /\ Onto(before) = Within(f2, Last(f1), Levels(before, f2, Last(f1)))
              /\ D = Real(before, Onto(before))
         /\ Is(before, f1, "dir") =>
              /\ D = Real(before, Stem(Onto(before)))
              /\ Node(before, S, "dir") /\ Final(before, From(before)) = S
<1> DEFINE k == Levels(before, f2, Last(f1))
<1>1. TreeOK(before) /\ f1 \in Path /\ f1 # <<>> /\ f2 \in Path /\ Last(f1) \in Name BY Given
<1>2. PATH_MAX \in Nat /\ \A p \in DOMAIN before : Len(p) <= PATH_MAX BY Given
<1>3. S \in DOMAIN before BY DEF Exists, S
<1>4. S \in Path /\ S \in Plain BY <1>1, <1>3, Kinds
<1>5. ASSUME ~Is(before, f1, "dir")
      PROVE  k \in Nat /\ Onto(before) = Within(f2, Last(f1), k) /\ D = Real(before, Onto(before))
  <2>1. Last(f1) \in FileName BY <1>1, <1>5, LastIs
  <2>2. k \in Nat BY <1>1, <1>2, <2>1, LevelsIs
  <2>3. Onto(before) = Within(f2, Last(f1), k) BY <1>5 DEF Onto
  <2>4. D = Real(before, Onto(before)) BY <1>5 DEF D
  <2> QED BY <2>2, <2>3, <2>4
<1> HIDE DEF k
<1>8. Stem(f1) \in Path BY <1>1, StemType
<1>9. f2 \o Base(f1) \in Path
  <2>1. <<Last(f1), Last(f1)>> \in Path BY <1>1 DEF Path
  <2>2. Stem(f1) # <<>> => <<Last(Stem(f1))>> \in Path
    <3>1. Stem(f1) # <<>> => Last(Stem(f1)) \in Name BY <1>8, Shorter
    <3> QED BY <3>1 DEF Path
  <2>3. Base(f1) \in Path BY <2>1, <2>2 DEF Base
  <2> QED BY <1>1, <2>3, Joined
<1>6. Onto(before) \in Path
  <2>1. CASE ~Is(before, f1, "dir") BY <1>1, <1>5, <2>1, WithinIs
  <2>2. CASE Is(before, f1, "dir") BY <1>1, <1>9, <2>2 DEF Onto
  <2> QED BY <2>1, <2>2
<1>10. From(before) \in Path BY <1>1, <1>8 DEF From, Stripped
<1>7. D \in Path
  <2>1. Stem(Onto(before)) \in Path BY <1>6, StemType
  <2> QED BY <1>1, <1>6, <2>1, RealIs DEF D
<1>11. ASSUME Is(before, f1, "dir")
       PROVE  /\ D = Real(before, Stem(Onto(before)))
              /\ Node(before, S, "dir") /\ Final(before, From(before)) = S
  <2>1. D = Real(before, Stem(Onto(before))) BY <1>11 DEF D
  <2>2. Node(before, S, "dir") BY <1>11 DEF Is, S
  <2>3. Final(before, f1) = S BY <2>2, Straight DEF Final, S, Node
  <2>4. Final(before, Stem(f1)) = S BY <1>1, <2>2, <2>3, StemLeads
  <2>5. From(before) \in {f1, Stem(f1)} BY DEF From, Stripped
  <2> QED BY <2>1, <2>2, <2>3, <2>4, <2>5
<1> QED BY <1>3, <1>4, <1>5, <1>6, <1>7, <1>10, <1>11 DEF k

-----------------------------------------------------------------------------
(* The calls of cpd2d: the same way down from the two paths, through         *)
(* directories of the source.                                               *)
Frames == [src : Path, dst : Path, seen : SUBSET Name, must : SUBSET Name]
FrameAt(t, e, k) ==
  /\ \E r \in Plain :
       /\ Len(r) = k - 1 /\ e.src = From(before) \o r /\ e.dst = Onto(before) \o r
       /\ Final(t, e.src) = S \o r /\ Node(t, S \o r, "dir")
  /\ e.seen \subseteq Names(t, e.src)
Stacked(t, s) == s \in Seq(Frames) /\ \A k \in 1..Len(s) : FrameAt(t, s[k], k)

LEMMA FrameIs ==
  ASSUME NEW t, NEW e, NEW k, NEW r \in Plain, Len(r) = k - 1, e.src = From(before) \o r,
         e.dst = Onto(before) \o r, Final(t, e.src) = S \o r, Node(t, S \o r, "dir"), e.seen \subseteq Names(t, e.src)
  PROVE  FrameAt(t, e, k)
BY DEF FrameAt

(* A name marked as read.                                                   *)
LEMMA MarkedIs ==
  ASSUME stack \in Seq(Frames), stack # <<>>, NEW n \in Name
  PROVE  /\ Marked(n) \in Seq(Frames) /\ Len(Marked(n)) = Len(stack) /\ Marked(n) # <<>>
         /\ Len(stack) \in Nat /\ Len(stack) \in 1..Len(stack)
         /\ \A k \in 1..Len(stack) :
              /\ Marked(n)[k].src = stack[k].src /\ Marked(n)[k].dst = stack[k].dst
              /\ Marked(n)[k].must = stack[k].must
              /\ Marked(n)[k].seen = IF k = Len(stack) THEN stack[k].seen \cup {n} ELSE stack[k].seen
<1> DEFINE l == Len(stack)
           e == [stack[l] EXCEPT !.seen = @ \cup {n}]
<1>1. l \in Nat /\ l \in 1..l
  <2>1. l \in Nat \ {0} BY EmptySeq
  <2> QED BY <2>1
<1>2. Marked(n) = [stack EXCEPT ![l] = e] BY DEF Marked
<1>3. stack[l] \in Frames BY <1>1, ElementOfSeq
<1>4. e \in Frames /\ e.src = stack[l].src /\ e.dst = stack[l].dst /\ e.must = stack[l].must
      /\ e.seen = stack[l].seen \cup {n}
  BY <1>3 DEF Frames
<1> HIDE DEF e
<1>5. /\ Marked(n) \in Seq(Frames) /\ Len(Marked(n)) = l
      /\ \A k \in 1..l : Marked(n)[k] = IF k = l THEN e ELSE stack[k]
  BY <1>1, <1>2, <1>4, ExceptSeq
<1>6. Marked(n) # <<>> BY <1>1, <1>5, EmptySeq
<1> QED BY <1>1, <1>4, <1>5, <1>6

(* What holds of the calls holds in a tree that has grown, with a name read, *)
(* with one call more or less.                                              *)
LEMMA StackedGrows ==
  ASSUME NEW t, NEW u, TreeOK(t), TreeOK(u), Grows(t, u), NEW s, Stacked(t, s)
  PROVE  Stacked(u, s)
<1>1. ASSUME NEW k \in 1..Len(s) PROVE FrameAt(u, s[k], k)
  <2>1. FrameAt(t, s[k], k) /\ s[k] \in Frames BY ElementOfSeq DEF Stacked
  <2>2. s[k].src \in Path BY <2>1 DEF Frames
  <2>3. PICK r \in Plain :
          /\ Len(r) = k - 1 /\ s[k].src = From(before) \o r /\ s[k].dst = Onto(before) \o r
          /\ Final(t, s[k].src) = S \o r /\ Node(t, S \o r, "dir")
    BY <2>1 DEF FrameAt
  <2>4. Final(u, s[k].src) = S \o r /\ Node(u, S \o r, "dir") /\ Names(t, s[k].src) \subseteq Names(u, s[k].src)
    <3>1. Node(t, Final(t, s[k].src), "dir") BY <2>3
    <3> QED BY <2>2, <2>3, <3>1, FinalStays
  <2>5. s[k].seen \subseteq Names(u, s[k].src) BY <2>1, <2>4 DEF FrameAt
  <2> QED BY <2>3, <2>4, <2>5, FrameIs
<1> QED BY <1>1 DEF Stacked

LEMMA StackedMarked ==
  ASSUME Stacked(fs, stack), TreeOK(fs), stack # <<>>, NEW n \in Names(fs, Last(stack).src)
  PROVE  Stacked(fs, Marked(n))
<1>1. stack \in Seq(Frames) BY DEF Stacked
<1>2. Len(stack) \in 1..Len(stack)
  <2>1. Len(stack) \in Nat \ {0} BY <1>1, EmptySeq
  <2> QED BY <2>1
<1>3. stack[Len(stack)] \in Frames BY <1>1, <1>2, ElementOfSeq
<1>4. n \in Name
  <2>1. Last(stack).src \in Path BY <1>3 DEF Last, Frames
  <2> QED BY <2>1, NamesIs
<1>5. /\ Marked(n) \in Seq(Frames) /\ Len(Marked(n)) = Len(stack)
      /\ \A k \in 1..Len(stack) :
           /\ Marked(n)[k].src = stack[k].src /\ Marked(n)[k].dst = stack[k].dst
           /\ Marked(n)[k].seen = IF k = Len(stack) THEN stack[k].seen \cup {n} ELSE stack[k].seen
  BY <1>1, <1>4, MarkedIs
<1>6. ASSUME NEW k \in 1..Len(stack) PROVE FrameAt(fs, Marked(n)[k], k)
  <2>1. FrameAt(fs, stack[k], k) BY DEF Stacked
  <2>2. k = Len(stack) => n \in Names(fs, stack[k].src) BY DEF Last
  <2> QED BY <1>5, <2>1, <2>2 DEF FrameAt
<1> QED BY <1>5, <1>6 DEF Stacked

LEMMA StackedMore ==
  ASSUME NEW t, TreeOK(t), NEW s, Stacked(t, s), NEW r \in Plain, Len(r) = Len(s),
         From(before) \in Path, Onto(before) \in Path, Node(t, S \o r, "dir"), Final(t, From(before) \o r) = S \o r
  PROVE  /\ Stacked(t, Append(s, Frame(From(before) \o r, Onto(before) \o r, t)))
         /\ Append(s, Frame(From(before) \o r, Onto(before) \o r, t)) # <<>>
<1> DEFINE a == From(before) \o r
           b == Onto(before) \o r
           e == Frame(a, b, t)
           v == Append(s, e)
<1>1. a \in Path /\ b \in Path BY PlainPath, Joined
<1>2. Names(t, a) \subseteq Name BY <1>1, NamesIs
<1>3. e \in Frames /\ e.src = a /\ e.dst = b /\ e.seen = {} BY <1>1, <1>2 DEF Frame, Frames
<1>4. s \in Seq(Frames) /\ \A k \in 1..Len(s) : FrameAt(t, s[k], k) BY DEF Stacked
<1> HIDE DEF e
<1>5. v \in Seq(Frames) /\ Len(v) = Len(s) + 1 /\ v[Len(s) + 1] = e /\ \A k \in 1..Len(s) : v[k] = s[k]
  BY <1>3, <1>4, AppendProperties
<1>6. Len(s) \in Nat BY <1>4, LenProperties
<1>7. FrameAt(t, e, Len(s) + 1)
  <2>1. Len(r) = Len(s) + 1 - 1 BY <1>6
  <2>2. e.src = From(before) \o r /\ e.dst = Onto(before) \o r BY <1>3
  <2>3. Final(t, e.src) = S \o r BY <2>2
  <2>4. Node(t, S \o r, "dir") OBVIOUS
  <2>5. e.seen \subseteq Names(t, e.src) BY <1>3
  <2> DEFINE j == Len(s) + 1
  <2>6. Len(r) = j - 1 BY <2>1
  <2> HIDE DEF a, b, j
  <2>7. FrameAt(t, e, j) BY <2>2, <2>3, <2>4, <2>5, <2>6, FrameIs
  <2> QED BY <2>7 DEF j
<1> HIDE DEF v
<1>8. ASSUME NEW k \in 1..Len(v) PROVE FrameAt(t, v[k], k)
  <2>1. CASE k = Len(s) + 1 BY <1>5, <1>7, <2>1
  <2>2. CASE k # Len(s) + 1
    <3>1. k \in 1..Len(s) BY <1>5, <1>6, <2>2
    <3> QED BY <1>4, <1>5, <3>1
  <2> QED BY <2>1, <2>2
<1>9. Stacked(t, v) BY <1>5, <1>8 DEF Stacked
<1>10. v # <<>> BY <1>3, <1>4, AppendProperties DEF v
<1> QED BY <1>9, <1>10 DEF v, e

LEMMA OneLess ==
  \A l \in Nat \ {0} : (IF 1 <= l - 1 THEN l - 1 - 1 + 1 ELSE 0) = l - 1
<1> SUFFICES ASSUME NEW l \in Nat, l # 0 PROVE (IF 1 <= l - 1 THEN l - 1 - 1 + 1 ELSE 0) = l - 1 OBVIOUS
<1>1. CASE 1 <= l - 1 BY <1>1
<1>2. CASE ~(1 <= l - 1) BY <1>2
<1> QED BY <1>1, <1>2

(* A sequence without its last element.                                     *)
LEMMA FrontIs ==
  ASSUME NEW A, NEW s \in Seq(A), s # <<>>
  PROVE  /\ Front(s) \in Seq(A) /\ Len(s) \in Nat /\ Len(s) # 0 /\ Len(Front(s)) = Len(s) - 1
         /\ \A k \in 1..Len(s) - 1 : Front(s)[k] = s[k]
<1>1. Len(s) \in Nat \ {0} BY EmptySeq
<1>2. 1 \in Int /\ Len(s) - 1 \in Int BY <1>1
<1>3. \A i \in 1..Len(s) - 1 : s[i] \in A
  <2> SUFFICES ASSUME NEW i \in 1..Len(s) - 1 PROVE s[i] \in A OBVIOUS
  <2>1. i \in 1..Len(s) BY <1>1
  <2> QED BY <2>1, ElementOfSeq
<1> DEFINE w == SubSeq(s, 1, Len(s) - 1)
<1>4. /\ w \in Seq(A) /\ Len(w) = (IF 1 <= Len(s) - 1 THEN Len(s) - 1 - 1 + 1 ELSE 0)
      /\ \A i \in 1..Len(s) - 1 - 1 + 1 : w[i] = s[1 + i - 1]
  BY <1>2, <1>3, SubSeqProperties
<1> HIDE DEF w
<1>7. Len(w) = (IF 1 <= Len(s) - 1 THEN Len(s) - 1 - 1 + 1 ELSE 0) BY <1>4
<1>5. Len(w) = Len(s) - 1 BY <1>1, <1>7, OneLess
<1>6. \A k \in 1..Len(s) - 1 : w[k] = s[k]
  <2> SUFFICES ASSUME NEW k \in 1..Len(s) - 1 PROVE w[k] = s[k] OBVIOUS
  <2>1. k \in 1..Len(s) - 1 - 1 + 1 /\ 1 + k - 1 = k BY <1>1
  <2>2. w[k] = s[1 + k - 1] BY <1>4, <2>1
  <2> QED BY <2>1, <2>2
<1> QED BY <1>1, <1>4, <1>5, <1>6 DEF w, Front

LEMMA StackedFront ==
  ASSUME NEW t, NEW s, Stacked(t, s), s # <<>>
  PROVE  Stacked(t, Front(s))
<1>1. s \in Seq(Frames) /\ \A k \in 1..Len(s) : FrameAt(t, s[k], k) BY DEF Stacked
<1>2. /\ Front(s) \in Seq(Frames) /\ Len(s) \in Nat /\ Len(s) # 0 /\ Len(Front(s)) = Len(s) - 1
      /\ \A k \in 1..Len(s) - 1 : Front(s)[k] = s[k]
  BY <1>1, FrontIs
<1>3. ASSUME NEW k \in 1..Len(Front(s)) PROVE FrameAt(t, Front(s)[k], k)
  <2>1. k \in 1..Len(s) - 1 /\ k \in 1..Len(s) BY <1>2
  <2> QED BY <1>1, <1>2, <2>1
<1> QED BY <1>2, <1>3 DEF Stacked

-----------------------------------------------------------------------------
(* What always holds: the tree has only grown, the calls are in line, the    *)
(* destination is what it was, and nothing is there before it is.           *)
Loose(t, s, d) ==
  /\ TreeOK(t) /\ Grows(before, t) /\ Stacked(t, s) /\ d \in 0..MAXFD
  /\ s # <<>> =>
       /\ Is(before, f1, "dir")
       /\ Real(t, Stem(Onto(before))) = D /\ (t = before \/ D \in DOMAIN t)
Fit(t, s, w, d, u, c) ==
  /\ Loose(t, s, d) /\ c \subseteq DOMAIN t
  /\ u \in {"start", "running", "done", "exit"} /\ (s = <<>> /\ w = <<>> <=> u # "running")
  /\ u = "start" => t = before /\ d = 0
  /\ w # <<>> =>
       /\ w = <<w[1], w[2]>> /\ Node(t, w[1], "file") /\ Node(t, w[2], "file")
       /\ s # <<>> => D \in DOMAIN t
Sane ==
  /\ before \in Trees /\ typed \in Arguments
  /\ Fit(fs, stack, writing, fds, status, cut) /\ full \in BOOLEAN

(* Nothing can be put below what leads to no directory, as a destination     *)
(* that is not there.                                                       *)
LEMMA NotYet ==
  ASSUME NEW t, TreeOK(t), NEW b \in Path, ~Node(t, Final(t, b), "dir"), NEW r \in Plain, r # <<>>
  PROVE  (\A p : ~Addable(t, Real(t, b \o r), p)) /\ (\A m : ~CanWrite(t, b \o r, m))
<1>1. /\ Real(t, b \o r) \notin DOMAIN t /\ ~Node(t, Front(Real(t, b \o r)), "dir")
      /\ Final(t, b \o r) = Real(t, b \o r)
  BY NoPlace
<1>2. ~Node(t, Real(t, b \o r), "file") BY <1>1 DEF Node
<1> QED BY <1>1, <1>2 DEF Addable, CanWrite

LEMMA NotThere ==
  ASSUME NEW t, TreeOK(t), NEW b \in Path, Real(t, Stem(b)) \notin DOMAIN t
  PROVE  ~Node(t, Final(t, b), "dir")
<1> SUFFICES ASSUME Node(t, Final(t, b), "dir") PROVE FALSE OBVIOUS
<1>1. Final(t, Stem(b)) = Final(t, b) BY StemLeads
<1>2. Final(t, Stem(b)) = Real(t, Stem(b)) BY Straight DEF Final, Node
<1> QED BY <1>1, <1>2 DEF Node

(* A path that ends in the name of a file ends in no slash.                 *)
LEMMA StemOn ==
  ASSUME NEW b \in Path, NEW r \in Plain, r # <<>>
  PROVE  Stem(b \o r) = b \o r
<1>1. r \in Path BY PlainPath
<1>2. PICK v \in Plain, n \in FileName : r = Append(v, n) BY SequenceEmptyOrAppend DEF Plain
<1>3. v \in Path /\ n \in Name BY PlainPath, Plains
<1>4. b \o r = Append(b \o v, n) /\ b \o v \in Path BY <1>2, <1>3, JoinedMore, Joined
<1>5. n # "/" BY DEF FileName
<1> QED BY <1>3, <1>4, <1>5, StemMore

(* The destination stays where it is.                                       *)
LEMMA Onward ==
  ASSUME NEW t, NEW u, NEW b \in Path, NEW d, TreeOK(t), TreeOK(u), Grows(t, u), Real(t, b) = d,
         t = before \/ d \in DOMAIN t, u = t \/ d \in DOMAIN t
  PROVE  Real(u, b) = d /\ (u = before \/ d \in DOMAIN u)
<1>1. CASE u = t BY <1>1
<1>2. CASE d \in DOMAIN t
  <2>1. Real(u, b) = d BY <1>2, RealStays
  <2>2. d \in DOMAIN u BY <1>2, GrowsNode
  <2> QED BY <2>1, <2>2
<1> QED BY <1>1, <1>2

(* The entry read is in the source; where its copy goes is as far below the  *)
(* destination.                                                             *)
LEMMA TopIs ==
  ASSUME TreeOK(fs), Stacked(fs, stack), stack # <<>>, From(before) \in Path, Onto(before) \in Path,
         S \in Path, NEW n \in Names(fs, Last(stack).src)
  PROVE  \E r \in Plain :
           /\ Append(r, n) \in Plain /\ Append(r, n) # <<>> /\ n \in Name
           /\ Len(Append(r, n)) = Len(stack) /\ Len(stack) \in 1..Len(stack) /\ Last(stack) \in Frames
           /\ Last(stack).src = From(before) \o r /\ Last(stack).dst = Onto(before) \o r
           /\ Append(Last(stack).src, n) = From(before) \o Append(r, n)
           /\ Append(Last(stack).dst, n) = Onto(before) \o Append(r, n)
           /\ Final(fs, From(before) \o r) = S \o r /\ Node(fs, S \o r, "dir")
           /\ Real(fs, From(before) \o Append(r, n)) = S \o Append(r, n) /\ S \o Append(r, n) \in DOMAIN fs
<1> DEFINE l == Len(stack)
           a == From(before)
<1>1. stack \in Seq(Frames) /\ \A k \in 1..l : FrameAt(fs, stack[k], k) BY DEF Stacked
<1>2. l \in Nat /\ l \in 1..l
  <2>1. l \in Nat \ {0} BY <1>1, EmptySeq
  <2> QED BY <2>1
<1>3. Last(stack) \in Frames BY <1>1, <1>2, ElementOfSeq DEF Last
<1>4. FrameAt(fs, Last(stack), l) BY <1>1, <1>2 DEF Last
<1>5. PICK r \in Plain : Len(r) = l - 1 /\ Last(stack).src = a \o r /\ Last(stack).dst = Onto(before) \o r
                         /\ Final(fs, a \o r) = S \o r /\ Node(fs, S \o r, "dir")
  BY <1>4 DEF FrameAt
<1>6. r \in Path /\ a \o r \in Path BY PlainPath, Joined
<1>7. n \in FileName /\ n \in Name /\ Append(Final(fs, a \o r), n) \in DOMAIN fs
  BY <1>5, <1>6, NamesIs
<1> HIDE DEF a
<1>8. Append(r, n) \in Plain BY <1>7, Plains
<1>9. Append(r, n) # <<>> BY <1>6, <1>7, Longer
<1>10. Len(Append(r, n)) = l
  <2>1. Len(Append(r, n)) = Len(r) + 1 BY <1>6, <1>7, PathAppend
  <2> QED BY <1>2, <1>5, <2>1
<1>11. Append(a \o r, n) = a \o Append(r, n) BY <1>6, <1>7, JoinedMore DEF a
<1>12. Append(Onto(before) \o r, n) = Onto(before) \o Append(r, n) BY <1>6, <1>7, JoinedMore
<1>15. S \o Append(r, n) = Append(S \o r, n) BY <1>6, <1>7, JoinedMore
<1>14. Real(fs, a \o Append(r, n)) = S \o Append(r, n) /\ S \o Append(r, n) \in DOMAIN fs
  <2>1. Real(fs, Append(a \o r, n)) = Along(fs, Real(fs, a \o r), n) BY <1>6, <1>7, RealMore
  <2>2. Through(fs, Real(fs, a \o r)) = S \o r BY <1>5 DEF Final
  <2>4. Along(fs, Real(fs, a \o r), n) = Append(S \o r, n) BY <1>7, <2>2 DEF Along
  <2> QED BY <1>5, <1>7, <1>11, <1>15, <2>1, <2>4
<1> QED BY <1>2, <1>3, <1>5, <1>7, <1>8, <1>9, <1>10, <1>11, <1>12, <1>14 DEF a

(* A link or a file copied.                                                 *)
FileAt(t, s, d, c, a, b) ==
  /\ MAXFD \in Nat /\ Loose(t, s, d) /\ c \subseteq DOMAIN t
  /\ a \in Path /\ b \in Path /\ Onto(before) \in Path /\ Exists(t, a) /\ ~Is(t, a, "dir")
  /\ s # <<>> => \E r \in Plain : r # <<>> /\ b = Onto(before) \o r

LEMMA CpF2FFit ==
  ASSUME NEW t, NEW s, NEW d, NEW c, NEW m, NEW a, NEW b, FileAt(t, s, d, c, a, b)
  PROVE  \E t2, s2, w2, d2, u2 :
           /\ CpF2F(State(t, s, <<>>, d, "running", c, m), a, b) = State(t2, s2, w2, d2, u2, c, m)
           /\ Fit(t2, s2, w2, d2, u2, c)
<1> DEFINE r == CpF2F(State(t, s, <<>>, d, "running", c, m), a, b)
<1> USE DEF Loose, FileAt
<1>1. r = IF Stops(t, d, a, b, m) THEN State(t, <<>>, <<>>, d, "exit", c, m)
          ELSE IF Is(t, a, "link") THEN State(Sym(t, Real(t, a), b, m), s, <<>>, d, After(s, "running"), c, m)
          ELSE State(Put(t, Final(t, b), File("empty")), s, <<Real(t, a), Final(t, b)>>, d + 2, "running", c, m)
  BY CpF2FIs
<1> HIDE DEF r
<1>2. ASSUME NEW v, TreeOK(v), Grows(t, v), s # <<>> => v = t \/ D \in DOMAIN t, NEW e \in 0..MAXFD
      PROVE  Loose(v, s, e) /\ c \subseteq DOMAIN v
  <2>1. Grows(before, v) BY <1>2, GrowsOn
  <2>2. Stacked(v, s) BY <1>2, StackedGrows
  <2>3. s # <<>> => Real(v, Stem(Onto(before))) = D /\ (v = before \/ D \in DOMAIN v)
    <3>1. Stem(Onto(before)) \in Path BY StemType
    <3> QED BY <1>2, <3>1, Onward
  <2>4. Loose(v, s, e) BY <1>2, <2>1, <2>2, <2>3
  <2>5. c \subseteq DOMAIN v BY <1>2 DEF Grows
  <2> QED BY <2>4, <2>5
<1>3. Fit(t, <<>>, <<>>, d, "exit", c)
  <2>1. Stacked(t, <<>>) BY EmptySeq DEF Stacked
  <2> QED BY <2>1 DEF Fit
<1>4. ASSUME s # <<>>, D \notin DOMAIN t PROVE ~Addable(t, Real(t, b), b) /\ ~CanWrite(t, b, m)
  <2>1. PICK x \in Plain : x # <<>> /\ b = Onto(before) \o x BY <1>4
  <2>2. ~Node(t, Final(t, Onto(before)), "dir") BY <1>4, NotThere
  <2> QED BY <2>1, <2>2, NotYet
<1>5. CASE Stops(t, d, a, b, m)
  BY <1>1, <1>3, <1>5 DEF r
<1>6. CASE ~Stops(t, d, a, b, m) /\ Is(t, a, "link")
  <2> DEFINE v == Sym(t, Real(t, a), b, m)
  <2>1. Real(t, a) \in Plain BY Kinds DEF Exists
  <2>2. TreeOK(v) /\ Grows(t, v) /\ (~Addable(t, Real(t, b), b) => v = t) BY <2>1, SymIs
  <2> HIDE DEF v
  <2>3. Loose(v, s, d) /\ c \subseteq DOMAIN v BY <1>2, <1>4, <2>2
  <2>5. Fit(v, s, <<>>, d, After(s, "running"), c)
    <3>1. CASE s = <<>> BY <2>3, <3>1 DEF Fit, After
    <3>2. CASE s # <<>> BY <2>3, <3>2 DEF Fit, After
    <3> QED BY <3>1, <3>2
  <2>4. r = State(v, s, <<>>, d, After(s, "running"), c, m) BY <1>1, <1>6 DEF v
  <2> QED BY <2>4, <2>5 DEF r
<1>7. CASE ~Stops(t, d, a, b, m) /\ ~Is(t, a, "link")
  <2> DEFINE out == Final(t, b)
             v == Put(t, out, File("empty"))
             w == <<Real(t, a), out>>
  <2>1. CanWrite(t, b, m) /\ ~(d + 2 > MAXFD) BY <1>7 DEF Stops
  <2>2. TreeOK(v) /\ Grows(t, v) BY <2>1, WrittenIs
  <2>3. out \in DOMAIN v /\ v[out] = File("empty")
    <3> DEFINE y == File("empty")
    <3> HIDE DEF y
    <3>1. out \in DOMAIN Put(t, out, y) /\ Put(t, out, y)[out] = y BY DEF Put
    <3> QED BY <3>1 DEF y
  <2> HIDE DEF v
  <2>4. Node(v, out, "file") BY <2>3 DEF Node, File
  <2>5. Node(v, Real(t, a), "file")
    <3>1. Real(t, a) \in DOMAIN t BY DEF Exists
    <3>2. t[Real(t, a)].kind = "file" BY <1>7, <3>1, Kinds DEF Is, Node
    <3> QED BY <2>2, <3>1, <3>2 DEF Grows, Node
  <2>6. d + 2 \in 0..MAXFD BY <2>1
  <2>7. Loose(v, s, d + 2) /\ c \subseteq DOMAIN v BY <1>2, <1>4, <2>1, <2>2, <2>6
  <2>10. s # <<>> => D \in DOMAIN v BY <1>4, <2>1, <2>2 DEF Grows
  <2>8. Fit(v, s, w, d + 2, "running", c) BY <2>4, <2>5, <2>7, <2>10 DEF Fit
  <2>9. r = State(v, s, w, d + 2, "running", c, m) BY <1>1, <1>7 DEF v
  <2> QED BY <2>8, <2>9 DEF r
<1> QED BY <1>5, <1>6, <1>7 DEF r

(* A directory opened, after the mkdir.                                     *)
DirAt(t, s, d, c, r) ==
  /\ MAXFD \in Nat /\ TreeOK(t) /\ Grows(before, t) /\ Stacked(t, s) /\ c \subseteq DOMAIN t
  /\ d \in 0..MAXFD /\ r \in Plain /\ Len(r) = Len(s)
  /\ From(before) \in Path /\ Onto(before) \in Path /\ Is(before, f1, "dir")
  /\ Node(t, S \o r, "dir") /\ Final(t, From(before) \o r) = S \o r
  /\ Real(t, Stem(Onto(before))) = D /\ (t = before \/ D \in DOMAIN t)

LEMMA CpD2DFit ==
  ASSUME NEW t, NEW s, NEW d, NEW c, NEW m, NEW r, DirAt(t, s, d, c, r)
  PROVE  \E t2, s2, d2, u2 :
           /\ CpD2D(State(t, s, <<>>, d, "running", c, m), From(before) \o r, Onto(before) \o r)
                = State(t2, s2, <<>>, d2, u2, c, m)
           /\ Fit(t2, s2, <<>>, d2, u2, c)
<1> DEFINE a == From(before) \o r
           b == Onto(before) \o r
           x == CpD2D(State(t, s, <<>>, d, "running", c, m), a, b)
           v == Append(s, Frame(a, b, t))
<1> USE DEF DirAt
<1> HIDE DEF a, b
<1>1. x = IF IsStrictPrefix(a, b) \/ d = MAXFD \/ Len(a) > PATH_MAX
          THEN State(t, <<>>, <<>>, d, "exit", c, m) ELSE State(t, v, <<>>, d + 1, "running", c, m)
  BY CpD2DIs
<1>2. Fit(t, <<>>, <<>>, d, "exit", c)
  <2>1. Stacked(t, <<>>) BY EmptySeq DEF Stacked
  <2> QED BY <2>1 DEF Fit, Loose
<1>3. Stacked(t, v) /\ v # <<>> BY StackedMore DEF a, b
<1> HIDE DEF x, v
<1>5. CASE IsStrictPrefix(a, b) \/ d = MAXFD \/ Len(a) > PATH_MAX BY <1>1, <1>2, <1>5 DEF x, a, b
<1>6. CASE ~(IsStrictPrefix(a, b) \/ d = MAXFD \/ Len(a) > PATH_MAX)
  <2>1. d + 1 \in 0..MAXFD BY <1>6
  <2>2. Fit(t, v, <<>>, d + 1, "running", c) BY <1>3, <2>1 DEF Fit, Loose
  <2> QED BY <1>1, <1>6, <2>2 DEF x, a, b
<1> QED BY <1>5, <1>6

(* A turn of the loop.                                                      *)
LEMMA EntryFit ==
  ASSUME Sane, stack # <<>>, NEW n \in Names(fs, Last(stack).src), NEW g
  PROVE  \E t, s, w, d, u : Entry(Last(stack), n, g) = State(t, s, w, d, u, cut, g) /\ Fit(t, s, w, d, u, cut)
<1> DEFINE a == Append(Last(stack).src, n)
           b == Append(Last(stack).dst, n)
           m == Marked(n)
<1>0. /\ before \in Trees /\ typed \in Arguments /\ Loose(fs, stack, fds) /\ cut \subseteq DOMAIN fs
  BY DEF Sane, Fit
<1>1. /\ TreeOK(fs) /\ Grows(before, fs) /\ Stacked(fs, stack) /\ fds \in 0..MAXFD
      /\ Is(before, f1, "dir") /\ Real(fs, Stem(Onto(before))) = D /\ (fs = before \/ D \in DOMAIN fs)
  BY <1>0 DEF Loose
<1>2. MAXFD \in Nat /\ From(before) \in Path /\ Onto(before) \in Path /\ S \in Path
  <2>1. Exists(before, f1) BY <1>1 DEF Is, Node, Exists
  <2> QED BY <1>0, <2>1, Given, Settled
<1>3. PICK r \in Plain :
        /\ Append(r, n) \in Plain /\ Append(r, n) # <<>> /\ Len(Append(r, n)) = Len(stack)
        /\ a = From(before) \o Append(r, n) /\ b = Onto(before) \o Append(r, n)
        /\ Real(fs, From(before) \o Append(r, n)) = S \o Append(r, n) /\ S \o Append(r, n) \in DOMAIN fs
        /\ n \in Name
  <2>1. \E r \in Plain :
           /\ Append(r, n) \in Plain /\ Append(r, n) # <<>> /\ n \in Name
           /\ Len(Append(r, n)) = Len(stack)
           /\ Append(Last(stack).src, n) = From(before) \o Append(r, n)
           /\ Append(Last(stack).dst, n) = Onto(before) \o Append(r, n)
           /\ Real(fs, From(before) \o Append(r, n)) = S \o Append(r, n) /\ S \o Append(r, n) \in DOMAIN fs
    BY <1>1, <1>2, TopIs
  <2> QED BY <2>1
<1>4. stack \in Seq(Frames) BY <1>1 DEF Stacked
<1>5. Stacked(fs, m) BY <1>1, StackedMarked
<1>6. Len(m) = Len(stack) /\ m # <<>> BY <1>3, <1>4, MarkedIs
<1>7. Entry(Last(stack), n, g) =
        IF Is(fs, a, "dir") THEN CpD2D(State(Dir(fs, b, g), m, <<>>, fds, "running", cut, g), a, b)
        ELSE CpF2F(State(fs, m, <<>>, fds, "running", cut, g), a, b)
  BY EntryIs
<1> DEFINE q == Append(r, n)
<1>8. a \in Path /\ b \in Path BY <1>2, <1>3, PlainPath, Joined
<1> HIDE DEF a, b, m, q
<1>9. q \in Plain /\ q # <<>> /\ Len(q) = Len(m) /\ a = From(before) \o q /\ b = Onto(before) \o q
      /\ Exists(fs, a) /\ Real(fs, a) = S \o q
  BY <1>3, <1>6 DEF q, Exists
<1>10. CASE Is(fs, a, "dir")
  <2> DEFINE v == Dir(fs, b, g)
  <2>1. Stem(b) = b BY <1>2, <1>9, StemOn
  <2>2. TreeOK(v) /\ Grows(fs, v) /\ (~Addable(fs, Real(fs, b), b) => v = fs) BY <1>1, <1>8, <2>1, DirIs
  <2> HIDE DEF v
  <2>3. v = fs \/ D \in DOMAIN fs
    <3> SUFFICES ASSUME D \notin DOMAIN fs PROVE v = fs OBVIOUS
    <3>1. ~Node(fs, Final(fs, Onto(before)), "dir") BY <1>1, <1>2, NotThere
    <3>2. ~Addable(fs, Real(fs, b), b) BY <1>1, <1>2, <1>9, <3>1, NotYet
    <3> QED BY <2>2, <3>2
  <2>4. Real(v, Stem(Onto(before))) = D /\ (v = before \/ D \in DOMAIN v)
    <3>1. Stem(Onto(before)) \in Path BY <1>2, StemType
    <3> QED BY <1>1, <2>2, <2>3, <3>1, Onward
  <2>5. Grows(before, v) BY <1>1, <2>2, GrowsOn
  <2>6. Stacked(v, m) BY <1>1, <1>5, <2>2, StackedGrows
  <2>7. Node(v, S \o q, "dir") /\ Final(v, a) = S \o q
    <3>1. Node(fs, S \o q, "dir") BY <1>9, <1>10 DEF Is
    <3>2. Final(fs, a) = S \o q BY <1>9, <3>1, Straight DEF Final, Node
    <3> QED BY <1>1, <1>8, <2>2, <3>1, <3>2, FinalStays
  <2>9. cut \subseteq DOMAIN v BY <1>0, <2>2 DEF Grows
  <2>8. \E t2, s2, d2, u2 :
           /\ CpD2D(State(v, m, <<>>, fds, "running", cut, g), From(before) \o q, Onto(before) \o q)
                = State(t2, s2, <<>>, d2, u2, cut, g)
           /\ Fit(t2, s2, <<>>, d2, u2, cut)
    <3>1. Final(v, From(before) \o q) = S \o q BY <1>9, <2>7
    <3>2. DirAt(v, m, fds, cut, q) BY <1>1, <1>2, <1>9, <2>2, <2>4, <2>5, <2>6, <2>7, <2>9, <3>1 DEF DirAt
    <3> QED BY <3>2, CpD2DFit
  <2> QED BY <1>7, <1>9, <1>10, <2>8 DEF v
<1>11. CASE ~Is(fs, a, "dir")
  <2>1. Loose(fs, m, fds) BY <1>1, <1>5 DEF Loose
  <2>2. \E t2, s2, w2, d2, u2 :
          /\ CpF2F(State(fs, m, <<>>, fds, "running", cut, g), a, b) = State(t2, s2, w2, d2, u2, cut, g)
          /\ Fit(t2, s2, w2, d2, u2, cut)
    <3>1. \E x \in Plain : x # <<>> /\ b = Onto(before) \o x BY <1>9
    <3>2. FileAt(fs, m, fds, cut, a, b) BY <1>0, <1>2, <1>8, <1>9, <1>11, <2>1, <3>1 DEF FileAt
    <3> QED BY <3>2, CpF2FFit
  <2> QED BY <1>7, <1>11, <2>2
<1> QED BY <1>10, <1>11

(* myrcp: which of its cases it is, with room or without.                   *)
LEMMA MyRcpCases ==
  ASSUME MyRcp
  PROVE  \E g \in BOOLEAN :
           \/ Becomes(Exit(Now(g)))
                /\ (~Exists(fs, f1) \/ (Is(fs, f1, "dir") /\ Exists(fs, f2) /\ ~Is(fs, f2, "dir")))
           \/ Exists(fs, f1) /\ ~Is(fs, f1, "dir") /\ Becomes(CpF2D(Now(g), f1, f2))
           \/ /\ Is(fs, f1, "dir") /\ (Exists(fs, f2) => Is(fs, f2, "dir"))
              /\ Becomes(CpD2D(Mkdir(Now(g), Onto(fs)), From(fs), Onto(fs)))
BY Zenon DEF MyRcp

LEMMA StartFit ==
  ASSUME Sane, MyRcp
  PROVE  \E t, s, w, d, u, c, m : m \in BOOLEAN /\ Becomes(State(t, s, w, d, u, c, m)) /\ Fit(t, s, w, d, u, c)
<1> USE DEF Sane
<1>1. status = "start" /\ fs = before /\ fds = 0 /\ stack = <<>> /\ cut \subseteq DOMAIN before
  BY DEF MyRcp, Fit
<1>2. TreeOK(before) /\ MAXFD \in Nat /\ f1 \in Path /\ Last(f1) \in Name /\ f2 \in Path BY Given
<1>3. Grows(before, before) BY DEF Grows
<1>4. Stacked(before, <<>>) BY EmptySeq DEF Stacked
<1>5. Fit(before, <<>>, <<>>, 0, "exit", cut) BY <1>1, <1>2, <1>3, <1>4 DEF Fit, Loose
<1>10. PICK g \in BOOLEAN :
           \/ Becomes(Exit(Now(g)))
           \/ Exists(fs, f1) /\ ~Is(fs, f1, "dir") /\ Becomes(CpF2D(Now(g), f1, f2))
           \/ Is(fs, f1, "dir") /\ Becomes(CpD2D(Mkdir(Now(g), Onto(fs)), From(fs), Onto(fs)))
  BY MyRcpCases, Zenon
<1>6. Exit(Now(g)) = State(before, <<>>, <<>>, 0, "exit", cut, g) BY <1>1, MyRcpIs
<1>7. CASE Becomes(Exit(Now(g))) BY <1>5, <1>6, <1>7
<1>8. CASE Exists(fs, f1) /\ ~Is(fs, f1, "dir") /\ Becomes(CpF2D(Now(g), f1, f2))
  <2> DEFINE k == Levels(before, f2, Last(f1))
             b == Within(f2, Last(f1), k)
  <2>1. k \in Nat /\ Onto(before) = b /\ Onto(before) \in Path BY <1>1, <1>8, Settled
  <2>2. CpF2D(Now(g), f1, f2) =
          IF 0 + k > MAXFD THEN State(before, <<>>, <<>>, 0, "exit", cut, g)
          ELSE CpF2F(State(before, <<>>, <<>>, 0 + k, "running", cut, g), f1, b)
    BY <1>1, MyRcpIs
  <2> HIDE DEF k, b
  <2>3. CASE 0 + k > MAXFD BY <1>5, <1>8, <2>2, <2>3
  <2>4. CASE ~(0 + k > MAXFD)
    <3>1. 0 + k \in 0..MAXFD BY <1>2, <2>1, <2>4
    <3>2. Loose(before, <<>>, 0 + k) BY <1>2, <1>3, <1>4, <3>1 DEF Loose
    <3>3. Exists(before, f1) /\ ~Is(before, f1, "dir") /\ b \in Path BY <1>1, <1>8, <2>1
    <3>4. \E t2, s2, w2, d2, u2 :
            /\ CpF2F(State(before, <<>>, <<>>, 0 + k, "running", cut, g), f1, b) = State(t2, s2, w2, d2, u2, cut, g)
            /\ Fit(t2, s2, w2, d2, u2, cut)
      <4>1. FileAt(before, <<>>, 0 + k, cut, f1, b) BY <1>1, <1>2, <2>1, <3>2, <3>3 DEF FileAt
      <4> QED BY <4>1, CpF2FFit
    <3> QED BY <1>8, <2>2, <2>4, <3>4
  <2> QED BY <2>3, <2>4
<1>9. CASE Is(fs, f1, "dir") /\ Becomes(CpD2D(Mkdir(Now(g), Onto(fs)), From(fs), Onto(fs)))
  <2> DEFINE b == Onto(before)
             v == Dir(before, b, g)
  <2>1. Exists(before, f1) BY <1>1, <1>9 DEF Is, Node, Exists
  <2>7. Is(before, f1, "dir") BY <1>1, <1>9
  <2>2. b \in Path /\ D = Real(before, Stem(b)) /\ From(before) \in Path /\ S \in Path BY <2>1, <2>7, Settled
  <2>3. CpD2D(Mkdir(Now(g), Onto(fs)), From(fs), Onto(fs))
          = CpD2D(State(v, <<>>, <<>>, 0, "running", cut, g), From(before), b)
    BY <1>1, MyRcpIs
  <2>5. /\ TreeOK(v) /\ Grows(before, v)
        /\ g /\ Addable(before, D, b) => Real(v, Stem(b)) = D /\ v = Put(before, D, Directory)
        /\ ~(g /\ Addable(before, D, b)) => v = before
    BY <1>2, <2>2, DirIs
  <2> HIDE DEF v, b
  <2>6. Real(v, Stem(b)) = D /\ (v = before \/ D \in DOMAIN v)
    <3>1. CASE g /\ Addable(before, D, b)
      <4>1. DOMAIN Put(before, D, Directory) = DOMAIN before \cup {D} BY DEF Put
      <4> QED BY <2>5, <3>1, <4>1
    <3>2. CASE ~(g /\ Addable(before, D, b)) BY <2>2, <2>5, <3>2
    <3> QED BY <3>1, <3>2
  <2>8. Node(v, S, "dir") /\ Final(v, From(before)) = S
    <3>1. Node(before, S, "dir") /\ Final(before, From(before)) = S BY <2>1, <2>7, Settled
    <3> QED BY <1>2, <2>2, <2>5, <3>1, FinalStays
  <2>9. Stacked(v, <<>>) BY EmptySeq DEF Stacked
  <2>10. <<>> \in Plain /\ From(before) \o <<>> = From(before) /\ b \o <<>> = b /\ S \o <<>> = S
    BY <1>2, <2>2, Plains, JoinedEmpty
  <2>11. 0 \in 0..MAXFD /\ Len(<<>>) = Len(<<>>) BY <1>2
  <2>12. \E t2, s2, d2, u2 :
           /\ CpD2D(State(v, <<>>, <<>>, 0, "running", cut, g), From(before) \o <<>>, Onto(before) \o <<>>)
                = State(t2, s2, <<>>, d2, u2, cut, g)
           /\ Fit(t2, s2, <<>>, d2, u2, cut)
    <3>1. Onto(before) \in Path /\ Real(v, Stem(Onto(before))) = D BY <2>2, <2>6 DEF b
    <3>2. Node(v, S \o <<>>, "dir") /\ Final(v, From(before) \o <<>>) = S \o <<>> BY <2>8, <2>10
    <3>3. v = before \/ D \in DOMAIN v BY <2>6
    <3>5. cut \subseteq DOMAIN v BY <1>1, <2>5 DEF Grows
    <3>4. /\ TreeOK(v) /\ Grows(before, v) /\ <<>> \in Plain /\ 0 \in 0..MAXFD /\ MAXFD \in Nat
          /\ From(before) \in Path
      BY <1>2, <2>2, <2>5, <2>10, <2>11
    <3>6. DirAt(v, <<>>, 0, cut, <<>>) BY <2>7, <2>9, <2>11, <3>1, <3>2, <3>3, <3>4, <3>5 DEF DirAt
    <3>7. \A e, o : DirAt(v, e, o, cut, e) =>
            \E t2, s2, d2, u2 :
              /\ CpD2D(State(v, e, <<>>, o, "running", cut, g), From(before) \o e, Onto(before) \o e)
                   = State(t2, s2, <<>>, d2, u2, cut, g)
              /\ Fit(t2, s2, <<>>, d2, u2, cut)
      BY CpD2DFit
    <3> QED BY <3>6, <3>7, Zenon
  <2> QED BY <1>9, <2>3, <2>10, <2>12 DEF b
<1> QED BY <1>7, <1>8, <1>9, <1>10

(* The end of a directory, and of a file.                                   *)
LEMMA EndFit ==
  ASSUME Sane, stack # <<>>
  PROVE  Fit(fs, Front(stack), <<>>, fds, After(Front(stack), "running"), cut)
<1>1. Loose(fs, stack, fds) /\ cut \subseteq DOMAIN fs BY DEF Sane, Fit
<1>2. Stacked(fs, Front(stack)) BY <1>1, StackedFront DEF Loose
<1>3. Loose(fs, Front(stack), fds) BY <1>1, <1>2 DEF Loose
<1>4. CASE Front(stack) = <<>> BY <1>1, <1>3, <1>4 DEF Fit, After
<1>5. CASE Front(stack) # <<>> BY <1>1, <1>3, <1>5 DEF Fit, After
<1> QED BY <1>4, <1>5

LEMMA WriteFit ==
  ASSUME Sane, writing # <<>>, NEW d, NEW c, c \subseteq cut \cup {writing[2]}
  PROVE  Fit(Put(fs, writing[2], File(d)), stack, <<>>, fds, After(stack, "running"), c)
<1> DEFINE o == writing[2]
           v == Put(fs, o, File(d))
<1>1. Loose(fs, stack, fds) /\ cut \subseteq DOMAIN fs /\ Node(fs, o, "file") BY DEF Sane, Fit
<1>2. TreeOK(v) /\ Grows(fs, v) BY <1>1, PutFile DEF Loose
<1>3. o \in DOMAIN fs BY <1>1 DEF Node
<1>4. DOMAIN v = DOMAIN fs \cup {o} BY DEF Put
<1> HIDE DEF v, o
<1>5. c \subseteq DOMAIN v BY <1>1, <1>3, <1>4 DEF o
<1>6. Stacked(v, stack) BY <1>1, <1>2, StackedGrows DEF Loose
<1>7. Grows(before, v) BY <1>1, <1>2, GrowsOn DEF Loose
<1>8. stack # <<>> => Real(v, Stem(Onto(before))) = D /\ (v = before \/ D \in DOMAIN v)
  <2> SUFFICES ASSUME stack # <<>> PROVE Real(v, Stem(Onto(before))) = D /\ (v = before \/ D \in DOMAIN v) OBVIOUS
  <2>1. Is(before, f1, "dir") /\ Real(fs, Stem(Onto(before))) = D /\ (fs = before \/ D \in DOMAIN fs)
    BY <1>1 DEF Loose
  <2>2. Onto(before) \in Path
    <3>1. Exists(before, f1) BY <2>1 DEF Is, Node, Exists
    <3> QED BY <3>1, Settled DEF Sane
  <2>3. Stem(Onto(before)) \in Path BY <2>2, StemType
  <2>4. D \in DOMAIN fs BY DEF Sane, Fit
  <2>5. Real(v, Stem(Onto(before))) = D BY <1>1, <1>2, <2>1, <2>3, <2>4, RealStays DEF Loose
  <2> QED BY <1>2, <2>4, <2>5 DEF Grows
<1>9. Loose(v, stack, fds) BY <1>1, <1>2, <1>6, <1>7, <1>8 DEF Loose
<1>10. CASE stack = <<>>
  <2>1. After(stack, "running") = "done" BY <1>10 DEF After
  <2> HIDE DEF After
  <2> QED BY <1>5, <1>9, <1>10, <2>1 DEF Fit, v, o
<1>11. CASE stack # <<>>
  <2>1. After(stack, "running") = "running" BY <1>11 DEF After
  <2> QED BY <1>5, <1>9, <1>11, <2>1 DEF Fit, v, o
<1> QED BY <1>10, <1>11

(* What was typed and what was there at the start stay.                     *)
LEMMA Still ==
  ASSUME typed' = typed, before' = before
  PROVE  f1' = f1 /\ f2' = f2 /\ S' = S /\ Onto(before)' = Onto(before) /\ From(before)' = From(before) /\ D' = D
<1>1. f1' = f1 /\ f2' = f2 BY DEF f1, f2
<1>2. S' = S BY <1>1 DEF S
<1>3. Onto(before)' = Onto(before) /\ From(before)' = From(before) BY <1>1 DEF Onto, From
<1>4. D' = D BY <1>1, <1>3 DEF D
<1> QED BY <1>1, <1>2, <1>3, <1>4

LEMMA SaneStep ==
  ASSUME Sane, NEW t, NEW s, NEW w, NEW d, NEW u, NEW c, NEW m, Becomes(State(t, s, w, d, u, c, m)),
         Fit(t, s, w, d, u, c)
  PROVE  Sane'
<1>1. /\ fs' = t /\ stack' = s /\ writing' = w /\ fds' = d /\ status' = u /\ cut' = c
      /\ full' = (full \/ ~m) /\ typed' = typed /\ before' = before
  BY BecomesIs
<1>2. f1' = f1 /\ Onto(before)' = Onto(before) /\ From(before)' = From(before) /\ D' = D /\ S' = S BY <1>1, Still
<1>4. Stacked(fs, stack)'
  <2>1. Stacked(t, s) BY DEF Fit, Loose
  <2>2. \A e, k : FrameAt(t, e, k) => FrameAt(fs, e, k)' BY <1>1, <1>2 DEF FrameAt
  <2> QED BY <1>1, <2>1, <2>2 DEF Stacked
<1>5. Loose(fs, stack, fds)'
  <2>1. Loose(t, s, d) BY DEF Fit
  <2> QED BY <1>1, <1>2, <1>4, <2>1 DEF Loose
<1>6. Fit(fs, stack, writing, fds, status, cut)' BY <1>1, <1>2, <1>5 DEF Fit
<1>7. full' \in BOOLEAN BY <1>1, Zenon
<1> QED BY <1>1, <1>6, <1>7 DEF Sane

LEMMA SaneInit == Init => Sane
<1> SUFFICES ASSUME Init PROVE Sane OBVIOUS
<1>1. /\ before \in Trees /\ typed \in Arguments /\ fs = before /\ stack = <<>> /\ writing = <<>> /\ fds = 0
      /\ status = "start" /\ cut = {} /\ full = FALSE
  BY DEF Init
<1>2. TreeOK(before) /\ MAXFD \in Nat BY <1>1, Given
<1>3. Grows(before, fs) BY <1>1 DEF Grows
<1>4. Stacked(fs, <<>>) BY EmptySeq DEF Stacked
<1>5. Loose(fs, <<>>, 0) BY <1>1, <1>2, <1>3, <1>4 DEF Loose
<1>6. Fit(fs, stack, writing, fds, status, cut) BY <1>1, <1>5 DEF Fit
<1>7. full \in BOOLEAN BY <1>1
<1> QED BY <1>1, <1>6, <1>7 DEF Sane

(* What each step leads to.                                                 *)
LEMMA Steps ==
  ASSUME [Next]_vars
  PROVE  \/ MyRcp
         \/ /\ stack # <<>> /\ writing = <<>>
            /\ \E n \in Names(fs, Last(stack).src) \ Last(stack).seen, g \in BOOLEAN :
                 Becomes(Entry(Last(stack), n, g))
         \/ Write
         \/ /\ stack # <<>> /\ writing = <<>> /\ Last(stack).must \subseteq Last(stack).seen
            /\ Becomes(State(fs, Front(stack), <<>>, fds, After(Front(stack), "running"), cut, TRUE))
         \/ UNCHANGED vars
<1>1. MyRcp \/ ReadEntry \/ Write \/ EndOfDir \/ UNCHANGED vars BY DEF Next
<1>2. EndOfDir => /\ stack # <<>> /\ writing = <<>> /\ Last(stack).must \subseteq Last(stack).seen
                  /\ Becomes(State(fs, Front(stack), <<>>, fds, After(Front(stack), "running"), cut, TRUE))
  BY ReturnedIs, Zenon DEF EndOfDir
<1>3. ReadEntry =>
        /\ stack # <<>> /\ writing = <<>>
        /\ \E n \in Names(fs, Last(stack).src) \ Last(stack).seen, g \in BOOLEAN :
             Becomes(Entry(Last(stack), n, g))
  BY Zenon DEF ReadEntry
<1> QED BY <1>1, <1>2, <1>3, Zenon

LEMMA StillSane == Sane /\ UNCHANGED vars => Sane'
<1> SUFFICES ASSUME Sane, UNCHANGED vars PROVE Sane' OBVIOUS
<1>1. /\ fs' = fs /\ stack' = stack /\ writing' = writing /\ fds' = fds /\ status' = status /\ cut' = cut
      /\ full' = full /\ typed' = typed /\ before' = before
  BY DEF vars
<1>2. f1' = f1 /\ Onto(before)' = Onto(before) /\ From(before)' = From(before) /\ D' = D /\ S' = S BY <1>1, Still
<1>3. Stacked(fs, stack)'
  <2>1. Stacked(fs, stack) BY DEF Sane, Fit, Loose
  <2>2. \A e, k : FrameAt(fs, e, k) => FrameAt(fs, e, k)' BY <1>1, <1>2 DEF FrameAt
  <2> QED BY <1>1, <2>1, <2>2 DEF Stacked
<1>4. Loose(fs, stack, fds)'
  <2>1. Loose(fs, stack, fds) BY DEF Sane, Fit
  <2> QED BY <1>1, <1>2, <1>3, <2>1 DEF Loose
<1>5. Fit(fs, stack, writing, fds, status, cut)'
  <2>1. Fit(fs, stack, writing, fds, status, cut) BY DEF Sane
  <2> QED BY <1>1, <1>2, <1>4, <2>1 DEF Fit
<1> QED BY <1>1, <1>5 DEF Sane

LEMMA SaneNext == Sane /\ [Next]_vars => Sane'
<1> SUFFICES ASSUME Sane, [Next]_vars PROVE Sane' OBVIOUS
<1>1. CASE MyRcp
  <2>1. PICK t, s, w, d, u, c, m : Becomes(State(t, s, w, d, u, c, m)) /\ Fit(t, s, w, d, u, c) BY <1>1, StartFit
  <2> QED BY <2>1, SaneStep
<1>2. ASSUME stack # <<>>, NEW n \in Names(fs, Last(stack).src), NEW g, Becomes(Entry(Last(stack), n, g))
      PROVE  Sane'
  <2>1. PICK t, s, w, d, u : Entry(Last(stack), n, g) = State(t, s, w, d, u, cut, g) /\ Fit(t, s, w, d, u, cut)
    BY <1>2, EntryFit
  <2>2. Becomes(State(t, s, w, d, u, cut, g)) BY <1>2, <2>1
  <2> QED BY <2>1, <2>2, SaneStep
<1>3. ASSUME stack # <<>>, Becomes(State(fs, Front(stack), <<>>, fds, After(Front(stack), "running"), cut, TRUE))
      PROVE  Sane'
  <2>1. Fit(fs, Front(stack), <<>>, fds, After(Front(stack), "running"), cut) BY <1>3, EndFit
  <2> DEFINE s == Front(stack)
             u == After(Front(stack), "running")
  <2>2. Fit(fs, s, <<>>, fds, u, cut) /\ Becomes(State(fs, s, <<>>, fds, u, cut, TRUE)) BY <1>3, <2>1, Zenon
  <2> HIDE DEF s, u
  <2> QED BY <2>2, SaneStep, Zenon
<1>4. CASE Write
  <2>0. writing # <<>> BY <1>4, Zenon DEF Write
  <2>1. Node(fs, writing[1], "file") /\ Node(fs, writing[2], "file") /\ TreeOK(fs) BY <2>0 DEF Sane, Fit, Loose
  <2>2. writing[2] \in DOMAIN fs BY <2>1 DEF Node
  <2>3. PICK x : fs[writing[1]] = File(x) BY <2>1, Kinds DEF Node
  <2>4. Fit(Put(fs, writing[2], fs[writing[1]]), stack, <<>>, fds, After(stack, "running"), cut)
    <3>1. cut \subseteq cut \cup {writing[2]} OBVIOUS
    <3>2. Fit(Put(fs, writing[2], File(x)), stack, <<>>, fds, After(stack, "running"), cut)
      BY <2>0, <3>1, WriteFit
    <3> QED BY <2>3, <3>2
  <2>5. Fit(Put(fs, writing[2], File("cut")), stack, <<>>, fds, After(stack, "running"), cut \cup {writing[2]})
    BY <2>0, WriteFit
  <2>6. CASE Becomes(State(Put(fs, writing[2], fs[writing[1]]), stack, <<>>, fds, After(stack, "running"), cut, TRUE))
    BY <2>4, <2>6, SaneStep, Zenon
  <2>7. CASE Becomes(State(Put(fs, writing[2], File("cut")), stack, <<>>, fds, After(stack, "running"),
                           cut \cup {writing[2]}, TRUE))
    BY <2>5, <2>7, SaneStep, Zenon
  <2> QED BY <1>4, <2>2, <2>6, <2>7, WriteIs, Zenon
<1>5. CASE UNCHANGED vars BY <1>5, StillSane
<1> QED BY <1>1, <1>2, <1>3, <1>4, <1>5, Steps, Zenon

(* Every state is of its type.                                              *)
LEMMA SaneTyped == Sane => TypeOK
<1> SUFFICES ASSUME Sane PROVE TypeOK OBVIOUS
<1>1. TreeOK(before) BY Given DEF Sane
<1>2. /\ Loose(fs, stack, fds) /\ status \in {"start", "running", "done", "exit"} /\ cut \subseteq DOMAIN fs
      /\ full \in BOOLEAN
  BY DEF Sane, Fit
<1>5. stack = <<>> /\ writing = <<>> <=> status # "running" BY DEF Sane, Fit
<1>3. TreeOK(fs) /\ Stacked(fs, stack) /\ fds \in 0..MAXFD BY <1>2 DEF Loose
<1>4. \A k \in DOMAIN stack : stack[k].seen \subseteq Names(fs, stack[k].src)
  <2>1. DOMAIN stack = 1..Len(stack) BY <1>3, LenProperties DEF Stacked
  <2> QED BY <1>3, <2>1 DEF Stacked, FrameAt
<1>6. writing # <<>> =>
        writing = <<writing[1], writing[2]>> /\ \A k \in 1..2 : Node(fs, writing[k], "file")
  <2>1. writing # <<>> => writing = <<writing[1], writing[2]>> /\ Node(fs, writing[1], "file")
                            /\ Node(fs, writing[2], "file")
    BY DEF Sane, Fit
  <2>2. \A k \in 1..2 : k = 1 \/ k = 2 OBVIOUS
  <2> QED BY <2>1, <2>2
<1>7. (stack = <<>> /\ writing = <<>>) = (status # "running") BY <1>5, Zenon
<1> QED BY <1>1, <1>2, <1>3, <1>4, <1>6, <1>7, Zenon DEF TypeOK

-----------------------------------------------------------------------------
(* What there is to copy: the places below the source, each in the place of  *)
(* the same name below the destination.                                     *)
LEMMA TailOf ==
  ASSUME NEW p \in Path, NEW w \in Path
  PROVE  SubSeq(p \o w, Len(p) + 1, Len(p \o w)) = w
<1>1. IsPrefix(p, p \o w) /\ p \o w \in Path BY Joined, PrefixJoined
<1>2. p \o w = p \o SubSeq(p \o w, Len(p) + 1, Len(p \o w)) /\ SubSeq(p \o w, Len(p) + 1, Len(p \o w)) \in Path
  BY <1>1, PrefixRest
<1> QED BY <1>2, JoinedSame

LEMMA InnerIs ==
  ASSUME TreeOK(before), S \in Path
  PROVE  /\ \A r \in Inner : r \in Plain /\ r \in Path /\ S \o r \in DOMAIN before
         /\ \A r \in Path : S \o r \in DOMAIN before => r \in Inner
<1>1. ASSUME NEW r \in Inner PROVE r \in Plain /\ r \in Path /\ S \o r \in DOMAIN before
  <2>1. PICK q \in DOMAIN before : IsPrefix(S, q) /\ r = SubSeq(q, Len(S) + 1, Len(q)) BY DEF Inner
  <2>2. q \in Path /\ q \in Plain BY Kinds
  <2>3. PICK w \in Path : q = S \o w BY <2>1, <2>2, PrefixIs
  <2>4. r = w BY <2>1, <2>3, TailOf
  <2> QED BY <2>2, <2>3, <2>4, Plains
<1>2. ASSUME NEW r \in Path, S \o r \in DOMAIN before PROVE r \in Inner
  <2>1. IsPrefix(S, S \o r) BY PrefixJoined
  <2>2. r = SubSeq(S \o r, Len(S) + 1, Len(S \o r)) BY TailOf
  <2> QED BY <1>2, <2>1, <2>2 DEF Inner
<1> QED BY <1>1, <1>2

(* Whatever is above a place to copy is a directory to copy.                *)
LEMMA InnerUp ==
  ASSUME TreeOK(before), S \in Path, NEW r \in Inner, NEW x \in Path, IsPrefix(x, r)
  PROVE  x \in Inner /\ (x # r => Source(x) = Directory)
<1>1. r \in Path /\ S \o r \in DOMAIN before BY InnerIs
<1>2. IsPrefix(S \o x, S \o r) /\ S \o x \in Path BY <1>1, PrefixJoined, Joined
<1>3. S \o x \in DOMAIN before /\ (S \o x # S \o r => Node(before, S \o x, "dir")) BY <1>1, <1>2, Above
<1>4. x \in Inner BY <1>3, InnerIs
<1>5. x # r => S \o x # S \o r BY <1>1, JoinedSame
<1>6. Node(before, S \o x, "dir") => before[S \o x] = Directory BY Kinds DEF Node
<1> QED BY <1>3, <1>4, <1>5, <1>6 DEF Source

-----------------------------------------------------------------------------
(* A tree in which each node is as it was or as it was to be copied, but for *)
(* some files; one with the source as it was; and the file being written.    *)
Mixed(t, X) ==
  /\ DOMAIN before \subseteq DOMAIN t
  /\ \A p \in DOMAIN t :
       \/ p \in DOMAIN before /\ t[p] = before[p]
       \/ \E r \in Inner : p = D \o r /\ t[p].kind = Source(r).kind /\ (t[p] = Copied(r) \/ p \in X)
Kept(t) == \A x \in DOMAIN t : IsPrefix(S, x) => x \in DOMAIN before /\ t[x] = before[x]
Pending(w) == IF w = <<>> THEN {} ELSE {w[2]}
Job(t, w) ==
  w # <<>> => \E q \in Inner : /\ w = <<S \o q, D \o q>> /\ S \o q # D \o q
                               /\ Source(q).kind = "file" /\ t[S \o q] = Source(q)
Good(t, w, c) == Mixed(t, c \cup Pending(w)) /\ Job(t, w)

LEMMA CopiedKind ==
  ASSUME NEW r
  PROVE  Copied(r).kind = Source(r).kind /\ (Source(r).kind # "link" => Copied(r) = Source(r))
BY DEF Copied, LinkTo

LEMMA MixedKept ==
  ASSUME TreeOK(before), S \in Path, D \in Path, Beside(S, D), NEW t, TreeOK(t), NEW X, Mixed(t, X)
  PROVE  Kept(t)
<1> SUFFICES ASSUME NEW x \in DOMAIN t, IsPrefix(S, x), NEW r \in Inner, x = D \o r PROVE FALSE
  BY DEF Mixed, Kept
<1>1. r \in Path BY InnerIs
<1>2. IsPrefix(D, x) /\ x \in Path BY <1>1, PrefixJoined, Joined
<1>3. IsPrefix(S, D) \/ IsPrefix(D, S) BY <1>2, PrefixLine
<1> QED BY <1>3 DEF Beside

LEMMA MixedPut ==
  ASSUME NEW t, NEW X, NEW Y, Mixed(t, X), NEW q \in Inner, NEW node, node.kind = Source(q).kind,
         node = Copied(q) \/ D \o q \in Y, X \ {D \o q} \subseteq Y
  PROVE  Mixed(Put(t, D \o q, node), Y)
<1> DEFINE v == Put(t, D \o q, node)
<1>1. DOMAIN v = DOMAIN t \cup {D \o q} /\ v[D \o q] = node /\ \A x \in DOMAIN t : x # D \o q => v[x] = t[x]
  BY DEF Put
<1> HIDE DEF v
<1>2. DOMAIN before \subseteq DOMAIN v BY <1>1 DEF Mixed
<1>3. ASSUME NEW p \in DOMAIN v
      PROVE  \/ p \in DOMAIN before /\ v[p] = before[p]
             \/ \E r \in Inner : p = D \o r /\ v[p].kind = Source(r).kind /\ (v[p] = Copied(r) \/ p \in Y)
  <2>1. CASE p = D \o q BY <1>1, <2>1
  <2>2. CASE p # D \o q
    <3>1. p \in DOMAIN t /\ v[p] = t[p] BY <1>1, <2>2
    <3>2. p \in X => p \in Y BY <2>2
    <3> QED BY <3>1, <3>2 DEF Mixed
  <2> QED BY <2>1, <2>2
<1> QED BY <1>2, <1>3 DEF Mixed, v

(* No link is in the way, old or new.                                       *)
LEMMA MixedLink ==
  ASSUME TreeOK(before), S \in Path, D \in Path, ~Linked, NEW t, NEW X, Mixed(t, X),
         NEW x \in Inner, NEW r \in Inner, IsPrefix(x, r), Source(x).kind # "link"
  PROVE  ~Node(t, D \o x, "link")
<1> SUFFICES ASSUME D \o x \in DOMAIN t, t[D \o x].kind = "link" PROVE FALSE BY DEF Node
<1>0. x \in Path /\ r \in Path BY InnerIs
<1>1. CASE D \o x \in DOMAIN before /\ t[D \o x] = before[D \o x]
  <2>1. D \o x \in Links BY <1>1 DEF Links
  <2>2. IsPrefix(D \o x, D \o r) BY <1>0, PrefixJoined
  <2> QED BY <2>1, <2>2 DEF Linked
<1>2. CASE \E y \in Inner : D \o x = D \o y /\ t[D \o x].kind = Source(y).kind
  <2>1. PICK y \in Inner : D \o x = D \o y /\ t[D \o x].kind = Source(y).kind BY <1>2
  <2>2. y = x BY <1>0, <2>1, InnerIs, JoinedSame
  <2> QED BY <2>1, <2>2
<1> QED BY <1>1, <1>2 DEF Mixed

LEMMA MixedReal ==
  ASSUME TreeOK(before), S \in Path, D \in Path, Onto(before) \in Path, ~Linked, NEW t, TreeOK(t),
         NEW X, Mixed(t, X), Real(t, Onto(before)) = D, NEW q \in Inner
  PROVE  /\ Real(t, Onto(before) \o q) = D \o q
         /\ Source(q).kind # "link" => ~Node(t, D \o q, "link") /\ Through(t, D \o q) = D \o q
<1>1. q \in Plain /\ q \in Path BY InnerIs
<1>2. \A x \in Plain : IsPrefix(x, q) /\ x # q => ~Node(t, D \o x, "link")
  <2> SUFFICES ASSUME NEW x \in Plain, IsPrefix(x, q), x # q PROVE ~Node(t, D \o x, "link") OBVIOUS
  <2>1. x \in Path BY PlainPath
  <2>2. x \in Inner /\ Source(x) = Directory BY <2>1, InnerUp
  <2>3. Source(x).kind # "link" BY <2>2 DEF Directory
  <2> QED BY <2>2, <2>3, MixedLink
<1>3. Real(t, Onto(before) \o q) = D \o q BY <1>1, <1>2, RealOn
<1>4. IsPrefix(q, q) BY <1>1, PrefixSelf
<1>5. Source(q).kind # "link" => ~Node(t, D \o q, "link") BY <1>4, MixedLink
<1> QED BY <1>3, <1>5, Straight

(* The destination is a directory and its path leads there, or nothing can  *)
(* be put below it.                                                         *)
Shut(t) == ~Node(t, Final(t, Onto(before)), "dir") /\ ~Node(t, D, "dir")

LEMMA OpenOrShut ==
  ASSUME TreeOK(before), S \in Path, D \in Path, Onto(before) \in Path, ~Linked, NEW t, TreeOK(t),
         NEW X, Mixed(t, X), <<>> \in Inner, Source(<<>>) = Directory, Real(t, Stem(Onto(before))) = D
  PROVE  Real(t, Onto(before)) = D \/ Shut(t)
<1> SUFFICES ASSUME Real(t, Onto(before)) # D PROVE Shut(t) OBVIOUS
<1>1. ~Node(t, D, "dir") BY StemLeads
<1>2. ~Node(t, D, "link")
  <2>1. Source(<<>>).kind # "link" BY DEF Directory
  <2>2. IsPrefix(<<>>, <<>>) /\ D \o <<>> = D BY JoinedEmpty, PrefixSelf
  <2> QED BY <2>1, <2>2, MixedLink
<1>3. Final(t, Stem(Onto(before))) = D BY <1>2, Straight DEF Final
<1>4. Node(t, Final(t, Onto(before)), "dir") => Final(t, Stem(Onto(before))) = Final(t, Onto(before)) BY StemLeads
<1> QED BY <1>1, <1>3, <1>4 DEF Shut

LEMMA NoneBelow ==
  ASSUME NEW t, TreeOK(t), D \in Path, ~Node(t, D, "dir"), NEW q \in Path, q # <<>>
  PROVE  D \o q \notin DOMAIN t /\ \A p : ~Addable(t, D \o q, p)
<1>1. IsPrefix(D, D \o q) /\ D # D \o q
  <2>1. D \o <<>> = D /\ <<>> \in Path BY JoinedEmpty
  <2> QED BY <2>1, JoinedSame, PrefixJoined
<1>2. D \o q \notin DOMAIN t BY <1>1, Above
<1>3. PICK v \in Path, n \in Name : q = Append(v, n) BY SequenceEmptyOrAppend DEF Path
<1>4. D \o q = Append(D \o v, n) /\ D \o v \in Path BY <1>3, JoinedMore, Joined
<1>5. Front(D \o q) = D \o v BY <1>4, Longer
<1>6. IsPrefix(D, D \o v) BY <1>3, PrefixJoined
<1>7. ~Node(t, D \o v, "dir")
  <2> SUFFICES ASSUME Node(t, D \o v, "dir") PROVE FALSE OBVIOUS
  <2>1. D \o v \in DOMAIN t BY DEF Node
  <2>2. D # D \o v => Node(t, D, "dir") BY <1>6, <2>1, Above
  <2> QED BY <2>2
<1> QED BY <1>2, <1>5, <1>7 DEF Addable

(* What the host makes of the place of a copy.                              *)
Added(t, q, node, m) == IF m /\ Addable(t, D \o q, Onto(before) \o q) THEN Put(t, D \o q, node) ELSE t
Built(t, q, m) == Added(t, q, Copied(q), m)
Takes(t, q, m) == Node(t, D \o q, "file") \/ (m /\ Addable(t, D \o q, Onto(before) \o q))
Lands(t, q, m) ==
  LET b == Onto(before) \o q
      x == D \o q
  IN /\ Exists(t, b) <=> x \in DOMAIN t
     /\ x \in DOMAIN t => Real(t, b) = x
     /\ q # <<>> => Dir(t, b, m) = Added(t, q, Directory, m)
     /\ \A to \in Plain : Sym(t, to, b, m) = Added(t, q, LinkTo(to), m)
     /\ Source(q).kind # "link" => (CanWrite(t, b, m) <=> Takes(t, q, m)) /\ (CanWrite(t, b, m) => Final(t, b) = x)

LEMMA LandsIs ==
  ASSUME TreeOK(before), S \in Path, D \in Path, Onto(before) \in Path, ~Linked, NEW t, TreeOK(t),
         NEW X, Mixed(t, X), NEW q \in Inner, NEW m, Real(t, Onto(before)) = D \/ (Shut(t) /\ q # <<>>)
  PROVE  Lands(t, q, m)
<1> DEFINE b == Onto(before) \o q
           x == D \o q
<1>1. q \in Plain /\ q \in Path /\ b \in Path BY InnerIs, Joined
<1>2. q # <<>> => Stem(b) = b BY <1>1, StemOn
<1>3. /\ m /\ Addable(t, Real(t, Stem(b)), b) => Dir(t, b, m) = Put(t, Real(t, Stem(b)), Directory)
      /\ ~(m /\ Addable(t, Real(t, Stem(b)), b)) => Dir(t, b, m) = t
  BY <1>1, DirIs
<1>4. ASSUME NEW to \in Plain
      PROVE  /\ m /\ Addable(t, Real(t, b), b) => Sym(t, to, b, m) = Put(t, Real(t, b), LinkTo(to))
             /\ ~(m /\ Addable(t, Real(t, b), b)) => Sym(t, to, b, m) = t
  BY <1>1, SymIs
<1>5. CASE Real(t, Onto(before)) = D
  <2>1. Real(t, b) = x /\ (Source(q).kind # "link" => Through(t, x) = x) BY <1>5, MixedReal
  <2>2. Source(q).kind # "link" => Final(t, b) = x BY <2>1 DEF Final
  <2> HIDE DEF x
  <2>3. Exists(t, b) <=> x \in DOMAIN t BY <2>1 DEF Exists
  <2>4. q # <<>> => Dir(t, b, m) = Added(t, q, Directory, m) BY <1>2, <1>3, <2>1 DEF Added, x
  <2>5. \A to \in Plain : Sym(t, to, b, m) = Added(t, q, LinkTo(to), m) BY <1>4, <2>1 DEF Added, x
  <2>6. Source(q).kind # "link" => (CanWrite(t, b, m) <=> Takes(t, q, m)) BY <2>2 DEF CanWrite, Takes, x
  <2> QED BY <2>1, <2>2, <2>3, <2>4, <2>5, <2>6 DEF Lands, x
<1>6. CASE Shut(t) /\ q # <<>>
  <2>1. (\A p : ~Addable(t, Real(t, b), p)) /\ ~CanWrite(t, b, m) BY <1>1, <1>6, NotYet DEF Shut
  <2>2. Real(t, b) \notin DOMAIN t BY <1>1, <1>6, NoPlace DEF Shut
  <2>3. x \notin DOMAIN t /\ \A p : ~Addable(t, x, p) BY <1>1, <1>6, NoneBelow DEF Shut
  <2>4. ~Exists(t, b) BY <2>2 DEF Exists
  <2> HIDE DEF x
  <2>5. Dir(t, b, m) = Added(t, q, Directory, m) BY <1>2, <1>3, <1>6, <2>1, <2>3 DEF Added, x
  <2>6. \A to \in Plain : Sym(t, to, b, m) = Added(t, q, LinkTo(to), m) BY <1>4, <2>1, <2>3 DEF Added, x
  <2>7. ~Takes(t, q, m) BY <2>3 DEF Takes, Node, x
  <2> QED BY <2>1, <2>3, <2>4, <2>5, <2>6, <2>7 DEF Lands, x
<1> QED BY <1>5, <1>6

(* The copy of one place.                                                   *)
Opens(t, s, d, q, c, m) ==
  LET a == From(before) \o q
      b == Onto(before) \o q
      v == Built(t, q, m)
  IN IF IsStrictPrefix(a, b) \/ d = MAXFD \/ Len(a) > PATH_MAX THEN State(v, <<>>, <<>>, d, "exit", c, m)
     ELSE State(v, Append(s, Frame(a, b, v)), <<>>, d + 1, "running", c, m)
Copies(t, s, d, q, c, m) ==
  IF Source(q).kind = "link"
  THEN IF D \o q \in DOMAIN t THEN State(t, <<>>, <<>>, d, "exit", c, m)
       ELSE State(Built(t, q, m), s, <<>>, d, After(s, "running"), c, m)
  ELSE IF S = D \/ ~Takes(t, q, m) \/ d + 2 > MAXFD THEN State(t, <<>>, <<>>, d, "exit", c, m)
       ELSE State(Put(t, D \o q, File("empty")), s, <<S \o q, D \o q>>, d + 2, "running", c, m)

LEMMA DirCopies ==
  ASSUME NEW t, NEW q, NEW m, Dir(t, Onto(before) \o q, m) = Added(t, q, Directory, m), Source(q) = Directory,
         NEW s, NEW d, NEW c
  PROVE  /\ Dir(t, Onto(before) \o q, m) = Built(t, q, m)
         /\ CpD2D(State(Dir(t, Onto(before) \o q, m), s, <<>>, d, "running", c, m), From(before) \o q, Onto(before) \o q)
              = Opens(t, s, d, q, c, m)
<1>1. Copied(q) = Directory
  <2>1. Directory.kind # "link" BY DEF Directory
  <2> QED BY <2>1 DEF Copied
<1>2. Dir(t, Onto(before) \o q, m) = Built(t, q, m) BY <1>1 DEF Built
<1> DEFINE a == From(before) \o q
           b == Onto(before) \o q
           v == Built(t, q, m)
<1> HIDE DEF a, b, v
<1>3. CpD2D(State(v, s, <<>>, d, "running", c, m), a, b) =
        IF IsStrictPrefix(a, b) \/ d = MAXFD \/ Len(a) > PATH_MAX
        THEN State(v, <<>>, <<>>, d, "exit", c, m) ELSE State(v, Append(s, Frame(a, b, v)), <<>>, d + 1, "running", c, m)
  BY CpD2DIs
<1>4. CpD2D(State(v, s, <<>>, d, "running", c, m), a, b) = Opens(t, s, d, q, c, m)
  BY <1>3, Zenon DEF Opens, a, b, v
<1> QED BY <1>2, <1>4 DEF a, b, v

LEMMA FileStep ==
  ASSUME NEW t, NEW s, NEW d, NEW c, NEW m, NEW a, NEW b, NEW y, Real(t, a) = y
  PROVE  CpF2F(State(t, s, <<>>, d, "running", c, m), a, b) =
           IF Stops(t, d, a, b, m) THEN State(t, <<>>, <<>>, d, "exit", c, m)
           ELSE IF Is(t, a, "link") THEN State(Sym(t, y, b, m), s, <<>>, d, After(s, "running"), c, m)
           ELSE State(Put(t, Final(t, b), File("empty")), s, <<y, Final(t, b)>>, d + 2, "running", c, m)
BY CpF2FIs

LEMMA EntryStops ==
  ASSUME NEW n, NEW g, NEW a, NEW b
  PROVE  Stops(fs, fds, a, b, g) =>
           CpF2F(State(fs, Marked(n), <<>>, fds, "running", cut, g), a, b)
             = State(fs, <<>>, <<>>, fds, "exit", cut, g)
<1>1. CpF2F(State(fs, Marked(n), <<>>, fds, "running", cut, g), a, b) =
        IF Stops(fs, fds, a, b, g) THEN State(fs, <<>>, <<>>, fds, "exit", cut, g)
        ELSE IF Is(fs, a, "link")
        THEN State(Sym(fs, Real(fs, a), b, g), Marked(n), <<>>, fds, After(Marked(n), "running"), cut, g)
        ELSE State(Put(fs, Final(fs, b), File("empty")), Marked(n), <<Real(fs, a), Final(fs, b)>>, fds + 2,
                   "running", cut, g)
  BY CpF2FIs
<1> QED BY <1>1, Zenon

Found(t, q, m, a) ==
  /\ S \in Path /\ D \in Path /\ TreeOK(t) /\ q \in Path /\ Lands(t, q, m) /\ a \in Path
  /\ Real(t, a) = S \o q /\ S \o q \in DOMAIN t /\ t[S \o q] = Source(q)

LEMMA FileCopies ==
  ASSUME NEW t, NEW q, NEW m, NEW a, Found(t, q, m, a), NEW s, NEW d, NEW c
  PROVE  CpF2F(State(t, s, <<>>, d, "running", c, m), a, Onto(before) \o q) = Copies(t, s, d, q, c, m)
<1> DEFINE b == Onto(before) \o q
           x == D \o q
           y == S \o q
           r == CpF2F(State(t, s, <<>>, d, "running", c, m), a, b)
           e == State(t, <<>>, <<>>, d, "exit", c, m)
<1>1. /\ Exists(t, b) <=> x \in DOMAIN t
      /\ x \in DOMAIN t => Real(t, b) = x
      /\ \A to \in Plain : Sym(t, to, b, m) = Added(t, q, LinkTo(to), m)
      /\ Source(q).kind # "link" => (CanWrite(t, b, m) <=> Takes(t, q, m)) /\ (CanWrite(t, b, m) => Final(t, b) = x)
  BY Zenon DEF Lands, Found
<1>2. y = x <=> S = D BY JoinedFront DEF Found
<1>3. y \in Plain /\ Real(t, a) = y /\ y \in DOMAIN t /\ t[y] = Source(q) BY Kinds DEF Found
<1> HIDE DEF b, x, y
<1>4. r = IF Stops(t, d, a, b, m) THEN e
          ELSE IF Is(t, a, "link") THEN State(Sym(t, y, b, m), s, <<>>, d, After(s, "running"), c, m)
          ELSE State(Put(t, Final(t, b), File("empty")), s, <<y, Final(t, b)>>, d + 2, "running", c, m)
  BY <1>3, FileStep
<1> HIDE DEF r, e
<1>5. Is(t, a, "link") <=> Source(q).kind = "link" BY <1>3 DEF Is, Node
<1>6. CASE Source(q).kind = "link"
  <2>1. Sym(t, y, b, m) = Built(t, q, m)
    <3>1. Copied(q) = LinkTo(y) BY <1>6 DEF Copied, y
    <3> QED BY <1>1, <1>3, <3>1 DEF Built
  <2>2. Stops(t, d, a, b, m) <=> x \in DOMAIN t BY <1>1, <1>5, <1>6 DEF Stops, Clash
  <2>3. r = IF x \in DOMAIN t THEN e ELSE State(Built(t, q, m), s, <<>>, d, After(s, "running"), c, m)
    BY <1>4, <1>5, <1>6, <2>1, <2>2, Zenon
  <2>4. Copies(t, s, d, q, c, m)
          = IF x \in DOMAIN t THEN e ELSE State(Built(t, q, m), s, <<>>, d, After(s, "running"), c, m)
    BY <1>6, Zenon DEF Copies, x, e
  <2> QED BY <2>3, <2>4 DEF r, b
<1>7. CASE Source(q).kind # "link"
  <2>1. (CanWrite(t, b, m) <=> Takes(t, q, m)) /\ (CanWrite(t, b, m) => Final(t, b) = x) BY <1>1, <1>7
  <2>2. Clash(t, a, b) <=> (x \in DOMAIN t /\ S = D) BY <1>1, <1>2, <1>3, <1>5, <1>7 DEF Clash
  <2>3. S = D => x \in DOMAIN t BY <1>2, <1>3
  <2> DEFINE stop == S = D \/ ~Takes(t, q, m) \/ d + 2 > MAXFD
  <2>4. Stops(t, d, a, b, m) <=> stop BY <1>5, <1>7, <2>1, <2>2, <2>3 DEF Stops
  <2>5. CASE stop
    <3>1. r = e BY <1>4, <2>4, <2>5
    <3> QED BY <1>7, <2>5, <3>1, Zenon DEF Copies, r, b, e
  <2>6. CASE ~stop
    <3>1. Final(t, b) = x BY <2>1, <2>6
    <3> HIDE DEF stop
    <3>2. r = State(Put(t, x, File("empty")), s, <<y, x>>, d + 2, "running", c, m)
      BY <1>4, <1>5, <1>7, <2>4, <2>6, <3>1, Zenon
    <3>3. ~(S = D \/ ~Takes(t, q, m) \/ d + 2 > MAXFD) BY <2>6 DEF stop
    <3> QED BY <1>7, <3>2, <3>3, Zenon DEF Copies, x, y, r, b
  <2> QED BY <2>5, <2>6
<1> QED BY <1>6, <1>7

(* What a turn of the loop copies.                                          *)
LEMMA EntryCopies ==
  ASSUME Sane, ~Linked, NEW X, Mixed(fs, X), Kept(fs), stack # <<>>, NEW n \in Names(fs, Last(stack).src), NEW m
  PROVE  \E r \in Plain :
           /\ n \in Name /\ Append(r, n) \in Inner /\ Len(Append(r, n)) = Len(stack)
           /\ Last(stack).src = From(before) \o r /\ fs[S \o Append(r, n)] = Source(Append(r, n))
           /\ Source(Append(r, n)) = Directory =>
                Entry(Last(stack), n, m) = Opens(fs, Marked(n), fds, Append(r, n), cut, m)
           /\ Source(Append(r, n)) # Directory =>
                /\ Source(Append(r, n)).kind \in {"file", "link"}
                /\ Entry(Last(stack), n, m) = Copies(fs, Marked(n), fds, Append(r, n), cut, m)
<1> DEFINE a == Append(Last(stack).src, n)
           b == Append(Last(stack).dst, n)
<1>0. before \in Trees /\ typed \in Arguments /\ Loose(fs, stack, fds) BY DEF Sane, Fit
<1>1. TreeOK(fs) /\ Stacked(fs, stack) /\ Is(before, f1, "dir") /\ Real(fs, Stem(Onto(before))) = D
  BY <1>0 DEF Loose
<1>2. /\ From(before) \in Path /\ Onto(before) \in Path /\ S \in Path /\ D \in Path /\ TreeOK(before)
      /\ <<>> \in Inner /\ Source(<<>>) = Directory
  <2>1. Exists(before, f1) BY <1>1 DEF Is, Node, Exists
  <2>2. From(before) \in Path /\ Onto(before) \in Path /\ S \in Path /\ D \in Path /\ Node(before, S, "dir")
    BY <1>0, <1>1, <2>1, Settled
  <2>3. TreeOK(before) BY <1>0, Given
  <2>4. S \o <<>> = S /\ <<>> \in Path BY <2>2, JoinedEmpty
  <2>5. S \in DOMAIN before /\ before[S] = Directory BY <2>2, <2>3, Kinds DEF Node
  <2> QED BY <2>2, <2>3, <2>4, <2>5, InnerIs DEF Source
<1>3. PICK r \in Plain :
        /\ Append(r, n) \in Plain /\ Append(r, n) # <<>> /\ Len(Append(r, n)) = Len(stack) /\ n \in Name
        /\ Last(stack).src = From(before) \o r
        /\ a = From(before) \o Append(r, n) /\ b = Onto(before) \o Append(r, n)
        /\ Real(fs, From(before) \o Append(r, n)) = S \o Append(r, n) /\ S \o Append(r, n) \in DOMAIN fs
  <2>1. \E r \in Plain :
           /\ Append(r, n) \in Plain /\ Append(r, n) # <<>> /\ n \in Name
           /\ Len(Append(r, n)) = Len(stack) /\ Last(stack).src = From(before) \o r
           /\ Append(Last(stack).src, n) = From(before) \o Append(r, n)
           /\ Append(Last(stack).dst, n) = Onto(before) \o Append(r, n)
           /\ Real(fs, From(before) \o Append(r, n)) = S \o Append(r, n) /\ S \o Append(r, n) \in DOMAIN fs
    BY <1>1, <1>2, TopIs
  <2> QED BY <2>1
<1>4. Entry(Last(stack), n, m) =
        IF Is(fs, a, "dir") THEN CpD2D(State(Dir(fs, b, m), Marked(n), <<>>, fds, "running", cut, m), a, b)
        ELSE CpF2F(State(fs, Marked(n), <<>>, fds, "running", cut, m), a, b)
  BY EntryIs
<1> DEFINE q == Append(r, n)
           e == Entry(Last(stack), n, m)
<1> HIDE DEF a, b, q, e
<1>5. /\ q \in Path /\ a = From(before) \o q /\ b = Onto(before) \o q /\ Real(fs, a) = S \o q /\ S \o q \in DOMAIN fs
      /\ a \in Path /\ q # <<>>
  BY <1>2, <1>3, PlainPath, Joined DEF q
<1>6. q \in Inner /\ fs[S \o q] = Source(q)
  <2>1. IsPrefix(S, S \o q) BY <1>2, <1>5, PrefixJoined
  <2>2. S \o q \in DOMAIN before /\ fs[S \o q] = before[S \o q] BY <1>5, <2>1 DEF Kept
  <2> QED BY <1>2, <1>5, <2>2, InnerIs DEF Source
<1>7. (Is(fs, a, "dir") <=> Source(q) = Directory) /\ Source(q).kind \in {"dir", "file", "link"}
  <2>1. Source(q).kind = "dir" => Source(q) = Directory BY <1>1, <1>5, <1>6, Kinds
  <2>2. Directory.kind = "dir" BY DEF Directory
  <2>3. Source(q).kind \in {"dir", "file", "link"} BY <1>1, <1>5, <1>6, Kinds
  <2> QED BY <1>5, <1>6, <2>1, <2>2, <2>3 DEF Is, Node
<1>8. Lands(fs, q, m)
  <2>1. Real(fs, Onto(before)) = D \/ (Shut(fs) /\ q # <<>>) BY <1>1, <1>2, <1>5, OpenOrShut
  <2> QED BY <1>1, <1>2, <1>6, <2>1, LandsIs
<1>9. Source(q) = Directory => e = Opens(fs, Marked(n), fds, q, cut, m)
  <2> SUFFICES ASSUME Source(q) = Directory PROVE e = Opens(fs, Marked(n), fds, q, cut, m) OBVIOUS
  <2>1. Dir(fs, Onto(before) \o q, m) = Added(fs, q, Directory, m) BY <1>5, <1>8 DEF Lands
  <2>2. CpD2D(State(Dir(fs, Onto(before) \o q, m), Marked(n), <<>>, fds, "running", cut, m),
              From(before) \o q, Onto(before) \o q)
              = Opens(fs, Marked(n), fds, q, cut, m)
    BY <2>1, DirCopies
  <2>3. Is(fs, a, "dir") BY <1>7
  <2>4. e = CpD2D(State(Dir(fs, b, m), Marked(n), <<>>, fds, "running", cut, m), a, b) BY <1>4, <2>3 DEF e
  <2> QED BY <1>5, <2>2, <2>4
<1>10. Source(q) # Directory => Source(q).kind \in {"file", "link"} /\ e = Copies(fs, Marked(n), fds, q, cut, m)
  <2> SUFFICES ASSUME Source(q) # Directory
               PROVE  Source(q).kind \in {"file", "link"} /\ e = Copies(fs, Marked(n), fds, q, cut, m)
    OBVIOUS
  <2>1. Source(q).kind = "dir" => Source(q) = Directory BY <1>1, <1>5, <1>6, Kinds
  <2>2. Found(fs, q, m, a) BY <1>1, <1>2, <1>5, <1>6, <1>8 DEF Found
  <2>3. CpF2F(State(fs, Marked(n), <<>>, fds, "running", cut, m), a, Onto(before) \o q)
          = Copies(fs, Marked(n), fds, q, cut, m)
    BY <2>2, FileCopies
  <2>4. ~Is(fs, a, "dir") BY <1>7
  <2>5. e = CpF2F(State(fs, Marked(n), <<>>, fds, "running", cut, m), a, b) BY <1>4, <2>4 DEF e
  <2> QED BY <1>5, <1>7, <2>1, <2>3, <2>5
<1> QED BY <1>3, <1>6, <1>9, <1>10 DEF q, e

(* What myrcp copies.                                                       *)
LEMMA Start ==
  ASSUME Sane, Exists(before, f1)
  PROVE  /\ MAXFD \in Nat /\ TreeOK(before) /\ S \in Path /\ D \in Path /\ From(before) \in Path
         /\ Onto(before) \in Path /\ f1 \in Path
         /\ S \in DOMAIN before /\ <<>> \in Inner /\ <<>> \in Path /\ Source(<<>>) = before[S]
         /\ Mixed(before, {}) /\ Kept(before) /\ Real(before, f1) = S
         /\ S \o <<>> = S /\ D \o <<>> = D /\ f1 \o <<>> = f1
         /\ From(before) \o <<>> = From(before) /\ Onto(before) \o <<>> = Onto(before)
<1>1. before \in Trees /\ typed \in Arguments BY DEF Sane
<1>2. TreeOK(before) /\ f1 \in Path /\ MAXFD \in Nat BY <1>1, Given
<1>3. From(before) \in Path /\ Onto(before) \in Path /\ S \in Path /\ D \in Path /\ S \in DOMAIN before
  BY <1>1, Settled
<1>4. /\ S \o <<>> = S /\ D \o <<>> = D /\ f1 \o <<>> = f1 /\ From(before) \o <<>> = From(before)
      /\ Onto(before) \o <<>> = Onto(before) /\ <<>> \in Path
  BY <1>2, <1>3, JoinedEmpty
<1>5. <<>> \in Inner BY <1>2, <1>3, <1>4, InnerIs
<1>6. Source(<<>>) = before[S] BY <1>4 DEF Source
<1>7. Mixed(before, {}) /\ Kept(before) BY DEF Mixed, Kept
<1>8. Real(before, f1) = S BY DEF S
<1> QED BY <1>2, <1>3, <1>4, <1>5, <1>6, <1>7, <1>8

LEMMA StartMakes ==
  ASSUME Sane, MyRcp, ~Linked
  PROVE  LET k == Levels(before, f2, Last(f1))
         IN \E g \in BOOLEAN :
              \/ /\ Becomes(State(before, <<>>, <<>>, 0, "exit", cut, g))
                 /\ \/ ~Exists(before, f1)
                    \/ Is(before, f1, "dir") /\ Exists(before, f2) /\ ~Is(before, f2, "dir")
                    \/ Exists(before, f1) /\ ~Is(before, f1, "dir") /\ k \in Nat /\ k > MAXFD
              \/ /\ Exists(before, f1) /\ ~Is(before, f1, "dir") /\ k \in Nat /\ ~(k > MAXFD)
                 /\ Source(<<>>).kind \in {"file", "link"}
                 /\ Becomes(Copies(before, <<>>, k, <<>>, cut, g))
              \/ /\ Is(before, f1, "dir") /\ (Exists(before, f2) => Is(before, f2, "dir"))
                 /\ Source(<<>>) = Directory
                 /\ Becomes(Opens(before, <<>>, 0, <<>>, cut, g))
<1> DEFINE k == Levels(before, f2, Last(f1))
<1>1. status = "start" /\ fs = before /\ fds = 0 /\ stack = <<>> BY DEF MyRcp, Sane, Fit
<1>2. PICK g \in BOOLEAN :
        \/ Becomes(Exit(Now(g)))
             /\ (~Exists(fs, f1) \/ (Is(fs, f1, "dir") /\ Exists(fs, f2) /\ ~Is(fs, f2, "dir")))
        \/ Exists(fs, f1) /\ ~Is(fs, f1, "dir") /\ Becomes(CpF2D(Now(g), f1, f2))
        \/ /\ Is(fs, f1, "dir") /\ (Exists(fs, f2) => Is(fs, f2, "dir"))
           /\ Becomes(CpD2D(Mkdir(Now(g), Onto(fs)), From(fs), Onto(fs)))
  BY MyRcpCases, Zenon
<1>3. Exit(Now(g)) = State(before, <<>>, <<>>, 0, "exit", cut, g) BY <1>1, MyRcpIs
<1>4. CASE Becomes(Exit(Now(g)))
             /\ (~Exists(fs, f1) \/ (Is(fs, f1, "dir") /\ Exists(fs, f2) /\ ~Is(fs, f2, "dir")))
  BY <1>1, <1>3, <1>4
<1>5. CASE Exists(fs, f1) /\ ~Is(fs, f1, "dir") /\ Becomes(CpF2D(Now(g), f1, f2))
  <2>1. Exists(before, f1) /\ ~Is(before, f1, "dir") BY <1>1, <1>5
  <2>2. k \in Nat /\ Onto(before) = Within(f2, Last(f1), k) /\ D = Real(before, Onto(before))
    BY <2>1, Settled DEF Sane
  <2>3. CpF2D(Now(g), f1, f2) =
          IF 0 + k > MAXFD THEN State(before, <<>>, <<>>, 0, "exit", cut, g)
          ELSE CpF2F(State(before, <<>>, <<>>, 0 + k, "running", cut, g), f1, Within(f2, Last(f1), k))
    BY <1>1, MyRcpIs
  <2> HIDE DEF k
  <2>4. 0 + k = k BY <2>2
  <2>5. CASE k > MAXFD BY <1>5, <2>1, <2>2, <2>3, <2>4, <2>5 DEF k
  <2>6. CASE ~(k > MAXFD)
    <3>1. Source(<<>>).kind \in {"file", "link"}
      <4>1. Source(<<>>) = before[S] /\ S \in DOMAIN before /\ TreeOK(before) /\ Real(before, f1) = S BY <2>1, Start
      <4>2. before[S].kind \in {"dir", "file", "link"} BY <4>1, Kinds
      <4> QED BY <2>1, <4>1, <4>2 DEF Is, Node
    <3>2. Lands(before, <<>>, g)
      <4>1. /\ TreeOK(before) /\ S \in Path /\ D \in Path /\ Onto(before) \in Path /\ Mixed(before, {})
            /\ <<>> \in Inner
        BY <2>1, Start
      <4>2. Real(before, Onto(before)) = D BY <2>2
      <4> QED BY <4>1, <4>2, LandsIs
    <3>3. Found(before, <<>>, g, f1) BY <2>1, <3>2, Start DEF Found
    <3>4. CpF2F(State(before, <<>>, <<>>, k, "running", cut, g), f1, Onto(before) \o <<>>)
            = Copies(before, <<>>, k, <<>>, cut, g)
      <4>1. \A q, s : Found(before, q, g, f1) =>
              CpF2F(State(before, s, <<>>, k, "running", cut, g), f1, Onto(before) \o q)
                = Copies(before, s, k, q, cut, g)
        BY FileCopies
      <4> QED BY <3>3, <4>1, Zenon
    <3>5. Onto(before) \o <<>> = Onto(before) BY <2>1, Start
    <3>6. CpF2D(Now(g), f1, f2) = Copies(before, <<>>, k, <<>>, cut, g) BY <2>2, <2>3, <2>4, <2>6, <3>4, <3>5
    <3> QED BY <1>5, <2>1, <2>2, <2>6, <3>1, <3>6 DEF k
  <2> QED BY <2>5, <2>6
<1>6. CASE /\ Is(fs, f1, "dir") /\ (Exists(fs, f2) => Is(fs, f2, "dir"))
           /\ Becomes(CpD2D(Mkdir(Now(g), Onto(fs)), From(fs), Onto(fs)))
  <2>1. Is(before, f1, "dir") /\ (Exists(before, f2) => Is(before, f2, "dir")) BY <1>1, <1>6
  <2>2. Exists(before, f1) BY <2>1 DEF Is, Node, Exists
  <2>3. /\ TreeOK(before) /\ Onto(before) \in Path /\ Onto(before) \o <<>> = Onto(before) /\ D \o <<>> = D
        /\ From(before) \o <<>> = From(before) /\ <<>> \in Path
    BY <2>2, Start
  <2>4. D = Real(before, Stem(Onto(before))) BY <2>1, <2>2, Settled DEF Sane
  <2>5. Source(<<>>) = Directory
    <3>1. Source(<<>>) = before[S] /\ Real(before, f1) = S BY <2>2, Start
    <3> QED BY <2>1, <2>3, <3>1, Kinds DEF Is, Node
  <2>6. Dir(before, Onto(before) \o <<>>, g) = Added(before, <<>>, Directory, g)
    BY <2>3, <2>4, DirIs DEF Added
  <2>7. CpD2D(State(Dir(before, Onto(before) \o <<>>, g), <<>>, <<>>, 0, "running", cut, g),
              From(before) \o <<>>, Onto(before) \o <<>>)
          = Opens(before, <<>>, 0, <<>>, cut, g)
    <3>1. \A q, s : /\ Source(q) = Directory /\ Dir(before, Onto(before) \o q, g) = Added(before, q, Directory, g)
                    => CpD2D(State(Dir(before, Onto(before) \o q, g), s, <<>>, 0, "running", cut, g),
                             From(before) \o q, Onto(before) \o q)
                         = Opens(before, s, 0, q, cut, g)
      BY DirCopies
    <3> QED BY <2>5, <2>6, <3>1, Zenon
  <2>8. CpD2D(Mkdir(Now(g), Onto(fs)), From(fs), Onto(fs))
          = CpD2D(State(Dir(before, Onto(before), g), <<>>, <<>>, 0, "running", cut, g), From(before), Onto(before))
    BY <1>1, MyRcpIs
  <2>9. CpD2D(Mkdir(Now(g), Onto(fs)), From(fs), Onto(fs)) = Opens(before, <<>>, 0, <<>>, cut, g)
    BY <2>3, <2>7, <2>8
  <2> QED BY <1>6, <2>1, <2>5, <2>9
<1> QED BY <1>2, <1>4, <1>5, <1>6

(* Whatever is opened or copied or written leaves such a tree.              *)
LEMMA GoodStill ==
  ASSUME NEW t, NEW c, Mixed(t, c)
  PROVE  Good(t, <<>>, c)
<1>1. Pending(<<>>) = {} /\ c \cup {} = c BY DEF Pending
<1>2. Job(t, <<>>) BY DEF Job
<1> QED BY <1>1, <1>2 DEF Good

LEMMA MixedBuilt ==
  ASSUME NEW t, NEW c, Mixed(t, c), NEW q \in Inner, NEW m
  PROVE  Mixed(Built(t, q, m), c)
<1>1. Copied(q).kind = Source(q).kind /\ c \ {D \o q} \subseteq c BY CopiedKind
<1>2. Mixed(Put(t, D \o q, Copied(q)), c) BY <1>1, MixedPut
<1> QED BY <1>2 DEF Built, Added

LEMMA GoodOpens ==
  ASSUME NEW t, NEW c, Mixed(t, c), NEW s, NEW d, NEW m, NEW q \in Inner
  PROVE  \E t2, s2, d2, u2 : Opens(t, s, d, q, c, m) = State(t2, s2, <<>>, d2, u2, c, m) /\ Good(t2, <<>>, c)
<1>1. Good(Built(t, q, m), <<>>, c) BY MixedBuilt, GoodStill
<1> QED BY <1>1, Zenon DEF Opens

LEMMA GoodCopies ==
  ASSUME TreeOK(before), S \in Path, D \in Path, NEW t, NEW c, Mixed(t, c), NEW s, NEW d, NEW m,
         NEW q \in Inner, t[S \o q] = Source(q), S \o q \in DOMAIN t, Source(q).kind \in {"file", "link"}
  PROVE  \E t2, s2, w2, d2, u2 : Copies(t, s, d, q, c, m) = State(t2, s2, w2, d2, u2, c, m) /\ Good(t2, w2, c)
<1>1. Good(Built(t, q, m), <<>>, c) /\ Good(t, <<>>, c) BY MixedBuilt, GoodStill
<1>2. CASE Source(q).kind = "link" BY <1>1, <1>2, Zenon DEF Copies
<1>3. CASE Source(q).kind # "link" /\ (S = D \/ ~Takes(t, q, m) \/ d + 2 > MAXFD) BY <1>1, <1>3, Zenon DEF Copies
<1>4. CASE Source(q).kind # "link" /\ ~(S = D \/ ~Takes(t, q, m) \/ d + 2 > MAXFD)
  <2> DEFINE v == Put(t, D \o q, File("empty"))
             w == <<S \o q, D \o q>>
  <2>1. Copies(t, s, d, q, c, m) = State(v, s, w, d + 2, "running", c, m) BY <1>4, Zenon DEF Copies
  <2>2. Source(q).kind = "file" /\ File("empty").kind = "file" BY <1>4 DEF File
  <2>3. Pending(w) = {D \o q} BY DEF Pending
  <2>4. Mixed(v, c \cup {D \o q})
    <3>1. c \ {D \o q} \subseteq c \cup {D \o q} /\ D \o q \in c \cup {D \o q} OBVIOUS
    <3> QED BY <2>2, <3>1, MixedPut
  <2>5. S \o q # D \o q
    <3>1. q \in Path BY InnerIs
    <3> QED BY <1>4, <3>1, JoinedFront
  <2>6. v[S \o q] = Source(q) BY <2>5 DEF Put
  <2>7. Job(v, w) BY <2>2, <2>5, <2>6, Zenon DEF Job
  <2>8. Good(v, w, c) BY <2>3, <2>4, <2>7 DEF Good
  <2> QED BY <2>1, <2>8, Zenon
<1> QED BY <1>2, <1>3, <1>4

LEMMA GoodWritten ==
  ASSUME NEW t, NEW w, NEW c, w # <<>>, Good(t, w, c)
  PROVE  Good(Put(t, w[2], t[w[1]]), <<>>, c) /\ Good(Put(t, w[2], File("cut")), <<>>, c \cup {w[2]})
<1>1. PICK q \in Inner : w = <<S \o q, D \o q>> /\ Source(q).kind = "file" /\ t[S \o q] = Source(q)
  BY DEF Good, Job
<1>2. w[1] = S \o q /\ w[2] = D \o q BY <1>1
<1>3. Pending(w) = {D \o q} BY <1>2 DEF Pending
<1>4. Mixed(t, c \cup {D \o q}) BY <1>3 DEF Good
<1>5. Mixed(Put(t, D \o q, Source(q)), c)
  <2>1. Copied(q) = Source(q) BY <1>1, CopiedKind
  <2>2. (c \cup {D \o q}) \ {D \o q} \subseteq c OBVIOUS
  <2> QED BY <1>4, <2>1, <2>2, MixedPut
<1>6. Mixed(Put(t, D \o q, File("cut")), c \cup {D \o q})
  <2>1. File("cut").kind = Source(q).kind BY <1>1 DEF File
  <2>2. (c \cup {D \o q}) \ {D \o q} \subseteq c \cup {D \o q} /\ D \o q \in c \cup {D \o q} OBVIOUS
  <2> QED BY <1>4, <2>1, <2>2, MixedPut
<1> QED BY <1>1, <1>2, <1>5, <1>6, GoodStill

LEMMA StillInner ==
  ASSUME typed' = typed, before' = before
  PROVE  Inner' = Inner /\ (\A r : Source(r)' = Source(r) /\ Copied(r)' = Copied(r)) /\ Links' = Links
         /\ Linked' = Linked /\ Overlap' = Overlap /\ Apart' = Apart
<1>1. f1' = f1 /\ S' = S /\ D' = D BY Still
<1>2. Inner' = Inner BY <1>1 DEF Inner
<1>3. \A r : Source(r)' = Source(r) BY <1>1 DEF Source
<1>4. \A r : Copied(r)' = Copied(r) BY <1>1, <1>3 DEF Copied
<1>5. Links' = Links BY DEF Links
<1>6. Linked' = Linked BY <1>1, <1>2, <1>5 DEF Linked
<1>7. Overlap' = Overlap BY <1>1 DEF Overlap
<1> QED BY <1>2, <1>3, <1>4, <1>5, <1>6, <1>7 DEF Apart

-----------------------------------------------------------------------------
(* The step from a tree of old and new nodes to the next.                   *)
LEMMA ApartKept ==
  ASSUME Sane, Apart, NEW X, Mixed(fs, X), stack # <<>>
  PROVE  Kept(fs)
<1>1. Loose(fs, stack, fds) BY DEF Sane, Fit
<1>2. TreeOK(fs) /\ Is(before, f1, "dir") BY <1>1 DEF Loose
<1>3. Exists(before, f1) BY <1>2 DEF Is, Node, Exists
<1>4. TreeOK(before) /\ S \in Path /\ D \in Path BY <1>3, Start
<1>5. Beside(S, D) BY <1>2 DEF Apart, Overlap
<1> QED BY <1>2, <1>4, <1>5, MixedKept

LEMMA Paths ==
  ASSUME Sane, stack # <<>>
  PROVE  TreeOK(before) /\ TreeOK(fs) /\ S \in Path /\ D \in Path /\ Exists(before, f1) /\ Is(before, f1, "dir")
<1>1. Loose(fs, stack, fds) BY DEF Sane, Fit
<1>2. TreeOK(fs) /\ Is(before, f1, "dir") BY <1>1 DEF Loose
<1>3. Exists(before, f1) BY <1>2 DEF Is, Node, Exists
<1> QED BY <1>2, <1>3, Start

LEMMA GoodStep ==
  ASSUME Sane, Apart, Good(fs, writing, cut), Next
  PROVE  \E t, s, w, d, u, c, m : Becomes(State(t, s, w, d, u, c, m)) /\ Good(t, w, c)
<1>0. writing = <<>> => Mixed(fs, cut)
  <2>1. Pending(<<>>) = {} /\ cut \cup {} = cut BY DEF Pending
  <2> QED BY <2>1 DEF Good
<1>1. CASE MyRcp
  <2>1. Mixed(before, cut)
    <3>1. status = "start" /\ fs = before BY <1>1 DEF MyRcp, Sane, Fit
    <3>2. writing = <<>> BY <3>1 DEF Sane, Fit
    <3> QED BY <1>0, <3>1, <3>2
  <2>2. Is(before, f1, "dir") => Exists(before, f1) BY DEF Is, Node, Exists
  <2>3. \E g : \/ Becomes(State(before, <<>>, <<>>, 0, "exit", cut, g))
               \/ /\ Exists(before, f1) /\ Source(<<>>).kind \in {"file", "link"}
                  /\ \E k : Becomes(Copies(before, <<>>, k, <<>>, cut, g))
               \/ Exists(before, f1) /\ Becomes(Opens(before, <<>>, 0, <<>>, cut, g))
    BY <1>1, <2>2, StartMakes DEF Apart
  <2>4. PICK g : \/ Becomes(State(before, <<>>, <<>>, 0, "exit", cut, g))
                 \/ /\ Exists(before, f1) /\ Source(<<>>).kind \in {"file", "link"}
                    /\ \E k : Becomes(Copies(before, <<>>, k, <<>>, cut, g))
                 \/ Exists(before, f1) /\ Becomes(Opens(before, <<>>, 0, <<>>, cut, g))
    BY <2>3
  <2>5. CASE Becomes(State(before, <<>>, <<>>, 0, "exit", cut, g)) BY <2>1, <2>5, GoodStill
  <2>6. ASSUME Exists(before, f1), Source(<<>>).kind \in {"file", "link"},
               NEW k, Becomes(Copies(before, <<>>, k, <<>>, cut, g))
        PROVE  \E t, s, w, d, u, c, m : Becomes(State(t, s, w, d, u, c, m)) /\ Good(t, w, c)
    <3>1. /\ TreeOK(before) /\ S \in Path /\ D \in Path /\ <<>> \in Inner /\ Source(<<>>) = before[S]
          /\ S \o <<>> = S /\ S \in DOMAIN before
      BY <2>6, Start
    <3>2. \A s, q : (q \in Inner /\ before[S \o q] = Source(q) /\ S \o q \in DOMAIN before
                      /\ Source(q).kind \in {"file", "link"}) =>
            \E t2, s2, w2, d2, u2 : Copies(before, s, k, q, cut, g) = State(t2, s2, w2, d2, u2, cut, g)
                                    /\ Good(t2, w2, cut)
      BY <2>1, <3>1, GoodCopies
    <3>3. before[S \o <<>>] = Source(<<>>) /\ S \o <<>> \in DOMAIN before BY <3>1
    <3>4. \E t2, s2, w2, d2, u2 : Copies(before, <<>>, k, <<>>, cut, g) = State(t2, s2, w2, d2, u2, cut, g)
                                  /\ Good(t2, w2, cut)
      BY <2>6, <3>1, <3>2, <3>3, Zenon
    <3> QED BY <2>6, <3>4
  <2>7. CASE Exists(before, f1) /\ Becomes(Opens(before, <<>>, 0, <<>>, cut, g))
    <3>1. <<>> \in Inner BY <2>7, Start
    <3>3. \A s : \A q \in Inner :
            \E t2, s2, d2, u2 : Opens(before, s, 0, q, cut, g) = State(t2, s2, <<>>, d2, u2, cut, g)
                                /\ Good(t2, <<>>, cut)
      BY <2>1, GoodOpens
    <3>4. \E t2, s2, d2, u2 : Opens(before, <<>>, 0, <<>>, cut, g) = State(t2, s2, <<>>, d2, u2, cut, g)
                                /\ Good(t2, <<>>, cut)
      BY <3>1, <3>3, Zenon
    <3> QED BY <2>7, <3>4
  <2> QED BY <2>4, <2>5, <2>6, <2>7
<1>2. ASSUME stack # <<>>, writing = <<>>, NEW n \in Names(fs, Last(stack).src), NEW g,
             Becomes(Entry(Last(stack), n, g))
      PROVE  \E t, s, w, d, u, c, m : Becomes(State(t, s, w, d, u, c, m)) /\ Good(t, w, c)
  <2>1. Mixed(fs, cut) /\ ~Linked /\ TreeOK(before) /\ TreeOK(fs) /\ S \in Path /\ D \in Path
    BY <1>0, <1>2, Paths DEF Apart
  <2>2. Kept(fs) BY <1>2, <2>1, ApartKept
  <2>3. PICK q \in Inner :
          /\ fs[S \o q] = Source(q)
          /\ Source(q) = Directory => Entry(Last(stack), n, g) = Opens(fs, Marked(n), fds, q, cut, g)
          /\ Source(q) # Directory =>
                /\ Source(q).kind \in {"file", "link"}
                /\ Entry(Last(stack), n, g) = Copies(fs, Marked(n), fds, q, cut, g)
    BY <1>2, <2>1, <2>2, EntryCopies
  <2>4. CASE Source(q) = Directory
    <3>1. Becomes(Opens(fs, Marked(n), fds, q, cut, g)) BY <1>2, <2>3, <2>4
    <3> QED BY <2>1, <3>1, GoodOpens
  <2>5. CASE Source(q) # Directory
    <3>1. Becomes(Copies(fs, Marked(n), fds, q, cut, g)) /\ Source(q).kind \in {"file", "link"} BY <1>2, <2>3, <2>5
    <3>2. S \o q \in DOMAIN fs
      <4>1. S \o q \in DOMAIN before BY <2>1, InnerIs
      <4> QED BY <2>1, <4>1 DEF Mixed
    <3> QED BY <2>1, <2>3, <3>1, <3>2, GoodCopies
  <2> QED BY <2>4, <2>5
<1>3. CASE Write
  <2>1. writing # <<>> BY <1>3, Zenon DEF Write
  <2>2. writing[2] \in DOMAIN fs BY <2>1 DEF Sane, Fit, Node
  <2>3. /\ Good(Put(fs, writing[2], fs[writing[1]]), <<>>, cut)
        /\ Good(Put(fs, writing[2], File("cut")), <<>>, cut \cup {writing[2]})
    BY <2>1, GoodWritten
  <2> QED BY <1>3, <2>2, <2>3, WriteIs, Zenon
<1>4. CASE /\ stack # <<>> /\ writing = <<>>
           /\ Becomes(State(fs, Front(stack), <<>>, fds, After(Front(stack), "running"), cut, TRUE))
  <2>1. Good(fs, <<>>, cut) BY <1>4
  <2> QED BY <1>4, <2>1, Zenon
<1>5. ReadEntry => \E n \in Names(fs, Last(stack).src), g \in BOOLEAN :
                   stack # <<>> /\ writing = <<>> /\ Becomes(Entry(Last(stack), n, g))
  BY Zenon DEF ReadEntry
<1>6. EndOfDir => /\ stack # <<>> /\ writing = <<>>
                  /\ Becomes(State(fs, Front(stack), <<>>, fds, After(Front(stack), "running"), cut, TRUE))
  BY ReturnedIs, Zenon DEF EndOfDir
<1> QED BY <1>1, <1>2, <1>3, <1>4, <1>5, <1>6, Zenon DEF Next

Sound == Sane /\ (Apart => Good(fs, writing, cut))

LEMMA SoundInit == Init => Sound
<1> SUFFICES ASSUME Init PROVE Sound OBVIOUS
<1>1. Mixed(fs, {}) BY DEF Init, Mixed
<1>2. writing = <<>> /\ cut = {} BY DEF Init
<1> QED BY <1>1, <1>2, GoodStill, SaneInit DEF Sound

LEMMA GoodPrimed ==
  ASSUME NEW t, NEW w, NEW c, fs' = t, writing' = w, cut' = c, typed' = typed, before' = before, Good(t, w, c)
  PROVE  Good(fs, writing, cut)'
<1>1. D' = D /\ S' = S /\ Inner' = Inner /\ \A r : Copied(r)' = Copied(r) /\ Source(r)' = Source(r)
  BY Still, StillInner
<1>2. Pending(writing)' = Pending(w) BY DEF Pending
<1>3. Mixed(fs, cut \cup Pending(writing))'
  <2>1. Mixed(t, c \cup Pending(w)) BY DEF Good
  <2> QED BY <1>1, <1>2, <2>1 DEF Mixed
<1>4. Job(fs, writing)'
  <2>1. Job(t, w) BY DEF Good
  <2> QED BY <1>1, <2>1 DEF Job
<1> QED BY <1>3, <1>4 DEF Good

LEMMA SoundNext == Sound /\ [Next]_vars => Sound'
<1> SUFFICES ASSUME Sound, [Next]_vars PROVE (Apart => Good(fs, writing, cut))' BY SaneNext DEF Sound
<1>1. CASE Next
  <2>1. CASE Apart
    <3>1. PICK t, s, w, d, u, c, m : Becomes(State(t, s, w, d, u, c, m)) /\ Good(t, w, c)
      BY <1>1, <2>1, GoodStep DEF Sound
    <3>2. fs' = t /\ writing' = w /\ cut' = c /\ typed' = typed /\ before' = before BY <3>1, BecomesIs
    <3> QED BY <3>1, <3>2, GoodPrimed
  <2>2. CASE ~Apart
    <3>1. typed' = typed /\ before' = before BY <1>1, Zenon DEF Next, MyRcp, ReadEntry, Write, EndOfDir, Becomes
    <3> QED BY <2>2, <3>1, StillInner
  <2> QED BY <2>1, <2>2
<1>2. CASE UNCHANGED vars
  <2>1. fs' = fs /\ writing' = writing /\ cut' = cut /\ typed' = typed /\ before' = before BY <1>2 DEF vars
  <2> QED BY <2>1, StillInner, GoodPrimed DEF Sound
<1> QED BY <1>1, <1>2

(* Every state is of its type.                                              *)
THEOREM TypeCorrect == Spec => []TypeOK
<1>1. Init => Sane BY SaneInit
<1>2. Sane /\ [Next]_vars => Sane' BY SaneNext
<1>3. Sane => TypeOK BY SaneTyped
<1> QED BY <1>1, <1>2, <1>3, PTL DEF Spec

(* At every moment of a copy that is not into what it copies and meets no    *)
(* link, each path is as it was, or as the copy makes it, but for a file     *)
(* truncated and not yet written, and those the device did not take whole.   *)
THEOREM EachOldOrNew == Spec => []OldOrNew
<1>1. Init => Sound BY SoundInit
<1>2. Sound /\ [Next]_vars => Sound' BY SoundNext
<1>3. Sound => OldOrNew
  <2> SUFFICES ASSUME Sound PROVE OldOrNew OBVIOUS
  <2>1. TypeOK BY SaneTyped DEF Sound
  <2>2. ASSUME NEW p PROVE p \in cut \cup Pending(writing) => p \in cut \/ BeingWritten(p)
    BY DEF Pending, BeingWritten
  <2>3. Apart => Mixed(fs, cut \cup Pending(writing)) BY DEF Sound, Good
  <2> QED BY <2>1, <2>2, <2>3 DEF OldOrNew, Mixed
<1> QED BY <1>1, <1>2, <1>3, PTL DEF Spec

-----------------------------------------------------------------------------
(* A directory copied into itself.                                          *)
Into == Is(before, f1, "dir") /\ f1 = S /\ Onto(before) = D /\ IsPrefix(S, D)
OneMore(t) ==
  /\ \A p \in DOMAIN before : p \in DOMAIN t /\ t[p] = before[p]
  /\ DOMAIN t \ DOMAIN before \subseteq {D}

LEMMA IntoPaths ==
  ASSUME Sane, Into
  PROVE  /\ TreeOK(before) /\ S \in Path /\ D \in Path /\ S \in DOMAIN before /\ Exists(before, f1)
         /\ From(before) = S /\ Real(before, Stem(D)) = D
<1>1. Exists(before, f1) BY DEF Into, Is, Node, Exists
<1>2. TreeOK(before) /\ S \in Path /\ D \in Path /\ S \in DOMAIN before BY <1>1, Start
<1>3. S \in Plain /\ Real(before, Stem(D)) = D BY <1>1, Settled DEF Sane, Into
<1>4. S # <<>> BY Given DEF Sane, Into
<1>5. PICK v \in Plain, n \in FileName : S = Append(v, n) BY <1>3, <1>4, SequenceEmptyOrAppend DEF Plain
<1>6. v \in Path /\ n \in Name /\ n # "/" BY PlainPath, Plains DEF FileName
<1>7. Stem(S) = S BY <1>5, <1>6, StemMore
<1>8. From(before) = S BY <1>7 DEF From, Stripped, Into
<1> QED BY <1>1, <1>2, <1>3, <1>8

(* cpd2d from one tree.                                                     *)
LEMMA Entered ==
  ASSUME NEW t, NEW s, NEW d, NEW c, NEW m, NEW a, NEW b
  PROVE  /\ \E s2, d2, u2 : CpD2D(State(t, s, <<>>, d, "running", c, m), a, b) = State(t, s2, <<>>, d2, u2, c, m)
         /\ IsStrictPrefix(a, b) =>
              CpD2D(State(t, s, <<>>, d, "running", c, m), a, b) = State(t, <<>>, <<>>, d, "exit", c, m)
<1>1. CpD2D(State(t, s, <<>>, d, "running", c, m), a, b) =
        IF IsStrictPrefix(a, b) \/ d = MAXFD \/ Len(a) > PATH_MAX
        THEN State(t, <<>>, <<>>, d, "exit", c, m)
        ELSE State(t, Append(s, Frame(a, b, t)), <<>>, d + 1, "running", c, m)
  BY CpD2DIs
<1> QED BY <1>1, Zenon

LEMMA IntoStart ==
  ASSUME Sane, Into, MyRcp
  PROVE  \E t, s, d, u, c, m :
           Becomes(State(t, s, <<>>, d, u, c, m)) /\ OneMore(t) /\ (s # <<>> => S = D /\ t = before)
<1>1. /\ TreeOK(before) /\ S \in Path /\ D \in Path /\ S \in DOMAIN before
      /\ From(before) = S /\ Real(before, Stem(D)) = D
  BY IntoPaths
<1>2. status = "start" /\ fs = before /\ fds = 0 /\ stack = <<>> BY DEF MyRcp, Sane, Fit
<1>3. OneMore(before) BY DEF OneMore
<1>4. PICK g : \/ Becomes(Exit(Now(g)))
               \/ Becomes(CpD2D(Mkdir(Now(g), Onto(fs)), From(fs), Onto(fs)))
  BY <1>2, MyRcpCases, Zenon DEF Into
<1> DEFINE v == Dir(before, D, g)
<1>5. /\ g /\ Addable(before, D, D) => v = Put(before, D, Directory)
      /\ ~(g /\ Addable(before, D, D)) => v = before
  BY <1>1, DirIs
<1> HIDE DEF v
<1>6. OneMore(v)
  <2>1. CASE g /\ Addable(before, D, D)
    <3>1. D \notin DOMAIN before BY <2>1 DEF Addable
    <3> QED BY <1>5, <2>1, <3>1 DEF OneMore, Put
  <2>2. CASE ~(g /\ Addable(before, D, D)) BY <1>3, <1>5, <2>2
  <2> QED BY <2>1, <2>2
<1>7. Exit(Now(g)) = State(before, <<>>, <<>>, 0, "exit", cut, g) BY <1>2, MyRcpIs
<1> DEFINE r(s) == CpD2D(State(v, s, <<>>, 0, "running", cut, g), S, D)
<1>8. CpD2D(Mkdir(Now(g), Onto(fs)), From(fs), Onto(fs)) = r(<<>>) BY <1>1, <1>2, MyRcpIs DEF Into, v
<1>9. \A s : /\ \E s2, d2, u2 : r(s) = State(v, s2, <<>>, d2, u2, cut, g)
             /\ IsStrictPrefix(S, D) => r(s) = State(v, <<>>, <<>>, 0, "exit", cut, g)
  BY Entered
<1> HIDE DEF r
<1>10. CASE Becomes(Exit(Now(g))) BY <1>3, <1>7, <1>10
<1>11. CASE Becomes(r(<<>>)) /\ S = D
  <2>1. v = before BY <1>1, <1>5, <1>11 DEF Addable
  <2>2. \E s2, d2, u2 : r(<<>>) = State(before, s2, <<>>, d2, u2, cut, g) BY <1>9, <2>1, Zenon
  <2> QED BY <1>3, <1>11, <2>2
<1>12. CASE Becomes(r(<<>>)) /\ S # D
  <2>1. IsStrictPrefix(S, D) BY <1>12 DEF Into, IsStrictPrefix
  <2>2. r(<<>>) = State(v, <<>>, <<>>, 0, "exit", cut, g) BY <1>9, <2>1, Zenon
  <2> QED BY <1>6, <1>12, <2>2
<1> QED BY <1>4, <1>8, <1>10, <1>11, <1>12

LEMMA IntoEntry ==
  ASSUME Sane, Into, S = D, fs = before, stack # <<>>, NEW n \in Names(fs, Last(stack).src), NEW g
  PROVE  \E s, d, u : Entry(Last(stack), n, g) = State(before, s, <<>>, d, u, cut, g)
<1> DEFINE a == Append(Last(stack).src, n)
           b == Append(Last(stack).dst, n)
<1>1. TreeOK(fs) /\ Stacked(fs, stack) BY DEF Sane, Fit, Loose
<1>2. S \in Path /\ D \in Path /\ From(before) = S /\ Onto(before) = S BY IntoPaths DEF Into
<1>3. PICK q \in Plain : a = S \o q /\ b = S \o q /\ q # <<>> /\ Real(fs, S \o q) \in DOMAIN fs
  <2>1. \E r \in Plain :
           /\ Append(r, n) \in Plain /\ Append(r, n) # <<>>
           /\ Append(Last(stack).src, n) = From(before) \o Append(r, n)
           /\ Append(Last(stack).dst, n) = Onto(before) \o Append(r, n)
           /\ Real(fs, From(before) \o Append(r, n)) = S \o Append(r, n) /\ S \o Append(r, n) \in DOMAIN fs
    BY <1>1, <1>2, TopIs
  <2> QED BY <1>2, <2>1
<1>4. Entry(Last(stack), n, g) =
        IF Is(fs, a, "dir") THEN CpD2D(State(Dir(fs, b, g), Marked(n), <<>>, fds, "running", cut, g), a, b)
        ELSE CpF2F(State(fs, Marked(n), <<>>, fds, "running", cut, g), a, b)
  BY EntryIs
<1>5. Stem(b) = b BY <1>2, <1>3, StemOn
<1> HIDE DEF a, b
<1>6. a = b /\ a \in Path /\ Real(fs, a) \in DOMAIN fs BY <1>2, <1>3, PlainPath, Joined
<1>7. CASE Is(fs, a, "dir")
  <2>1. ~Addable(fs, Real(fs, b), b) BY <1>6 DEF Addable
  <2>2. Dir(fs, b, g) = fs BY <1>1, <1>5, <1>6, <2>1, DirIs
  <2>3. \E s, d, u : CpD2D(State(fs, Marked(n), <<>>, fds, "running", cut, g), a, b) = State(fs, s, <<>>, d, u, cut, g)
    BY Entered
  <2> QED BY <1>4, <1>7, <2>2, <2>3
<1>8. CASE ~Is(fs, a, "dir")
  <2>1. Stops(fs, fds, a, b, g) BY <1>6 DEF Stops, Clash, Exists
  <2>2. CpF2F(State(fs, Marked(n), <<>>, fds, "running", cut, g), a, b) = State(fs, <<>>, <<>>, fds, "exit", cut, g)
    BY <2>1, EntryStops
  <2> QED BY <1>4, <1>8, <2>2
<1> QED BY <1>7, <1>8

LEMMA StillInto ==
  ASSUME typed' = typed, before' = before
  PROVE  (Into <=> Into') /\ S' = S /\ D' = D
<1>1. f1' = f1 /\ S' = S /\ Onto(before)' = Onto(before) /\ D' = D BY Still
<1> QED BY <1>1 DEF Into

(* A directory is not copied into itself, when both paths are typed as they  *)
(* lead: nothing that was there changes, and there is one new directory.    *)
THEOREM NeverIntoItself == Spec => []NeverInto
<1> DEFINE Inv == Sane /\ (Into => OneMore(fs) /\ writing = <<>> /\ (stack # <<>> => S = D /\ fs = before))
<1>1. Init => Inv
  <2>1. Init => OneMore(fs) /\ stack = <<>> /\ writing = <<>> BY DEF Init, OneMore
  <2> QED BY <2>1, SaneInit
<1>2. Inv /\ [Next]_vars => Inv'
  <2> SUFFICES ASSUME Inv, [Next]_vars
               PROVE  (Into => OneMore(fs) /\ writing = <<>> /\ (stack # <<>> => S = D /\ fs = before))' BY SaneNext
  <2>1. typed' = typed /\ before' = before
    BY Zenon DEF Next, MyRcp, ReadEntry, Write, EndOfDir, Becomes, vars
  <2> DEFINE Goal == OneMore(fs)' /\ writing' = <<>> /\ (stack' # <<>> => S = D /\ fs' = before)
  <2>2. SUFFICES ASSUME Into PROVE Goal BY <2>1, StillInto
  <2>3. ASSUME NEW t, NEW s, NEW d, NEW u, NEW c, NEW m, Becomes(State(t, s, <<>>, d, u, c, m)), OneMore(t),
               s # <<>> => S = D /\ t = before
        PROVE  Goal
    <3>1. fs' = t /\ stack' = s /\ writing' = <<>> BY <2>3, BecomesIs
    <3>2. OneMore(fs)' BY <2>1, <2>3, <3>1, StillInto DEF OneMore
    <3> QED BY <2>3, <3>1, <3>2
  <2>4. CASE MyRcp
    <3>1. PICK t, s, d, u, c, m :
            Becomes(State(t, s, <<>>, d, u, c, m)) /\ OneMore(t) /\ (s # <<>> => S = D /\ t = before)
      BY <2>2, <2>4, IntoStart
    <3> QED BY <2>3, <3>1
  <2>5. ASSUME stack # <<>>, NEW n \in Names(fs, Last(stack).src), NEW g, Becomes(Entry(Last(stack), n, g))
        PROVE  Goal
    <3>1. S = D /\ fs = before BY <2>2, <2>5
    <3>2. PICK s, d, u : Entry(Last(stack), n, g) = State(before, s, <<>>, d, u, cut, g)
      BY <2>2, <2>5, <3>1, IntoEntry
    <3>3. OneMore(before) BY DEF OneMore
    <3> QED BY <2>3, <2>5, <3>1, <3>2, <3>3
  <2>6. ASSUME stack # <<>>, Becomes(State(fs, Front(stack), <<>>, fds, After(Front(stack), "running"), cut, TRUE))
        PROVE  Goal
    <3> DEFINE s == Front(stack)
               u == After(Front(stack), "running")
    <3>1. Becomes(State(fs, s, <<>>, fds, u, cut, TRUE)) /\ S = D /\ fs = before /\ OneMore(fs)
      BY <2>2, <2>6, Zenon
    <3> HIDE DEF s, u, Goal
    <3> QED BY <2>3, <3>1, Zenon
  <2>7. CASE UNCHANGED vars
    <3>1. fs' = fs /\ stack' = stack /\ writing' = writing BY <2>7 DEF vars
    <3>2. OneMore(fs)' BY <2>1, <2>2, <3>1, StillInto DEF OneMore
    <3> QED BY <2>2, <3>1, <3>2
  <2>8. ~Write BY <2>2, Zenon DEF Write
  <2> HIDE DEF Goal
  <2> QED BY <2>4, <2>5, <2>6, <2>7, <2>8, Steps, Zenon
<1>3. Inv => NeverInto BY DEF NeverInto, Into, OneMore
<1> QED BY <1>1, <1>2, <1>3, PTL DEF Spec

-----------------------------------------------------------------------------
(* A path away from the source: beside it, or through a link in it.         *)
Away(t, x) == Beside(S, x) \/ \E q \in Path : IsPrefix(S, q) /\ IsPrefix(q, x) /\ Node(t, q, "link")
LinksAway(t) == \A q \in DOMAIN t : t[q].kind = "link" => Away(t, t[q].to)
Safe(t) == Kept(t) /\ LinksAway(t)

LEMMA AwayMore ==
  ASSUME S \in Path, NEW t, NEW x \in Path, NEW n \in Name, Away(t, x)
  PROVE  Away(t, Append(x, n))
<1>1. IsPrefix(x, Append(x, n)) /\ Append(x, n) \in Path BY PrefixMore, Longer
<1>2. CASE Beside(S, x)
  <2>1. ~IsPrefix(S, x) /\ ~IsPrefix(x, S) BY <1>2 DEF Beside
  <2>2. S # Append(x, n) BY <1>1, <2>1
  <2>3. ~IsPrefix(S, Append(x, n)) BY <2>1, <2>2, PrefixMore
  <2>4. ~IsPrefix(Append(x, n), S) BY <1>1, <2>1, PrefixOn
  <2> QED BY <2>3, <2>4 DEF Away, Beside
<1>3. CASE \E q \in Path : IsPrefix(S, q) /\ IsPrefix(q, x) /\ Node(t, q, "link")
  <2>1. PICK q \in Path : IsPrefix(S, q) /\ IsPrefix(q, x) /\ Node(t, q, "link") BY <1>3
  <2>2. IsPrefix(q, Append(x, n)) BY <1>1, <2>1, PrefixOn
  <2> QED BY <2>1, <2>2 DEF Away
<1> QED BY <1>2, <1>3 DEF Away

LEMMA AwayAlong ==
  ASSUME S \in Path, NEW t, TreeOK(t), LinksAway(t), NEW x \in Path, Away(t, x)
  PROVE  Away(t, Through(t, x)) /\ \A n \in Name : Away(t, Along(t, x, n))
<1>1. ASSUME NEW y \in Path, Away(t, y) PROVE Away(t, Follow(t, y)) /\ Follow(t, y) \in Path
  <2>1. Node(t, y, "link") => Away(t, t[y].to) BY DEF LinksAway, Node
  <2> QED BY <1>1, <2>1, FollowType DEF Follow
<1>2. Away(t, Through(t, x)) /\ Through(t, x) \in Path BY <1>1 DEF Through
<1>3. \A n \in Name : Away(t, Append(Through(t, x), n)) BY <1>2, AwayMore
<1> QED BY <1>2, <1>3 DEF Along

LEMMA AwayReal ==
  ASSUME S \in Path, NEW t, TreeOK(t), LinksAway(t), NEW p \in Path, Away(t, Real(t, p)), NEW r \in Path
  PROVE  Away(t, Real(t, p \o r))
<1> DEFINE Z == {x \in Path : Away(t, Real(t, p \o x))}
<1>1. <<>> \in Z BY JoinedEmpty
<1>2. ASSUME NEW x \in Path, NEW n \in Name, x \in Z PROVE Append(x, n) \in Z
  <2>1. p \o Append(x, n) = Append(p \o x, n) /\ p \o x \in Path /\ Append(x, n) \in Path BY JoinedMore, Joined, Longer
  <2>2. Real(t, Append(p \o x, n)) = Along(t, Real(t, p \o x), n) /\ Real(t, p \o x) \in Path BY <2>1, RealIs
  <2>3. Away(t, Real(t, p \o x)) BY <1>2
  <2>4. Away(t, Along(t, Real(t, p \o x), n)) BY <2>2, <2>3, AwayAlong
  <2> QED BY <2>1, <2>2, <2>4
<1> HIDE DEF Z
<1>3. Path \subseteq Z BY <1>1, <1>2, PathInduction DEF Path
<1> QED BY <1>3 DEF Z

(* A place that is written is beside the source.                            *)
LEMMA AwayPlace ==
  ASSUME S \in Path, NEW t, TreeOK(t), NEW x \in Path, Away(t, x),
         Node(t, x, "file") \/ (x \notin DOMAIN t /\ x # <<>> /\ Node(t, Front(x), "dir"))
  PROVE  Beside(S, x)
<1> SUFFICES ASSUME NEW q \in Path, IsPrefix(q, x), Node(t, q, "link") PROVE FALSE BY DEF Away
<1>0. q \in DOMAIN t /\ t[q].kind = "link" BY DEF Node
<1>1. ASSUME NEW y \in DOMAIN t, IsPrefix(q, y), t[y].kind # "link" PROVE FALSE
  <2>1. q # y BY <1>0, <1>1
  <2>2. Node(t, q, "dir") BY <1>1, <2>1, Above
  <2> QED BY <1>0, <2>2 DEF Node
<1>2. CASE Node(t, x, "file") BY <1>1, <1>2 DEF Node
<1>3. CASE x \notin DOMAIN t /\ x # <<>> /\ Node(t, Front(x), "dir")
  <2>1. Front(x) \in Path /\ Last(x) \in Name /\ x = Append(Front(x), Last(x)) BY <1>3, Shorter
  <2>2. PICK v \in Path, n \in Name : x = Append(v, n) /\ v = Front(x) BY <2>1
  <2>3. q # x BY <1>0, <1>3
  <2>4. IsPrefix(q, v) BY <2>2, <2>3, PrefixMore
  <2>5. v \in DOMAIN t /\ t[v].kind = "dir" BY <1>3, <2>2 DEF Node
  <2> QED BY <1>1, <2>4, <2>5
<1> QED BY <1>2, <1>3

(* A node put outside the source leaves the source as it was, and every link *)
(* away from it.                                                            *)
LEMMA SafePut ==
  ASSUME S \in Path, NEW t, Safe(t), NEW x, ~IsPrefix(S, x), NEW node, Grows(t, Put(t, x, node)),
         node.kind = "link" => Away(t, node.to)
  PROVE  Safe(Put(t, x, node))
<1> DEFINE v == Put(t, x, node)
<1>1. DOMAIN v = DOMAIN t \cup {x} /\ v[x] = node /\ \A y \in DOMAIN t : y # x => v[y] = t[y] BY DEF Put
<1> HIDE DEF v
<1>2. ASSUME NEW y \in DOMAIN v, IsPrefix(S, y) PROVE y \in DOMAIN before /\ v[y] = before[y]
  <2>1. y # x BY <1>2
  <2> QED BY <1>1, <1>2, <2>1 DEF Safe, Kept
<1>3. \A y : Away(t, y) => Away(v, y)
  <2>1. \A q : Node(t, q, "link") => Node(v, q, "link") BY DEF v, Node, Grows
  <2> QED BY <2>1 DEF Away
<1>4. ASSUME NEW q \in DOMAIN v, v[q].kind = "link" PROVE Away(v, v[q].to)
  <2>1. CASE q = x BY <1>1, <1>3, <1>4, <2>1
  <2>2. CASE q # x
    <3>1. q \in DOMAIN t /\ v[q] = t[q] BY <1>1, <2>2
    <3>2. Away(t, t[q].to) BY <1>4, <3>1 DEF Safe, LinksAway
    <3> QED BY <1>3, <3>1, <3>2
  <2> QED BY <2>1, <2>2
<1> QED BY <1>2, <1>4 DEF Safe, Kept, LinksAway, v

(* The calls that write, once more.                                         *)
LEMMA SafeDir ==
  ASSUME S \in Path, NEW t, TreeOK(t), Safe(t), NEW b \in Path, Away(t, Real(t, Stem(b))), NEW m
  PROVE  Safe(Dir(t, b, m))
<1> DEFINE x == Real(t, Stem(b))
           u == Dir(t, b, m)
<1>1. /\ m /\ Addable(t, x, b) => u = Put(t, x, Directory)
      /\ ~(m /\ Addable(t, x, b)) => u = t
      /\ Grows(t, u)
  BY DirIs
<1>2. x \in Path BY StemType, RealIs
<1> HIDE DEF x, u
<1>3. CASE m /\ Addable(t, x, b)
  <2>1. Beside(S, x) BY <1>2, <1>3, AwayPlace DEF Addable, x
  <2>2. Directory.kind # "link" BY DEF Directory
  <2> QED BY <1>1, <1>3, <2>1, <2>2, SafePut DEF Beside, u
<1>4. CASE ~(m /\ Addable(t, x, b)) BY <1>1, <1>4 DEF u
<1> QED BY <1>3, <1>4

LEMMA SafeSym ==
  ASSUME S \in Path, NEW t, TreeOK(t), Safe(t), NEW b \in Path, Away(t, Real(t, b)), NEW m,
         NEW y \in Plain, Away(t, y)
  PROVE  Safe(Sym(t, y, b, m))
<1> DEFINE x == Real(t, b)
           u == Sym(t, y, b, m)
<1>1. /\ m /\ Addable(t, x, b) => u = Put(t, x, LinkTo(y))
      /\ ~(m /\ Addable(t, x, b)) => u = t
      /\ Grows(t, u)
  BY SymIs
<1>2. x \in Path BY RealIs
<1> HIDE DEF x, u
<1>3. CASE m /\ Addable(t, x, b)
  <2>1. Beside(S, x) BY <1>2, <1>3, AwayPlace DEF Addable, x
  <2>2. LinkTo(y).to = y BY DEF LinkTo
  <2>3. ~IsPrefix(S, x) /\ Grows(t, Put(t, x, LinkTo(y))) BY <1>1, <1>3, <2>1 DEF Beside
  <2>4. Safe(Put(t, x, LinkTo(y))) BY <2>2, <2>3, SafePut
  <2> QED BY <1>1, <1>3, <2>4 DEF u
<1>4. CASE ~(m /\ Addable(t, x, b)) BY <1>1, <1>4 DEF u
<1> QED BY <1>3, <1>4

LEMMA SafeWritten ==
  ASSUME S \in Path, NEW t, TreeOK(t), Safe(t), NEW b \in Path, Away(t, Real(t, b)), NEW m, CanWrite(t, b, m), NEW d
  PROVE  Safe(Put(t, Final(t, b), File(d))) /\ ~IsPrefix(S, Final(t, b))
<1> DEFINE x == Final(t, b)
<1>1. Real(t, b) \in Path BY RealIs
<1>2. x \in Path /\ Away(t, x)
  <2>1. LinksAway(t) BY DEF Safe
  <2> QED BY <1>1, <2>1, AwayAlong, ThroughType DEF Final
<1>3. Node(t, x, "file") \/ Addable(t, x, b) BY DEF CanWrite
<1>4. Grows(t, Put(t, x, File(d))) BY WrittenIs
<1> HIDE DEF x
<1>5. Beside(S, x) BY <1>2, <1>3, AwayPlace DEF Addable
<1>6. File(d).kind # "link" BY DEF File
<1> DEFINE w == File(d)
<1> HIDE DEF w
<1>7. Safe(Put(t, x, w))
  <2>1. w.kind = "link" => Away(t, w.to) BY <1>6 DEF w
  <2>2. Grows(t, Put(t, x, w)) BY <1>4 DEF w
  <2> QED BY <1>5, <2>1, <2>2, SafePut DEF Beside
<1> QED BY <1>5, <1>7 DEF x, w, Beside

(* A path begins with what is left of it without its slashes at the end.    *)
LEMMA StemOf ==
  ASSUME NEW p \in Path
  PROVE  \E w \in Path : p = Stem(p) \o w
<1> DEFINE Z == {x \in Path : \E w \in Path : x = Stem(x) \o w}
<1>1. <<>> \in Z
  <2>1. <<>> \in Path /\ Stem(<<>>) = <<>> /\ <<>> \o <<>> = <<>> BY JoinedEmpty, StemMore
  <2> QED BY <2>1
<1>2. ASSUME NEW x \in Path, NEW n \in Name, x \in Z PROVE Append(x, n) \in Z
  <2>1. Append(x, n) \in Path /\ Stem(Append(x, n)) = IF n = "/" THEN Stem(x) ELSE Append(x, n) BY Longer, StemMore
  <2>2. CASE n = "/"
    <3>1. PICK w \in Path : x = Stem(x) \o w BY <1>2
    <3>2. Append(w, n) \in Path /\ Stem(x) \in Path BY Longer, StemType
    <3>3. Append(Stem(x) \o w, n) = Stem(x) \o Append(w, n) BY <3>2, JoinedMore
    <3>4. Append(x, n) = Stem(Append(x, n)) \o Append(w, n) BY <2>1, <2>2, <3>1, <3>3
    <3> QED BY <2>1, <3>2, <3>4
  <2>3. CASE n # "/"
    <3>1. Append(x, n) \o <<>> = Append(x, n) /\ <<>> \in Path BY <2>1, JoinedEmpty
    <3> QED BY <2>1, <2>3, <3>1
  <2> QED BY <2>2, <2>3
<1> HIDE DEF Z
<1>3. Path \subseteq Z BY <1>1, <1>2, PathInduction DEF Path
<1> QED BY <1>3 DEF Z

(* The source is kept by a turn of the loop.                                *)
Aside == ~Overlap /\ \A q \in Links : Beside(S, before[q].to)
Outside(w) == w # <<>> => ~IsPrefix(S, w[2])
Watched(t, s, w) == Kept(t) /\ (s # <<>> => Safe(t)) /\ Outside(w)

SafeAt(t, a, y, b) ==
  /\ S \in Path /\ TreeOK(t) /\ Safe(t) /\ b \in Path /\ Away(t, Real(t, b))
  /\ y \in DOMAIN t /\ Real(t, a) = y /\ IsPrefix(S, y)

LEMMA SafeFile ==
  ASSUME NEW t, NEW a, NEW y, NEW b, SafeAt(t, a, y, b), NEW m, NEW s, NEW d, NEW c
  PROVE  \E t2, s2, w2, d2, u2 :
           /\ CpF2F(State(t, s, <<>>, d, "running", c, m), a, b) = State(t2, s2, w2, d2, u2, c, m)
           /\ Safe(t2) /\ Outside(w2)
<1> DEFINE r == CpF2F(State(t, s, <<>>, d, "running", c, m), a, b)
           x == Final(t, b)
<1>1. r = IF Stops(t, d, a, b, m) THEN State(t, <<>>, <<>>, d, "exit", c, m)
          ELSE IF Is(t, a, "link") THEN State(Sym(t, y, b, m), s, <<>>, d, After(s, "running"), c, m)
          ELSE State(Put(t, x, File("empty")), s, <<y, x>>, d + 2, "running", c, m)
  BY FileStep DEF SafeAt
<1>2. Outside(<<>>) BY DEF Outside
<1> USE DEF SafeAt
<1> HIDE DEF r, x
<1>3. CASE Stops(t, d, a, b, m) BY <1>1, <1>2, <1>3, Zenon DEF r
<1>4. CASE ~Stops(t, d, a, b, m) /\ Is(t, a, "link")
  <2>1. y \in Plain /\ y \in Path BY Kinds
  <2>2. Away(t, y)
    <3>1. Node(t, y, "link") BY <1>4 DEF Is
    <3>2. IsPrefix(y, y) BY <2>1, PrefixSelf
    <3> QED BY <2>1, <3>1, <3>2 DEF Away
  <2>3. Safe(Sym(t, y, b, m)) BY <2>1, <2>2, SafeSym
  <2> QED BY <1>1, <1>2, <1>4, <2>3, Zenon DEF r
<1>5. CASE ~Stops(t, d, a, b, m) /\ ~Is(t, a, "link")
  <2>1. CanWrite(t, b, m) BY <1>5 DEF Stops
  <2>2. Safe(Put(t, x, File("empty"))) /\ ~IsPrefix(S, x) BY <2>1, SafeWritten DEF x
  <2>3. Outside(<<y, x>>)
    <3>1. <<y, x>>[2] = x OBVIOUS
    <3> QED BY <2>2, <3>1 DEF Outside
  <2> QED BY <1>1, <1>5, <2>2, <2>3, Zenon DEF r
<1> QED BY <1>3, <1>4, <1>5

LEMMA SafeEntry ==
  ASSUME Sane, Aside, Safe(fs), stack # <<>>, NEW n \in Names(fs, Last(stack).src), NEW g
  PROVE  \E t, s, w, d, u : Entry(Last(stack), n, g) = State(t, s, w, d, u, cut, g) /\ Safe(t) /\ Outside(w)
<1> DEFINE a == Append(Last(stack).src, n)
           b == Append(Last(stack).dst, n)
<1>0. Loose(fs, stack, fds) BY DEF Sane, Fit
<1>1. TreeOK(fs) /\ Stacked(fs, stack) /\ Is(before, f1, "dir") /\ Real(fs, Stem(Onto(before))) = D
  BY <1>0 DEF Loose
<1>2. From(before) \in Path /\ Onto(before) \in Path /\ S \in Path /\ D \in Path
  <2>1. Exists(before, f1) BY <1>1 DEF Is, Node, Exists
  <2> QED BY <2>1, Start
<1>3. PICK q \in Plain :
        /\ q # <<>> /\ a = From(before) \o q /\ b = Onto(before) \o q
        /\ Real(fs, a) = S \o q /\ S \o q \in DOMAIN fs
  <2>1. \E r \in Plain :
           /\ Append(r, n) \in Plain /\ Append(r, n) # <<>>
           /\ Append(Last(stack).src, n) = From(before) \o Append(r, n)
           /\ Append(Last(stack).dst, n) = Onto(before) \o Append(r, n)
           /\ Real(fs, From(before) \o Append(r, n)) = S \o Append(r, n) /\ S \o Append(r, n) \in DOMAIN fs
    BY <1>1, <1>2, TopIs
  <2> QED BY <2>1
<1>4. Entry(Last(stack), n, g) =
        IF Is(fs, a, "dir") THEN CpD2D(State(Dir(fs, b, g), Marked(n), <<>>, fds, "running", cut, g), a, b)
        ELSE CpF2F(State(fs, Marked(n), <<>>, fds, "running", cut, g), a, b)
  BY EntryIs
<1> HIDE DEF a, b
<1>5. q \in Path /\ a \in Path /\ b \in Path /\ Stem(b) = b BY <1>2, <1>3, PlainPath, Joined, StemOn
<1>6. Away(fs, Real(fs, b))
  <2>1. Away(fs, D) BY <1>1 DEF Aside, Overlap, Away
  <2>2. LinksAway(fs) BY DEF Safe
  <2>3. PICK w \in Path : Onto(before) = Stem(Onto(before)) \o w BY <1>2, StemOf
  <2>4. Stem(Onto(before)) \in Path /\ w \o q \in Path BY <1>2, <1>5, StemType, Joined
  <2>5. b = Stem(Onto(before)) \o (w \o q)
    <3>1. (Stem(Onto(before)) \o w) \o q = Stem(Onto(before)) \o (w \o q) BY <1>5, <2>4, JoinedTwice
    <3> QED BY <1>3, <2>3, <3>1
  <2> QED BY <1>1, <1>2, <2>1, <2>2, <2>4, <2>5, AwayReal
<1>7. CASE Is(fs, a, "dir")
  <2>1. Safe(Dir(fs, b, g)) BY <1>1, <1>2, <1>5, <1>6, SafeDir
  <2>2. \E s, d, u : CpD2D(State(Dir(fs, b, g), Marked(n), <<>>, fds, "running", cut, g), a, b)
                       = State(Dir(fs, b, g), s, <<>>, d, u, cut, g)
    BY Entered
  <2>3. Outside(<<>>) BY DEF Outside
  <2> QED BY <1>4, <1>7, <2>1, <2>2, <2>3, Zenon
<1>8. CASE ~Is(fs, a, "dir")
  <2>1. IsPrefix(S, S \o q) BY <1>2, <1>5, PrefixJoined
  <2>2. \E t2, s2, w2, d2, u2 :
          /\ CpF2F(State(fs, Marked(n), <<>>, fds, "running", cut, g), a, b) = State(t2, s2, w2, d2, u2, cut, g)
          /\ Safe(t2) /\ Outside(w2)
    <3>1. SafeAt(fs, a, S \o q, b) BY <1>1, <1>2, <1>3, <1>5, <1>6, <2>1 DEF SafeAt
    <3> QED BY <3>1, SafeFile
  <2> QED BY <1>4, <1>8, <2>2, Zenon
<1> QED BY <1>7, <1>8

(* It is kept by the start.                                                 *)
LEMMA KeptPut ==
  ASSUME TreeOK(before), S \in Path, S \in DOMAIN before, before[S].kind # "dir", NEW x \in Path, x # S, NEW node,
         Node(before, x, "file") \/ (x # <<>> /\ Node(before, Front(x), "dir"))
  PROVE  Kept(Put(before, x, node)) /\ ~IsPrefix(S, x)
<1>1. ~IsPrefix(S, x)
  <2> SUFFICES ASSUME IsPrefix(S, x) PROVE FALSE OBVIOUS
  <2>1. ASSUME NEW y \in DOMAIN before, IsPrefix(S, y), y # S PROVE FALSE
    <3>1. Node(before, S, "dir") BY <2>1, Above
    <3> QED BY <3>1 DEF Node
  <2>2. CASE Node(before, x, "file") BY <2>1, <2>2 DEF Node
  <2>3. CASE x # <<>> /\ Node(before, Front(x), "dir")
    <3>1. PICK v \in Path, n \in Name : x = Append(v, n) /\ v = Front(x) BY <2>3, Shorter
    <3>2. IsPrefix(S, v) BY <3>1, PrefixMore
    <3>3. v \in DOMAIN before /\ before[v].kind = "dir" BY <2>3, <3>1 DEF Node
    <3> QED BY <2>1, <3>2, <3>3
  <2> QED BY <2>2, <2>3
<1>2. \A y \in DOMAIN Put(before, x, node) : y # x => y \in DOMAIN before /\ Put(before, x, node)[y] = before[y]
  BY DEF Put
<1> QED BY <1>1, <1>2 DEF Kept

LEMMA KeptFile ==
  ASSUME Sane, Aside, Exists(before, f1), ~Is(before, f1, "dir"), NEW d, NEW c, NEW m
  PROVE  \E t, s, w, d2, u :
           /\ CpF2F(State(before, <<>>, <<>>, d, "running", c, m), f1, Onto(before)) = State(t, s, w, d2, u, c, m)
           /\ Kept(t) /\ s = <<>> /\ Outside(w)
<1> DEFINE b == Onto(before)
           x == Final(before, b)
           r(s) == CpF2F(State(before, s, <<>>, d, "running", c, m), f1, b)
<1>1. /\ TreeOK(before) /\ S \in Path /\ D \in Path /\ b \in Path /\ f1 \in Path
      /\ Real(before, f1) = S /\ S \in DOMAIN before /\ Kept(before)
  BY Start
<1>2. Real(before, b) = D BY Settled DEF Sane
<1>3. before[S].kind # "dir" BY <1>1 DEF Is, Node
<1>4. \A s : r(s) = IF Stops(before, d, f1, b, m) THEN State(before, <<>>, <<>>, d, "exit", c, m)
                    ELSE IF Is(before, f1, "link") THEN State(Sym(before, S, b, m), s, <<>>, d, After(s, "running"), c, m)
                    ELSE State(Put(before, x, File("empty")), s, <<S, x>>, d + 2, "running", c, m)
  BY <1>1, FileStep
<1>5. Outside(<<>>) BY DEF Outside
<1> HIDE DEF r, b, x
<1>6. S # D \/ Clash(before, f1, b) BY <1>1, <1>2 DEF Clash, Exists
<1> SUFFICES \E t, s, w, d2, u : r(<<>>) = State(t, s, w, d2, u, c, m) /\ Kept(t) /\ s = <<>> /\ Outside(w)
  BY DEF r, b
<1>7. CASE Stops(before, d, f1, b, m)
  <2>1. r(<<>>) = State(before, <<>>, <<>>, d, "exit", c, m) BY <1>4, <1>7, Zenon
  <2> QED BY <1>1, <1>5, <2>1, Zenon
<1>8. CASE ~Stops(before, d, f1, b, m) /\ Is(before, f1, "link")
  <2> DEFINE v == Sym(before, S, b, m)
  <2>1. S \in Plain BY <1>1, Kinds
  <2>2. /\ m /\ Addable(before, D, b) => v = Put(before, D, LinkTo(S))
        /\ ~(m /\ Addable(before, D, b)) => v = before
    BY <1>1, <1>2, <2>1, SymIs
  <2>3. r(<<>>) = State(v, <<>>, <<>>, d, After(<<>>, "running"), c, m) BY <1>4, <1>8, Zenon
  <2> HIDE DEF v
  <2>4. Kept(v)
    <3>1. CASE m /\ Addable(before, D, b)
      <4>1. S # D BY <1>6, <1>8 DEF Stops
      <4>2. Kept(Put(before, D, LinkTo(S))) BY <1>1, <1>3, <3>1, <4>1, KeptPut DEF Addable
      <4> QED BY <2>2, <3>1, <4>2
    <3>2. CASE ~(m /\ Addable(before, D, b)) BY <1>1, <2>2, <3>2
    <3> QED BY <3>1, <3>2
  <2> QED BY <1>5, <2>3, <2>4, Zenon
<1>9. CASE ~Stops(before, d, f1, b, m) /\ ~Is(before, f1, "link")
  <2>1. r(<<>>) = State(Put(before, x, File("empty")), <<>>, <<S, x>>, d + 2, "running", c, m) BY <1>4, <1>9, Zenon
  <2>2. x \in Path BY <1>1, <1>2, ThroughType DEF Final, x
  <2>3. x # S
    <3>1. ASSUME NEW y \in Path, Node(before, y, "link") PROVE before[y].to # S
      <4>1. y \in Links BY <3>1 DEF Links, Node
      <4>2. Beside(S, before[y].to) BY <4>1 DEF Aside
      <4>3. IsPrefix(S, S) BY <1>1, PrefixSelf
      <4> QED BY <4>2, <4>3 DEF Beside
    <3>2. \A y \in Path : y # S => Follow(before, y) \in Path /\ Follow(before, y) # S
      BY <1>1, <3>1, FollowType DEF Follow
    <3>3. S # D BY <1>6, <1>9 DEF Stops
    <3> QED BY <1>1, <1>2, <3>2, <3>3 DEF Final, Through, x
  <2>4. Node(before, x, "file") \/ (x # <<>> /\ Node(before, Front(x), "dir"))
    BY <1>9 DEF Stops, CanWrite, Addable, x
  <2>5. Kept(Put(before, x, File("empty"))) /\ ~IsPrefix(S, x) BY <1>1, <1>3, <2>2, <2>3, <2>4, KeptPut
  <2>6. Outside(<<S, x>>)
    <3>1. <<S, x>>[2] = x OBVIOUS
    <3> QED BY <2>5, <3>1 DEF Outside
  <2> QED BY <2>1, <2>5, <2>6, Zenon
<1> QED BY <1>7, <1>8, <1>9

LEMMA SafeStart ==
  ASSUME Sane, Aside, MyRcp
  PROVE  \E t, s, w, d, u, c, m : Becomes(State(t, s, w, d, u, c, m)) /\ Watched(t, s, w)
<1> DEFINE b == Onto(before)
<1>1. status = "start" /\ fs = before /\ fds = 0 /\ stack = <<>> BY DEF MyRcp, Sane, Fit
<1>2. Kept(before) /\ Outside(<<>>) BY DEF Kept, Outside
<1>3. LinksAway(before)
  <2> SUFFICES ASSUME NEW q \in DOMAIN before, before[q].kind = "link" PROVE Away(before, before[q].to)
    BY DEF LinksAway
  <2> QED BY DEF Aside, Links, Away
<1>4. \A t, w : Kept(t) /\ Outside(w) => Watched(t, <<>>, w) BY DEF Watched
<1>5. PICK g : \/ Becomes(Exit(Now(g)))
               \/ Exists(fs, f1) /\ ~Is(fs, f1, "dir") /\ Becomes(CpF2D(Now(g), f1, f2))
               \/ Is(fs, f1, "dir") /\ Becomes(CpD2D(Mkdir(Now(g), Onto(fs)), From(fs), Onto(fs)))
  BY MyRcpCases, Zenon
<1>6. Exit(Now(g)) = State(before, <<>>, <<>>, 0, "exit", cut, g) BY <1>1, MyRcpIs
<1>7. CASE Becomes(Exit(Now(g))) BY <1>2, <1>4, <1>6, <1>7
<1>8. CASE Exists(fs, f1) /\ ~Is(fs, f1, "dir") /\ Becomes(CpF2D(Now(g), f1, f2))
  <2> DEFINE k == Levels(before, f2, Last(f1))
  <2>1. Exists(before, f1) /\ ~Is(before, f1, "dir") BY <1>1, <1>8
  <2>2. Onto(before) = Within(f2, Last(f1), k) BY <2>1, Settled DEF Sane
  <2>3. CpF2D(Now(g), f1, f2) =
          IF 0 + k > MAXFD THEN State(before, <<>>, <<>>, 0, "exit", cut, g)
          ELSE CpF2F(State(before, <<>>, <<>>, 0 + k, "running", cut, g), f1, Within(f2, Last(f1), k))
    BY <1>1, MyRcpIs
  <2> HIDE DEF k
  <2>4. \A d : \E t, s, w, d2, u :
          /\ CpF2F(State(before, <<>>, <<>>, d, "running", cut, g), f1, Onto(before)) = State(t, s, w, d2, u, cut, g)
          /\ Kept(t) /\ s = <<>> /\ Outside(w)
    BY <2>1, KeptFile
  <2>5. CASE 0 + k > MAXFD BY <1>2, <1>4, <1>8, <2>3, <2>5
  <2>6. CASE ~(0 + k > MAXFD)
    <3>1. CpF2D(Now(g), f1, f2) = CpF2F(State(before, <<>>, <<>>, 0 + k, "running", cut, g), f1, Onto(before))
      BY <2>2, <2>3, <2>6
    <3>2. PICK t, s, w, d2, u : CpF2D(Now(g), f1, f2) = State(t, s, w, d2, u, cut, g)
                                /\ Kept(t) /\ s = <<>> /\ Outside(w)
      BY <2>4, <3>1, Zenon
    <3> QED BY <1>4, <1>8, <3>2
  <2> QED BY <2>5, <2>6
<1>9. CASE Is(fs, f1, "dir") /\ Becomes(CpD2D(Mkdir(Now(g), Onto(fs)), From(fs), Onto(fs)))
  <2>1. Is(before, f1, "dir") /\ Exists(before, f1) BY <1>1, <1>9 DEF Is, Node, Exists
  <2>2. S \in Path /\ TreeOK(before) /\ b \in Path /\ Real(before, Stem(b)) = D BY <2>1, Start, Settled DEF Sane
  <2>3. Away(before, Real(before, Stem(b))) BY <2>1, <2>2 DEF Aside, Overlap, Away
  <2> DEFINE v == Dir(before, b, g)
  <2>4. Safe(v)
    <3>1. Safe(before) BY <1>2, <1>3 DEF Safe
    <3> QED BY <2>2, <2>3, <3>1, SafeDir
  <2> HIDE DEF v, b
  <2>5. CpD2D(Mkdir(Now(g), Onto(fs)), From(fs), Onto(fs))
          = CpD2D(State(v, <<>>, <<>>, 0, "running", cut, g), From(before), b)
    BY <1>1, MyRcpIs DEF v, b
  <2>6. \A x, y : \E s, d, u : CpD2D(State(v, x, <<>>, 0, "running", cut, g), y, b) = State(v, s, <<>>, d, u, cut, g)
    BY Entered
  <2>7. PICK s, d, u : CpD2D(Mkdir(Now(g), Onto(fs)), From(fs), Onto(fs)) = State(v, s, <<>>, d, u, cut, g)
    BY <2>5, <2>6, Zenon
  <2>8. Watched(v, s, <<>>) BY <1>2, <2>4 DEF Watched, Safe
  <2> QED BY <1>9, <2>7, <2>8
<1> QED BY <1>5, <1>7, <1>8, <1>9

(* The file being written is not of the source.                             *)
LEMMA SafeWrite ==
  ASSUME Sane, Watched(fs, stack, writing), writing # <<>>, NEW d
  PROVE  Watched(Put(fs, writing[2], File(d)), stack, <<>>)
<1> DEFINE o == writing[2]
           v == Put(fs, o, File(d))
<1>1. Node(fs, o, "file") /\ TreeOK(fs) /\ Loose(fs, stack, fds) BY DEF Sane, Fit, Loose
<1>2. ~IsPrefix(S, o) BY DEF Watched, Outside
<1>3. Grows(fs, v) BY <1>1, PutFile
<1> HIDE DEF o
<1>4. Kept(v)
  <2>1. \A y \in DOMAIN v : y # o => y \in DOMAIN fs /\ v[y] = fs[y] BY DEF Put
  <2> HIDE DEF v
  <2> QED BY <1>2, <2>1 DEF Watched, Kept
<1>5. stack # <<>> => Safe(v)
  <2> SUFFICES ASSUME stack # <<>> PROVE Safe(v) OBVIOUS
  <2>1. S \in Path BY Paths
  <2>2. File(d).kind # "link" BY DEF File
  <2> DEFINE w == File(d)
  <2>3. Safe(fs) BY DEF Watched
  <2> HIDE DEF w
  <2>4. w.kind # "link" /\ Grows(fs, Put(fs, o, w)) BY <1>3, <2>2 DEF w
  <2>5. Safe(Put(fs, o, w)) BY <1>2, <2>1, <2>3, <2>4, SafePut
  <2> QED BY <2>5 DEF w
<1> QED BY <1>4, <1>5 DEF Watched, Outside, o

(* A file that is copied keeps its contents.                                *)
THEOREM SourceIsKept == Spec => []SourceKept
<1> DEFINE Inv == Sane /\ (Aside => Watched(fs, stack, writing))
<1>1. Init => Inv
  <2>1. Init => Watched(fs, stack, writing) BY DEF Init, Kept, Watched, Outside
  <2> QED BY <2>1, SaneInit
<1>2. Inv /\ [Next]_vars => Inv'
  <2> SUFFICES ASSUME Inv, [Next]_vars PROVE (Aside => Watched(fs, stack, writing))' BY SaneNext
  <2>1. typed' = typed /\ before' = before
    BY Zenon DEF Next, MyRcp, ReadEntry, Write, EndOfDir, Becomes, vars
  <2>2. S' = S /\ Links' = Links /\ Overlap' = Overlap BY <2>1, Still, StillInner
  <2> DEFINE Goal == Watched(fs, stack, writing)'
  <2>3. ASSUME NEW t, NEW s, NEW w, fs' = t, stack' = s, writing' = w, Watched(t, s, w) PROVE Goal
    <3>1. Kept(t) <=> Kept(fs)' BY <2>1, <2>2, <2>3 DEF Kept
    <3>2. \A x : Away(t, x) <=> Away(fs, x)' BY <2>2, <2>3 DEF Away
    <3>3. LinksAway(t) <=> LinksAway(fs)' BY <2>3, <3>2 DEF LinksAway
    <3>4. Outside(w) <=> Outside(writing)' BY <2>2, <2>3 DEF Outside
    <3> QED BY <2>3, <3>1, <3>3, <3>4 DEF Watched, Safe
  <2>4. SUFFICES ASSUME Aside PROVE Goal BY <2>1, <2>2 DEF Aside
  <2>5. ASSUME NEW t, NEW s, NEW w, NEW d, NEW u, NEW c, NEW m, Becomes(State(t, s, w, d, u, c, m)), Watched(t, s, w)
        PROVE  Goal
    <3>1. fs' = t /\ stack' = s /\ writing' = w BY <2>5, BecomesIs
    <3> HIDE DEF Goal
    <3> QED BY <2>3, <2>5, <3>1
  <2>6. Watched(fs, stack, writing) BY <2>4
  <2> HIDE DEF Goal
  <2>7. CASE MyRcp
    <3>1. PICK t, s, w, d, u, c, m : Becomes(State(t, s, w, d, u, c, m)) /\ Watched(t, s, w)
      BY <2>4, <2>7, SafeStart
    <3> QED BY <2>5, <3>1
  <2>8. ASSUME stack # <<>>, NEW n \in Names(fs, Last(stack).src), NEW g, Becomes(Entry(Last(stack), n, g))
        PROVE  Goal
    <3>1. Safe(fs) BY <2>6, <2>8 DEF Watched
    <3>2. PICK t, s, w, d, u : Entry(Last(stack), n, g) = State(t, s, w, d, u, cut, g) /\ Safe(t) /\ Outside(w)
      BY <2>4, <2>8, <3>1, SafeEntry
    <3>3. Watched(t, s, w) BY <3>2 DEF Watched, Safe
    <3> QED BY <2>5, <2>8, <3>2, <3>3
  <2>9. ASSUME stack # <<>>, Becomes(State(fs, Front(stack), <<>>, fds, After(Front(stack), "running"), cut, TRUE))
        PROVE  Goal
    <3> DEFINE s == Front(stack)
               u == After(Front(stack), "running")
    <3>1. Becomes(State(fs, s, <<>>, fds, u, cut, TRUE)) BY <2>9
    <3>2. Watched(fs, s, <<>>) BY <2>6, <2>9 DEF Watched, Outside
    <3> HIDE DEF s, u
    <3> QED BY <2>5, <3>1, <3>2, Zenon
  <2>10. CASE Write
    <3>1. writing # <<>> BY <2>10, Zenon DEF Write
    <3>2. Node(fs, writing[1], "file") /\ Node(fs, writing[2], "file") /\ TreeOK(fs) BY <3>1 DEF Sane, Fit, Loose
    <3>3. writing[2] \in DOMAIN fs BY <3>2 DEF Node
    <3>4. PICK x : fs[writing[1]] = File(x) BY <3>2, Kinds DEF Node
    <3>5. Watched(Put(fs, writing[2], fs[writing[1]]), stack, <<>>)
      <4>1. Watched(Put(fs, writing[2], File(x)), stack, <<>>) BY <2>6, <3>1, SafeWrite
      <4> QED BY <3>4, <4>1
    <3>6. Watched(Put(fs, writing[2], File("cut")), stack, <<>>) BY <2>6, <3>1, SafeWrite
    <3> QED BY <2>5, <2>10, <3>3, <3>5, <3>6, WriteIs, Zenon
  <2>11. CASE UNCHANGED vars
    <3>1. fs' = fs /\ stack' = stack /\ writing' = writing BY <2>11 DEF vars
    <3> QED BY <2>3, <2>6, <3>1
  <2> QED BY <2>7, <2>8, <2>9, <2>10, <2>11, Steps, Zenon
<1>3. Inv => SourceKept
  <2> SUFFICES ASSUME Inv, Aside, NEW r \in Inner PROVE fs[S \o r] = Source(r) BY DEF SourceKept, Aside
  <2>1. before \in Trees /\ typed \in Arguments /\ Loose(fs, stack, fds) BY DEF Sane, Fit
  <2>2. TreeOK(before) /\ S \in Path
    <3>1. TreeOK(before) /\ f1 \in Path BY <2>1, Given
    <3> QED BY <3>1, RealIs DEF S
  <2>3. r \in Path /\ S \o r \in DOMAIN before BY <2>2, InnerIs
  <2>4. S \o r \in DOMAIN fs BY <2>1, <2>3, GrowsNode DEF Loose
  <2>5. IsPrefix(S, S \o r) BY <2>2, <2>3, PrefixJoined
  <2> QED BY <2>4, <2>5 DEF Watched, Kept, Source
<1> QED BY <1>1, <1>2, <1>3, PTL DEF Spec

-----------------------------------------------------------------------------
(* Descriptors: one for each directory copied, two for each file.           *)
Kinded(V, kind) == {r \in V : Source(r).kind = kind}
Cost(V) == Cardinality(Kinded(V, "dir")) + 2 * Cardinality(Kinded(V, "file"))

LEMMA InnerFinite ==
  ASSUME TreeOK(before), IsFiniteSet(DOMAIN before), S \in Path
  PROVE  IsFiniteSet(Inner)
<1> DEFINE F == [r \in Inner |-> S \o r]
<1>1. F \in [Inner -> DOMAIN before] BY InnerIs
<1>2. ASSUME NEW a \in Inner, NEW b \in Inner, F[a] = F[b] PROVE a = b
  <2>1. S \o a = S \o b /\ a \in Path /\ b \in Path BY <1>2, InnerIs
  <2> QED BY <2>1, JoinedSame
<1> HIDE DEF F
<1>3. F \in Injection(Inner, DOMAIN before) BY <1>1, <1>2, Fun_IsInj
<1> QED BY <1>3, FS_Injection

LEMMA CostMore ==
  ASSUME IsFiniteSet(Inner), NEW V \in SUBSET Inner, NEW q \in Inner, q \notin V
  PROVE  /\ Cost(V) \in Nat /\ Cost(Inner) \in Nat
         /\ Source(q).kind = "dir" => Cost(V \cup {q}) = Cost(V) + 1 /\ Cost(V) + 1 <= Cost(Inner)
         /\ Source(q).kind = "file" => Cost(V \cup {q}) = Cost(V) + 2 /\ Cost(V) + 2 <= Cost(Inner)
         /\ Source(q).kind = "link" => Cost(V \cup {q}) = Cost(V)
<1>1. ASSUME NEW kind
      PROVE  LET a == Cardinality(Kinded(V, kind))
                 b == Cardinality(Kinded(V \cup {q}, kind))
                 c == Cardinality(Kinded(Inner, kind))
             IN  a \in Nat /\ b \in Nat /\ c \in Nat /\ b <= c
                 /\ b = IF Source(q).kind = kind THEN a + 1 ELSE a
  <2>1. /\ Kinded(V, kind) \in SUBSET Inner /\ Kinded(V \cup {q}, kind) \in SUBSET Kinded(Inner, kind)
        /\ Kinded(Inner, kind) \in SUBSET Inner
    BY DEF Kinded
  <2>2. IsFiniteSet(Kinded(V, kind)) /\ IsFiniteSet(Kinded(Inner, kind)) BY <2>1, FS_Subset
  <2>3. /\ IsFiniteSet(Kinded(V \cup {q}, kind))
        /\ Cardinality(Kinded(V \cup {q}, kind)) <= Cardinality(Kinded(Inner, kind))
    BY <2>1, <2>2, FS_Subset
  <2>4. /\ Cardinality(Kinded(V, kind)) \in Nat /\ Cardinality(Kinded(Inner, kind)) \in Nat
        /\ Cardinality(Kinded(V \cup {q}, kind)) \in Nat
    BY <2>2, <2>3, FS_CardinalityType
  <2>5. q \notin Kinded(V, kind) BY DEF Kinded
  <2>6. Kinded(V \cup {q}, kind) = IF Source(q).kind = kind THEN Kinded(V, kind) \cup {q} ELSE Kinded(V, kind)
    BY DEF Kinded
  <2>7. Cardinality(Kinded(V, kind) \cup {q}) = Cardinality(Kinded(V, kind)) + 1 BY <2>2, <2>5, FS_AddElement
  <2> QED BY <2>3, <2>4, <2>6, <2>7
<1> DEFINE a == Cardinality(Kinded(V, "dir"))
           b == Cardinality(Kinded(V \cup {q}, "dir"))
           c == Cardinality(Kinded(Inner, "dir"))
           x == Cardinality(Kinded(V, "file"))
           y == Cardinality(Kinded(V \cup {q}, "file"))
           z == Cardinality(Kinded(Inner, "file"))
<1>2. a \in Nat /\ b \in Nat /\ c \in Nat /\ b <= c /\ b = IF Source(q).kind = "dir" THEN a + 1 ELSE a BY <1>1
<1>3. x \in Nat /\ y \in Nat /\ z \in Nat /\ y <= z /\ y = IF Source(q).kind = "file" THEN x + 1 ELSE x BY <1>1
<1>4. Cost(V) = a + 2 * x /\ Cost(V \cup {q}) = b + 2 * y /\ Cost(Inner) = c + 2 * z BY DEF Cost
<1> HIDE DEF a, b, c, x, y, z
<1> QED BY <1>2, <1>3, <1>4

-----------------------------------------------------------------------------
(* What the calls are about: each place copied (those in V) has a call while *)
(* something in it is not; a call is about a place copied, and has read what *)
(* has been copied from it.                                                 *)
Upward(V) == \A r \in Path, n \in Name : Append(r, n) \in V => r \in V
Waiting(s, V, W) ==
  \A r \in W, n \in Name : Append(r, n) \in Inner /\ Append(r, n) \notin V => \E k \in 1..Len(s) : s[k].src = From(before) \o r
Tracked(s, V) ==
  \A k \in 1..Len(s) :
    /\ \E r \in V : s[k].src = From(before) \o r
    /\ \A r \in Path, n \in Name :
         s[k].src = From(before) \o r /\ Append(r, n) \in Inner
         => n \in s[k].must /\ (n \in s[k].seen <=> Append(r, n) \in V)

(* A name is read.                                                          *)
LEMMA TrackedMarked ==
  ASSUME NEW t, Stacked(t, stack), From(before) \in Path,
         NEW V \in SUBSET Path, Upward(V), Tracked(stack, V), Waiting(stack, V, V),
         NEW r \in V, NEW n \in Name, Last(stack).src = From(before) \o r, Len(Append(r, n)) = Len(stack), stack # <<>>
  PROVE  /\ Upward(V \cup {Append(r, n)}) /\ Tracked(Marked(n), V \cup {Append(r, n)})
         /\ Waiting(Marked(n), V \cup {Append(r, n)}, V)
<1> DEFINE q == Append(r, n)
           l == Len(stack)
<1>1. stack \in Seq(Frames) /\ \A k \in 1..l : FrameAt(t, stack[k], k) BY DEF Stacked
<1>2. /\ Len(Marked(n)) = l /\ l \in Nat /\ l \in 1..l
      /\ \A k \in 1..l :
           /\ Marked(n)[k].src = stack[k].src /\ Marked(n)[k].must = stack[k].must
           /\ Marked(n)[k].seen = IF k = l THEN stack[k].seen \cup {n} ELSE stack[k].seen
  BY <1>1, MarkedIs
<1>3. Upward(V \cup {q})
  <2> SUFFICES ASSUME NEW x \in Path, NEW m \in Name, Append(x, m) = q PROVE x \in V BY DEF Upward
  <2> QED BY LongerSame
<1>4. Waiting(Marked(n), V \cup {q}, V) BY <1>2 DEF Waiting
<1>5. ASSUME NEW k \in 1..l, NEW x \in Path, stack[k].src = From(before) \o x
      PROVE  x = r <=> k = l
  <2>1. PICK y \in Plain : Len(y) = k - 1 /\ stack[k].src = From(before) \o y BY <1>1 DEF FrameAt
  <2>2. y = x BY <1>5, <2>1, PlainPath, JoinedSame
  <2>3. stack[l].src = From(before) \o r BY DEF Last
  <2>4. Len(r) \in Nat /\ Len(r) = l - 1
    <3>1. Len(q) = Len(r) + 1 /\ Len(r) \in Nat BY PathAppend
    <3> QED BY <1>2, <3>1
  <2>5. CASE k = l BY <1>5, <2>3, <2>5, JoinedSame
  <2>6. CASE k # l
    <3>1. Len(x) = k - 1 BY <2>1, <2>2
    <3>2. k - 1 # l - 1 BY <1>2, <2>6
    <3> QED BY <2>4, <2>6, <3>1, <3>2
  <2> QED BY <2>5, <2>6
<1>6. ASSUME NEW k \in 1..l
      PROVE  /\ \E x \in V \cup {q} : Marked(n)[k].src = From(before) \o x
             /\ \A x \in Path, m \in Name :
                  Marked(n)[k].src = From(before) \o x /\ Append(x, m) \in Inner
                  => m \in Marked(n)[k].must /\ (m \in Marked(n)[k].seen <=> Append(x, m) \in V \cup {q})
  <2>1. \E x \in V \cup {q} : Marked(n)[k].src = From(before) \o x BY <1>2 DEF Tracked
  <2>2. ASSUME NEW x \in Path, NEW m \in Name, Marked(n)[k].src = From(before) \o x, Append(x, m) \in Inner
        PROVE  m \in Marked(n)[k].must /\ (m \in Marked(n)[k].seen <=> Append(x, m) \in V \cup {q})
    <3>1. stack[k].src = From(before) \o x BY <1>2, <2>2
    <3>2. m \in stack[k].must /\ (m \in stack[k].seen <=> Append(x, m) \in V) BY <2>2, <3>1 DEF Tracked
    <3>3. x = r <=> k = l BY <1>5, <3>1
    <3>4. Append(x, m) = q <=> x = r /\ m = n BY LongerSame
    <3>5. m \in Marked(n)[k].seen <=> m \in stack[k].seen \/ (k = l /\ m = n) BY <1>2
    <3> HIDE DEF q
    <3> QED BY <1>2, <3>2, <3>3, <3>4, <3>5
  <2> QED BY <2>1, <2>2
<1>7. Tracked(Marked(n), V \cup {q}) BY <1>2, <1>6 DEF Tracked
<1> QED BY <1>3, <1>4, <1>7

(* A directory is opened.                                                   *)
LEMMA TrackedMore ==
  ASSUME NEW s \in Seq(Frames), NEW V \in SUBSET Path, NEW q \in V, From(before) \in Path, Tracked(s, V), Waiting(s, V, V \ {q}),
         \A n \in Name : Append(q, n) \notin V, NEW e \in Frames, e.src = From(before) \o q, e.seen = {},
         \A n \in Name : Append(q, n) \in Inner => n \in e.must
  PROVE  Tracked(Append(s, e), V) /\ Waiting(Append(s, e), V, V)
<1> DEFINE v == Append(s, e)
<1>1. Len(s) \in Nat /\ Len(v) = Len(s) + 1 /\ v[Len(s) + 1] = e /\ \A k \in 1..Len(s) : v[k] = s[k]
  BY AppendProperties, LenProperties
<1> HIDE DEF v
<1>2. ASSUME NEW k \in 1..Len(v)
      PROVE  /\ \E r \in V : v[k].src = From(before) \o r
             /\ \A r \in Path, n \in Name :
                  v[k].src = From(before) \o r /\ Append(r, n) \in Inner
                  => n \in v[k].must /\ (n \in v[k].seen <=> Append(r, n) \in V)
  <2>1. CASE k = Len(s) + 1
    <3>1. v[k] = e BY <1>1, <2>1
    <3>2. \A r \in Path : e.src = From(before) \o r => r = q BY JoinedSame
    <3> QED BY <3>1, <3>2
  <2>2. CASE k # Len(s) + 1
    <3>1. k \in 1..Len(s) BY <1>1, <2>2
    <3>2. v[k] = s[k] BY <1>1, <3>1
    <3> QED BY <3>1, <3>2 DEF Tracked
  <2> QED BY <2>1, <2>2
<1>3. Tracked(v, V) BY <1>2 DEF Tracked
<1>4. ASSUME NEW r \in V, NEW n \in Name, Append(r, n) \in Inner, Append(r, n) \notin V
      PROVE  \E k \in 1..Len(v) : v[k].src = From(before) \o r
  <2>1. CASE r = q
    <3>1. Len(s) + 1 \in 1..Len(v) BY <1>1
    <3> QED BY <1>1, <2>1, <3>1
  <2>2. CASE r # q
    <3>1. PICK k \in 1..Len(s) : s[k].src = From(before) \o r BY <1>4, <2>2 DEF Waiting
    <3>2. k \in 1..Len(v) /\ v[k] = s[k] BY <1>1, <3>1
    <3> QED BY <3>1, <3>2
  <2> QED BY <2>1, <2>2
<1> QED BY <1>3, <1>4 DEF Waiting, v

(* A directory ends.                                                        *)
LEMMA TrackedFront ==
  ASSUME stack \in Seq(Frames), stack # <<>>, NEW V \in SUBSET Path, Tracked(stack, V), Waiting(stack, V, V),
         Last(stack).must \subseteq Last(stack).seen
  PROVE  Tracked(Front(stack), V) /\ Waiting(Front(stack), V, V)
<1> DEFINE s == Front(stack)
           l == Len(stack)
<1>1. l \in Nat /\ l # 0 /\ Len(s) = l - 1 /\ \A k \in 1..l - 1 : s[k] = stack[k] BY FrontIs
<1> HIDE DEF s
<1>2. Tracked(s, V)
  <2>1. \A k \in 1..Len(s) : k \in 1..l /\ s[k] = stack[k] BY <1>1
  <2> QED BY <2>1 DEF Tracked
<1>3. ASSUME NEW r \in V, NEW n \in Name, Append(r, n) \in Inner, Append(r, n) \notin V
      PROVE  \E k \in 1..Len(s) : s[k].src = From(before) \o r
  <2>1. PICK k \in 1..l : stack[k].src = From(before) \o r BY <1>3 DEF Waiting
  <2>2. n \in stack[k].must /\ n \notin stack[k].seen BY <1>3, <2>1 DEF Tracked
  <2>3. k # l BY <2>2 DEF Last
  <2>4. k \in 1..l - 1 BY <1>1, <2>3
  <2> QED BY <1>1, <2>1, <2>4
<1> QED BY <1>2, <1>3 DEF Waiting, s

(* Nothing is left when no call is.                                         *)
LEMMA TrackedEnd ==
  ASSUME TreeOK(before), S \in Path, NEW V \in SUBSET Path, <<>> \in V, Waiting(<<>>, V, V)
  PROVE  Inner \subseteq V
<1> DEFINE Z == {r \in Path : r \in Inner => r \in V}
<1>1. <<>> \in Z BY JoinedEmpty
<1>2. ASSUME NEW r \in Path, NEW n \in Name, r \in Z PROVE Append(r, n) \in Z
  <2>1. Append(r, n) \in Path /\ IsPrefix(r, Append(r, n)) BY Longer, PrefixMore
  <2> SUFFICES ASSUME Append(r, n) \in Inner PROVE Append(r, n) \in V BY <2>1
  <2>2. r \in V BY <1>2, <2>1, InnerUp
  <2>3. 1..Len(<<>>) = {} BY EmptySeq
  <2> QED BY <2>2, <2>3 DEF Waiting
<1> HIDE DEF Z
<1>3. Path \subseteq Z BY <1>1, <1>2, PathInduction DEF Path
<1>4. Inner \subseteq Path BY InnerIs
<1> QED BY <1>3, <1>4 DEF Z

-----------------------------------------------------------------------------
(* What there is when the places in V have been copied and nothing else, but *)
(* for the contents of those in X.                                          *)
Holds(t, V, X) ==
  /\ \A r \in V : /\ D \o r \in DOMAIN t /\ t[D \o r].kind = Source(r).kind
                  /\ t[D \o r] = Copied(r) \/ D \o r \in X
  /\ \A x \in DOMAIN t : x \in DOMAIN before \/ \E r \in V : x = D \o r
Copying(t, s, w, d, V, c) ==
  /\ V \in SUBSET Inner /\ <<>> \in V /\ Upward(V) /\ (s # <<>> => d = Cost(V))
  /\ Holds(t, V, c \cup Pending(w)) /\ Tracked(s, V) /\ Waiting(s, V, V)
Result(t, s, w, d, u, c) ==
  /\ u = "running" => \E V : Copying(t, s, w, d, V, c)
  /\ u = "done" => \A r \in Inner : D \o r \in DOMAIN t /\ (t[D \o r] = Copied(r) \/ D \o r \in c)
  /\ u = "exit" => Needed > MAXFD
Lasting == S \in Path /\ D \in Path /\ Onto(before) \in Path /\ From(before) \in Path /\ TreeOK(before)
           /\ PATH_MAX \in Nat /\ MAXFD \in Nat

LEMMA HoldsPut ==
  ASSUME NEW t, NEW V, NEW X, NEW Y, Holds(t, V, X), NEW q, \A r \in V : D \o r = D \o q => r = q,
         NEW node, node.kind = Source(q).kind, node = Copied(q) \/ D \o q \in Y, X \ {D \o q} \subseteq Y
  PROVE  Holds(Put(t, D \o q, node), V \cup {q}, Y)
<1> DEFINE v == Put(t, D \o q, node)
<1>1. /\ DOMAIN v = DOMAIN t \cup {D \o q} /\ v[D \o q] = node
      /\ \A x \in DOMAIN t : x # D \o q => v[x] = t[x]
  BY DEF Put
<1> HIDE DEF v
<1>2. ASSUME NEW r \in V \cup {q}
      PROVE  D \o r \in DOMAIN v /\ v[D \o r].kind = Source(r).kind /\ (v[D \o r] = Copied(r) \/ D \o r \in Y)
  <2>1. CASE r = q BY <1>1, <2>1
  <2>2. CASE r # q
    <3>1. r \in V /\ D \o r # D \o q BY <2>2
    <3>2. D \o r \in DOMAIN t /\ t[D \o r].kind = Source(r).kind /\ (t[D \o r] = Copied(r) \/ D \o r \in X)
      BY <3>1 DEF Holds
    <3>3. v[D \o r] = t[D \o r] BY <1>1, <3>1, <3>2
    <3> QED BY <1>1, <3>1, <3>2, <3>3
  <2> QED BY <2>1, <2>2
<1>3. \A x \in DOMAIN v : x \in DOMAIN before \/ \E r \in V \cup {q} : x = D \o r BY <1>1 DEF Holds
<1> QED BY <1>2, <1>3 DEF Holds, v

(* With no conflict, a place not yet copied is free, or has what may be       *)
(* copied over.                                                             *)
LEMMA PlaceFree ==
  ASSUME Lasting, ~Conflict, NEW t, TreeOK(t), NEW X, Mixed(t, X),
         NEW V \in SUBSET Inner, Holds(t, V, X), NEW q \in Inner, q \notin V,
         D \o q \notin DOMAIN t => Node(t, Front(D \o q), "dir")
  PROVE  /\ D \o q \in DOMAIN t =>
              Source(q).kind # "link" /\ t[D \o q].kind = Source(q).kind
              /\ (Source(q) = Directory => t[D \o q] = Directory)
         /\ D \o q \notin DOMAIN t => Addable(t, D \o q, Onto(before) \o q)
         /\ \A r \in V : D \o r = D \o q => r = q
<1> USE DEF Lasting
<1>1. q \in Path /\ V \subseteq Path BY InnerIs
<1>2. \A r \in V : D \o r = D \o q => r = q BY <1>1, JoinedSame
<1>3. /\ D \o q \in DOMAIN before => Source(q).kind # "link" /\ Source(q).kind = before[D \o q].kind
      /\ ~(Len(Onto(before) \o q) > PATH_MAX)
  BY DEF Conflict
<1>4. ASSUME D \o q \in DOMAIN t
      PROVE  /\ Source(q).kind # "link" /\ t[D \o q].kind = Source(q).kind
             /\ Source(q) = Directory => t[D \o q] = Directory
  <2>1. D \o q \in DOMAIN before BY <1>2, <1>4 DEF Holds
  <2>2. Source(q).kind # "link" /\ Source(q).kind = before[D \o q].kind BY <1>3, <2>1
  <2>3. t[D \o q] = before[D \o q] \/ \E r \in Inner : D \o q = D \o r /\ t[D \o q].kind = Source(r).kind
    BY <1>4 DEF Mixed
  <2>4. \A r \in Inner : D \o q = D \o r => r = q BY <1>1, InnerIs, JoinedSame
  <2>5. t[D \o q].kind = Source(q).kind BY <2>2, <2>3, <2>4
  <2>6. t[D \o q].kind = "dir" => t[D \o q] = Directory BY <1>4, Kinds
  <2>7. Directory.kind = "dir" BY DEF Directory
  <2> QED BY <2>2, <2>5, <2>6, <2>7
<1>5. ASSUME D \o q \notin DOMAIN t PROVE Addable(t, D \o q, Onto(before) \o q)
  <2>1. D \o q # <<>> BY <1>5 DEF TreeOK, Node
  <2>2. Len(Onto(before) \o q) \in Nat
    <3>1. Onto(before) \o q \in Path BY <1>1, Joined
    <3> QED BY <3>1, LenProperties DEF Path
  <2>3. Len(Onto(before) \o q) <= PATH_MAX BY <1>3, <2>2
  <2> QED BY <1>5, <2>1, <2>3 DEF Addable
<1> QED BY <1>2, <1>4, <1>5

LEMMA HoldsMade ==
  ASSUME Lasting, ~Conflict, NEW t, TreeOK(t), NEW X, Mixed(t, X),
         NEW V \in SUBSET Inner, Holds(t, V, X), NEW q \in Inner, q \notin V,
         D \o q \notin DOMAIN t => Node(t, Front(D \o q), "dir")
  PROVE  /\ Source(q) = Directory \/ Source(q).kind = "link" => Holds(Built(t, q, TRUE), V \cup {q}, X)
         /\ Source(q).kind = "link" => D \o q \notin DOMAIN t
         /\ Source(q).kind = "file" =>
              Takes(t, q, TRUE) /\ Holds(Put(t, D \o q, File("empty")), V \cup {q}, X \cup {D \o q})
<1>1. /\ D \o q \in DOMAIN t =>
              Source(q).kind # "link" /\ t[D \o q].kind = Source(q).kind
              /\ (Source(q) = Directory => t[D \o q] = Directory)
      /\ D \o q \notin DOMAIN t => Addable(t, D \o q, Onto(before) \o q)
      /\ \A r \in V : D \o r = D \o q => r = q
  BY PlaceFree
<1>2. Holds(Put(t, D \o q, Copied(q)), V \cup {q}, X)
  <2>1. X \ {D \o q} \subseteq X /\ Copied(q).kind = Source(q).kind BY CopiedKind
  <2> QED BY <1>1, <2>1, HoldsPut
<1>3. ASSUME Source(q) = Directory \/ Source(q).kind = "link" PROVE Holds(Built(t, q, TRUE), V \cup {q}, X)
  <2>1. CASE D \o q \notin DOMAIN t BY <1>1, <1>2, <2>1 DEF Built, Added
  <2>2. CASE D \o q \in DOMAIN t
    <3>1. Built(t, q, TRUE) = t BY <2>2 DEF Built, Added, Addable
    <3>2. Source(q) = Directory /\ t[D \o q] = Directory BY <1>1, <1>3, <2>2
    <3>3. Copied(q) = Directory
      <4>1. Directory.kind # "link" BY DEF Directory
      <4> QED BY <3>2, <4>1 DEF Copied
    <3>4. Holds(t, V \cup {q}, X) BY <2>2, <3>2, <3>3 DEF Holds
    <3> QED BY <3>1, <3>4
  <2> QED BY <2>1, <2>2
<1>4. ASSUME Source(q).kind = "file"
      PROVE  Takes(t, q, TRUE) /\ Holds(Put(t, D \o q, File("empty")), V \cup {q}, X \cup {D \o q})
  <2>1. Takes(t, q, TRUE) BY <1>1, <1>4 DEF Takes, Node
  <2>2. File("empty").kind = Source(q).kind BY <1>4 DEF File
  <2>3. X \ {D \o q} \subseteq X \cup {D \o q} /\ D \o q \in X \cup {D \o q} OBVIOUS
  <2>4. Holds(Put(t, D \o q, File("empty")), V \cup {q}, X \cup {D \o q}) BY <1>1, <2>2, <2>3, HoldsPut
  <2> QED BY <2>1, <2>4
<1> QED BY <1>1, <1>3, <1>4

(* A directory is opened without a conflict.                                *)
LEMMA NoWayIn ==
  ASSUME Lasting, ~Conflict, Is(before, f1, "dir"), NEW q \in Inner
  PROVE  ~IsStrictPrefix(From(before) \o q, Onto(before) \o q) /\ ~(Len(From(before) \o q) > PATH_MAX)
<1> USE DEF Lasting
<1> DEFINE a == From(before)
           b == Onto(before)
<1>1. q \in Path /\ a \in Path /\ b \in Path BY InnerIs
<1>2. ~(Len(a \o q) > PATH_MAX) /\ ~IsStrictPrefix(a, b) BY DEF Conflict
<1> HIDE DEF a, b
<1>3. a \o q \in Path /\ b \o q \in Path BY <1>1, Joined
<1>4. ASSUME IsPrefix(a \o q, b \o q), a \o q # b \o q PROVE FALSE
  <2>1. IsPrefix(a, a \o q) /\ IsPrefix(b, b \o q) BY <1>1, PrefixJoined
  <2>2. IsPrefix(a, b \o q) BY <1>1, <1>3, <1>4, <2>1, PrefixOn
  <2>3. IsPrefix(a, b) \/ IsPrefix(b, a) BY <1>1, <1>3, <2>1, <2>2, PrefixLine
  <2>4. a # b BY <1>4
  <2>5. IsPrefix(b, a) BY <1>2, <2>3, <2>4 DEF IsStrictPrefix
  <2>6. PICK w \in Path : a = b \o w BY <1>1, <2>5, PrefixIs
  <2>7. PICK v \in Path : b \o q = (a \o q) \o v BY <1>3, <1>4, PrefixIs
  <2>8. Len(a) = Len(b) + Len(w) /\ Len(b \o q) = Len(b) + Len(q) /\ Len(a \o q) = Len(a) + Len(q)
        /\ Len((a \o q) \o v) = Len(a \o q) + Len(v)
        /\ Len(b) \in Nat /\ Len(q) \in Nat /\ Len(w) \in Nat /\ Len(v) \in Nat
    BY <1>1, <1>3, <2>6, Joined
  <2>9. Len(w) = 0 BY <2>7, <2>8
  <2>10. w = <<>> BY <2>9, EmptySeq DEF Path
  <2>11. a = b BY <1>1, <2>6, <2>10, JoinedEmpty
  <2> QED BY <2>4, <2>11
<1> QED BY <1>2, <1>4 DEF IsStrictPrefix, a, b

(* A directory opened, a file or a link copied: the next of the places.      *)
Placed(t, V, q, c) ==
  /\ Lasting /\ ~Conflict /\ IsFiniteSet(Inner) /\ TreeOK(t) /\ Mixed(t, c)
  /\ V \in SUBSET Inner /\ Holds(t, V, c) /\ q \in Inner /\ q \notin V /\ <<>> \in V \cup {q}
  /\ D \o q \notin DOMAIN t => Node(t, Front(D \o q), "dir")
Noted(s, V, q) == Upward(V \cup {q}) /\ Tracked(s, V \cup {q}) /\ Waiting(s, V \cup {q}, V)
Fine(st) ==
  \E t, s, w, d, u, c : st = State(t, s, w, d, u, c, TRUE) /\ Result(t, s, w, d, u, c)
Openable(t, V, q, c, s, d) ==
  /\ Placed(t, V, q, c) /\ Is(before, f1, "dir") /\ Grows(before, t) /\ Source(q) = Directory
  /\ Final(t, From(before) \o q) = S \o q /\ Node(t, S \o q, "dir")
  /\ D \o q \notin DOMAIN t => D \o q \in Plain
  /\ s \in Seq(Frames) /\ Upward(V) /\ Noted(s, V, q) /\ d = Cost(V)
Copiable(t, V, q, c, s, d) ==
  /\ Placed(t, V, q, c) /\ Source(q).kind \in {"file", "link"}
  /\ d \in Nat /\ (Source(q).kind = "file" /\ d + 2 > MAXFD => Needed > MAXFD)
  /\ (s # <<>> => d = Cost(V)) /\ Noted(s, V, q)

LEMMA BuiltIs ==
  ASSUME NEW t, TreeOK(t), NEW q, Source(q) = Directory, D \o q \notin DOMAIN t => D \o q \in Plain
  PROVE  TreeOK(Built(t, q, TRUE)) /\ Grows(t, Built(t, q, TRUE))
<1>1. Copied(q) = Directory /\ NodeOK(Directory)
  <2>1. Directory.kind # "link" BY DEF Directory
  <2> QED BY <2>1 DEF Copied, NodeOK
<1>2. CASE Addable(t, D \o q, Onto(before) \o q)
  <2>1. Built(t, q, TRUE) = Put(t, D \o q, Directory) BY <1>1, <1>2 DEF Built, Added
  <2> QED BY <1>1, <1>2, <2>1, PutNew DEF Addable
<1>3. CASE ~Addable(t, D \o q, Onto(before) \o q)
  <2>1. Built(t, q, TRUE) = t BY <1>3 DEF Built, Added
  <2> QED BY <2>1 DEF Grows
<1> QED BY <1>2, <1>3

LEMMA WellOpens ==
  ASSUME NEW t, NEW V, NEW q, NEW c, NEW s, NEW d, Openable(t, V, q, c, s, d)
  PROVE  Fine(Opens(t, s, d, q, c, TRUE))
<1> USE DEF Lasting, Placed, Noted, Openable
<1> DEFINE a == From(before) \o q
           b == Onto(before) \o q
           v == Built(t, q, TRUE)
           e == Frame(a, b, v)
           W == V \cup {q}
<1>1. q \in Path /\ a \in Path /\ b \in Path /\ W \in SUBSET Path /\ W \in SUBSET Inner BY InnerIs, Joined
<1>2. Holds(v, W, c) BY HoldsMade
<1>3. TreeOK(v) /\ Grows(t, v) BY BuiltIs
<1>4. ~IsStrictPrefix(a, b) /\ ~(Len(a) > PATH_MAX) BY NoWayIn
<1>5. Cost(V) \in Nat /\ Cost(Inner) \in Nat /\ Cost(W) = Cost(V) + 1 /\ Cost(V) + 1 <= Cost(Inner)
  <2>1. Source(q).kind = "dir" BY DEF Directory
  <2> QED BY <2>1, CostMore
<1>6. Opens(t, s, d, q, c, TRUE) =
        IF IsStrictPrefix(a, b) \/ d = MAXFD \/ Len(a) > PATH_MAX THEN State(v, <<>>, <<>>, d, "exit", c, TRUE)
        ELSE State(v, Append(s, e), <<>>, d + 1, "running", c, TRUE)
  BY Zenon DEF Opens
<1>7. e \in Frames /\ e.src = a /\ e.seen = {} /\ e.must = Names(v, a)
  <2>1. Names(v, a) \subseteq Name BY <1>1, <1>3, NamesIs
  <2> QED BY <1>1, <2>1 DEF Frame, Frames
<1>8. Final(v, a) = S \o q BY <1>1, <1>3, FinalStays
<1> HIDE DEF a, b, v, e, W
<1>9. CASE d = MAXFD
  <2>1. Needed > MAXFD
    <3>1. Needed = Cost(Inner) BY DEF Needed, Cost, Kinded, Count
    <3> QED BY <1>5, <1>9, <3>1
  <2>2. Opens(t, s, d, q, c, TRUE) = State(v, <<>>, <<>>, d, "exit", c, TRUE) BY <1>6, <1>9
  <2>3. Result(v, <<>>, <<>>, d, "exit", c) BY <2>1 DEF Result
  <2> QED BY <2>2, <2>3, Zenon DEF Fine
<1>10. CASE d # MAXFD
  <2>1. Opens(t, s, d, q, c, TRUE) = State(v, Append(s, e), <<>>, d + 1, "running", c, TRUE) BY <1>4, <1>6, <1>10
  <2>2. \A n \in Name : Append(q, n) \notin W
    <3> SUFFICES ASSUME NEW n \in Name, Append(q, n) \in V \cup {q} PROVE FALSE BY DEF W
    <3>1. Append(q, n) # q BY <1>1, PrefixMore
    <3> QED BY <1>1, <3>1 DEF Upward
  <2>3. \A n \in Name : Append(q, n) \in Inner => n \in e.must
    <3> SUFFICES ASSUME NEW n \in Name, Append(q, n) \in Inner PROVE n \in Names(v, a) BY <1>7
    <3>1. S \o Append(q, n) \in DOMAIN before BY InnerIs
    <3>2. Append(S \o q, n) \in DOMAIN before BY <1>1, <3>1, JoinedMore
    <3>3. Append(S \o q, n) \in DOMAIN v BY <1>3, <3>2 DEF Grows
    <3> QED BY <1>1, <1>3, <1>8, <3>3, NamesIs
  <2>4. Tracked(Append(s, e), W) /\ Waiting(Append(s, e), W, W)
    <3>1. W \ {q} = V BY DEF W
    <3>2. q \in W /\ Tracked(s, W) /\ Waiting(s, W, W \ {q}) BY <3>1 DEF W
    <3>3. e.src = From(before) \o q BY <1>7 DEF a
    <3> QED BY <1>1, <1>7, <2>2, <2>3, <3>2, <3>3, TrackedMore
  <2>5. Copying(v, Append(s, e), <<>>, d + 1, W, c)
    <3>1. <<>> \in W /\ Upward(W) BY DEF W
    <3>2. d + 1 = Cost(W) BY <1>5
    <3>3. Holds(v, W, c \cup Pending(<<>>))
      <4>1. c \cup Pending(<<>>) = c BY DEF Pending
      <4> QED BY <1>2, <4>1
    <3> QED BY <1>1, <2>4, <3>1, <3>2, <3>3 DEF Copying
  <2>6. Result(v, Append(s, e), <<>>, d + 1, "running", c) BY <2>5 DEF Result
  <2> QED BY <2>1, <2>6, Zenon DEF Fine
<1> QED BY <1>9, <1>10

(* Nothing is below a file or a link: nothing more waits once it is copied.  *)
LEMMA WellAfter ==
  ASSUME Lasting, NEW v, NEW V, NEW q, q \in Inner, V \in SUBSET Inner, <<>> \in V \cup {q}, Source(q).kind # "dir",
         NEW s, Noted(s, V, q), NEW w, NEW d, NEW c, Holds(v, V \cup {q}, c \cup Pending(w)),
         s # <<>> => d = Cost(V \cup {q})
  PROVE  /\ Result(v, s, w, d, "running", c)
         /\ w = <<>> => Result(v, s, w, d, After(s, "running"), c)
<1> USE DEF Lasting, Noted
<1> DEFINE W == V \cup {q}
<1>1. q \in Path /\ W \in SUBSET Path /\ W \in SUBSET Inner BY InnerIs
<1>2. Waiting(s, W, W)
  <2> SUFFICES ASSUME NEW n \in Name, Append(q, n) \in Inner PROVE FALSE BY DEF Waiting
  <2>1. IsPrefix(q, Append(q, n)) /\ q # Append(q, n) BY <1>1, PrefixMore
  <2>2. Source(q) = Directory BY <1>1, <2>1, InnerUp
  <2> QED BY <2>2 DEF Directory
<1>3. <<>> \in W /\ Upward(W) /\ Tracked(s, W) /\ Holds(v, W, c \cup Pending(w)) /\ (s # <<>> => d = Cost(W)) OBVIOUS
<1> HIDE DEF W
<1>4. Copying(v, s, w, d, W, c) BY <1>1, <1>2, <1>3 DEF Copying
<1>5. Result(v, s, w, d, "running", c) BY <1>4 DEF Result
<1>6. ASSUME w = <<>> PROVE Result(v, s, w, d, After(s, "running"), c)
  <2>1. CASE s = <<>>
    <3>1. Inner \subseteq W BY <1>1, <1>2, <1>3, <2>1, TrackedEnd
    <3>2. c \cup Pending(w) = c BY <1>6 DEF Pending
    <3>3. \A r \in Inner : D \o r \in DOMAIN v /\ (v[D \o r] = Copied(r) \/ D \o r \in c)
      BY <1>3, <3>1, <3>2 DEF Holds
    <3>4. After(s, "running") = "done" BY <2>1 DEF After
    <3> QED BY <3>3, <3>4 DEF Result
  <2>2. CASE s # <<>>
    <3>1. After(s, "running") = "running" BY <2>2 DEF After
    <3> QED BY <1>5, <3>1
  <2> QED BY <2>1, <2>2
<1> QED BY <1>5, <1>6

LEMMA WellCopies ==
  ASSUME NEW t, NEW V, NEW q, NEW c, NEW s, NEW d, Copiable(t, V, q, c, s, d)
  PROVE  Fine(Copies(t, s, d, q, c, TRUE))
<1> USE DEF Placed, Copiable
<1>1. S # D BY DEF Conflict
<1>2. /\ Source(q).kind = "link" => D \o q \notin DOMAIN t /\ Holds(Built(t, q, TRUE), V \cup {q}, c)
      /\ Source(q).kind = "file" =>
           Takes(t, q, TRUE) /\ Holds(Put(t, D \o q, File("empty")), V \cup {q}, c \cup {D \o q})
  BY HoldsMade
<1>3. CASE Source(q).kind = "link"
  <2>1. Copies(t, s, d, q, c, TRUE) = State(Built(t, q, TRUE), s, <<>>, d, After(s, "running"), c, TRUE)
    BY <1>2, <1>3, Zenon DEF Copies
  <2>2. s # <<>> => d = Cost(V \cup {q}) BY <1>3, CostMore
  <2>3. Holds(Built(t, q, TRUE), V \cup {q}, c \cup Pending(<<>>))
    <3>1. c \cup Pending(<<>>) = c BY DEF Pending
    <3> QED BY <1>2, <1>3, <3>1
  <2>4. Result(Built(t, q, TRUE), s, <<>>, d, After(s, "running"), c)
    <3> DEFINE w == <<>>
    <3>1. Source(q).kind # "dir" /\ Holds(Built(t, q, TRUE), V \cup {q}, c \cup Pending(w)) /\ w = <<>> BY <1>3, <2>3
    <3> HIDE DEF w
    <3>2. Result(Built(t, q, TRUE), s, w, d, After(s, "running"), c) BY <2>2, <3>1, WellAfter
    <3> QED BY <3>1, <3>2
  <2> QED BY <2>1, <2>4, Zenon DEF Fine
<1>4. CASE Source(q).kind = "file"
  <2>0. Source(q).kind # "link" /\ Source(q).kind # "dir" BY <1>4
  <2>1. CASE d + 2 > MAXFD
    <3>1. Copies(t, s, d, q, c, TRUE) = State(t, <<>>, <<>>, d, "exit", c, TRUE) BY <2>0, <2>1, Zenon DEF Copies
    <3>2. Result(t, <<>>, <<>>, d, "exit", c) BY <1>4, <2>1 DEF Result
    <3> QED BY <3>1, <3>2, Zenon DEF Fine
  <2>2. CASE ~(d + 2 > MAXFD)
    <3> DEFINE v == Put(t, D \o q, File("empty"))
               w == <<S \o q, D \o q>>
    <3>1. Copies(t, s, d, q, c, TRUE) = State(v, s, w, d + 2, "running", c, TRUE)
      BY <1>1, <1>2, <1>4, <2>0, <2>2, Zenon DEF Copies
    <3>2. s # <<>> => d + 2 = Cost(V \cup {q}) BY <1>4, CostMore
    <3>3. Holds(v, V \cup {q}, c \cup Pending(w))
      <4>1. Pending(w) = {D \o q} BY DEF Pending
      <4> QED BY <1>2, <1>4, <4>1
    <3> HIDE DEF v, w
    <3>4. Result(v, s, w, d + 2, "running", c)
      <4> DEFINE e == d + 2
      <4>1. s # <<>> => e = Cost(V \cup {q}) BY <3>2
      <4> HIDE DEF e
      <4>2. Result(v, s, w, e, "running", c) BY <2>0, <3>3, <4>1, WellAfter
      <4> QED BY <4>2 DEF e
    <3> QED BY <3>1, <3>4, Zenon DEF Fine
  <2> QED BY <2>1, <2>2
<1> QED BY <1>3, <1>4

(* The start, a turn of the loop, and the end of a directory.               *)
LEMMA Ground ==
  ASSUME Sane, Exists(before, f1)
  PROVE  Lasting /\ IsFiniteSet(Inner)
<1>1. before \in Trees /\ typed \in Arguments BY DEF Sane
<1>2. Lasting BY <1>1, Given, Start DEF Lasting
<1>3. IsFiniteSet(DOMAIN before) BY <1>1, Given
<1> QED BY <1>2, <1>3, InnerFinite DEF Lasting

LEMMA RoomIs ==
  ASSUME NEW t, NEW s, NEW d, NEW q, NEW c, NEW m \in BOOLEAN, ~full',
         Becomes(Opens(t, s, d, q, c, m)) \/ Becomes(Copies(t, s, d, q, c, m))
  PROVE  m
<1>1. \E t2, s2, w2, d2, u2, c2 : Opens(t, s, d, q, c, m) = State(t2, s2, w2, d2, u2, c2, m) BY Zenon DEF Opens
<1>2. \E t2, s2, w2, d2, u2, c2 : Copies(t, s, d, q, c, m) = State(t2, s2, w2, d2, u2, c2, m) BY Zenon DEF Copies
<1>3. PICK t2, s2, w2, d2, u2, c2 : Becomes(State(t2, s2, w2, d2, u2, c2, m)) BY <1>1, <1>2
<1>4. full' = (full \/ ~m) BY <1>3, BecomesIs
<1>5. m \in BOOLEAN => m BY <1>4
<1> QED BY <1>5

(* Before anything is copied.                                               *)
LEMMA WellGround ==
  ASSUME Sane, Exists(before, f1), ~Conflict, NEW c
  PROVE  /\ Placed(before, {}, <<>>, c) /\ Noted(<<>>, {}, <<>>) /\ Upward({}) /\ Cost({}) = 0
         /\ <<>> \in Seq(Frames) /\ (D \o <<>> \notin DOMAIN before /\ Is(before, f1, "dir") => D \o <<>> \in Plain)
<1>1. Lasting /\ IsFiniteSet(Inner) BY Ground
<1>2. TreeOK(before) /\ <<>> \in Inner /\ D \o <<>> = D BY Start
<1>3. Mixed(before, c) /\ Holds(before, {}, c) BY DEF Mixed, Holds
<1>4. Node(before, Front(D), "dir") BY DEF Conflict
<1>5. Cost({}) = 0
  <2>1. Kinded({}, "dir") = {} /\ Kinded({}, "file") = {} BY DEF Kinded
  <2>2. Cardinality({}) = 0 BY FS_EmptySet
  <2>3. Cost({}) = Cardinality({}) + 2 * Cardinality({}) BY <2>1, Zenon DEF Cost
  <2> QED BY <2>2, <2>3
<1>6. Upward({}) /\ Upward({} \cup {<<>>}) BY Longer DEF Upward
<1>7. 1..Len(<<>>) = {} /\ <<>> \in Seq(Frames) BY EmptySeq
<1>8. Tracked(<<>>, {} \cup {<<>>}) /\ Waiting(<<>>, {} \cup {<<>>}, {}) BY <1>7 DEF Tracked, Waiting
<1>9. ASSUME D \notin DOMAIN before, Is(before, f1, "dir") PROVE D \in Plain
  <2>1. D = Real(before, Stem(Onto(before))) BY <1>9, Settled DEF Sane
  <2>2. Stem(Onto(before)) \in Path BY <1>1, StemType DEF Lasting
  <2>3. D # <<>> BY <1>2, <1>9 DEF TreeOK, Node
  <2> QED BY <1>2, <1>4, <1>9, <2>1, <2>2, <2>3, NewPlace
<1>10. Placed(before, {}, <<>>, c)
  <2>1. <<>> \notin {} /\ <<>> \in {} \cup {<<>>} /\ {} \in SUBSET Inner OBVIOUS
  <2>2. D \o <<>> \notin DOMAIN before => Node(before, Front(D \o <<>>), "dir") BY <1>2, <1>4
  <2> QED BY <1>1, <1>2, <1>3, <2>1, <2>2, Zenon DEF Placed
<1>11. Noted(<<>>, {}, <<>>) BY <1>6, <1>8, Zenon DEF Noted
<1> QED BY <1>2, <1>5, <1>6, <1>7, <1>9, <1>10, <1>11

LEMMA SomeSource ==
  ASSUME Sane, ~Conflict
  PROVE  Exists(before, f1)
<1>1. before \in Trees /\ typed \in Arguments BY DEF Sane
<1>2. TreeOK(before) /\ f1 \in Path BY <1>1, Given
<1>3. S \in Path BY <1>2, RealIs DEF S
<1>4. PICK r \in Inner : TRUE BY DEF Conflict
<1>5. r \in Path /\ S \o r \in DOMAIN before BY <1>2, <1>3, InnerIs
<1>6. IsPrefix(S, S \o r) BY <1>3, <1>5, PrefixJoined
<1>7. S \in DOMAIN before BY <1>2, <1>3, <1>5, <1>6, Above
<1> QED BY <1>7 DEF Exists, S

LEMMA WellStart ==
  ASSUME Sane, Apart, ~Conflict, MyRcp, ~full'
  PROVE  \E t, s, w, d, u, c, m : Becomes(State(t, s, w, d, u, c, m)) /\ Result(t, s, w, d, u, c)
<1> DEFINE k == Levels(before, f2, Last(f1))
           none == {}
           s0 == <<>>
           q0 == <<>>
<1>0. ~Linked BY DEF Apart
<1>1. PICK g \in BOOLEAN :
        \/ /\ Becomes(State(before, <<>>, <<>>, 0, "exit", cut, g))
           /\ \/ ~Exists(before, f1)
              \/ Is(before, f1, "dir") /\ Exists(before, f2) /\ ~Is(before, f2, "dir")
              \/ Exists(before, f1) /\ ~Is(before, f1, "dir") /\ k \in Nat /\ k > MAXFD
        \/ /\ Exists(before, f1) /\ ~Is(before, f1, "dir") /\ k \in Nat /\ ~(k > MAXFD)
           /\ Source(q0).kind \in {"file", "link"}
           /\ Becomes(Copies(before, s0, k, q0, cut, g))
        \/ /\ Is(before, f1, "dir") /\ (Exists(before, f2) => Is(before, f2, "dir"))
           /\ Source(q0) = Directory
           /\ Becomes(Opens(before, s0, 0, q0, cut, g))
  BY <1>0, StartMakes
<1>2. Exists(before, f1) BY SomeSource
<1>3. /\ Placed(before, none, q0, cut) /\ Noted(s0, none, q0) /\ Upward(none) /\ Cost(none) = 0
      /\ s0 \in Seq(Frames) /\ (D \o q0 \notin DOMAIN before /\ Is(before, f1, "dir") => D \o q0 \in Plain)
  BY <1>2, WellGround
<1>4. ASSUME ~Is(before, f1, "dir"), k \in Nat
      PROVE  /\ k > MAXFD => Needed > MAXFD
             /\ Source(q0).kind = "file" /\ k + 2 > MAXFD => Needed > MAXFD
  <2>1. Needed = k + 2 * Cardinality(Kinded(Inner, "file")) BY <1>4 DEF Needed, Count, Kinded
  <2>2. MAXFD \in Nat /\ IsFiniteSet(Inner) /\ <<>> \in Inner BY <1>2, Ground, Start
  <2>3. Kinded(Inner, "file") \in SUBSET Inner BY DEF Kinded
  <2>4. IsFiniteSet(Kinded(Inner, "file")) BY <2>2, <2>3, FS_Subset
  <2>5. Cardinality(Kinded(Inner, "file")) \in Nat BY <2>4, FS_CardinalityType
  <2>6. Source(q0).kind = "file" => Cardinality(Kinded(Inner, "file")) # 0
    <3> SUFFICES ASSUME Source(q0).kind = "file" PROVE Cardinality(Kinded(Inner, "file")) # 0 OBVIOUS
    <3>1. q0 \in Kinded(Inner, "file") BY <2>2 DEF Kinded
    <3> HIDE DEF q0
    <3> QED BY <2>4, <3>1, FS_EmptySet
  <2> HIDE DEF k
  <2> QED BY <1>4, <2>1, <2>2, <2>5, <2>6
<1>5. CASE /\ Becomes(State(before, <<>>, <<>>, 0, "exit", cut, g))
           /\ \/ ~Exists(before, f1)
              \/ Is(before, f1, "dir") /\ Exists(before, f2) /\ ~Is(before, f2, "dir")
              \/ Exists(before, f1) /\ ~Is(before, f1, "dir") /\ k \in Nat /\ k > MAXFD
  <2> HIDE DEF k
  <2>1. ~Is(before, f1, "dir") /\ k \in Nat /\ k > MAXFD BY <1>2, <1>5 DEF Conflict
  <2>2. Needed > MAXFD BY <1>4, <2>1
  <2>3. Result(before, <<>>, <<>>, 0, "exit", cut) BY <2>2 DEF Result
  <2> QED BY <1>5, <2>3, Zenon
<1> HIDE DEF k, none, s0, q0
<1>6. CASE /\ Exists(before, f1) /\ ~Is(before, f1, "dir") /\ k \in Nat /\ ~(k > MAXFD)
           /\ Source(q0).kind \in {"file", "link"}
           /\ Becomes(Copies(before, s0, k, q0, cut, g))
  <2>1. g BY <1>6, RoomIs
  <2>2. s0 # <<>> => k = Cost(none) BY DEF s0
  <2>3. Fine(Copies(before, s0, k, q0, cut, TRUE))
    <3>1. Copiable(before, none, q0, cut, s0, k) BY <1>3, <1>4, <1>6, <2>2 DEF Copiable
    <3> QED BY <3>1, WellCopies
  <2>4. g = TRUE BY <2>1
  <2> QED BY <1>6, <2>3, <2>4 DEF Fine
<1>7. CASE /\ Is(before, f1, "dir") /\ (Exists(before, f2) => Is(before, f2, "dir"))
           /\ Source(q0) = Directory
           /\ Becomes(Opens(before, s0, 0, q0, cut, g))
  <2>1. g = TRUE BY <1>7, RoomIs
  <2>2. Grows(before, before) BY DEF Grows
  <2>3. Final(before, From(before) \o q0) = S \o q0 /\ Node(before, S \o q0, "dir")
    <3>1. Final(before, From(before)) = S /\ Node(before, S, "dir") BY <1>2, <1>7, Settled DEF Sane
    <3>2. From(before) \o q0 = From(before) /\ S \o q0 = S BY <1>2, Start DEF q0
    <3> QED BY <3>1, <3>2
  <2>4. Fine(Opens(before, s0, 0, q0, cut, TRUE))
    <3>1. Openable(before, none, q0, cut, s0, 0) BY <1>3, <1>7, <2>2, <2>3 DEF Openable
    <3> QED BY <3>1, WellOpens
  <2> QED BY <1>7, <2>1, <2>4 DEF Fine
<1> QED BY <1>1, <1>5, <1>6, <1>7

LEMMA WellEntry ==
  ASSUME Sane, Apart, Mixed(fs, cut), ~Conflict, stack # <<>>, NEW V, Copying(fs, stack, <<>>, fds, V, cut),
         NEW n \in Names(fs, Last(stack).src), n \notin Last(stack).seen, NEW m, m = TRUE
  PROVE  Fine(Entry(Last(stack), n, m))
<1>0. Loose(fs, stack, fds) /\ ~Linked /\ Kept(fs) BY ApartKept DEF Sane, Fit, Apart
<1>1. TreeOK(fs) /\ Stacked(fs, stack) /\ Is(before, f1, "dir") /\ Grows(before, fs) /\ fds \in 0..MAXFD
  BY <1>0 DEF Loose
<1>2. Lasting /\ IsFiniteSet(Inner)
  <2>1. Exists(before, f1) BY <1>1 DEF Is, Node, Exists
  <2> QED BY <2>1, Ground
<1> USE DEF Lasting
<1>3. /\ V \in SUBSET Inner /\ <<>> \in V /\ Upward(V) /\ fds = Cost(V)
      /\ Holds(fs, V, cut) /\ Tracked(stack, V) /\ Waiting(stack, V, V)
  <2>1. cut \cup Pending(<<>>) = cut BY DEF Pending
  <2> QED BY <2>1 DEF Copying
<1>4. PICK r \in Plain :
        /\ n \in Name /\ Append(r, n) \in Inner /\ Len(Append(r, n)) = Len(stack)
        /\ Last(stack).src = From(before) \o r /\ fs[S \o Append(r, n)] = Source(Append(r, n))
        /\ Source(Append(r, n)) = Directory =>
             Entry(Last(stack), n, m) = Opens(fs, Marked(n), fds, Append(r, n), cut, m)
        /\ Source(Append(r, n)) # Directory =>
             /\ Source(Append(r, n)).kind \in {"file", "link"}
             /\ Entry(Last(stack), n, m) = Copies(fs, Marked(n), fds, Append(r, n), cut, m)
  BY <1>0, EntryCopies
<1> DEFINE q == Append(r, n)
           s == Marked(n)
<1>5. stack \in Seq(Frames) /\ Len(stack) \in 1..Len(stack)
  <2>1. stack \in Seq(Frames) BY <1>1 DEF Stacked
  <2>2. Len(stack) \in Nat \ {0} BY <2>1, EmptySeq
  <2> QED BY <2>1, <2>2
<1>6. s \in Seq(Frames) /\ s # <<>> BY <1>4, <1>5, MarkedIs
<1>7. r \in Path /\ V \in SUBSET Path /\ q \in Path BY <1>2, <1>3, <1>4, PlainPath, InnerIs
<1>8. r \in V /\ q \notin V
  <2>1. PICK x \in V : Last(stack).src = From(before) \o x BY <1>3, <1>5 DEF Tracked, Last
  <2>2. x = r BY <1>2, <1>4, <1>7, <2>1, JoinedSame
  <2>3. n \in Last(stack).seen <=> q \in V BY <1>3, <1>4, <1>5, <1>7 DEF Tracked, Last
  <2> QED BY <2>1, <2>2, <2>3
<1>9. Noted(s, V, q) BY <1>1, <1>2, <1>3, <1>4, <1>7, <1>8, TrackedMarked DEF Noted
<1>10. Node(fs, Front(D \o q), "dir") /\ D \o q \in Plain
  <2>1. D \o q = Append(D \o r, n) /\ D \o r \in Path BY <1>2, <1>4, <1>7, JoinedMore, Joined
  <2>2. Front(D \o q) = D \o r BY <1>4, <2>1, Longer
  <2>3. IsPrefix(r, q) /\ r # q BY <1>4, <1>7, PrefixMore
  <2>4. Source(r) = Directory BY <1>2, <1>4, <1>7, <2>3, InnerUp
  <2>5. D \o r \in DOMAIN fs /\ fs[D \o r].kind = Source(r).kind BY <1>3, <1>8 DEF Holds
  <2>6. Directory.kind = "dir" BY DEF Directory
  <2>7. n \in FileName
    <3>1. stack[Len(stack)] \in Frames BY <1>5, ElementOfSeq
    <3>2. Last(stack).src \in Path BY <3>1 DEF Last, Frames
    <3> QED BY <1>1, <3>2, NamesIs
  <2>8. D \o r \in Plain BY <1>1, <2>5, Kinds
  <2> QED BY <2>1, <2>2, <2>4, <2>5, <2>6, <2>7, <2>8, Plains DEF Node
<1>11. Real(fs, From(before) \o q) = S \o q /\ S \o q \in DOMAIN fs
  <2>1. PICK x \in Plain :
          /\ Last(stack).src = From(before) \o x
          /\ Real(fs, From(before) \o Append(x, n)) = S \o Append(x, n) /\ S \o Append(x, n) \in DOMAIN fs
    BY <1>1, <1>2, TopIs
  <2>2. x = r BY <1>2, <1>4, <1>7, <2>1, PlainPath, JoinedSame
  <2> QED BY <2>1, <2>2
<1>12. Placed(fs, V, q, cut) BY <1>1, <1>2, <1>3, <1>4, <1>8, <1>10 DEF Placed
<1> HIDE DEF q, s
<1>13. CASE Source(q) = Directory
  <2>1. Entry(Last(stack), n, m) = Opens(fs, s, fds, q, cut, TRUE) BY <1>4, <1>13 DEF q, s
  <2>2. Node(fs, S \o q, "dir")
    <3>1. Directory.kind = "dir" BY DEF Directory
    <3> QED BY <1>4, <1>11, <1>13, <3>1 DEF Node, q
  <2>3. Final(fs, From(before) \o q) = S \o q BY <1>11, <2>2, Straight DEF Final, Node
  <2>4. Openable(fs, V, q, cut, s, fds) BY <1>1, <1>3, <1>6, <1>9, <1>10, <1>12, <1>13, <2>2, <2>3 DEF Openable, q, s
  <2>5. Fine(Opens(fs, s, fds, q, cut, TRUE)) BY <2>4, WellOpens
  <2> QED BY <2>1, <2>5
<1>14. CASE Source(q) # Directory
  <2>1. Entry(Last(stack), n, m) = Copies(fs, s, fds, q, cut, TRUE) /\ Source(q).kind \in {"file", "link"}
    BY <1>4, <1>14 DEF q, s
  <2>2. Source(q).kind = "file" /\ fds + 2 > MAXFD => Needed > MAXFD
    <3> SUFFICES ASSUME Source(q).kind = "file", fds + 2 > MAXFD PROVE Needed > MAXFD OBVIOUS
    <3>1. Needed = Cost(Inner) BY <1>1 DEF Needed, Cost, Kinded, Count
    <3>2. Cost(V) + 2 <= Cost(Inner) /\ Cost(V) \in Nat /\ Cost(Inner) \in Nat
      BY <1>2, <1>3, <1>4, <1>8, CostMore DEF q
    <3> QED BY <1>2, <1>3, <3>1, <3>2
  <2>3. Copiable(fs, V, q, cut, s, fds) BY <1>1, <1>3, <1>9, <1>12, <2>1, <2>2 DEF Copiable, q, s
  <2>4. Fine(Copies(fs, s, fds, q, cut, TRUE)) BY <2>3, WellCopies
  <2> QED BY <2>1, <2>4
<1> QED BY <1>13, <1>14

LEMMA WellEnd ==
  ASSUME Sane, stack # <<>>, NEW V, Copying(fs, stack, <<>>, fds, V, cut), Last(stack).must \subseteq Last(stack).seen
  PROVE  Result(fs, Front(stack), <<>>, fds, After(Front(stack), "running"), cut)
<1>0. Loose(fs, stack, fds) BY DEF Sane, Fit
<1>1. stack \in Seq(Frames) /\ Is(before, f1, "dir") BY <1>0 DEF Loose, Stacked
<1>2. Lasting
  <2>1. Exists(before, f1) BY <1>1 DEF Is, Node, Exists
  <2> QED BY <2>1, Ground
<1>3. /\ V \in SUBSET Inner /\ <<>> \in V /\ Upward(V) /\ fds = Cost(V)
      /\ Holds(fs, V, cut) /\ Tracked(stack, V) /\ Waiting(stack, V, V) /\ cut \cup Pending(<<>>) = cut
  <2>1. cut \cup Pending(<<>>) = cut BY DEF Pending
  <2> QED BY <2>1 DEF Copying
<1>4. V \in SUBSET Path BY <1>2, <1>3, InnerIs DEF Lasting
<1>5. Tracked(Front(stack), V) /\ Waiting(Front(stack), V, V) BY <1>1, <1>3, <1>4, TrackedFront
<1>6. CASE Front(stack) = <<>>
  <2>1. Inner \subseteq V BY <1>2, <1>3, <1>4, <1>5, <1>6, TrackedEnd DEF Lasting
  <2>2. \A r \in Inner : D \o r \in DOMAIN fs /\ (fs[D \o r] = Copied(r) \/ D \o r \in cut) BY <1>3, <2>1 DEF Holds
  <2>3. After(Front(stack), "running") = "done" BY <1>6 DEF After
  <2> QED BY <2>2, <2>3 DEF Result
<1>7. CASE Front(stack) # <<>>
  <2>1. Copying(fs, Front(stack), <<>>, fds, V, cut) BY <1>3, <1>5 DEF Copying
  <2>2. After(Front(stack), "running") = "running" BY <1>7 DEF After
  <2> QED BY <2>1, <2>2 DEF Result
<1> QED BY <1>6, <1>7

(* The file written, whole or not.                                          *)
LEMMA WellWritten ==
  ASSUME Lasting, NEW t, NEW s, NEW w, w # <<>>, Job(t, w), w[2] \in DOMAIN t, NEW d, NEW V, NEW c,
         Copying(t, s, w, d, V, c), NEW node, NEW e, node.kind = "file", c \subseteq e,
         node = t[w[1]] \/ w[2] \in e
  PROVE  Result(Put(t, w[2], node), s, <<>>, d, After(s, "running"), e)
<1> USE DEF Lasting
<1> DEFINE v == Put(t, w[2], node)
<1>1. PICK q \in Inner : w = <<S \o q, D \o q>> /\ Source(q).kind = "file" /\ t[S \o q] = Source(q) BY DEF Job
<1>2. w[1] = S \o q /\ w[2] = D \o q /\ Pending(w) = {D \o q}
  <2>1. w[1] = S \o q /\ w[2] = D \o q BY <1>1
  <2> QED BY <2>1 DEF Pending
<1>3. Copied(q) = Source(q) BY <1>1, CopiedKind
<1>4. /\ V \in SUBSET Inner /\ <<>> \in V /\ Upward(V) /\ (s # <<>> => d = Cost(V))
      /\ Holds(t, V, c \cup {D \o q}) /\ Tracked(s, V) /\ Waiting(s, V, V)
  BY <1>2 DEF Copying
<1>5. V \in SUBSET Path /\ q \in Path BY <1>4, InnerIs
<1>6. /\ DOMAIN v = DOMAIN t /\ v[D \o q] = node
      /\ \A x \in DOMAIN t : x # D \o q => v[x] = t[x]
  BY <1>2 DEF Put
<1> HIDE DEF v
<1>7. Holds(v, V, e)
  <2>1. ASSUME NEW r \in V
        PROVE  D \o r \in DOMAIN v /\ v[D \o r].kind = Source(r).kind /\ (v[D \o r] = Copied(r) \/ D \o r \in e)
    <3>1. D \o r \in DOMAIN t /\ t[D \o r].kind = Source(r).kind /\ (t[D \o r] = Copied(r) \/ D \o r \in c \cup {D \o q})
      BY <1>4 DEF Holds
    <3>2. CASE r = q BY <1>1, <1>2, <1>3, <1>6, <3>1, <3>2
    <3>3. CASE r # q
      <4>1. D \o r # D \o q BY <1>5, <3>3, JoinedSame
      <4> QED BY <1>6, <3>1, <4>1
    <3> QED BY <3>2, <3>3
  <2>2. \A x \in DOMAIN v : x \in DOMAIN before \/ \E r \in V : x = D \o r BY <1>4, <1>6 DEF Holds
  <2> QED BY <2>1, <2>2 DEF Holds
<1>8. e \cup Pending(<<>>) = e BY DEF Pending
<1>9. CASE s = <<>>
  <2>1. Inner \subseteq V BY <1>4, <1>5, <1>9, TrackedEnd
  <2>2. \A r \in Inner : D \o r \in DOMAIN v /\ (v[D \o r] = Copied(r) \/ D \o r \in e) BY <1>7, <2>1 DEF Holds
  <2>3. After(s, "running") = "done" BY <1>9 DEF After
  <2> QED BY <2>2, <2>3 DEF Result, v
<1>10. CASE s # <<>>
  <2>1. Copying(v, s, <<>>, d, V, e) BY <1>4, <1>7, <1>8 DEF Copying
  <2>2. After(s, "running") = "running" BY <1>10 DEF After
  <2> QED BY <2>1, <2>2 DEF Result, v
<1> QED BY <1>9, <1>10

LEMMA WellWrite ==
  ASSUME Sane, ~Conflict, Job(fs, writing), Result(fs, stack, writing, fds, status, cut), Write
  PROVE  \E t, s, w, d, u, c, m : Becomes(State(t, s, w, d, u, c, m)) /\ Result(t, s, w, d, u, c)
<1>1. writing # <<>> BY Zenon DEF Write
<1>2. /\ Node(fs, writing[1], "file") /\ writing[2] \in DOMAIN fs /\ status = "running"
  BY <1>1 DEF Sane, Fit, Node
<1>3. Lasting BY SomeSource, Ground
<1>4. PICK V : Copying(fs, stack, writing, fds, V, cut) BY <1>2 DEF Result
<1> DEFINE u == After(stack, "running")
           e == cut \cup {writing[2]}
<1>5. Result(Put(fs, writing[2], fs[writing[1]]), stack, <<>>, fds, u, cut)
  <2>1. fs[writing[1]].kind = "file" BY <1>2 DEF Node
  <2> QED BY <1>1, <1>2, <1>3, <1>4, <2>1, WellWritten
<1>6. Result(Put(fs, writing[2], File("cut")), stack, <<>>, fds, u, e)
  <2>1. File("cut").kind = "file" /\ cut \subseteq e /\ writing[2] \in e BY DEF File
  <2> HIDE DEF e
  <2> QED BY <1>1, <1>2, <1>3, <1>4, <2>1, WellWritten
<1> QED BY <1>2, <1>5, <1>6, WriteIs, Zenon

LEMMA WellNext ==
  ASSUME Sane, Apart, Good(fs, writing, cut), ~Conflict, Next, ~full',
         Result(fs, stack, writing, fds, status, cut)
  PROVE  \E t, s, w, d, u, c, m : Becomes(State(t, s, w, d, u, c, m)) /\ Result(t, s, w, d, u, c)
<1> DEFINE Goal == \E t, s, w, d, u, c, m : Becomes(State(t, s, w, d, u, c, m)) /\ Result(t, s, w, d, u, c)
<1>1. ASSUME stack # <<>>, writing = <<>>
      PROVE  Mixed(fs, cut) /\ \E V : Copying(fs, stack, <<>>, fds, V, cut)
  <2>1. status = "running" BY <1>1 DEF Sane, Fit
  <2>2. cut \cup Pending(<<>>) = cut BY DEF Pending
  <2> QED BY <1>1, <2>1, <2>2 DEF Result, Good
<1> HIDE DEF Goal
<1>2. ASSUME MyRcp PROVE Goal BY <1>2, WellStart DEF Goal
<1>3. ASSUME stack # <<>>, writing = <<>>, NEW n \in Names(fs, Last(stack).src) \ Last(stack).seen,
             NEW g \in BOOLEAN, Becomes(Entry(Last(stack), n, g))
      PROVE  Goal
  <2>1. PICK V : Mixed(fs, cut) /\ Copying(fs, stack, <<>>, fds, V, cut) BY <1>1, <1>3
  <2>2. g = TRUE
    <3>1. ~Linked /\ Kept(fs) BY <1>3, <2>1, ApartKept DEF Apart
    <3>2. PICK q : \/ Entry(Last(stack), n, g) = Opens(fs, Marked(n), fds, q, cut, g)
                   \/ Entry(Last(stack), n, g) = Copies(fs, Marked(n), fds, q, cut, g)
      BY <1>3, <2>1, <3>1, EntryCopies
    <3> QED BY <1>3, <3>2, RoomIs
  <2>3. Fine(Entry(Last(stack), n, g)) BY <1>3, <2>1, <2>2, WellEntry
  <2>4. PICK t, s, w, d, u, c : /\ Entry(Last(stack), n, g) = State(t, s, w, d, u, c, TRUE)
                                /\ Result(t, s, w, d, u, c)
    BY <2>3 DEF Fine
  <2>5. Becomes(State(t, s, w, d, u, c, TRUE)) BY <1>3, <2>4
  <2> QED BY <2>4, <2>5, Zenon DEF Goal
<1>4. ASSUME Write PROVE Goal
  <2>1. Job(fs, writing) BY DEF Good
  <2> QED BY <1>4, <2>1, WellWrite DEF Goal
<1>5. ASSUME stack # <<>>, writing = <<>>, Last(stack).must \subseteq Last(stack).seen,
             Becomes(State(fs, Front(stack), <<>>, fds, After(Front(stack), "running"), cut, TRUE))
      PROVE  Goal
  <2>1. PICK V : Copying(fs, stack, <<>>, fds, V, cut) BY <1>1, <1>5
  <2>2. Result(fs, Front(stack), <<>>, fds, After(Front(stack), "running"), cut) BY <1>5, <2>1, WellEnd
  <2> QED BY <1>5, <2>2, Zenon DEF Goal
<1>6. ReadEntry =>
        /\ stack # <<>> /\ writing = <<>>
        /\ \E n \in Names(fs, Last(stack).src) \ Last(stack).seen, g \in BOOLEAN : Becomes(Entry(Last(stack), n, g))
  BY Zenon DEF ReadEntry
<1>7. EndOfDir => /\ stack # <<>> /\ writing = <<>> /\ Last(stack).must \subseteq Last(stack).seen
                  /\ Becomes(State(fs, Front(stack), <<>>, fds, After(Front(stack), "running"), cut, TRUE))
  BY ReturnedIs, Zenon DEF EndOfDir
<1>8. Goal BY <1>2, <1>3, <1>4, <1>5, <1>6, <1>7, Zenon DEF Next
<1> QED BY <1>8 DEF Goal

LEMMA StillResult ==
  ASSUME typed' = typed, before' = before
  PROVE  (Conflict' <=> Conflict) /\ \A t, s, w, d, u, c : Result(t, s, w, d, u, c) <=> Result(t, s, w, d, u, c)'
<1>1. /\ f1' = f1 /\ f2' = f2 /\ S' = S /\ D' = D /\ Onto(before)' = Onto(before) /\ From(before)' = From(before)
  BY Still
<1>2. Inner' = Inner /\ Links' = Links /\ \A r : Source(r)' = Source(r) /\ Copied(r)' = Copied(r) BY StillInner
<1>3. Conflict' <=> Conflict BY <1>1, <1>2 DEF Conflict
<1>4. \A kind : Count(kind)' = Count(kind) BY <1>2 DEF Count
<1>5. Needed' = Needed BY <1>1, <1>4 DEF Needed
<1>6. \A V : Cost(V)' = Cost(V) BY <1>2 DEF Cost, Kinded
<1>7. \A t, V, X : Holds(t, V, X) <=> Holds(t, V, X)' BY <1>1, <1>2 DEF Holds
<1>8. \A s, V : Tracked(s, V) <=> Tracked(s, V)' BY <1>1, <1>2 DEF Tracked
<1>9. \A s, V, W : Waiting(s, V, W) <=> Waiting(s, V, W)' BY <1>1, <1>2 DEF Waiting
<1>10. \A t, s, w, d, V, c : Copying(t, s, w, d, V, c) <=> Copying(t, s, w, d, V, c)'
  BY <1>2, <1>6, <1>7, <1>8, <1>9 DEF Copying, Upward, Pending
<1>11. \A t, s, w, d, u, c : Result(t, s, w, d, u, c) <=> Result(t, s, w, d, u, c)'
  BY <1>1, <1>2, <1>5, <1>10 DEF Result
<1> QED BY <1>3, <1>11

(* While the device has room for names, a copy that ends well is whole, but   *)
(* for files of which the device did not take all, when there was no         *)
(* conflict; without one it stops half-way for want of descriptors only.     *)
THEOREM WholeOrSaysWhy == Spec => []WholeOrWhy
<1> DEFINE Inv == Sound /\ (Apart /\ ~Conflict /\ ~full => Result(fs, stack, writing, fds, status, cut))
<1>1. Init => Inv
  <2>1. Init => status = "start" BY DEF Init
  <2>2. Init => Result(fs, stack, writing, fds, status, cut) BY <2>1 DEF Result
  <2> QED BY <2>2, SoundInit
<1>2. Inv /\ [Next]_vars => Inv'
  <2> SUFFICES ASSUME Inv, [Next]_vars
               PROVE  (Apart /\ ~Conflict /\ ~full => Result(fs, stack, writing, fds, status, cut))'
    BY SoundNext
  <2>1. typed' = typed /\ before' = before
    BY Zenon DEF Next, MyRcp, ReadEntry, Write, EndOfDir, Becomes, vars
  <2>2. (Apart' <=> Apart) /\ (Conflict' <=> Conflict) BY <2>1, StillInner, StillResult
  <2>3. SUFFICES ASSUME Apart, ~Conflict, ~full' PROVE Result(fs, stack, writing, fds, status, cut)' BY <2>2
  <2>4. ASSUME NEW t, NEW s, NEW w, NEW d, NEW u, NEW c, fs' = t, stack' = s, writing' = w, fds' = d,
               status' = u, cut' = c, Result(t, s, w, d, u, c)
        PROVE  Result(fs, stack, writing, fds, status, cut)'
    <3>1. Result(t, s, w, d, u, c)' BY <2>1, <2>4, StillResult
    <3> QED BY <2>4, <3>1 DEF Result
  <2>5. CASE Next
    <3>1. \E x : full' = (full \/ x)
      BY <2>5, Zenon DEF Next, MyRcp, ReadEntry, Write, EndOfDir, Becomes
    <3>2. ASSUME full PROVE FALSE
      <4>1. PICK x : full' = (full \/ x) BY <3>1
      <4>2. (full \/ x) = TRUE BY <3>2
      <4>3. full' = TRUE BY <4>1, <4>2, Zenon
      <4> QED BY <2>3, <4>3, Zenon
    <3>3. Sane /\ Good(fs, writing, cut) /\ Result(fs, stack, writing, fds, status, cut)
      BY <2>3, <3>2 DEF Sound
    <3>4. PICK t, s, w, d, u, c, m : Becomes(State(t, s, w, d, u, c, m)) /\ Result(t, s, w, d, u, c)
      BY <2>3, <2>5, <3>3, WellNext
    <3>5. fs' = t /\ stack' = s /\ writing' = w /\ fds' = d /\ status' = u /\ cut' = c BY <3>4, BecomesIs
    <3> QED BY <2>4, <3>4, <3>5
  <2>6. CASE UNCHANGED vars
    <3>1. /\ fs' = fs /\ stack' = stack /\ writing' = writing /\ fds' = fds /\ status' = status
          /\ cut' = cut /\ full' = full
      BY <2>6 DEF vars
    <3> QED BY <2>3, <2>4, <3>1
  <2> QED BY <2>5, <2>6
<1>3. Inv => WholeOrWhy BY DEF WholeOrWhy, Result
<1> QED BY <1>1, <1>2, <1>3, PTL DEF Spec
=============================================================================
