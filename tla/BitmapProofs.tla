---------------------------- MODULE BitmapProofs ----------------------------
(***************************************************************************)
(* Proofs about the allocator, for every device size, counter width and    *)
(* number of kills and stray frees: type correctness, exclusive ownership  *)
(* of the numbers no stray free has touched, blocks handed out clean, and  *)
(* how far the free counts may be from the bitmap.                         *)
(***************************************************************************)
EXTENDS Bitmap, FiniteSetTheorems, TLAPS

(* The remainder is in the range of the counter (Inc and Dec wrap). *)
LEMMA ModRange ==
  ASSUME NEW a \in Int, NEW m \in Nat \ {0}
  PROVE  a % m \in 0..m-1
  OBVIOUS

(* So a raised or lowered count stays in its counter. *)
LEMMA CounterRange ==
  ASSUME NEW m \in Nat \ {0}, NEW c \in 0..m-1
  PROVE  Inc(c, m) \in 0..m-1 /\ Dec(c, m) \in 0..m-1
  BY ModRange DEF Inc, Dec

(* The free counts mkfs writes fit their counters: no more numbers can be   *)
(* clear than there are.                                                    *)
LEMMA FreeCountFits ==
  ASSUME NEW k \in Kind
  PROVE  Cardinality(Clear(k)) \in 0..SuperMod-1 /\ Cardinality(Clear(k)) \in 0..GroupMod-1
<1>1. Limit(k) \in Nat /\ Limit(k) < SuperMod /\ Limit(k) < GroupMod
  BY SizeAssumption DEF Limit, Kind
<1>2. IsFiniteSet(Numbers(k)) /\ Cardinality(Numbers(k)) = Limit(k)
  BY <1>1, FS_Interval DEF Numbers
<1>3. Cardinality(Clear(k)) <= Cardinality(Numbers(k)) /\ IsFiniteSet(Clear(k))
  BY <1>2, FS_Subset DEF Clear
<1>4. Cardinality(Clear(k)) \in Nat
  BY <1>3, FS_CardinalityType
<1> QED BY <1>1, <1>2, <1>3, <1>4, SizeAssumption

-----------------------------------------------------------------------------
(* Type correctness: the state the allocator keeps stays in its types.      *)
LEMMA InitType == Init => TypeOK
<1> SUFFICES ASSUME Init PROVE TypeOK OBVIOUS
<1>1. sp \in [Kind -> 0..SuperMod-1] /\ sp \in [Kind -> 0..GroupMod-1]
  BY FreeCountFits DEF Init
<1>2. holders \in [Kind -> [AnyNumber -> Nat]]
  BY DEF Init
<1>3. bits \in [Kind -> SUBSET Nat]
  BY SizeAssumption DEF Init, AnyNumber, Numbers, Limit, Kind
<1> QED BY <1>1, <1>2, <1>3, SizeAssumption DEF Init, TypeOK, Idle

(* What a call in progress looks like. *)
LEMMA NumbersNat == ASSUME NEW k \in Kind PROVE Numbers(k) \subseteq Nat
  BY SizeAssumption DEF Numbers, Limit, Kind

(* A kind's numbers are among all numbers. *)
LEMMA NumbersAny == ASSUME NEW k \in Kind PROVE Numbers(k) \subseteq AnyNumber
  BY DEF AnyNumber, Kind

(* Handing a number to one more holder keeps the table's type. *)
LEMMA HandType ==
  ASSUME NEW k \in Kind, NEW n \in AnyNumber,
         holders \in [Kind -> [AnyNumber -> Nat]], Hand(k, n)
  PROVE  holders' \in [Kind -> [AnyNumber -> Nat]]
<1>1. [holders[k] EXCEPT ![n] = @ + 1] \in [AnyNumber -> Nat]
  OBVIOUS
<1>2. holders' = [holders EXCEPT ![k] = [holders[k] EXCEPT ![n] = @ + 1]]
  BY DEF Hand
<1> QED BY <1>1, <1>2

(* Every step keeps the types. *)
LEMMA StepType == TypeOK /\ [Next]_vars => TypeOK'
<1> SUFFICES ASSUME TypeOK, [Next]_vars PROVE TypeOK' OBVIOUS
<1> USE SizeAssumption
<1>1. ASSUME NEW k \in Kind, Allocate(k) PROVE TypeOK'
  <2>1. PICK n \in Numbers(k) :
          op' = [pc |-> "super", fn |-> "allocate", kind |-> k, num |-> n,
                 buf |-> Marked(k, n)]
    BY <1>1 DEF Allocate
  <2>2. Marked(k, n) \subseteq Numbers(k) /\ Marked(k, n) \subseteq Nat /\ n \in Nat
    BY NumbersNat DEF Marked, TypeOK
  <2>3. op' \in Calls /\ op'.num \in Numbers(op'.kind) /\ op'.buf \subseteq Numbers(op'.kind)
    BY <2>1, <2>2 DEF Calls
  <2>4. sp' \in [Kind -> 0..SuperMod-1] /\ gp' \in [Kind -> 0..GroupMod-1]
    BY <1>1, CounterRange DEF Allocate, TypeOK
  <2> QED BY <1>1, <2>3, <2>4 DEF Allocate, TypeOK, disk
<1>2. ASSUME NEW k \in Kind, NEW n \in Numbers(k), StartDeallocate(k, n)
      PROVE  /\ op' \in Calls /\ op'.num \in Numbers(op'.kind)
             /\ op'.buf \subseteq Numbers(op'.kind)
             /\ sp' \in [Kind -> 0..SuperMod-1] /\ gp' \in [Kind -> 0..GroupMod-1]
  <2>1. n \in Nat /\ bits[k] \ {n} \subseteq Nat /\ bits[k] \ {n} \subseteq Numbers(k)
    BY NumbersNat DEF TypeOK
  <2>2. op' \in Calls /\ op'.num \in Numbers(op'.kind) /\ op'.buf \subseteq Numbers(op'.kind)
    BY <1>2, <2>1 DEF StartDeallocate, Calls
  <2>3. sp' \in [Kind -> 0..SuperMod-1] /\ gp' \in [Kind -> 0..GroupMod-1]
    BY <1>2, CounterRange DEF StartDeallocate, TypeOK
  <2> QED BY <2>2, <2>3
<1>3. ASSUME NEW k \in Kind, NEW n \in Numbers(k), Deallocate(k, n) PROVE TypeOK'
  <2>1. holders' \in [Kind -> [AnyNumber -> Nat]]
    BY <1>3, NumbersAny DEF Deallocate, TypeOK
  <2> QED BY <1>2, <1>3, <2>1 DEF Deallocate, StartDeallocate, TypeOK, disk
<1>4. ASSUME NEW k \in Kind, NEW n \in Numbers(k), StrayFree(k, n) PROVE TypeOK'
  <2>1. exposed' \in [Kind -> SUBSET Nat]
    BY <1>4, NumbersNat DEF StrayFree, TypeOK, Kind
  <2>2. strays' \in 0..MaxStrays
    BY <1>4 DEF StrayFree, TypeOK
  <2> QED BY <1>2, <1>4, <2>1, <2>2 DEF StrayFree, StartDeallocate, TypeOK, disk, Kind
<1>5. CASE PutSuper
  BY <1>5 DEF PutSuper, TypeOK, Calls, Idle
<1>6. CASE PutGroup
  BY <1>6 DEF PutGroup, TypeOK, Calls, Idle
<1>7. CASE PutMap
  <2>1. op \in Calls /\ op.kind \in Kind /\ op.num \in AnyNumber
    BY <1>7, NumbersAny DEF PutMap, TypeOK, Calls
  <2>2. bits' \in [Kind -> SUBSET Nat] /\ \A k \in Kind : bits'[k] \subseteq Numbers(k)
    BY <1>7, <2>1 DEF PutMap, TypeOK, Calls
  <2>3. holders' \in [Kind -> [AnyNumber -> Nat]]
    BY <1>7, <2>1, HandType DEF PutMap, TypeOK
  <2>4. op' \in Calls \cup {Idle}
        /\ (op' # Idle => op'.num \in Numbers(op'.kind) /\ op'.buf \subseteq Numbers(op'.kind))
    BY <1>7, <2>1 DEF PutMap, TypeOK, Calls
  <2> QED BY <1>7, <2>2, <2>3, <2>4 DEF PutMap, TypeOK
<1>8. CASE ClearBlock
  <2>1. op \in Calls /\ op.num \in AnyNumber
    BY <1>8, NumbersAny DEF ClearBlock, TypeOK, Calls
  <2>2. holders' \in [Kind -> [AnyNumber -> Nat]]
    BY <1>8, <2>1, HandType DEF ClearBlock, TypeOK, Kind
  <2>3. content' \in [Numbers("block") -> {"zero", "data"}]
    BY <1>8 DEF ClearBlock, TypeOK
  <2> QED BY <1>8, <2>2, <2>3 DEF ClearBlock, TypeOK, Idle
<1>9. ASSUME NEW n \in Numbers("block"), WriteBlock(n) PROVE TypeOK'
  BY <1>9 DEF WriteBlock, TypeOK
<1>10. CASE Crash
  BY <1>10 DEF Crash, TypeOK, disk, Idle
<1>11. CASE UNCHANGED vars
  BY <1>11 DEF vars, TypeOK
<1> QED BY <1>1, <1>3, <1>4, <1>5, <1>6, <1>7, <1>8, <1>9, <1>10, <1>11 DEF Next

(* TypeOK is an invariant of the allocator, for all values of the constants. *)
THEOREM TypeCorrect == Spec => []TypeOK
  BY InitType, StepType, PTL DEF Spec

-----------------------------------------------------------------------------
(* Why Exclusive is inductive.  The bitmap a call is about to write is the  *)
(* one on the disk with only its own number changed (nobody else writes it  *)
(* meanwhile), a number being freed has no holder left, and a block being   *)
(* cleared already has its bit.                                             *)
Buffered ==
  op # Idle =>
    /\ op.pc # "clear" =>
         op.buf = IF op.fn = "allocate" THEN bits[op.kind] \cup {op.num}
                                        ELSE bits[op.kind] \ {op.num}
    /\ op.pc = "clear" =>
         op.fn = "allocate" /\ op.kind = "block" /\ op.num \in bits["block"]
    /\ op.fn = "deallocate" /\ op.num \notin exposed[op.kind] =>
         holders[op.kind][op.num] = 0

ExclusiveInv == TypeOK /\ Exclusive /\ Buffered

(* mkfs leaves every marked number with one holder and no call in progress. *)
LEMMA InitExclusive == Init => ExclusiveInv
<1> SUFFICES ASSUME Init PROVE ExclusiveInv OBVIOUS
<1>1. TypeOK BY InitType
<1>2. Exclusive
  BY NumbersAny DEF Init, Exclusive, InFlight
<1>3. Buffered
  BY DEF Init, Buffered
<1> QED BY <1>1, <1>2, <1>3 DEF ExclusiveInv

(* Every put_block, call and kill keeps the ownership and what it rests on. *)
LEMMA StepExclusive == ExclusiveInv /\ [Next]_vars => ExclusiveInv'
<1> SUFFICES ASSUME ExclusiveInv, [Next]_vars PROVE ExclusiveInv' OBVIOUS
<1>0. TypeOK /\ Exclusive /\ Buffered /\ TypeOK'
  BY StepType DEF ExclusiveInv
<1> SUFFICES Exclusive' /\ Buffered'
  BY <1>0 DEF ExclusiveInv
<1> USE NumbersAny, NumbersNat
<1>1. ASSUME NEW k \in Kind, Allocate(k) PROVE Exclusive' /\ Buffered'
  <2>1. PICK n \in Clear(k) :
          op' = [pc |-> "super", fn |-> "allocate", kind |-> k, num |-> n,
                 buf |-> Marked(k, n)]
    BY <1>1 DEF Allocate, IsLowestClear
  <2>2. n \in Numbers(k) /\ n \notin bits[k]
    BY <2>1 DEF Clear
  <2>3. n \notin exposed[k] => holders[k][n] # 1
    BY <1>0, <2>2 DEF Exclusive
  <2>4. Exclusive'
    BY <1>0, <1>1, <2>1, <2>2, <2>3 DEF Allocate, Exclusive, InFlight, disk
  <2>5. Buffered'
    BY <1>1, <2>1 DEF Allocate, Buffered, Marked, disk
  <2> QED BY <2>4, <2>5
<1>2. ASSUME NEW k \in Kind, NEW n \in Numbers(k), Deallocate(k, n)
      PROVE Exclusive' /\ Buffered'
  <2>1. op' = [pc |-> "super", fn |-> "deallocate", kind |-> k, num |-> n,
              buf |-> bits[k] \ {n}]
        /\ bits' = bits /\ exposed' = exposed
    BY <1>2 DEF Deallocate, StartDeallocate, disk
  <2>2. holders'[k][n] = holders[k][n] - 1 /\ holders[k][n] \in Nat \ {0}
    BY <1>0, <1>2 DEF Deallocate, TypeOK
  <2>3. \A j \in Kind, m \in AnyNumber :
          <<j, m>> # <<k, n>> => holders'[j][m] = holders[j][m]
    BY <1>0, <1>2 DEF Deallocate, TypeOK
  <2>4. n \notin exposed[k] => holders'[k][n] = 0
    BY <1>0, <2>2 DEF Exclusive
  <2>5. Exclusive'
    BY <1>0, <2>1, <2>3, <2>4 DEF Exclusive, InFlight
  <2>6. Buffered'
    BY <2>1, <2>4 DEF Buffered
  <2> QED BY <2>5, <2>6
<1>3. ASSUME NEW k \in Kind, NEW n \in Numbers(k), StrayFree(k, n) PROVE Exclusive' /\ Buffered'
  <2>1. /\ op' = [pc |-> "super", fn |-> "deallocate", kind |-> k, num |-> n,
                  buf |-> bits[k] \ {n}]
        /\ bits' = bits /\ holders' = holders
        /\ exposed' = [exposed EXCEPT ![k] = @ \cup {n}]
    BY <1>3 DEF StrayFree, StartDeallocate, disk
  <2>2. n \in exposed'[k] /\ \A j \in Kind : exposed[j] \subseteq exposed'[j]
    BY <1>0, <2>1 DEF TypeOK, Kind
  <2>3. Exclusive'
    BY <1>0, <2>1, <2>2 DEF Exclusive, InFlight
  <2>4. Buffered'
    BY <2>1, <2>2 DEF Buffered
  <2> QED BY <2>3, <2>4
<1>4. CASE PutSuper
  BY <1>0, <1>4 DEF PutSuper, Exclusive, InFlight, Buffered, TypeOK, Calls, Idle
<1>5. CASE PutGroup
  BY <1>0, <1>5 DEF PutGroup, Exclusive, InFlight, Buffered, TypeOK, Calls, Idle
<1>6. CASE PutMap
  <2> DEFINE k == op.kind
             n == op.num
  <2>1. /\ op \in Calls /\ k \in Kind /\ n \in Numbers(k) /\ n \in AnyNumber
        /\ op # Idle /\ op.pc = "map" /\ exposed' = exposed
    BY <1>0, <1>6 DEF PutMap, TypeOK, Calls
  <2>2. bits'[k] = IF op.fn = "allocate" THEN bits[k] \cup {n} ELSE bits[k] \ {n}
    BY <1>0, <1>6, <2>1 DEF PutMap, Buffered, TypeOK
  <2>3. \A j \in Kind \ {k} : bits'[j] = bits[j]
    BY <1>0, <1>6 DEF PutMap, TypeOK
  <2>4. CASE op.fn = "deallocate"
    <3>1. op' = Idle /\ holders' = holders
      BY <1>6, <2>4 DEF PutMap
    <3>2. n \notin exposed[k] => holders[k][n] = 0
      BY <1>0, <2>1, <2>4 DEF Buffered
    <3> QED BY <1>0, <2>1, <2>2, <2>3, <2>4, <3>1, <3>2 DEF Exclusive, InFlight, Buffered
  <2>5. CASE op.fn = "allocate" /\ k = "block"
    <3>1. op' = [op EXCEPT !.pc = "clear"] /\ holders' = holders
      BY <1>6, <2>5 DEF PutMap
    <3>2. op'.pc = "clear" /\ op'.fn = "allocate" /\ op'.kind = "block" /\ op'.num = n
      BY <2>1, <2>5, <3>1 DEF Calls
    <3>3. Buffered'
      BY <2>1, <2>2, <2>5, <3>2 DEF Buffered
    <3>4. Exclusive'
      BY <1>0, <2>1, <2>2, <2>3, <2>5, <3>1, <3>2 DEF Exclusive, InFlight
    <3> QED BY <3>3, <3>4
  <2>6. CASE op.fn = "allocate" /\ k # "block"
    <3>1. op' = Idle /\ Hand(k, n)
      BY <1>6, <2>6 DEF PutMap
    <3>0. holders[k][n] \in Nat /\ InFlight(k, n)
      BY <1>0, <2>1, <2>6 DEF TypeOK, InFlight
    <3>2. n \notin exposed[k] => holders[k][n] = 0
      BY <1>0, <2>1, <3>0 DEF Exclusive
    <3>3. n \in bits'[k]
      BY <2>2, <2>6
    <3>4. holders'[k][n] = holders[k][n] + 1
      BY <1>0, <2>1, <3>1 DEF Hand, TypeOK
    <3>5. \A j \in Kind, m \in AnyNumber :
            <<j, m>> # <<k, n>> => holders'[j][m] = holders[j][m]
      BY <1>0, <2>1, <3>1 DEF Hand, TypeOK
    <3>6. Exclusive'
      BY <1>0, <2>1, <2>2, <2>3, <2>6, <3>1, <3>2, <3>3, <3>4, <3>5 DEF Exclusive, InFlight
    <3> QED BY <3>1, <3>6 DEF Buffered
  <2> QED BY <2>1, <2>4, <2>5, <2>6 DEF Calls
<1>7. CASE ClearBlock
  <2> DEFINE n == op.num
  <2>1. /\ op \in Calls /\ op.fn = "allocate" /\ op.kind = "block"
        /\ n \in bits["block"] /\ n \in Numbers("block") /\ n \in AnyNumber
        /\ op # Idle /\ op' = Idle /\ bits' = bits /\ exposed' = exposed
    BY <1>0, <1>7 DEF ClearBlock, Buffered, TypeOK, Kind
  <2>2. n \notin exposed["block"] => holders["block"][n] = 0
    BY <1>0, <2>1 DEF Exclusive, InFlight, TypeOK, Kind
  <2>3. holders'["block"][n] = holders["block"][n] + 1
    BY <1>0, <1>7, <2>1 DEF ClearBlock, Hand, TypeOK, Kind
  <2>4. \A j \in Kind, m \in AnyNumber :
          <<j, m>> # <<"block", n>> => holders'[j][m] = holders[j][m]
    BY <1>0, <1>7, <2>1 DEF ClearBlock, Hand, TypeOK, Kind
  <2>5. Exclusive'
    BY <1>0, <2>1, <2>2, <2>3, <2>4 DEF Exclusive, InFlight
  <2> QED BY <2>1, <2>5 DEF Buffered
<1>8. ASSUME NEW n \in Numbers("block"), WriteBlock(n) PROVE Exclusive' /\ Buffered'
  BY <1>0, <1>8 DEF WriteBlock, Exclusive, InFlight, Buffered
<1>9. CASE Crash
  BY <1>0, <1>9 DEF Crash, Exclusive, InFlight, Buffered, disk
<1>10. CASE UNCHANGED vars
  BY <1>0, <1>10 DEF vars, Exclusive, InFlight, Buffered
<1> QED BY <1>1, <1>2, <1>3, <1>4, <1>5, <1>6, <1>7, <1>8, <1>9, <1>10 DEF Next

(* No number is ever held twice or handed out while its holder still has    *)
(* it, on a device of any size, through any number of kills, unless a stray *)
(* free hit that very number.                                               *)
THEOREM ExclusiveOwnership == Spec => []Exclusive
<1>1. Init => ExclusiveInv BY InitExclusive
<1>2. ExclusiveInv /\ [Next]_vars => ExclusiveInv' BY StepExclusive
<1>3. ExclusiveInv => Exclusive BY DEF ExclusiveInv
<1> QED BY <1>1, <1>2, <1>3, PTL DEF Spec

-----------------------------------------------------------------------------
(* Only the end of a call raises the number of holders of a block, and it   *)
(* is the clearing that ends it; no other step zeroes a block.              *)
LEMMA HandoutStep ==
  ASSUME ExclusiveInv, [Next]_vars
  PROVE  \A n \in Numbers("block") :
           /\ holders'["block"][n] > holders["block"][n] => content'[n] = "zero"
           /\ content[n] = "data" /\ content'[n] = "zero"
                => holders["block"][n] = 0 \/ n \in exposed["block"]
<1> DEFINE Clean ==
      \A n \in Numbers("block") :
        /\ holders'["block"][n] > holders["block"][n] => content'[n] = "zero"
        /\ content[n] = "data" /\ content'[n] = "zero"
             => holders["block"][n] = 0 \/ n \in exposed["block"]
<1> SUFFICES Clean OBVIOUS
<1>0. TypeOK /\ Exclusive /\ Buffered BY DEF ExclusiveInv
<1>t. \A n \in Numbers("block") : n \in AnyNumber /\ holders["block"][n] \in Nat
  BY <1>0, NumbersAny DEF TypeOK, Kind
<1>1. ASSUME UNCHANGED <<holders, content>> PROVE Clean
  BY <1>1, <1>t
<1>2. ASSUME NEW k \in Kind, NEW m \in Numbers(k), Deallocate(k, m) PROVE Clean
  <2>1. \A n \in Numbers("block") :
          holders'["block"][n] \in {holders["block"][n], holders["block"][n] - 1}
    BY <1>0, <1>2, <1>t, NumbersAny DEF Deallocate, TypeOK, Kind
  <2>2. content' = content
    BY <1>2 DEF Deallocate, StartDeallocate, disk
  <2>3. \A n \in Numbers("block") : ~(holders'["block"][n] > holders["block"][n])
    BY <2>1, <1>t
  <2> QED BY <2>2, <2>3
<1>3. CASE PutMap
  <2>1. content' = content
    BY <1>3 DEF PutMap
  <2>2. op.kind \in Kind /\ op.num \in AnyNumber /\ op.fn \in {"allocate", "deallocate"}
    BY <1>0, <1>3, NumbersAny DEF PutMap, TypeOK, Calls
  <2>3. holders'["block"] = holders["block"]
    BY <1>0, <1>3, <2>2 DEF PutMap, Hand, TypeOK, Kind
  <2>4. \A n \in Numbers("block") : ~(holders'["block"][n] > holders["block"][n])
    BY <2>3, <1>t
  <2> QED BY <2>1, <2>4
<1>4. CASE ClearBlock
  <2> DEFINE m == op.num
  <2>1. /\ op.fn = "allocate" /\ op.kind = "block"
        /\ m \in Numbers("block") /\ m \in AnyNumber /\ op # Idle
    BY <1>0, <1>4, NumbersAny DEF ClearBlock, Buffered, TypeOK, Kind
  <2>2. m \notin exposed["block"] => holders["block"][m] = 0
    <3>1. InFlight("block", m)
      BY <2>1 DEF InFlight
    <3> QED BY <1>0, <2>1, <1>t, <3>1 DEF Exclusive, Kind
  <2>3. content' = [content EXCEPT ![m] = "zero"]
    BY <1>4 DEF ClearBlock
  <2>4. \A n \in Numbers("block") : content'[n] = IF n = m THEN "zero" ELSE content[n]
    BY <1>0, <2>1, <2>3 DEF TypeOK
  <2>5. \A n \in Numbers("block") : n # m => holders'["block"][n] = holders["block"][n]
    BY <1>0, <1>4, <1>t, <2>1 DEF ClearBlock, Hand, TypeOK, Kind
  <2>6. \A n \in Numbers("block") : n # m => ~(holders'["block"][n] > holders["block"][n])
    BY <2>5, <1>t
  <2>7. \A n \in Numbers("block") : n # m => content'[n] = content[n]
    BY <2>4
  <2>8. content'[m] = "zero" BY <2>1, <2>4
  <2> HIDE DEF m
  <2> QED BY <2>2, <2>6, <2>7, <2>8
<1>5. ASSUME NEW m \in Numbers("block"), WriteBlock(m) PROVE Clean
  <2>1. holders' = holders /\ content' = [content EXCEPT ![m] = "data"]
    BY <1>5 DEF WriteBlock
  <2>2. \A n \in Numbers("block") : content'[n] \in {content[n], "data"}
    BY <1>0, <2>1 DEF TypeOK
  <2>3. \A n \in Numbers("block") : ~(holders'["block"][n] > holders["block"][n])
    BY <2>1, <1>t
  <2> QED BY <2>2, <2>3
<1>6. ASSUME NEW k \in Kind, Allocate(k) PROVE Clean
  BY <1>1, <1>6 DEF Allocate, disk
<1>7. ASSUME NEW k \in Kind, NEW n \in Numbers(k), StrayFree(k, n) PROVE Clean
  BY <1>1, <1>7 DEF StrayFree, StartDeallocate, disk
<1>8. CASE PutSuper \/ PutGroup
  BY <1>1, <1>8 DEF PutSuper, PutGroup
<1>9. CASE Crash
  BY <1>1, <1>9 DEF Crash, disk
<1>10. CASE UNCHANGED vars
  BY <1>1, <1>10 DEF vars
<1> HIDE DEF Clean
<1> QED BY <1>2, <1>3, <1>4, <1>5, <1>6, <1>7, <1>8, <1>9, <1>10 DEF Next

(* A block is handed out zeroed, and zeroing it never touches a block that  *)
(* somebody holds, unless a stray free hit that very number.                *)
THEOREM HandedOutClean == Spec => CleanHandout
<1>1. Init => ExclusiveInv BY InitExclusive
<1>2. ExclusiveInv /\ [Next]_vars => ExclusiveInv' BY StepExclusive
<1>3. ExclusiveInv /\ [Next]_vars =>
        [\A n \in Numbers("block") :
           /\ holders'["block"][n] > holders["block"][n] => content'[n] = "zero"
           /\ content[n] = "data" /\ content'[n] = "zero"
                => holders["block"][n] = 0 \/ n \in exposed["block"]]_vars
  BY HandoutStep
<1> QED BY <1>1, <1>2, <1>3, PTL DEF Spec, CleanHandout

-----------------------------------------------------------------------------
(* Counters that wrap.  A count one more or one less than a remainder has   *)
(* the remainder of the number one more or one less (Inc, Dec).             *)
LEMMA Division ==
  ASSUME NEW a \in Int, NEW m \in Nat \ {0}
  PROVE  a = m * (a \div m) + (a % m)
  OBVIOUS

(* Multiples of m are at least m apart. *)
LEMMA Spread ==
  ASSUME NEW m \in Nat \ {0}, NEW q \in Int, NEW p \in Int, q > p
  PROVE  m * q >= m * p + m
<1>1. m * (q - p - 1) >= 0
  <2>1. q - p - 1 \in Nat OBVIOUS
  <2> QED BY <2>1
<1>2. m * (q - p - 1) = m * q - m * p - m OBVIOUS
<1>3. m * q \in Int /\ m * p \in Int OBVIOUS
<1> QED BY <1>1, <1>2, <1>3

(* The remainder is unique. *)
LEMMA Remainder ==
  ASSUME NEW m \in Nat \ {0}, NEW q \in Int, NEW r \in 0..m-1
  PROVE  (m * q + r) % m = r
<1> DEFINE a == m * q + r
           p == a \div m
           s == a % m
<1>1. p \in Int /\ s \in 0..m-1 /\ a = m * p + s
  BY Division
<1>2. ~(q > p)
  <2> SUFFICES ASSUME q > p PROVE FALSE OBVIOUS
  <2>1. m * q >= m * p + m BY Spread, <1>1
  <2>2. m * q \in Int /\ m * p \in Int BY <1>1
  <2> HIDE DEF p, s
  <2> QED BY <2>1, <2>2, <1>1
<1>3. ~(p > q)
  <2> SUFFICES ASSUME p > q PROVE FALSE OBVIOUS
  <2>1. m * p >= m * q + m BY Spread, <1>1
  <2>2. m * q \in Int /\ m * p \in Int BY <1>1
  <2> HIDE DEF p, s
  <2> QED BY <2>1, <2>2, <1>1
<1>4. p = q BY <1>1, <1>2, <1>3
<1> QED BY <1>1, <1>4

(* Raising a remainder by one, with the wrap. *)
LEMMA IncRemainder ==
  ASSUME NEW a \in Int, NEW m \in Nat \ {0}
  PROVE  Inc(a % m, m) = (a + 1) % m
<1> DEFINE p == a \div m
           s == a % m
<1>1. p \in Int /\ s \in 0..m-1 /\ a = m * p + s BY Division
<1>2. m * p \in Int /\ m * (p + 1) = m * p + m BY <1>1
<1> HIDE DEF p, s
<1>3. CASE s + 1 < m
  <2>1. (m * p + (s + 1)) % m = s + 1 BY Remainder, <1>1, <1>3
  <2>2. (m * 0 + (s + 1)) % m = s + 1 BY Remainder, <1>1, <1>3
  <2>3. m * p + (s + 1) = a + 1 /\ m * 0 + (s + 1) = s + 1 BY <1>1, <1>2
  <2> QED BY <2>1, <2>2, <2>3 DEF s, Inc
<1>4. CASE s + 1 = m
  <2>1. (m * (p + 1) + 0) % m = 0 BY Remainder, <1>1
  <2>2. (m * 1 + 0) % m = 0 BY Remainder, <1>1
  <2>3. m * (p + 1) + 0 = a + 1 /\ m * 1 + 0 = s + 1 BY <1>1, <1>2, <1>4
  <2> QED BY <2>1, <2>2, <2>3 DEF s, Inc
<1> QED BY <1>1, <1>3, <1>4

(* Lowering a remainder by one, with the wrap. *)
LEMMA DecRemainder ==
  ASSUME NEW a \in Int, NEW m \in Nat \ {0}
  PROVE  Dec(a % m, m) = (a - 1) % m
<1> DEFINE p == a \div m
           s == a % m
<1>1. p \in Int /\ s \in 0..m-1 /\ a = m * p + s BY Division
<1>2. m * p \in Int /\ m * (p - 1) = m * p - m BY <1>1
<1> HIDE DEF p, s
<1>3. CASE s >= 1
  <2>1. (m * p + (s - 1)) % m = s - 1 BY Remainder, <1>1, <1>3
  <2>2. (m * 0 + (s - 1)) % m = s - 1 BY Remainder, <1>1, <1>3
  <2>3. m * p + (s - 1) = a - 1 /\ m * 0 + (s - 1) = s - 1 BY <1>1, <1>2
  <2> QED BY <2>1, <2>2, <2>3 DEF s, Dec
<1>4. CASE s = 0
  <2>1. (m * (p - 1) + (m - 1)) % m = m - 1 BY Remainder, <1>1
  <2>2. (m * (-1) + (m - 1)) % m = m - 1 BY Remainder, <1>1
  <2>3. m * (p - 1) + (m - 1) = a - 1 /\ m * (-1) + (m - 1) = s - 1 BY <1>1, <1>2, <1>4
  <2> QED BY <2>1, <2>2, <2>3 DEF s, Dec
<1> QED BY <1>1, <1>3, <1>4

(* A count is adrift from the number of free ones by an error in lo..hi.    *)
Adrift(count, free, mod, lo, hi) == \E e \in lo..hi : count = (free + e) % mod

(* A wider range of errors allows no less. *)
LEMMA AdriftWiden ==
  ASSUME NEW c, NEW f \in Int, NEW m \in Nat \ {0},
         NEW lo \in Int, NEW hi \in Int, NEW lo2 \in Int, NEW hi2 \in Int,
         Adrift(c, f, m, lo, hi), lo2 <= lo, hi <= hi2
  PROVE  Adrift(c, f, m, lo2, hi2)
<1>1. lo..hi \subseteq lo2..hi2 OBVIOUS
<1> QED BY <1>1 DEF Adrift

(* One freed and counted: the error stays; counted but not freed: it grows. *)
LEMMA AdriftInc ==
  ASSUME NEW c, NEW f \in Int, NEW m \in Nat \ {0}, NEW lo \in Int, NEW hi \in Int,
         Adrift(c, f, m, lo, hi)
  PROVE  Adrift(Inc(c, m), f + 1, m, lo, hi) /\ Adrift(Inc(c, m), f, m, lo + 1, hi + 1)
<1>1. PICK e \in lo..hi : c = (f + e) % m BY DEF Adrift
<1>2. f + e \in Int OBVIOUS
<1>3. Inc(c, m) = (f + e + 1) % m BY <1>1, <1>2, IncRemainder
<1>4. f + e + 1 = (f + 1) + e /\ f + e + 1 = f + (e + 1) /\ e + 1 \in lo+1..hi+1 OBVIOUS
<1>5. Inc(c, m) = ((f + 1) + e) % m /\ Inc(c, m) = (f + (e + 1)) % m BY <1>3, <1>4
<1> QED BY <1>4, <1>5 DEF Adrift

(* One handed out and counted: the error stays. *)
LEMMA AdriftDec ==
  ASSUME NEW c, NEW f \in Int, NEW m \in Nat \ {0}, NEW lo \in Int, NEW hi \in Int,
         Adrift(c, f, m, lo, hi)
  PROVE  Adrift(Dec(c, m), f - 1, m, lo, hi)
<1>1. PICK e \in lo..hi : c = (f + e) % m BY DEF Adrift
<1>2. f + e \in Int OBVIOUS
<1>3. Dec(c, m) = ((f + e) - 1) % m
  <2>1. Dec((f + e) % m, m) = ((f + e) - 1) % m BY <1>2, DecRemainder
  <2> QED BY <1>1, <2>1
<1>4. (f + e) - 1 = (f - 1) + e OBVIOUS
<1>5. Dec(c, m) = ((f - 1) + e) % m BY <1>3, <1>4
<1> QED BY <1>5 DEF Adrift

(* A bit lost with a kill moves the error by one either way. *)
LEMMA AdriftShift ==
  ASSUME NEW c, NEW f \in Int, NEW m \in Nat \ {0}, NEW lo \in Int, NEW hi \in Int,
         NEW f2 \in f-1..f+1, Adrift(c, f, m, lo, hi)
  PROVE  Adrift(c, f2, m, lo - 1, hi + 1)
<1>1. PICK e \in lo..hi : c = (f + e) % m BY DEF Adrift
<1>2. f + e = f2 + (e + f - f2) /\ e + f - f2 \in lo-1..hi+1 OBVIOUS
<1>3. c = (f2 + (e + f - f2)) % m BY <1>1, <1>2
<1> QED BY <1>2, <1>3 DEF Adrift

-----------------------------------------------------------------------------
(* How many numbers a bitmap leaves free. *)
Free(k, b) == Cardinality(Numbers(k) \ b)

(* A device has finitely many numbers. *)
LEMMA NumbersFinite == ASSUME NEW k \in Kind PROVE IsFiniteSet(Numbers(k))
<1>1. Limit(k) \in Nat BY SizeAssumption DEF Limit, Kind
<1> QED BY <1>1, FS_Interval DEF Numbers

(* The number of free ones is a number. *)
LEMMA FreeNat ==
  ASSUME NEW k \in Kind, NEW b
  PROVE  Free(k, b) \in Nat /\ IsFiniteSet(Numbers(k) \ b)
<1>1. IsFiniteSet(Numbers(k) \ b) BY NumbersFinite, FS_Subset
<1> QED BY <1>1, FS_CardinalityType DEF Free

(* Marking a clear number leaves one less free. *)
LEMMA FreeAdd ==
  ASSUME NEW k \in Kind, NEW b, NEW n \in Numbers(k), n \notin b
  PROVE  Free(k, b \cup {n}) = Free(k, b) - 1
<1>1. Numbers(k) \ (b \cup {n}) = (Numbers(k) \ b) \ {n} /\ n \in Numbers(k) \ b OBVIOUS
<1>2. Cardinality((Numbers(k) \ b) \ {n}) = Cardinality(Numbers(k) \ b) - 1
  BY <1>1, FreeNat, FS_RemoveElement
<1> QED BY <1>1, <1>2 DEF Free

(* Clearing a marked number leaves one more free. *)
LEMMA FreeRemove ==
  ASSUME NEW k \in Kind, NEW b, NEW n \in Numbers(k), n \in b
  PROVE  Free(k, b \ {n}) = Free(k, b) + 1
<1>1. Numbers(k) \ (b \ {n}) = (Numbers(k) \ b) \cup {n} /\ n \notin Numbers(k) \ b OBVIOUS
<1>2. Cardinality((Numbers(k) \ b) \cup {n}) = Cardinality(Numbers(k) \ b) + 1
  BY <1>1, FreeNat, FS_AddElement
<1> QED BY <1>1, <1>2 DEF Free

(* Whatever the bit of n was, setting or clearing it moves the number by    *)
(* one at most.                                                             *)
LEMMA FreeNear ==
  ASSUME NEW k \in Kind, NEW b, NEW n \in Numbers(k)
  PROVE  /\ Free(k, b) \in Free(k, b \cup {n})-1..Free(k, b \cup {n})+1
         /\ Free(k, b) \in Free(k, b \ {n})-1..Free(k, b \ {n})+1
<1>1. CASE n \in b
  <2>1. b \cup {n} = b BY <1>1
  <2>2. Free(k, b \ {n}) = Free(k, b) + 1 BY <1>1, FreeRemove
  <2>3. Free(k, b) \in Nat BY FreeNat
  <2> QED BY <2>1, <2>2, <2>3
<1>2. CASE n \notin b
  <2>1. b \ {n} = b BY <1>2
  <2>2. Free(k, b \cup {n}) = Free(k, b) - 1 BY <1>2, FreeAdd
  <2>3. Free(k, b) \in Nat BY FreeNat
  <2>4. Free(k, b) \in Free(k, b \cup {n})-1..Free(k, b \cup {n})+1 BY <2>2, <2>3
  <2>5. Free(k, b) \in Free(k, b)-1..Free(k, b)+1 BY <2>3
  <2> QED BY <2>1, <2>4, <2>5
<1> QED BY <1>1, <1>2

-----------------------------------------------------------------------------
(* Why CountsBounded is inductive: a ledger of each kind.  A stray free of  *)
(* a number somebody holds costs nothing at once, as the bitmap and the     *)
(* counts move together; the error comes when the holder gives back a       *)
(* number whose bit is already clear.  Owed is that debt: one entry for     *)
(* every holder of a number beyond the one its bit stands for.              *)
Owed(k, h, b) ==
  {d \in Numbers(k) \X (Nat \ {0}) : d[2] + (IF d[1] \in b THEN 1 ELSE 0) <= h[d[1]]}

(* Handing out a clear number and marking it owes nothing more. *)
LEMMA OwedHand ==
  ASSUME NEW k \in Kind, NEW h \in [Numbers(k) -> Nat], NEW b, NEW n \in Numbers(k), n \notin b
  PROVE  Owed(k, [h EXCEPT ![n] = @ + 1], b \cup {n}) = Owed(k, h, b)
<1> DEFINE g == [h EXCEPT ![n] = @ + 1]
<1>1. ASSUME NEW d \in Numbers(k) \X (Nat \ {0})
      PROVE  d[2] + (IF d[1] \in b \cup {n} THEN 1 ELSE 0) <= g[d[1]]
             <=> d[2] + (IF d[1] \in b THEN 1 ELSE 0) <= h[d[1]]
  <2>1. d[2] \in Nat /\ d[1] \in Numbers(k) /\ h[d[1]] \in Nat OBVIOUS
  <2>2. CASE d[1] = n
    <3>1. g[d[1]] = h[d[1]] + 1 BY <2>2
    <3> QED BY <2>1, <2>2, <3>1
  <2>3. CASE d[1] # n
    <3>1. g[d[1]] = h[d[1]] BY <2>1, <2>3
    <3> QED BY <2>3, <3>1
  <2> QED BY <2>2, <2>3
<1> HIDE DEF g
<1> QED BY <1>1 DEF Owed, g

(* Giving back and clearing a marked number owes nothing more. *)
LEMMA OwedBack ==
  ASSUME NEW k \in Kind, NEW h \in [Numbers(k) -> Nat], NEW b, NEW n \in Numbers(k),
         NEW g \in [Numbers(k) -> Nat], g[n] = h[n] - 1,
         \A m \in Numbers(k) \ {n} : g[m] = h[m],
         n \in b, h[n] > 0
  PROVE  Owed(k, g, b \ {n}) = Owed(k, h, b)
<1>1. ASSUME NEW d \in Numbers(k) \X (Nat \ {0})
      PROVE  d[2] + (IF d[1] \in b \ {n} THEN 1 ELSE 0) <= g[d[1]]
             <=> d[2] + (IF d[1] \in b THEN 1 ELSE 0) <= h[d[1]]
  <2>1. d[2] \in Nat /\ d[1] \in Numbers(k) /\ h[d[1]] \in Nat OBVIOUS
  <2>2. CASE d[1] = n
    <3>1. g[d[1]] = h[d[1]] - 1 BY <2>2
    <3> QED BY <2>1, <2>2, <3>1
  <2>3. CASE d[1] # n
    <3>1. g[d[1]] = h[d[1]] BY <2>1, <2>3
    <3> QED BY <2>3, <3>1
  <2> QED BY <2>2, <2>3
<1> QED BY <1>1 DEF Owed

(* Giving back a number whose bit is already clear pays one entry off. *)
LEMMA OwedPaid ==
  ASSUME NEW k \in Kind, NEW h \in [Numbers(k) -> Nat], NEW b, NEW n \in Numbers(k),
         NEW g \in [Numbers(k) -> Nat], g[n] = h[n] - 1,
         \A m \in Numbers(k) \ {n} : g[m] = h[m],
         n \notin b, h[n] > 0
  PROVE  /\ <<n, h[n]>> \in Owed(k, h, b)
         /\ Owed(k, g, b \ {n}) = Owed(k, h, b) \ {<<n, h[n]>>}
<1>0. h[n] \in Nat \ {0} OBVIOUS
<1>1. <<n, h[n]>> \in Owed(k, h, b)
  BY <1>0 DEF Owed
<1>2. ASSUME NEW d \in Numbers(k) \X (Nat \ {0})
      PROVE  d[2] + (IF d[1] \in b \ {n} THEN 1 ELSE 0) <= g[d[1]]
             <=> d[2] + (IF d[1] \in b THEN 1 ELSE 0) <= h[d[1]] /\ d # <<n, h[n]>>
  <2>1. d[2] \in Nat /\ d[1] \in Numbers(k) /\ h[d[1]] \in Nat /\ d = <<d[1], d[2]>> OBVIOUS
  <2>2. CASE d[1] = n
    <3>1. g[d[1]] = h[n] - 1 BY <2>2
    <3>2. d # <<n, h[n]>> <=> d[2] # h[n] BY <2>1, <2>2
    <3>3. d[1] \notin b \ {n} /\ d[1] \notin b BY <2>2
    <3>4. d[2] <= h[n] - 1 <=> d[2] <= h[n] /\ d[2] # h[n] BY <2>1, <1>0
    <3> QED BY <2>1, <2>2, <3>1, <3>2, <3>3, <3>4
  <2>3. CASE d[1] # n
    <3>1. g[d[1]] = h[d[1]] BY <2>1, <2>3
    <3>2. d # <<n, h[n]>> BY <2>3
    <3> QED BY <2>3, <3>1, <3>2
  <2> QED BY <2>2, <2>3
<1>3. Owed(k, g, b \ {n}) = Owed(k, h, b) \ {<<n, h[n]>>}
  BY <1>2 DEF Owed
<1> QED BY <1>1, <1>3

(* A stray free owes one entry more at most, and none if the bit was clear. *)
LEMMA OwedStray ==
  ASSUME NEW k \in Kind, NEW h \in [Numbers(k) -> Nat], NEW b, NEW n \in Numbers(k)
  PROVE  Owed(k, h, b \ {n}) \subseteq Owed(k, h, b) \cup {<<n, h[n]>>}
<1>1. ASSUME NEW d \in Numbers(k) \X (Nat \ {0}),
             d[2] + (IF d[1] \in b \ {n} THEN 1 ELSE 0) <= h[d[1]]
      PROVE  d[2] + (IF d[1] \in b THEN 1 ELSE 0) <= h[d[1]] \/ d = <<n, h[n]>>
  <2>1. d[2] \in Nat /\ d[1] \in Numbers(k) /\ h[d[1]] \in Nat /\ d = <<d[1], d[2]>> OBVIOUS
  <2>2. CASE d[1] = n
    <3>1. d[2] <= h[n] BY <1>1, <2>1, <2>2
    <3>2. d[2] + 1 <= h[n] \/ d[2] = h[n] BY <2>1, <2>2, <3>1
    <3> QED BY <2>1, <2>2, <3>1, <3>2
  <2>3. CASE d[1] # n
    <3>1. d[1] \in b \ {n} <=> d[1] \in b BY <2>3
    <3> QED BY <1>1, <3>1
  <2> QED BY <2>2, <2>3
<1> QED BY <1>1 DEF Owed

(* Fewer holders of more marked numbers owe less. *)
LEMMA OwedLess ==
  ASSUME NEW k \in Kind, NEW h \in [Numbers(k) -> Nat], NEW g \in [Numbers(k) -> Nat],
         NEW b, NEW c,
         \A n \in Numbers(k) :
           g[n] + (IF n \in b THEN 1 ELSE 0) <= h[n] + (IF n \in c THEN 1 ELSE 0)
  PROVE  Owed(k, g, c) \subseteq Owed(k, h, b)
<1>1. ASSUME NEW d \in Numbers(k) \X (Nat \ {0}),
             d[2] + (IF d[1] \in c THEN 1 ELSE 0) <= g[d[1]]
      PROVE  d[2] + (IF d[1] \in b THEN 1 ELSE 0) <= h[d[1]]
  <2>1. d[2] \in Nat /\ d[1] \in Numbers(k) /\ h[d[1]] \in Nat /\ g[d[1]] \in Nat OBVIOUS
  <2>2. g[d[1]] + (IF d[1] \in b THEN 1 ELSE 0) <= h[d[1]] + (IF d[1] \in c THEN 1 ELSE 0)
    BY <2>1
  <2> QED BY <1>1, <2>1, <2>2
<1> QED BY <1>1 DEF Owed

-----------------------------------------------------------------------------
(* The bitmap and the holders as they are when the call in progress ends.   *)
Mapped(k) == IF op # Idle /\ op.kind = k /\ op.pc # "clear" THEN op.buf ELSE bits[k]
Handed(k) == [n \in Numbers(k) |-> holders[k][n] + (IF InFlight(k, n) THEN 1 ELSE 0)]
Debt(k) == Owed(k, Handed(k), Mapped(k))

(* A count differs from the clear bits of b by no more than the kills       *)
(* below, and by no more than kills and stray frees less the debt above.    *)
Within(count, k, mod, b) ==
  Adrift(count, Free(k, b), mod, -crashes, crashes + strays - Cardinality(Debt(k)))

(* The counts in memory are those of the bitmap the call will have written; *)
(* the ones on the disk are the same, or still those of the old bitmap.     *)
Unwritten(k, pcs) == op # Idle /\ op.kind = k /\ op.pc \in pcs
Account(k) ==
  /\ IsFiniteSet(Debt(k))
  /\ Within(sp[k], k, SuperMod, Mapped(k)) /\ Within(gp[k], k, GroupMod, Mapped(k))
  /\ IF Unwritten(k, {"super"}) THEN Within(dsp[k], k, SuperMod, bits[k]) ELSE dsp[k] = sp[k]
  /\ IF Unwritten(k, {"super", "gd"}) THEN Within(dgp[k], k, GroupMod, bits[k])
                                      ELSE dgp[k] = gp[k]
Ledger == \A k \in Kind : Account(k)

CountInv == ExclusiveInv /\ Ledger

(* The holders, with the number in hand counted, are numbers of holders. *)
LEMMA HandedType ==
  ASSUME TypeOK, NEW k \in Kind
  PROVE  Handed(k) \in [Numbers(k) -> Nat]
<1>1. \A n \in Numbers(k) : holders[k][n] \in Nat
  BY NumbersAny DEF TypeOK
<1> QED BY <1>1 DEF Handed

(* The error's range grows with the kills and the stray frees, and shrinks  *)
(* with the debt.                                                           *)
LEMMA Room ==
  ASSUME TypeOK, NEW k \in Kind, IsFiniteSet(Debt(k))
  PROVE  /\ -crashes \in Int /\ Cardinality(Debt(k)) \in Nat
         /\ crashes + strays - Cardinality(Debt(k)) \in Int
<1>1. Cardinality(Debt(k)) \in Nat BY FS_CardinalityType
<1>2. crashes \in Nat /\ strays \in Nat BY SizeAssumption DEF TypeOK
<1> QED BY <1>1, <1>2

(* The widths of the counters are positive. *)
LEMMA Mods == SuperMod \in Nat \ {0} /\ GroupMod \in Nat \ {0}
  BY SizeAssumption

(* More kills and stray frees leave more room. *)
LEMMA Grows ==
  ASSUME NEW x \in Nat, NEW y \in Nat, NEW d \in Nat, NEW x2 \in Nat, NEW y2 \in Nat,
         x2 >= x, y2 >= y
  PROVE  /\ -x2 <= -x /\ -x \in Int /\ -x2 \in Int
         /\ x + y - d <= x2 + y2 - d /\ x + y - d \in Int /\ x2 + y2 - d \in Int
  OBVIOUS

(* No step takes a kill or a stray free back. *)
Later == crashes' >= crashes /\ strays' >= strays

(* So the range of errors a step allows is no narrower than before it. *)
LEMMA LaterRoom ==
  ASSUME TypeOK, TypeOK', Later, NEW d \in Nat
  PROVE  /\ -crashes' <= -crashes /\ -crashes \in Int /\ -crashes' \in Int
         /\ crashes + strays - d <= crashes' + strays' - d
         /\ crashes + strays - d \in Int /\ crashes' + strays' - d \in Int
<1>1. crashes \in Nat /\ strays \in Nat /\ crashes' \in Nat /\ strays' \in Nat
  BY SizeAssumption DEF TypeOK
<1>2. crashes' >= crashes /\ strays' >= strays
  BY DEF Later
<1> QED BY <1>1, <1>2, Grows

(* A step that leaves a kind's counts, bitmap and holders as they are, or   *)
(* as the call in progress had them in hand, leaves its account in order.   *)
LEMMA Untouched ==
  ASSUME TypeOK, TypeOK', NEW k \in Kind, Account(k), Later,
         Mapped(k)' = Mapped(k), Handed(k)' = Handed(k),
         NEW c, NEW m \in Nat \ {0}, NEW b,
         Adrift(c, Free(k, b), m, -crashes, crashes + strays - Cardinality(Debt(k)))
  PROVE  Adrift(c, Free(k, b), m, -crashes', crashes' + strays' - Cardinality(Debt(k)'))
<1>1. Debt(k)' = Debt(k) BY DEF Debt
<1>2. IsFiniteSet(Debt(k)) BY DEF Account
<1> DEFINE D == Cardinality(Debt(k))
           f == Free(k, b)
<1>3. D \in Nat BY <1>2, FS_CardinalityType
<1>4. f \in Nat BY FreeNat
<1> HIDE DEF D, f
<1>5. /\ -crashes' <= -crashes /\ -crashes \in Int /\ -crashes' \in Int
      /\ crashes + strays - D <= crashes' + strays' - D
      /\ crashes + strays - D \in Int /\ crashes' + strays' - D \in Int
  BY <1>3, LaterRoom
<1>6. Adrift(c, f, m, -crashes, crashes + strays - D) BY DEF f, D
<1>7. Adrift(c, f, m, -crashes', crashes' + strays' - D)
  BY <1>4, <1>5, <1>6, AdriftWiden
<1> QED BY <1>1, <1>7 DEF f, D

(* What a put_block, a step on the other kind, or no step does to a kind:   *)
(* what the disk lacks can only become what memory holds.                   *)
LEMMA AccountStays ==
  ASSUME TypeOK, TypeOK', NEW k \in Kind, Account(k), Later,
         Mapped(k)' = Mapped(k), Handed(k)' = Handed(k),
         sp'[k] = sp[k], gp'[k] = gp[k],
         IF Unwritten(k, {"super"})'
           THEN Unwritten(k, {"super"}) /\ dsp'[k] = dsp[k] /\ bits'[k] = bits[k]
           ELSE dsp'[k] = sp'[k],
         IF Unwritten(k, {"super", "gd"})'
           THEN Unwritten(k, {"super", "gd"}) /\ dgp'[k] = dgp[k] /\ bits'[k] = bits[k]
           ELSE dgp'[k] = gp'[k]
  PROVE  Account(k)'
<1>1. IsFiniteSet(Debt(k))'
  <2>1. Debt(k)' = Debt(k) BY DEF Debt
  <2> QED BY <2>1 DEF Account
<1>2. ASSUME NEW c, NEW m \in Nat \ {0}, NEW b,
             Adrift(c, Free(k, b), m, -crashes, crashes + strays - Cardinality(Debt(k)))
      PROVE  Adrift(c, Free(k, b), m, -crashes', crashes' + strays' - Cardinality(Debt(k)'))
  BY <1>2, Untouched
<1>3. Within(sp[k], k, SuperMod, Mapped(k))'
  BY <1>2, Mods DEF Account, Within
<1>4. Within(gp[k], k, GroupMod, Mapped(k))'
  BY <1>2, Mods DEF Account, Within
<1>5. IF Unwritten(k, {"super"})' THEN Within(dsp[k], k, SuperMod, bits[k])'
                                  ELSE dsp'[k] = sp'[k]
  BY <1>2, Mods DEF Account, Within
<1>6. IF Unwritten(k, {"super", "gd"})' THEN Within(dgp[k], k, GroupMod, bits[k])'
                                        ELSE dgp'[k] = gp'[k]
  BY <1>2, Mods DEF Account, Within
<1> QED BY <1>1, <1>3, <1>4, <1>5, <1>6 DEF Account

(* A kind no call works on, before the step or after it, and which the step *)
(* leaves alone.                                                            *)
LEMMA OtherKind ==
  ASSUME TypeOK, TypeOK', NEW k \in Kind, Account(k), Later,
         op = Idle \/ op.kind # k, op' = Idle \/ op'.kind # k,
         sp'[k] = sp[k], gp'[k] = gp[k], dsp'[k] = dsp[k], dgp'[k] = dgp[k],
         bits'[k] = bits[k], holders'[k] = holders[k]
  PROVE  Account(k)'
<1>1. Mapped(k)' = Mapped(k) BY DEF Mapped
<1>2. \A n : ~InFlight(k, n)' /\ ~InFlight(k, n) BY DEF InFlight
<1>3. Handed(k)' = Handed(k) BY <1>2 DEF Handed
<1>4. ~Unwritten(k, {"super"})' /\ ~Unwritten(k, {"super", "gd"})' BY DEF Unwritten
<1>5. ~Unwritten(k, {"super"}) /\ ~Unwritten(k, {"super", "gd"}) BY DEF Unwritten
<1>6. dsp'[k] = sp'[k] /\ dgp'[k] = gp'[k] BY <1>5 DEF Account
<1> QED BY <1>1, <1>3, <1>4, <1>6, AccountStays

(* The super block on the disk becomes the one in memory. *)
LEMMA PutSuperAccount ==
  ASSUME TypeOK, TypeOK', PutSuper, NEW k \in Kind, Account(k)
  PROVE  Account(k)'
<1>0. op # Idle /\ op \in Calls /\ op.pc = "super" /\ op' = [op EXCEPT !.pc = "gd"]
  BY DEF PutSuper, TypeOK
<1>1. op' # Idle /\ op'.pc = "gd" /\ op'.kind = op.kind /\ op'.fn = op.fn
      /\ op'.num = op.num /\ op'.buf = op.buf
  BY <1>0 DEF Calls, Idle
<1>2. Mapped(k)' = Mapped(k) BY <1>0, <1>1 DEF Mapped, PutSuper
<1>3. \A n : InFlight(k, n)' <=> InFlight(k, n) BY <1>0, <1>1 DEF InFlight
<1>4. Handed(k)' = Handed(k) BY <1>3 DEF Handed, PutSuper
<1>5. Later BY SizeAssumption DEF Later, PutSuper, TypeOK
<1>6. sp' = sp /\ gp' = gp /\ dsp' = sp /\ dgp' = dgp /\ bits' = bits BY DEF PutSuper
<1>7. ~Unwritten(k, {"super"})' BY <1>1 DEF Unwritten
<1>8. Unwritten(k, {"super", "gd"})' <=> Unwritten(k, {"super", "gd"})
  BY <1>0, <1>1 DEF Unwritten
<1>9. ~Unwritten(k, {"super", "gd"}) => dgp[k] = gp[k] BY DEF Account
<1> QED BY <1>2, <1>4, <1>5, <1>6, <1>7, <1>8, <1>9, AccountStays

(* The group descriptor on the disk becomes the one in memory. *)
LEMMA PutGroupAccount ==
  ASSUME TypeOK, TypeOK', PutGroup, NEW k \in Kind, Account(k)
  PROVE  Account(k)'
<1>0. op # Idle /\ op \in Calls /\ op.pc = "gd" /\ op' = [op EXCEPT !.pc = "map"]
  BY DEF PutGroup, TypeOK
<1>1. op' # Idle /\ op'.pc = "map" /\ op'.kind = op.kind /\ op'.fn = op.fn
      /\ op'.num = op.num /\ op'.buf = op.buf
  BY <1>0 DEF Calls, Idle
<1>2. Mapped(k)' = Mapped(k) BY <1>0, <1>1 DEF Mapped, PutGroup
<1>3. \A n : InFlight(k, n)' <=> InFlight(k, n) BY <1>0, <1>1 DEF InFlight
<1>4. Handed(k)' = Handed(k) BY <1>3 DEF Handed, PutGroup
<1>5. Later BY SizeAssumption DEF Later, PutGroup, TypeOK
<1>6. sp' = sp /\ gp' = gp /\ dsp' = dsp /\ dgp' = gp BY DEF PutGroup
<1>7. ~Unwritten(k, {"super"})' /\ ~Unwritten(k, {"super", "gd"})' BY <1>1 DEF Unwritten
<1>8. ~Unwritten(k, {"super"}) BY <1>0 DEF Unwritten
<1>9. dsp[k] = sp[k] BY <1>8 DEF Account
<1> QED BY <1>2, <1>4, <1>5, <1>6, <1>7, <1>9, AccountStays

(* The bitmap becomes the one the call had in hand, which the counts in     *)
(* memory already stand for.                                                *)
LEMMA PutMapAccount ==
  ASSUME TypeOK, TypeOK', PutMap, NEW k \in Kind, Account(k)
  PROVE  Account(k)'
<1>0. op # Idle /\ op \in Calls /\ op.pc = "map" /\ op.kind \in Kind
      /\ op.num \in AnyNumber /\ bits' = [bits EXCEPT ![op.kind] = op.buf]
  BY NumbersAny DEF PutMap, TypeOK, Calls
<1>1. bits'[k] = IF op.kind = k THEN op.buf ELSE bits[k]
  BY <1>0 DEF TypeOK
<1>2. op' = Idle \/ op' = [op EXCEPT !.pc = "clear"] BY DEF PutMap
<1>3. op' # Idle => op'.pc = "clear" /\ op'.kind = op.kind /\ op'.fn = op.fn /\ op'.num = op.num
  BY <1>0, <1>2 DEF Calls
<1>4. Mapped(k)' = Mapped(k) BY <1>0, <1>1, <1>3 DEF Mapped
<1>5. Handed(k)' = Handed(k)
  <2>1. CASE op.fn = "allocate" /\ op.kind = "block"
    <3>1. op' = [op EXCEPT !.pc = "clear"] /\ holders' = holders BY <2>1 DEF PutMap
    <3>2. op' # Idle BY <1>0, <3>1 DEF Calls, Idle
    <3>3. \A n : InFlight(k, n)' <=> InFlight(k, n) BY <1>0, <1>3, <3>2 DEF InFlight
    <3> QED BY <3>1, <3>3 DEF Handed
  <2>2. CASE op.fn = "allocate" /\ op.kind # "block"
    <3>1. op' = Idle /\ holders' = [holders EXCEPT ![op.kind][op.num] = @ + 1]
      BY <2>2 DEF PutMap, Hand
    <3>2. \A n \in Numbers(k) :
            holders'[k][n] = holders[k][n] + (IF k = op.kind /\ n = op.num THEN 1 ELSE 0)
      BY <1>0, <3>1, NumbersAny DEF TypeOK
    <3>3. \A n : ~InFlight(k, n)' /\ (InFlight(k, n) <=> k = op.kind /\ n = op.num)
      BY <1>0, <2>2, <3>1 DEF InFlight
    <3>4. \A n \in Numbers(k) : holders'[k][n] \in Nat
      BY NumbersAny DEF TypeOK
    <3> QED BY <3>2, <3>3, <3>4 DEF Handed
  <2>3. CASE op.fn # "allocate"
    <3>1. op' = Idle /\ holders' = holders BY <2>3 DEF PutMap
    <3>2. \A n : ~InFlight(k, n)' /\ ~InFlight(k, n) BY <2>3, <3>1 DEF InFlight
    <3> QED BY <3>1, <3>2 DEF Handed
  <2> QED BY <2>1, <2>2, <2>3
<1>6. Later BY SizeAssumption DEF Later, PutMap, TypeOK
<1>7. sp' = sp /\ gp' = gp /\ dsp' = dsp /\ dgp' = dgp BY DEF PutMap
<1>8. ~Unwritten(k, {"super"})' /\ ~Unwritten(k, {"super", "gd"})' BY <1>3 DEF Unwritten
<1>9. dsp[k] = sp[k] /\ dgp[k] = gp[k] BY <1>0 DEF Account, Unwritten
<1> QED BY <1>4, <1>5, <1>6, <1>7, <1>8, <1>9, AccountStays

(* The block in hand goes to its holder; the counts stay. *)
LEMMA ClearBlockAccount ==
  ASSUME TypeOK, TypeOK', Buffered, ClearBlock, NEW k \in Kind, Account(k)
  PROVE  Account(k)'
<1>0. /\ op # Idle /\ op.pc = "clear" /\ op.kind = "block" /\ op.fn = "allocate"
      /\ op.num \in AnyNumber /\ op' = Idle
      /\ holders' = [holders EXCEPT !["block"][op.num] = @ + 1]
  BY NumbersAny DEF ClearBlock, Buffered, TypeOK, Kind, Hand
<1>1. sp' = sp /\ gp' = gp /\ dsp' = dsp /\ dgp' = dgp /\ bits' = bits BY DEF ClearBlock
<1>2. Mapped(k)' = Mapped(k) BY <1>0, <1>1 DEF Mapped
<1>3. Handed(k)' = Handed(k)
  <2>1. \A n \in Numbers(k) :
          holders'[k][n] = holders[k][n] + (IF k = "block" /\ n = op.num THEN 1 ELSE 0)
    BY <1>0, NumbersAny DEF TypeOK, Kind
  <2>2. \A n : ~InFlight(k, n)' /\ (InFlight(k, n) <=> k = "block" /\ n = op.num)
    BY <1>0 DEF InFlight
  <2>3. \A n \in Numbers(k) : holders'[k][n] \in Nat BY NumbersAny DEF TypeOK
  <2> QED BY <2>1, <2>2, <2>3 DEF Handed
<1>4. Later BY SizeAssumption DEF Later, ClearBlock, TypeOK
<1>5. ~Unwritten(k, {"super"})' /\ ~Unwritten(k, {"super", "gd"})' BY <1>0 DEF Unwritten
<1>6. dsp[k] = sp[k] /\ dgp[k] = gp[k] BY <1>0 DEF Account, Unwritten
<1> QED BY <1>1, <1>2, <1>3, <1>4, <1>5, <1>6, AccountStays

(* A call starts on a kind: its counts move with its bitmap, or the debt    *)
(* and the room move with the counts.                                       *)
LEMMA AllocateAccount ==
  ASSUME TypeOK, TypeOK', NEW k \in Kind, Allocate(k), Account(k)
  PROVE  Account(k)'
<1>1. PICK n \in Numbers(k) :
        /\ n \notin bits[k]
        /\ op' = [pc |-> "super", fn |-> "allocate", kind |-> k, num |-> n,
                  buf |-> bits[k] \cup {n}]
  BY DEF Allocate, IsLowestClear, Clear, Marked
<1>2. /\ op = Idle /\ UNCHANGED <<disk, holders, exposed, crashes, strays>>
      /\ sp'[k] = Dec(sp[k], SuperMod) /\ gp'[k] = Dec(gp[k], GroupMod)
  BY DEF Allocate, TypeOK
<1>3. bits' = bits /\ dsp' = dsp /\ dgp' = dgp BY <1>2 DEF disk
<1>4. op' # Idle /\ op'.pc = "super" /\ op'.kind = k BY <1>1 DEF Idle
<1>5. Mapped(k) = bits[k] /\ Mapped(k)' = bits[k] \cup {n}
  BY <1>1, <1>2, <1>4 DEF Mapped
<1>6. Handed(k)' = [Handed(k) EXCEPT ![n] = @ + 1]
  <2>1. \A m : InFlight(k, m)' <=> m = n BY <1>1, <1>4 DEF InFlight
  <2>2. \A m : ~InFlight(k, m) BY <1>2 DEF InFlight
  <2>3. holders' = holders BY <1>2
  <2>4. \A m \in Numbers(k) : holders[k][m] \in Nat BY NumbersAny DEF TypeOK
  <2>5. Handed(k) = [m \in Numbers(k) |-> holders[k][m]]
    BY <2>2, <2>4 DEF Handed
  <2>6. Handed(k)' = [m \in Numbers(k) |-> holders[k][m] + (IF m = n THEN 1 ELSE 0)]
    BY <2>1, <2>3 DEF Handed
  <2>7. \A m \in Numbers(k) : holders[k][m] + (IF m = n THEN 1 ELSE 0)
          = [Handed(k) EXCEPT ![n] = @ + 1][m]
    BY <2>4, <2>5
  <2> QED BY <2>5, <2>6, <2>7
<1>7. Debt(k)' = Debt(k)
  <2>1. Owed(k, [Handed(k) EXCEPT ![n] = @ + 1], bits[k] \cup {n}) = Owed(k, Handed(k), bits[k])
    BY <1>1, HandedType, OwedHand
  <2> QED BY <1>5, <1>6, <2>1 DEF Debt
<1>8. IsFiniteSet(Debt(k)) BY DEF Account
<1> DEFINE f == Free(k, bits[k])
           lo == -crashes
           hi == crashes + strays - Cardinality(Debt(k))
<1>9. f \in Int /\ lo \in Int /\ hi \in Int
  <2>1. f \in Nat BY FreeNat
  <2>2. lo \in Int /\ hi \in Int BY <1>8, Room
  <2> QED BY <2>1, <2>2
<1>10. Free(k, bits[k] \cup {n}) = f - 1 BY <1>1, FreeAdd
<1>11. lo' = lo /\ hi' = hi BY <1>2, <1>7
<1>12. Adrift(sp[k], f, SuperMod, lo, hi) /\ Adrift(gp[k], f, GroupMod, lo, hi)
  BY <1>5 DEF Account, Within
<1>13. dsp[k] = sp[k] /\ dgp[k] = gp[k] BY <1>2 DEF Account, Unwritten
<1> HIDE DEF f, lo, hi
<1>14. Adrift(sp'[k], f - 1, SuperMod, lo, hi) /\ Adrift(gp'[k], f - 1, GroupMod, lo, hi)
  BY <1>2, <1>9, <1>12, Mods, AdriftDec
<1>15. Within(sp[k], k, SuperMod, Mapped(k))' /\ Within(gp[k], k, GroupMod, Mapped(k))'
  BY <1>5, <1>10, <1>11, <1>14 DEF Within, lo, hi
<1>16. Within(dsp[k], k, SuperMod, bits[k])' /\ Within(dgp[k], k, GroupMod, bits[k])'
  BY <1>3, <1>11, <1>12, <1>13 DEF Within, lo, hi, f
<1>17. Unwritten(k, {"super"})' /\ Unwritten(k, {"super", "gd"})' BY <1>4 DEF Unwritten
<1> QED BY <1>7, <1>8, <1>15, <1>16, <1>17 DEF Account

(* What deallocate_block and deallocate_inode do before their first put.    *)
LEMMA StartFacts ==
  ASSUME TypeOK, TypeOK', NEW k \in Kind, NEW n \in Numbers(k), StartDeallocate(k, n), Account(k)
  PROVE  /\ Mapped(k) = bits[k] /\ Mapped(k)' = bits[k] \ {n} /\ bits' = bits
         /\ Handed(k) = [m \in Numbers(k) |-> holders[k][m]]
         /\ Handed(k)' = [m \in Numbers(k) |-> holders'[k][m]]
         /\ sp'[k] = Inc(sp[k], SuperMod) /\ gp'[k] = Inc(gp[k], GroupMod)
         /\ dsp'[k] = sp[k] /\ dgp'[k] = gp[k] /\ crashes' = crashes
         /\ Unwritten(k, {"super"})' /\ Unwritten(k, {"super", "gd"})'
<1>1. /\ op = Idle /\ UNCHANGED <<disk, crashes>>
      /\ op' = [pc |-> "super", fn |-> "deallocate", kind |-> k, num |-> n,
                buf |-> bits[k] \ {n}]
      /\ sp'[k] = Inc(sp[k], SuperMod) /\ gp'[k] = Inc(gp[k], GroupMod)
  BY DEF StartDeallocate, TypeOK
<1>2. op' # Idle /\ op'.pc = "super" /\ op'.kind = k /\ op'.fn = "deallocate"
      /\ op'.buf = bits[k] \ {n}
  BY <1>1 DEF Idle
<1>3. bits' = bits /\ dsp' = dsp /\ dgp' = dgp BY <1>1 DEF disk
<1>4. Mapped(k) = bits[k] /\ Mapped(k)' = bits[k] \ {n}
  BY <1>1, <1>2 DEF Mapped
<1>5. \A m : ~InFlight(k, m) /\ ~InFlight(k, m)' BY <1>1, <1>2 DEF InFlight
<1>6. \A m \in Numbers(k) : holders[k][m] \in Nat BY NumbersAny DEF TypeOK
<1>7. Handed(k) = [m \in Numbers(k) |-> holders[k][m]]
  BY <1>5, <1>6 DEF Handed
<1>8. Handed(k)' = [m \in Numbers(k) |-> holders'[k][m]]
  <2>1. \A m \in Numbers(k) : holders'[k][m] \in Nat BY NumbersAny DEF TypeOK
  <2> QED BY <1>5, <2>1 DEF Handed
<1>9. dsp[k] = sp[k] /\ dgp[k] = gp[k] BY <1>1 DEF Account, Unwritten
<1>10. Unwritten(k, {"super"})' /\ Unwritten(k, {"super", "gd"})' BY <1>2 DEF Unwritten
<1> QED BY <1>1, <1>3, <1>4, <1>7, <1>8, <1>9, <1>10

(* A give-back keeps the account, if the room above grows by one whenever   *)
(* the bit was clear already: the count is raised and the bitmap is not.    *)
LEMMA GiveBack ==
  ASSUME TypeOK, TypeOK', NEW k \in Kind, NEW n \in Numbers(k), StartDeallocate(k, n),
         Account(k), IsFiniteSet(Debt(k))',
         NEW lo \in Int, NEW hi \in Int, NEW hi2 \in Int,
         lo = -crashes, hi = crashes + strays - Cardinality(Debt(k)),
         hi2 = crashes' + strays' - Cardinality(Debt(k)'),
         IF n \in bits[k] THEN hi <= hi2 ELSE hi + 1 <= hi2
  PROVE  Account(k)'
<1> DEFINE f == Free(k, bits[k])
<1>1. f \in Int
  <2>1. f \in Nat BY FreeNat
  <2> QED BY <2>1
<1>2. Adrift(sp[k], f, SuperMod, lo, hi) /\ Adrift(gp[k], f, GroupMod, lo, hi)
  BY StartFacts DEF Account, Within
<1>3. lo = -crashes' BY StartFacts
<1>4. hi <= hi2 BY SMT
<1> HIDE DEF f
<1>5. /\ Adrift(Inc(sp[k], SuperMod), f + 1, SuperMod, lo, hi)
      /\ Adrift(Inc(sp[k], SuperMod), f, SuperMod, lo + 1, hi + 1)
      /\ Adrift(Inc(gp[k], GroupMod), f + 1, GroupMod, lo, hi)
      /\ Adrift(Inc(gp[k], GroupMod), f, GroupMod, lo + 1, hi + 1)
  BY <1>1, <1>2, Mods, AdriftInc
<1>6. /\ Adrift(Inc(sp[k], SuperMod), Free(k, bits[k] \ {n}), SuperMod, lo, hi2)
      /\ Adrift(Inc(gp[k], GroupMod), Free(k, bits[k] \ {n}), GroupMod, lo, hi2)
  <2>1. CASE n \in bits[k]
    <3>1. Free(k, bits[k] \ {n}) = f + 1 BY <2>1, FreeRemove DEF f
    <3>2. f + 1 \in Int /\ lo <= lo BY <1>1
    <3> QED BY <1>4, <1>5, <3>1, <3>2, Mods, AdriftWiden
  <2>2. CASE n \notin bits[k]
    <3>1. bits[k] \ {n} = bits[k] BY <2>2
    <3>2. lo <= lo + 1 /\ hi + 1 <= hi2 /\ lo + 1 \in Int /\ hi + 1 \in Int BY <2>2
    <3>3. /\ Adrift(Inc(sp[k], SuperMod), f, SuperMod, lo, hi2)
          /\ Adrift(Inc(gp[k], GroupMod), f, GroupMod, lo, hi2)
      BY <1>1, <1>5, <3>2, Mods, AdriftWiden
    <3> QED BY <3>1, <3>3 DEF f
  <2> QED BY <2>1, <2>2
<1>7. Adrift(sp[k], f, SuperMod, lo, hi2) /\ Adrift(gp[k], f, GroupMod, lo, hi2)
  <2>1. lo <= lo OBVIOUS
  <2> QED BY <1>1, <1>2, <1>4, <2>1, Mods, AdriftWiden
<1>8. Within(sp[k], k, SuperMod, Mapped(k))' /\ Within(gp[k], k, GroupMod, Mapped(k))'
  BY <1>3, <1>6, StartFacts DEF Within
<1>9. Within(dsp[k], k, SuperMod, bits[k])' /\ Within(dgp[k], k, GroupMod, bits[k])'
  BY <1>3, <1>7, StartFacts DEF Within, f
<1> QED BY <1>8, <1>9, StartFacts DEF Account

(* A holder gives back: the bit was set and all move together, or it was    *)
(* clear and the debt pays for the extra count.                             *)
LEMMA DeallocateAccount ==
  ASSUME TypeOK, TypeOK', NEW k \in Kind, NEW n \in Numbers(k), Deallocate(k, n), Account(k)
  PROVE  Account(k)'
<1> DEFINE h == Handed(k)
           g == Handed(k)'
<1>1. StartDeallocate(k, n) /\ strays' = strays /\ crashes' = crashes
  BY DEF Deallocate, StartDeallocate
<1>2. h \in [Numbers(k) -> Nat] /\ g \in [Numbers(k) -> Nat]
  <2>1. \A m \in Numbers(k) : holders'[k][m] \in Nat BY NumbersAny DEF TypeOK
  <2> QED BY <1>1, <2>1, HandedType, StartFacts
<1>3. h[n] > 0 /\ g[n] = h[n] - 1 /\ \A m \in Numbers(k) \ {n} : g[m] = h[m]
  <2>1. h = [m \in Numbers(k) |-> holders[k][m]] BY <1>1, StartFacts
  <2>2. g = [m \in Numbers(k) |-> holders'[k][m]] BY <1>1, StartFacts
  <2>3. holders[k][n] > 0 /\ holders' = [holders EXCEPT ![k][n] = @ - 1]
    BY DEF Deallocate
  <2>4. \A m \in Numbers(k) : holders'[k][m] = IF m = n THEN holders[k][n] - 1 ELSE holders[k][m]
    BY <2>3, NumbersAny DEF TypeOK
  <2> HIDE DEF g, h
  <2> QED BY <2>1, <2>2, <2>3, <2>4
<1>4. Debt(k) = Owed(k, h, bits[k]) /\ Debt(k)' = Owed(k, g, bits[k] \ {n})
  BY <1>1, StartFacts DEF Debt
<1>5. IsFiniteSet(Debt(k)) BY DEF Account
<1> DEFINE D == Cardinality(Debt(k))
           D2 == Cardinality(Debt(k)')
<1>6. D \in Nat BY <1>5, FS_CardinalityType
<1>7. crashes \in Nat /\ strays \in Nat BY SizeAssumption DEF TypeOK
<1> HIDE DEF g, h
<1>8. /\ IsFiniteSet(Debt(k)')
      /\ IF n \in bits[k] THEN D2 = D ELSE D2 = D - 1
  <2>1. CASE n \in bits[k]
    <3>0. Owed(k, g, bits[k] \ {n}) = Owed(k, h, bits[k])
      BY <1>2, <1>3, <2>1, OwedBack
    <3>1. Debt(k)' = Debt(k) BY <1>4, <3>0, Zenon
    <3>2. D2 = D /\ IsFiniteSet(Debt(k)') BY <1>5, <3>1
    <3> HIDE DEF D, D2
    <3> QED BY <2>1, <3>2
  <2>2. CASE n \notin bits[k]
    <3>0. /\ <<n, h[n]>> \in Owed(k, h, bits[k])
          /\ Owed(k, g, bits[k] \ {n}) = Owed(k, h, bits[k]) \ {<<n, h[n]>>}
      BY <1>2, <1>3, <2>2, OwedPaid
    <3>1. <<n, h[n]>> \in Debt(k) /\ Debt(k)' = Debt(k) \ {<<n, h[n]>>}
      BY <1>4, <3>0, Zenon
    <3>2. D2 = D - 1 /\ IsFiniteSet(Debt(k)')
      <4> DEFINE S == Debt(k)
                 x == <<n, h[n]>>
      <4>1. x \in S /\ IsFiniteSet(S) BY <1>5, <3>1
      <4>2. IsFiniteSet(S \ {x}) /\ Cardinality(S \ {x}) = Cardinality(S) - 1
        BY <4>1, FS_RemoveElement
      <4> QED BY <3>1, <4>2
    <3> HIDE DEF D, D2
    <3> QED BY <2>2, <3>2
  <2> QED BY <2>1, <2>2
<1>9. D2 \in Nat BY <1>8, FS_CardinalityType
<1> HIDE DEF D, D2
<1> DEFINE lo == -crashes
           hi == crashes + strays - D
           hi2 == crashes' + strays' - D2
<1>10. /\ lo \in Int /\ hi \in Int /\ hi2 \in Int
       /\ IF n \in bits[k] THEN hi <= hi2 ELSE hi + 1 <= hi2
  BY <1>1, <1>6, <1>7, <1>8, <1>9
<1> QED BY <1>1, <1>8, <1>10, GiveBack DEF D, D2

(* A stray free takes the bit from a holder, who is then owed for, or       *)
(* raises the count of a clear number: one more error either way.           *)
LEMMA StrayFreeAccount ==
  ASSUME TypeOK, TypeOK', NEW k \in Kind, NEW n \in Numbers(k), StrayFree(k, n), Account(k)
  PROVE  Account(k)'
<1> DEFINE h == Handed(k)
<1>1. k \in Kind /\ StartDeallocate(k, n) /\ strays' = strays + 1 /\ crashes' = crashes
      /\ holders' = holders
  BY DEF StrayFree, StartDeallocate
<1>2. h \in [Numbers(k) -> Nat] BY <1>1, HandedType
<1>3. Handed(k)' = h BY <1>1, StartFacts
<1>4. Debt(k) = Owed(k, h, bits[k]) /\ Debt(k)' = Owed(k, h, bits[k] \ {n})
  BY <1>1, <1>3, StartFacts DEF Debt
<1>5. IsFiniteSet(Debt(k)) BY DEF Account
<1> DEFINE D == Cardinality(Debt(k))
           D2 == Cardinality(Debt(k)')
<1>6. D \in Nat BY <1>5, FS_CardinalityType
<1>7. crashes \in Nat /\ strays \in Nat BY SizeAssumption DEF TypeOK
<1> HIDE DEF h
<1>8. IsFiniteSet(Debt(k)') /\ D2 <= D + 1 /\ (n \notin bits[k] => D2 = D)
  <2>1. CASE n \in bits[k]
    <3> DEFINE T == Debt(k) \cup {<<n, h[n]>>}
    <3>1. Debt(k)' \subseteq T BY <1>1, <1>2, <1>4, OwedStray
    <3>2. IsFiniteSet(T) /\ (Cardinality(T) = D \/ Cardinality(T) = D + 1)
      BY <1>5, FS_AddElement
    <3>3. IsFiniteSet(Debt(k)') /\ D2 <= Cardinality(T)
      BY <3>1, <3>2, FS_Subset
    <3>4. D2 \in Nat BY <3>3, FS_CardinalityType
    <3> HIDE DEF D, D2, T
    <3> QED BY <1>6, <2>1, <3>2, <3>3, <3>4
  <2>2. CASE n \notin bits[k]
    <3>1. bits[k] \ {n} = bits[k] BY <2>2
    <3>2. Debt(k)' = Debt(k) BY <1>4, <3>1
    <3>3. D2 = D BY <3>2
    <3> HIDE DEF D, D2
    <3> QED BY <1>5, <1>6, <3>2, <3>3
  <2> QED BY <2>1, <2>2
<1>9. D2 \in Nat BY <1>8, FS_CardinalityType
<1> HIDE DEF D, D2
<1> DEFINE lo == -crashes
           hi == crashes + strays - D
           hi2 == crashes' + strays' - D2
<1>10. /\ lo \in Int /\ hi \in Int /\ hi2 \in Int
       /\ IF n \in bits[k] THEN hi <= hi2 ELSE hi + 1 <= hi2
  BY <1>1, <1>6, <1>7, <1>8, <1>9
<1>11. Account(k)'
  <2> HIDE DEF lo, hi, hi2
  <2>1. lo = -crashes /\ hi = crashes + strays - Cardinality(Debt(k))
        /\ hi2 = crashes' + strays' - Cardinality(Debt(k)')
    BY DEF lo, hi, hi2, D, D2
  <2> QED BY <1>1, <1>8, <1>10, <2>1, GiveBack
<1> QED BY <1>11

(* A kill drops the number in hand and what the disk had not got yet: the   *)
(* bitmap may miss one bit, and the debt can only shrink.                   *)
LEMMA CrashAccount ==
  ASSUME TypeOK, TypeOK', Buffered, Crash, NEW k \in Kind, Account(k)
  PROVE  Account(k)'
<1>0. /\ op # Idle /\ op \in Calls /\ op' = Idle /\ crashes' = crashes + 1 /\ strays' = strays
      /\ sp' = dsp /\ gp' = dgp /\ dsp' = dsp /\ dgp' = dgp /\ bits' = bits /\ holders' = holders
  BY DEF Crash, TypeOK, disk
<1>7. crashes \in Nat /\ strays \in Nat BY SizeAssumption DEF TypeOK
<1>1. CASE op.kind # k
  <2>1. dsp[k] = sp[k] /\ dgp[k] = gp[k] BY <1>1 DEF Account, Unwritten
  <2>2. Later BY <1>0, <1>7 DEF Later
  <2> QED BY <1>0, <1>1, <2>1, <2>2, OtherKind
<1>2. CASE op.kind = k
  <2> DEFINE h == Handed(k)
             g == Handed(k)'
             b == Mapped(k)
             n == op.num
             D == Cardinality(Debt(k))
             D2 == Cardinality(Debt(k)')
  <2>1. Mapped(k)' = bits[k] /\ n \in Numbers(k) BY <1>0, <1>2 DEF Mapped, TypeOK
  <2>2. b \in {bits[k], bits[k] \cup {n}, bits[k] \ {n}}
    BY <1>0, <1>2 DEF Mapped, Buffered
  <2>3. \A m \in Numbers(k) :
          /\ holders[k][m] \in Nat /\ g[m] = holders[k][m]
          /\ h[m] = holders[k][m] + (IF InFlight(k, m) THEN 1 ELSE 0)
    <3>1. \A m : ~InFlight(k, m)' BY <1>0 DEF InFlight
    <3> QED BY <1>0, <3>1, NumbersAny DEF Handed, TypeOK
  <2>4. \A m \in Numbers(k) :
          g[m] + (IF m \in b THEN 1 ELSE 0) <= h[m] + (IF m \in bits[k] THEN 1 ELSE 0)
    <3>1. \A m \in Numbers(k) : m \in b => m \in bits[k] \/ InFlight(k, m)
      BY <1>0, <1>2 DEF Mapped, Buffered, InFlight, Calls
    <3> HIDE DEF h, g, b
    <3> QED BY <2>3, <3>1
  <2>5. h \in [Numbers(k) -> Nat] /\ g \in [Numbers(k) -> Nat]
    <3>1. \A m : ~InFlight(k, m)' BY <1>0 DEF InFlight
    <3>2. g = [m \in Numbers(k) |-> holders[k][m] + 0] BY <1>0, <3>1 DEF Handed
    <3>3. g \in [Numbers(k) -> Nat] BY <2>3, <3>2
    <3> QED BY <3>3, HandedType
  <2>6. Debt(k)' \subseteq Debt(k)
    <3>1. Debt(k) = Owed(k, h, b) /\ Debt(k)' = Owed(k, g, bits[k]) BY <2>1 DEF Debt
    <3> HIDE DEF h, g, b
    <3> QED BY <2>4, <2>5, <3>1, OwedLess
  <2>7. IsFiniteSet(Debt(k)) BY DEF Account
  <2>8. IsFiniteSet(Debt(k)') /\ D2 <= D BY <2>6, <2>7, FS_Subset
  <2>9. D \in Nat /\ D2 \in Nat BY <2>7, <2>8, FS_CardinalityType
  <2> DEFINE f == Free(k, b)
             f2 == Free(k, bits[k])
             lo == -crashes
             hi == crashes + strays - D
  <2>10. f \in Int /\ f2 \in f-1..f+1 /\ f2 \in Int
    <3>1. Free(k, bits[k]) \in Nat /\ Free(k, b) \in Nat BY FreeNat
    <3>2. CASE b = bits[k]
      <4>1. Free(k, bits[k]) \in Free(k, bits[k])-1..Free(k, bits[k])+1 BY <3>1
      <4> QED BY <3>1, <3>2, <4>1
    <3>3. CASE b = bits[k] \cup {n}
      <4>1. Free(k, bits[k]) \in Free(k, bits[k] \cup {n})-1..Free(k, bits[k] \cup {n})+1
        BY <2>1, FreeNear
      <4> QED BY <3>1, <3>3, <4>1
    <3>4. CASE b = bits[k] \ {n}
      <4>1. Free(k, bits[k]) \in Free(k, bits[k] \ {n})-1..Free(k, bits[k] \ {n})+1
        BY <2>1, FreeNear
      <4> QED BY <3>1, <3>4, <4>1
    <3> QED BY <2>2, <3>2, <3>3, <3>4
  <2> HIDE DEF D, D2
  <2>11. lo \in Int /\ hi \in Int BY <1>7, <2>9
  <2>12. Adrift(sp[k], f, SuperMod, lo, hi) /\ Adrift(gp[k], f, GroupMod, lo, hi)
    BY DEF Account, Within, D
  <2>13. /\ Adrift(dsp[k], f2, SuperMod, lo, hi) \/ dsp[k] = sp[k]
         /\ Adrift(dgp[k], f2, GroupMod, lo, hi) \/ dgp[k] = gp[k]
    BY DEF Account, Within, D
  <2>14. /\ -crashes' = lo - 1 /\ hi + 1 <= crashes' + strays' - D2
         /\ crashes' + strays' - D2 \in Int
    BY <1>0, <1>7, <2>8, <2>9 DEF D, D2
  <2> DEFINE hi2 == crashes' + strays' - D2
  <2> HIDE DEF f, f2, lo, hi
  <2>15. lo - 1 \in Int /\ lo - 1 <= lo /\ hi <= hi + 1 /\ hi + 1 \in Int BY <2>11
  <2>16. f2 \in f2-1..f2+1 BY <2>10
  <2>17. Adrift(dsp[k], f2, SuperMod, lo - 1, hi + 1)
    BY <2>10, <2>11, <2>12, <2>13, <2>16, Mods, AdriftShift
  <2>18. Adrift(dgp[k], f2, GroupMod, lo - 1, hi + 1)
    BY <2>10, <2>11, <2>12, <2>13, <2>16, Mods, AdriftShift
  <2>19. lo - 1 <= lo - 1 BY <2>11
  <2>20. Adrift(dsp[k], f2, SuperMod, lo - 1, hi2) /\ Adrift(dgp[k], f2, GroupMod, lo - 1, hi2)
    BY <2>10, <2>14, <2>15, <2>17, <2>18, <2>19, Mods, AdriftWiden
  <2>21. Within(sp[k], k, SuperMod, Mapped(k))' /\ Within(gp[k], k, GroupMod, Mapped(k))'
    BY <1>0, <2>1, <2>14, <2>20 DEF Within, f2, D2
  <2>22. ~Unwritten(k, {"super"})' /\ ~Unwritten(k, {"super", "gd"})' BY <1>0 DEF Unwritten
  <2> QED BY <1>0, <2>8, <2>21, <2>22 DEF Account
<1> QED BY <1>1, <1>2

-----------------------------------------------------------------------------
(* mkfs leaves exact counts, and no debt. *)
LEMMA InitLedger == Init => Ledger
<1> SUFFICES ASSUME Init, NEW k \in Kind PROVE Account(k)
  BY DEF Ledger
<1>1. op = Idle /\ crashes = 0 /\ strays = 0
      /\ sp[k] = Free(k, bits[k]) /\ gp[k] = sp[k] /\ dsp[k] = sp[k] /\ dgp[k] = sp[k]
  BY DEF Init, Free, Clear
<1>2. Mapped(k) = bits[k] /\ ~Unwritten(k, {"super"}) /\ ~Unwritten(k, {"super", "gd"})
  BY <1>1 DEF Mapped, Unwritten
<1>3. \A n \in Numbers(k) : Handed(k)[n] = IF n \in bits[k] THEN 1 ELSE 0
  BY <1>1, NumbersAny DEF Init, Handed, InFlight
<1>4. Debt(k) = {}
  <2>1. \A d \in Numbers(k) \X (Nat \ {0}) :
          ~(d[2] + (IF d[1] \in bits[k] THEN 1 ELSE 0) <= Handed(k)[d[1]])
    BY <1>3
  <2> QED BY <1>2, <2>1 DEF Debt, Owed
<1>5. IsFiniteSet(Debt(k)) /\ Cardinality(Debt(k)) = 0 BY <1>4, FS_EmptySet
<1>6. sp[k] % SuperMod = sp[k] /\ sp[k] % GroupMod = sp[k]
  <2>1. sp[k] \in 0..SuperMod-1 /\ sp[k] \in 0..GroupMod-1
    BY <1>1, FreeCountFits DEF Free, Clear
  <2>2. (SuperMod * 0 + sp[k]) % SuperMod = sp[k] /\ (GroupMod * 0 + sp[k]) % GroupMod = sp[k]
    BY <2>1, Mods, Remainder
  <2>3. SuperMod * 0 + sp[k] = sp[k] /\ GroupMod * 0 + sp[k] = sp[k] BY <2>1, Mods
  <2> QED BY <2>2, <2>3
<1>7. Adrift(sp[k], Free(k, bits[k]), SuperMod, 0, 0) /\ Adrift(sp[k], Free(k, bits[k]), GroupMod, 0, 0)
  <2> DEFINE f == Free(k, bits[k])
  <2>1. f \in Nat BY FreeNat
  <2>2. f = sp[k] BY <1>1
  <2> HIDE DEF f
  <2>3. 0 \in 0..0 /\ f + 0 = f BY <2>1
  <2>4. f % SuperMod = f /\ f % GroupMod = f BY <1>6, <2>2
  <2>5. sp[k] = (f + 0) % SuperMod /\ sp[k] = (f + 0) % GroupMod BY <2>2, <2>3, <2>4
  <2>6. Adrift(sp[k], f, SuperMod, 0, 0) /\ Adrift(sp[k], f, GroupMod, 0, 0)
    BY <2>3, <2>5 DEF Adrift
  <2> QED BY <2>6 DEF f
<1> DEFINE lo == -crashes
           hi == crashes + strays - Cardinality(Debt(k))
<1>8. lo \in Int /\ lo <= 0 /\ hi \in Int /\ 0 <= hi
  <2>1. ASSUME NEW x \in Nat, NEW y \in Nat, NEW d \in Nat, x = 0, y = 0, d = 0
        PROVE  -x \in Int /\ -x <= 0 /\ x + y - d \in Int /\ 0 <= x + y - d
    <3>1. ASSUME NEW z \in Nat PROVE -z \in Int /\ -z <= 0 OBVIOUS
    <3>2. x + y - d \in Int /\ 0 <= x + y - d BY <2>1
    <3> QED BY <3>1, <3>2
  <2> QED BY <1>1, <1>5, <2>1
<1>9. Within(sp[k], k, SuperMod, Mapped(k)) /\ Within(gp[k], k, GroupMod, Mapped(k))
  <2> HIDE DEF lo, hi
  <2>1. Free(k, bits[k]) \in Int
    <3>1. Free(k, bits[k]) \in Nat BY FreeNat
    <3> QED BY <3>1
  <2>2. /\ Adrift(sp[k], Free(k, bits[k]), SuperMod, lo, hi)
        /\ Adrift(sp[k], Free(k, bits[k]), GroupMod, lo, hi)
    BY <1>7, <1>8, <2>1, Mods, AdriftWiden
  <2> QED BY <1>1, <1>2, <2>2 DEF Within, lo, hi
<1> QED BY <1>1, <1>2, <1>5, <1>9 DEF Account

(* Every step keeps the account of each kind. *)
LEMMA StepLedger == CountInv /\ [Next]_vars => CountInv'
<1> SUFFICES ASSUME CountInv, [Next]_vars PROVE CountInv' OBVIOUS
<1>0. ExclusiveInv /\ ExclusiveInv' /\ TypeOK /\ TypeOK' /\ Buffered /\ \A k \in Kind : Account(k)
  BY StepExclusive DEF CountInv, ExclusiveInv, Ledger
<1> SUFFICES ASSUME NEW j \in Kind PROVE Account(j)'
  BY <1>0 DEF CountInv, Ledger
<1>t. crashes \in Nat /\ strays \in Nat BY <1>0, SizeAssumption DEF TypeOK
<1>1. ASSUME NEW k \in Kind, Allocate(k) PROVE Account(j)'
  <2>1. CASE j = k BY <1>0, <1>1, <2>1, AllocateAccount
  <2>2. CASE j # k
    <3>1. op = Idle /\ op'.kind = k /\ UNCHANGED <<disk, holders, crashes, strays>>
      BY <1>1 DEF Allocate
    <3>2. sp'[j] = sp[j] /\ gp'[j] = gp[j] BY <1>0, <1>1, <2>2 DEF Allocate, TypeOK
    <3>3. Later BY <1>t, <3>1 DEF Later
    <3> QED BY <1>0, <2>2, <3>1, <3>2, <3>3, OtherKind DEF disk
  <2> QED BY <2>1, <2>2
<1>2. ASSUME NEW k \in Kind, NEW n \in Numbers(k), Deallocate(k, n) PROVE Account(j)'
  <2>1. CASE j = k BY <1>0, <1>2, <2>1, DeallocateAccount
  <2>2. CASE j # k
    <3>1. op = Idle /\ op'.kind = k /\ UNCHANGED <<disk, crashes, strays>>
      BY <1>2 DEF Deallocate, StartDeallocate
    <3>2. sp'[j] = sp[j] /\ gp'[j] = gp[j] /\ holders'[j] = holders[j]
      BY <1>0, <1>2, <2>2 DEF Deallocate, StartDeallocate, TypeOK
    <3>3. Later BY <1>t, <3>1 DEF Later
    <3> QED BY <1>0, <2>2, <3>1, <3>2, <3>3, OtherKind DEF disk
  <2> QED BY <2>1, <2>2
<1>3. ASSUME NEW k \in Kind, NEW n \in Numbers(k), StrayFree(k, n) PROVE Account(j)'
  <2>1. CASE j = k BY <1>0, <1>3, <2>1, StrayFreeAccount
  <2>2. CASE j # k
    <3>1. /\ op = Idle /\ op'.kind = k /\ UNCHANGED <<disk, crashes, holders>>
          /\ strays' = strays + 1
      BY <1>3 DEF StrayFree, StartDeallocate
    <3>2. sp'[j] = sp[j] /\ gp'[j] = gp[j]
      BY <1>0, <1>3, <2>2 DEF StrayFree, StartDeallocate, TypeOK
    <3>3. Later BY <1>t, <3>1 DEF Later
    <3> QED BY <1>0, <2>2, <3>1, <3>2, <3>3, OtherKind DEF disk
  <2> QED BY <2>1, <2>2
<1>4. CASE PutSuper BY <1>0, <1>4, PutSuperAccount
<1>5. CASE PutGroup BY <1>0, <1>5, PutGroupAccount
<1>6. CASE PutMap BY <1>0, <1>6, PutMapAccount
<1>7. CASE ClearBlock BY <1>0, <1>7, ClearBlockAccount
<1>8. ASSUME UNCHANGED <<sp, gp, dsp, dgp, bits, op, holders, crashes, strays>>
      PROVE  Account(j)'
  <2>1. Debt(j)' = Debt(j) /\ Mapped(j)' = Mapped(j)
    BY <1>8 DEF Debt, Mapped, Handed, InFlight
  <2> QED BY <1>0, <1>8, <2>1 DEF Account, Within, Unwritten
<1>10. ASSUME NEW n \in Numbers("block"), WriteBlock(n) PROVE Account(j)'
  BY <1>8, <1>10 DEF WriteBlock
<1>11. CASE UNCHANGED vars
  BY <1>8, <1>11 DEF vars
<1>9. CASE Crash BY <1>0, <1>9, CrashAccount
<1> QED BY <1>1, <1>2, <1>3, <1>4, <1>5, <1>6, <1>7, <1>9, <1>10, <1>11 DEF Next

(* Between calls, each of the four free counts is off by no more than the   *)
(* kills and stray frees so far, for every size of device and every width   *)
(* of the counters: the unjournaled writes never compound.                  *)
THEOREM CountsOff == Spec => []CountsBounded
<1>1. Init => CountInv BY InitExclusive, InitLedger DEF CountInv
<1>2. CountInv /\ [Next]_vars => CountInv' BY StepLedger
<1>3. CountInv => CountsBounded
  <2> SUFFICES ASSUME CountInv, op = Idle, NEW k \in Kind
               PROVE  /\ Agrees(sp[k], k, SuperMod) /\ dsp[k] = sp[k]
                      /\ Agrees(gp[k], k, GroupMod) /\ dgp[k] = gp[k]
    BY DEF CountsBounded
  <2>1. TypeOK /\ Account(k) BY DEF CountInv, ExclusiveInv, Ledger
  <2>2. Mapped(k) = bits[k] /\ dsp[k] = sp[k] /\ dgp[k] = gp[k]
    BY <2>1 DEF Mapped, Account, Unwritten
  <2> DEFINE D == Cardinality(Debt(k))
  <2>3. D \in Nat BY <2>1, FS_CardinalityType DEF Account
  <2>4. crashes \in Nat /\ strays \in Nat BY <2>1, SizeAssumption DEF TypeOK
  <2>5. /\ Adrift(sp[k], Free(k, bits[k]), SuperMod, -crashes, crashes + strays - D)
        /\ Adrift(gp[k], Free(k, bits[k]), GroupMod, -crashes, crashes + strays - D)
    BY <2>1, <2>2 DEF Account, Within
  <2> HIDE DEF D
  <2>6. -crashes..(crashes + strays - D) \subseteq -crashes..(crashes + strays)
    BY <2>3, <2>4
  <2> QED BY <2>2, <2>5, <2>6 DEF Adrift, Agrees, Free, Clear
<1> QED BY <1>1, <1>2, <1>3, PTL DEF Spec
=============================================================================
