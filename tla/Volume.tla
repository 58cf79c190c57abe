------------------------------- MODULE Volume -------------------------------
(***************************************************************************)
(* Files and a directory on one device: BlockMap and DirBlocks over one    *)
(* bitmap.  Several ways lead to a block with two users, and then what one *)
(* of them does is done to the other.  `harmed' is who has met one of      *)
(* them: the claims are about everybody else.                              *)
(***************************************************************************)
EXTENDS BlockMap, DirBlocks

CONSTANTS
  Setup,     \* what the program starts with: sizes of the files, blocks of others,
             \* names the user uses, times the program may be killed
  MaxAfter,  \* bound: steps once somebody is harmed
  Lost       \* contents nobody knows

ASSUME VolumeAssumption == 
  /\ Setup \subseteq [size : [File -> Nat], others : SUBSET Block, names : SUBSET Name, kills : Nat]
  /\ MaxAfter \in Nat

VARIABLES
  harmed,  \* history: files, and Here, that may have lost contents
  using,   \* the names of the setup
  after    \* steps since somebody was harmed

vars == <<marked, number, chain, fileVars, dirVars, harmed, using, after>>
Here == 0   \* the directory, among the files' numbers
User == File \cup {Here}
MapOf(o) == IF o = Here THEN dir ELSE inode[o].map
Hold(o) == Reach(number, MapOf(o))

Init ==
  /\ \E s \in Setup : FileInit(MadeDir(s.others), s.size, s.kills) /\ using = s.names
  /\ DirInit /\ harmed = {} /\ after = 0

-----------------------------------------------------------------------------
(* What a step changes beside the blocks of `own', and who uses any of it.    *)
Touched(own) ==
  own \cup (marked \ marked')
      \cup {b \in Block : number'[b] # number[b] \/ chain'[b] # chain[b]}
Hurt(o, own) ==
  IF o \notin harmed THEN {} ELSE {p \in User \ {o} : Hold(p) \cap Touched(own) # {}}

(* Files the image gives blocks that are free since.                         *)
Dangling(s) == {f \in s : image[f].map # NoBlock}
FileStep == ~hung /\ UNCHANGED dirVars

VClear(f) ==
  /\ FileStep /\ (Clear(f) \/ OpenRefused(f))
  /\ harmed' = (harmed \ {f}) \cup Hurt(f, Covered(number, inode[f].map))
VPut(f) == FileStep /\ Put(f) /\ UNCHANGED harmed
VSave(f) == FileStep /\ Save(f) /\ UNCHANGED harmed
VForget(f) == FileStep /\ Forget(f) /\ harmed' = harmed \cup Dangling({f})
VOpenAppend(f) == FileStep /\ OpenAppend(f) /\ UNCHANGED harmed

(* The copy is what the source was unless it was written from a stale offset  *)
(* or the source was lost, if only with the blocks of the destination.       *)
VCp(i, j) ==
  /\ FileStep /\ Cp(i, j)
  /\ LET hurt == Hurt(j, Covered(number, inode[j].map))
         whole == i = j \/ (offset = 0 /\ i \notin harmed \cup hurt)
     IN harmed' = (harmed \ {j}) \cup hurt \cup (IF whole THEN {} ELSE {j})

VKill ==
  /\ KillFiles /\ UNCHANGED dir /\ hung' = FALSE
  /\ harmed' = harmed \cup Dangling(open \cup refused)
VCpKilled(i, j) ==
  /\ FileStep /\ CpKilled(i, j)
  /\ harmed' = harmed \cup Hurt(j, Covered(number, inode[j].map)) \cup Dangling(open \cup refused \cup {j})

DirStep(n) ==
  /\ UNCHANGED fileVars
  /\ harmed' = harmed \cup Hurt(Here, {})
                 \cup (IF Breaks(n) \/ Outgrows(n) THEN {Here} ELSE {})
VFind(n) == Find(n) /\ UNCHANGED <<fileVars, harmed>>
VEnter(n) == EnterEntry(n) /\ DirStep(n)
VRemove(n) == RemoveEntry(n) /\ DirStep(n)

Next ==
  /\ after < MaxAfter
  /\ \/ \E f \in File : VClear(f)
     \/ \E f \in File : VPut(f)
     \/ \E f \in File : VSave(f)
     \/ \E f \in File : VForget(f)
     \/ \E f \in File : VOpenAppend(f)
     \/ \E i, j \in File : VCp(i, j)
     \/ VKill
     \/ \E i, j \in File : VCpKilled(i, j)
     \/ \E n \in using : VFind(n)
     \/ \E n \in using : VEnter(n)
     \/ \E n \in using : VRemove(n)
  /\ UNCHANGED using /\ after' = IF harmed = {} /\ after = 0 THEN 0 ELSE after + 1

Spec == Init /\ [][Next]_vars

-----------------------------------------------------------------------------
TypeOK ==
  /\ marked \subseteq Block
  /\ number \in [Number -> [Unit -> Int]]
  /\ chain \in [Number -> Seq(Entry)]
  /\ inode \in [File -> Inode] /\ image \in [File -> Inode]
  /\ open \subseteq File /\ refused \subseteq File /\ offset \in Nat /\ kills \in Nat
  /\ dir \in Map /\ hung \in BOOLEAN
  /\ harmed \subseteq User /\ using \subseteq Name /\ after \in 0..MaxAfter

(* A file has as many blocks of each kind as its size asks for, none twice.   *)
Whole(f) ==
  LET n == Ceil(inode[f].size)
      m == inode[f].map
      mid == Middle(number, m)
  IN /\ Cardinality(Data(number, m) \ {0}) = n
     /\ (m[IND] # 0) = (n > NUM_DIRECT)
     /\ (m[DBL] # 0) = (n > NUM_DIRECT + PER_BLOCK)
     /\ Cardinality(Hold(f)) =
          n + Cardinality({k \in {IND, DBL} : m[k] # 0}) + Cardinality(mid)

(* What mywrite, clear_blocks and enter_dir_entry together keep: the blocks   *)
(* i_block leads to are marked and nobody else's, and files are whole.  (And  *)
(* everything is of its type: all numbers are of the device, no entry is     *)
(* empty or longer than its block.)                                          *)
Owned ==
  /\ TypeOK
  /\ \A o \in User \ harmed : Hold(o) \subseteq marked
  /\ \A f \in File \ harmed : Whole(f)
  /\ \A o, p \in User \ harmed : o # p => Hold(o) \cap Hold(p) = {}

(* enter_dir_entry and remove_dir_entry leave a chain that reaches exactly to *)
(* the end of the block, with room for each name, and no name twice: that is *)
(* what search, and they themselves, walk by, and never for ever, if the      *)
(* directory met none of the two accidents (a block lost its only entry, a   *)
(* block behind the direct ones).                                            *)
ChainOK ==
  Here \notin harmed =>
    /\ ~hung
    /\ \A k \in Used :
         LET c == chain[dir[k]]
         IN /\ c # <<>> /\ FoldLeft(LAMBDA x, e : x + e.rec_len, 0, c) = DIR_UNITS
            /\ \A e \in ToSet(c) : e.rec_len >= Ideal(e.name)
    /\ \A n \in Name : Cardinality(Has(n)) <= 1

(* Blocks marked that nothing leads to. *)
Left == marked \ UNION {Hold(o) : o \in User}

(* clear_blocks and everything else, kills aside, leave no block marked that  *)
(* nobody leads to but the index blocks below the doubly indirect one.       *)
LeaksOnlyMiddle ==
  [][harmed = {} /\ harmed' = {} /\ kills' = kills =>
       Left' \ Left \subseteq UNION {Middle(number, inode[f].map) : f \in File}]_vars

Promise ==
  INSTANCE Storage WITH
    contents <- [f \in File |-> IF f \in harmed THEN Lost ELSE Contents(number, inode[f])],
    names <- IF Here \in harmed THEN Lost ELSE Names

(* What myread shows of a file is what cp wrote into it last, whatever else   *)
(* was copied, truncated, killed or entered meanwhile.                       *)
FilesRefine == Promise!FilesSpec

(* What search finds are the names entered and not removed. *)
NamesRefine == Promise!NamesSpec
=============================================================================
