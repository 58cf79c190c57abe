--------------------------- MODULE NamespaceProofs --------------------------
(***************************************************************************)
(* Proofs about Namespace, for devices of every size, every set of names   *)
(* and every number of kills: names lead to inodes that are marked, blocks *)
(* have one owner, and the directories are a tree.                         *)
(*                                                                         *)
(* A command is a sequence of file systems.  Each of them is good, or lies *)
(* in the middle of a command that frees or links, where a kill is fatal;  *)
(* the last one is good unless the command did harm.  What the commands    *)
(* are made of keeps a file system good, in lemmas of their own: an inode  *)
(* replaced by another, an entry entered or removed, a restart.            *)
(***************************************************************************)
EXTENDS Namespace, FiniteSetTheorems, WellFoundedInduction, TLAPS

(* Link counts go round.                                                     *)
LEMMA Rounding ==
  /\ LinkMod \in Nat /\ LinkMod > 2 /\ 0..LinkMod-1 \subseteq Nat
  /\ \A x \in Nat : x % LinkMod \in 0..LinkMod-1 /\ (x < LinkMod => x % LinkMod = x)
  /\ \A x \in 1..LinkMod-1 : (x + LinkMod - 1) % LinkMod = x - 1
<1>1. ASSUME NEW M \in Nat, M > 0, NEW x \in Nat PROVE x % M \in 0..M-1 BY <1>1
<1>2. ASSUME NEW M \in Nat, M > 0, NEW x \in Nat, x < M PROVE x % M = x BY <1>2
<1>3. LinkMod \in Nat /\ LinkMod > 2 /\ 0..LinkMod-1 \subseteq Nat BY DEF LinkMod
<1>4. ASSUME NEW M \in Nat, M > 0, NEW y \in Nat, y < M PROVE (y + M) % M = y BY <1>4
<1>5. \A x \in 1..LinkMod-1 : (x + LinkMod - 1) % LinkMod = x - 1
  <2>1. ASSUME NEW x \in 1..LinkMod-1
        PROVE  x + LinkMod - 1 = (x - 1) + LinkMod /\ x - 1 \in Nat /\ x - 1 < LinkMod
    BY <1>3
  <2> QED BY <1>3, <1>4, <2>1
<1> QED BY <1>1, <1>2, <1>3, <1>5

USE NamespaceAssumption

-----------------------------------------------------------------------------
(* What holds of a file system at every moment, but for the middle of a      *)
(* command that frees or links.  Content: what a data block can hold.        *)
Content == {q \in Seq(Entry) : Len(q) <= Room}
FS == [imap : SUBSET Ino, bmap : SUBSET Block, inode : [Ino -> Inode], table : [Ino -> Inode],
       data : [Block -> Content]]
Live(s) == {d \in s.imap : s.inode[d].mode = "dir"}

(* An inode that is not marked or not written has no blocks; those of files  *)
(* and directories are marked, each in one place; free ones hold nothing.    *)
Owner(s, i) == s.inode[i].mode \in {"reg", "dir"}
Once(q) == \A j, k \in 1..Len(q) : q[j] = q[k] => j = k
Bare(s) == \A i \in Ino : i \notin s.imap \/ s.inode[i].mode = "none" => s.inode[i].blocks = <<>>
Marks(s) == \A i \in Ino : Owner(s, i) => Once(s.inode[i].blocks) /\ Freed(s, i) \subseteq s.bmap
Disjoint(s) ==
  \A i, j \in Ino : Owner(s, i) /\ Owner(s, j) /\ i # j => Freed(s, i) \cap Freed(s, j) = {}
Clean(s) == \A b \in Block : b \notin s.bmap => s.data[b] = <<>>
Apart(s) == Bare(s) /\ Marks(s) /\ Disjoint(s) /\ Clean(s)

(* The image knows a directory's first blocks, and everything of the rest.   *)
Starts(q, r) == Len(q) <= Len(r) /\ \A k \in 1..Len(q) : q[k] = r[k]
Known(m, t) ==
  /\ t.mode = m.mode /\ (m.mode # "dir" => t = m)
  /\ Starts(t.blocks, m.blocks) /\ (m.blocks # <<>> => t.blocks # <<>>)
OnImage(s) == \A i \in Ino : Known(s.inode[i], s.table[i])

(* Directory d begins with . and .., which is p.                             *)
Dotted(s, d, p) ==
  LET bs == s.inode[d].blocks
      c == s.data[bs[1]]
  IN /\ bs # <<>> /\ Len(c) >= 2
     /\ c[1] = [name |-> ".", ino |-> d] /\ c[2] = [name |-> "..", ino |-> p]

(* No directory has a name twice.  A name leads to an inode that is marked   *)
(* and written; if it is a directory, to one whose .. leads back, and that   *)
(* has no other.                                                             *)
NoTwins(s, d) ==
  \A b, c \in Freed(s, d) : \A j \in 1..Len(s.data[b]), k \in 1..Len(s.data[c]) :
    s.data[b][j].name = s.data[c][k].name => b = c /\ j = k
Leading(s, d, e) ==
  /\ e.ino \in s.imap \ {ROOT_INODE, d} /\ s.inode[e.ino].mode # "none"
  /\ IsDir(s, e.ino) => Dotted(s, e.ino, d)
OneName(s, d) ==
  \A e, g \in NamesIn(s, d) : e.ino = g.ino /\ IsDir(s, e.ino) => e = g
Led(s, d) == NoTwins(s, d) /\ OneName(s, d) /\ \A e \in NamesIn(s, d) : Leading(s, d, e)
Founded(s) == ROOT_INODE \in Live(s) /\ Dotted(s, ROOT_INODE, ROOT_INODE)

(* A file has a link for every name.                                         *)
NamesAt(s, i) == {x \in Live(s) \X Name : [name |-> x[2], ino |-> i] \in Entries(s, x[1])}
Linked(s) ==
  \A i \in s.imap : s.inode[i].mode # "dir" => Cardinality(NamesAt(s, i)) <= s.inode[i].links

Good(s) ==
  /\ s \in FS /\ Apart(s) /\ OnImage(s) /\ Founded(s) /\ Linked(s)
  /\ \A d \in Live(s) : Led(s, d)

(* The directories that names lead to from the root.                         *)
Under(s, x) == IF x \in Live(s) THEN {e.ino : e \in Subdirs(s, x)} ELSE {}
Closed(s, T) == \A x \in T : Under(s, x) \subseteq T
Rooted(s) == {d \in Ino : \A T \in SUBSET Ino : ROOT_INODE \in T /\ Closed(s, T) => d \in T}

(* As long as nothing went wrong all are, and a directory has a link for each*)
(* in it.                                                                    *)
Grown(s) ==
  /\ Live(s) \subseteq Rooted(s)
  /\ \A d \in Live(s) : s.inode[d].links = 2 + Cardinality(Subdirs(s, d))

(* The inductive invariant.                                                 *)
NameInv ==
  /\ fs \in FS /\ cwd \in Ino /\ kills \in 0..MaxKills /\ harm \subseteq Harm
  /\ Going => Good(fs) /\ cwd \in Rooted(fs)
  /\ harm = {} => Grown(fs)

-----------------------------------------------------------------------------
(* A set of natural numbers has a least element.                            *)
LEMMA LeastNat ==
  ASSUME NEW T \in SUBSET Nat, T # {}
  PROVE  Min(T) \in T /\ \A y \in T : Min(T) <= y
<1>1. \E x \in T : \A y \in T : ~(<<y, x>> \in OpToRel(<, Nat))
  BY NatLessThanWellFounded, WFMin
<1>2. PICK x \in T : \A y \in T : ~(<<y, x>> \in OpToRel(<, Nat))
  BY <1>1
<1>3. \A y \in T : ~(y < x)
  BY <1>2 DEF OpToRel
<1>4. \A y \in T : x =< y
  BY <1>3
<1> QED BY <1>4 DEF Min

(* The constants, and what is finite.                                        *)
LEMMA Sizes ==
  /\ Ino \in SUBSET Nat /\ Block \in SUBSET Nat /\ ROOT_INODE \in Ino /\ NoIno \notin Ino
  /\ 1 \in Block /\ 2 \in Block /\ Beyond \notin Block /\ Room \in Nat /\ Room >= 3
  /\ ROOT_INODE + 1 \in Ino /\ ROOT_INODE + 1 # ROOT_INODE
  BY DEF Ino, Block, ROOT_INODE, NoIno, Beyond

(* Inodes, blocks and names are finitely many.                               *)
LEMMA FiniteSets ==
  IsFiniteSet(Ino) /\ IsFiniteSet(Block) /\ IsFiniteSet(Name) /\ IsFiniteSet(Ino \X Name)
<1>1. IsFiniteSet(Ino)
  <2>1. ROOT_INODE \in Int /\ MaxIno \in Int BY DEF ROOT_INODE
  <2> QED BY <2>1, FS_Interval DEF Ino
<1>2. IsFiniteSet(Block) BY FS_Interval DEF Block
<1> QED BY <1>1, <1>2, FS_Product

(* The types of a file system's parts.                                       *)
LEMMA Parts ==
  ASSUME NEW s \in FS
  PROVE  /\ s.imap \subseteq Ino /\ s.bmap \subseteq Block
         /\ s.inode \in [Ino -> Inode] /\ s.table \in [Ino -> Inode]
         /\ s.data \in [Block -> Content]
         /\ \A i \in Ino :
              /\ s.inode[i] \in Inode /\ s.inode[i].blocks \in Seq(Block \cup {Beyond})
              /\ s.inode[i].links \in 0..LinkMod-1
              /\ Freed(s, i) = {s.inode[i].blocks[k] : k \in 1..Len(s.inode[i].blocks)}
              /\ Freed(s, i) \subseteq Block \cup {Beyond}
         /\ \A b \in Block : s.data[b] \in Seq(Entry) /\ Len(s.data[b]) \in 0..Room
<1>1. /\ s.imap \subseteq Ino /\ s.bmap \subseteq Block
      /\ s.inode \in [Ino -> Inode] /\ s.table \in [Ino -> Inode]
      /\ s.data \in [Block -> Content]
  BY DEF FS
<1>2. ASSUME NEW i \in Ino
      PROVE  /\ s.inode[i] \in Inode /\ s.inode[i].blocks \in Seq(Block \cup {Beyond})
             /\ s.inode[i].links \in 0..LinkMod-1
             /\ Freed(s, i) = {s.inode[i].blocks[k] : k \in 1..Len(s.inode[i].blocks)}
             /\ Freed(s, i) \subseteq Block \cup {Beyond}
  <2>1. s.inode[i] \in Inode BY <1>1
  <2>2. s.inode[i].blocks \in Seq(Block \cup {Beyond}) /\ s.inode[i].links \in 0..LinkMod-1
    BY <2>1 DEF Inode
  <2>3. DOMAIN s.inode[i].blocks = 1..Len(s.inode[i].blocks) BY <2>2
  <2> QED BY <2>1, <2>2, <2>3 DEF Freed, ToSet
<1>3. \A b \in Block : s.data[b] \in Seq(Entry) /\ Len(s.data[b]) \in 0..Room
  BY <1>1 DEF Content
<1> QED BY <1>1, <1>2, <1>3

(* The inodes in memory are those of the table but for the directories.      *)
LEMMA GoodParts ==
  ASSUME NEW s, Good(s)
  PROVE  /\ s \in FS /\ Bare(s) /\ Marks(s) /\ Disjoint(s) /\ Clean(s) /\ OnImage(s)
         /\ ROOT_INODE \in Live(s) /\ Dotted(s, ROOT_INODE, ROOT_INODE) /\ Linked(s)
         /\ \A d \in Live(s) :
              /\ d \in Ino /\ Owner(s, d) /\ Freed(s, d) \subseteq Block
              /\ NoTwins(s, d) /\ OneName(s, d) /\ \A e \in NamesIn(s, d) : Leading(s, d, e)
<1>1. s \in FS BY DEF Good
<1>2. \A d \in Live(s) : d \in Ino /\ Owner(s, d)
  BY <1>1, Parts DEF Live, Owner
<1>3. s.bmap \subseteq Block BY <1>1, Parts
<1> QED BY <1>1, <1>2, <1>3 DEF Good, Apart, Founded, Led, Marks

(* The entries of a directory and the names among them.                      *)
LEMMA EntriesAre ==
  ASSUME NEW s \in FS, NEW d \in Ino, Freed(s, d) \subseteq Block
  PROVE  /\ \A e : e \in Entries(s, d) <=> \E b \in Freed(s, d) : \E k \in 1..Len(s.data[b]) : e = s.data[b][k]
         /\ Entries(s, d) \subseteq Entry
         /\ \A e \in Entries(s, d) : e.name \in AllName /\ e.ino \in Ino
<1>1. \A b \in Freed(s, d) : ToSet(s.data[b]) = {s.data[b][k] : k \in 1..Len(s.data[b])}
  <2> TAKE b \in Freed(s, d)
  <2>1. s.data[b] \in Seq(Entry) BY Parts
  <2>2. DOMAIN s.data[b] = 1..Len(s.data[b]) BY <2>1
  <2> QED BY <2>2 DEF ToSet
<1>2. Entries(s, d) = UNION {ToSet(s.data[b]) : b \in Freed(s, d)}
  BY DEF Entries, Freed
<1>3. ASSUME NEW e
      PROVE  e \in Entries(s, d) <=> \E b \in Freed(s, d) : \E k \in 1..Len(s.data[b]) : e = s.data[b][k]
  <2>1. e \in Entries(s, d) <=> \E b \in Freed(s, d) : e \in ToSet(s.data[b]) BY <1>2
  <2>2. ASSUME NEW b \in Freed(s, d)
        PROVE  e \in ToSet(s.data[b]) <=> \E k \in 1..Len(s.data[b]) : e = s.data[b][k]
    <3>1. ToSet(s.data[b]) = {s.data[b][k] : k \in 1..Len(s.data[b])} BY <1>1
    <3> QED BY <3>1
  <2> QED BY <2>1, <2>2
<1>4. Entries(s, d) \subseteq Entry
  <2> SUFFICES ASSUME NEW b \in Freed(s, d), NEW k \in 1..Len(s.data[b]) PROVE s.data[b][k] \in Entry
    BY <1>3
  <2>1. s.data[b] \in Seq(Entry) BY Parts
  <2> QED BY <2>1
<1>5. \A e \in Entry : e.name \in AllName /\ e.ino \in Ino BY DEF Entry
<1> QED BY <1>3, <1>4, <1>5

(* A directory whose blocks are untouched is as it was.                      *)
SameDir(s, r, d) ==
  /\ Freed(r, d) = Freed(s, d) /\ Entries(r, d) = Entries(s, d) /\ NamesIn(r, d) = NamesIn(s, d)
  /\ NoTwins(s, d) => NoTwins(r, d)
  /\ \A p : Dotted(s, d, p) <=> Dotted(r, d, p)

(* A directory is the same if its blocks and what they hold are.             *)
LEMMA Untouched ==
  ASSUME NEW s \in FS, NEW r \in FS, NEW d \in Ino, Freed(s, d) \subseteq Block,
         r.inode[d].blocks = s.inode[d].blocks, \A b \in Freed(s, d) : r.data[b] = s.data[b]
  PROVE  SameDir(s, r, d)
<1>1. Freed(r, d) = Freed(s, d) BY DEF Freed
<1>2. Entries(r, d) = Entries(s, d)
  <2>1. {ToSet(r.data[b]) : b \in Freed(r, d)} = {ToSet(s.data[b]) : b \in Freed(s, d)} BY <1>1
  <2> QED BY <2>1 DEF Entries, Freed
<1>3. NamesIn(r, d) = NamesIn(s, d) BY <1>2 DEF NamesIn
<1>4. ASSUME NoTwins(s, d) PROVE NoTwins(r, d)
  <2> SUFFICES ASSUME NEW b \in Freed(s, d), NEW c \in Freed(s, d),
                      NEW j \in 1..Len(r.data[b]), NEW k \in 1..Len(r.data[c]),
                      r.data[b][j].name = r.data[c][k].name
               PROVE  b = c /\ j = k
    BY <1>1 DEF NoTwins
  <2>1. r.data[b] = s.data[b] /\ r.data[c] = s.data[c] OBVIOUS
  <2> QED BY <1>4, <2>1 DEF NoTwins
<1>5. ASSUME NEW p PROVE Dotted(s, d, p) <=> Dotted(r, d, p)
  <2>1. CASE s.inode[d].blocks = <<>> BY <2>1 DEF Dotted
  <2>2. CASE s.inode[d].blocks # <<>>
    <3>1. s.inode[d].blocks[1] \in Freed(s, d) BY <2>2, Parts
    <3> QED BY <3>1 DEF Dotted
  <2> QED BY <2>1, <2>2
<1> QED BY <1>1, <1>2, <1>3, <1>4, <1>5 DEF SameDir

(* The directories and links of all inodes but those of X are the same.      *)
Off(s, r, X) ==
  \A d \in Ino \ X :
    /\ d \in Live(r) <=> d \in Live(s)
    /\ d \in Live(s) => Subdirs(r, d) = Subdirs(s, d) /\ r.inode[d].links = s.inode[d].links

(* What is off adds up.                                                      *)
LEMMA OffTrans ==
  ASSUME NEW s, NEW r, NEW u, NEW X, NEW Y, X \subseteq Y, Off(s, r, X), Off(r, u, Y)
  PROVE  Off(s, u, Y)
  BY DEF Off

(* A good file system stays good when directories lose names or have none,   *)
(* and what the others lead to stays.                                        *)
Fewer(s, r) ==
  \A d \in Live(r) : NoTwins(r, d) /\ NamesIn(r, d) \subseteq IF d \in Live(s) THEN NamesIn(s, d) ELSE {}
StillLed(s, r) ==
  \A d \in Live(r) : \A e \in NamesIn(r, d) :
    /\ e.ino \in r.imap /\ r.inode[e.ino].mode # "none"
    /\ IsDir(r, e.ino) => IsDir(s, e.ino) /\ (Dotted(s, e.ino, d) => Dotted(r, e.ino, d))
Counted(s, r) ==
  \A i \in r.imap : r.inode[i].mode # "dir" =>
    NamesAt(r, i) = {} \/ Cardinality(NamesAt(s, i)) <= r.inode[i].links

(* An inode then has no more names than before.                              *)
LEMMA NamesAtFewer ==
  ASSUME NEW s \in FS, NEW r \in FS, Fewer(s, r), NEW i \in Ino
  PROVE  /\ NamesAt(r, i) \subseteq NamesAt(s, i)
         /\ IsFiniteSet(NamesAt(r, i)) /\ IsFiniteSet(NamesAt(s, i))
         /\ Cardinality(NamesAt(r, i)) \in Nat /\ Cardinality(NamesAt(s, i)) \in Nat
         /\ Cardinality(NamesAt(r, i)) <= Cardinality(NamesAt(s, i))
<1>1. \A x \in NamesAt(r, i) : x \in NamesAt(s, i)
  <2> TAKE x \in NamesAt(r, i)
  <2> DEFINE e == [name |-> x[2], ino |-> i]
  <2>1. x \in Live(r) \X Name /\ e \in Entries(r, x[1]) BY DEF NamesAt
  <2>2. e \in NamesIn(r, x[1]) BY <2>1 DEF NamesIn
  <2>3. x[1] \in Live(s) /\ e \in NamesIn(s, x[1]) BY <2>1, <2>2 DEF Fewer
  <2> QED BY <2>1, <2>3 DEF NamesAt, NamesIn
<1>2. NamesAt(s, i) \subseteq Ino \X Name
  BY Parts DEF NamesAt, Live
<1>3. IsFiniteSet(NamesAt(s, i)) BY <1>2, FiniteSets, FS_Subset
<1> QED BY <1>1, <1>3, FS_Subset, FS_CardinalityType

(* Good stays good: the frame of the lemmas that follow.                     *)
LEMMA Frame ==
  ASSUME NEW s, Good(s), NEW r \in FS, Apart(r), OnImage(r), Founded(r),
         Fewer(s, r), StillLed(s, r), Counted(s, r)
  PROVE  Good(r)
<1> USE GoodParts
<1>1. ASSUME NEW d \in Live(r) PROVE Led(r, d)
  <2>1. CASE d \in Live(s)
    <3>1. NamesIn(r, d) \subseteq NamesIn(s, d) BY <2>1 DEF Fewer
    <3>2. OneName(r, d) BY <2>1, <3>1 DEF OneName, StillLed
    <3>3. ASSUME NEW e \in NamesIn(r, d) PROVE Leading(r, d, e)
      <4>1. Leading(s, d, e) BY <2>1, <3>1
      <4> QED BY <4>1 DEF Leading, StillLed
    <3> QED BY <3>2, <3>3 DEF Led, Fewer
  <2>2. CASE d \notin Live(s)
    <3>1. NamesIn(r, d) = {} BY <2>2 DEF Fewer
    <3> QED BY <3>1 DEF Led, Fewer, OneName
  <2> QED BY <2>1, <2>2
<1>2. ASSUME NEW i \in r.imap, r.inode[i].mode # "dir"
      PROVE  Cardinality(NamesAt(r, i)) <= r.inode[i].links
  <2>1. i \in Ino /\ r.inode[i].links \in Nat BY Parts
  <2>2. CASE NamesAt(r, i) = {} BY <2>1, <2>2, FS_EmptySet
  <2>3. CASE Cardinality(NamesAt(s, i)) <= r.inode[i].links
    BY <2>1, <2>3, NamesAtFewer
  <2> QED BY <1>2, <2>2, <2>3 DEF Counted
<1> QED BY <1>1, <1>2 DEF Good, Linked

-----------------------------------------------------------------------------
(* Inode i becomes m, in memory and on the image; its blocks are given up,   *)
(* and m has none that another owns.  It is one that no name leads to, or a  *)
(* file that stays one.                                                      *)
Unnamed(s, i) == \A d \in Live(s) : \A e \in NamesIn(s, d) : e.ino # i
IsFile(s, i) == i \in s.imap /\ s.inode[i].mode \in {"reg", "lnk"}
Replaces(s, r, i, m) ==
  /\ r.inode = [s.inode EXCEPT ![i] = m] /\ r.table = [s.table EXCEPT ![i] = m]
  /\ \A j \in Ino \ {i} : j \in r.imap <=> j \in s.imap
  /\ s.bmap \ Freed(s, i) \subseteq r.bmap
  /\ \A b \in Block : r.data[b] = IF b \in Freed(s, i) THEN <<>> ELSE s.data[b]
  /\ \A k \in Ino \ {i} : Owner(s, k) =>
       /\ Freed(s, i) \cap Freed(s, k) = {}
       /\ m.mode \in {"reg", "dir"} => Freed(r, i) \cap Freed(s, k) = {}
  /\ i \notin r.imap \/ m.mode = "none" => m.blocks = <<>>
  /\ m.mode \in {"reg", "dir"} => Once(m.blocks) /\ Freed(r, i) \subseteq r.bmap
  /\ m.mode = "dir" => \A b \in Freed(r, i) : r.data[b] = <<>>
  /\ \/ Unnamed(s, i)
     \/ IsFile(s, i) /\ IsFile(r, i) /\ Cardinality(NamesAt(s, i)) <= m.links

(* Such a replacement keeps the file system good, and the other directories. *)
LEMMA Replaced ==
  ASSUME NEW s, Good(s), NEW r \in FS, NEW i \in Ino \ {ROOT_INODE}, NEW m \in Inode, Replaces(s, r, i, m)
  PROVE  /\ Good(r) /\ Off(s, r, {i})
         /\ \A d \in Live(s) \ {i} : d \in Live(r) /\ SameDir(s, r, d)
<1>1. s \in FS /\ Bare(s) /\ Marks(s) /\ Disjoint(s) /\ Clean(s) /\ OnImage(s) /\ Linked(s)
  BY GoodParts
<1>2. /\ r.inode = [s.inode EXCEPT ![i] = m] /\ r.table = [s.table EXCEPT ![i] = m]
      /\ \A j \in Ino \ {i} : j \in r.imap <=> j \in s.imap
      /\ s.bmap \ Freed(s, i) \subseteq r.bmap
      /\ \A b \in Block : r.data[b] = IF b \in Freed(s, i) THEN <<>> ELSE s.data[b]
  BY DEF Replaces
<1>3. /\ r.inode[i] = m /\ r.table[i] = m
      /\ \A j \in Ino \ {i} : r.inode[j] = s.inode[j] /\ r.table[j] = s.table[j]
  BY <1>1, <1>2, Parts
<1>4. \A j \in Ino \ {i} : Freed(r, j) = Freed(s, j) /\ (Owner(r, j) <=> Owner(s, j))
  BY <1>3 DEF Freed, Owner
<1>5. \A k \in Ino \ {i} : Owner(s, k) =>
        Freed(s, i) \cap Freed(s, k) = {} /\ (Owner(r, i) => Freed(r, i) \cap Freed(s, k) = {})
  BY <1>3 DEF Replaces, Owner
<1>6. Owner(r, i) => Once(r.inode[i].blocks) /\ Freed(r, i) \subseteq r.bmap
  BY <1>3 DEF Replaces, Owner
<1>7. Bare(r)
  BY <1>1, <1>2, <1>3 DEF Bare, Replaces
<1>8. Marks(r)
  BY <1>1, <1>2, <1>3, <1>4, <1>5, <1>6 DEF Marks
<1>9. Disjoint(r)
  <2> SUFFICES ASSUME NEW j \in Ino, NEW k \in Ino, Owner(r, j), Owner(r, k), j # k
               PROVE  Freed(r, j) \cap Freed(r, k) = {}
    BY DEF Disjoint
  <2>1. CASE j # i /\ k # i BY <2>1, <1>1, <1>4 DEF Disjoint
  <2>2. CASE j = i BY <2>2, <1>4, <1>5
  <2>3. CASE k = i BY <2>3, <1>4, <1>5
  <2> QED BY <2>1, <2>2, <2>3
<1>10. Clean(r)
  BY <1>1, <1>2 DEF Clean
<1>11. OnImage(r)
  <2>1. Known(m, m)
    <3>1. m.blocks \in Seq(Block \cup {Beyond}) BY DEF Inode
    <3> QED BY <3>1 DEF Known, Starts
  <2> QED BY <1>1, <1>3, <2>1 DEF OnImage
<1>12. \A d \in Ino \ {i} : d \in Live(r) <=> d \in Live(s)
  BY <1>2, <1>3 DEF Live
<1>13. ASSUME NEW d \in Live(s) \ {i} PROVE SameDir(s, r, d)
  <2>1. d \in Ino /\ Owner(s, d) /\ Freed(s, d) \subseteq Block BY GoodParts
  <2>2. \A b \in Freed(s, d) : r.data[b] = s.data[b] BY <2>1, <1>2, <1>5
  <2> QED BY <1>1, <1>3, <2>1, <2>2, Untouched
<1>14. ASSUME i \in Live(r) PROVE NoTwins(r, i) /\ NamesIn(r, i) = {}
  <2>1. m.mode = "dir" BY <1>3, <1>14 DEF Live
  <2>2. Freed(r, i) \subseteq Block /\ \A b \in Freed(r, i) : r.data[b] = <<>>
    BY <2>1, Parts DEF Replaces
  <2>3. Entries(r, i) = {} BY <2>2, EntriesAre
  <2> QED BY <2>2, <2>3 DEF NoTwins, NamesIn
<1>15. Live(r) \subseteq Ino /\ Live(s) \subseteq Ino
  BY <1>1, Parts DEF Live
<1>16. Fewer(s, r)
  BY <1>12, <1>13, <1>14, <1>15, GoodParts DEF Fewer, SameDir
<1>17. Founded(r)
  BY <1>12, <1>13, GoodParts DEF Founded, SameDir
<1>18. ASSUME NEW d \in Live(r), NEW e \in NamesIn(r, d)
       PROVE  /\ d # i /\ d \in Live(s) /\ e \in NamesIn(s, d) /\ e.ino \in Ino
              /\ e.ino \in r.imap /\ r.inode[e.ino].mode # "none"
              /\ IsDir(r, e.ino) <=> IsDir(s, e.ino)
              /\ IsDir(r, e.ino) => e.ino \in Live(s) \ {i}
  <2>1. d # i /\ d \in Live(s) BY <1>12, <1>14, <1>15, <1>18
  <2>2. e \in NamesIn(s, d) BY <1>13, <1>18, <2>1 DEF SameDir
  <2>3. e.ino \in s.imap /\ s.inode[e.ino].mode # "none" /\ e.ino \in Ino
    BY <2>1, <2>2, <1>1, GoodParts, Parts DEF Leading
  <2>4. CASE e.ino = i
    <3>1. IsFile(s, i) /\ IsFile(r, i) BY <2>1, <2>2, <2>4 DEF Replaces, Unnamed
    <3> QED BY <2>1, <2>2, <2>3, <2>4, <3>1 DEF IsFile, IsDir
  <2>5. CASE e.ino # i
    BY <2>1, <2>2, <2>3, <2>5, <1>2, <1>3 DEF IsDir, Live
  <2> QED BY <2>4, <2>5
<1>19. StillLed(s, r)
  BY <1>13, <1>18 DEF StillLed, SameDir
<1>20. Counted(s, r)
  <2> SUFFICES ASSUME NEW j \in r.imap, r.inode[j].mode # "dir"
               PROVE  NamesAt(r, j) = {} \/ Cardinality(NamesAt(s, j)) <= r.inode[j].links
    BY DEF Counted
  <2>1. j \in Ino BY Parts
  <2>2. CASE j # i
    BY <2>1, <2>2, <1>1, <1>2, <1>3 DEF Linked
  <2>3. CASE j = i /\ Unnamed(s, i)
    <3> SUFFICES ASSUME NEW x \in NamesAt(r, i) PROVE FALSE
      BY <2>3
    <3> DEFINE e == [name |-> x[2], ino |-> i]
    <3>1. x[1] \in Live(r) /\ x[2] \in Name /\ e \in Entries(r, x[1]) BY DEF NamesAt
    <3>2. e \in NamesIn(r, x[1]) BY <3>1 DEF NamesIn
    <3>3. x[1] \in Live(s) /\ e \in NamesIn(s, x[1]) BY <1>18, <3>1, <3>2
    <3> QED BY <2>3, <3>3 DEF Unnamed
  <2>4. CASE j = i /\ ~Unnamed(s, i)
    BY <1>3, <2>4 DEF Replaces
  <2> QED BY <2>2, <2>3, <2>4
<1>21. Off(s, r, {i})
  <2> SUFFICES ASSUME NEW d \in Ino \ {i}, d \in Live(s), d \in Live(r)
               PROVE  Subdirs(r, d) = Subdirs(s, d) /\ r.inode[d].links = s.inode[d].links
    BY <1>12 DEF Off
  <2>1. NamesIn(r, d) = NamesIn(s, d) BY <1>13 DEF SameDir
  <2>2. \A e \in NamesIn(r, d) : IsDir(r, e.ino) <=> IsDir(s, e.ino) BY <1>18
  <2> QED BY <1>3, <2>1, <2>2 DEF Subdirs
<1> QED BY <1>1, <1>7, <1>8, <1>9, <1>10, <1>11, <1>12, <1>13, <1>16, <1>17, <1>19, <1>20, <1>21, Frame, GoodParts
        DEF Apart

(* More may be marked, and the links of a directory may change.              *)
Alike(s, r) ==
  /\ s.imap \subseteq r.imap /\ s.bmap \subseteq r.bmap /\ r.data = s.data
  /\ \A i \in Ino :
       /\ r.inode[i].mode = s.inode[i].mode /\ r.inode[i].blocks = s.inode[i].blocks
       /\ s.inode[i].mode # "dir" => r.inode[i] = s.inode[i]

(* It is good as long as the image knows it, and no directory changes.       *)
LEMMA AlikeGood ==
  ASSUME NEW s, Good(s), NEW r \in FS, Alike(s, r), OnImage(r)
  PROVE  /\ Good(r)
         /\ \A d \in Live(s) : d \in Live(r) /\ SameDir(s, r, d) /\ Subdirs(r, d) = Subdirs(s, d)
         /\ \A d \in s.imap : d \in Live(r) <=> d \in Live(s)
<1>1. /\ s \in FS /\ Bare(s) /\ Marks(s) /\ Disjoint(s) /\ Clean(s) /\ Linked(s)
      /\ s.imap \subseteq Ino /\ r.imap \subseteq Ino
  BY GoodParts, Parts
<1>2. \A i \in Ino : /\ Freed(r, i) = Freed(s, i)
                     /\ Owner(r, i) <=> Owner(s, i)
                     /\ IsDir(r, i) <=> IsDir(s, i)
  BY DEF Alike, Freed, Owner, IsDir
<1>3. Apart(r)
  <2>1. Bare(r) BY <1>1 DEF Bare, Alike
  <2>2. Marks(r) BY <1>1, <1>2 DEF Marks, Alike
  <2>3. Disjoint(r) BY <1>1, <1>2 DEF Disjoint
  <2>4. Clean(r) BY <1>1 DEF Clean, Alike
  <2> QED BY <2>1, <2>2, <2>3, <2>4 DEF Apart
<1>4. \A d \in s.imap : d \in Live(r) <=> d \in Live(s)
  BY <1>1 DEF Live, Alike
<1>5. ASSUME NEW d \in Live(s) PROVE d \in Live(r) /\ SameDir(s, r, d)
  <2>1. d \in Ino /\ Freed(s, d) \subseteq Block /\ d \in s.imap BY GoodParts DEF Live
  <2> QED BY <1>1, <1>4, <2>1, Untouched DEF Alike
<1>6. ASSUME NEW d \in Live(r), d \notin Live(s) PROVE NoTwins(r, d) /\ NamesIn(r, d) = {}
  <2>1. d \in Ino /\ d \notin s.imap BY <1>1, <1>4, <1>6 DEF Live
  <2>2. r.inode[d].blocks = <<>> BY <1>1, <2>1 DEF Alike, Bare
  <2>3. Freed(r, d) = {} BY <2>1, <2>2, Parts
  <2>4. Entries(r, d) = {} BY <2>1, <2>3, EntriesAre
  <2> QED BY <2>3, <2>4 DEF NoTwins, NamesIn
<1>7. Fewer(s, r)
  BY <1>5, <1>6, GoodParts DEF Fewer, SameDir
<1>8. Founded(r)
  BY <1>5, GoodParts DEF Founded, SameDir
<1>9. ASSUME NEW d \in Live(r), NEW e \in NamesIn(r, d)
      PROVE  /\ d \in Live(s) /\ e \in NamesIn(s, d) /\ e.ino \in s.imap /\ s.inode[e.ino].mode # "none"
             /\ IsDir(s, e.ino) => e.ino \in Live(s)
  <2>1. d \in Live(s) BY <1>6, <1>9
  <2>2. e \in NamesIn(s, d) BY <1>5, <1>9, <2>1 DEF SameDir
  <2>3. e.ino \in s.imap /\ s.inode[e.ino].mode # "none" BY <2>1, <2>2, GoodParts DEF Leading
  <2> QED BY <2>1, <2>2, <2>3 DEF Live, IsDir
<1>10. StillLed(s, r)
  <2> SUFFICES ASSUME NEW d \in Live(r), NEW e \in NamesIn(r, d)
               PROVE  /\ e.ino \in r.imap /\ r.inode[e.ino].mode # "none"
                      /\ IsDir(r, e.ino) => IsDir(s, e.ino) /\ (Dotted(s, e.ino, d) => Dotted(r, e.ino, d))
    BY DEF StillLed
  <2>1. e.ino \in s.imap /\ s.inode[e.ino].mode # "none" /\ e.ino \in Ino BY <1>1, <1>9
  <2>2. e.ino \in r.imap /\ r.inode[e.ino].mode # "none" BY <2>1 DEF Alike
  <2>3. IsDir(r, e.ino) => e.ino \in Live(s) /\ IsDir(s, e.ino) BY <1>2, <1>9, <2>1
  <2> QED BY <2>2, <2>3, <1>5 DEF SameDir
<1>11. Counted(s, r)
  <2> SUFFICES ASSUME NEW j \in r.imap, r.inode[j].mode # "dir"
               PROVE  NamesAt(r, j) = {} \/ Cardinality(NamesAt(s, j)) <= r.inode[j].links
    BY DEF Counted
  <2>1. j \in Ino BY <1>1
  <2>2. CASE j \in s.imap BY <2>1, <2>2, <1>1 DEF Linked, Alike
  <2>3. CASE j \notin s.imap
    <3> SUFFICES ASSUME NEW x \in NamesAt(r, j) PROVE FALSE
      OBVIOUS
    <3> DEFINE e == [name |-> x[2], ino |-> j]
    <3>1. x[1] \in Live(r) /\ x[2] \in Name /\ e \in Entries(r, x[1]) BY DEF NamesAt
    <3>2. e \in NamesIn(r, x[1]) BY <3>1 DEF NamesIn
    <3> QED BY <2>3, <3>1, <3>2, <1>9
  <2> QED BY <2>2, <2>3
<1>12. ASSUME NEW d \in Live(s) PROVE Subdirs(r, d) = Subdirs(s, d)
  <2>1. NamesIn(r, d) = NamesIn(s, d) /\ d \in Live(r) BY <1>5 DEF SameDir
  <2>2. \A e \in NamesIn(r, d) : IsDir(r, e.ino) <=> IsDir(s, e.ino)
    BY <2>1, <1>1, <1>2, <1>9
  <2> QED BY <2>1, <2>2 DEF Subdirs
<1> QED BY <1>3, <1>4, <1>5, <1>7, <1>8, <1>10, <1>11, <1>12, Frame

(* A mark, more blocks, an inode written, and a directory's links.           *)
Marking(s, r, i) ==
  r.imap = s.imap \cup {i} /\ r.bmap = s.bmap /\ r.data = s.data /\ r.inode = s.inode /\ r.table = s.table
Allocating(s, r, B) ==
  r.imap = s.imap /\ r.bmap = s.bmap \cup B /\ r.data = s.data /\ r.inode = s.inode /\ r.table = s.table
Writing(s, r, i) ==
  /\ r.imap = s.imap /\ r.bmap = s.bmap /\ r.data = s.data /\ r.inode = s.inode
  /\ r.table = [s.table EXCEPT ![i] = s.inode[i]]
Linking(s, r, i, n) ==
  /\ r.imap = s.imap /\ r.bmap = s.bmap /\ r.data = s.data /\ r.table = s.table
  /\ r.inode = [s.inode EXCEPT ![i] = [s.inode[i] EXCEPT !.links = n]]

(* allocate_inode: another inode is marked; no name leads to it.             *)
LEMMA MarkedGood ==
  ASSUME NEW s, Good(s), NEW r \in FS, NEW i \in Ino \ s.imap, Marking(s, r, i)
  PROVE  /\ Good(r) /\ Off(s, r, {i}) /\ Unnamed(r, i) /\ Unnamed(s, i)
         /\ \A d \in Live(s) : d \in Live(r) /\ SameDir(s, r, d)
<1>1. s \in FS /\ OnImage(s) BY GoodParts
<1>2. r.imap = s.imap \cup {i} /\ r.bmap = s.bmap /\ r.data = s.data /\ r.inode = s.inode /\ r.table = s.table
  BY DEF Marking
<1>3. Alike(s, r) /\ OnImage(r) BY <1>1, <1>2 DEF Alike, OnImage
<1>4. /\ Good(r)
      /\ \A d \in Live(s) : d \in Live(r) /\ SameDir(s, r, d) /\ Subdirs(r, d) = Subdirs(s, d)
  <2>1. Good(r) BY <1>3, AlikeGood
  <2>2. ASSUME NEW d \in Live(s) PROVE d \in Live(r) /\ SameDir(s, r, d) /\ Subdirs(r, d) = Subdirs(s, d)
    BY <1>3, AlikeGood
  <2> QED BY <2>1, <2>2
<1>5. Off(s, r, {i}) BY <1>2, <1>4 DEF Off, Live
<1>8. Bare(s) BY GoodParts
<1>6. Unnamed(s, i) BY GoodParts DEF Unnamed, Leading
<1>7. ASSUME NEW d \in Live(r), NEW e \in NamesIn(r, d) PROVE e.ino # i
  <2>1. CASE d \in Live(s) BY <2>1, <1>4, <1>6, <1>7 DEF SameDir, Unnamed
  <2>2. CASE d \notin Live(s)
    <3>1. d = i BY <2>2, <1>2 DEF Live
    <3>2. Freed(r, d) = {}
      <4>1. i \in Ino /\ i \notin s.imap OBVIOUS
      <4>2. s.inode[i].blocks = <<>> BY <1>8, <4>1 DEF Bare
      <4>3. r.inode[d].blocks = <<>> BY <1>2, <3>1, <4>2
      <4>4. ToSet(<<>>) = {} BY DEF ToSet
      <4> QED BY <4>3, <4>4 DEF Freed
    <3>3. Entries(r, d) = {} BY <3>1, <3>2, EntriesAre
    <3> QED BY <3>3, <1>7 DEF NamesIn
  <2> QED BY <2>1, <2>2
<1> QED BY <1>4, <1>5, <1>6, <1>7 DEF Unnamed

(* allocate_block: blocks are marked.                                        *)
LEMMA BlocksGood ==
  ASSUME NEW s, Good(s), NEW r \in FS, NEW B \in SUBSET Block, Allocating(s, r, B)
  PROVE  Good(r) /\ Off(s, r, {}) /\ \A d \in Live(s) : d \in Live(r) /\ SameDir(s, r, d)
<1>1. s \in FS /\ OnImage(s) BY GoodParts
<1>2. r.imap = s.imap /\ r.bmap = s.bmap \cup B /\ r.data = s.data /\ r.inode = s.inode /\ r.table = s.table
  BY DEF Allocating
<1>3. Alike(s, r) /\ OnImage(r) BY <1>1, <1>2 DEF Alike, OnImage
<1>4. /\ Good(r)
      /\ \A d \in Live(s) : d \in Live(r) /\ SameDir(s, r, d) /\ Subdirs(r, d) = Subdirs(s, d)
  <2>1. Good(r) BY <1>3, AlikeGood
  <2>2. ASSUME NEW d \in Live(s) PROVE d \in Live(r) /\ SameDir(s, r, d) /\ Subdirs(r, d) = Subdirs(s, d)
    BY <1>3, AlikeGood
  <2> QED BY <2>1, <2>2
<1>5. Off(s, r, {}) BY <1>2, <1>4 DEF Off, Live
<1> QED BY <1>4, <1>5

(* put_minode: an inode is written to the image.                             *)
LEMMA WrittenGood ==
  ASSUME NEW s, Good(s), NEW r \in FS, NEW i \in Ino, Writing(s, r, i)
  PROVE  Good(r) /\ Off(s, r, {}) /\ \A d \in Live(s) : d \in Live(r) /\ SameDir(s, r, d)
<1>1. s \in FS /\ OnImage(s) BY GoodParts
<1>2. /\ r.imap = s.imap /\ r.bmap = s.bmap /\ r.data = s.data /\ r.inode = s.inode
      /\ r.table = [s.table EXCEPT ![i] = s.inode[i]]
  BY DEF Writing
<1>3. OnImage(r)
  <2>1. s.inode[i].blocks \in Seq(Block \cup {Beyond}) BY <1>1, Parts
  <2>2. Known(s.inode[i], s.inode[i]) BY <2>1 DEF Known, Starts
  <2> QED BY <1>1, <1>2, <2>2, Parts DEF OnImage
<1>4. Alike(s, r) BY <1>1, <1>2 DEF Alike
<1>5. /\ Good(r)
      /\ \A d \in Live(s) : d \in Live(r) /\ SameDir(s, r, d) /\ Subdirs(r, d) = Subdirs(s, d)
  BY <1>3, <1>4, AlikeGood
<1>6. Off(s, r, {}) BY <1>2, <1>5 DEF Off, Live
<1> QED BY <1>5, <1>6
SameNames(s, r) ==
  \A d \in Live(s) : d \in Live(r) /\ SameDir(s, r, d) /\ Subdirs(r, d) = Subdirs(s, d)

(* The link count of a directory changes.                                    *)
LEMMA LinksGood ==
  ASSUME NEW s, Good(s), NEW r \in FS, NEW i \in Live(s), NEW n \in 0..LinkMod-1, Linking(s, r, i, n)
  PROVE  /\ Good(r) /\ Off(s, r, {i}) /\ r.inode[i].links = n
         /\ SameNames(s, r)
<1>1. s \in FS /\ OnImage(s) /\ i \in Ino BY GoodParts
<1>2. /\ r.imap = s.imap /\ r.bmap = s.bmap /\ r.data = s.data /\ r.table = s.table
      /\ r.inode = [s.inode EXCEPT ![i] = [s.inode[i] EXCEPT !.links = n]]
  BY DEF Linking
<1>3. /\ r.inode[i].mode = s.inode[i].mode /\ r.inode[i].blocks = s.inode[i].blocks /\ r.inode[i].links = n
      /\ \A j \in Ino \ {i} : r.inode[j] = s.inode[j]
  <2>1. s.inode[i] \in Inode /\ s.inode \in [Ino -> Inode] BY <1>1, Parts
  <2> QED BY <1>1, <1>2, <2>1 DEF Inode
<1>4. s.inode[i].mode = "dir" BY DEF Live
<1>5. OnImage(r)
  BY <1>1, <1>2, <1>3, <1>4 DEF OnImage, Known
<1>6. Alike(s, r) BY <1>1, <1>2, <1>3, <1>4 DEF Alike
<1>7. /\ Good(r)
      /\ \A d \in Live(s) : d \in Live(r) /\ SameDir(s, r, d) /\ Subdirs(r, d) = Subdirs(s, d)
  BY <1>5, <1>6, AlikeGood
<1>8. Off(s, r, {i}) BY <1>2, <1>3, <1>7 DEF Off, Live
<1> QED BY <1>3, <1>7, <1>8 DEF SameNames

-----------------------------------------------------------------------------
(* The entry e goes into block b of directory p, which has it already or     *)
(* gets it as its last.                                                      *)
Enters(s, r, p, b, e) ==
  /\ r.imap = s.imap /\ r.bmap = s.bmap /\ r.table = s.table
  /\ r.data = [s.data EXCEPT ![b] = Append(s.data[b], e)]
  /\ \/ b \in Freed(s, p) /\ r.inode = s.inode
     \/ /\ b \in s.bmap /\ s.data[b] = <<>> /\ s.inode[p].blocks # <<>>
        /\ \A k \in Ino : Owner(s, k) => b \notin Freed(s, k)
        /\ r.inode = [s.inode EXCEPT ![p] = [s.inode[p] EXCEPT !.blocks = Append(s.inode[p].blocks, b)]]
Absent(s, p, n) == \A g \in Entries(s, p) : g.name # n
EnteredDir(s, r, p, e) ==
  /\ Entries(r, p) = Entries(s, p) \cup {e} /\ NoTwins(r, p)
  /\ \A g : Dotted(s, p, g) => Dotted(r, p, g)

(* The directory has the entry more, and nothing else changed.               *)
LEMMA EnteredDirs ==
  ASSUME NEW s, Good(s), NEW r \in FS, NEW p \in Live(s), NEW b \in Block, NEW e \in Entry,
         Enters(s, r, p, b, e), Absent(s, p, e.name)
  PROVE  /\ EnteredDir(s, r, p, e)
         /\ \A d \in Live(s) \ {p} : SameDir(s, r, d)
         /\ \A i \in Ino : r.inode[i].mode = s.inode[i].mode /\ r.inode[i].links = s.inode[i].links
         /\ Apart(r) /\ OnImage(r) /\ Live(r) = Live(s)
<1>1. /\ s \in FS /\ Bare(s) /\ Marks(s) /\ Disjoint(s) /\ Clean(s) /\ OnImage(s)
      /\ p \in Ino /\ Owner(s, p) /\ Freed(s, p) \subseteq Block /\ NoTwins(s, p)
      /\ s.inode \in [Ino -> Inode] /\ s.data \in [Block -> Content] /\ s.bmap \subseteq Block
  BY GoodParts, Parts
<1>2. \A i \in Ino : r.inode[i].mode = s.inode[i].mode /\ r.inode[i].links = s.inode[i].links
  <2>1. CASE r.inode = s.inode BY <2>1
  <2>2. CASE r.inode = [s.inode EXCEPT ![p] = [s.inode[p] EXCEPT !.blocks = Append(s.inode[p].blocks, b)]]
    <3>1. s.inode[p] \in Inode BY <1>1
    <3> QED BY <1>1, <2>2, <3>1 DEF Inode
  <2> QED BY <2>1, <2>2 DEF Enters
<1>3. \A i \in Ino \ {p} : r.inode[i] = s.inode[i] /\ Freed(r, i) = Freed(s, i)
  BY <1>1 DEF Enters, Freed
<1>4. Live(r) = Live(s)
  <2>1. r.imap = s.imap /\ s.imap \subseteq Ino BY <1>1, Parts DEF Enters
  <2> QED BY <2>1, <1>2 DEF Live
<1>5. \A i \in Ino : Owner(r, i) <=> Owner(s, i)
  BY <1>2 DEF Owner
<1>6. /\ r.data[b] = Append(s.data[b], e)
      /\ \A c \in Block \ {b} : r.data[c] = s.data[c]
  BY <1>1 DEF Enters
<1>7. /\ Freed(r, p) = Freed(s, p) \cup {b} /\ b \in s.bmap /\ Once(r.inode[p].blocks)
      /\ Starts(s.inode[p].blocks, r.inode[p].blocks)
      /\ s.inode[p].blocks # <<>> /\ r.inode[p].blocks # <<>> /\ r.inode[p].blocks[1] = s.inode[p].blocks[1]
      /\ \A k \in Ino \ {p} : Owner(s, k) => b \notin Freed(s, k)
  <2> DEFINE q == s.inode[p].blocks
  <2>1. q \in Seq(Block \cup {Beyond}) /\ Freed(s, p) = {q[k] : k \in 1..Len(q)} /\ Once(q)
    BY <1>1, Parts DEF Marks
  <2>2. CASE b \in Freed(s, p) /\ r.inode = s.inode
    <3>1. Freed(r, p) = Freed(s, p) /\ r.inode[p].blocks = q BY <2>2 DEF Freed
    <3>2. b \in s.bmap /\ \A k \in Ino \ {p} : Owner(s, k) => b \notin Freed(s, k)
      BY <1>1, <2>2 DEF Marks, Disjoint
    <3>3. q # <<>> BY <2>1, <2>2
    <3> QED BY <2>1, <2>2, <3>1, <3>2, <3>3 DEF Starts
  <2>3. CASE /\ b \in s.bmap /\ q # <<>> /\ \A k \in Ino : Owner(s, k) => b \notin Freed(s, k)
             /\ r.inode = [s.inode EXCEPT ![p] = [s.inode[p] EXCEPT !.blocks = Append(q, b)]]
    <3>1. r.inode[p].blocks = Append(q, b)
      <4>1. s.inode[p] \in Inode BY <1>1
      <4> QED BY <1>1, <2>3, <4>1 DEF Inode
    <3> DEFINE t == r.inode[p].blocks
    <3>2. Len(t) = Len(q) + 1 /\ t[Len(q) + 1] = b /\ \A k \in 1..Len(q) : t[k] = q[k]
      BY <2>1, <3>1
    <3>3. \A k \in 1..Len(q) : q[k] # b
      BY <1>1, <2>1, <2>3
    <3>4. Freed(r, p) = {t[k] : k \in 1..Len(t)} BY <1>1, Parts
    <3>5. Len(q) \in Nat /\ Len(q) >= 1 BY <2>1, <2>3
    <3> HIDE DEF q, t
    <3>6. Freed(r, p) = Freed(s, p) \cup {b} BY <2>1, <3>2, <3>4, <3>5
    <3>7. Once(t) BY <2>1, <3>2, <3>3, <3>5 DEF Once
    <3>8. Starts(q, t) /\ t[1] = q[1] BY <3>2, <3>5 DEF Starts
    <3>9. t # <<>> BY <3>2, <3>5
    <3> QED BY <2>3, <3>6, <3>7, <3>8, <3>9 DEF q, t
  <2> QED BY <2>2, <2>3 DEF Enters
<1>8. ASSUME NEW d \in Live(s) \ {p} PROVE SameDir(s, r, d)
  <2>1. d \in Ino /\ Owner(s, d) /\ Freed(s, d) \subseteq Block BY GoodParts
  <2>2. \A c \in Freed(s, d) : r.data[c] = s.data[c] BY <2>1, <1>6, <1>7
  <2> QED BY <1>1, <1>3, <2>1, <2>2, Untouched
<1>9. Apart(r)
  <2>1. Bare(r)
    <3>1. p \in s.imap /\ s.inode[p].mode = "dir" BY DEF Live
    <3> QED BY <1>1, <1>2, <1>3, <3>1 DEF Bare, Enters
  <2>2. Marks(r)
    <3>1. r.bmap = s.bmap BY DEF Enters
    <3>2. Freed(s, p) \subseteq s.bmap BY <1>1 DEF Marks
    <3> QED BY <1>1, <1>3, <1>5, <1>7, <3>1, <3>2 DEF Marks
  <2>3. Disjoint(r)
    <3> SUFFICES ASSUME NEW j \in Ino, NEW k \in Ino, Owner(r, j), Owner(r, k), j # k
                 PROVE  Freed(r, j) \cap Freed(r, k) = {}
      BY DEF Disjoint
    <3>1. Freed(s, j) \cap Freed(s, k) = {} BY <1>1, <1>5 DEF Disjoint
    <3>2. CASE j # p /\ k # p BY <3>1, <3>2, <1>3
    <3>3. CASE j = p BY <3>1, <3>3, <1>3, <1>5, <1>7
    <3>4. CASE k = p BY <3>1, <3>4, <1>3, <1>5, <1>7
    <3> QED BY <3>2, <3>3, <3>4
  <2>4. Clean(r)
    <3>1. r.bmap = s.bmap BY DEF Enters
    <3> QED BY <1>1, <1>6, <1>7, <3>1 DEF Clean
  <2> QED BY <2>1, <2>2, <2>3, <2>4 DEF Apart
<1>10. OnImage(r)
  <2> SUFFICES ASSUME NEW i \in Ino PROVE Known(r.inode[i], r.table[i])
    BY DEF OnImage
  <2>1. r.table = s.table /\ Known(s.inode[i], s.table[i]) BY <1>1 DEF Enters, OnImage
  <2>2. CASE i # p BY <2>1, <2>2, <1>3
  <2>3. CASE i = p
    <3>1. s.inode[p].mode = "dir" BY DEF Live
    <3>2. Starts(s.table[p].blocks, s.inode[p].blocks) /\ s.table[p].blocks # <<>>
      BY <1>7, <2>1, <2>3 DEF Known
    <3>3. Starts(s.table[p].blocks, r.inode[p].blocks)
      <4>1. /\ s.table[p].blocks \in Seq(Block \cup {Beyond}) /\ s.inode[p].blocks \in Seq(Block \cup {Beyond})
            /\ r.inode[p].blocks \in Seq(Block \cup {Beyond})
        <5>1. s.table[p] \in Inode BY <1>1, Parts
        <5> QED BY <1>1, <5>1, Parts DEF Inode
      <4> DEFINE t == s.table[p].blocks
      <4> DEFINE q == s.inode[p].blocks
      <4> DEFINE u == r.inode[p].blocks
      <4>2. Len(t) \in Nat /\ Len(q) \in Nat /\ Len(u) \in Nat
        <5> HIDE DEF t, q, u
        <5>1. t \in Seq(Block \cup {Beyond}) /\ q \in Seq(Block \cup {Beyond}) /\ u \in Seq(Block \cup {Beyond})
          BY <4>1 DEF t, q, u
        <5> QED BY <5>1
      <4>3. Starts(t, q) /\ Starts(q, u) BY <1>7, <3>2
      <4> HIDE DEF t, q, u
      <4>4. Starts(t, u) BY <4>2, <4>3 DEF Starts
      <4> QED BY <4>4 DEF t, u
    <3> QED BY <1>2, <2>1, <2>3, <3>1, <3>2, <3>3 DEF Known
  <2> QED BY <2>2, <2>3
<1>11. Freed(r, p) \subseteq Block BY <1>1, <1>7
<1>12. /\ s.data[b] \in Seq(Entry) /\ Len(s.data[b]) \in Nat /\ Len(r.data[b]) = Len(s.data[b]) + 1
       /\ r.data[b][Len(s.data[b]) + 1] = e
       /\ \A k \in 1..Len(s.data[b]) : r.data[b][k] = s.data[b][k]
  <2>1. s.data[b] \in Seq(Entry) BY <1>1, Parts
  <2> QED BY <1>6, <2>1
<1>13. b \notin Freed(s, p) => s.data[b] = <<>>
  BY DEF Enters
<1>14. Entries(r, p) = Entries(s, p) \cup {e}
  <2> DEFINE m == Len(s.data[b])
  <2>1. ASSUME NEW g \in Entries(r, p) PROVE g \in Entries(s, p) \cup {e}
    <3>0. PICK c \in Freed(r, p) : \E k \in 1..Len(r.data[c]) : g = r.data[c][k] BY <1>1, <1>11, EntriesAre
    <3>1. PICK k \in 1..Len(r.data[c]) : g = r.data[c][k] BY <3>0
    <3>2. CASE c = b /\ k = m + 1 BY <3>1, <3>2, <1>12
    <3>3. CASE c = b /\ k # m + 1
      <4>3. m \in Nat /\ k \in 1..m+1 BY <3>3, <1>12
      <4>4. k \in 1..m BY <4>3, <3>3
      <4>1. k \in 1..m /\ g = s.data[b][k] BY <3>1, <3>3, <4>4, <1>12
      <4>2. b \in Freed(s, p) BY <4>1, <1>13
      <4> QED BY <1>1, <4>1, <4>2, EntriesAre
    <3>4. CASE c # b
      <4>1. c \in Freed(s, p) /\ r.data[c] = s.data[c] BY <3>4, <1>6, <1>7, <1>11
      <4> QED BY <1>1, <3>1, <4>1, EntriesAre
    <3> QED BY <3>2, <3>3, <3>4
  <2>2. ASSUME NEW g \in Entries(s, p) PROVE g \in Entries(r, p)
    <3>0. PICK c \in Freed(s, p) : \E k \in 1..Len(s.data[c]) : g = s.data[c][k] BY <1>1, EntriesAre
    <3>1. PICK k \in 1..Len(s.data[c]) : g = s.data[c][k] BY <3>0
    <3>2. c \in Freed(r, p) /\ c \in Block BY <1>1, <1>7
    <3>3. k \in 1..Len(r.data[c]) /\ g = r.data[c][k]
      BY SMTT(30), <3>1, <3>2, <1>6, <1>12
    <3> QED BY <1>1, <1>11, <3>2, <3>3, EntriesAre
  <2>3. e \in Entries(r, p)
    <3>1. b \in Freed(r, p) /\ m + 1 \in 1..Len(r.data[b]) BY <1>7, <1>12
    <3> QED BY <1>1, <1>11, <1>12, <3>1, EntriesAre
  <2> QED BY <2>1, <2>2, <2>3
<1>15. NoTwins(r, p)
  <2> DEFINE m == Len(s.data[b])
  <2> DEFINE Newest(c, k) == c = b /\ k = m + 1 /\ r.data[c][k] = e
  <2> DEFINE Older(c, k) == c \in Freed(s, p) /\ k \in 1..Len(s.data[c]) /\ r.data[c][k] = s.data[c][k]
                              /\ s.data[c][k].name # e.name
  <2>1. ASSUME NEW c \in Freed(r, p), NEW k \in 1..Len(r.data[c])
        PROVE  Newest(c, k) \/ Older(c, k)
    <3>1. CASE c = b /\ k = m + 1 BY <3>1, <1>12
    <3>2. CASE ~(c = b /\ k = m + 1)
      <4>1. c \in Freed(s, p) /\ k \in 1..Len(s.data[c]) /\ r.data[c][k] = s.data[c][k]
        <5>1. CASE c = b
          <6>3. m \in Nat /\ k \in 1..m+1 BY <5>1, <1>12
          <6>4. k \in 1..m BY <6>3, <3>2, <5>1
          <6>1. k \in 1..m /\ r.data[b][k] = s.data[b][k] BY <6>4, <1>12
          <6>2. b \in Freed(s, p) BY <6>1, <1>13
          <6> QED BY <5>1, <6>1, <6>2
        <5>2. CASE c # b BY <5>2, <1>6, <1>7, <1>11
        <5> QED BY <5>1, <5>2
      <4>2. s.data[c][k] \in Entries(s, p) BY <1>1, <4>1, EntriesAre
      <4> QED BY <4>1, <4>2 DEF Absent
    <3> QED BY <3>1, <3>2
  <2> HIDE DEF m
  <2> SUFFICES ASSUME NEW c \in Freed(r, p), NEW d \in Freed(r, p),
                      NEW j \in 1..Len(r.data[c]), NEW k \in 1..Len(r.data[d]),
                      r.data[c][j].name = r.data[d][k].name
               PROVE  c = d /\ j = k
    BY DEF NoTwins
  <2>2. (Newest(c, j) \/ Older(c, j)) /\ (Newest(d, k) \/ Older(d, k))
    <3> HIDE DEF Newest, Older
    <3> QED BY <2>1
  <2>3. CASE Newest(c, j) /\ Newest(d, k) BY <2>3
  <2>4. CASE Newest(c, j) /\ Older(d, k) BY <2>4
  <2>5. CASE Older(c, j) /\ Newest(d, k) BY <2>5
  <2>6. CASE Older(c, j) /\ Older(d, k) BY <1>1, <2>6 DEF NoTwins
  <2> QED BY <2>2, <2>3, <2>4, <2>5, <2>6
<1>16. ASSUME NEW g, Dotted(s, p, g) PROVE Dotted(r, p, g)
  <2> DEFINE c == s.inode[p].blocks[1]
  <2>1. r.inode[p].blocks[1] = c /\ r.inode[p].blocks # <<>> BY <1>7
  <2>2. c \in Freed(s, p) /\ c \in Block BY <1>1, <1>7, Parts
  <2>3. s.data[c] \in Seq(Entry) /\ Len(s.data[c]) \in Nat BY <1>1, <2>2, Parts
  <2>4. Len(s.data[c]) >= 2 /\ s.data[c][1] = [name |-> ".", ino |-> p] /\ s.data[c][2] = [name |-> "..", ino |-> g]
    BY SMTT(30), <1>16 DEF Dotted
  <2>5. Len(r.data[c]) >= 2 /\ r.data[c][1] = s.data[c][1] /\ r.data[c][2] = s.data[c][2]
    <3>1. CASE c = b
      <4>1. 1 \in 1..Len(s.data[b]) /\ 2 \in 1..Len(s.data[b]) /\ Len(s.data[b]) + 1 >= 2 BY <3>1, <2>3, <2>4
      <4>2. r.data[b][1] = s.data[b][1] /\ r.data[b][2] = s.data[b][2] /\ Len(r.data[b]) >= 2 BY <4>1, <1>12
      <4> QED BY <3>1, <4>2
    <3>2. CASE c # b BY <3>2, <1>6, <2>2, <2>4
    <3> QED BY <3>1, <3>2
  <2> QED BY <2>1, <2>4, <2>5 DEF Dotted
<1> QED BY <1>2, <1>4, <1>8, <1>9, <1>10, <1>14, <1>15, <1>16 DEF EnteredDir

(* A new name may lead to an inode that is marked and written, to a          *)
(* directory only if its .. leads back and it has no name, and to a file     *)
(* only if it has a link to spare.                                           *)
Nameable(s, p, i) ==
  /\ i \in s.imap \ {ROOT_INODE, p} /\ s.inode[i].mode # "none"
  /\ IsDir(s, i) => Dotted(s, i, p) /\ \A g \in NamesIn(s, p) : g.ino # i
  /\ ~IsDir(s, i) => Cardinality(NamesAt(s, i)) + 1 <= s.inode[i].links

(* A new name that may be given keeps the file system good.                  *)
LEMMA EnteredGood ==
  ASSUME NEW s, Good(s), NEW r \in FS, NEW p \in Live(s), NEW b \in Block, NEW e \in Entry,
         Enters(s, r, p, b, e), Absent(s, p, e.name), e.name \in Name, Nameable(s, p, e.ino)
  PROVE  /\ Good(r) /\ Off(s, r, {p}) /\ Live(r) = Live(s)
         /\ Subdirs(r, p) = Subdirs(s, p) \cup (IF IsDir(s, e.ino) THEN {e} ELSE {})
         /\ ~IsDir(s, e.ino) => Off(s, r, {})
<1>1. /\ EnteredDir(s, r, p, e)
      /\ \A d \in Live(s) \ {p} : SameDir(s, r, d)
      /\ \A i \in Ino : r.inode[i].mode = s.inode[i].mode /\ r.inode[i].links = s.inode[i].links
      /\ Apart(r) /\ OnImage(r) /\ Live(r) = Live(s)
  BY EnteredDirs
<1>2. /\ s \in FS /\ s.imap \subseteq Ino /\ Live(s) \subseteq Ino /\ r.imap = s.imap
      /\ e.ino \in Ino /\ p \in Ino
  BY GoodParts, Parts DEF Enters, Entry, Live
<1>3. NamesIn(r, p) = NamesIn(s, p) \cup {e}
  BY <1>1 DEF EnteredDir, NamesIn
<1>4. \A d \in Live(s) \ {p} : NamesIn(r, d) = NamesIn(s, d) /\ NoTwins(r, d)
  BY <1>1, GoodParts DEF SameDir
<1>5. \A i \in Ino : IsDir(r, i) <=> IsDir(s, i)
  BY <1>1 DEF IsDir
<1>6. \A d \in Live(s) : \A g : Dotted(s, d, g) => Dotted(r, d, g)
  BY <1>1 DEF SameDir, EnteredDir
<1>7. \A d \in Live(s) : \A g \in NamesIn(s, d) : g.ino \in Ino /\ Leading(s, d, g)
  BY <1>2, GoodParts DEF Leading
<1>8. \A i \in s.imap : IsDir(s, i) => i \in Live(s)
  BY DEF IsDir, Live
<1>9. ASSUME NEW d \in Live(s), NEW g \in NamesIn(s, d) PROVE Leading(r, d, g)
  <2>1. g.ino \in Ino /\ Leading(s, d, g) BY <1>7
  <2>2. g.ino \in r.imap \ {ROOT_INODE, d} /\ r.inode[g.ino].mode # "none" BY <2>1, <1>1, <1>2 DEF Leading
  <2>3. IsDir(r, g.ino) => Dotted(s, g.ino, d) /\ g.ino \in Live(s) BY <2>1, <1>5, <1>8 DEF Leading
  <2> QED BY <2>2, <2>3, <1>6 DEF Leading
<1>10. Leading(r, p, e)
  BY <1>1, <1>2, <1>5, <1>6, <1>8 DEF Leading, Nameable
<1>11. OneName(r, p)
  <2> SUFFICES ASSUME NEW g \in NamesIn(r, p), NEW h \in NamesIn(r, p), g.ino = h.ino, IsDir(r, g.ino)
               PROVE  g = h
    BY DEF OneName
  <2>1. CASE g \in NamesIn(s, p) /\ h \in NamesIn(s, p)
    BY <2>1, <1>5, <1>7, GoodParts DEF OneName
  <2>2. CASE g = e BY <2>2, <1>2, <1>3, <1>5 DEF Nameable
  <2>3. CASE h = e BY <2>3, <1>2, <1>3, <1>5 DEF Nameable
  <2> QED BY <2>1, <2>2, <2>3, <1>3
<1>12. ASSUME NEW d \in Live(r) PROVE Led(r, d)
  <2>1. CASE d = p
    BY <2>1, <1>1, <1>3, <1>9, <1>10, <1>11 DEF Led, EnteredDir
  <2>2. CASE d # p
    <3>1. d \in Live(s) BY <1>1
    <3>2. NamesIn(r, d) = NamesIn(s, d) /\ NoTwins(r, d) BY <2>2, <3>1, <1>4
    <3>3. OneName(r, d) BY <3>1, <3>2, <1>5, <1>7, GoodParts DEF OneName
    <3> QED BY <3>1, <3>2, <3>3, <1>9 DEF Led
  <2> QED BY <2>1, <2>2
<1>13. Founded(r)
  BY <1>1, <1>6, GoodParts DEF Founded
<1>14. Linked(r)
  <2> SUFFICES ASSUME NEW i \in s.imap, s.inode[i].mode # "dir"
               PROVE  Cardinality(NamesAt(r, i)) <= s.inode[i].links
    BY <1>1, <1>2 DEF Linked
  <2> DEFINE x == <<p, e.name>>
  <2>1. NamesAt(r, i) = NamesAt(s, i) \cup (IF i = e.ino THEN {x} ELSE {})
    <3>0. \A y \in Live(s) \X Name : y = <<y[1], y[2]>> OBVIOUS
    <3>1. ASSUME NEW y \in Live(s) \X Name, y \in NamesAt(r, i) PROVE y \in NamesAt(s, i) \/ (i = e.ino /\ y = x)
      <4>1. [name |-> y[2], ino |-> i] \in Entries(r, y[1]) BY <3>1 DEF NamesAt
      <4>2. CASE y[1] = p
        <5>1. [name |-> y[2], ino |-> i] \in Entries(s, p) \/ [name |-> y[2], ino |-> i] = e
          BY <4>1, <4>2, <1>1 DEF EnteredDir
        <5>2. CASE [name |-> y[2], ino |-> i] \in Entries(s, p) BY <4>2, <5>2 DEF NamesAt
        <5>3. CASE [name |-> y[2], ino |-> i] = e
          <6>1. y[2] = e.name /\ i = e.ino BY <5>3
          <6> QED BY <3>0, <4>2, <6>1
        <5> QED BY <5>1, <5>2, <5>3
      <4>3. CASE y[1] # p
        <5>1. Entries(r, y[1]) = Entries(s, y[1]) BY <4>3, <1>1 DEF SameDir
        <5> QED BY <4>1, <5>1 DEF NamesAt
      <4> QED BY <4>2, <4>3
    <3>2. ASSUME NEW y \in NamesAt(s, i) PROVE y \in NamesAt(r, i)
      <4>1. y \in Live(s) \X Name /\ [name |-> y[2], ino |-> i] \in Entries(s, y[1]) BY DEF NamesAt
      <4>2. Entries(s, y[1]) \subseteq Entries(r, y[1]) BY <4>1, <1>1 DEF SameDir, EnteredDir
      <4> QED BY <4>1, <4>2, <1>1 DEF NamesAt
    <3>3. i = e.ino => x \in NamesAt(r, i)
      <4>1. e = [name |-> e.name, ino |-> e.ino] BY DEF Entry
      <4>2. e \in Entries(r, p) BY <1>1 DEF EnteredDir
      <4>3. i = e.ino => [name |-> x[2], ino |-> i] = e BY <4>1
      <4> QED BY <4>2, <4>3, <1>1 DEF NamesAt
    <3>4. NamesAt(r, i) \subseteq Live(s) \X Name BY <1>1 DEF NamesAt
    <3> QED BY <3>1, <3>2, <3>3, <3>4
  <2>2. Cardinality(NamesAt(s, i)) <= s.inode[i].links BY GoodParts DEF Linked
  <2>3. CASE i # e.ino
    <3>1. NamesAt(r, i) = NamesAt(s, i) BY <2>1, <2>3
    <3> QED BY <2>2, <3>1
  <2>4. CASE i = e.ino
    <3>1. NamesAt(s, i) \subseteq Ino \X Name BY <1>2 DEF NamesAt
    <3>2. IsFiniteSet(NamesAt(s, i)) BY <3>1, FiniteSets, FS_Subset
    <3> DEFINE A == NamesAt(s, i)
    <3>3. IsFiniteSet(A \cup {x}) /\ Cardinality(A \cup {x}) <= Cardinality(A) + 1
      <4> HIDE DEF A, x
      <4>1. IsFiniteSet(A) BY <3>2 DEF A
      <4>2. Cardinality(A) \in Nat BY <4>1, FS_CardinalityType
      <4>3. IsFiniteSet(A \cup {x}) /\ Cardinality(A \cup {x}) = IF x \in A THEN Cardinality(A) ELSE Cardinality(A) + 1
        BY <4>1, FS_AddElement
      <4> QED BY <4>2, <4>3
    <3>4. IsFiniteSet(NamesAt(r, i)) /\ NamesAt(r, i) = NamesAt(s, i) \cup {x}
      BY <2>1, <2>4, <3>3
    <3>5. Cardinality(NamesAt(r, i)) \in Nat /\ Cardinality(NamesAt(s, i)) \in Nat BY <3>2, <3>4, FS_CardinalityType
    <3>6. Cardinality(NamesAt(s, i)) + 1 <= s.inode[i].links /\ s.inode[i].links \in Nat
      BY <2>4, <1>2, Parts DEF Nameable, IsDir
    <3> QED BY <3>3, <3>4, <3>5, <3>6
  <2> QED BY <2>3, <2>4
<1>15. Good(r)
  BY <1>1, <1>12, <1>13, <1>14 DEF Good
<1>16. \A d \in Live(s) \ {p} : Subdirs(r, d) = Subdirs(s, d)
  BY <1>4, <1>5, <1>7 DEF Subdirs
<1>17. Subdirs(r, p) = Subdirs(s, p) \cup (IF IsDir(s, e.ino) THEN {e} ELSE {})
  BY <1>2, <1>3, <1>5, <1>7 DEF Subdirs
<1>18. Off(s, r, {p})
  BY <1>1, <1>16 DEF Off
<1>19. ~IsDir(s, e.ino) => Off(s, r, {})
  BY <1>1, <1>16, <1>17 DEF Off
<1> QED BY <1>1, <1>15, <1>17, <1>18, <1>19

-----------------------------------------------------------------------------
(* The name at place k of block b of directory p is removed.                 *)
LEMMA RemovedAt ==
  ASSUME NEW S, NEW q \in Seq(S), NEW k \in 1..Len(q)
  PROVE  /\ RemoveAt(q, k) \in Seq(S) /\ Len(RemoveAt(q, k)) = Len(q) - 1
         /\ \A j \in 1..Len(q)-1 : RemoveAt(q, k)[j] = IF j < k THEN q[j] ELSE q[j+1]
<1> DEFINE x == SubSeq(q, 1, k-1)
<1> DEFINE y == SubSeq(q, k+1, Len(q))
<1>1. x \in Seq(S) /\ Len(x) = k-1 /\ \A j \in 1..k-1 : x[j] = q[j]
  OBVIOUS
<1>2. y \in Seq(S) /\ Len(y) = Len(q)-k /\ \A j \in 1..Len(q)-k : y[j] = q[k+j]
  OBVIOUS
<1>3. RemoveAt(q, k) = x \o y BY DEF RemoveAt
<1> HIDE DEF x, y
<1>4. Len(q) \in Nat OBVIOUS
<1>5. x \o y \in Seq(S) /\ Len(x \o y) = Len(q) - 1
  <2>1. \A u, v \in Seq(S) : u \o v \in Seq(S) /\ Len(u \o v) = Len(u) + Len(v) OBVIOUS
  <2>2. x \in Seq(S) /\ y \in Seq(S) BY <1>1, <1>2
  <2>3. x \o y \in Seq(S) /\ Len(x \o y) = Len(x) + Len(y) BY <2>1, <2>2
  <2>4. Len(x) = k-1 /\ Len(y) = Len(q)-k BY <1>1, <1>2
  <2>5. (k-1) + (Len(q)-k) = Len(q) - 1 BY <1>4
  <2> QED BY <2>3, <2>4, <2>5
<1>6. ASSUME NEW j \in 1..Len(q)-1 PROVE (x \o y)[j] = IF j < k THEN q[j] ELSE q[j+1]
  <2>1. CASE j < k BY <2>1, <1>1, <1>2, <1>4
  <2>2. CASE ~(j < k)
    <3>1. j-(k-1) \in 1..Len(q)-k /\ k + (j-(k-1)) = j+1 BY <2>2, <1>4
    <3>2. (x \o y)[j] = y[j-(k-1)] BY SMTT(30), <2>2, <1>1, <1>2, <1>4
    <3> QED BY <2>2, <3>1, <3>2, <1>2
  <2> QED BY <2>1, <2>2
<1> QED BY <1>3, <1>5, <1>6

Removes(s, u, p, b, k) ==
  /\ u.imap = s.imap /\ u.bmap = s.bmap /\ u.table = s.table /\ u.inode = s.inode
  /\ u.data = [s.data EXCEPT ![b] = RemoveAt(s.data[b], k)]
  /\ b \in Freed(s, p) /\ k \in 1..Len(s.data[b]) /\ s.data[b][k].name \in Name
  /\ \E g : Dotted(s, p, g)

(* The directory has the entry less, and nothing else changed.               *)
LEMMA RemovedDirs ==
  ASSUME NEW s, Good(s), NEW u \in FS, NEW p \in Live(s), NEW b \in Block, NEW k, Removes(s, u, p, b, k)
  PROVE  /\ Entries(u, p) = Entries(s, p) \ {s.data[b][k]} /\ NoTwins(u, p)
         /\ \A g : Dotted(s, p, g) => Dotted(u, p, g)
         /\ \A d \in Live(s) \ {p} : SameDir(s, u, d)
         /\ Apart(u) /\ OnImage(u) /\ Live(u) = Live(s)
         /\ s.data[b][k] \in Entries(s, p)
<1> DEFINE x == s.data[b][k]
<1> DEFINE m == Len(s.data[b])
<1>1. /\ s \in FS /\ Bare(s) /\ Marks(s) /\ Disjoint(s) /\ Clean(s) /\ OnImage(s)
      /\ p \in Ino /\ Owner(s, p) /\ Freed(s, p) \subseteq Block /\ NoTwins(s, p)
      /\ s.data \in [Block -> Content] /\ s.data[b] \in Seq(Entry)
  BY GoodParts, Parts
<1>2. \A i \in Ino : u.inode[i] = s.inode[i] /\ Freed(u, i) = Freed(s, i) /\ (Owner(u, i) <=> Owner(s, i))
  BY DEF Removes, Freed, Owner
<1>3. Live(u) = Live(s) BY DEF Live, Removes
<1>4. /\ b \in Freed(s, p) /\ k \in 1..m /\ m \in Nat
      /\ u.data[b] = RemoveAt(s.data[b], k) /\ \A c \in Block \ {b} : u.data[c] = s.data[c]
  BY <1>1 DEF Removes
<1>5. /\ Len(u.data[b]) = m - 1
      /\ \A j \in 1..m-1 : u.data[b][j] = IF j < k THEN s.data[b][j] ELSE s.data[b][j+1]
  <2> DEFINE q == s.data[b]
  <2>1. q \in Seq(Entry) /\ k \in 1..Len(q) BY <1>1, <1>4
  <2> HIDE DEF q
  <2>2. /\ Len(RemoveAt(q, k)) = Len(q) - 1
        /\ \A j \in 1..Len(q)-1 : RemoveAt(q, k)[j] = IF j < k THEN q[j] ELSE q[j+1]
    BY <2>1, RemovedAt
  <2> QED BY <1>4, <2>2 DEF q
<1>6. Apart(u)
  <2>1. b \in s.bmap BY <1>1, <1>4 DEF Marks
  <2>2. Bare(u) BY <1>1, <1>2 DEF Bare, Removes
  <2>3. Marks(u) BY <1>1, <1>2 DEF Marks, Removes
  <2>4. Disjoint(u) BY <1>1, <1>2 DEF Disjoint
  <2>5. Clean(u) BY <1>1, <1>4, <2>1 DEF Clean, Removes
  <2> QED BY <2>2, <2>3, <2>4, <2>5 DEF Apart
<1>7. OnImage(u) BY <1>1 DEF OnImage, Removes
<1>8. ASSUME NEW d \in Live(s) \ {p} PROVE SameDir(s, u, d)
  <2>1. d \in Ino /\ Owner(s, d) /\ Freed(s, d) \subseteq Block BY GoodParts
  <2>2. b \notin Freed(s, d) BY <1>1, <1>4, <2>1 DEF Disjoint
  <2>3. \A c \in Freed(s, d) : u.data[c] = s.data[c] BY <1>4, <2>1, <2>2
  <2> QED BY <1>1, <1>2, <2>1, <2>3, Untouched
(* Each place of u in p is one of s, other places are others, and (b, k) is  *)
(* none of them.                                                             *)
<1> DEFINE Was(c, j) == IF c = b /\ j >= k THEN j+1 ELSE j
<1>9. ASSUME NEW c \in Freed(s, p), NEW j \in 1..Len(u.data[c])
      PROVE  /\ Was(c, j) \in 1..Len(s.data[c]) /\ u.data[c][j] = s.data[c][Was(c, j)]
             /\ ~(c = b /\ Was(c, j) = k)
  <2>1. CASE c = b
    <3>1. j \in 1..m-1 BY <2>1, <1>4, <1>5
    <3> QED BY SMTT(30), <2>1, <3>1, <1>4, <1>5
  <2>2. CASE c # b BY <2>2, <1>1, <1>4
  <2> QED BY <2>1, <2>2
<1>10. ASSUME NEW c \in Freed(s, p), NEW j \in 1..Len(s.data[c]), ~(c = b /\ j = k)
       PROVE  \E i \in 1..Len(u.data[c]) : u.data[c][i] = s.data[c][j]
  <2>1. CASE c = b /\ j < k
    <3>1. j \in 1..m-1 /\ u.data[b][j] = s.data[b][j] BY <2>1, <1>4, <1>5
    <3> QED BY <2>1, <3>1, <1>5
  <2>2. CASE c = b /\ j > k
    <3>1. j-1 \in 1..m-1 /\ ~(j-1 < k) /\ (j-1)+1 = j BY <2>2, <1>4
    <3>2. u.data[b][j-1] = s.data[b][j] BY <3>1, <1>5
    <3> QED BY <2>2, <3>1, <3>2, <1>5
  <2>3. CASE c # b
    <3>1. u.data[c] = s.data[c] BY <2>3, <1>1, <1>4
    <3> QED BY <3>1
  <2>4. j \in Int /\ k \in Int BY <1>4
  <2> QED BY <1>10, <2>1, <2>2, <2>3, <2>4
<1>11. ASSUME NEW c \in Freed(s, p), NEW j \in 1..Len(s.data[c]), s.data[c][j].name = x.name
       PROVE  c = b /\ j = k
  BY <1>1, <1>4, <1>11 DEF NoTwins
<1>12. Entries(u, p) = Entries(s, p) \ {x}
  <2>1. ASSUME NEW g \in Entries(u, p) PROVE g \in Entries(s, p) \ {x}
    <3>1. PICK c \in Freed(s, p) : \E j \in 1..Len(u.data[c]) : g = u.data[c][j] BY <1>1, <1>2, EntriesAre
    <3>2. PICK j \in 1..Len(u.data[c]) : g = u.data[c][j] BY <3>1
    <3> DEFINE i == Was(c, j)
    <3>3. i \in 1..Len(s.data[c]) /\ g = s.data[c][i] /\ ~(c = b /\ i = k) BY <1>9, <3>2
    <3> HIDE DEF i
    <3>4. g # x BY <1>11, <3>3
    <3> QED BY <1>1, <3>3, <3>4, EntriesAre
  <2>2. ASSUME NEW g \in Entries(s, p), g # x PROVE g \in Entries(u, p)
    <3>1. PICK c \in Freed(s, p) : \E j \in 1..Len(s.data[c]) : g = s.data[c][j] BY <1>1, EntriesAre
    <3>2. PICK j \in 1..Len(s.data[c]) : g = s.data[c][j] BY <3>1
    <3>3. PICK i \in 1..Len(u.data[c]) : u.data[c][i] = s.data[c][j] BY <1>10, <2>2, <3>2
    <3> QED BY <1>1, <1>2, <3>2, <3>3, EntriesAre
  <2> QED BY <2>1, <2>2
<1>13. NoTwins(u, p)
  <2> SUFFICES ASSUME NEW c \in Freed(s, p), NEW d \in Freed(s, p),
                      NEW j \in 1..Len(u.data[c]), NEW i \in 1..Len(u.data[d]),
                      u.data[c][j].name = u.data[d][i].name
               PROVE  c = d /\ j = i
    BY <1>1, <1>2 DEF NoTwins
  <2>1. Was(c, j) \in 1..Len(s.data[c]) /\ u.data[c][j] = s.data[c][Was(c, j)] BY <1>9
  <2>2. Was(d, i) \in 1..Len(s.data[d]) /\ u.data[d][i] = s.data[d][Was(d, i)] BY <1>9
  <2>3. c = d /\ Was(c, j) = Was(d, i)
    <3> HIDE DEF Was
    <3> QED BY <1>1, <2>1, <2>2 DEF NoTwins
  <2>4. j \in Int /\ i \in Int /\ k \in Int BY <1>4
  <2> QED BY <2>3, <2>4
<1>14. ASSUME NEW g, Dotted(s, p, g) PROVE Dotted(u, p, g)
  <2> DEFINE c == s.inode[p].blocks[1]
  <2>1. s.inode[p].blocks # <<>> /\ c \in Freed(s, p) BY <1>1, <1>14, Parts DEF Dotted
  <2>2. c \in Block /\ s.data[c] \in Seq(Entry) /\ Len(s.data[c]) \in Nat BY <1>1, <2>1, Parts
  <2>3. Len(s.data[c]) >= 2 /\ s.data[c][1] = [name |-> ".", ino |-> p] /\ s.data[c][2] = [name |-> "..", ino |-> g]
    BY SMTT(30), <1>14 DEF Dotted
  <2>4. Len(u.data[c]) >= 2 /\ u.data[c][1] = s.data[c][1] /\ u.data[c][2] = s.data[c][2]
    <3>1. CASE c = b
      <4>1. x.name # "." /\ x.name # ".." BY DEF Removes
      <4>2. k # 1 /\ k # 2 BY <2>3, <3>1, <4>1
      <4>3. m >= 3 /\ k >= 3 BY <1>4, <4>2
      <4>4. 1 \in 1..m-1 /\ 2 \in 1..m-1 /\ 1 < k /\ 2 < k BY <1>4, <4>3
      <4> QED BY <1>4, <1>5, <3>1, <4>3, <4>4
    <3>2. CASE c # b BY <3>2, <1>4, <2>2, <2>3
    <3> QED BY <3>1, <3>2
  <2>5. u.inode[p].blocks = s.inode[p].blocks BY <1>1, <1>2
  <2> QED BY <2>1, <2>3, <2>4, <2>5 DEF Dotted
<1>15. x \in Entries(s, p) BY <1>1, <1>4, EntriesAre
<1> QED BY <1>3, <1>6, <1>7, <1>8, <1>12, <1>13, <1>14, <1>15

Loses(s, u, p, x) ==
  /\ Off(s, u, {p}) /\ Live(u) = Live(s)
  /\ Entries(u, p) = Entries(s, p) \ {x}
  /\ \A d \in Live(s) \ {p} : SameDir(s, u, d)
  /\ Subdirs(u, p) = Subdirs(s, p) \ {x}
  /\ x \in NamesIn(s, p)
  /\ ~IsDir(s, x.ino) => Off(s, u, {})

(* Losing a name keeps the file system good.                                 *)
LEMMA RemovedGood ==
  ASSUME NEW s, Good(s), NEW u \in FS, NEW p \in Live(s), NEW b \in Block, NEW k, Removes(s, u, p, b, k)
  PROVE  Good(u) /\ Loses(s, u, p, s.data[b][k])
<1> DEFINE x == s.data[b][k]
<1>1. /\ Entries(u, p) = Entries(s, p) \ {x} /\ NoTwins(u, p) /\ x \in Entries(s, p)
      /\ \A g : Dotted(s, p, g) => Dotted(u, p, g)
      /\ \A d \in Live(s) \ {p} : SameDir(s, u, d)
      /\ Apart(u) /\ OnImage(u) /\ Live(u) = Live(s)
  BY RemovedDirs
<1>2. /\ s \in FS /\ s.imap \subseteq Ino /\ Live(s) \subseteq Ino /\ u.imap = s.imap /\ u.inode = s.inode
      /\ x.name \in Name
  BY GoodParts, Parts DEF Removes, Live
<1>3. NamesIn(u, p) = NamesIn(s, p) \ {x} /\ x \in NamesIn(s, p)
  BY <1>1, <1>2 DEF NamesIn
<1>4. \A d \in Live(s) \ {p} : NamesIn(u, d) = NamesIn(s, d) /\ NoTwins(u, d)
  BY <1>1, GoodParts DEF SameDir
<1>5. \A i : IsDir(u, i) <=> IsDir(s, i)
  BY <1>2 DEF IsDir
<1>6. \A d \in Live(s) : \A g : Dotted(s, d, g) => Dotted(u, d, g)
  BY <1>1 DEF SameDir
<1>7. Fewer(s, u)
  BY <1>1, <1>3, <1>4 DEF Fewer
<1>8. StillLed(s, u)
  <2> SUFFICES ASSUME NEW d \in Live(s), NEW e \in NamesIn(s, d)
               PROVE  /\ e.ino \in u.imap /\ u.inode[e.ino].mode # "none"
                      /\ IsDir(u, e.ino) => IsDir(s, e.ino) /\ (Dotted(s, e.ino, d) => Dotted(u, e.ino, d))
    BY <1>1, <1>7 DEF Fewer, StillLed
  <2>1. e.ino \in s.imap /\ s.inode[e.ino].mode # "none" BY GoodParts DEF Leading
  <2>2. IsDir(s, e.ino) => e.ino \in Live(s) BY <2>1 DEF IsDir, Live
  <2> QED BY <1>2, <1>5, <1>6, <2>1, <2>2
<1>9. Counted(s, u)
  BY <1>2, GoodParts DEF Counted, Linked
<1>10. Founded(u)
  BY <1>1, <1>6, GoodParts DEF Founded
<1>11. Good(u)
  BY <1>1, <1>7, <1>8, <1>9, <1>10, Frame
<1>12. \A d \in Live(s) \ {p} : Subdirs(u, d) = Subdirs(s, d)
  BY <1>4, <1>5 DEF Subdirs
<1>13. Subdirs(u, p) = Subdirs(s, p) \ {x}
  BY <1>3, <1>5 DEF Subdirs
<1>14. Off(s, u, {p})
  BY <1>1, <1>2, <1>12 DEF Off
<1>15. ASSUME ~IsDir(s, x.ino) PROVE Off(s, u, {})
  <2>1. Subdirs(u, p) = Subdirs(s, p) BY <1>13, <1>15 DEF Subdirs
  <2> QED BY <1>1, <1>2, <1>12, <2>1 DEF Off
<1> QED BY <1>1, <1>3, <1>11, <1>13, <1>14, <1>15 DEF Loses

(* What the name led to is named no more, if it was a directory, and else    *)
(* once less.                                                                *)
LEMMA RemovedNames ==
  ASSUME NEW s, Good(s), NEW u \in FS, NEW p \in Live(s), NEW x, Loses(s, u, p, x)
  PROVE  /\ IsDir(s, x.ino) => Unnamed(u, x.ino)
         /\ x.ino \in Ino /\ IsFiniteSet(NamesAt(s, x.ino))
         /\ Cardinality(NamesAt(s, x.ino)) \in Nat /\ Cardinality(NamesAt(u, x.ino)) \in Nat
         /\ Cardinality(NamesAt(s, x.ino)) = Cardinality(NamesAt(u, x.ino)) + 1
<1>1. /\ Live(u) = Live(s) /\ Entries(u, p) = Entries(s, p) \ {x} /\ x \in NamesIn(s, p)
      /\ \A d \in Live(s) \ {p} : SameDir(s, u, d)
  BY DEF Loses
<1>2. /\ Live(s) \subseteq Ino /\ x.name \in Name /\ x \in Entry /\ x \in Entries(s, p) /\ x.ino \in Ino
  <2>1. /\ s \in FS /\ p \in Ino /\ Freed(s, p) \subseteq Block BY GoodParts
  <2>2. x \in Entries(s, p) /\ x.name \in Name BY <1>1 DEF NamesIn
  <2>3. x \in Entry /\ x.ino \in Ino BY <2>1, <2>2, EntriesAre
  <2> QED BY <2>2, <2>3, GoodParts
<1>3. ASSUME IsDir(s, x.ino) PROVE Unnamed(u, x.ino)
  <2> SUFFICES ASSUME NEW d \in Live(s), NEW e \in NamesIn(u, d), e.ino = x.ino PROVE FALSE
    BY <1>1 DEF Unnamed
  <2>1. e \in NamesIn(s, d) BY <1>1 DEF SameDir, NamesIn
  <2>2. Dotted(s, x.ino, d) /\ Dotted(s, x.ino, p)
    <3>1. Leading(s, d, e) /\ Leading(s, p, x) BY <1>1, <2>1, GoodParts
    <3>2. IsDir(s, e.ino) => Dotted(s, e.ino, d) BY <3>1 DEF Leading
    <3>3. IsDir(s, x.ino) => Dotted(s, x.ino, p) BY <3>1 DEF Leading
    <3> QED BY <1>3, <3>2, <3>3
  <2>3. d = p BY <2>2 DEF Dotted
  <2>4. e = x BY <1>1, <1>2, <1>3, <2>1, <2>3, GoodParts DEF OneName
  <2> QED BY <1>1, <2>3, <2>4 DEF NamesIn
<1>4. /\ IsFiniteSet(NamesAt(s, x.ino)) /\ Cardinality(NamesAt(s, x.ino)) \in Nat /\ Cardinality(NamesAt(u, x.ino)) \in Nat
      /\ Cardinality(NamesAt(s, x.ino)) = Cardinality(NamesAt(u, x.ino)) + 1
  <2> DEFINE y == <<p, x.name>>
  <2>1. [name |-> x.name, ino |-> x.ino] = x BY <1>2 DEF Entry
  <2>2. NamesAt(u, x.ino) = NamesAt(s, x.ino) \ {y}
    <3>1. ASSUME NEW z \in Live(s) \X Name
          PROVE  z \in NamesAt(u, x.ino) <=> z \in NamesAt(s, x.ino) /\ z # y
      <4>1. CASE z[1] = p
        <5>1. [name |-> z[2], ino |-> x.ino] = x <=> z[2] = x.name BY <2>1
        <5>2. z = y <=> z[2] = x.name BY <4>1
        <5> QED BY <4>1, <5>1, <5>2, <1>1 DEF NamesAt
      <4>2. CASE z[1] # p
        <5>1. Entries(u, z[1]) = Entries(s, z[1]) BY <4>2, <1>1 DEF SameDir
        <5>2. z # y BY <4>2
        <5> QED BY <5>1, <5>2, <1>1 DEF NamesAt
      <4> QED BY <4>1, <4>2
    <3>2. NamesAt(u, x.ino) \subseteq Live(s) \X Name /\ NamesAt(s, x.ino) \subseteq Live(s) \X Name
      BY <1>1 DEF NamesAt
    <3> QED BY <3>1, <3>2
  <2>3. y \in NamesAt(s, x.ino)
    BY <1>1, <1>2, <2>1 DEF NamesAt
  <2>4. IsFiniteSet(NamesAt(s, x.ino))
    <3>1. NamesAt(s, x.ino) \subseteq Ino \X Name BY <1>2 DEF NamesAt
    <3> QED BY <3>1, FiniteSets, FS_Subset
  <2> DEFINE A == NamesAt(s, x.ino)
  <2> HIDE DEF A, y
  <2>5. Cardinality(A \ {y}) = Cardinality(A) - 1 /\ IsFiniteSet(A \ {y})
    BY <2>3, <2>4, FS_RemoveElement DEF A
  <2>6. Cardinality(A) \in Nat /\ Cardinality(A \ {y}) \in Nat BY <2>4, <2>5, FS_CardinalityType DEF A
  <2> QED BY <2>2, <2>4, <2>5, <2>6 DEF A
<1> QED BY <1>2, <1>3, <1>4

-----------------------------------------------------------------------------
(* The program starts again from the image.                                  *)
Restarted(s) == [s EXCEPT !.inode = s.table]

(* mount_root: what the image knows is good, whatever was lost.              *)
LEMMA RestartedGood ==
  ASSUME NEW s, Good(s)
  PROVE  Good(Restarted(s))
<1> DEFINE r == Restarted(s)
<1>1. s \in FS /\ Bare(s) /\ Marks(s) /\ Disjoint(s) /\ Clean(s) /\ OnImage(s) /\ Linked(s)
  BY GoodParts
<1>2. /\ r \in FS /\ r.imap = s.imap /\ r.bmap = s.bmap /\ r.data = s.data
      /\ r.inode = s.table /\ r.table = s.table
  BY <1>1 DEF FS, Restarted
<1> HIDE DEF r
<1>3. ASSUME NEW i \in Ino
      PROVE  /\ r.inode[i].mode = s.inode[i].mode
             /\ s.inode[i].mode # "dir" => r.inode[i] = s.inode[i]
             /\ Starts(r.inode[i].blocks, s.inode[i].blocks)
             /\ s.inode[i].blocks # <<>> => r.inode[i].blocks # <<>>
             /\ r.inode[i].blocks \in Seq(Block \cup {Beyond}) /\ s.inode[i].blocks \in Seq(Block \cup {Beyond})
             /\ Len(r.inode[i].blocks) \in Nat /\ Len(s.inode[i].blocks) \in Nat
  <2>1. Known(s.inode[i], r.inode[i]) BY <1>1, <1>2 DEF OnImage
  <2>2. r.inode[i].blocks \in Seq(Block \cup {Beyond}) /\ s.inode[i].blocks \in Seq(Block \cup {Beyond})
    BY <1>1, <1>2, Parts
  <2>3. Len(r.inode[i].blocks) \in Nat /\ Len(s.inode[i].blocks) \in Nat BY <2>2
  <2> QED BY <2>1, <2>2, <2>3 DEF Known
<1>4. \A i \in Ino : Owner(r, i) <=> Owner(s, i)
  BY <1>3 DEF Owner
<1>5. ASSUME NEW i \in Ino PROVE Freed(r, i) \subseteq Freed(s, i)
  <2> DEFINE q == s.inode[i].blocks
  <2> DEFINE t == r.inode[i].blocks
  <2>1. Freed(r, i) = {t[k] : k \in 1..Len(t)} /\ Freed(s, i) = {q[k] : k \in 1..Len(q)}
    BY <1>1, <1>2, Parts
  <2>2. Starts(t, q) /\ Len(t) \in Nat /\ Len(q) \in Nat BY <1>3
  <2> HIDE DEF q, t
  <2> QED BY <2>1, <2>2 DEF Starts
<1>6. \A i \in Ino : Once(s.inode[i].blocks) => Once(r.inode[i].blocks)
  <2> SUFFICES ASSUME NEW i \in Ino, Once(s.inode[i].blocks) PROVE Once(r.inode[i].blocks)
    OBVIOUS
  <2> DEFINE q == s.inode[i].blocks
  <2> DEFINE t == r.inode[i].blocks
  <2>2. Starts(t, q) /\ Len(t) \in Nat /\ Len(q) \in Nat /\ Once(q) BY <1>3
  <2> HIDE DEF q, t
  <2>3. Once(t) BY <2>2 DEF Starts, Once
  <2> QED BY <2>3 DEF t
<1>7. \A i \in Ino : s.inode[i].blocks = <<>> => r.inode[i].blocks = <<>>
  <2> SUFFICES ASSUME NEW i \in Ino, s.inode[i].blocks = <<>> PROVE r.inode[i].blocks = <<>>
    OBVIOUS
  <2>1. Len(r.inode[i].blocks) <= 0 /\ Len(r.inode[i].blocks) \in Nat BY <1>3 DEF Starts
  <2> DEFINE t == r.inode[i].blocks
  <2>2. t \in Seq(Block \cup {Beyond}) /\ Len(t) = 0 BY <1>3, <2>1
  <2> HIDE DEF t
  <2>3. t = <<>> BY <2>2
  <2> QED BY <2>3 DEF t
<1>8. Apart(r)
  <2>1. Bare(r) BY <1>1, <1>2, <1>3, <1>7 DEF Bare
  <2>2. Marks(r) BY <1>1, <1>2, <1>4, <1>5, <1>6 DEF Marks
  <2>3. Disjoint(r)
    <3> SUFFICES ASSUME NEW j \in Ino, NEW k \in Ino, Owner(r, j), Owner(r, k), j # k
                 PROVE  Freed(r, j) \cap Freed(r, k) = {}
      BY DEF Disjoint
    <3>1. Freed(s, j) \cap Freed(s, k) = {} BY <1>1, <1>4 DEF Disjoint
    <3> QED BY <1>5, <3>1
  <2>4. Clean(r) BY <1>1, <1>2 DEF Clean
  <2> QED BY <2>1, <2>2, <2>3, <2>4 DEF Apart
<1>9. OnImage(r)
  <2> SUFFICES ASSUME NEW i \in Ino PROVE Known(r.inode[i], r.table[i])
    BY DEF OnImage
  <2>1. r.table[i] = r.inode[i] BY <1>2
  <2>2. Starts(r.inode[i].blocks, r.inode[i].blocks) BY <1>3 DEF Starts
  <2> QED BY <2>1, <2>2 DEF Known
<1>10. Live(r) = Live(s) /\ Live(s) \subseteq Ino /\ s.imap \subseteq Ino
  <2>1. s.imap \subseteq Ino BY <1>1, Parts
  <2> QED BY <1>2, <1>3, <2>1 DEF Live
<1>11. \A i \in Ino : IsDir(r, i) <=> IsDir(s, i)
  BY <1>3 DEF IsDir
<1>12. ASSUME NEW d \in Live(s)
       PROVE  NoTwins(r, d) /\ Entries(r, d) \subseteq Entries(s, d) /\ NamesIn(r, d) \subseteq NamesIn(s, d)
  <2>1. d \in Ino /\ Freed(s, d) \subseteq Block /\ NoTwins(s, d) BY GoodParts
  <2>2. Freed(r, d) \subseteq Freed(s, d) BY <1>5, <2>1
  <2>3. NoTwins(r, d) BY <1>2, <2>1, <2>2 DEF NoTwins
  <2>4. Entries(r, d) \subseteq Entries(s, d)
    <3>1. {ToSet(s.data[b]) : b \in Freed(r, d)} \subseteq {ToSet(s.data[b]) : b \in Freed(s, d)} BY <2>2
    <3>2. Entries(r, d) = UNION {ToSet(s.data[b]) : b \in Freed(r, d)}
          /\ Entries(s, d) = UNION {ToSet(s.data[b]) : b \in Freed(s, d)}
      BY <1>2 DEF Entries, Freed
    <3> QED BY <3>1, <3>2
  <2> QED BY <2>3, <2>4 DEF NamesIn
<1>13. ASSUME NEW d \in Live(s), NEW g, Dotted(s, d, g) PROVE Dotted(r, d, g)
  <2>1. d \in Ino BY <1>10
  <2>2. s.inode[d].blocks # <<>> BY <1>13 DEF Dotted
  <2>3. r.inode[d].blocks # <<>> BY <1>3, <2>1, <2>2
  <2>4. r.inode[d].blocks[1] = s.inode[d].blocks[1]
    <3> DEFINE t == r.inode[d].blocks
    <3>1. t \in Seq(Block \cup {Beyond}) /\ t # <<>> BY <1>3, <2>1, <2>3
    <3>2. Starts(t, s.inode[d].blocks) BY <1>3, <2>1
    <3> HIDE DEF t
    <3>3. 1 \in 1..Len(t) BY <3>1
    <3>4. t[1] = s.inode[d].blocks[1] BY <3>2, <3>3 DEF Starts
    <3> QED BY <3>4 DEF t
  <2> QED BY <1>2, <1>13, <2>3, <2>4 DEF Dotted
<1>14. Fewer(s, r)
  BY <1>10, <1>12 DEF Fewer
<1>15. StillLed(s, r)
  <2> SUFFICES ASSUME NEW d \in Live(s), NEW e \in NamesIn(s, d)
               PROVE  /\ e.ino \in r.imap /\ r.inode[e.ino].mode # "none"
                      /\ IsDir(r, e.ino) => IsDir(s, e.ino) /\ (Dotted(s, e.ino, d) => Dotted(r, e.ino, d))
    BY <1>10, <1>12 DEF StillLed
  <2>1. e.ino \in s.imap /\ s.inode[e.ino].mode # "none" BY GoodParts DEF Leading
  <2>2. e.ino \in Ino /\ (IsDir(s, e.ino) => e.ino \in Live(s)) BY <2>1, <1>10 DEF IsDir, Live
  <2> QED BY <1>2, <1>3, <1>11, <1>13, <2>1, <2>2
<1>16. Counted(s, r)
  <2> SUFFICES ASSUME NEW i \in s.imap, r.inode[i].mode # "dir"
               PROVE  Cardinality(NamesAt(s, i)) <= r.inode[i].links
    BY <1>2 DEF Counted
  <2>1. i \in Ino BY <1>10
  <2>2. r.inode[i] = s.inode[i] /\ s.inode[i].mode # "dir" BY <1>3, <2>1
  <2> QED BY <1>1, <2>2 DEF Linked
<1>17. Founded(r)
  BY <1>10, <1>13, GoodParts DEF Founded
<1>18. Good(r)
  BY <1>2, <1>8, <1>9, <1>14, <1>15, <1>16, <1>17, Frame
<1> QED BY <1>18 DEF r

-----------------------------------------------------------------------------
(* The directories led to from the root: live, and as many more as before.   *)
LEMMA RootedFacts ==
  ASSUME NEW s, Good(s)
  PROVE  /\ Rooted(s) \subseteq Live(s) /\ ROOT_INODE \in Rooted(s) /\ Closed(s, Rooted(s))
         /\ \A d \in Rooted(s) \ {ROOT_INODE} : \E p \in Rooted(s) : \E e \in Subdirs(s, p) : e.ino = d
<1>1. s \in FS /\ ROOT_INODE \in Live(s) /\ Live(s) \subseteq Ino BY GoodParts
<1>2. \A x : Under(s, x) \subseteq Live(s)
  <2> SUFFICES ASSUME NEW x, x \in Live(s), NEW e \in Subdirs(s, x) PROVE e.ino \in Live(s)
    BY DEF Under
  <2>1. e \in NamesIn(s, x) /\ IsDir(s, e.ino) BY DEF Subdirs
  <2>2. e.ino \in s.imap BY <2>1, GoodParts DEF Leading
  <2> QED BY <2>1, <2>2 DEF IsDir, Live
<1>3. Closed(s, Live(s)) BY <1>2 DEF Closed
<1>4. Rooted(s) \subseteq Live(s) BY <1>1, <1>3 DEF Rooted
<1>5. ROOT_INODE \in Rooted(s) BY <1>1 DEF Rooted
<1>6. Closed(s, Rooted(s))
  <2> SUFFICES ASSUME NEW x \in Rooted(s), NEW y \in Under(s, x) PROVE y \in Rooted(s)
    BY DEF Closed
  <2>1. y \in Ino BY <1>1, <1>2
  <2> SUFFICES ASSUME NEW T \in SUBSET Ino, ROOT_INODE \in T, Closed(s, T) PROVE y \in T
    BY <2>1 DEF Rooted
  <2>2. x \in T BY DEF Rooted
  <2> QED BY <2>2 DEF Closed
<1>7. ASSUME NEW d \in Rooted(s) \ {ROOT_INODE}
      PROVE  \E p \in Rooted(s) : \E e \in Subdirs(s, p) : e.ino = d
  <2> SUFFICES ASSUME \A p \in Rooted(s) : d \notin Under(s, p) PROVE FALSE
    BY DEF Under
  <2> DEFINE T == Rooted(s) \ {d}
  <2>1. Closed(s, T) BY <1>6 DEF Closed
  <2>2. T \in SUBSET Ino /\ ROOT_INODE \in T BY <1>1, <1>4, <1>5
  <2>3. d \in T BY <2>1, <2>2 DEF Rooted
  <2> QED BY <2>3
<1> QED BY <1>4, <1>5, <1>6, <1>7

(* Directories that lose no name lead to as many as before.                  *)
LEMMA RootedGrows ==
  ASSUME NEW s, Good(s), NEW r, Good(r), \A d \in Rooted(s) : d \in Live(r) /\ Subdirs(s, d) \subseteq Subdirs(r, d)
  PROVE  Rooted(s) \subseteq Rooted(r)
<1>1. Rooted(s) \subseteq Live(s) /\ ROOT_INODE \in Rooted(s) BY RootedFacts
<1> SUFFICES ASSUME NEW d \in Rooted(s), NEW T \in SUBSET Ino, ROOT_INODE \in T, Closed(r, T) PROVE d \in T
  BY DEF Rooted
<1> DEFINE V == T \cap Rooted(s)
<1>2. \A x \in V : Under(s, x) \subseteq T
  BY <1>1 DEF Under, Closed
<1>3. Closed(s, V)
  <2>1. Closed(s, Rooted(s)) BY RootedFacts
  <2> QED BY <1>2, <2>1 DEF Closed
<1>4. V \in SUBSET Ino /\ ROOT_INODE \in V BY <1>1
<1> QED BY <1>3, <1>4 DEF Rooted

(* Whatever is off, if it was none of them, they are still there.            *)
LEMMA OffRooted ==
  ASSUME NEW s, Good(s), NEW r, Good(r), NEW X, Off(s, r, X), X \cap Rooted(s) = {}
  PROVE  Rooted(s) \subseteq Rooted(r)
<1>1. Rooted(s) \subseteq Live(s) /\ Live(s) \subseteq Ino BY RootedFacts, GoodParts
<1>2. \A d \in Rooted(s) : d \in Live(r) /\ Subdirs(s, d) \subseteq Subdirs(r, d)
  BY <1>1 DEF Off
<1> QED BY <1>2, RootedGrows

(* The tree stays one if no directory is off.                                *)
LEMMA OffGrown ==
  ASSUME NEW s, Good(s), NEW r, Good(r), NEW X, Off(s, r, X), Grown(s),
         X \cap Live(s) = {}, X \cap Live(r) = {}
  PROVE  Grown(r)
<1>1. Rooted(s) \subseteq Live(s) /\ Live(s) \subseteq Ino /\ Live(r) \subseteq Ino BY RootedFacts, GoodParts
<1>2. Rooted(s) \subseteq Rooted(r) BY <1>1, OffRooted
<1>3. Live(r) = Live(s) BY <1>1 DEF Off
<1> QED BY <1>1, <1>2, <1>3 DEF Grown, Off

-----------------------------------------------------------------------------
(* `.' and `..' of a directory led to from the root lead to such ones.       *)
LEMMA RootedDotted ==
  ASSUME NEW s, Good(s), NEW d \in Rooted(s)
  PROVE  \E p \in Rooted(s) : Dotted(s, d, p) /\ (d # ROOT_INODE => \E e \in Subdirs(s, p) : e.ino = d)
<1>1. Rooted(s) \subseteq Live(s) /\ ROOT_INODE \in Rooted(s) BY RootedFacts
<1>2. CASE d = ROOT_INODE BY <1>1, <1>2, GoodParts
<1>3. CASE d # ROOT_INODE
  <2>1. PICK p \in Rooted(s) : \E e \in Subdirs(s, p) : e.ino = d BY <1>3, RootedFacts
  <2>2. PICK e \in Subdirs(s, p) : e.ino = d BY <2>1
  <2>3. e \in NamesIn(s, p) /\ IsDir(s, e.ino) BY DEF Subdirs
  <2>4. Leading(s, p, e) BY <1>1, <2>3, GoodParts
  <2>5. Dotted(s, d, p) BY <2>2, <2>3, <2>4 DEF Leading
  <2> QED BY <2>1, <2>5
<1> QED BY <1>2, <1>3

(* An entry of a directory is `.', `..' or a name.                           *)
LEMMA DottedEntries ==
  ASSUME NEW s, Good(s), NEW d \in Live(s), NEW p, Dotted(s, d, p), NEW e \in Entries(s, d)
  PROVE  \/ e = [name |-> ".", ino |-> d] \/ e = [name |-> "..", ino |-> p]
         \/ e \in NamesIn(s, d)
<1>1. s \in FS /\ d \in Ino /\ Freed(s, d) \subseteq Block /\ NoTwins(s, d) BY GoodParts
<1>2. e.name \in AllName BY <1>1, EntriesAre
<1>3. PICK b \in Freed(s, d) : \E k \in 1..Len(s.data[b]) : e = s.data[b][k] BY <1>1, EntriesAre
<1>4. PICK k \in 1..Len(s.data[b]) : e = s.data[b][k] BY <1>3
<1> DEFINE c == s.inode[d].blocks[1]
<1>5. c \in Freed(s, d) BY <1>1, Parts DEF Dotted
<1>6. /\ Len(s.data[c]) \in Nat /\ Len(s.data[c]) >= 2
      /\ s.data[c][1] = [name |-> ".", ino |-> d] /\ s.data[c][2] = [name |-> "..", ino |-> p]
  BY <1>1, <1>5, Parts DEF Dotted
<1>7. 1 \in 1..Len(s.data[c]) /\ 2 \in 1..Len(s.data[c]) BY <1>6
<1> HIDE DEF c
<1>8. CASE e.name = "."
  <2>1. s.data[b][k].name = s.data[c][1].name BY <1>4, <1>6, <1>8
  <2>2. b = c /\ k = 1 BY <1>1, <1>5, <1>7, <2>1 DEF NoTwins
  <2> QED BY <1>4, <1>6, <2>2
<1>9. CASE e.name = ".."
  <2>1. s.data[b][k].name = s.data[c][2].name BY <1>4, <1>6, <1>9
  <2>2. b = c /\ k = 2 BY <1>1, <1>5, <1>7, <2>1 DEF NoTwins
  <2> QED BY <1>4, <1>6, <2>2
<1>10. CASE e.name \in Name BY <1>10 DEF NamesIn
<1> QED BY <1>2, <1>8, <1>9, <1>10 DEF AllName

(* The search of get_inode_number, step by step.                             *)
First == DirsIn(fs, {ROOT_INODE, cwd})
Wider(I) == I \cup DirsIn(fs, UNION {Children(fs, d) : d \in I})
Searches(R, k) == R = [n \in 0..k |-> IF n = 0 THEN First ELSE Wider(R[n-1])]

(* The search as a function is there, of any length.                         *)
LEMMA SearchExists ==
  ASSUME NEW m \in Nat
  PROVE  \E R : Searches(R, m)
<1> DEFINE T == {k \in Nat : ~\E R : Searches(R, k)}
<1> SUFFICES ASSUME T # {} PROVE FALSE OBVIOUS
<1>1. PICK k \in T : \A j \in T : k <= j
  BY LeastNat
<1>2. CASE k = 0
  <2> DEFINE R == [n \in 0..0 |-> First]
  <2>1. R = [n \in 0..0 |-> IF n = 0 THEN First ELSE Wider(R[n-1])]
    OBVIOUS
  <2> QED BY <1>1, <1>2, <2>1 DEF Searches
<1>3. CASE k # 0
  <2>1. k \in Nat /\ k-1 \in Nat /\ k-1 \notin T
    BY <1>1, <1>3
  <2>2. PICK R : Searches(R, k-1)
    BY <2>1
  <2>3. R = [n \in 0..k-1 |-> IF n = 0 THEN First ELSE Wider(R[n-1])]
    BY <2>2 DEF Searches
  <2> DEFINE new == [n \in 0..k |-> IF n = k THEN Wider(R[k-1]) ELSE R[n]]
  <2>4. \A n \in 0..k-1 : new[n] = R[n]
    BY <2>1
  <2>5. ASSUME NEW n \in 0..k
        PROVE  new[n] = IF n = 0 THEN First ELSE Wider(new[n-1])
    <3>1. CASE n = k
      BY <1>3, <2>1, <2>4, <3>1
    <3>2. CASE n # k
      <4>1. n \in 0..k-1 /\ new[n] = R[n]
        BY <2>1, <2>4, <3>2
      <4>2. R[n] = IF n = 0 THEN First ELSE Wider(R[n-1])
        BY <2>3, <4>1
      <4>3. n # 0 => n-1 \in 0..k-1 /\ new[n-1] = R[n-1]
        BY <2>1, <2>4, <4>1
      <4> QED BY <4>1, <4>2, <4>3
    <3> QED BY <3>1, <3>2
  <2>6. Searches(new, k)
    BY <2>5 DEF Searches
  <2> QED BY <1>1, <2>6
<1> QED BY <1>2, <1>3

(* Reached is the last step of a search.                                     *)
LEMMA ReachedIs ==
  /\ MaxIno - ROOT_INODE \in Nat
  /\ \E R : /\ Reached = R[MaxIno - ROOT_INODE] /\ R[0] = First
            /\ \A n \in 1..MaxIno - ROOT_INODE : R[n] = Wider(R[n-1])
<1> DEFINE m == MaxIno - ROOT_INODE
<1> DEFINE R == CHOOSE R : Searches(R, m)
<1>1. m \in Nat BY DEF ROOT_INODE
<1>2. Reached = R[m]
  BY DEF Reached, Searches, First, Wider
<1>3. Searches(R, m) BY <1>1, SearchExists
<1>4. R = [n \in 0..m |-> IF n = 0 THEN First ELSE Wider(R[n-1])] BY <1>3 DEF Searches
<1> HIDE DEF R
<1>5. R[0] = First /\ \A n \in 1..m : R[n] = Wider(R[n-1]) BY <1>1, <1>4
<1> QED BY <1>1, <1>2, <1>5

(* It starts at directories led to from the root and goes to no others.      *)
LEMMA WiderRooted ==
  ASSUME Good(fs), cwd \in Rooted(fs)
  PROVE  First \subseteq Rooted(fs) /\ \A I : I \subseteq Rooted(fs) => Wider(I) \subseteq Rooted(fs)
<1>1. /\ Rooted(fs) \subseteq Live(fs) /\ ROOT_INODE \in Rooted(fs) /\ Closed(fs, Rooted(fs))
  BY RootedFacts
<1>2. First \subseteq Rooted(fs) BY <1>1 DEF First, DirsIn
<1>3. ASSUME NEW I, I \subseteq Rooted(fs) PROVE Wider(I) \subseteq Rooted(fs)
  <2> SUFFICES ASSUME NEW d \in I, NEW e \in Entries(fs, d), IsDir(fs, e.ino) PROVE e.ino \in Rooted(fs)
    BY <1>3 DEF Wider, DirsIn, Children
  <2>1. d \in Rooted(fs) /\ d \in Live(fs) BY <1>1, <1>3
  <2>2. PICK p \in Rooted(fs) : Dotted(fs, d, p) BY <2>1, RootedDotted
  <2>3. CASE e = [name |-> ".", ino |-> d] BY <2>1, <2>3
  <2>4. CASE e = [name |-> "..", ino |-> p] BY <2>2, <2>4
  <2>5. CASE e \in NamesIn(fs, d)
    <3>1. e.ino \in Under(fs, d) BY <2>1, <2>5 DEF Under, Subdirs
    <3> QED BY <1>1, <2>1, <3>1 DEF Closed
  <2> QED BY <2>1, <2>2, <2>3, <2>4, <2>5, DottedEntries
<1> QED BY <1>2, <1>3

(* The search finds only directories led to from the root.                   *)
LEMMA ReachedRooted ==
  ASSUME Good(fs), cwd \in Rooted(fs)
  PROVE  Reached \subseteq Rooted(fs)
<1> DEFINE m == MaxIno - ROOT_INODE
<1>1. PICK R : Reached = R[m] /\ R[0] = First /\ \A n \in 1..m : R[n] = Wider(R[n-1])
  BY ReachedIs
<1>3. First \subseteq Rooted(fs) BY WiderRooted
<1>4. ASSUME NEW I, I \subseteq Rooted(fs) PROVE Wider(I) \subseteq Rooted(fs) BY <1>4, WiderRooted
<1> DEFINE T == {n \in 0..m : ~(R[n] \subseteq Rooted(fs))}
<1>5. ASSUME T # {} PROVE FALSE
  <2>0. m \in Nat BY ReachedIs
  <2> HIDE DEF m
  <2>7. T \in SUBSET Nat BY <2>0
  <2>1. PICK k \in T : \A j \in T : k <= j
    <3> HIDE DEF T
    <3> QED BY <1>5, <2>7, LeastNat
  <2>2. k \in 0..m OBVIOUS
  <2>3. k # 0 BY <1>1, <1>3
  <2>4. k-1 \in 0..m /\ k \in 1..m /\ ~(k <= k-1) BY <2>0, <2>2, <2>3
  <2>5. R[k-1] \subseteq Rooted(fs) BY <2>1, <2>4
  <2>6. R[k] \subseteq Rooted(fs) BY <1>1, <1>4, <2>4, <2>5
  <2> QED BY <2>6
<1>6. m \in 0..m BY ReachedIs
<1> QED BY <1>1, <1>5, <1>6

(* A path leads to a directory led to from the root, or to a file that is    *)
(* marked and written.                                                       *)
LEMMA NamedFacts ==
  ASSUME Good(fs), cwd \in Rooted(fs), NEW i \in Named
  PROVE  i \in fs.imap /\ i \in Ino /\ (IF IsDir(fs, i) THEN i \in Rooted(fs) ELSE IsFile(fs, i))
<1>1. PICK d \in Reached : \E e \in Entries(fs, d) : e.ino = i BY DEF Named, Children
<1>2. PICK e \in Entries(fs, d) : e.ino = i BY <1>1
<1>3. d \in Rooted(fs) /\ d \in Live(fs) BY ReachedRooted, RootedFacts
<1>4. PICK p \in Rooted(fs) : Dotted(fs, d, p) BY <1>3, RootedDotted
<1>5. Rooted(fs) \subseteq Live(fs) /\ fs.imap \subseteq Ino /\ fs \in FS BY RootedFacts, GoodParts, Parts
<1>6. CASE i \in Rooted(fs)
  BY <1>5, <1>6, Sizes DEF Live, IsDir
<1>7. CASE e \in NamesIn(fs, d)
  <2>1. i \in fs.imap /\ fs.inode[i].mode # "none" BY <1>2, <1>3, <1>7, GoodParts DEF Leading
  <2>2. i \in Ino /\ fs.inode[i] \in Inode BY <2>1, <1>5, Parts
  <2>3. CASE IsDir(fs, i)
    <3>1. i \in Under(fs, d) BY <1>2, <1>3, <1>7, <2>3 DEF Under, Subdirs
    <3> QED BY <2>1, <2>2, <2>3, <3>1, <1>3, RootedFacts DEF Closed
  <2>4. CASE ~IsDir(fs, i)
    <3>1. fs.inode[i].mode \in {"reg", "lnk"} BY <2>1, <2>2, <2>4, Sizes DEF IsDir, Inode
    <3> QED BY <2>1, <2>2, <2>4, <3>1 DEF IsFile
  <2> QED BY <2>3, <2>4
<1>8. CASE e = [name |-> ".", ino |-> d] BY <1>2, <1>3, <1>6, <1>8
<1>9. CASE e = [name |-> "..", ino |-> p] BY <1>2, <1>4, <1>6, <1>9
<1> QED BY <1>3, <1>4, <1>7, <1>8, <1>9, DottedEntries

-----------------------------------------------------------------------------
(* allocate_inode and allocate_block find free numbers, as long as there are *)
(* some, and no block twice.                                                 *)
LEMMA NewInoFree ==
  ASSUME NEW s \in FS, FreeIno(s) # {}
  PROVE  NewIno(s) \in Ino \ s.imap
<1>1. FreeIno(s) \in SUBSET Nat BY Sizes DEF FreeIno
<1>2. Min(FreeIno(s)) \in FreeIno(s) BY <1>1, LeastNat
<1> QED BY <1>2 DEF NewIno, FreeIno

Lowest(F, k, q) ==
  q \in [1..k -> F] /\ \A j \in 1..k : \A b \in F : b < q[j] <=> \E l \in 1..j-1 : b = q[l]

(* Of a set with at least m blocks there are m lowest.                       *)
LEMMA LowestExists ==
  ASSUME NEW F \in SUBSET Block, NEW m \in Nat, m <= Cardinality(F)
  PROVE  \E q : Lowest(F, m, q)
<1>0. IsFiniteSet(F) /\ F \subseteq Nat BY Sizes, FiniteSets, FS_Subset
<1> DEFINE T == {k \in Nat : k <= Cardinality(F) /\ ~\E q : Lowest(F, k, q)}
<1> SUFFICES ASSUME T # {} PROVE FALSE OBVIOUS
<1>1. PICK k \in T : \A j \in T : k <= j
  BY LeastNat
<1>2. k \in Nat /\ k <= Cardinality(F) /\ Cardinality(F) \in Nat
  BY <1>0, FS_CardinalityType
<1>3. CASE k = 0
  <2> DEFINE q == [j \in 1..0 |-> 0]
  <2>1. q \in [1..0 -> F] OBVIOUS
  <2>2. Lowest(F, 0, q) BY <2>1 DEF Lowest
  <2> QED BY <1>1, <1>3, <2>2
<1>4. CASE k # 0
  <2>1. k-1 \in Nat /\ k-1 <= Cardinality(F) /\ k-1 \notin T /\ k \in 1..k
    <3>1. k-1 \in Nat /\ ~(k <= k-1) BY <1>2, <1>4
    <3> QED BY <1>1, <1>2, <1>4, <3>1
  <2>2. PICK q : Lowest(F, k-1, q) BY <2>1
  <2>3. /\ q \in [1..k-1 -> F]
        /\ \A j \in 1..k-1 : \A b \in F : b < q[j] <=> \E l \in 1..j-1 : b = q[l]
    BY <2>2 DEF Lowest
  <2> DEFINE I == {q[l] : l \in 1..k-1}
  <2> DEFINE U == F \ I
  <2>4. U # {}
    <3>1. IsFiniteSet(1..k-1) /\ Cardinality(1..k-1) = k-1 BY <2>1, FS_Interval
    <3>2. q \in Surjection(1..k-1, I)
      BY <2>3 DEF Surjection
    <3>3. IsFiniteSet(I) /\ Cardinality(I) <= k-1 BY <3>1, <3>2, FS_Surjection
    <3>4. Cardinality(I) \in Nat /\ Cardinality(I) # Cardinality(F) BY <1>2, <2>1, <3>3, FS_CardinalityType
    <3>5. I \subseteq F BY <2>3
    <3> QED BY <3>4, <3>5
  <2> DEFINE c == Min(U)
  <2>5. c \in U /\ \A b \in U : c <= b
    <3>1. U \in SUBSET Nat BY <1>0
    <3> HIDE DEF U
    <3> QED BY <2>4, <3>1, LeastNat
  <2> HIDE DEF c
  <2> DEFINE new == [j \in 1..k |-> IF j = k THEN c ELSE q[j]]
  <2>6. new \in [1..k -> F] /\ new[k] = c /\ \A j \in 1..k-1 : new[j] = q[j]
    BY <2>1, <2>3, <2>5
  <2> HIDE DEF new
  <2>7. ASSUME NEW j \in 1..k, NEW b \in F
        PROVE  b < new[j] <=> \E l \in 1..j-1 : b = new[l]
    <3>1. CASE j # k
      <4>1. j \in 1..k-1 /\ \A l \in 1..j-1 : l \in 1..k-1 BY <2>1, <3>1
      <4> QED BY <2>3, <2>6, <4>1
    <3>2. CASE j = k
      <4>1. b \in Nat /\ c \in Nat /\ c \in F /\ c \notin I BY <1>0, <2>5
      <4>2. ASSUME b < c PROVE \E l \in 1..k-1 : b = q[l]
        <5>1. b \notin U BY <2>5, <4>1, <4>2
        <5> QED BY <5>1
      <4>3. ASSUME NEW l \in 1..k-1, b = q[l] PROVE b < c
        <5>1. b # c BY <4>1, <4>3
        <5>2. ~(c < q[l])
          <6>1. c < q[l] => \E h \in 1..l-1 : c = q[h] BY <2>3, <4>1
          <6>2. \A h \in 1..l-1 : h \in 1..k-1 BY <2>1
          <6> QED BY <4>1, <6>1, <6>2
        <5> QED BY <4>1, <4>3, <5>1, <5>2
      <4> QED BY <2>6, <3>2, <4>2, <4>3
    <3> QED BY <3>1, <3>2
  <2>8. Lowest(F, k, new) BY <2>6, <2>7 DEF Lowest
  <2> QED BY <1>1, <2>8
<1> QED BY <1>3, <1>4

(* allocate_block: the blocks were free, each is another.                    *)
LEMMA NewBlocksFree ==
  ASSUME NEW s \in FS, NEW k \in Nat, k <= Cardinality(FreeBlock(s))
  PROVE  /\ NewBlocks(s, k) \in Seq(Block) /\ Len(NewBlocks(s, k)) = k /\ Once(NewBlocks(s, k))
         /\ ToSet(NewBlocks(s, k)) \subseteq Block \ s.bmap
         /\ \A j \in 1..k : NewBlocks(s, k)[j] \in Block \ s.bmap
<1> DEFINE F == FreeBlock(s)
<1> DEFINE q == NewBlocks(s, k)
<1>1. F \in SUBSET Block BY DEF FreeBlock
<1>2. Lowest(F, k, q)
  <2> DEFINE P(t) == \A j \in 1..k : \A b \in F : b < t[j] <=> \E l \in 1..j-1 : b = t[l]
  <2>1. PICK t : Lowest(F, k, t) BY <1>1, LowestExists
  <2>2. t \in [1..k -> F] /\ P(t) BY <2>1 DEF Lowest
  <2>3. q = CHOOSE u \in [1..k -> F] : P(u)
    BY DEF NewBlocks
  <2> HIDE DEF P, q, F
  <2>4. q \in [1..k -> F] /\ P(q) BY <2>2, <2>3
  <2> QED BY <2>4 DEF Lowest, P
<1> HIDE DEF q
<1>3. q \in [1..k -> F] /\ \A j \in 1..k : \A b \in F : b < q[j] <=> \E l \in 1..j-1 : b = q[l]
  BY <1>2 DEF Lowest
<1>4. q \in Seq(Block) /\ Len(q) = k BY <1>1, <1>3
<1>5. \A j \in 1..k : q[j] \in F /\ q[j] \in Nat BY <1>1, <1>3, Sizes
<1>6. Once(q)
  <2> SUFFICES ASSUME NEW j \in 1..k, NEW l \in 1..k, q[j] = q[l], l < j PROVE FALSE
    BY <1>4 DEF Once
  <2>1. l \in 1..j-1 OBVIOUS
  <2>2. q[l] < q[j] BY <1>3, <1>5, <2>1
  <2> QED BY <1>5, <2>2
<1>7. ToSet(q) = {q[j] : j \in 1..k} BY <1>3 DEF ToSet
<1> QED BY <1>4, <1>5, <1>6, <1>7 DEF q, FreeBlock

(* The same for one block.                                                   *)
LEMMA NewBlockFree ==
  ASSUME NEW s \in FS, 1 <= Cardinality(FreeBlock(s))
  PROVE  /\ NewBlock(s) \in Block \ s.bmap
         /\ WithBlocks(s, 1) = [s EXCEPT !.bmap = s.bmap \cup {NewBlock(s)}]
<1>1. /\ NewBlocks(s, 1) \in Seq(Block) /\ Len(NewBlocks(s, 1)) = 1
      /\ \A j \in 1..1 : NewBlocks(s, 1)[j] \in Block \ s.bmap
  BY NewBlocksFree
<1>2. ToSet(NewBlocks(s, 1)) = {NewBlocks(s, 1)[1]}
  <2> DEFINE q == NewBlocks(s, 1)
  <2>1. q \in Seq(Block) /\ Len(q) = 1 BY <1>1
  <2> HIDE DEF q
  <2>2. DOMAIN q = {1} BY <2>1
  <2>3. ToSet(q) = {q[1]} BY <2>2 DEF ToSet
  <2> QED BY <2>3 DEF q
<1>3. NewBlock(s) \in Block \ s.bmap
  <2>1. 1 \in 1..1 OBVIOUS
  <2> QED BY <1>1, <2>1 DEF NewBlock
<1>4. WithBlocks(s, 1) = [s EXCEPT !.bmap = s.bmap \cup {NewBlock(s)}]
  BY <1>2 DEF NewBlock, WithBlocks
<1> QED BY <1>3, <1>4

(* A free block can be allocated.                                            *)
LEMMA SomeBlock ==
  ASSUME NEW s \in FS, FreeBlock(s) # {}
  PROVE  1 <= Cardinality(FreeBlock(s))
<1>1. IsFiniteSet(FreeBlock(s)) BY FiniteSets, FS_Subset DEF FreeBlock
<1>2. Cardinality(FreeBlock(s)) \in Nat /\ Cardinality(FreeBlock(s)) # 0 BY <1>1, FS_CardinalityType, FS_EmptySet
<1> QED BY <1>2

-----------------------------------------------------------------------------
(* search: the place found, if there is one.                                 *)
InBlock(s, b, N) == SelectInSeq(s.data[b], LAMBDA e : e.name \in N)

(* search in a block: the first entry with a name of N, or none.             *)
LEMMA InBlockFacts ==
  ASSUME NEW s \in FS, NEW b \in Block, NEW N
  PROVE  /\ InBlock(s, b, N) \in Nat
         /\ InBlock(s, b, N) = 0 <=> \A k \in 1..Len(s.data[b]) : s.data[b][k].name \notin N
         /\ InBlock(s, b, N) # 0 => /\ InBlock(s, b, N) \in 1..Len(s.data[b])
                                    /\ s.data[b][InBlock(s, b, N)].name \in N
                                    /\ \A k \in 1..Len(s.data[b]) : s.data[b][k].name \in N => InBlock(s, b, N) <= k
<1> DEFINE I == {k \in 1..Len(s.data[b]) : s.data[b][k].name \in N}
<1>1. Len(s.data[b]) \in Nat BY Parts
<1>2. InBlock(s, b, N) = IF I # {} THEN Min(I) ELSE 0
  BY DEF InBlock, SelectInSeq
<1>3. I # {} => Min(I) \in I /\ \A k \in I : Min(I) <= k
  <2>1. I \in SUBSET Nat BY <1>1
  <2> HIDE DEF I
  <2> QED BY <2>1, LeastNat
<1>4. CASE I = {} BY SMTT(30), <1>2, <1>4
<1>5. CASE I # {}
  <2>1. InBlock(s, b, N) \in I /\ \A k \in I : InBlock(s, b, N) <= k BY <1>2, <1>3, <1>5
  <2> QED BY <1>1, <2>1
<1> QED BY <1>4, <1>5

(* search: an entry with a name of N, if the directory has one.              *)
LEMMA PlaceFacts ==
  ASSUME NEW s \in FS, NEW d \in Ino, Freed(s, d) \subseteq Block, NEW N
  PROVE  \/ Place(s, d, N) = <<>> /\ \A e \in Entries(s, d) : e.name \notin N
         \/ \E b \in Freed(s, d) : \E k \in 1..Len(s.data[b]) :
              /\ Place(s, d, N) = <<b, k>> /\ s.data[b][k].name \in N
              /\ EntryAt(s, Place(s, d, N)) = s.data[b][k]
<1> DEFINE q == s.inode[d].blocks
<1> DEFINE J == {j \in 1..Len(q) : InBlock(s, q[j], N) # 0}
<1> DEFINE h == IF J # {} THEN Min(J) ELSE 0
<1>1. q \in Seq(Block \cup {Beyond}) /\ Len(q) \in Nat /\ Freed(s, d) = {q[j] : j \in 1..Len(q)}
  <2>1. q \in Seq(Block \cup {Beyond}) /\ Freed(s, d) = {q[j] : j \in 1..Len(q)} BY Parts
  <2> QED BY <2>1
<1>2. Place(s, d, N) = IF h = 0 THEN <<>> ELSE <<q[h], InBlock(s, q[h], N)>>
  BY DEF Place, InBlock, SelectInSeq
<1>3. CASE J = {}
  <2>1. Place(s, d, N) = <<>> BY <1>2, <1>3
  <2>2. \A b \in Freed(s, d) : InBlock(s, b, N) = 0 BY <1>1, <1>3
  <2>3. ASSUME NEW e \in Entries(s, d) PROVE e.name \notin N
    <3>1. PICK b \in Freed(s, d) : \E k \in 1..Len(s.data[b]) : e = s.data[b][k] BY EntriesAre
    <3>2. PICK k \in 1..Len(s.data[b]) : e = s.data[b][k] BY <3>1
    <3> QED BY <2>2, <3>2, InBlockFacts
  <2> QED BY <2>1, <2>3
<1>4. CASE J # {}
  <2>1. h \in J
    <3>1. J \in SUBSET Nat BY <1>1
    <3> HIDE DEF J
    <3> QED BY <1>4, <3>1, LeastNat
  <2> DEFINE b == q[h]
  <2> DEFINE k == InBlock(s, b, N)
  <2>2. b \in Freed(s, d) /\ b \in Block /\ k # 0 /\ h # 0
    <3>1. h \in 1..Len(q) /\ InBlock(s, q[h], N) # 0 BY <2>1
    <3> HIDE DEF h, J, q
    <3> QED BY <1>1, <3>1
  <2>3. Place(s, d, N) = <<b, k>> BY <1>2, <2>2
  <2> HIDE DEF b, h
  <2>4. k \in 1..Len(s.data[b]) /\ s.data[b][k].name \in N BY <2>2, InBlockFacts
  <2>5. EntryAt(s, Place(s, d, N)) = s.data[b][k] BY <2>3 DEF EntryAt
  <2> QED BY <2>2, <2>3, <2>4, <2>5
<1> QED BY <1>3, <1>4

(* It is the first entry of the first block, if that is one.                 *)
LEMMA PlaceFirst ==
  ASSUME NEW s \in FS, NEW d \in Ino, Freed(s, d) \subseteq Block, NEW N, NEW p, Dotted(s, d, p), "." \in N
  PROVE  Place(s, d, N) # <<>> /\ EntryAt(s, Place(s, d, N)) = [name |-> ".", ino |-> d]
<1> DEFINE q == s.inode[d].blocks
<1> DEFINE J == {j \in 1..Len(q) : InBlock(s, q[j], N) # 0}
<1> DEFINE h == IF J # {} THEN Min(J) ELSE 0
<1>1. q \in Seq(Block \cup {Beyond}) /\ Len(q) \in Nat /\ Freed(s, d) = {q[j] : j \in 1..Len(q)}
  <2>1. q \in Seq(Block \cup {Beyond}) /\ Freed(s, d) = {q[j] : j \in 1..Len(q)} BY Parts
  <2> QED BY <2>1
<1>2. Place(s, d, N) = IF h = 0 THEN <<>> ELSE <<q[h], InBlock(s, q[h], N)>>
  BY DEF Place, InBlock, SelectInSeq
<1>3. q # <<>> /\ 1 \in 1..Len(q) /\ q[1] \in Block
  <2>1. q # <<>> BY DEF Dotted
  <2>2. 1 \in 1..Len(q) BY <1>1, <2>1
  <2> QED BY <1>1, <2>1, <2>2
<1>4. Len(s.data[q[1]]) \in Nat /\ Len(s.data[q[1]]) >= 2 /\ s.data[q[1]][1] = [name |-> ".", ino |-> d]
  BY <1>3, Parts DEF Dotted
<1>5. InBlock(s, q[1], N) = 1
  <2> DEFINE b == q[1]
  <2>1. b \in Block /\ 1 \in 1..Len(s.data[b]) /\ s.data[b][1].name \in N BY <1>3, <1>4
  <2> HIDE DEF b
  <2>2. InBlock(s, b, N) # 0 BY <2>1, InBlockFacts
  <2>3. InBlock(s, b, N) \in 1..Len(s.data[b]) /\ InBlock(s, b, N) <= 1 BY <2>1, <2>2, InBlockFacts
  <2>4. InBlock(s, b, N) = 1 BY <2>3
  <2> QED BY <2>4 DEF b
<1>6. h = 1
  <2>1. 1 \in J BY <1>3, <1>5
  <2>2. J \in SUBSET Nat /\ \A j \in J : j \in Nat /\ j # 0 BY <1>1
  <2> HIDE DEF J
  <2>3. Min(J) \in J /\ Min(J) <= 1 BY <2>1, <2>2, LeastNat
  <2> DEFINE x == Min(J)
  <2> HIDE DEF x
  <2>5. x \in J /\ x <= 1 BY <2>3 DEF x
  <2>6. x \in Nat /\ x # 0 BY <2>2, <2>5
  <2>7. x = 1 BY <2>5, <2>6
  <2>4. Min(J) = 1 BY <2>7 DEF x
  <2> QED BY <2>1, <2>4
<1>7. Place(s, d, N) = <<q[1], 1>>
  <2> HIDE DEF h
  <2> QED BY <1>2, <1>5, <1>6
<1> QED BY <1>4, <1>7 DEF EntryAt

(* The place of a directory that is as it was is the same.                   *)
LEMMA SamePlace ==
  ASSUME NEW s \in FS, NEW r \in FS, NEW d \in Ino, Freed(s, d) \subseteq Block,
         r.inode[d].blocks = s.inode[d].blocks, \A b \in Freed(s, d) : r.data[b] = s.data[b], NEW N
  PROVE  Place(r, d, N) = Place(s, d, N)
<1> DEFINE q == s.inode[d].blocks
<1> DEFINE J == {j \in 1..Len(q) : InBlock(s, q[j], N) # 0}
<1> DEFINE K == {j \in 1..Len(q) : InBlock(r, q[j], N) # 0}
<1>1. Freed(s, d) = {q[j] : j \in 1..Len(q)} BY Parts
<1>2. \A j \in 1..Len(q) : InBlock(r, q[j], N) = InBlock(s, q[j], N)
  BY <1>1 DEF InBlock
<1>3. J = K BY <1>2
<1> DEFINE h == IF J # {} THEN Min(J) ELSE 0
<1> DEFINE i == IF K # {} THEN Min(K) ELSE 0
<1>4. Place(s, d, N) = IF h = 0 THEN <<>> ELSE <<q[h], InBlock(s, q[h], N)>>
  BY DEF Place, InBlock, SelectInSeq
<1>5. Place(r, d, N) = IF i = 0 THEN <<>> ELSE <<q[i], InBlock(r, q[i], N)>>
  BY DEF Place, InBlock, SelectInSeq
<1>6. i = h BY <1>3
<1>7. h # 0 => h \in 1..Len(q)
  <2>1. Len(q) \in Nat
    <3>1. q \in Seq(Block \cup {Beyond}) BY Parts
    <3> QED BY <3>1
  <2>2. J \in SUBSET Nat /\ J \subseteq 1..Len(q) BY <2>1
  <2> HIDE DEF J
  <2>3. J # {} => Min(J) \in J BY <2>2, LeastNat
  <2> QED BY <2>2, <2>3
<1> HIDE DEF h, i
<1> QED BY <1>2, <1>4, <1>5, <1>6, <1>7

(* What a path leads to.                                                     *)
LEMMA LookupFacts ==
  ASSUME NEW s, Good(s), NEW d \in Live(s), NEW n
  PROVE  /\ Lookup(s, d, n) = NoIno => Absent(s, d, n)
         /\ Lookup(s, d, n) # NoIno => [name |-> n, ino |-> Lookup(s, d, n)] \in Entries(s, d)
<1>1. s \in FS /\ d \in Ino /\ Freed(s, d) \subseteq Block BY GoodParts
<1>2. IsDir(s, d) BY <1>1, Sizes DEF IsDir, Live
<1>3. CASE Place(s, d, {n}) = <<>> /\ \A e \in Entries(s, d) : e.name \notin {n}
  BY <1>2, <1>3 DEF Lookup, Absent
<1>4. ASSUME NEW b \in Freed(s, d), NEW k \in 1..Len(s.data[b]),
             Place(s, d, {n}) = <<b, k>>, s.data[b][k].name \in {n}, EntryAt(s, Place(s, d, {n})) = s.data[b][k]
      PROVE  Lookup(s, d, n) # NoIno /\ [name |-> n, ino |-> Lookup(s, d, n)] \in Entries(s, d)
  <2> DEFINE e == s.data[b][k]
  <2>1. e \in Entries(s, d) BY <1>1, EntriesAre
  <2>2. e \in Entry /\ e.ino \in Ino BY <1>1, <2>1, EntriesAre
  <2>3. Lookup(s, d, n) = e.ino BY SMTT(30), <1>2, <1>4 DEF Lookup
  <2>4. e = [name |-> n, ino |-> Lookup(s, d, n)]
    <3>1. e.name = n BY <1>4
    <3> HIDE DEF e
    <3> QED BY <2>2, <2>3, <3>1 DEF Entry
  <2> HIDE DEF e
  <2> QED BY <2>1, <2>2, <2>3, <2>4, Sizes
<1>5. CASE \E b \in Freed(s, d) : \E k \in 1..Len(s.data[b]) :
             /\ Place(s, d, {n}) = <<b, k>> /\ s.data[b][k].name \in {n}
             /\ EntryAt(s, Place(s, d, {n})) = s.data[b][k]
  BY <1>4, <1>5
<1>6. \/ Place(s, d, {n}) = <<>> /\ \A e \in Entries(s, d) : e.name \notin {n}
      \/ \E b \in Freed(s, d) : \E k \in 1..Len(s.data[b]) :
             /\ Place(s, d, {n}) = <<b, k>> /\ s.data[b][k].name \in {n}
             /\ EntryAt(s, Place(s, d, {n})) = s.data[b][k]
  <2> DEFINE N == {n}
  <2> HIDE DEF N
  <2>1. \/ Place(s, d, N) = <<>> /\ \A e \in Entries(s, d) : e.name \notin N
        \/ \E b \in Freed(s, d) : \E k \in 1..Len(s.data[b]) :
             /\ Place(s, d, N) = <<b, k>> /\ s.data[b][k].name \in N
             /\ EntryAt(s, Place(s, d, N)) = s.data[b][k]
    BY <1>1, PlaceFacts
  <2> QED BY <2>1 DEF N
<1> QED BY <1>3, <1>5, <1>6

-----------------------------------------------------------------------------
(* enter_dir_entry: every file system on its way is good.                    *)
GoodFS == {s \in FS : Good(s)}

(* Bitmap and image aside, the same file system has the same names.          *)
LEMMA SameData ==
  ASSUME NEW s, NEW r, r.imap = s.imap, r.inode = s.inode, r.data = s.data
  PROVE  /\ Live(r) = Live(s) /\ \A i : IsDir(r, i) <=> IsDir(s, i)
         /\ \A d : Entries(r, d) = Entries(s, d) /\ NamesIn(r, d) = NamesIn(s, d) /\ Subdirs(r, d) = Subdirs(s, d)
         /\ \A i : NamesAt(r, i) = NamesAt(s, i)
         /\ \A p, i : Nameable(s, p, i) => Nameable(r, p, i)
         /\ \A p, n : Absent(s, p, n) => Absent(r, p, n)
<1>1. Live(r) = Live(s) BY DEF Live
<1>2. \A i : IsDir(r, i) <=> IsDir(s, i) BY DEF IsDir
<1>3. \A d : Entries(r, d) = Entries(s, d) BY DEF Entries
<1>4. \A d : NamesIn(r, d) = NamesIn(s, d) BY <1>3 DEF NamesIn
<1>5. \A d : Subdirs(r, d) = Subdirs(s, d) BY <1>2, <1>4 DEF Subdirs
<1>6. ASSUME NEW i PROVE NamesAt(r, i) = NamesAt(s, i) BY <1>1, <1>3 DEF NamesAt
<1>7. \A d, p : Dotted(s, d, p) => Dotted(r, d, p) BY DEF Dotted
<1>8. ASSUME NEW p, NEW i, Nameable(s, p, i) PROVE Nameable(r, p, i)
  BY <1>2, <1>4, <1>6, <1>7, <1>8 DEF Nameable
<1>9. \A p, n : Absent(s, p, n) => Absent(r, p, n) BY <1>3 DEF Absent
<1> QED BY <1>1, <1>2, <1>3, <1>4, <1>5, <1>6, <1>8, <1>9

(* The block of a directory that has room is one of its blocks.              *)
LEMMA RoomyFacts ==
  ASSUME NEW s \in FS, NEW d \in Ino, Freed(s, d) \subseteq Block, Roomy(s, d) # 0
  PROVE  /\ s.inode[d].blocks[Roomy(s, d)] \in Freed(s, d)
         /\ Len(s.data[s.inode[d].blocks[Roomy(s, d)]]) < Room
<1> DEFINE q == s.inode[d].blocks
<1> DEFINE J == {j \in 1..Len(q) : Len(s.data[q[j]]) < Room}
<1>1. q \in Seq(Block \cup {Beyond}) /\ Freed(s, d) = {q[j] : j \in 1..Len(q)} BY Parts
<1>2. Roomy(s, d) = IF J # {} THEN Min(J) ELSE 0 BY DEF Roomy, SelectInSeq
<1>3. J \in SUBSET Nat BY <1>1
<1>4. Roomy(s, d) \in J
  <2> HIDE DEF J
  <2> QED BY <1>2, <1>3, LeastNat
<1> QED BY <1>1, <1>4

HasEntered(s, r, p, i, n) ==
  /\ Good(r) /\ Off(s, r, {p}) /\ Live(r) = Live(s) /\ r.imap = s.imap /\ r.table = s.table
  /\ \A j \in Ino \ {p} : r.inode[j] = s.inode[j]
  /\ r.inode[p].mode = s.inode[p].mode /\ r.inode[p].links = s.inode[p].links
  /\ Subdirs(r, p) = Subdirs(s, p) \cup (IF IsDir(s, i) THEN {[name |-> n, ino |-> i]} ELSE {})
  /\ ~IsDir(s, i) => Off(s, r, {})

(* So it is when the file system between is given by its fields.             *)
LEMMA EntersThen ==
  ASSUME NEW s, Good(s), NEW r \in FS, NEW p \in Live(s), NEW b \in Block, NEW i \in Ino, NEW n \in Name,
         Enters(s, r, p, b, [name |-> n, ino |-> i]), Absent(s, p, n), Nameable(s, p, i)
  PROVE  HasEntered(s, r, p, i, n)
<1> DEFINE e == [name |-> n, ino |-> i]
<1>1. e \in Entry /\ e.name = n /\ e.ino = i BY DEF Entry, AllName
<1> HIDE DEF e
<1>2. Enters(s, r, p, b, e) BY DEF e
<1>3. /\ Good(r) /\ Off(s, r, {p}) /\ Live(r) = Live(s)
      /\ Subdirs(r, p) = Subdirs(s, p) \cup (IF IsDir(s, e.ino) THEN {e} ELSE {})
      /\ ~IsDir(s, e.ino) => Off(s, r, {})
  BY <1>1, <1>2, EnteredGood
<1>4. /\ \A j \in Ino : r.inode[j].mode = s.inode[j].mode /\ r.inode[j].links = s.inode[j].links
  BY <1>1, <1>2, EnteredDirs
<1>5. p \in Ino /\ s \in FS /\ s.inode \in [Ino -> Inode] BY GoodParts, Parts
<1>6. /\ r.imap = s.imap /\ r.table = s.table
      /\ \A j \in Ino \ {p} : r.inode[j] = s.inode[j]
  BY <1>2, <1>5 DEF Enters
<1> QED BY <1>1, <1>3, <1>4, <1>5, <1>6 DEF HasEntered, e

(* enter_dir_entry keeps the file system good, write by write.               *)
LEMMA EnterGood ==
  ASSUME NEW s, Good(s), NEW p \in Live(s), s.inode[p].blocks # <<>>, NEW n \in Name, Absent(s, p, n),
         NEW i \in Ino, Nameable(s, p, i), CanEnter(s, p)
  PROVE  /\ EnterDirEntry(s, p, i, n) \in Seq(GoodFS) /\ EnterDirEntry(s, p, i, n) # <<>>
         /\ HasEntered(s, Last(EnterDirEntry(s, p, i, n)), p, i, n)
<1> DEFINE e == [name |-> n, ino |-> i]
<1>1. /\ s \in FS /\ p \in Ino /\ Freed(s, p) \subseteq Block /\ Clean(s)
      /\ s.inode \in [Ino -> Inode] /\ s.data \in [Block -> Content] /\ s.inode[p] \in Inode
      /\ \A b \in Block : s.data[b] \in Seq(Entry) /\ Len(s.data[b]) \in 0..Room
      /\ s.inode[p].blocks \in Seq(Block \cup {Beyond}) /\ s.bmap \subseteq Block
  BY GoodParts, Parts
<1>2. e \in Entry BY DEF Entry, AllName
<1>3. CASE Roomy(s, p) # 0
  <2> DEFINE b == s.inode[p].blocks[Roomy(s, p)]
  <2> DEFINE r == [s EXCEPT !.data[b] = Append(s.data[b], e)]
  <2>1. b \in Freed(s, p) /\ b \in Block /\ Len(s.data[b]) < Room BY SMTT(30), <1>1, <1>3, RoomyFacts
  <2>2. EnterDirEntry(s, p, i, n) = <<r>> BY <1>3 DEF EnterDirEntry
  <2> HIDE DEF b
  <2>3. Append(s.data[b], e) \in Content
    <3>1. s.data[b] \in Seq(Entry) /\ Len(s.data[b]) \in Nat BY <1>1, <2>1
    <3>2. Append(s.data[b], e) \in Seq(Entry) /\ Len(Append(s.data[b], e)) = Len(s.data[b]) + 1
      BY <1>2, <3>1
    <3> QED BY <2>1, <3>1, <3>2, Sizes DEF Content
  <2>4. /\ r \in FS /\ r.imap = s.imap /\ r.bmap = s.bmap /\ r.table = s.table /\ r.inode = s.inode
        /\ r.data = [s.data EXCEPT ![b] = Append(s.data[b], e)]
    BY <1>1, <2>1, <2>3 DEF FS
  <2> HIDE DEF r, e
  <2>5. Enters(s, r, p, b, e) BY <2>1, <2>4 DEF Enters
  <2>6. HasEntered(s, r, p, i, n) BY <2>1, <2>4, <2>5, EntersThen DEF e
  <2>7. r \in GoodFS BY <2>4, <2>6 DEF GoodFS, HasEntered
  <2>8. <<r>> \in Seq(GoodFS) /\ <<r>> # <<>> /\ Last(<<r>>) = r BY <2>7 DEF Last
  <2> QED BY <2>2, <2>6, <2>8
<1>4. CASE Roomy(s, p) = 0
  <2> DEFINE b == NewBlock(s)
  <2> DEFINE grown == WithBlocks(s, 1)
  <2> DEFINE q == s.inode[p].blocks
  <2> DEFINE r == [grown EXCEPT !.inode[p].blocks = Append(q, b), !.data[b] = <<e>>]
  <2>1. 1 <= Cardinality(FreeBlock(s)) BY <1>1, <1>4, SomeBlock DEF CanEnter
  <2>2. b \in Block \ s.bmap /\ grown = [s EXCEPT !.bmap = s.bmap \cup {b}] BY <1>1, <2>1, NewBlockFree
  <2> HIDE DEF b
  <2>3. /\ grown \in FS /\ grown.imap = s.imap /\ grown.bmap = s.bmap \cup {b} /\ grown.table = s.table
        /\ grown.inode = s.inode /\ grown.data = s.data
    BY <1>1, <2>2 DEF FS
  <2>4. EnterDirEntry(s, p, i, n) = <<grown, r>>
    <3>1. EnterDirEntry(s, p, i, n)
            = <<grown, [grown EXCEPT !.inode[p].blocks = Append(grown.inode[p].blocks, b), !.data[b] = <<e>>]>>
      BY <1>4 DEF EnterDirEntry, b
    <3> QED BY <2>3, <3>1
  <2>5. <<e>> \in Content
    <3>1. <<e>> \in Seq(Entry) /\ Len(<<e>>) = 1 BY <1>2
    <3> QED BY <3>1, Sizes DEF Content
  <2>6. Append(q, b) \in Seq(Block \cup {Beyond}) BY <1>1, <2>2
  <2> HIDE DEF grown, e
  <2>7. /\ r.imap = s.imap /\ r.bmap = s.bmap \cup {b} /\ r.table = s.table
        /\ r.inode = [s.inode EXCEPT ![p] = [s.inode[p] EXCEPT !.blocks = Append(q, b)]]
        /\ r.data = [s.data EXCEPT ![b] = <<e>>]
        /\ DOMAIN r = DOMAIN grown
    BY <2>3 DEF FS
  <2>8. r \in FS
    <3>1. [s.inode[p] EXCEPT !.blocks = Append(q, b)] \in Inode
      <4> HIDE DEF q
      <4> QED BY <1>1, <2>6 DEF Inode
    <3>2. [s.inode EXCEPT ![p] = [s.inode[p] EXCEPT !.blocks = Append(q, b)]] \in [Ino -> Inode]
      <4> HIDE DEF q
      <4> QED BY <1>1, <3>1
    <3>3. [s.data EXCEPT ![b] = <<e>>] \in [Block -> Content] BY <1>1, <2>2, <2>5
    <3> DEFINE ni == [s.inode EXCEPT ![p] = [s.inode[p] EXCEPT !.blocks = Append(q, b)]]
    <3> DEFINE nd == [s.data EXCEPT ![b] = <<e>>]
    <3>4. r = [grown EXCEPT !.inode = ni, !.data = nd] BY <2>3
    <3> HIDE DEF ni, nd, r
    <3> QED BY <2>3, <3>2, <3>3, <3>4 DEF FS, ni, nd
  <2> HIDE DEF r, q
  <2>9. Good(grown) /\ Off(s, grown, {})
    <3>1. Allocating(s, grown, {b}) /\ {b} \in SUBSET Block BY <2>2, <2>3 DEF Allocating
    <3> QED BY <2>3, <3>1, BlocksGood
  <2>11. /\ Live(grown) = Live(s) /\ Nameable(grown, p, i) /\ Absent(grown, p, n)
         /\ Subdirs(grown, p) = Subdirs(s, p) /\ (IsDir(grown, i) <=> IsDir(s, i))
    BY <2>3, SameData
  <2>12. Enters(grown, r, p, b, e)
    <3>1. grown.data[b] = <<>> BY <1>1, <2>2, <2>3 DEF Clean
    <3>2. Append(grown.data[b], e) = <<e>> BY <3>1
    <3>3. \A k \in Ino : Owner(grown, k) => b \notin Freed(grown, k)
      <4>1. Marks(s) BY GoodParts
      <4> QED BY <2>2, <2>3, <4>1 DEF Marks, Owner, Freed
    <3> QED BY <2>2, <2>3, <2>7, <3>1, <3>2, <3>3 DEF Enters, q
  <2>13. HasEntered(grown, r, p, i, n)
    <3>1. p \in Live(grown) /\ b \in Block BY <2>2, <2>11
    <3> QED BY <2>8, <2>9, <2>11, <2>12, <3>1, EntersThen DEF e
  <2>14. HasEntered(s, r, p, i, n)
    <3>1. Off(s, r, {p}) BY <2>9, <2>13, OffTrans DEF HasEntered
    <3>2. ~IsDir(s, i) => Off(s, r, {}) BY <2>9, <2>11, <2>13, OffTrans DEF HasEntered
    <3> QED BY <2>3, <2>11, <2>13, <3>1, <3>2 DEF HasEntered
  <2>15. r \in GoodFS /\ grown \in GoodFS BY <2>3, <2>8, <2>9, <2>13 DEF GoodFS, HasEntered
  <2>16. <<grown, r>> \in Seq(GoodFS) /\ <<grown, r>> # <<>> /\ Last(<<grown, r>>) = r BY <2>15 DEF Last
  <2> QED BY <2>4, <2>14, <2>16 DEF r
<1> QED BY <1>3, <1>4

-----------------------------------------------------------------------------
(* A new inode: marked, given blocks nobody has, and written.                *)
LEMMA UnnamedNowhere ==
  ASSUME NEW s, NEW i, Unnamed(s, i)
  PROVE  NamesAt(s, i) = {}
<1> SUFFICES ASSUME NEW x \in NamesAt(s, i) PROVE FALSE
  OBVIOUS
<1> DEFINE e == [name |-> x[2], ino |-> i]
<1>1. x[1] \in Live(s) /\ x[2] \in Name /\ e \in Entries(s, x[1]) BY DEF NamesAt
<1>2. e \in NamesIn(s, x[1]) BY <1>1 DEF NamesIn
<1> QED BY <1>1, <1>2 DEF Unnamed

(* An inode stays without a name if no directory gets one.                   *)
LEMMA UnnamedKept ==
  ASSUME NEW s, NEW r, NEW i, Unnamed(s, i), \A d \in Live(r) : d \in Live(s) /\ SameDir(s, r, d)
  PROVE  Unnamed(r, i)
  BY DEF Unnamed, SameDir
Renewing(s, r, i, m) ==
  /\ r.imap = s.imap /\ r.bmap = s.bmap /\ r.data = s.data
  /\ r.inode = [s.inode EXCEPT ![i] = m] /\ r.table = [s.table EXCEPT ![i] = m]
IsNew(s, r, i, m) ==
  /\ Good(r) /\ Off(s, r, {i}) /\ Unnamed(r, i)
  /\ i \notin Live(s) /\ r.inode[i] = m /\ i \in r.imap
  /\ \A d \in Live(s) : d \in Live(r) /\ SameDir(s, r, d)
  /\ m.mode = "dir" => NamesIn(r, i) = {}

(* Each of the three steps keeps the file system good.                       *)
LEMMA NewInode ==
  ASSUME NEW s, Good(s), NEW i \in Ino \ s.imap, NEW m \in Inode, m.mode \in {"reg", "dir"}, Once(m.blocks),
         NEW B \in SUBSET Block, B \cap s.bmap = {}, ToSet(m.blocks) = B,
         NEW marked \in FS, Marking(s, marked, i), NEW grown \in FS, Allocating(marked, grown, B),
         NEW r \in FS, Renewing(grown, r, i, m)
  PROVE  Good(marked) /\ Good(grown) /\ IsNew(s, r, i, m)
<1>1. /\ s \in FS /\ Bare(s) /\ Marks(s) /\ Clean(s) /\ ROOT_INODE \in s.imap /\ s.bmap \subseteq Block
  BY GoodParts, Parts DEF Live
<1>2. /\ Good(marked) /\ Off(s, marked, {i}) /\ Unnamed(marked, i)
      /\ \A d \in Live(s) : d \in Live(marked) /\ SameDir(s, marked, d)
  BY MarkedGood
<1>3. /\ Good(grown) /\ Off(marked, grown, {})
      /\ \A d \in Live(marked) : d \in Live(grown) /\ SameDir(marked, grown, d)
  BY <1>2, BlocksGood
<1>4. /\ grown.imap = s.imap \cup {i} /\ grown.bmap = s.bmap \cup B /\ grown.data = s.data
      /\ grown.inode = s.inode /\ grown.table = s.table
  BY DEF Marking, Allocating
<1>5. Live(grown) = Live(marked) BY <1>4 DEF Live, Marking
<1>6. Unnamed(grown, i) BY <1>2, <1>3, <1>5, UnnamedKept
<1>7. /\ r.inode = [s.inode EXCEPT ![i] = m] /\ r.table = [s.table EXCEPT ![i] = m]
      /\ r.imap = s.imap \cup {i} /\ r.bmap = s.bmap \cup B /\ r.data = s.data
  BY <1>4 DEF Renewing
<1>8. r.inode[i] = m /\ Freed(r, i) = B
  BY <1>1, <1>7, Parts DEF Freed
<1>9. Freed(grown, i) = {}
  <2>1. grown.inode[i].blocks = <<>> BY <1>1, <1>4 DEF Bare
  <2>2. ToSet(<<>>) = {} BY DEF ToSet
  <2> QED BY <2>1, <2>2 DEF Freed
<1>10. Replaces(grown, r, i, m)
  <2>1. \A k \in Ino \ {i} : Owner(grown, k) => Freed(r, i) \cap Freed(grown, k) = {}
    BY <1>1, <1>4, <1>8 DEF Marks, Owner, Freed
  <2>2. \A b \in Block : r.data[b] = IF b \in Freed(grown, i) THEN <<>> ELSE grown.data[b]
    BY <1>4, <1>7, <1>9
  <2>3. \A b \in Freed(r, i) : r.data[b] = <<>> BY <1>1, <1>7, <1>8 DEF Clean
  <2> QED BY <1>4, <1>6, <1>7, <1>8, <1>9, <2>1, <2>2, <2>3 DEF Replaces
<1>11. /\ Good(r) /\ Off(grown, r, {i})
       /\ \A d \in Live(grown) \ {i} : d \in Live(r) /\ SameDir(grown, r, d)
  <2>1. i # ROOT_INODE BY <1>1
  <2> QED BY <1>3, <1>10, <2>1, Replaced
<1>12. i \notin Live(s) BY DEF Live
<1>13. Off(s, r, {i})
  <2>1. Off(marked, grown, {i}) BY <1>3 DEF Off
  <2>2. Off(s, grown, {i}) BY <1>2, <2>1, OffTrans
  <2> QED BY <1>11, <2>2, OffTrans
<1>14. ASSUME NEW d \in Live(s) PROVE d \in Live(r) /\ SameDir(s, r, d)
  <2>1. d \in Live(grown) \ {i} /\ SameDir(s, marked, d) /\ SameDir(marked, grown, d)
    BY <1>2, <1>3, <1>12
  <2>2. d \in Live(r) /\ SameDir(grown, r, d) BY <1>11, <2>1
  <2> QED BY <2>1, <2>2 DEF SameDir
<1>15. i \in Live(r) => NamesIn(r, i) = {}
  <2>1. Freed(r, i) \subseteq Block /\ \A b \in Freed(r, i) : r.data[b] = <<>>
    BY <1>1, <1>7, <1>8 DEF Clean
  <2>2. Entries(r, i) = {} BY <2>1, EntriesAre
  <2> QED BY <2>2 DEF NamesIn
<1>16. Unnamed(r, i)
  <2> SUFFICES ASSUME NEW d \in Live(r), NEW e \in NamesIn(r, d) PROVE e.ino # i
    BY DEF Unnamed
  <2>1. CASE d = i BY <2>1, <1>15
  <2>2. CASE d # i
    <3>1. d \in Live(grown) /\ d \in Ino BY <1>11, <2>2, GoodParts DEF Off
    <3>2. NamesIn(r, d) = NamesIn(grown, d) BY <1>11, <2>2, <3>1 DEF SameDir
    <3> QED BY <1>6, <3>1, <3>2 DEF Unnamed
  <2> QED BY <2>1, <2>2
<1>17. i \in r.imap /\ (m.mode = "dir" => i \in Live(r)) BY <1>7, <1>8 DEF Live
<1> QED BY <1>2, <1>3, <1>8, <1>11, <1>12, <1>13, <1>14, <1>15, <1>16, <1>17 DEF IsNew

(* The block of a new directory gets its . and ..                            *)
DotsOf(i, p) == << [name |-> ".", ino |-> i], [name |-> "..", ino |-> p] >>
Dotting(s, r, i, b, p) ==
  /\ r.imap = s.imap /\ r.bmap = s.bmap /\ r.inode = s.inode /\ r.table = s.table
  /\ r.data = [s.data EXCEPT ![b] = DotsOf(i, p)]

(* my_mkdir: `.' and `..' are written into the new directory's block.        *)
LEMMA DotsGood ==
  ASSUME NEW s, Good(s), NEW i \in Live(s), i # ROOT_INODE, Unnamed(s, i), NamesIn(s, i) = {},
         NEW b \in Block, s.inode[i].blocks = <<b>>, NEW p \in Ino,
         NEW r \in FS, Dotting(s, r, i, b, p)
  PROVE  /\ Good(r) /\ Off(s, r, {}) /\ Unnamed(r, i) /\ Dotted(r, i, p) /\ NamesIn(r, i) = {}
         /\ \A d \in Live(s) \ {i} : d \in Live(r) /\ SameDir(s, r, d)
<1>1. /\ s \in FS /\ Bare(s) /\ Marks(s) /\ Disjoint(s) /\ Clean(s) /\ OnImage(s) /\ Linked(s)
      /\ i \in Ino /\ Owner(s, i) /\ s.data \in [Block -> Content] /\ s.imap \subseteq Ino
  BY GoodParts, Parts
<1>2. /\ r.imap = s.imap /\ r.bmap = s.bmap /\ r.inode = s.inode /\ r.table = s.table
      /\ r.data[b] = DotsOf(i, p) /\ \A c \in Block \ {b} : r.data[c] = s.data[c]
  BY <1>1 DEF Dotting
<1>3. /\ Live(r) = Live(s) /\ \A j : IsDir(r, j) <=> IsDir(s, j)
      /\ \A j : Freed(r, j) = Freed(s, j) /\ (Owner(r, j) <=> Owner(s, j))
  BY <1>2 DEF Live, IsDir, Freed, Owner
<1>4. Freed(s, i) = {b}
  <2>1. ToSet(<<b>>) = {b} BY DEF ToSet
  <2> QED BY <2>1 DEF Freed
<1>5. b \in s.bmap BY <1>1, <1>4 DEF Marks
<1>6. Apart(r)
  <2>1. Bare(r) BY <1>1, <1>2 DEF Bare
  <2>2. Marks(r) BY <1>1, <1>2, <1>3 DEF Marks
  <2>3. Disjoint(r) BY <1>1, <1>3 DEF Disjoint
  <2>4. Clean(r) BY <1>1, <1>2, <1>5 DEF Clean
  <2> QED BY <2>1, <2>2, <2>3, <2>4 DEF Apart
<1>7. OnImage(r) BY <1>1, <1>2 DEF OnImage
<1>8. ASSUME NEW d \in Live(s) \ {i} PROVE SameDir(s, r, d)
  <2>1. d \in Ino /\ Owner(s, d) /\ Freed(s, d) \subseteq Block BY GoodParts
  <2>2. b \notin Freed(s, d) BY <1>1, <1>4, <2>1 DEF Disjoint
  <2>3. \A c \in Freed(s, d) : r.data[c] = s.data[c] BY <1>2, <2>1, <2>2
  <2> QED BY <1>1, <1>2, <2>1, <2>3, Untouched
<1>9. /\ Len(r.data[b]) = 2 /\ r.data[b][1] = [name |-> ".", ino |-> i]
      /\ r.data[b][2] = [name |-> "..", ino |-> p]
  BY <1>2 DEF DotsOf
<1>10. Dotted(r, i, p)
  <2>1. r.inode[i].blocks = <<b>> /\ <<b>> # <<>> /\ <<b>>[1] = b BY <1>2
  <2> QED BY <1>9, <2>1 DEF Dotted
<1>11. NoTwins(r, i) /\ NamesIn(r, i) = {}
  <2>1. Freed(r, i) = {b} BY <1>3, <1>4
  <2>2. \A k \in 1..Len(r.data[b]) : k = 1 \/ k = 2 BY <1>9
  <2>3. NoTwins(r, i)
    <3> SUFFICES ASSUME NEW j \in 1..Len(r.data[b]), NEW k \in 1..Len(r.data[b]),
                        r.data[b][j].name = r.data[b][k].name
                 PROVE  j = k
      BY <2>1 DEF NoTwins
    <3>1. r.data[b][1].name = "." /\ r.data[b][2].name = ".." BY <1>9
    <3> QED BY <2>2, <3>1
  <2>4. ASSUME NEW e \in Entries(r, i) PROVE e.name \notin Name
    <3>1. PICK c \in Freed(r, i) : \E k \in 1..Len(r.data[c]) : e = r.data[c][k] BY <1>1, <2>1, EntriesAre
    <3>2. PICK k \in 1..Len(r.data[c]) : e = r.data[c][k] BY <3>1
    <3>3. e.name = "." \/ e.name = ".." BY <1>9, <2>1, <2>2, <3>2
    <3> QED BY <3>3
  <2> QED BY <2>3, <2>4 DEF NamesIn
<1>12. Fewer(s, r)
  BY <1>3, <1>8, <1>11, GoodParts DEF Fewer, SameDir
<1>13. Founded(r)
  BY <1>3, <1>8, GoodParts DEF Founded, SameDir
<1>14. ASSUME NEW d \in Live(s), NEW e \in NamesIn(r, d)
       PROVE  /\ d # i /\ e \in NamesIn(s, d) /\ e.ino # i /\ e.ino \in s.imap /\ s.inode[e.ino].mode # "none"
              /\ IsDir(s, e.ino) => e.ino \in Live(s) \ {i}
  <2>1. d # i /\ e \in NamesIn(s, d) BY <1>8, <1>11, <1>14 DEF SameDir
  <2>2. e.ino # i BY <2>1 DEF Unnamed
  <2>3. e.ino \in s.imap /\ s.inode[e.ino].mode # "none" BY <2>1, GoodParts DEF Leading
  <2> QED BY <2>1, <2>2, <2>3 DEF IsDir, Live
<1>15. StillLed(s, r)
  BY <1>2, <1>3, <1>8, <1>14 DEF StillLed, SameDir
<1>16. Counted(s, r)
  BY <1>1, <1>2 DEF Counted, Linked
<1>17. Good(r)
  BY <1>6, <1>7, <1>12, <1>13, <1>15, <1>16, Frame
<1>18. Unnamed(r, i)
  BY <1>3, <1>14 DEF Unnamed
<1>19. Off(s, r, {})
  <2>1. \A d \in Live(s) : NamesIn(r, d) = NamesIn(s, d) BY <1>8, <1>11 DEF SameDir
  <2>2. \A d \in Live(s) : Subdirs(r, d) = Subdirs(s, d) BY <1>3, <2>1 DEF Subdirs
  <2> QED BY <1>2, <1>3, <2>2 DEF Off
<1> QED BY <1>3, <1>8, <1>10, <1>11, <1>17, <1>18, <1>19

-----------------------------------------------------------------------------
(* A command that creates leads through good file systems only and ends at a *)
(* fine one; a command that frees or links ends at a fine one if it did no   *)
(* harm, and is not killed on the way.  Both keep the invariant.             *)
Fine(r) == Good(r) /\ cwd \in Rooted(r) /\ (harm = {} => Grown(r))

(* The harm a command does is fatal, or it is a kill in its middle.          *)
LEMMA RestartKeeps ==
  ASSUME NameInv, Going, NEW s \in FS, NEW h \in SUBSET Harm,
         h \cap Fatal = {} => Good(s), h = {} => s = fs, Restart(s, h)
  PROVE  NameInv'
<1>1. fs' = Restarted(s) /\ cwd' = ROOT_INODE BY DEF Restart, Restarted
<1>2. /\ s.inode \in [Ino -> Inode] /\ s.table \in [Ino -> Inode] BY Parts
<1>3. fs' \in FS BY <1>1, <1>2 DEF FS, Restarted
<1>4. kills' \in 0..MaxKills
  <2>1. kills \in Nat /\ MaxKills \in Nat BY DEF NameInv
  <2> QED BY <2>1 DEF Restart
<1>5. harm' \subseteq Harm BY DEF Restart, Harm, NameInv
<1>6. ASSUME Going' PROVE Good(fs') /\ cwd' \in Rooted(fs')
  <2>1. h \cap Fatal = {} BY <1>6 DEF Going, Restart
  <2>2. Good(fs') BY <1>1, <2>1, RestartedGood
  <2> QED BY <1>1, <2>2, RootedFacts
<1>7. ASSUME harm' = {} PROVE Grown(fs')
  <2>1. h = {} /\ harm = {} /\ s.inode = s.table BY <1>7 DEF Restart
  <2>2. s = fs /\ Grown(fs) BY <2>1 DEF NameInv
  <2>3. [s EXCEPT !.inode = s.inode] = s BY <1>2 DEF FS
  <2>4. Restarted(s) = s BY <2>1, <2>3 DEF Restarted
  <2> QED BY <1>1, <2>2, <2>4
<1> QED BY <1>1, <1>3, <1>4, <1>5, <1>6, <1>7, Sizes DEF NameInv

(* Run to its end or killed.                                                 *)
LEMMA RunKeeps ==
  ASSUME NameInv, Going, NEW ss \in Seq(FS), ss # <<>>, NEW h \in SUBSET Fatal,
         NEW k \in SUBSET Harm, k # {}, k \cap Fatal = {} => ss \in Seq(GoodFS),
         h = {} => Fine(Last(ss)), Run(ss, h, k)
  PROVE  NameInv'
<1>1. Len(ss) \in Nat /\ \A n \in 1..Len(ss) : ss[n] \in FS OBVIOUS
<1>2. Len(ss) \in 1..Len(ss) BY <1>1
<1>3. CASE \E n \in 1..Len(ss)-1 : Restart(ss[n], h \cup k)
  <2>1. PICK n \in 1..Len(ss)-1 : Restart(ss[n], h \cup k) BY <1>3
  <2>2. n \in 1..Len(ss) BY <1>1
  <2>3. ss[n] \in FS BY <1>1, <2>2
  <2>4. h \cup k \in SUBSET Harm BY DEF Harm
  <2>5. (h \cup k) \cap Fatal = {} => Good(ss[n])
    <3>1. ss \in Seq(GoodFS) => ss[n] \in GoodFS BY <2>2
    <3> QED BY <3>1 DEF GoodFS
  <2> HIDE DEF Fatal
  <2> QED BY <2>1, <2>3, <2>4, <2>5, RestartKeeps
<1>4. CASE fs' = Last(ss) /\ harm' = harm \cup h /\ UNCHANGED <<cwd, kills>>
  <2>1. Last(ss) \in FS BY <1>1, <1>2 DEF Last
  <2>2. harm' \subseteq Harm BY <1>4 DEF Harm, NameInv
  <2>3. Going' => h = {} BY <1>4 DEF Going
  <2>4. harm' = {} => h = {} /\ harm = {} BY <1>4
  <2> QED BY <1>4, <2>1, <2>2, <2>3, <2>4 DEF NameInv, Fine
<1> QED BY <1>3, <1>4 DEF Run

(* A command that creates.                                                   *)
LEMMA CreationKeeps ==
  ASSUME NameInv, Going, NEW ss \in Seq(GoodFS), ss # <<>>, Fine(Last(ss)), Run(ss, {}, {"half"})
  PROVE  NameInv'
<1>1. ss \in Seq(FS)
  <2>1. GoodFS \subseteq FS BY DEF GoodFS
  <2> QED BY <2>1
<1>2. {"half"} \in SUBSET Harm /\ {"half"} # {} BY DEF Harm
<1> QED BY <1>1, <1>2, RunKeeps

(* A command that frees or links.                                            *)
LEMMA FreeingKeeps ==
  ASSUME NameInv, Going, NEW ss \in Seq(FS), ss # <<>>, NEW h \in SUBSET Fatal,
         h = {} => Fine(Last(ss)), Run(ss, h, {"cut"})
  PROVE  NameInv'
<1>1. {"cut"} \in SUBSET Harm /\ {"cut"} # {} /\ {"cut"} \cap Fatal # {} BY DEF Harm, Fatal
<1> QED BY <1>1, RunKeeps

(* Only inodes that are no directory are off.                                *)
LEMMA FineOff ==
  ASSUME NameInv, Going, NEW r, Good(r), NEW X, Off(fs, r, X), X \cap Live(fs) = {}, X \cap Live(r) = {}
  PROVE  Fine(r)
<1>1. Good(fs) /\ cwd \in Rooted(fs) /\ (harm = {} => Grown(fs)) BY DEF NameInv
<1>2. Rooted(fs) \subseteq Live(fs) BY <1>1, RootedFacts
<1>3. Rooted(fs) \subseteq Rooted(r) BY <1>1, <1>2, OffRooted
<1>4. harm = {} => Grown(r) BY <1>1, OffGrown
<1> QED BY <1>1, <1>3, <1>4 DEF Fine

(* A sequence put behind another; an inode put.                              *)
LEMMA Joined ==
  ASSUME NEW S, NEW q \in Seq(S), NEW t \in Seq(S), t # <<>>
  PROVE  q \o t \in Seq(S) /\ q \o t # <<>> /\ Last(q \o t) = Last(t)
<1>1. Len(q) \in Nat /\ Len(t) \in Nat /\ Len(t) > 0 OBVIOUS
<1>2. q \o t \in Seq(S) /\ Len(q \o t) = Len(q) + Len(t) OBVIOUS
<1>3. (q \o t)[Len(q) + Len(t)] = t[Len(t)]
  <2>1. Len(q) + Len(t) \in 1..Len(q) + Len(t) /\ Len(q) + Len(t) > Len(q)
        /\ Len(q) + Len(t) - Len(q) = Len(t)
    BY <1>1
  <2>2. (q \o t)[Len(q) + Len(t)] = t[Len(q) + Len(t) - Len(q)] BY <1>1, <2>1
  <2> QED BY <2>1, <2>2
<1>4. q \o t # <<>> BY <1>1, <1>2
<1> QED BY <1>2, <1>3, <1>4 DEF Last

(* Five file systems in a row.                                               *)
LEMMA InARow ==
  ASSUME NEW S, NEW a \in S, NEW b \in S, NEW c \in S, NEW d \in S, NEW e \in S
  PROVE  <<a, b, c, d, e>> \in Seq(S) /\ <<a, b, c, d, e>> # <<>> /\ Last(<<a, b, c, d, e>>) = e
<1> DEFINE q == <<a, b, c, d, e>>
<1>1. q \in Seq(S) OBVIOUS
<1>2. Len(q) = 5 OBVIOUS
<1>3. q[5] = e OBVIOUS
<1> HIDE DEF q
<1> QED BY <1>1, <1>2, <1>3 DEF Last, q

(* put_minode, field by field.                                               *)
LEMMA PutParts ==
  ASSUME NEW s \in FS, NEW i \in Ino
  PROVE  /\ Put(s, i) \in FS /\ Put(s, i).imap = s.imap /\ Put(s, i).bmap = s.bmap
         /\ Put(s, i).data = s.data /\ Put(s, i).inode = s.inode
         /\ Put(s, i).table = IF i \in {ROOT_INODE, cwd} THEN s.table ELSE [s.table EXCEPT ![i] = s.inode[i]]
<1>1. s.table \in [Ino -> Inode] /\ s.inode[i] \in Inode BY Parts
<1>2. [s.table EXCEPT ![i] = s.inode[i]] \in [Ino -> Inode] BY <1>1
<1> DEFINE nt == [s.table EXCEPT ![i] = s.inode[i]]
<1>3. Put(s, i) = IF i \in {ROOT_INODE, cwd} THEN s ELSE [s EXCEPT !.table = nt]
  BY DEF Put
<1> HIDE DEF nt
<1>4. nt \in [Ino -> Inode] BY <1>2 DEF nt
<1> QED BY <1>3, <1>4 DEF FS, nt

(* put_minode keeps the file system good.                                    *)
LEMMA PutGood ==
  ASSUME NEW s, Good(s), NEW i \in Ino
  PROVE  /\ Good(Put(s, i)) /\ Put(s, i) \in GoodFS /\ Off(s, Put(s, i), {})
         /\ Live(Put(s, i)) = Live(s)
<1> DEFINE r == Put(s, i)
<1>1. /\ s \in FS /\ r \in FS /\ r.imap = s.imap /\ r.bmap = s.bmap /\ r.data = s.data /\ r.inode = s.inode
      /\ r = s \/ r.table = [s.table EXCEPT ![i] = s.inode[i]]
  <2>1. s \in FS BY GoodParts
  <2>2. r = s \/ r.table = [s.table EXCEPT ![i] = s.inode[i]] BY <2>1, PutParts DEF Put
  <2> QED BY <2>1, <2>2, PutParts
<1> HIDE DEF r
<1>2. Live(r) = Live(s) BY <1>1 DEF Live
<1>3. CASE r = s
  <2>1. Off(s, s, {}) BY DEF Off
  <2> QED BY <1>1, <1>2, <1>3, <2>1 DEF GoodFS, r
<1>4. CASE r.table = [s.table EXCEPT ![i] = s.inode[i]]
  <2>1. Writing(s, r, i) BY <1>1, <1>4 DEF Writing
  <2>2. Good(r) /\ Off(s, r, {}) BY <1>1, <2>1, WrittenGood
  <2> QED BY <1>1, <1>2, <2>2 DEF GoodFS, r
<1> QED BY <1>1, <1>3, <1>4

-----------------------------------------------------------------------------
(* creat_file makes a file with one link and no blocks.                      *)
LEMMA NewFacts ==
  ASSUME NameInv, NEW p, NEW n, New(p, n)
  PROVE  /\ Good(fs) /\ fs \in FS /\ cwd \in Rooted(fs) /\ cwd \in Live(fs) /\ cwd \in Ino
         /\ p \in Rooted(fs) /\ p \in Live(fs) /\ p \in Ino
         /\ Absent(fs, p, n) /\ fs.inode[p].blocks # <<>>
<1>1. Good(fs) /\ cwd \in Rooted(fs) BY DEF NameInv, New
<1>2. p \in Rooted(fs) BY <1>1, ReachedRooted DEF New
<1>3. p \in Live(fs) /\ p \in Ino /\ fs \in FS /\ cwd \in Live(fs) /\ cwd \in Ino
  BY <1>1, <1>2, RootedFacts, GoodParts
<1>4. Absent(fs, p, n) BY <1>1, <1>3, LookupFacts DEF New
<1>5. PICK g \in Rooted(fs) : Dotted(fs, p, g) BY <1>1, <1>2, RootedDotted
<1>6. fs.inode[p].blocks # <<>> BY <1>5 DEF Dotted
<1> QED BY <1>1, <1>2, <1>3, <1>4, <1>6

(* allocate_inode, field by field.                                           *)
LEMMA MarkedParts ==
  ASSUME NEW s \in FS, FreeIno(s) # {}
  PROVE  WithIno(s) \in FS /\ Marking(s, WithIno(s), NewIno(s))
<1>1. NewIno(s) \in Ino BY NewInoFree
<1> QED BY <1>1, Parts DEF WithIno, FS, Marking

(* An inode is set in memory.                                                *)
LEMMA SetInode ==
  ASSUME NEW s \in FS, NEW i \in Ino, NEW m \in Inode
  PROVE  /\ [s EXCEPT !.inode[i] = m] \in FS
         /\ [s EXCEPT !.inode[i] = m].imap = s.imap /\ [s EXCEPT !.inode[i] = m].bmap = s.bmap
         /\ [s EXCEPT !.inode[i] = m].data = s.data /\ [s EXCEPT !.inode[i] = m].table = s.table
         /\ [s EXCEPT !.inode[i] = m].inode = [s.inode EXCEPT ![i] = m]
<1>1. [s.inode EXCEPT ![i] = m] \in [Ino -> Inode] BY Parts
<1> DEFINE ni == [s.inode EXCEPT ![i] = m]
<1>2. [s EXCEPT !.inode[i] = m] = [s EXCEPT !.inode = ni] OBVIOUS
<1>3. ni \in [Ino -> Inode] BY <1>1
<1> HIDE DEF ni
<1> QED BY <1>2, <1>3 DEF FS, ni
(* Written at once, unless the root or the current directory.                *)
LEMMA SetAndPut ==
  ASSUME NEW s \in FS, NEW i \in Ino \ {ROOT_INODE, cwd}, NEW m \in Inode
  PROVE  /\ Put([s EXCEPT !.inode[i] = m], i) \in FS
         /\ Renewing(s, Put([s EXCEPT !.inode[i] = m], i), i, m)
<1> DEFINE t == [s EXCEPT !.inode[i] = m]
<1>1. /\ t \in FS /\ t.imap = s.imap /\ t.bmap = s.bmap /\ t.data = s.data /\ t.table = s.table
      /\ t.inode = [s.inode EXCEPT ![i] = m]
  BY SetInode
<1>2. t.inode[i] = m BY <1>1, Parts
<1> HIDE DEF t
<1>3. /\ Put(t, i) \in FS /\ Put(t, i).imap = t.imap /\ Put(t, i).bmap = t.bmap
      /\ Put(t, i).data = t.data /\ Put(t, i).inode = t.inode
      /\ Put(t, i).table = [t.table EXCEPT ![i] = t.inode[i]]
  BY ZenonT(30), <1>1, PutParts
<1>4. Renewing(s, Put(t, i), i, m) BY <1>1, <1>2, <1>3 DEF Renewing
<1> QED BY <1>3, <1>4 DEF t

(* The inode of an empty file.                                               *)
LEMMA BlankInode == Blank \in Inode /\ Blank.mode = "reg" /\ Once(Blank.blocks) /\ ToSet(Blank.blocks) = {}
  BY DEF Blank, Inode, Once, ToSet, LinkMod
FileOff(r, i) == Good(r) /\ Off(fs, r, {i}) /\ i \notin Live(fs) /\ i \notin Live(r)
Created(r, i) ==
  FileOff(r, i) /\ i \in Ino \ {ROOT_INODE, cwd} /\ i \in r.imap /\ r.inode[i] = Blank

(* creat_file keeps the file system good, write by write.                    *)
LEMMA CreatFileGood ==
  ASSUME NameInv, NEW p, NEW n \in Name, New(p, n), CanCreat(p)
  PROVE  /\ CreatFile(fs, p, n) \in Seq(GoodFS) /\ CreatFile(fs, p, n) # <<>>
         /\ Created(Last(CreatFile(fs, p, n)), NewIno(fs))
<1> DEFINE i == NewIno(fs)
<1> DEFINE marked == WithIno(fs)
<1> DEFINE put == Put([marked EXCEPT !.inode[i] = Blank], i)
<1>1. /\ Good(fs) /\ fs \in FS /\ cwd \in Live(fs) /\ p \in Live(fs) /\ p \in Ino
      /\ Absent(fs, p, n) /\ fs.inode[p].blocks # <<>> /\ ROOT_INODE \in Live(fs)
  BY NewFacts, GoodParts
<1>2. i \in Ino \ fs.imap /\ marked \in FS /\ Marking(fs, marked, i)
  BY <1>1, NewInoFree, MarkedParts DEF CanCreat
<1>3. i \in Ino \ {ROOT_INODE, cwd} /\ i # p BY <1>1, <1>2 DEF Live
<1> DEFINE whole == CreatFile(fs, p, n)
<1>4. whole = <<marked, put>> \o EnterDirEntry(put, p, i, n) BY DEF CreatFile
<1> HIDE DEF i, marked, whole
<1>5. put \in FS /\ Renewing(marked, put, i, Blank) BY <1>2, <1>3, BlankInode, SetAndPut
<1> HIDE DEF put
<1>6. Allocating(marked, marked, {}) BY DEF Allocating
<1>7. Good(marked) /\ IsNew(fs, put, i, Blank)
  BY <1>1, <1>2, <1>5, <1>6, BlankInode, NewInode
<1>8. /\ Good(put) /\ Off(fs, put, {i}) /\ Unnamed(put, i) /\ i \notin Live(fs) /\ put.inode[i] = Blank
      /\ i \in put.imap /\ p \in Live(put) /\ SameDir(fs, put, p)
  BY <1>1, <1>7 DEF IsNew
<1>9. put.inode[p] = fs.inode[p] /\ put.bmap = fs.bmap /\ put.data = fs.data
  BY <1>1, <1>2, <1>3, <1>5, Parts DEF Marking, Renewing
<1>10. Absent(put, p, n) BY <1>1, <1>8 DEF Absent, SameDir
<1>11. CanEnter(put, p) BY <1>9 DEF CanCreat, CanEnter, Roomy, FreeBlock
<1>12. ~IsDir(put, i) BY <1>8, BlankInode DEF IsDir
<1>13. Nameable(put, p, i)
  <2>1. NamesAt(put, i) = {} BY <1>8, UnnamedNowhere
  <2>2. Cardinality(NamesAt(put, i)) = 0 BY <2>1, FS_EmptySet
  <2>3. put.inode[i].links = 1 BY <1>8 DEF Blank
  <2> QED BY <1>3, <1>8, <1>12, <2>2, <2>3, BlankInode DEF Nameable
<1> DEFINE entered == EnterDirEntry(put, p, i, n)
<1>14. entered \in Seq(GoodFS) /\ entered # <<>> /\ HasEntered(put, Last(entered), p, i, n)
  BY <1>1, <1>3, <1>8, <1>9, <1>10, <1>11, <1>13, EnterGood
<1> HIDE DEF entered
<1>15. whole \in Seq(GoodFS) /\ whole # <<>> /\ Last(whole) = Last(entered)
  <2>1. whole = <<marked, put>> \o entered BY <1>4 DEF entered
  <2>2. <<marked, put>> \in Seq(GoodFS) BY <1>2, <1>5, <1>7, <1>8 DEF GoodFS
  <2> QED BY <1>14, <2>1, <2>2, Joined
<1> DEFINE r == Last(entered)
<1>16. Created(r, i)
  <2>1. Good(r) /\ Off(put, r, {}) /\ Live(r) = Live(put) /\ r.imap = put.imap /\ r.inode[i] = put.inode[i]
    BY <1>3, <1>12, <1>14 DEF HasEntered
  <2>2. Off(put, r, {i}) BY <2>1 DEF Off
  <2>3. Off(fs, r, {i}) BY <1>8, <2>2, OffTrans
  <2>4. i \notin Live(put) BY <1>8, BlankInode DEF Live
  <2> QED BY <1>3, <1>8, <2>1, <2>3, <2>4 DEF Created, FileOff
<1> QED BY <1>15, <1>16 DEF whole, i

(* creat.                                                                    *)
LEMMA FileOffFine ==
  ASSUME NameInv, Going, NEW r, NEW i, FileOff(r, i)
  PROVE  Fine(r)
<1>1. {i} \cap Live(fs) = {} /\ {i} \cap Live(r) = {} BY DEF FileOff
<1> QED BY <1>1, FineOff DEF FileOff

(* Putting an inode changes nothing of that.                                 *)
LEMMA FileOffPut ==
  ASSUME NEW r, NEW i, FileOff(r, i), NEW p \in Ino
  PROVE  /\ FileOff(Put(r, p), i) /\ Put(r, p) \in GoodFS
         /\ Put(r, p).imap = r.imap /\ Put(r, p).inode = r.inode
<1> DEFINE u == Put(r, p)
<1>1. Good(u) /\ u \in GoodFS /\ Off(r, u, {}) /\ Live(u) = Live(r) BY PutGood DEF FileOff
<1>2. u.imap = r.imap /\ u.inode = r.inode
  <2>1. r \in FS BY GoodParts DEF FileOff
  <2> QED BY <2>1, PutParts
<1> HIDE DEF u
<1>3. Off(r, u, {i}) BY <1>1 DEF Off
<1>4. Off(fs, u, {i}) BY <1>3, OffTrans DEF FileOff
<1> QED BY <1>1, <1>2, <1>4 DEF FileOff, u

(* creat_file as a command.                                                  *)
LEMMA CreatKeeps ==
  ASSUME NameInv, NEW p, NEW n \in Name, Creat(p, n)
  PROVE  NameInv'
<1>1. New(p, n) /\ CanCreat(p) /\ Going BY DEF Creat, New
<1>2. p \in Ino BY <1>1, NewFacts
<1> DEFINE made == CreatFile(fs, p, n)
<1> DEFINE put == Put(Last(made), p)
<1> DEFINE i == NewIno(fs)
<1>3. Run(made \o <<put>>, {}, {"half"}) BY DEF Creat
<1>4. made \in Seq(GoodFS) /\ made # <<>> /\ Created(Last(made), i) BY <1>1, CreatFileGood
<1>5. FileOff(put, i) /\ put \in GoodFS BY <1>2, <1>4, FileOffPut DEF Created
<1> HIDE DEF made, put, i
<1>6. <<put>> \in Seq(GoodFS) /\ <<put>> # <<>> /\ Last(<<put>>) = put BY <1>5 DEF Last
<1>7. made \o <<put>> \in Seq(GoodFS) /\ made \o <<put>> # <<>> /\ Last(made \o <<put>>) = put
  BY ZenonT(30), <1>4, <1>6, Joined
<1>8. Fine(put) BY <1>1, <1>5, FileOffFine
<1> QED BY <1>1, <1>3, <1>7, <1>8, CreationKeeps

(* symlink.                                                                  *)
LEMMA FileReplaced ==
  ASSUME NEW s, NEW i \in Ino \ {ROOT_INODE}, FileOff(s, i), NEW r \in FS, NEW m \in Inode,
         m.mode # "dir", Replaces(s, r, i, m)
  PROVE  FileOff(r, i) /\ r \in GoodFS
<1>1. Good(r) /\ Off(s, r, {i}) BY Replaced DEF FileOff
<1>2. r.inode[i] = m
  <2>1. s \in FS BY GoodParts DEF FileOff
  <2> QED BY <2>1, Parts DEF Replaces
<1>3. Off(fs, r, {i}) BY <1>1, OffTrans DEF FileOff
<1> QED BY <1>1, <1>2, <1>3 DEF FileOff, Live, GoodFS

(* symlink: a file is created and becomes a symbolic link.                   *)
LEMMA SymlinkKeeps ==
  ASSUME NameInv, NEW p, NEW n \in Name, NEW c \in Target, Symlink(p, n, c)
  PROVE  NameInv'
<1>1. New(p, n) /\ CanCreat(p) /\ Going BY DEF Symlink, New
<1>2. p \in Ino BY <1>1, NewFacts
<1> DEFINE made == CreatFile(fs, p, n)
<1> DEFINE k == NewIno(fs)
<1> DEFINE L == Last(made)
<1> DEFINE put == Put([L EXCEPT !.inode[k].mode = "lnk", !.inode[k].blocks = <<c>>], k)
<1>3. Run(made \o <<put, Put(put, p)>>, {}, {"half"}) BY DEF Symlink
<1>4. made \in Seq(GoodFS) /\ made # <<>> /\ Created(L, k) BY <1>1, CreatFileGood
<1> HIDE DEF made, L, k
<1>5. /\ Good(L) /\ L \in FS /\ k \in Ino \ {ROOT_INODE, cwd} /\ L.inode[k] = Blank /\ FileOff(L, k)
      /\ k \in L.imap /\ Bare(L) /\ Linked(L) /\ L.inode \in [Ino -> Inode]
      /\ \A b \in Block : L.data[b] = L.data[b]
  <2>1. Good(L) /\ k \in Ino \ {ROOT_INODE, cwd} /\ L.inode[k] = Blank /\ FileOff(L, k) /\ k \in L.imap
    BY <1>4 DEF Created, FileOff
  <2> QED BY <2>1, GoodParts, Parts
<1> DEFINE m == [mode |-> "lnk", links |-> 1, blocks |-> <<c>>]
<1>6. m \in Inode /\ m.mode = "lnk" /\ m.links = 1
  <2>1. c \in Block \cup {Beyond} OBVIOUS
  <2>2. <<c>> \in Seq(Block \cup {Beyond}) BY SMTT(30), <2>1
  <2>3. 1 \in 0..LinkMod-1 BY Rounding
  <2> QED BY <2>2, <2>3 DEF Inode
<1>7. [L EXCEPT !.inode[k].mode = "lnk", !.inode[k].blocks = <<c>>] = [L EXCEPT !.inode[k] = m]
  <2>1. [L EXCEPT !.inode[k].mode = "lnk", !.inode[k].blocks = <<c>>]
          = [L EXCEPT !.inode = [[L.inode EXCEPT ![k].mode = "lnk"] EXCEPT ![k].blocks = <<c>>]]
    BY <1>5 DEF FS
  <2>2. [[L.inode EXCEPT ![k].mode = "lnk"] EXCEPT ![k].blocks = <<c>>] = [L.inode EXCEPT ![k] = m]
    BY <1>5 DEF Blank
  <2> QED BY <2>1, <2>2
<1> HIDE DEF m
<1>8. put \in FS /\ Renewing(L, put, k, m)
  <2>1. put = Put([L EXCEPT !.inode[k] = m], k) BY <1>7
  <2> HIDE DEF put
  <2> QED BY <1>5, <1>6, <2>1, SetAndPut
<1> HIDE DEF put
<1>9. Replaces(L, put, k, m)
  <2>1. Freed(L, k) = {} BY <1>5, BlankInode DEF Freed
  <2>2. Cardinality(NamesAt(L, k)) <= 1 BY <1>5 DEF Linked, Blank
  <2>3. IsFile(L, k) /\ IsFile(put, k) BY <1>5, <1>6, <1>8, BlankInode DEF IsFile, Renewing
  <2>4. /\ put.inode = [L.inode EXCEPT ![k] = m] /\ put.table = [L.table EXCEPT ![k] = m]
        /\ put.imap = L.imap /\ put.bmap = L.bmap /\ put.data = L.data
    BY <1>8 DEF Renewing
  <2> QED BY <1>5, <1>6, <2>1, <2>2, <2>3, <2>4 DEF Replaces
<1>10. FileOff(put, k) /\ put \in GoodFS BY <1>5, <1>6, <1>8, <1>9, FileReplaced
<1> DEFINE last == Put(put, p)
<1>11. FileOff(last, k) /\ last \in GoodFS BY <1>2, <1>10, FileOffPut
<1> HIDE DEF last
<1>12. <<put, last>> \in Seq(GoodFS) /\ <<put, last>> # <<>> /\ Last(<<put, last>>) = last
  BY <1>10, <1>11 DEF Last
<1> DEFINE ss == made \o <<put, last>>
<1>13. ss \in Seq(GoodFS) /\ ss # <<>> /\ Last(ss) = last
  BY ZenonT(30), <1>4, <1>12, Joined
<1>14. Fine(last) BY <1>1, <1>11, FileOffFine
<1>15. Run(ss, {}, {"half"}) BY <1>3 DEF last
<1> HIDE DEF ss
<1> QED BY <1>1, <1>13, <1>14, <1>15, CreationKeeps

-----------------------------------------------------------------------------
(* cp: the blocks of the destination are given up, and others taken.         *)
LEMMA InodeWith ==
  ASSUME NEW x \in Inode, NEW q \in Seq(Block \cup {Beyond})
  PROVE  [x EXCEPT !.blocks = q] \in Inode
  BY DEF Inode

(* clear_blocks, field by field.                                             *)
LEMMA ClearedParts ==
  ASSUME NEW s \in FS, NEW i \in Ino
  PROVE  LET c == ClearBlocks(s, i)
         IN /\ c \in FS /\ c.imap = s.imap /\ c.bmap = s.bmap \ Freed(s, i) /\ c.table = s.table
            /\ c.inode = [s.inode EXCEPT ![i] = [s.inode[i] EXCEPT !.blocks = <<>>]]
            /\ c.data = [b \in Block |-> IF b \in Freed(s, i) THEN <<>> ELSE s.data[b]]
<1> DEFINE c == ClearBlocks(s, i)
<1> DEFINE m == [s.inode[i] EXCEPT !.blocks = <<>>]
<1> DEFINE nb == s.bmap \ Freed(s, i)
<1> DEFINE nd == [b \in Block |-> IF b \in Freed(s, i) THEN <<>> ELSE s.data[b]]
<1> DEFINE ni == [s.inode EXCEPT ![i] = m]
<1>1. c = [s EXCEPT !.bmap = nb, !.data = nd, !.inode = ni] BY Parts DEF ClearBlocks, FS
<1>2. nb \subseteq Block BY Parts
<1>3. nd \in [Block -> Content]
  <2>1. <<>> \in Content BY Sizes DEF Content
  <2> QED BY <2>1, Parts
<1>4. ni \in [Ino -> Inode]
  <2>1. <<>> \in Seq(Block \cup {Beyond}) OBVIOUS
  <2>2. m \in Inode BY <2>1, Parts, InodeWith
  <2> QED BY <2>2, Parts
<1> HIDE DEF nb, nd, ni, c
<1>5. /\ c \in FS /\ c.imap = s.imap /\ c.bmap = nb /\ c.table = s.table
      /\ c.inode = ni /\ c.data = nd
  BY <1>1, <1>2, <1>3, <1>4 DEF FS
<1> QED BY <1>5 DEF nb, nd, ni, c

(* allocate_block for the blocks of a copy, field by field.                  *)
LEMMA AllocatedParts ==
  ASSUME NEW s \in FS, NEW k \in Nat, k <= Cardinality(FreeBlock(s))
  PROVE  WithBlocks(s, k) \in FS /\ Allocating(s, WithBlocks(s, k), ToSet(NewBlocks(s, k)))
<1> DEFINE B == ToSet(NewBlocks(s, k))
<1>1. B \subseteq Block BY NewBlocksFree
<1>2. WithBlocks(s, k) = [s EXCEPT !.bmap = s.bmap \cup B] BY DEF WithBlocks, FS
<1> HIDE DEF B
<1>3. s.bmap \cup B \subseteq Block BY <1>1, Parts
<1> QED BY <1>2, <1>3 DEF FS, Allocating, B

(* What a copy leaves: q are the blocks it took.                             *)
Recopied(s, r, d, q) ==
  /\ r.imap = s.imap /\ r.bmap = (s.bmap \ Freed(s, d)) \cup ToSet(q)
  /\ r.data = [b \in Block |-> IF b \in Freed(s, d) THEN <<>> ELSE s.data[b]]
  /\ r.inode = [s.inode EXCEPT ![d] = [s.inode[d] EXCEPT !.blocks = q]]
  /\ d \notin {ROOT_INODE, cwd} => r.table = [s.table EXCEPT ![d] = [s.inode[d] EXCEPT !.blocks = q]]
  /\ q \in Seq(Block) /\ Once(q) /\ ToSet(q) \subseteq Block \ (s.bmap \ Freed(s, d))

(* js_cp, file system by file system.                                        *)
LEMMA CopiedParts ==
  ASSUME NEW s \in FS, NEW i \in Ino, NEW d \in Ino, CanCopy(s, i, d)
  PROVE  /\ Copied(s, i, d) \in Seq(FS) /\ Copied(s, i, d) # <<>>
         /\ \E q : /\ Recopied(s, Last(Copied(s, i, d)), d, q)
                   /\ \E grown \in FS : /\ Allocating(ClearBlocks(s, d), grown, ToSet(q))
                                        /\ Copied(s, i, d) = <<ClearBlocks(s, d), grown, Last(Copied(s, i, d))>>
<1> DEFINE clear == ClearBlocks(s, d)
<1> DEFINE k == Length(clear, i)
<1> DEFINE q == NewBlocks(clear, k)
<1> DEFINE grown == WithBlocks(clear, k)
<1> DEFINE m == [s.inode[d] EXCEPT !.blocks = q]
<1> DEFINE r == Put([grown EXCEPT !.inode[d].blocks = q], d)
<1>1. /\ clear \in FS /\ clear.imap = s.imap /\ clear.bmap = s.bmap \ Freed(s, d) /\ clear.table = s.table
      /\ clear.inode = [s.inode EXCEPT ![d] = [s.inode[d] EXCEPT !.blocks = <<>>]]
      /\ clear.data = [b \in Block |-> IF b \in Freed(s, d) THEN <<>> ELSE s.data[b]]
  BY ClearedParts
<1>2. k <= Cardinality(FreeBlock(clear)) BY DEF CanCopy
<1>3. Copied(s, i, d) = <<clear, grown, r>> BY DEF Copied
<1> HIDE DEF clear
<1>4. k \in Nat
  <2>1. clear.inode[i].blocks \in Seq(Block \cup {Beyond}) BY <1>1, Parts
  <2>2. Len(clear.inode[i].blocks) \in Nat BY <2>1
  <2> QED BY <2>2 DEF Length
<1> HIDE DEF k
<1>5. q \in Seq(Block) /\ Once(q) /\ ToSet(q) \subseteq Block \ clear.bmap BY <1>1, <1>2, <1>4, NewBlocksFree
<1>6. grown \in FS /\ Allocating(clear, grown, ToSet(q)) BY <1>1, <1>2, <1>4, AllocatedParts
<1> HIDE DEF q, grown
<1>7. m \in Inode
  <2>1. q \in Seq(Block \cup {Beyond}) BY <1>5
  <2> QED BY <2>1, Parts, InodeWith
<1>8. grown.inode[d] = [s.inode[d] EXCEPT !.blocks = <<>>] /\ grown.inode \in [Ino -> Inode]
  BY ZenonT(30), <1>1, <1>6, Parts DEF Allocating
<1> DEFINE t == [grown EXCEPT !.inode[d] = m]
<1>9. r = Put(t, d)
  <2>1. [[s.inode[d] EXCEPT !.blocks = <<>>] EXCEPT !.blocks = q] = m BY Parts DEF Inode
  <2>2. [grown EXCEPT !.inode[d].blocks = q] = [grown EXCEPT !.inode[d] = [grown.inode[d] EXCEPT !.blocks = q]]
    BY <1>8
  <2>3. [grown EXCEPT !.inode[d].blocks = q] = t BY <1>8, <2>1, <2>2
  <2> QED BY <2>3
<1> HIDE DEF m, r
<1>10. /\ t \in FS /\ t.imap = grown.imap /\ t.bmap = grown.bmap /\ t.data = grown.data /\ t.table = grown.table
       /\ t.inode = [grown.inode EXCEPT ![d] = m] /\ t.inode[d] = m
  <2>1. /\ t \in FS /\ t.imap = grown.imap /\ t.bmap = grown.bmap /\ t.data = grown.data /\ t.table = grown.table
        /\ t.inode = [grown.inode EXCEPT ![d] = m]
    BY <1>6, <1>7, SetInode
  <2> QED BY <1>8, <2>1
<1> HIDE DEF t
<1>11. /\ r \in FS /\ r.imap = t.imap /\ r.bmap = t.bmap /\ r.data = t.data /\ r.inode = t.inode
       /\ d \notin {ROOT_INODE, cwd} => r.table = [t.table EXCEPT ![d] = t.inode[d]]
  BY ZenonT(30), <1>9, <1>10, PutParts
<1>12. t.inode = [s.inode EXCEPT ![d] = m]
  <2>1. grown.inode = [s.inode EXCEPT ![d] = [s.inode[d] EXCEPT !.blocks = <<>>]] BY <1>1, <1>6 DEF Allocating
  <2>2. s.inode \in [Ino -> Inode] BY Parts
  <2> QED BY <1>10, <2>1, <2>2
<1>13. Recopied(s, r, d, q)
  <2>1. /\ grown.imap = s.imap /\ grown.bmap = (s.bmap \ Freed(s, d)) \cup ToSet(q) /\ grown.table = s.table
        /\ grown.data = [b \in Block |-> IF b \in Freed(s, d) THEN <<>> ELSE s.data[b]]
    BY <1>1, <1>6 DEF Allocating
  <2>2. /\ r.imap = s.imap /\ r.bmap = (s.bmap \ Freed(s, d)) \cup ToSet(q)
        /\ r.data = [b \in Block |-> IF b \in Freed(s, d) THEN <<>> ELSE s.data[b]]
        /\ r.inode = [s.inode EXCEPT ![d] = m]
        /\ d \notin {ROOT_INODE, cwd} => r.table = [s.table EXCEPT ![d] = m]
    BY <1>10, <1>11, <1>12, <2>1
  <2> QED BY <1>1, <1>5, <2>2 DEF Recopied, m
<1>14. /\ <<clear, grown, r>> \in Seq(FS) /\ <<clear, grown, r>> # <<>> /\ Last(<<clear, grown, r>>) = r
  BY <1>1, <1>6, <1>11 DEF Last
<1> QED BY <1>3, <1>6, <1>13, <1>14 DEF clear
(* What is freed belongs to nobody else, but for a stray target.             *)
LEMMA Alone ==
  ASSUME NEW s, Good(s), NEW i \in Ino, s.inode[i].mode # "none", ~Strays(s, i), NEW k \in Ino \ {i}, Owner(s, k)
  PROVE  Freed(s, i) \cap Freed(s, k) = {}
<1>1. s \in FS /\ Bare(s) /\ Disjoint(s) /\ s.inode[i] \in Inode BY GoodParts, Parts
<1>2. CASE k \notin s.imap
  <2>1. s.inode[k].blocks = <<>> BY <1>1, <1>2 DEF Bare
  <2>2. ToSet(<<>>) = {} BY DEF ToSet
  <2> QED BY <2>1, <2>2 DEF Freed
<1>3. CASE k \in s.imap
  <2>1. k \in Owning(s) BY <1>3 DEF Owning, Owner
  <2>2. CASE s.inode[i].mode = "lnk" BY <2>1, <2>2 DEF Strays
  <2>3. CASE s.inode[i].mode \in {"reg", "dir"}
    <3>1. Owner(s, i) BY <2>3 DEF Owner
    <3> QED BY <1>1, <3>1 DEF Disjoint
  <2> QED BY <1>1, <2>2, <2>3 DEF Inode
<1> QED BY <1>2, <1>3

(* A copy onto a file replaces its inode.                                    *)
LEMMA RecopiedGood ==
  ASSUME NEW s, NEW d \in Ino \ {ROOT_INODE, cwd}, FileOff(s, d), IsFile(s, d), ~Strays(s, d),
         NEW r \in FS, NEW q, Recopied(s, r, d, q)
  PROVE  FileOff(r, d) /\ r \in GoodFS
<1> DEFINE m == [s.inode[d] EXCEPT !.blocks = q]
<1>1. /\ s \in FS /\ Good(s) /\ Bare(s) /\ Marks(s) /\ Disjoint(s) /\ Linked(s)
      /\ s.inode \in [Ino -> Inode] /\ s.table \in [Ino -> Inode] /\ s.inode[d] \in Inode
  BY GoodParts, Parts DEF FileOff
<1>2. /\ r.imap = s.imap /\ r.bmap = (s.bmap \ Freed(s, d)) \cup ToSet(q)
      /\ r.data = [b \in Block |-> IF b \in Freed(s, d) THEN <<>> ELSE s.data[b]]
      /\ r.inode = [s.inode EXCEPT ![d] = m] /\ r.table = [s.table EXCEPT ![d] = m]
      /\ q \in Seq(Block) /\ Once(q) /\ ToSet(q) \subseteq Block \ (s.bmap \ Freed(s, d))
  BY DEF Recopied
<1>3. q \in Seq(Block \cup {Beyond}) BY <1>2
<1>4. m \in Inode BY <1>1, <1>3, InodeWith
<1>5. /\ m.mode = s.inode[d].mode /\ m.links = s.inode[d].links /\ m.blocks = q
      /\ m.mode \in {"reg", "lnk"} /\ d \in s.imap
  BY <1>1 DEF Inode, IsFile
<1> HIDE DEF m
<1>6. r.inode[d] = m /\ Freed(r, d) = ToSet(q) BY <1>1, <1>2, <1>5 DEF Freed
<1>7. ASSUME NEW k \in Ino \ {d}, Owner(s, k)
      PROVE  Freed(s, d) \cap Freed(s, k) = {} /\ Freed(r, d) \cap Freed(s, k) = {}
  <2>1. Freed(s, d) \cap Freed(s, k) = {} BY <1>1, <1>5, <1>7, Alone
  <2>2. Freed(s, k) \subseteq s.bmap BY <1>1, <1>7 DEF Marks
  <2> QED BY <1>2, <1>6, <2>1, <2>2
<1>8. Replaces(s, r, d, m)
  <2>1. Cardinality(NamesAt(s, d)) <= m.links BY <1>1, <1>5 DEF Linked
  <2>2. IsFile(r, d) BY <1>2, <1>5, <1>6 DEF IsFile
  <2> QED BY <1>2, <1>5, <1>6, <1>7, <2>1, <2>2 DEF Replaces
<1> QED BY <1>4, <1>5, <1>8, FileReplaced

(* cp to a new file.                                                         *)
LEMMA CpNewKeeps ==
  ASSUME NameInv, NEW i, NEW p, NEW n \in Name, CpNew(i, p, n)
  PROVE  NameInv'
<1> DEFINE made == CreatFile(fs, p, n)
<1> DEFINE k == NewIno(fs)
<1> DEFINE put == Put(Last(made), p)
<1> DEFINE copy == Copied(put, i, k)
<1>1. /\ New(p, n) /\ CanCreat(p) /\ Going /\ i \in Named
      /\ CanCopy(put, i, k) /\ Run(made \o <<put>> \o copy, {}, {"half"})
  BY DEF CpNew, New
<1>2. p \in Ino /\ i \in Ino BY <1>1, NewFacts, NamedFacts
<1>3. made \in Seq(GoodFS) /\ made # <<>> /\ Created(Last(made), k) BY <1>1, CreatFileGood
<1> HIDE DEF made, k
<1>4. FileOff(put, k) /\ put \in GoodFS /\ put.imap = Last(made).imap /\ put.inode = Last(made).inode
  BY <1>2, <1>3, FileOffPut DEF Created
<1> HIDE DEF put
<1>5. /\ k \in Ino \ {ROOT_INODE, cwd} /\ k \in put.imap /\ put.inode[k] = Blank
      /\ Good(put) /\ put \in FS
  BY <1>3, <1>4 DEF Created, GoodFS
<1>6. IsFile(put, k) /\ ~Strays(put, k) /\ Freed(put, k) = {}
  BY <1>5, BlankInode DEF IsFile, Strays, Freed
<1> DEFINE clear == ClearBlocks(put, k)
<1> DEFINE r == Last(copy)
<1>7. copy \in Seq(FS) /\ copy # <<>> BY <1>1, <1>2, <1>5, CopiedParts
<1>8. PICK q : /\ Recopied(put, r, k, q)
               /\ \E grown \in FS : Allocating(clear, grown, ToSet(q)) /\ copy = <<clear, grown, r>>
  BY <1>1, <1>2, <1>5, CopiedParts
<1>9. PICK grown \in FS : Allocating(clear, grown, ToSet(q)) /\ copy = <<clear, grown, r>>
  BY <1>8
<1>10. Good(clear) /\ clear \in FS
  <2>1. /\ clear \in FS /\ clear.imap = put.imap /\ clear.bmap = put.bmap \ Freed(put, k) /\ clear.table = put.table
        /\ clear.inode = [put.inode EXCEPT ![k] = [put.inode[k] EXCEPT !.blocks = <<>>]]
        /\ clear.data = [b \in Block |-> IF b \in Freed(put, k) THEN <<>> ELSE put.data[b]]
    BY <1>5, ClearedParts
  <2>2. [put.inode[k] EXCEPT !.blocks = <<>>] = put.inode[k] BY <1>5 DEF Blank
  <2>3. put.inode \in [Ino -> Inode] /\ put.data \in [Block -> Content] BY <1>5, Parts
  <2>4. clear.inode = put.inode /\ clear.data = put.data /\ clear.bmap = put.bmap
    BY <1>6, <2>1, <2>2, <2>3
  <2> HIDE DEF clear
  <2>5. Allocating(put, clear, {}) BY <2>1, <2>4 DEF Allocating
  <2> QED BY <1>5, <2>1, <2>5, BlocksGood
<1> HIDE DEF copy, clear
<1>11. r \in FS /\ Good(grown)
  <2>1. r \in FS BY <1>7 DEF Last
  <2>2. ToSet(q) \in SUBSET Block BY <1>8 DEF Recopied
  <2> QED BY <1>9, <1>10, <2>1, <2>2, BlocksGood
<1> HIDE DEF r
<1>12. FileOff(r, k) /\ r \in GoodFS BY <1>4, <1>5, <1>6, <1>8, <1>11, RecopiedGood
<1>13. copy \in Seq(GoodFS) /\ Last(copy) = r
  <2>1. clear \in GoodFS /\ grown \in GoodFS BY <1>9, <1>10, <1>11 DEF GoodFS
  <2>2. <<clear, grown, r>> \in Seq(GoodFS) BY <1>12, <2>1
  <2> QED BY <1>9, <2>2 DEF r
<1> DEFINE ss == made \o <<put>> \o copy
<1>14. ss \in Seq(GoodFS) /\ ss # <<>> /\ Last(ss) = r
  <2>1. <<put>> \in Seq(GoodFS) /\ <<put>> # <<>> BY <1>4
  <2>2. made \o <<put>> \in Seq(GoodFS) BY <1>3, <2>1, Joined
  <2> QED BY <1>7, <1>13, <2>2, Joined
<1>15. Fine(r) BY <1>1, <1>12, FileOffFine
<1> HIDE DEF ss
<1>16. Run(ss, {}, {"half"}) BY <1>1 DEF ss
<1> QED BY <1>1, <1>14, <1>15, <1>16, CreationKeeps

(* cp onto another file, or itself; a directory's end is fatal.              *)
LEMMA CpOntoKeeps ==
  ASSUME NameInv, NEW i, NEW d, CpOnto(i, d)
  PROVE  NameInv'
<1> DEFINE h == IF IsDir(fs, d) THEN {"directory"} ELSE IF Strays(fs, d) THEN {"block"} ELSE {}
<1> DEFINE copy == Copied(fs, i, d)
<1> DEFINE r == Last(copy)
<1>1. /\ Going /\ i \in Named /\ d \in Named /\ CanCopy(fs, i, d) /\ Run(copy, h, {"cut"})
  BY DEF CpOnto
<1>2. Good(fs) /\ cwd \in Rooted(fs) BY <1>1 DEF NameInv
<1>3. /\ i \in Ino /\ d \in Ino
      /\ ~IsDir(fs, d) => IsFile(fs, d)
      /\ fs \in FS /\ ROOT_INODE \in Live(fs) /\ cwd \in Live(fs)
  BY <1>1, <1>2, NamedFacts, RootedFacts, GoodParts
<1>4. copy \in Seq(FS) /\ copy # <<>> /\ \E q : Recopied(fs, r, d, q)
  <2>1. copy \in Seq(FS) /\ copy # <<>> BY <1>1, <1>3, CopiedParts
  <2>2. \E q : /\ Recopied(fs, r, d, q)
               /\ \E grown \in FS : /\ Allocating(ClearBlocks(fs, d), grown, ToSet(q))
                                    /\ copy = <<ClearBlocks(fs, d), grown, r>>
    BY <1>1, <1>3, CopiedParts
  <2> QED BY <2>1, <2>2
<1>5. r \in FS
  <2> HIDE DEF copy
  <2> QED BY <1>4 DEF Last
<1> HIDE DEF copy, r
<1>6. h \in SUBSET Fatal BY DEF Fatal
<1>7. ASSUME h = {} PROVE Fine(r)
  <2>1. IsFile(fs, d) /\ ~Strays(fs, d) BY <1>3, <1>7
  <2>2. d \notin Live(fs) BY <2>1 DEF IsFile, Live
  <2>3. FileOff(fs, d) BY <1>2, <2>2 DEF FileOff, Off
  <2>4. PICK q : Recopied(fs, r, d, q) BY <1>4
  <2>5. FileOff(r, d) BY <1>3, <1>5, <2>1, <2>2, <2>3, <2>4, RecopiedGood
  <2> QED BY <1>1, <2>5, FileOffFine
<1> HIDE DEF h
<1> QED BY <1>1, <1>4, <1>6, <1>7, FreeingKeeps DEF r

-----------------------------------------------------------------------------
(* mkdir makes a directory with nothing in it and enters it.                 *)
(* There are fewer directories than a link count can count.                  *)
LEMMA SubdirsFit ==
  ASSUME NEW s, Good(s), NEW d \in Live(s)
  PROVE  /\ IsFiniteSet(Subdirs(s, d)) /\ Cardinality(Subdirs(s, d)) \in Nat
         /\ Cardinality(Subdirs(s, d)) <= MaxIno - ROOT_INODE
<1> DEFINE S == Subdirs(s, d)
<1> DEFINE T == ROOT_INODE+1..MaxIno
<1> DEFINE ino == [e \in S |-> e.ino]
<1>1. \A e \in S : e \in NamesIn(s, d) /\ IsDir(s, e.ino) /\ e.ino \in T
  <2> SUFFICES ASSUME NEW e \in S PROVE e \in NamesIn(s, d) /\ IsDir(s, e.ino) /\ e.ino \in T
    OBVIOUS
  <2>1. e \in NamesIn(s, d) /\ IsDir(s, e.ino) BY DEF Subdirs
  <2>2. e.ino \in s.imap \ {ROOT_INODE} BY <2>1, GoodParts DEF Leading
  <2>3. e.ino \in Ino \ {ROOT_INODE} BY <2>2, GoodParts, Parts
  <2>4. e.ino \in T BY <2>3 DEF Ino, ROOT_INODE
  <2> QED BY <2>1, <2>4
<1>2. \A e, g \in S : e.ino = g.ino => e = g BY <1>1, GoodParts DEF OneName
<1> HIDE DEF S, T
<1>3. ino \in Injection(S, T) BY <1>1, <1>2 DEF Injection, IsInjective
<1>4. IsFiniteSet(T) /\ Cardinality(T) = MaxIno - ROOT_INODE
  BY FS_Interval DEF T, ROOT_INODE
<1>5. IsFiniteSet(S) /\ Cardinality(S) <= Cardinality(T) BY <1>3, <1>4, FS_Injection
<1>6. Cardinality(S) \in Nat BY <1>5, FS_CardinalityType
<1> QED BY <1>4, <1>5, <1>6 DEF S

(* A directory that is the same has room in the same block.                  *)
LEMMA RoomySame ==
  ASSUME NEW s \in FS, NEW r \in FS, NEW d \in Ino, Freed(s, d) \subseteq Block,
         r.inode[d].blocks = s.inode[d].blocks, \A b \in Freed(s, d) : r.data[b] = s.data[b]
  PROVE  Roomy(r, d) = Roomy(s, d)
<1> DEFINE q == s.inode[d].blocks
<1>1. Freed(s, d) = {q[j] : j \in 1..Len(q)} BY Parts
<1> DEFINE I == {j \in 1..Len(q) : Len(s.data[q[j]]) < Room}
<1> DEFINE J == {j \in 1..Len(q) : Len(r.data[q[j]]) < Room}
<1>2. I = J BY <1>1
<1>3. Roomy(s, d) = (IF I # {} THEN Min(I) ELSE 0) /\ Roomy(r, d) = (IF J # {} THEN Min(J) ELSE 0)
  BY DEF Roomy, SelectInSeq
<1> HIDE DEF I, J
<1> QED BY <1>2, <1>3

HasMade(r, p, i, n) ==
  /\ Good(r) /\ i \in Ino /\ i \notin Live(fs) /\ Live(r) = Live(fs) \cup {i}
  /\ Off(fs, r, {p, i})
  /\ r.inode[p].links = fs.inode[p].links /\ r.inode[i].links = 2
  /\ Subdirs(r, i) = {} /\ Subdirs(r, p) = Subdirs(fs, p) \cup {[name |-> n, ino |-> i]}

(* my_mkdir keeps the file system good, write by write.                      *)
LEMMA MadeDirGood ==
  ASSUME NameInv, NEW p, NEW n \in Name, New(p, n), CanMkdir(p)
  PROVE  /\ MadeDir(p, n) \in Seq(GoodFS) /\ MadeDir(p, n) # <<>>
         /\ HasMade(Last(MadeDir(p, n)), p, NewIno(fs), n)
<1> DEFINE i == NewIno(fs)
<1> DEFINE b == NewBlock(fs)
<1> DEFINE marked == WithIno(fs)
<1> DEFINE grown == WithBlocks(marked, 1)
<1> DEFINE m == [mode |-> "dir", links |-> 2, blocks |-> <<b>>]
<1> DEFINE put == Put([grown EXCEPT !.inode[i] = m], i)
<1> DEFINE dots == [put EXCEPT !.data[b] = DotsOf(i, p)]
<1> DEFINE entered == EnterDirEntry(dots, p, i, n)
<1> DEFINE whole == MadeDir(p, n)
<1>1. /\ Good(fs) /\ fs \in FS /\ cwd \in Live(fs) /\ p \in Live(fs) /\ p \in Ino
      /\ Absent(fs, p, n) /\ fs.inode[p].blocks # <<>> /\ ROOT_INODE \in Live(fs)
      /\ Freed(fs, p) \subseteq Block /\ Freed(fs, p) \subseteq fs.bmap
  BY NewFacts, GoodParts DEF Marks
<1>2. i \in Ino \ fs.imap /\ marked \in FS /\ Marking(fs, marked, i)
  BY <1>1, NewInoFree, MarkedParts DEF CanMkdir
<1>3. i \in Ino \ {ROOT_INODE, cwd} /\ i # p BY <1>1, <1>2 DEF Live
<1>4. whole = <<marked, grown, put, dots>> \o entered BY DEF MadeDir, DotsOf
<1>5. FreeBlock(marked) = FreeBlock(fs) BY <1>2 DEF FreeBlock, Marking
<1>6. /\ IsFiniteSet(FreeBlock(fs)) /\ Cardinality(FreeBlock(fs)) \in Nat /\ Cardinality(FreeBlock(fs)) >= 1
      /\ Roomy(fs, p) = 0 => Cardinality(FreeBlock(fs)) >= 2
  <2>1. IsFiniteSet(FreeBlock(fs)) BY FiniteSets, FS_Subset DEF FreeBlock
  <2>2. Cardinality(FreeBlock(fs)) \in Nat BY <2>1, FS_CardinalityType
  <2> QED BY <2>1, <2>2 DEF CanMkdir
<1>7. b \in Block \ fs.bmap BY <1>1, <1>6, NewBlockFree
<1>8. grown \in FS /\ Allocating(marked, grown, {b})
  <2>1. NewBlock(marked) = b BY <1>5 DEF NewBlock, NewBlocks
  <2>2. grown = [marked EXCEPT !.bmap = marked.bmap \cup {b}]
    BY <1>2, <1>5, <1>6, <2>1, NewBlockFree
  <2> HIDE DEF b, grown, marked
  <2>3. marked.bmap \cup {b} \subseteq Block BY <1>2, <1>7, Parts
  <2> QED BY <1>2, <2>2, <2>3 DEF FS, Allocating
<1> HIDE DEF i, b, marked, grown, whole
<1>9. m \in Inode /\ m.mode = "dir" /\ Once(m.blocks) /\ ToSet(m.blocks) = {b} /\ m.links = 2 /\ m.blocks = <<b>>
  <2>1. b \in Block \cup {Beyond} BY <1>7
  <2>2. <<b>> \in Seq(Block \cup {Beyond}) BY SMTT(30), <2>1
  <2>3. 2 \in 0..LinkMod-1 BY Rounding
  <2>4. ToSet(<<b>>) = {b} BY DEF ToSet
  <2>5. Once(<<b>>) BY DEF Once
  <2> QED BY <2>2, <2>3, <2>4, <2>5 DEF Inode
<1> HIDE DEF m
<1>10. put \in FS /\ Renewing(grown, put, i, m) BY <1>3, <1>8, <1>9, SetAndPut
<1> HIDE DEF put
<1>11. Good(marked) /\ Good(grown) /\ IsNew(fs, put, i, m)
  <2>1. {b} \in SUBSET Block /\ {b} \cap fs.bmap = {} BY <1>7
  <2> QED BY <1>1, <1>2, <1>8, <1>9, <1>10, <2>1, NewInode
<1>12. /\ Good(put) /\ Off(fs, put, {i}) /\ Unnamed(put, i) /\ i \notin Live(fs) /\ put.inode[i] = m
       /\ i \in put.imap /\ i \in Live(put) /\ p \in Live(put) /\ SameDir(fs, put, p) /\ NamesIn(put, i) = {}
  BY <1>1, <1>9, <1>11 DEF IsNew, Live
<1>13. put.inode[p] = fs.inode[p] /\ put.bmap = fs.bmap \cup {b} /\ put.data = fs.data
  BY <1>1, <1>2, <1>3, <1>8, <1>10, Parts DEF Marking, Allocating, Renewing
<1>14. dots \in FS /\ Dotting(put, dots, i, b, p)
  <2>1. DotsOf(i, p) \in Content
    <3> DEFINE x == [name |-> ".", ino |-> i]
    <3> DEFINE y == [name |-> "..", ino |-> p]
    <3>1. x \in Entry /\ y \in Entry BY <1>1, <1>2 DEF Entry, AllName
    <3>2. DotsOf(i, p) = <<x, y>> BY DEF DotsOf
    <3> HIDE DEF x, y
    <3>3. <<x, y>> \in Seq(Entry) /\ Len(<<x, y>>) = 2 BY <3>1
    <3> QED BY <3>2, <3>3, Sizes DEF Content
  <2> DEFINE nd == [put.data EXCEPT ![b] = DotsOf(i, p)]
  <2>2. nd \in [Block -> Content] BY <1>7, <1>10, <2>1, Parts
  <2>3. dots = [put EXCEPT !.data = nd] BY <1>10 DEF FS
  <2> HIDE DEF nd, dots
  <2> QED BY <1>10, <2>2, <2>3 DEF FS, Dotting, nd
<1> HIDE DEF dots
<1>15. /\ Good(dots) /\ Off(put, dots, {}) /\ Unnamed(dots, i) /\ Dotted(dots, i, p) /\ NamesIn(dots, i) = {}
       /\ p \in Live(dots) /\ SameDir(put, dots, p)
  <2>1. put.inode[i].blocks = <<b>> BY <1>9, <1>12
  <2>2. b \in Block /\ i # ROOT_INODE BY <1>3, <1>7
  <2>3. /\ Good(dots) /\ Off(put, dots, {}) /\ Unnamed(dots, i) /\ Dotted(dots, i, p) /\ NamesIn(dots, i) = {}
        /\ \A d \in Live(put) \ {i} : d \in Live(dots) /\ SameDir(put, dots, d)
    BY <1>1, <1>12, <1>14, <2>1, <2>2, DotsGood
  <2> QED BY <1>3, <1>12, <2>3
<1>16. /\ dots.inode = put.inode /\ dots.imap = put.imap /\ dots.bmap = fs.bmap \cup {b}
       /\ \A c \in Block \ {b} : dots.data[c] = fs.data[c]
  BY <1>1, <1>13, <1>14, Parts DEF Dotting
<1>17. Live(dots) = Live(put) /\ IsDir(dots, i)
  <2>1. i # NoIno BY <1>3, Sizes
  <2> QED BY <1>9, <1>12, <1>16, <2>1 DEF Live, IsDir
<1>18. Absent(dots, p, n) BY <1>1, <1>12, <1>15 DEF Absent, SameDir
<1>19. CanEnter(dots, p)
  <2>1. CASE Roomy(fs, p) # 0
    <3>1. \A c \in Freed(fs, p) : dots.data[c] = fs.data[c] BY <1>1, <1>7, <1>16
    <3>2. Roomy(dots, p) = Roomy(fs, p) BY <1>1, <1>13, <1>14, <1>16, <3>1, RoomySame
    <3> QED BY <2>1, <3>2 DEF CanEnter
  <2>2. CASE Roomy(fs, p) = 0
    <3>1. FreeBlock(dots) = FreeBlock(fs) \ {b} BY <1>16 DEF FreeBlock
    <3>2. Cardinality({b}) = 1 /\ Cardinality({}) = 0 BY FS_Singleton, FS_EmptySet
    <3>3. FreeBlock(fs) # {} /\ FreeBlock(fs) # {b} BY <1>6, <2>2, <3>2
    <3> QED BY <3>1, <3>3 DEF CanEnter
  <2> QED BY <2>1, <2>2
<1>20. Nameable(dots, p, i)
  <2>1. i \in dots.imap \ {ROOT_INODE, p} /\ dots.inode[i].mode # "none" BY <1>3, <1>9, <1>12, <1>16
  <2>2. \A g \in NamesIn(dots, p) : g.ino # i BY <1>15 DEF Unnamed
  <2> QED BY <1>15, <1>17, <2>1, <2>2 DEF Nameable
<1>21. entered \in Seq(GoodFS) /\ entered # <<>> /\ HasEntered(dots, Last(entered), p, i, n)
  BY <1>1, <1>3, <1>13, <1>15, <1>16, <1>18, <1>19, <1>20, EnterGood
<1> HIDE DEF entered
<1> DEFINE r == Last(entered)
<1>22. whole \in Seq(GoodFS) /\ whole # <<>> /\ Last(whole) = r
  <2>1. <<marked, grown, put, dots>> \in Seq(GoodFS)
    BY <1>2, <1>8, <1>10, <1>11, <1>12, <1>14, <1>15 DEF GoodFS
  <2> QED BY <1>4, <1>21, <2>1, Joined
<1> HIDE DEF r
<1>23. HasMade(r, p, i, n)
  <2>1. /\ Good(r) /\ Off(dots, r, {p}) /\ Live(r) = Live(dots)
        /\ r.inode[i] = dots.inode[i] /\ r.inode[p].links = dots.inode[p].links
        /\ Subdirs(r, p) = Subdirs(dots, p) \cup {[name |-> n, ino |-> i]}
    BY <1>3, <1>17, <1>21 DEF HasEntered, r
  <2>2. Off(fs, put, {p, i}) /\ Off(put, dots, {p, i}) /\ Off(dots, r, {p, i}) BY <1>12, <1>15, <2>1 DEF Off
  <2>3. Off(fs, r, {p, i})
    <3>1. Off(fs, dots, {p, i}) BY <2>2, OffTrans
    <3> QED BY <2>2, <3>1, OffTrans
  <2>4. Live(r) = Live(fs) \cup {i}
    <3>1. Live(put) \subseteq Ino /\ Live(fs) \subseteq Ino BY <1>1, <1>12, GoodParts
    <3> QED BY <1>12, <1>17, <2>1, <3>1 DEF Off
  <2>5. r.inode[p].links = fs.inode[p].links /\ r.inode[i].links = 2 BY <1>9, <1>12, <1>13, <1>16, <2>1
  <2>6. Subdirs(dots, i) = {} BY <1>15 DEF Subdirs
  <2>7. Subdirs(r, i) = {} BY <1>3, <1>12, <1>17, <2>1, <2>6 DEF Off
  <2>8. Subdirs(dots, p) = Subdirs(fs, p) BY <1>1, <1>3, <1>12, <1>15 DEF Off
  <2> QED BY <1>3, <1>12, <2>1, <2>3, <2>4, <2>5, <2>7, <2>8 DEF HasMade
<1> QED BY <1>22, <1>23 DEF whole, i

(* There are fewer directories than a link count can count.                  *)
LEMMA Countable ==
  ASSUME NEW c \in Nat, c + 1 <= MaxIno - ROOT_INODE
  PROVE  2 + c + 1 < LinkMod
  BY Rounding DEF ROOT_INODE

(* The parent's link count goes up with its directories.                     *)
LEMMA MkdirFine ==
  ASSUME NameInv, Going, NEW s, NEW r, NEW p \in Live(fs), NEW i, NEW n, HasMade(s, p, i, n), Absent(fs, p, n),
         r \in FS, NEW m, m = (s.inode[p].links + 1) % LinkMod, Linking(s, r, p, m)
  PROVE  Good(r) /\ Fine(r)
<1> DEFINE e == [name |-> n, ino |-> i]
<1>1. /\ Good(fs) /\ cwd \in Rooted(fs) /\ (harm = {} => Grown(fs))
      /\ Rooted(fs) \subseteq Live(fs) /\ Live(fs) \subseteq Ino
  <2>1. Good(fs) /\ cwd \in Rooted(fs) /\ (harm = {} => Grown(fs)) BY DEF NameInv
  <2> QED BY <2>1, RootedFacts, GoodParts
<1>2. /\ Good(s) /\ i \in Ino /\ i \notin Live(fs) /\ Live(s) = Live(fs) \cup {i} /\ i # p /\ p \in Ino
      /\ Off(fs, s, {p, i}) /\ s.inode[p].links = fs.inode[p].links /\ s.inode[i].links = 2
      /\ Subdirs(s, i) = {} /\ Subdirs(s, p) = Subdirs(fs, p) \cup {e}
  BY <1>1 DEF HasMade
<1>3. s.inode[p].links \in 0..LinkMod-1 /\ s \in FS BY <1>2, GoodParts, Parts
<1>4. s.inode[p].links + 1 \in Nat BY <1>3, Rounding
<1>5. m \in 0..LinkMod-1 /\ (s.inode[p].links + 1 < LinkMod => m = s.inode[p].links + 1) BY <1>4, Rounding
<1>6. Good(s) /\ m \in 0..LinkMod-1 /\ p \in Live(s) /\ Linking(s, r, p, m) BY <1>2, <1>5
<1>7. Good(r) /\ Off(s, r, {p}) /\ r.inode[p].links = m /\ SameNames(s, r)
  BY <1>6, LinksGood
<1>8. \A d \in Live(s) : d \in Live(r) /\ Subdirs(r, d) = Subdirs(s, d) BY <1>7 DEF SameNames
<1>9. Live(r) = Live(s)
  <2>1. Live(r) \subseteq Ino /\ Live(s) \subseteq Ino BY <1>2, <1>7, GoodParts
  <2> QED BY <1>2, <1>7, <1>8, <2>1 DEF Off
<1> HIDE DEF e
<1>10. \A d \in Rooted(fs) : d \in Live(r) /\ Subdirs(fs, d) \subseteq Subdirs(r, d)
  <2> SUFFICES ASSUME NEW d \in Rooted(fs) PROVE d \in Live(r) /\ Subdirs(fs, d) \subseteq Subdirs(r, d)
    OBVIOUS
  <2>1. d \in Live(fs) /\ d \in Ino /\ d \in Live(s) BY <1>1, <1>2
  <2>2. CASE d = p BY <1>2, <1>8, <2>1, <2>2
  <2>3. CASE d # p
    <3>1. Subdirs(s, d) = Subdirs(fs, d) BY <1>2, <2>1, <2>3 DEF Off
    <3> QED BY <1>8, <2>1, <3>1
  <2> QED BY <2>2, <2>3
<1>11. Rooted(fs) \subseteq Rooted(r) BY <1>1, <1>7, <1>10, RootedGrows
<1>12. ASSUME harm = {} PROVE Grown(r)
  <2>1. Grown(fs) /\ Live(fs) \subseteq Rooted(fs) BY <1>1, <1>12 DEF Grown
  <2>2. i \in Rooted(r)
    <3>1. p \in Rooted(r) BY <1>11, <2>1
    <3>2. e \in Subdirs(r, p) /\ e.ino = i BY <1>2, <1>8 DEF e
    <3>3. i \in Under(r, p) BY <1>2, <1>9, <3>2 DEF Under
    <3>4. Closed(r, Rooted(r)) BY <1>7, RootedFacts
    <3> QED BY <3>1, <3>3, <3>4 DEF Closed
  <2>3. Live(r) \subseteq Rooted(r) BY <1>2, <1>9, <1>11, <2>1, <2>2
  <2>4. ASSUME NEW d \in Live(r) PROVE r.inode[d].links = 2 + Cardinality(Subdirs(r, d))
    <3>1. d \in Ino /\ d \in Live(s) BY <1>1, <1>2, <1>9
    <3>2. CASE d = p
      <4>1. e \notin Subdirs(fs, p)
        <5>1. e.name = n BY DEF e
        <5> QED BY <5>1 DEF Absent, Subdirs, NamesIn
      <4>2. IsFiniteSet(Subdirs(fs, p)) /\ Cardinality(Subdirs(fs, p)) \in Nat BY <1>1, SubdirsFit
      <4>3. Cardinality(Subdirs(r, p)) = Cardinality(Subdirs(fs, p)) + 1
        <5>1. Subdirs(r, p) = Subdirs(fs, p) \cup {e} BY <1>2, <1>8
        <5> QED BY <4>1, <4>2, <5>1, FS_AddElement
      <4>4. Cardinality(Subdirs(r, p)) <= MaxIno - ROOT_INODE BY <1>7, <3>2, SubdirsFit
      <4>5. s.inode[p].links = 2 + Cardinality(Subdirs(fs, p)) BY <1>2, <2>1 DEF Grown
      <4>6. s.inode[p].links + 1 < LinkMod BY <4>2, <4>3, <4>4, <4>5, Countable
      <4> QED BY <1>5, <1>7, <3>2, <4>2, <4>3, <4>5, <4>6
    <3>3. CASE d = i
      <4>1. r.inode[i].links = 2 /\ Subdirs(r, i) = {} BY <1>2, <1>7, <1>8 DEF Off
      <4> QED BY <3>3, <4>1, FS_EmptySet
    <3>4. CASE d # p /\ d # i
      <4>1. /\ d \in Live(fs) /\ r.inode[d].links = s.inode[d].links /\ Subdirs(r, d) = Subdirs(s, d)
        BY <1>2, <1>7, <3>1, <3>4 DEF Off
      <4>2. s.inode[d].links = fs.inode[d].links /\ Subdirs(s, d) = Subdirs(fs, d)
        BY <1>2, <3>1, <3>4, <4>1 DEF Off
      <4> QED BY <2>1, <4>1, <4>2 DEF Grown
    <3> QED BY <3>2, <3>3, <3>4
  <2> QED BY <2>3, <2>4 DEF Grown
<1> QED BY <1>1, <1>7, <1>11, <1>12 DEF Fine

(* A link count set in memory.                                               *)
LEMMA LinksParts ==
  ASSUME NEW s \in FS, NEW p \in Ino, NEW n \in 0..LinkMod-1
  PROVE  [s EXCEPT !.inode[p].links = n] \in FS /\ Linking(s, [s EXCEPT !.inode[p].links = n], p, n)
<1> DEFINE m == [s.inode[p] EXCEPT !.links = n]
<1> DEFINE r == [s EXCEPT !.inode[p] = m]
<1>1. m \in Inode
  <2>1. s.inode[p] \in Inode BY Parts
  <2> QED BY <2>1 DEF Inode
<1>2. [s EXCEPT !.inode[p].links = n] = r BY Parts
<1> HIDE DEF m
<1>3. /\ r \in FS /\ r.imap = s.imap /\ r.bmap = s.bmap /\ r.data = s.data /\ r.table = s.table
      /\ r.inode = [s.inode EXCEPT ![p] = m]
  BY <1>1, SetInode
<1> QED BY <1>2, <1>3 DEF Linking, m

(* Putting an inode keeps it fine.                                           *)
LEMMA FinePut ==
  ASSUME NEW s, Good(s), Fine(s), NEW p \in Ino
  PROVE  Fine(Put(s, p)) /\ Put(s, p) \in GoodFS
<1> DEFINE r == Put(s, p)
<1>1. Good(r) /\ r \in GoodFS /\ Off(s, r, {}) BY PutGood
<1> HIDE DEF r
<1>2. Rooted(s) \subseteq Rooted(r) BY <1>1, OffRooted
<1>3. Grown(s) => Grown(r) BY <1>1, OffGrown
<1> QED BY <1>1, <1>2, <1>3 DEF Fine, r

(* mkdir as a command.                                                       *)
LEMMA MkdirKeeps ==
  ASSUME NameInv, NEW p, NEW n \in Name, Mkdir(p, n)
  PROVE  NameInv'
<1> DEFINE made == MadeDir(p, n)
<1> DEFINE L == Last(made)
<1> DEFINE m == (L.inode[p].links + 1) % LinkMod
<1> DEFINE counted == [L EXCEPT !.inode[p].links = m]
<1> DEFINE last == Put(counted, p)
<1>1. New(p, n) /\ CanMkdir(p) /\ Going BY DEF Mkdir, New
<1>2. p \in Ino /\ p \in Live(fs) /\ Absent(fs, p, n) BY <1>1, NewFacts
<1>3. made \in Seq(GoodFS) /\ made # <<>> /\ HasMade(L, p, NewIno(fs), n) BY <1>1, MadeDirGood
<1>4. Run(made \o <<Put([L EXCEPT !.inode[p].links = (@ + 1) % LinkMod], p)>>, {}, {"half"}) BY DEF Mkdir
<1> HIDE DEF made, L
<1>5. L \in FS /\ L.inode \in [Ino -> Inode] /\ L.inode[p] \in Inode BY <1>2, <1>3, GoodParts, Parts DEF HasMade
<1>6. [L EXCEPT !.inode[p].links = (@ + 1) % LinkMod] = counted
  <2>1. [L EXCEPT !.inode[p].links = (@ + 1) % LinkMod] = [L EXCEPT !.inode[p].links = (L.inode[p].links + 1) % LinkMod]
    BY <1>5
  <2> QED BY <2>1
<1>7. m \in 0..LinkMod-1
  <2>1. L.inode[p].links \in 0..LinkMod-1 BY <1>5 DEF Inode
  <2>2. L.inode[p].links + 1 \in Nat BY <2>1, Rounding
  <2> QED BY <2>2, Rounding
<1>8. counted \in FS /\ Linking(L, counted, p, m)
  <2> HIDE DEF m
  <2> QED BY <1>2, <1>5, <1>7, LinksParts
<1> HIDE DEF counted
<1>9. Good(counted) /\ Fine(counted) BY <1>1, <1>2, <1>3, <1>8, MkdirFine
<1>10. Fine(last) /\ last \in GoodFS BY <1>2, <1>9, FinePut
<1>11. Run(made \o <<last>>, {}, {"half"}) BY <1>4, <1>6
<1> HIDE DEF last
<1>12. <<last>> \in Seq(GoodFS) /\ <<last>> # <<>> /\ Last(<<last>>) = last BY <1>10 DEF Last
<1> DEFINE ss == made \o <<last>>
<1>13. ss \in Seq(GoodFS) /\ ss # <<>> /\ Last(ss) = last BY ZenonT(30), <1>3, <1>12, Joined
<1> HIDE DEF ss
<1>14. Run(ss, {}, {"half"}) BY <1>11 DEF ss
<1> QED BY <1>1, <1>10, <1>13, <1>14, CreationKeeps

-----------------------------------------------------------------------------
(* link: a file gets a link more, then the name is entered.  The program does*)
(* it the other way round, and a kill between the two is fatal.              *)
FileLinking(s, r, i, m) ==
  /\ r.imap = s.imap /\ r.bmap = s.bmap /\ r.data = s.data
  /\ r.inode = [s.inode EXCEPT ![i] = m] /\ r.table = [s.table EXCEPT ![i] = m]

(* The link count of a file changes, to no less than its names.              *)
LEMMA FileLinksGood ==
  ASSUME NEW s, Good(s), NEW r \in FS, NEW i \in Ino, s.inode[i].mode # "dir", NEW m \in Inode,
         m.mode = s.inode[i].mode, m.blocks = s.inode[i].blocks, s.inode[i].links <= m.links,
         FileLinking(s, r, i, m)
  PROVE  Good(r) /\ Off(s, r, {}) /\ Live(r) = Live(s)
<1>1. /\ s \in FS /\ Apart(s) /\ OnImage(s) /\ Founded(s) /\ Linked(s)
      /\ s.inode \in [Ino -> Inode] /\ s.table \in [Ino -> Inode] /\ s.imap \subseteq Ino
  BY Parts DEF Good
<1>2. /\ r.imap = s.imap /\ r.bmap = s.bmap /\ r.data = s.data
      /\ r.inode[i] = m /\ r.table[i] = m
      /\ \A j \in Ino \ {i} : r.inode[j] = s.inode[j] /\ r.table[j] = s.table[j]
  BY <1>1 DEF FileLinking
<1>3. \A j \in Ino : /\ r.inode[j].mode = s.inode[j].mode /\ r.inode[j].blocks = s.inode[j].blocks
                     /\ s.inode[j].links <= r.inode[j].links \/ j # i
  BY <1>2
<1>4. \A j \in Ino : Freed(r, j) = Freed(s, j) /\ (Owner(r, j) <=> Owner(s, j)) /\ (IsDir(r, j) <=> IsDir(s, j))
  BY <1>3 DEF Freed, Owner, IsDir
<1>5. Live(r) = Live(s)
  BY <1>1, <1>2, <1>3 DEF Live
<1>6. Apart(r)
  BY <1>1, <1>2, <1>3, <1>4 DEF Apart, Bare, Marks, Disjoint, Clean
<1>7. OnImage(r)
  <2>1. Known(m, m)
    <3>1. m.blocks \in Seq(Block \cup {Beyond}) BY DEF Inode
    <3>2. Len(m.blocks) \in Nat BY <3>1
    <3> QED BY <3>2 DEF Known, Starts
  <2> QED BY <1>1, <1>2, <2>1 DEF OnImage
<1>8. ASSUME NEW d \in Live(s) PROVE SameDir(s, r, d)
  <2>1. d \in Ino /\ Freed(s, d) \subseteq Block BY GoodParts
  <2> QED BY <1>1, <1>2, <1>3, <2>1, Untouched
<1>9. ROOT_INODE \in Live(s) /\ \A d \in Live(s) : NoTwins(s, d) BY GoodParts
<1>10. Founded(r) BY <1>5, <1>8, <1>9, <1>1 DEF Founded, SameDir
<1>11. Fewer(s, r) BY <1>5, <1>8, <1>9 DEF Fewer, SameDir
<1>12. ASSUME NEW d \in Live(s), NEW e \in NamesIn(s, d)
       PROVE  /\ e.ino \in Ino /\ e.ino \in s.imap /\ s.inode[e.ino].mode # "none"
              /\ IsDir(s, e.ino) => e.ino \in Live(s)
  <2>1. e.ino \in s.imap /\ s.inode[e.ino].mode # "none" BY GoodParts DEF Leading
  <2> QED BY <1>1, <2>1 DEF IsDir, Live
<1>13. StillLed(s, r)
  BY <1>2, <1>3, <1>4, <1>5, <1>8, <1>12 DEF StillLed, SameDir
<1>14. Counted(s, r)
  <2> SUFFICES ASSUME NEW j \in r.imap, r.inode[j].mode # "dir"
               PROVE  NamesAt(r, j) = {} \/ Cardinality(NamesAt(s, j)) <= r.inode[j].links
    BY DEF Counted
  <2>1. j \in Ino /\ j \in s.imap /\ s.inode[j].mode # "dir" BY <1>1, <1>2, <1>3
  <2>2. Cardinality(NamesAt(s, j)) \in Nat BY <1>1, <1>11, <2>1, NamesAtFewer
  <2>3. Cardinality(NamesAt(s, j)) <= s.inode[j].links BY <1>1, <2>1 DEF Linked
  <2>4. s.inode[j].links <= r.inode[j].links /\ s.inode[j].links \in Nat /\ r.inode[j].links \in Nat
    <3>1. s.inode[j].links \in 0..LinkMod-1 /\ r.inode[j].links \in 0..LinkMod-1 BY <1>1, <2>1, Parts
    <3>2. s.inode[j].links \in Nat /\ r.inode[j].links \in Nat BY <3>1, Rounding
    <3>3. CASE j = i BY <1>2, <3>2, <3>3
    <3>4. CASE j # i
      <4>1. r.inode[j] = s.inode[j] BY <1>2, <2>1, <3>4
      <4> QED BY <3>2, <4>1
    <3> QED BY <3>3, <3>4
  <2> QED BY <2>2, <2>3, <2>4
<1>15. Good(r) BY <1>6, <1>7, <1>10, <1>11, <1>13, <1>14, Frame
<1>16. Off(s, r, {})
  <2>1. ASSUME NEW d \in Live(s) PROVE Subdirs(r, d) = Subdirs(s, d) /\ r.inode[d].links = s.inode[d].links
    <3>1. NamesIn(r, d) = NamesIn(s, d) BY <1>8 DEF SameDir
    <3>2. \A e \in NamesIn(s, d) : IsDir(r, e.ino) <=> IsDir(s, e.ino) BY <1>4, <1>12
    <3>3. d # i /\ d \in Ino BY <1>1 DEF Live
    <3> QED BY <1>2, <3>1, <3>2, <3>3 DEF Subdirs
  <2> QED BY <1>5, <2>1 DEF Off
<1> QED BY <1>5, <1>15, <1>16

(* What enter_dir_entry leaves, of any file system.                          *)
Entering(s, r, p, i, n) ==
  LET e == [name |-> n, ino |-> i]
      q == s.inode[p].blocks
      b == IF Roomy(s, p) # 0 THEN q[Roomy(s, p)] ELSE NewBlock(s)
      m == [s.inode[p] EXCEPT !.blocks = Append(q, b)]
  IN /\ r.imap = s.imap /\ r.table = s.table
     /\ r.bmap = s.bmap \cup IF Roomy(s, p) # 0 THEN {} ELSE {b}
     /\ r.data = [s.data EXCEPT ![b] = IF Roomy(s, p) # 0 THEN Append(s.data[b], e) ELSE <<e>>]
     /\ r.inode = IF Roomy(s, p) # 0 THEN s.inode ELSE [s.inode EXCEPT ![p] = m]

(* enter_dir_entry, field by field.                                          *)
LEMMA EnterParts ==
  ASSUME NEW s \in FS, NEW p \in Ino, Freed(s, p) \subseteq Block, NEW n \in Name, NEW i \in Ino, CanEnter(s, p)
  PROVE  /\ EnterDirEntry(s, p, i, n) \in Seq(FS) /\ EnterDirEntry(s, p, i, n) # <<>>
         /\ Entering(s, Last(EnterDirEntry(s, p, i, n)), p, i, n)
<1> DEFINE e == [name |-> n, ino |-> i]
<1>1. /\ s.inode \in [Ino -> Inode] /\ s.data \in [Block -> Content] /\ s.inode[p] \in Inode
      /\ \A b \in Block : s.data[b] \in Seq(Entry) /\ Len(s.data[b]) \in 0..Room
      /\ s.inode[p].blocks \in Seq(Block \cup {Beyond}) /\ s.bmap \subseteq Block
  BY Parts
<1>2. e \in Entry BY DEF Entry, AllName
<1>3. CASE Roomy(s, p) # 0
  <2> DEFINE b == s.inode[p].blocks[Roomy(s, p)]
  <2> DEFINE r == [s EXCEPT !.data[b] = Append(s.data[b], e)]
  <2>1. b \in Block /\ Len(s.data[b]) < Room BY SMTT(30), <1>3, RoomyFacts
  <2>2. EnterDirEntry(s, p, i, n) = <<r>> BY <1>3 DEF EnterDirEntry
  <2> HIDE DEF b
  <2>3. Append(s.data[b], e) \in Content
    <3>1. s.data[b] \in Seq(Entry) /\ Len(s.data[b]) \in Nat BY <1>1, <2>1
    <3>2. Append(s.data[b], e) \in Seq(Entry) /\ Len(Append(s.data[b], e)) = Len(s.data[b]) + 1
      BY <1>2, <3>1
    <3> QED BY <2>1, <3>1, <3>2, Sizes DEF Content
  <2>4. /\ r \in FS /\ r.imap = s.imap /\ r.bmap = s.bmap /\ r.table = s.table /\ r.inode = s.inode
        /\ r.data = [s.data EXCEPT ![b] = Append(s.data[b], e)]
    BY <1>1, <2>1, <2>3 DEF FS
  <2> HIDE DEF r, e
  <2>5. Entering(s, r, p, i, n) BY <1>3, <2>4 DEF Entering, b, e
  <2>6. <<r>> \in Seq(FS) /\ <<r>> # <<>> /\ Last(<<r>>) = r BY <2>4 DEF Last
  <2> QED BY <2>2, <2>5, <2>6
<1>4. CASE Roomy(s, p) = 0
  <2> DEFINE b == NewBlock(s)
  <2> DEFINE grown == WithBlocks(s, 1)
  <2> DEFINE q == s.inode[p].blocks
  <2> DEFINE r == [grown EXCEPT !.inode[p].blocks = Append(q, b), !.data[b] = <<e>>]
  <2>1. 1 <= Cardinality(FreeBlock(s)) BY <1>4, SomeBlock DEF CanEnter
  <2>2. b \in Block \ s.bmap /\ grown = [s EXCEPT !.bmap = s.bmap \cup {b}] BY <2>1, NewBlockFree
  <2> HIDE DEF b
  <2>3. /\ grown \in FS /\ grown.imap = s.imap /\ grown.bmap = s.bmap \cup {b} /\ grown.table = s.table
        /\ grown.inode = s.inode /\ grown.data = s.data
    BY <1>1, <2>2 DEF FS
  <2>4. EnterDirEntry(s, p, i, n) = <<grown, r>>
    <3>1. EnterDirEntry(s, p, i, n)
            = <<grown, [grown EXCEPT !.inode[p].blocks = Append(grown.inode[p].blocks, b), !.data[b] = <<e>>]>>
      BY <1>4 DEF EnterDirEntry, b
    <3> QED BY <2>3, <3>1
  <2>5. <<e>> \in Content
    <3>1. <<e>> \in Seq(Entry) /\ Len(<<e>>) = 1 BY <1>2
    <3> QED BY <3>1, Sizes DEF Content
  <2>6. Append(q, b) \in Seq(Block \cup {Beyond}) BY <1>1, <2>2
  <2> HIDE DEF grown, e
  <2>7. /\ r.imap = s.imap /\ r.bmap = s.bmap \cup {b} /\ r.table = s.table
        /\ r.inode = [s.inode EXCEPT ![p] = [s.inode[p] EXCEPT !.blocks = Append(q, b)]]
        /\ r.data = [s.data EXCEPT ![b] = <<e>>]
    BY <2>3 DEF FS
  <2>8. r \in FS
    <3> DEFINE m == [s.inode[p] EXCEPT !.blocks = Append(q, b)]
    <3> DEFINE ni == [s.inode EXCEPT ![p] = m]
    <3> DEFINE nd == [s.data EXCEPT ![b] = <<e>>]
    <3>1. m \in Inode BY <1>1, <2>6, InodeWith
    <3>2. r = [grown EXCEPT !.inode = ni, !.data = nd] BY <2>3
    <3> HIDE DEF m, r
    <3>3. ni \in [Ino -> Inode] /\ nd \in [Block -> Content] BY <1>1, <2>2, <2>5, <3>1
    <3> HIDE DEF ni, nd
    <3> QED BY <2>3, <3>2, <3>3 DEF FS
  <2> HIDE DEF r
  <2>9. Entering(s, r, p, i, n) BY <1>4, <2>7 DEF Entering, b, e
  <2>10. <<grown, r>> \in Seq(FS) /\ <<grown, r>> # <<>> /\ Last(<<grown, r>>) = r BY <2>3, <2>8 DEF Last
  <2> QED BY <2>4, <2>9, <2>10 DEF r
<1> QED BY <1>3, <1>4

(* A file system is its five fields.                                         *)
LEMMA SameFS ==
  ASSUME NEW s \in FS, NEW r \in FS, r.imap = s.imap, r.bmap = s.bmap, r.inode = s.inode,
         r.table = s.table, r.data = s.data
  PROVE  r = s
  BY DEF FS

(* link: a name is entered, then the link is counted.                        *)
LEMMA LinkKeeps ==
  ASSUME NameInv, NEW i, NEW p, NEW n \in Name, Link(i, p, n)
  PROVE  NameInv'
<1> DEFINE entered == EnterDirEntry(fs, p, i, n)
<1> DEFINE L == Last(entered)
<1> DEFINE old == Put([L EXCEPT !.inode[i].links = L.inode[i].links + 1], i)
<1> DEFINE last == Put(old, p)
<1>1. /\ New(p, n) /\ i \in Named /\ ~IsDir(fs, i) /\ Going /\ CanEnter(fs, p) /\ fs.inode[i].links < MaxLinks
  BY DEF Link, New, Files
<1>2. /\ Good(fs) /\ fs \in FS /\ cwd \in Live(fs) /\ p \in Live(fs) /\ p \in Ino /\ cwd \in Rooted(fs)
      /\ Absent(fs, p, n) /\ fs.inode[p].blocks # <<>> /\ ROOT_INODE \in Live(fs)
      /\ Freed(fs, p) \subseteq Block /\ Linked(fs) /\ fs.inode \in [Ino -> Inode] /\ fs.table \in [Ino -> Inode]
  BY <1>1, NewFacts, GoodParts, Parts
<1>3. i \in Ino /\ i \in fs.imap /\ fs.inode[i].mode \in {"reg", "lnk"} /\ fs.inode[i] \in Inode
  BY <1>1, <1>2, NamedFacts DEF IsFile
<1>4. i \notin {ROOT_INODE, cwd, p} BY <1>2, <1>3 DEF Live
<1> DEFINE m == [fs.inode[i] EXCEPT !.links = fs.inode[i].links + 1]
<1>5. /\ fs.inode[i].links \in Nat /\ fs.inode[i].links + 1 \in 0..LinkMod-1
  <2>1. fs.inode[i].links \in 0..LinkMod-1 BY <1>3 DEF Inode
  <2>2. fs.inode[i].links \in Nat BY <2>1, Rounding
  <2>3. MaxLinks \in Nat /\ MaxLinks <= LinkMod-1 BY Rounding
  <2> QED BY <1>1, <2>2, <2>3, Rounding
<1>6. /\ m \in Inode /\ m.mode = fs.inode[i].mode /\ m.blocks = fs.inode[i].blocks
      /\ m.links = fs.inode[i].links + 1
  BY <1>3, <1>5 DEF Inode
<1> DEFINE u == [fs EXCEPT !.inode[i] = m, !.table[i] = m]
<1>7. u \in FS /\ FileLinking(fs, u, i, m)
  <2> HIDE DEF m
  <2> DEFINE ni == [fs.inode EXCEPT ![i] = m]
  <2> DEFINE nt == [fs.table EXCEPT ![i] = m]
  <2>1. u = [fs EXCEPT !.inode = ni, !.table = nt] OBVIOUS
  <2>2. ni \in [Ino -> Inode] /\ nt \in [Ino -> Inode] BY <1>2, <1>6
  <2> HIDE DEF ni, nt, u
  <2>3. u \in FS /\ u.imap = fs.imap /\ u.bmap = fs.bmap /\ u.data = fs.data /\ u.inode = ni /\ u.table = nt
    BY <1>2, <2>1, <2>2 DEF FS
  <2> QED BY <2>3 DEF FileLinking, ni, nt
<1> HIDE DEF m, u
<1>8. Good(u) /\ Off(fs, u, {}) /\ Live(u) = Live(fs)
  <2>1. fs.inode[i].links <= m.links /\ fs.inode[i].mode # "dir" BY <1>3, <1>5, <1>6
  <2> QED BY <1>2, <1>3, <1>6, <1>7, <2>1, FileLinksGood
<1>9. /\ u.imap = fs.imap /\ u.bmap = fs.bmap /\ u.data = fs.data
      /\ u.inode = [fs.inode EXCEPT ![i] = m] /\ u.table = [fs.table EXCEPT ![i] = m]
      /\ u.inode[i] = m /\ u.inode[p] = fs.inode[p]
  BY <1>2, <1>3, <1>4, <1>7 DEF FileLinking
<1>10. Roomy(u, p) = Roomy(fs, p) /\ NewBlock(u) = NewBlock(fs) /\ FreeBlock(u) = FreeBlock(fs)
  BY <1>9 DEF Roomy, NewBlock, NewBlocks, FreeBlock
<1>11. Entries(u, p) = Entries(fs, p) /\ Freed(u, p) = Freed(fs, p) BY <1>9 DEF Entries, Freed
<1>12. ~IsDir(u, i) BY <1>1, <1>6, <1>9 DEF IsDir
<1>13. Nameable(u, p, i)
  <2>1. \A d \in Live(fs) : Entries(u, d) = Entries(fs, d)
    <3>1. \A d \in Live(fs) : d \in Ino /\ d # i BY <1>2, <1>3, GoodParts DEF Live
    <3>2. \A d \in Live(fs) : u.inode[d] = fs.inode[d] BY <1>2, <1>9, <3>1
    <3> QED BY <1>9, <3>2 DEF Entries
  <2>2. NamesAt(u, i) = NamesAt(fs, i) BY <1>8, <2>1 DEF NamesAt
  <2>3. Cardinality(NamesAt(fs, i)) <= fs.inode[i].links BY <1>2, <1>3 DEF Linked
  <2>4. Cardinality(NamesAt(fs, i)) \in Nat
    <3>1. NamesAt(fs, i) \subseteq Ino \X Name BY <1>2, GoodParts DEF NamesAt
    <3>2. IsFiniteSet(NamesAt(fs, i)) BY <3>1, FiniteSets, FS_Subset
    <3> QED BY <3>2, FS_CardinalityType
  <2>5. Cardinality(NamesAt(u, i)) + 1 <= u.inode[i].links BY <1>5, <1>6, <1>9, <2>2, <2>3, <2>4
  <2>6. i \in u.imap \ {ROOT_INODE, p} /\ u.inode[i].mode # "none" BY <1>3, <1>4, <1>6, <1>9
  <2> QED BY <1>12, <2>5, <2>6 DEF Nameable
<1> DEFINE r == Last(EnterDirEntry(u, p, i, n))
<1>14. HasEntered(u, r, p, i, n) /\ Entering(u, r, p, i, n) /\ r \in FS
  <2>1. CanEnter(u, p) BY <1>1, <1>10 DEF CanEnter
  <2>2. Absent(u, p, n) BY <1>2, <1>11 DEF Absent
  <2>3. p \in Live(u) /\ u.inode[p].blocks # <<>> BY <1>2, <1>8, <1>9
  <2>4. HasEntered(u, r, p, i, n) BY <1>3, <1>8, <1>13, <2>1, <2>2, <2>3, EnterGood
  <2>5. Entering(u, r, p, i, n) BY <1>2, <1>3, <1>7, <1>11, <2>1, EnterParts
  <2> QED BY <2>4, <2>5, GoodParts DEF HasEntered
<1> HIDE DEF r
<1>15. /\ Good(r) /\ Off(u, r, {}) BY <1>12, <1>14 DEF HasEntered
<1>16. entered \in Seq(FS) /\ entered # <<>> /\ Entering(fs, L, p, i, n)
  BY <1>1, <1>2, <1>3, EnterParts
<1>17. Run(entered \o <<old, last>>, {}, {"cut"})
  <2>1. Run(entered \o <<Put([L EXCEPT !.inode[i].links = @ + 1], i),
                         Put(Put([L EXCEPT !.inode[i].links = @ + 1], i), p)>>, {}, {"cut"})
    BY DEF Link
  <2> QED BY <2>1
<1> HIDE DEF entered
<1>18. L \in FS
  <2>1. Len(entered) \in 1..Len(entered) BY <1>16
  <2> QED BY <1>16, <2>1 DEF Last
<1> HIDE DEF L
<1>19. /\ L.imap = r.imap /\ L.bmap = r.bmap /\ L.data = r.data /\ L.table = fs.table
       /\ r.inode = [L.inode EXCEPT ![i] = m] /\ r.table = [L.table EXCEPT ![i] = m]
       /\ L.inode[i] = fs.inode[i]
  <2>1. /\ L.imap = r.imap /\ L.bmap = r.bmap /\ L.data = r.data /\ L.table = fs.table
        /\ r.table = [L.table EXCEPT ![i] = m]
    BY <1>9, <1>10, <1>14, <1>16 DEF Entering
  <2>2. r.inode = [L.inode EXCEPT ![i] = m] /\ L.inode[i] = fs.inode[i]
    <3>1. CASE Roomy(fs, p) # 0
      BY <1>9, <1>10, <1>14, <1>16, <3>1 DEF Entering
    <3>2. CASE Roomy(fs, p) = 0
      <4> DEFINE x == [fs.inode[p] EXCEPT !.blocks = Append(fs.inode[p].blocks, NewBlock(fs))]
      <4>1. L.inode = [fs.inode EXCEPT ![p] = x] /\ r.inode = [u.inode EXCEPT ![p] = x]
        BY <1>9, <1>10, <1>14, <1>16, <3>2 DEF Entering
      <4> HIDE DEF x
      <4> QED BY <1>2, <1>3, <1>4, <1>9, <4>1
    <3> QED BY SMTT(30), <3>1, <3>2
  <2> QED BY SMTT(30), <2>1, <2>2
<1>20. old = r
  <2>1. [L EXCEPT !.inode[i].links = L.inode[i].links + 1] = [L EXCEPT !.inode[i] = m]
    BY <1>19 DEF m
  <2>2. old = Put([L EXCEPT !.inode[i] = m], i) BY <2>1
  <2>3. old \in FS /\ Renewing(L, old, i, m)
    <3> HIDE DEF old
    <3> QED BY <1>3, <1>4, <1>6, <1>18, <2>2, SetAndPut
  <2> HIDE DEF old
  <2> QED BY <1>14, <1>19, <2>3, SameFS DEF Renewing
<1>21. Fine(r)
  <2>1. Off(fs, r, {}) BY <1>8, <1>15, OffTrans
  <2> QED BY <1>1, <1>15, <2>1, FineOff
<1>22. Fine(last) /\ last \in FS
  <2>1. last = Put(r, p) BY <1>20
  <2> QED BY <1>2, <1>15, <1>21, <2>1, FinePut DEF GoodFS
<1>23. old \in FS BY <1>14, <1>20
<1> HIDE DEF old, last
<1>24. <<old, last>> \in Seq(FS) /\ <<old, last>> # <<>> /\ Last(<<old, last>>) = last BY <1>22, <1>23 DEF Last
<1> DEFINE ss == entered \o <<old, last>>
<1>25. ss \in Seq(FS) /\ ss # <<>> /\ Last(ss) = last BY ZenonT(30), <1>16, <1>24, Joined
<1>26. Run(ss, {}, {"cut"}) BY <1>17
<1> HIDE DEF ss
<1>27. {} \in SUBSET Fatal OBVIOUS
<1> QED BY <1>1, <1>22, <1>25, <1>26, <1>27, FreeingKeeps

-----------------------------------------------------------------------------
(* The blocks of inode i, that is now m, are given up, and its mark may be.  *)
GivesUp(s, i, m) ==
  /\ s.imap \in {fs.imap, fs.imap \ {i}} /\ s.bmap = fs.bmap \ Freed(fs, i)
  /\ s.data = [b \in Block |-> IF b \in Freed(fs, i) THEN <<>> ELSE fs.data[b]]
  /\ s.inode = [fs.inode EXCEPT ![i] = m]
  /\ s.table \in {fs.table, [fs.table EXCEPT ![i] = m]}
(* A directory that is another's finds the same entry as before.             *)
LEMMA SameHit ==
  ASSUME Good(fs), NEW p \in Live(fs), NEW i \in Ino \ {p}, fs.inode[i].mode # "none", ~Strays(fs, i),
         NEW s \in FS, NEW m, GivesUp(s, i, m), NEW n
  PROVE  /\ Hit(s, p, n) = Hit(fs, p, n) /\ (Hangs(s, p, n) <=> Hangs(fs, p, n))
         /\ \A j : WrongEntry(s, p, n, j) <=> WrongEntry(fs, p, n, j)
         /\ Freed(s, p) = Freed(fs, p) /\ Freed(fs, p) \cap Freed(fs, i) = {}
         /\ \A b \in Freed(fs, p) : s.data[b] = fs.data[b]
<1>1. p \in Ino /\ Owner(fs, p) /\ Freed(fs, p) \subseteq Block /\ fs \in FS /\ fs.inode \in [Ino -> Inode]
  BY GoodParts, Parts
<1>2. Freed(fs, p) \cap Freed(fs, i) = {}
  <2>1. p \in Ino \ {i} /\ i \in Ino BY <1>1
  <2>2. Freed(fs, i) \cap Freed(fs, p) = {} BY <1>1, <2>1, Alone
  <2> QED BY <2>2
<1>3. s.inode[p] = fs.inode[p] /\ \A b \in Freed(fs, p) : s.data[b] = fs.data[b]
  BY <1>1, <1>2 DEF GivesUp
<1>4. Freed(s, p) = Freed(fs, p) BY <1>3 DEF Freed
<1>5. Hit(s, p, n) = Hit(fs, p, n) BY <1>1, <1>3, SamePlace DEF Hit
<1>6. CASE Hit(fs, p, n) = <<>> BY <1>2, <1>3, <1>4, <1>5, <1>6 DEF Hangs, WrongEntry
<1>7. CASE Hit(fs, p, n) # <<>>
  <2>1. \E b \in Freed(fs, p) : \E k \in 1..Len(fs.data[b]) : Hit(fs, p, n) = <<b, k>>
    BY <1>1, <1>7, PlaceFacts DEF Hit
  <2>2. PICK b \in Freed(fs, p) : \E k \in 1..Len(fs.data[b]) : Hit(fs, p, n) = <<b, k>> BY <2>1
  <2>3. PICK k \in 1..Len(fs.data[b]) : Hit(fs, p, n) = <<b, k>> BY <2>2
  <2>4. Hit(fs, p, n)[1] = b /\ Hit(s, p, n)[1] = b BY <1>5, <2>3
  <2>5. Hangs(s, p, n) <=> Hangs(fs, p, n) BY <1>3, <1>5, <2>4 DEF Hangs
  <2>6. EntryAt(s, Hit(s, p, n)) = EntryAt(fs, Hit(fs, p, n)) BY <1>3, <1>5, <2>4 DEF EntryAt
  <2>7. \A j : WrongEntry(s, p, n, j) <=> WrongEntry(fs, p, n, j) BY <1>5, <2>6 DEF WrongEntry
  <2> QED BY <1>2, <1>3, <1>4, <1>5, <2>5, <2>7
<1> QED BY <1>6, <1>7

(* remove_dir_entry, of any file system.                                     *)
LEMMA RemovedFS ==
  ASSUME NEW s \in FS, NEW d \in Ino, Freed(s, d) \subseteq Block, NEW n
  PROVE  /\ RemoveDirEntry(s, d, n) \in FS
         /\ ~Hangs(s, d, n) /\ Hit(s, d, n) # <<>> =>
              \E b \in Freed(s, d) : \E k \in 1..Len(s.data[b]) :
                /\ RemoveDirEntry(s, d, n) = [s EXCEPT !.data = [s.data EXCEPT ![b] = RemoveAt(s.data[b], k)]]
                /\ EntryAt(s, Hit(s, d, n)) = s.data[b][k]
<1>1. CASE Hit(s, d, n) = <<>> BY <1>1 DEF RemoveDirEntry
<1>2. ASSUME NEW b \in Freed(s, d), NEW k \in 1..Len(s.data[b]), Hit(s, d, n) = <<b, k>>
      PROVE  /\ RemoveDirEntry(s, d, n) \in FS
             /\ ~Hangs(s, d, n) =>
                  RemoveDirEntry(s, d, n) = [s EXCEPT !.data = [s.data EXCEPT ![b] = RemoveAt(s.data[b], k)]]
             /\ EntryAt(s, Hit(s, d, n)) = s.data[b][k]
  <2>1. Hit(s, d, n) # <<>> /\ Hit(s, d, n)[1] = b /\ Hit(s, d, n)[2] = k BY <1>2
  <2>2. b \in Block /\ s.data[b] \in Seq(Entry) /\ Len(s.data[b]) \in 0..Room /\ s.data \in [Block -> Content]
        /\ s.bmap \subseteq Block
    BY Parts
  <2> DEFINE nd == [s.data EXCEPT ![b] = RemoveAt(s.data[b], k)]
  <2> DEFINE nb == s.bmap \ {b}
  <2>3. RemoveDirEntry(s, d, n) = IF Hangs(s, d, n) THEN [s EXCEPT !.bmap = nb] ELSE [s EXCEPT !.data = nd]
    BY <2>1 DEF RemoveDirEntry
  <2>4. nd \in [Block -> Content]
    <3>1. RemoveAt(s.data[b], k) \in Seq(Entry) /\ Len(RemoveAt(s.data[b], k)) = Len(s.data[b]) - 1
      BY <2>2, RemovedAt
    <3>2. Len(s.data[b]) - 1 <= Room BY <2>2, Sizes
    <3>3. RemoveAt(s.data[b], k) \in Content BY <3>1, <3>2 DEF Content
    <3> QED BY <2>2, <3>3
  <2>5. nb \subseteq Block BY <2>2
  <2> HIDE DEF nd, nb
  <2>6. [s EXCEPT !.bmap = nb] \in FS /\ [s EXCEPT !.data = nd] \in FS BY <2>4, <2>5 DEF FS
  <2> QED BY <2>1, <2>3, <2>6 DEF EntryAt, nd
<1>3. \/ Hit(s, d, n) = <<>>
      \/ \E b \in Freed(s, d) : \E k \in 1..Len(s.data[b]) : Hit(s, d, n) = <<b, k>>
  BY PlaceFacts DEF Hit
<1>4. CASE Hit(s, d, n) # <<>>
  <2>1. PICK b \in Freed(s, d) : \E k \in 1..Len(s.data[b]) : Hit(s, d, n) = <<b, k>> BY <1>3, <1>4
  <2>2. PICK k \in 1..Len(s.data[b]) : Hit(s, d, n) = <<b, k>> BY <2>1
  <2> QED BY <1>2, <2>2
<1> QED BY <1>1, <1>4

(* The entry removed is the one looked for.  Removing it first and giving up *)
(* the blocks then leaves the same: v is the file system between.            *)
LostFirst(v, r, s, i) ==
  /\ v.imap = fs.imap /\ v.bmap = fs.bmap /\ v.inode = fs.inode /\ v.table = fs.table
  /\ r.imap = s.imap /\ r.bmap = s.bmap /\ r.inode = s.inode /\ r.table = s.table
  /\ \A c \in Block : r.data[c] = IF c \in Freed(fs, i) THEN <<>> ELSE v.data[c]

(* There is such a file system between, and it is good.                      *)
LEMMA RemovalGood ==
  ASSUME Good(fs), NEW p \in Live(fs), NEW g, Dotted(fs, p, g), NEW i \in Ino \ {p}, fs.inode[i].mode # "none",
         ~Strays(fs, i), NEW s \in FS, NEW m, GivesUp(s, i, m),
         NEW n \in Name, [name |-> n, ino |-> i] \in Entries(fs, p), ~WrongEntry(fs, p, n, i), ~Hangs(fs, p, n)
  PROVE  /\ RemoveDirEntry(s, p, n) \in FS
         /\ \E v \in FS : /\ Good(v) /\ Loses(fs, v, p, [name |-> n, ino |-> i])
                          /\ LostFirst(v, RemoveDirEntry(s, p, n), s, i)
<1> DEFINE e == [name |-> n, ino |-> i]
<1> DEFINE removed == RemoveDirEntry(s, p, n)
<1>1. p \in Ino /\ Freed(fs, p) \subseteq Block /\ fs \in FS /\ fs.data \in [Block -> Content]
  BY GoodParts, Parts
<1>2. /\ Hit(s, p, n) = Hit(fs, p, n) /\ ~Hangs(s, p, n)
      /\ Freed(s, p) = Freed(fs, p) /\ Freed(fs, p) \cap Freed(fs, i) = {}
      /\ \A b \in Freed(fs, p) : s.data[b] = fs.data[b]
  BY SameHit
<1>3. Hit(fs, p, n) # <<>>
  <2>1. n \in Beginning(n) BY DEF Beginning, AllName
  <2>2. e.name = n OBVIOUS
  <2> HIDE DEF e
  <2>3. \/ Place(fs, p, Beginning(n)) = <<>> /\ \A x \in Entries(fs, p) : x.name \notin Beginning(n)
        \/ \E b \in Freed(fs, p) : \E k \in 1..Len(fs.data[b]) :
             /\ Place(fs, p, Beginning(n)) = <<b, k>> /\ fs.data[b][k].name \in Beginning(n)
             /\ EntryAt(fs, Place(fs, p, Beginning(n))) = fs.data[b][k]
    BY <1>1, PlaceFacts
  <2>4. \A b, k : <<b, k>> # <<>> OBVIOUS
  <2>5. e \in Entries(fs, p) BY DEF e
  <2> QED BY <2>1, <2>2, <2>3, <2>4, <2>5 DEF Hit
<1>4. EntryAt(fs, Hit(fs, p, n)) = e BY <1>3 DEF WrongEntry
<1>5. removed \in FS BY <1>1, <1>2, RemovedFS
<1> HIDE DEF e
<1>6. PICK b \in Freed(s, p) : \E k \in 1..Len(s.data[b]) :
        /\ removed = [s EXCEPT !.data = [s.data EXCEPT ![b] = RemoveAt(s.data[b], k)]]
        /\ EntryAt(s, Hit(s, p, n)) = s.data[b][k]
  BY <1>1, <1>2, <1>3, RemovedFS
<1>7. PICK k \in 1..Len(s.data[b]) :
        /\ removed = [s EXCEPT !.data = [s.data EXCEPT ![b] = RemoveAt(s.data[b], k)]]
        /\ EntryAt(s, Hit(s, p, n)) = s.data[b][k]
  BY <1>6
<1> HIDE DEF removed
<1>8. b \in Freed(fs, p) /\ b \in Block /\ b \notin Freed(fs, i) /\ k \in 1..Len(fs.data[b]) /\ s.data[b] = fs.data[b]
  BY <1>1, <1>2, <1>7
<1>9. fs.data[b][k] = e
  <2>1. EntryAt(s, Hit(s, p, n)) = EntryAt(fs, Hit(fs, p, n))
    <3>1. \E c \in Freed(fs, p) : \E j \in 1..Len(fs.data[c]) : Hit(fs, p, n) = <<c, j>>
      BY <1>1, <1>3, PlaceFacts DEF Hit
    <3>2. PICK c \in Freed(fs, p) : \E j \in 1..Len(fs.data[c]) : Hit(fs, p, n) = <<c, j>> BY <3>1
    <3>3. Hit(fs, p, n)[1] = c BY <3>2
    <3> QED BY <1>2, <3>3 DEF EntryAt
  <2> QED BY <1>4, <1>7, <1>8, <2>1
<1> DEFINE nd == [fs.data EXCEPT ![b] = RemoveAt(fs.data[b], k)]
<1> DEFINE v == [fs EXCEPT !.data = nd]
<1>10. nd \in [Block -> Content]
  <2>1. fs.data[b] \in Seq(Entry) /\ Len(fs.data[b]) \in 0..Room BY <1>1, <1>8, Parts
  <2>2. RemoveAt(fs.data[b], k) \in Seq(Entry) /\ Len(RemoveAt(fs.data[b], k)) = Len(fs.data[b]) - 1
    BY <1>8, <2>1, RemovedAt
  <2>3. Len(fs.data[b]) - 1 <= Room BY <2>1, Sizes
  <2>4. RemoveAt(fs.data[b], k) \in Content BY <2>2, <2>3 DEF Content
  <2> QED BY <1>1, <1>8, <2>4
<1>11. v \in FS /\ v.imap = fs.imap /\ v.bmap = fs.bmap /\ v.inode = fs.inode /\ v.table = fs.table /\ v.data = nd
  <2> HIDE DEF nd
  <2> QED BY <1>1, <1>10 DEF FS
<1> HIDE DEF v
<1>12. Removes(fs, v, p, b, k)
  <2>1. fs.data[b][k].name \in Name BY <1>9 DEF e
  <2> QED BY <1>8, <1>11, <2>1 DEF Removes
<1>13. Good(v) /\ Loses(fs, v, p, e) BY <1>8, <1>9, <1>11, <1>12, RemovedGood
<1>14. LostFirst(v, removed, s, i)
  <2> DEFINE sd == [s.data EXCEPT ![b] = RemoveAt(s.data[b], k)]
  <2>1. /\ removed.imap = s.imap /\ removed.bmap = s.bmap /\ removed.inode = s.inode /\ removed.table = s.table
        /\ removed.data = sd
    <3>1. removed = [s EXCEPT !.data = sd] BY <1>7
    <3> HIDE DEF sd
    <3> QED BY <3>1 DEF FS
  <2>2. \A c \in Block : sd[c] = IF c \in Freed(fs, i) THEN <<>> ELSE nd[c]
    BY <1>1, <1>8 DEF GivesUp
  <2> QED BY <1>11, <2>1, <2>2 DEF LostFirst
<1> QED BY <1>5, <1>11, <1>13, <1>14 DEF e, removed

(* unlink: the inode is counted down and has no blocks, then the name goes.  *)
LEMMA NowhereUnnamed ==
  ASSUME NEW s, Good(s), NEW i, NamesAt(s, i) = {}
  PROVE  Unnamed(s, i)
<1> SUFFICES ASSUME NEW d \in Live(s), NEW e \in NamesIn(s, d), e.ino = i PROVE FALSE
  BY DEF Unnamed
<1>1. s \in FS /\ d \in Ino /\ Freed(s, d) \subseteq Block BY GoodParts
<1>2. e \in Entries(s, d) /\ e.name \in Name /\ e \in Entry BY <1>1, EntriesAre DEF NamesIn
<1>3. e = [name |-> e.name, ino |-> i] BY <1>2 DEF Entry
<1> DEFINE x == <<d, e.name>>
<1>4. x \in Live(s) \X Name /\ x[1] = d /\ x[2] = e.name BY <1>2
<1> HIDE DEF x
<1>5. x \in NamesAt(s, i) BY <1>2, <1>3, <1>4 DEF NamesAt
<1> QED BY <1>5

(* A link less, and the mark of a symbolic link taken, field by field.       *)
LEMMA UnlinkedParts ==
  ASSUME fs \in FS, NEW i \in Ino
  PROVE  /\ Unlinked(i) \in FS
         /\ Unlinked(i).imap = (IF fs.inode[i].mode = "lnk" THEN fs.imap \ {i} ELSE fs.imap)
         /\ Unlinked(i).bmap = fs.bmap /\ Unlinked(i).data = fs.data /\ Unlinked(i).table = fs.table
         /\ Unlinked(i).inode = [fs.inode EXCEPT ![i] =
              [fs.inode[i] EXCEPT !.links = (fs.inode[i].links + LinkMod - 1) % LinkMod]]
<1> DEFINE l == (fs.inode[i].links + LinkMod - 1) % LinkMod
<1> DEFINE s == [fs EXCEPT !.inode[i].links = l]
<1>1. fs.inode[i].links \in 0..LinkMod-1 /\ fs.inode[i].mode = fs.inode[i].mode /\ fs.inode[i] \in Inode
      /\ fs.inode \in [Ino -> Inode] /\ fs.imap \subseteq Ino
  BY Parts
<1>2. l \in 0..LinkMod-1
  <2>1. fs.inode[i].links + LinkMod - 1 \in Nat BY <1>1, Rounding
  <2> QED BY <2>1, Rounding
<1>3. s.inode[i].mode = fs.inode[i].mode
  <2> HIDE DEF l
  <2> QED BY <1>1 DEF Inode, FS
<1>4. Unlinked(i) = IF fs.inode[i].mode = "lnk" THEN [s EXCEPT !.imap = s.imap \ {i}] ELSE s
  BY <1>1, <1>3 DEF Unlinked
<1> HIDE DEF l
<1>5. s \in FS /\ Linking(fs, s, i, l) BY <1>2, LinksParts
<1> HIDE DEF s
<1>6. s.imap \ {i} \subseteq Ino BY <1>1, <1>5 DEF Linking
<1>7. [s EXCEPT !.imap = s.imap \ {i}] \in FS BY <1>5, <1>6 DEF FS
<1> QED BY <1>4, <1>5, <1>7 DEF FS, Linking, l

(* unlink ends at a fine file system if it did no harm.                      *)
LEMMA UnlinkFine ==
  ASSUME NameInv, Going, NEW p \in Rooted(fs), NEW n \in Name, NEW i \in Ino, ~IsDir(fs, i), i \in fs.imap,
         fs.inode[i].mode \in {"reg", "lnk"},
         [name |-> n, ino |-> i] \in Entries(fs, p), UnlinkHarm(p, n, i) = {}, ~Hangs(fs, p, n)
  PROVE  Fine(Put(Put(RemoveDirEntry(ClearBlocks(Unlinked(i), i), p, n), p), i))
<1> DEFINE e == [name |-> n, ino |-> i]
<1> DEFINE counted == Unlinked(i)
<1> DEFINE clear == ClearBlocks(counted, i)
<1> DEFINE removed == RemoveDirEntry(clear, p, n)
<1> DEFINE l == (fs.inode[i].links + LinkMod - 1) % LinkMod
<1> DEFINE m == [fs.inode[i] EXCEPT !.links = l, !.blocks = <<>>]
<1>1. /\ Good(fs) /\ cwd \in Rooted(fs) /\ fs \in FS /\ Linked(fs) /\ ROOT_INODE \in Live(fs) /\ cwd \in Live(fs)
      /\ p \in Live(fs) /\ p \in Ino /\ fs.inode \in [Ino -> Inode] /\ fs.table \in [Ino -> Inode]
      /\ fs.inode[i] \in Inode /\ fs.inode[i].links \in Nat
  <2>1. Good(fs) /\ cwd \in Rooted(fs) BY DEF NameInv
  <2>2. fs \in FS BY <2>1, GoodParts
  <2>3. fs.inode[i].links \in 0..LinkMod-1 BY <2>2, Parts
  <2> QED BY <2>1, <2>2, <2>3, RootedFacts, GoodParts, Parts, Rounding
<1>2. i \notin {ROOT_INODE, cwd, p} /\ i \notin Live(fs) BY <1>1 DEF Live
<1>3. ~Strays(fs, i) /\ ~WrongEntry(fs, p, n, i) /\ (fs.inode[i].mode = "lnk" => fs.inode[i].links = 1)
  BY DEF UnlinkHarm
<1>4. l \in 0..LinkMod-1 /\ (fs.inode[i].links > 0 => l = fs.inode[i].links - 1)
  <2>1. fs.inode[i].links \in 0..LinkMod-1 BY <1>1, Parts
  <2>2. fs.inode[i].links > 0 => fs.inode[i].links \in 1..LinkMod-1 BY <1>1, <2>1, Rounding
  <2>3. fs.inode[i].links + LinkMod - 1 \in Nat BY <1>1, Rounding
  <2>4. l \in 0..LinkMod-1 BY <2>3, Rounding
  <2> QED BY <2>2, <2>4, Rounding
<1> HIDE DEF l
<1>5. /\ m \in Inode /\ m.mode = fs.inode[i].mode /\ m.blocks = <<>> /\ m.links = l
  <2>1. <<>> \in Seq(Block \cup {Beyond}) OBVIOUS
  <2> QED BY <1>1, <1>4, <2>1 DEF Inode
<1>6. clear \in FS /\ GivesUp(clear, i, m) /\ clear.table = fs.table
      /\ clear.imap = IF fs.inode[i].mode = "lnk" THEN fs.imap \ {i} ELSE fs.imap
  <2> DEFINE x == [fs.inode[i] EXCEPT !.links = l]
  <2>1. /\ counted \in FS /\ counted.imap = (IF fs.inode[i].mode = "lnk" THEN fs.imap \ {i} ELSE fs.imap)
        /\ counted.bmap = fs.bmap /\ counted.data = fs.data /\ counted.table = fs.table
        /\ counted.inode = [fs.inode EXCEPT ![i] = x]
    BY <1>1, UnlinkedParts DEF l
  <2> HIDE DEF counted
  <2>2. x.blocks = fs.inode[i].blocks /\ [x EXCEPT !.blocks = <<>>] = m BY <1>1 DEF Inode
  <2> HIDE DEF x, m
  <2>3. counted.inode[i] = x BY <1>1, <2>1
  <2>4. Freed(counted, i) = Freed(fs, i) BY <2>2, <2>3 DEF Freed
  <2>5. /\ clear \in FS /\ clear.imap = counted.imap /\ clear.bmap = counted.bmap \ Freed(counted, i)
        /\ clear.table = counted.table
        /\ clear.inode = [counted.inode EXCEPT ![i] = [counted.inode[i] EXCEPT !.blocks = <<>>]]
        /\ clear.data = [b \in Block |-> IF b \in Freed(counted, i) THEN <<>> ELSE counted.data[b]]
    BY <2>1, ClearedParts
  <2> HIDE DEF clear
  <2>6. clear.inode = [fs.inode EXCEPT ![i] = m] BY <1>1, <2>1, <2>2, <2>3, <2>5
  <2> QED BY <2>1, <2>4, <2>5, <2>6 DEF GivesUp
<1> HIDE DEF clear, m
<1>7. removed \in FS /\ \E v \in FS : Good(v) /\ Loses(fs, v, p, e) /\ LostFirst(v, removed, clear, i)
  <2>1. PICK g : Dotted(fs, p, g) BY <1>1, RootedDotted
  <2>2. i \in Ino \ {p} /\ fs.inode[i].mode # "none" BY <1>2
  <2> QED BY <1>1, <1>3, <1>6, <2>1, <2>2, RemovalGood
<1>8. PICK v \in FS : Good(v) /\ Loses(fs, v, p, e) /\ LostFirst(v, removed, clear, i) BY <1>7
<1> HIDE DEF removed, e
<1>9. e.ino = i BY DEF e
<1>10. Off(fs, v, {}) /\ Live(v) = Live(fs) BY <1>8, <1>9 DEF Loses
<1>11. FileOff(v, i) BY <1>2, <1>8, <1>10 DEF FileOff, Off
<1>12. /\ removed.imap = clear.imap /\ removed.bmap = fs.bmap \ Freed(fs, i) /\ removed.table = fs.table
       /\ removed.inode = [fs.inode EXCEPT ![i] = m] /\ removed.inode[i] = m /\ removed.inode[p] = fs.inode[p]
       /\ v.imap = fs.imap /\ v.bmap = fs.bmap /\ v.inode = fs.inode /\ v.table = fs.table
       /\ \A c \in Block : removed.data[c] = IF c \in Freed(fs, i) THEN <<>> ELSE v.data[c]
  BY <1>1, <1>2, <1>6, <1>8 DEF LostFirst, GivesUp
<1> DEFINE w == Put(removed, i)
<1>13. /\ w \in FS /\ w.imap = removed.imap /\ w.bmap = removed.bmap /\ w.data = removed.data
       /\ w.inode = [fs.inode EXCEPT ![i] = m] /\ w.table = [fs.table EXCEPT ![i] = m]
  <2>1. /\ w \in FS /\ w.imap = removed.imap /\ w.bmap = removed.bmap /\ w.data = removed.data
        /\ w.inode = removed.inode
        /\ w.table = IF i \in {ROOT_INODE, cwd} THEN removed.table ELSE [removed.table EXCEPT ![i] = removed.inode[i]]
    BY <1>7, PutParts
  <2> HIDE DEF w
  <2> QED BY <1>2, <1>12, <2>1
<1> HIDE DEF w
<1>14. Replaces(v, w, i, m)
  <2>1. Freed(v, i) = Freed(fs, i) /\ \A k : Freed(v, k) = Freed(fs, k) /\ (Owner(v, k) <=> Owner(fs, k))
    BY <1>12 DEF Freed, Owner
  <2>2. \A k \in Ino \ {i} : Owner(v, k) => Freed(v, i) \cap Freed(v, k) = {}
    <3>1. fs.inode[i].mode # "none" OBVIOUS
    <3> QED BY <1>1, <1>3, <2>1, <3>1, Alone
  <2>3. Freed(w, i) = {} /\ Once(m.blocks)
    <3>1. ToSet(<<>>) = {} BY DEF ToSet
    <3>2. w.inode[i].blocks = <<>> BY <1>1, <1>5, <1>13
    <3> QED BY <1>5, <3>1, <3>2 DEF Freed, Once
  <2>4. \A j \in Ino \ {i} : j \in w.imap <=> j \in v.imap BY <1>6, <1>12, <1>13
  <2>5. /\ Cardinality(NamesAt(fs, i)) \in Nat /\ Cardinality(NamesAt(v, i)) \in Nat
        /\ Cardinality(NamesAt(fs, i)) = Cardinality(NamesAt(v, i)) + 1 /\ IsFiniteSet(NamesAt(fs, i))
    BY <1>1, <1>8, <1>9, RemovedNames
  <2>6. Cardinality(NamesAt(fs, i)) <= fs.inode[i].links
    <3>1. fs.inode[i].mode # "dir" OBVIOUS
    <3> QED BY <1>1, <3>1 DEF Linked
  <2>7. Cardinality(NamesAt(v, i)) <= l /\ l = fs.inode[i].links - 1 BY <1>1, <1>4, <2>5, <2>6
  <2>8. CASE fs.inode[i].mode = "lnk"
    <3>1. Cardinality(NamesAt(v, i)) = 0 BY <1>3, <2>5, <2>7, <2>8
    <3>2. IsFiniteSet(NamesAt(v, i))
      <4>1. NamesAt(v, i) \subseteq Ino \X Name BY <1>8, GoodParts DEF NamesAt
      <4> QED BY <4>1, FiniteSets, FS_Subset
    <3>3. NamesAt(v, i) = {} BY <3>1, <3>2, FS_EmptySet
    <3>4. Unnamed(v, i) BY <1>8, <3>3, NowhereUnnamed
    <3> QED BY <1>5, <1>12, <1>13, <2>1, <2>2, <2>3, <2>4, <2>8, <3>4 DEF Replaces
  <2>9. CASE fs.inode[i].mode = "reg"
    <3>1. w.imap = fs.imap /\ w.inode[i] = m BY <1>1, <1>6, <1>12, <1>13, <2>9
    <3>2. IsFile(v, i) /\ IsFile(w, i) BY <1>5, <1>12, <2>9, <3>1 DEF IsFile
    <3> QED BY <1>5, <1>12, <1>13, <2>1, <2>2, <2>3, <2>4, <2>7, <3>2 DEF Replaces
  <2> QED BY <2>8, <2>9
<1>15. FileOff(w, i)
  <2>1. i \in Ino \ {ROOT_INODE} /\ m.mode # "dir" BY <1>2, <1>5
  <2> QED BY <1>5, <1>8, <1>11, <1>13, <1>14, <2>1, FileReplaced
<1>16. Put(Put(removed, p), i) = Put(w, p)
  <2> DEFINE a == Put(removed, p)
  <2>1. /\ a \in FS /\ a.imap = removed.imap /\ a.bmap = removed.bmap /\ a.data = removed.data /\ a.inode = removed.inode
        /\ a.table = IF p \in {ROOT_INODE, cwd} THEN removed.table ELSE [removed.table EXCEPT ![p] = removed.inode[p]]
    BY ZenonT(30), <1>1, <1>7, PutParts
  <2> HIDE DEF a
  <2>2. /\ Put(a, i) \in FS /\ Put(a, i).imap = a.imap /\ Put(a, i).bmap = a.bmap /\ Put(a, i).data = a.data
        /\ Put(a, i).inode = a.inode /\ Put(a, i).table = [a.table EXCEPT ![i] = a.inode[i]]
    BY ZenonT(30), <1>2, <2>1, PutParts
  <2>3. /\ Put(w, p) \in FS /\ Put(w, p).imap = w.imap /\ Put(w, p).bmap = w.bmap /\ Put(w, p).data = w.data
        /\ Put(w, p).inode = w.inode
        /\ Put(w, p).table = IF p \in {ROOT_INODE, cwd} THEN w.table ELSE [w.table EXCEPT ![p] = w.inode[p]]
    BY <1>1, <1>13, PutParts
  <2>4. w.inode[p] = fs.inode[p] BY <1>1, <1>2, <1>13
  <2>5. Put(a, i).table = Put(w, p).table
    BY <1>1, <1>2, <1>12, <1>13, <2>1, <2>2, <2>3, <2>4
  <2>6. /\ Put(a, i).imap = Put(w, p).imap /\ Put(a, i).bmap = Put(w, p).bmap
        /\ Put(a, i).data = Put(w, p).data /\ Put(a, i).inode = Put(w, p).inode
    BY <1>12, <1>13, <2>1, <2>2, <2>3
  <2>7. Put(a, i) = Put(w, p) BY <2>2, <2>3, <2>5, <2>6, SameFS
  <2> QED BY <2>7 DEF a
<1>17. Fine(Put(w, p))
  <2>1. FileOff(Put(w, p), i) BY <1>1, <1>15, FileOffPut
  <2> QED BY <2>1, FileOffFine
<1> QED BY <1>16, <1>17 DEF removed, clear


(* unlink.                                                                   *)
LEMMA UnlinkKeeps ==
  ASSUME NameInv, NEW p \in Ino, NEW n \in Name, Unlink(p, n)
  PROVE  NameInv'
<1> DEFINE i == Lookup(fs, p, n)
<1> DEFINE counted == Unlinked(i)
<1> DEFINE clear == ClearBlocks(counted, i)
<1> DEFINE removed == RemoveDirEntry(clear, p, n)
<1> DEFINE r == Put(removed, p)
<1> DEFINE last == Put(r, i)
<1> DEFINE ss == <<counted, clear, removed, r, last>>
<1> DEFINE h == UnlinkHarm(p, n, i)
<1>1. Going /\ i # NoIno /\ ~IsDir(fs, i) /\ p \in Reached BY DEF Unlink, RemovableFile
<1>2. \/ Crashes(fs, i) /\ Restart(counted, {"cut"})
      \/ Hangs(fs, p, n) /\ Restart(removed, h \cup {"hang"})
      \/ ~Hangs(fs, p, n) /\ Run(ss, h, {"cut"})
  BY DEF Unlink
<1>3. Good(fs) /\ cwd \in Rooted(fs) BY <1>1 DEF NameInv
<1>4. p \in Rooted(fs) /\ p \in Live(fs) /\ fs \in FS BY <1>1, <1>3, ReachedRooted, RootedFacts, GoodParts
<1>5. [name |-> n, ino |-> i] \in Entries(fs, p) BY <1>1, <1>3, <1>4, LookupFacts
<1>6. h \in SUBSET Fatal BY DEF UnlinkHarm, Fatal
<1> HIDE DEF i
<1>7. i \in Named
  <2>1. i \in Children(fs, p) BY <1>5 DEF Children
  <2> QED BY <1>1, <2>1 DEF Named
<1>8. i \in Ino /\ i \in fs.imap /\ fs.inode[i].mode \in {"reg", "lnk"} /\ i # p
  <2>1. IsFile(fs, i) /\ i \in Ino BY <1>1, <1>3, <1>7, NamedFacts
  <2> QED BY <1>4, <2>1 DEF IsFile, Live
<1>9. counted \in FS /\ counted.inode[p] = fs.inode[p]
  <2>1. /\ counted \in FS
        /\ counted.inode = [fs.inode EXCEPT ![i] =
             [fs.inode[i] EXCEPT !.links = (fs.inode[i].links + LinkMod - 1) % LinkMod]]
    BY <1>4, <1>8, UnlinkedParts
  <2> HIDE DEF counted
  <2>2. fs.inode \in [Ino -> Inode] BY <1>4, Parts
  <2> QED BY <1>8, <2>1, <2>2
<1> HIDE DEF counted
<1>10. clear \in FS /\ clear.inode[p] = fs.inode[p]
  <2>1. /\ clear \in FS
        /\ clear.inode = [counted.inode EXCEPT ![i] = [counted.inode[i] EXCEPT !.blocks = <<>>]]
    BY <1>8, <1>9, ClearedParts
  <2> HIDE DEF clear
  <2>2. counted.inode \in [Ino -> Inode] BY <1>9, Parts
  <2> QED BY <1>8, <1>9, <2>1, <2>2
<1> HIDE DEF clear
<1>11. removed \in FS
  <2>1. Freed(fs, p) \subseteq Block BY <1>3, <1>4, GoodParts
  <2>2. Freed(clear, p) \subseteq Block BY <1>10, <2>1 DEF Freed
  <2> QED BY <1>10, <2>2, RemovedFS
<1> HIDE DEF removed
<1>12. r \in FS BY <1>11, PutParts
<1> HIDE DEF r
<1>13. last \in FS BY <1>8, <1>12, PutParts
<1> HIDE DEF h, last
<1>14. CASE Crashes(fs, i) /\ Restart(counted, {"cut"})
  <2>1. {"cut"} \in SUBSET Harm /\ {"cut"} \cap Fatal # {} BY DEF Harm, Fatal
  <2> QED BY <1>1, <1>9, <1>14, <2>1, RestartKeeps
<1>15. CASE Hangs(fs, p, n) /\ Restart(removed, h \cup {"hang"})
  <2>1. h \cup {"hang"} \in SUBSET Harm /\ (h \cup {"hang"}) \cap Fatal # {} BY <1>6 DEF Harm, Fatal
  <2> QED BY <1>1, <1>11, <1>15, <2>1, RestartKeeps
<1>16. CASE ~Hangs(fs, p, n) /\ Run(ss, h, {"cut"})
  <2>1. ss \in Seq(FS) /\ ss # <<>> /\ Last(ss) = last
    BY <1>9, <1>10, <1>11, <1>12, <1>13, InARow
  <2>2. h = {} => Fine(last)
    BY <1>1, <1>4, <1>5, <1>8, <1>16, UnlinkFine DEF h, last, r, removed, clear, counted
  <2> HIDE DEF ss
  <2> QED BY <1>1, <1>6, <1>16, <2>1, <2>2, FreeingKeeps
<1> QED BY <1>2, <1>14, <1>15, <1>16
-----------------------------------------------------------------------------
(* rmdir: a directory with none in it goes, and its name.  The others are    *)
(* led to as before.                                                         *)
LEMMA RootedShrinks ==
  ASSUME NEW s, Good(s), NEW r, Good(r), NEW i, i # ROOT_INODE, Under(s, i) = {},
         \A x \in Rooted(s) \ {i} : Under(s, x) \subseteq Under(r, x) \cup {i}
  PROVE  Rooted(s) \ {i} \subseteq Rooted(r)
<1>1. Rooted(s) \subseteq Live(s) /\ Live(s) \subseteq Ino /\ ROOT_INODE \in Rooted(s) /\ Closed(s, Rooted(s))
  BY RootedFacts, GoodParts
<1> SUFFICES ASSUME NEW d \in Rooted(s) \ {i}, NEW T \in SUBSET Ino, ROOT_INODE \in T, Closed(r, T) PROVE d \in T
  BY <1>1 DEF Rooted
<1> DEFINE V == (T \cup {i}) \cap Rooted(s)
<1>2. Closed(s, V)
  <2> SUFFICES ASSUME NEW x \in V, NEW y \in Under(s, x) PROVE y \in V BY DEF Closed
  <2>1. x # i /\ x \in Rooted(s) /\ x \in T OBVIOUS
  <2>2. y \in Rooted(s) BY <1>1, <2>1 DEF Closed
  <2>3. y \in Under(r, x) \cup {i} BY <2>1
  <2>4. y \in T \cup {i} BY <2>1, <2>3 DEF Closed
  <2> QED BY <2>2, <2>4
<1>3. V \in SUBSET Ino /\ ROOT_INODE \in V BY <1>1
<1>4. d \in V BY <1>2, <1>3 DEF Rooted
<1> QED BY <1>4

(* The directory i has lost its blocks, its mark and its name: this is v,    *)
(* then removed; its parent has a link less: this is r.                      *)
LEMMA RmdirFine ==
  ASSUME NameInv, NEW p \in Rooted(fs), NEW n \in Name, NEW i \in Rooted(fs) \ {ROOT_INODE, cwd, p},
         NEW e, e = [name |-> n, ino |-> i], e \in Entries(fs, p), Subdirs(fs, i) = {},
         NEW v \in FS, Good(v), Loses(fs, v, p, e), v.inode[p].links = fs.inode[p].links,
         NEW removed \in FS, Good(removed), Off(v, removed, {i}), i \notin Live(removed),
         NEW l, l = (fs.inode[p].links + LinkMod - 1) % LinkMod,
         NEW r \in FS, Linking(removed, r, p, l), Going
  PROVE  Good(r) /\ Fine(r)
<1>1. /\ Good(fs) /\ cwd \in Rooted(fs) /\ (harm = {} => Grown(fs))
      /\ Rooted(fs) \subseteq Live(fs) /\ Live(fs) \subseteq Ino /\ ROOT_INODE \in Rooted(fs)
  <2>1. Good(fs) /\ cwd \in Rooted(fs) /\ (harm = {} => Grown(fs)) BY DEF NameInv
  <2> QED BY <2>1, RootedFacts, GoodParts
<1>2. p \in Live(fs) /\ p \in Ino /\ i \in Live(fs) /\ i \in Ino /\ i # p /\ e.ino = i /\ e.name = n BY <1>1
<1>3. fs.inode[p].links \in 0..LinkMod-1 /\ fs \in FS BY <1>1, <1>2, GoodParts, Parts
<1>4. l \in 0..LinkMod-1 /\ (fs.inode[p].links \in 1..LinkMod-1 => l = fs.inode[p].links - 1)
  <2>1. fs.inode[p].links + LinkMod - 1 \in Nat BY <1>3, Rounding
  <2> QED BY <2>1, Rounding
<1>5. /\ Live(v) = Live(fs) /\ Subdirs(v, p) = Subdirs(fs, p) \ {e} /\ e \in Subdirs(fs, p)
      /\ \A d \in Live(fs) \ {p} : Subdirs(v, d) = Subdirs(fs, d) /\ v.inode[d].links = fs.inode[d].links
  <2>1. IsDir(fs, i) BY <1>2, Sizes DEF IsDir, Live
  <2> QED BY <1>1, <1>2, <2>1 DEF Loses, Off, Subdirs
<1>6. /\ Live(removed) = Live(fs) \ {i} /\ Subdirs(removed, p) = Subdirs(fs, p) \ {e}
      /\ removed.inode[p].links = fs.inode[p].links
      /\ \A d \in Live(fs) \ {p, i} : /\ Subdirs(removed, d) = Subdirs(fs, d)
                                      /\ removed.inode[d].links = fs.inode[d].links
  <2>1. Live(removed) \subseteq Ino BY GoodParts
  <2> QED BY <1>1, <1>2, <1>5, <2>1 DEF Off
<1>7. Good(removed) /\ p \in Live(removed) BY <1>2, <1>6
<1>8. Good(r) /\ Off(removed, r, {p}) /\ r.inode[p].links = l /\ SameNames(removed, r)
  BY <1>4, <1>7, LinksGood
<1>9. \A d \in Live(removed) : d \in Live(r) /\ Subdirs(r, d) = Subdirs(removed, d) BY <1>8 DEF SameNames
<1>10. Live(r) = Live(fs) \ {i}
  <2>1. Live(r) \subseteq Ino BY <1>8, GoodParts
  <2> QED BY <1>2, <1>6, <1>8, <1>9, <2>1 DEF Off
<1>11. Rooted(fs) \ {i} \subseteq Rooted(r)
  <2>1. Under(fs, i) = {} BY DEF Under
  <2>2. ASSUME NEW x \in Rooted(fs) \ {i} PROVE Under(fs, x) \subseteq Under(r, x) \cup {i}
    <3>1. x \in Live(fs) /\ x \in Live(removed) /\ x \in Live(r) BY <1>1, <1>6, <1>10
    <3>2. Subdirs(fs, x) \subseteq Subdirs(r, x) \cup {e} BY <1>6, <1>9, <3>1
    <3> QED BY <1>2, <3>1, <3>2 DEF Under
  <2> QED BY <1>1, <1>8, <2>1, <2>2, RootedShrinks
<1>12. ASSUME harm = {} PROVE Grown(r)
  <2>1. Grown(fs) /\ Live(fs) \subseteq Rooted(fs) BY <1>1, <1>12 DEF Grown
  <2>2. Live(r) \subseteq Rooted(r) BY <1>10, <1>11, <2>1
  <2>3. ASSUME NEW d \in Live(r) PROVE r.inode[d].links = 2 + Cardinality(Subdirs(r, d))
    <3>1. d \in Live(fs) \ {i} /\ d \in Live(removed) /\ d \in Ino BY <1>1, <1>6, <1>10
    <3>2. fs.inode[d].links = 2 + Cardinality(Subdirs(fs, d)) BY <2>1, <3>1 DEF Grown
    <3>3. CASE d # p
      <4>1. r.inode[d].links = removed.inode[d].links BY <1>8, <3>1, <3>3 DEF Off
      <4> QED BY <1>6, <1>9, <3>1, <3>2, <3>3, <4>1
    <3>4. CASE d = p
      <4>1. IsFiniteSet(Subdirs(fs, p)) /\ Cardinality(Subdirs(fs, p)) \in Nat BY <1>1, <1>2, SubdirsFit
      <4>2. Cardinality(Subdirs(fs, p) \ {e}) = Cardinality(Subdirs(fs, p)) - 1
        <5>1. ASSUME NEW S, IsFiniteSet(S), NEW x \in S PROVE Cardinality(S \ {x}) = Cardinality(S) - 1
          BY <5>1, FS_RemoveElement
        <5> HIDE DEF Subdirs
        <5> QED BY <1>5, <4>1, <5>1
      <4>3. fs.inode[p].links \in 1..LinkMod-1 BY <1>3, <3>2, <3>4, <4>1, Rounding
      <4>4. Subdirs(r, p) = Subdirs(fs, p) \ {e} BY <1>6, <1>9, <3>1, <3>4
      <4> QED BY <1>4, <1>8, <3>2, <3>4, <4>1, <4>2, <4>3, <4>4
    <3> QED BY <3>3, <3>4
  <2> QED BY <2>2, <2>3 DEF Grown
<1>13. cwd \in Rooted(r) BY <1>1, <1>11
<1> QED BY <1>8, <1>12, <1>13 DEF Fine

(* rmdir.  Its parent, the directory its .. says, is another directory; and  *)
(* when it is no name that is removed, it is `.' of the parent.              *)
LEMMA RmdirParent ==
  ASSUME Good(fs), NEW i \in Rooted(fs) \ {ROOT_INODE}
  PROVE  /\ ParentOf(i) \in Rooted(fs) \ {i} /\ Dotted(fs, i, ParentOf(i))
         /\ \A p : Dotted(fs, i, p) => ParentOf(i) = p
         /\ \A n \in {".", ".."} : WrongEntry(fs, ParentOf(i), n, i)
<1> DEFINE q == ParentOf(i)
<1>1. PICK p \in Rooted(fs) : Dotted(fs, i, p) /\ \E e \in Subdirs(fs, p) : e.ino = i BY RootedDotted
<1>2. \A g : Dotted(fs, i, g) => q = g BY DEF Dotted, ParentOf
<1>3. q = p BY <1>1, <1>2
<1> HIDE DEF q
<1>4. p # i
  <2>1. PICK e \in Subdirs(fs, p) : e.ino = i BY <1>1
  <2>2. e \in NamesIn(fs, p) BY DEF Subdirs
  <2>3. Rooted(fs) \subseteq Live(fs) BY RootedFacts
  <2>4. Leading(fs, p, e) BY <2>2, <2>3, GoodParts
  <2> QED BY <2>1, <2>4 DEF Leading
<1>5. ASSUME NEW n \in {".", ".."} PROVE WrongEntry(fs, p, n, i)
  <2>1. "." \in Beginning(n)
    <3>1. "." \in AllName BY DEF AllName
    <3> QED BY <3>1 DEF Beginning
  <2>2. PICK g : Dotted(fs, p, g) BY RootedDotted
  <2>3. Rooted(fs) \subseteq Live(fs) BY RootedFacts
  <2>4. fs \in FS /\ p \in Ino /\ Freed(fs, p) \subseteq Block BY <2>3, GoodParts
  <2>5. Hit(fs, p, n) # <<>> /\ EntryAt(fs, Hit(fs, p, n)) = [name |-> ".", ino |-> p]
    BY <2>1, <2>2, <2>4, PlaceFirst DEF Hit
  <2>6. [name |-> ".", ino |-> p] # [name |-> n, ino |-> i]
    <3>1. [name |-> ".", ino |-> p].ino = p /\ [name |-> n, ino |-> i].ino = i OBVIOUS
    <3> QED BY <1>4, <3>1
  <2> QED BY <2>5, <2>6 DEF WrongEntry
<1> QED BY <1>1, <1>2, <1>3, <1>4, <1>5 DEF q

(* What its writes lead through.                                             *)
LEMMA RmdirParts ==
  ASSUME fs \in FS, cwd \in Ino, NEW i \in Ino \ {ROOT_INODE, cwd}
  PROVE  LET clear == ClearBlocks(fs, i)
             unmarked == [clear EXCEPT !.imap = clear.imap \ {i}]
             put == Put(unmarked, i)
             m == [fs.inode[i] EXCEPT !.blocks = <<>>]
         IN /\ clear \in FS /\ unmarked \in FS /\ put \in FS
            /\ GivesUp(put, i, m) /\ put.table = [fs.table EXCEPT ![i] = m] /\ put.imap = fs.imap \ {i}
<1> DEFINE clear == ClearBlocks(fs, i)
<1> DEFINE unmarked == [clear EXCEPT !.imap = clear.imap \ {i}]
<1> DEFINE put == Put(unmarked, i)
<1> DEFINE m == [fs.inode[i] EXCEPT !.blocks = <<>>]
<1>1. fs.inode \in [Ino -> Inode] /\ fs.table \in [Ino -> Inode] /\ fs.imap \subseteq Ino BY Parts
<1>2. /\ clear \in FS /\ clear.imap = fs.imap /\ clear.bmap = fs.bmap \ Freed(fs, i) /\ clear.table = fs.table
      /\ clear.inode = [fs.inode EXCEPT ![i] = m]
      /\ clear.data = [b \in Block |-> IF b \in Freed(fs, i) THEN <<>> ELSE fs.data[b]]
  BY ClearedParts
<1> HIDE DEF clear, m
<1> DEFINE ni == clear.imap \ {i}
<1>3. ni \subseteq Ino /\ ni = fs.imap \ {i} BY <1>1, <1>2
<1>4. /\ unmarked \in FS /\ unmarked.imap = fs.imap \ {i} /\ unmarked.bmap = clear.bmap
      /\ unmarked.inode = clear.inode /\ unmarked.table = clear.table /\ unmarked.data = clear.data
  <2>1. unmarked = [clear EXCEPT !.imap = ni] OBVIOUS
  <2> HIDE DEF ni, unmarked
  <2> QED BY <1>2, <1>3, <2>1 DEF FS
<1> HIDE DEF unmarked
<1>5. /\ put \in FS /\ put.imap = unmarked.imap /\ put.bmap = unmarked.bmap
      /\ put.data = unmarked.data /\ put.inode = unmarked.inode
      /\ put.table = [unmarked.table EXCEPT ![i] = unmarked.inode[i]]
  BY <1>4, PutParts
<1> HIDE DEF put
<1>6. unmarked.inode[i] = m BY <1>1, <1>2, <1>4
<1>7. GivesUp(put, i, m) BY <1>2, <1>4, <1>5, <1>6 DEF GivesUp
<1>8. put.table = [fs.table EXCEPT ![i] = m] /\ put.imap = fs.imap \ {i} BY <1>2, <1>4, <1>5, <1>6
<1> QED BY <1>2, <1>4, <1>5, <1>7, <1>8 DEF put, unmarked, clear, m

(* The directory removed, when it is the right entry.                        *)
LEMMA RmdirGood ==
  ASSUME NameInv, Going, NEW p \in Rooted(fs), NEW n \in Name, NEW i \in Rooted(fs) \ {ROOT_INODE, cwd, p},
         [name |-> n, ino |-> i] \in Entries(fs, p), Subdirs(fs, i) = {},
         ~WrongEntry(fs, p, n, i), ~Hangs(fs, p, n),
         NEW s \in FS, NEW m, m = [fs.inode[i] EXCEPT !.blocks = <<>>], GivesUp(s, i, m),
         s.table = [fs.table EXCEPT ![i] = m], s.imap = fs.imap \ {i},
         NEW l, l = (fs.inode[p].links + LinkMod - 1) % LinkMod,
         NEW r \in FS, Linking(RemoveDirEntry(s, p, n), r, p, l)
  PROVE  Good(r) /\ Fine(r)
<1> DEFINE removed == RemoveDirEntry(s, p, n)
<1> DEFINE e == [name |-> n, ino |-> i]
<1>1. /\ Good(fs) /\ fs \in FS /\ p \in Live(fs) /\ i \in Live(fs) /\ p \in Ino /\ i \in Ino
      /\ fs.inode \in [Ino -> Inode] /\ fs.table \in [Ino -> Inode] /\ fs.inode[i] \in Inode
      /\ fs.inode[i].mode = "dir" /\ i # p
  <2>1. Good(fs) BY DEF NameInv
  <2>2. fs \in FS /\ p \in Live(fs) /\ i \in Live(fs) /\ p \in Ino /\ i \in Ino BY <2>1, RootedFacts, GoodParts
  <2> QED BY <2>1, <2>2, Parts DEF Live
<1>2. m \in Inode /\ m.mode = "dir" /\ m.blocks = <<>> /\ m.links = fs.inode[i].links
  <2>1. <<>> \in Seq(Block \cup {Beyond}) OBVIOUS
  <2> QED BY <1>1, <2>1 DEF Inode
<1>3. ~Strays(fs, i) /\ fs.inode[i].mode # "none" /\ IsDir(fs, i) BY <1>1, Sizes DEF Strays, IsDir
<1>4. removed \in FS /\ \E v \in FS : Good(v) /\ Loses(fs, v, p, e) /\ LostFirst(v, removed, s, i)
  <2>1. PICK g : Dotted(fs, p, g) BY <1>1, RootedDotted
  <2>2. i \in Ino \ {p} BY <1>1
  <2> QED BY <1>1, <1>3, <2>1, <2>2, RemovalGood
<1>5. PICK v \in FS : Good(v) /\ Loses(fs, v, p, e) /\ LostFirst(v, removed, s, i) BY <1>4
<1> HIDE DEF removed, e
<1>6. e = [name |-> n, ino |-> i] /\ e.ino = i BY DEF e
<1>7. /\ removed.imap = fs.imap \ {i} /\ removed.bmap = fs.bmap \ Freed(fs, i)
      /\ removed.table = [fs.table EXCEPT ![i] = m] /\ removed.inode = [fs.inode EXCEPT ![i] = m]
      /\ v.imap = fs.imap /\ v.bmap = fs.bmap /\ v.inode = fs.inode /\ v.table = fs.table
      /\ \A c \in Block : removed.data[c] = IF c \in Freed(fs, i) THEN <<>> ELSE v.data[c]
  BY <1>5 DEF LostFirst, GivesUp
<1>8. Unnamed(v, i)
  <2>1. IsDir(fs, e.ino) BY <1>3, <1>6
  <2>2. Unnamed(v, e.ino) BY <1>1, <1>5, <2>1, RemovedNames
  <2> QED BY <1>6, <2>2
<1>9. Replaces(v, removed, i, m)
  <2>1. Freed(v, i) = Freed(fs, i) /\ \A k : Freed(v, k) = Freed(fs, k) /\ (Owner(v, k) <=> Owner(fs, k))
    BY <1>7 DEF Freed, Owner
  <2>2. \A k \in Ino \ {i} : Owner(v, k) => Freed(v, i) \cap Freed(v, k) = {} BY <1>1, <1>3, <2>1, Alone
  <2>3. Freed(removed, i) = {} /\ Once(m.blocks)
    <3>1. ToSet(<<>>) = {} BY DEF ToSet
    <3>2. removed.inode[i].blocks = <<>> BY <1>1, <1>2, <1>7
    <3> QED BY <1>2, <3>1, <3>2 DEF Freed, Once
  <2>4. \A j \in Ino \ {i} : j \in removed.imap <=> j \in v.imap BY <1>7
  <2> QED BY <1>2, <1>7, <1>8, <2>1, <2>2, <2>3, <2>4 DEF Replaces
<1>10. Good(removed) /\ Off(v, removed, {i})
  <2>1. i \in Ino \ {ROOT_INODE} BY <1>1
  <2> QED BY <1>2, <1>4, <1>5, <1>9, <2>1, Replaced
<1>11. i \notin Live(removed) BY <1>7 DEF Live
<1>12. v.inode[p].links = fs.inode[p].links BY <1>7
<1>13. e \in Entries(fs, p) /\ Linking(removed, r, p, l) BY DEF e, removed
<1> QED BY <1>4, <1>5, <1>6, <1>10, <1>11, <1>12, <1>13, RmdirFine

(* rmdir as a command.                                                       *)
LEMMA RmdirKeeps ==
  ASSUME NameInv, NEW p \in Ino, NEW n \in AllName, Rmdir(p, n)
  PROVE  NameInv'
<1> DEFINE i == Lookup(fs, p, n)
<1> DEFINE q == ParentOf(i)
<1> DEFINE clear == ClearBlocks(fs, i)
<1> DEFINE unmarked == [clear EXCEPT !.imap = clear.imap \ {i}]
<1> DEFINE put == Put(unmarked, i)
<1> DEFINE removed == RemoveDirEntry(put, q, n)
<1> DEFINE l == (removed.inode[q].links + LinkMod - 1) % LinkMod
<1> DEFINE counted == [removed EXCEPT !.inode[q].links = l]
<1> DEFINE last == Put(counted, q)
<1> DEFINE ss == <<clear, unmarked, put, removed, last>>
<1> DEFINE h == (IF WrongEntry(put, q, n, i) THEN {"entry"} ELSE {})
                  \cup (IF Subdirs(fs, i) # {} /\ harm # {} THEN {"orphan"} ELSE {})
<1>1. Going /\ IsDir(fs, i) /\ ~InUse(i) /\ FewLinks(i) /\ p \in Reached BY DEF Rmdir
<1>2. \/ Hangs(put, q, n) /\ Restart(removed, h \cup {"hang"})
      \/ ~Hangs(put, q, n) /\ Run(ss, h, {"cut"})
  BY DEF Rmdir
<1>3. Good(fs) /\ cwd \in Rooted(fs) /\ (harm = {} => Grown(fs)) BY <1>1 DEF NameInv
<1>4. /\ p \in Rooted(fs) /\ p \in Live(fs) /\ fs \in FS /\ cwd \in Ino
      /\ Rooted(fs) \subseteq Live(fs) /\ Live(fs) \subseteq Ino
  BY <1>1, <1>3, ReachedRooted, RootedFacts, GoodParts DEF NameInv
<1>5. [name |-> n, ino |-> i] \in Entries(fs, p) BY <1>1, <1>3, <1>4, LookupFacts DEF IsDir
<1>6. h \in SUBSET Fatal BY DEF Fatal
<1> HIDE DEF i
<1>7. i \in Rooted(fs) \ {ROOT_INODE, cwd} /\ i \in Live(fs) /\ i \in Ino
  <2>1. i \in Children(fs, p) BY <1>5 DEF Children
  <2>2. i \in Named BY <1>1, <2>1 DEF Named
  <2>3. i \in Rooted(fs) BY <1>1, <1>3, <2>2, NamedFacts
  <2> QED BY <1>1, <1>4, <2>3 DEF InUse
<1>8. /\ q \in Rooted(fs) \ {i} /\ q \in Live(fs) /\ q \in Ino /\ \A g : Dotted(fs, i, g) => q = g
      /\ n \in {".", ".."} => WrongEntry(fs, q, n, i)
  <2> HIDE DEF q
  <2>1. i \in Rooted(fs) \ {ROOT_INODE} BY <1>7
  <2> QED BY <1>3, <1>4, <2>1, RmdirParent DEF q
<1> HIDE DEF q
<1> DEFINE m == [fs.inode[i] EXCEPT !.blocks = <<>>]
<1>9. /\ clear \in FS /\ unmarked \in FS /\ put \in FS
      /\ GivesUp(put, i, m) /\ put.table = [fs.table EXCEPT ![i] = m] /\ put.imap = fs.imap \ {i}
  <2>1. i \in Ino \ {ROOT_INODE, cwd} BY <1>7
  <2> QED BY <1>4, <2>1, RmdirParts
<1> HIDE DEF put, unmarked, clear
<1>10. /\ Hangs(put, q, n) <=> Hangs(fs, q, n)
       /\ WrongEntry(put, q, n, i) <=> WrongEntry(fs, q, n, i)
       /\ Freed(put, q) = Freed(fs, q)
  <2>1. fs.inode[i].mode # "none" /\ ~Strays(fs, i) BY <1>7 DEF Live, Strays
  <2>2. i \in Ino \ {q} BY <1>7, <1>8
  <2> HIDE DEF m
  <2> QED BY <1>3, <1>8, <1>9, <2>1, <2>2, SameHit
<1>11. Freed(put, q) \subseteq Block BY <1>3, <1>8, <1>10, GoodParts
<1>12. removed \in FS BY <1>8, <1>9, <1>11, RemovedFS
<1>13. CASE Hangs(put, q, n) /\ Restart(removed, h \cup {"hang"})
  <2>1. h \cup {"hang"} \in SUBSET Harm /\ (h \cup {"hang"}) \cap Fatal # {} BY <1>6 DEF Harm, Fatal
  <2> HIDE DEF h, removed
  <2> QED BY <1>1, <1>12, <1>13, <2>1, RestartKeeps
<1>14. CASE ~Hangs(put, q, n) /\ Run(ss, h, {"cut"})
  <2>1. removed.inode = put.inode
    <3>1. CASE Hit(put, q, n) = <<>> BY <3>1 DEF RemoveDirEntry
    <3>2. CASE Hit(put, q, n) # <<>>
      <4>1. PICK b \in Freed(put, q) : \E k \in 1..Len(put.data[b]) :
              removed = [put EXCEPT !.data = [put.data EXCEPT ![b] = RemoveAt(put.data[b], k)]]
        BY <1>8, <1>9, <1>11, <1>14, <3>2, RemovedFS
      <4>2. PICK k \in 1..Len(put.data[b]) :
              removed = [put EXCEPT !.data = [put.data EXCEPT ![b] = RemoveAt(put.data[b], k)]]
        BY <4>1
      <4> DEFINE nd == [put.data EXCEPT ![b] = RemoveAt(put.data[b], k)]
      <4>3. removed = [put EXCEPT !.data = nd] BY <4>2
      <4> HIDE DEF nd, removed
      <4> QED BY <1>9, <4>3 DEF FS
    <3> QED BY <3>1, <3>2
  <2> HIDE DEF removed
  <2>2. removed.inode[q].links = fs.inode[q].links /\ fs.inode[q].links \in 0..LinkMod-1
    <3>1. fs.inode \in [Ino -> Inode] BY <1>4, Parts
    <3>2. put.inode[q] = fs.inode[q] BY <1>7, <1>8, <1>9, <3>1 DEF GivesUp
    <3> QED BY <1>4, <1>8, <2>1, <3>2, Parts
  <2>3. l = (fs.inode[q].links + LinkMod - 1) % LinkMod /\ l \in 0..LinkMod-1
    <3>1. fs.inode[q].links + LinkMod - 1 \in Nat BY <2>2, Rounding
    <3> QED BY <2>2, <3>1, Rounding
  <2> HIDE DEF l
  <2>4. counted \in FS /\ Linking(removed, counted, q, l) BY <1>8, <1>12, <2>3, LinksParts
  <2> HIDE DEF counted
  <2>5. last \in FS BY <1>8, <2>4, PutParts
  <2>6. ASSUME h = {} PROVE Fine(last)
    <3>1. ~WrongEntry(put, q, n, i) /\ (Subdirs(fs, i) # {} => harm = {}) BY <2>6
    <3>2. n \in Name BY <1>8, <1>10, <3>1 DEF AllName
    <3>3. q = p
      <4> DEFINE e == [name |-> n, ino |-> i]
      <4>1. e.name = n /\ e.ino = i /\ e \in Entries(fs, p) BY <1>5
      <4> HIDE DEF e
      <4>2. e \in NamesIn(fs, p) BY <3>2, <4>1 DEF NamesIn
      <4>3. Leading(fs, p, e) BY <1>3, <1>4, <4>2, GoodParts
      <4> QED BY <1>1, <1>8, <4>1, <4>3 DEF Leading
    <3>4. Subdirs(fs, i) = {}
      <4> SUFFICES ASSUME harm = {} PROVE Subdirs(fs, i) = {} BY <3>1
      <4>1. fs.inode[i].links = 2 + Cardinality(Subdirs(fs, i)) BY <1>3, <1>7 DEF Grown
      <4>2. IsFiniteSet(Subdirs(fs, i)) /\ Cardinality(Subdirs(fs, i)) \in Nat BY <1>3, <1>7, SubdirsFit
      <4>3. Cardinality(Subdirs(fs, i)) = 0 BY <1>1, <4>1, <4>2 DEF FewLinks
      <4> QED BY <4>2, <4>3, FS_EmptySet
    <3>5. Good(counted) /\ Fine(counted)
      <4>1. i \in Rooted(fs) \ {ROOT_INODE, cwd, p} BY <1>7, <1>8, <3>3
      <4>2. ~WrongEntry(fs, p, n, i) /\ ~Hangs(fs, p, n) BY <1>10, <1>14, <3>1, <3>3
      <4>3. Linking(RemoveDirEntry(put, p, n), counted, p, l) BY <2>4, <3>3 DEF removed
      <4>4. l = (fs.inode[p].links + LinkMod - 1) % LinkMod BY <2>3, <3>3
      <4> HIDE DEF h, m, last
      <4> QED BY <1>1, <1>4, <1>5, <1>9, <2>4, <3>2, <3>4, <4>1, <4>2, <4>3, <4>4, RmdirGood DEF m
    <3> QED BY <1>8, <3>5, FinePut
  <2> HIDE DEF last
  <2>7. ss \in Seq(FS) /\ ss # <<>> /\ Last(ss) = last
    BY <1>9, <1>12, <2>5, InARow
  <2> HIDE DEF ss, h
  <2> QED BY <1>1, <1>6, <1>14, <2>6, <2>7, FreeingKeeps
<1> QED BY <1>2, <1>13, <1>14

(* cd, and a kill between commands.                                          *)
LEMMA CdKeeps ==
  ASSUME NameInv, NEW i \in Ino, Cd(i)
  PROVE  NameInv'
<1>1. Going /\ i \in Reached /\ cwd' = i /\ kills' = kills /\ harm' = harm BY DEF Cd
<1>2. Good(fs) /\ cwd \in Rooted(fs) /\ fs \in FS /\ cwd \in Ino /\ (harm = {} => Grown(fs)) BY <1>1 DEF NameInv
<1>3. i \in Rooted(fs) BY <1>1, <1>2, ReachedRooted
<1>4. fs' = fs \/ (fs' \in FS /\ Writing(fs, fs', cwd))
  <2> DEFINE t == [fs.table EXCEPT ![cwd] = fs.inode[cwd]]
  <2>1. t \in [Ino -> Inode] BY <1>2, Parts
  <2>2. fs' = fs \/ fs' = [fs EXCEPT !.table = t] BY DEF Cd
  <2> HIDE DEF t
  <2>3. ASSUME fs' = [fs EXCEPT !.table = t] PROVE fs' \in FS /\ Writing(fs, fs', cwd)
    <3>1. [fs EXCEPT !.table = t] \in FS BY <1>2, <2>1 DEF FS
    <3>2. Writing(fs, [fs EXCEPT !.table = t], cwd) BY <1>2 DEF Writing, FS, t
    <3> QED BY <2>3, <3>1, <3>2
  <2> QED BY <2>2, <2>3
<1>5. CASE fs' = fs BY <1>1, <1>2, <1>3, <1>5 DEF NameInv, Going
<1>6. CASE fs' \in FS /\ Writing(fs, fs', cwd)
  <2>1. Good(fs') /\ Off(fs, fs', {}) BY <1>2, <1>6, WrittenGood
  <2>2. Rooted(fs) \subseteq Rooted(fs') BY <1>2, <2>1, OffRooted
  <2>3. harm = {} => Grown(fs') BY <1>2, <2>1, OffGrown
  <2> QED BY <1>1, <1>3, <1>6, <2>1, <2>2, <2>3 DEF NameInv, Going
<1> QED BY <1>4, <1>5, <1>6

(* A kill between two commands.                                              *)
LEMMA KillKeeps ==
  ASSUME NameInv, Kill
  PROVE  NameInv'
<1>1. Going /\ Restart(fs, {}) /\ Good(fs) /\ fs \in FS BY DEF Kill, NameInv
<1>2. {} \in SUBSET Harm OBVIOUS
<1> QED BY <1>1, <1>2, RestartKeeps
-----------------------------------------------------------------------------
(* The images the program is started on: the root alone, and one with a file *)
(* more.                                                                     *)
LEMMA ImageParts ==
  ASSUME NEW used \in SUBSET Ino, NEW blocks \in SUBSET Block, NEW inode \in [Ino -> Inode], NEW c \in Content
  PROVE  LET s == Image(used, blocks, inode, c)
         IN /\ s \in FS /\ s.imap = used /\ s.bmap = blocks /\ s.inode = inode /\ s.table = inode
            /\ s.data = [b \in Block |-> IF b = 1 THEN c ELSE <<>>]
<1>1. <<>> \in Content
  <2>1. <<>> \in Seq(Entry) /\ Len(<<>>) = 0 OBVIOUS
  <2> QED BY <2>1, Sizes DEF Content
<1> DEFINE nd == [b \in Block |-> IF b = 1 THEN c ELSE <<>>]
<1>2. nd \in [Block -> Content] BY <1>1
<1> HIDE DEF nd
<1>3. Image(used, blocks, inode, c) = [imap |-> used, bmap |-> blocks, inode |-> inode, table |-> inode, data |-> nd]
  BY DEF Image, nd
<1> QED BY <1>2, <1>3 DEF FS, nd
RootOnly == Image({ROOT_INODE}, {1}, Empty, Dots)

(* The parts of the image with the root alone.                               *)
LEMMA RootParts ==
  /\ Empty \in [Ino -> Inode] /\ Empty[ROOT_INODE] = [mode |-> "dir", links |-> 2, blocks |-> <<1>>]
  /\ \A i \in Ino \ {ROOT_INODE} : Empty[i] = Unused
  /\ Dots \in Content /\ Dots \in Seq(Entry) /\ Len(Dots) = 2
  /\ Dots[1] = [name |-> ".", ino |-> ROOT_INODE] /\ Dots[2] = [name |-> "..", ino |-> ROOT_INODE]
  /\ Dots[1].name = "." /\ Dots[2].name = ".." /\ RootOnly \in FS
<1>1. [mode |-> "dir", links |-> 2, blocks |-> <<1>>] \in Inode
  <2>1. 2 \in 0..LinkMod-1 BY Rounding
  <2>2. <<1>> \in Seq(Block \cup {Beyond}) BY Sizes
  <2> QED BY <2>1, <2>2 DEF Inode
<1>2. Unused \in Inode
  <2>1. 0 \in 0..LinkMod-1 BY Rounding
  <2>2. <<>> \in Seq(Block \cup {Beyond}) OBVIOUS
  <2> QED BY <2>1, <2>2 DEF Inode, Unused
<1>3. /\ Empty \in [Ino -> Inode] /\ Empty[ROOT_INODE] = [mode |-> "dir", links |-> 2, blocks |-> <<1>>]
      /\ \A i \in Ino \ {ROOT_INODE} : Empty[i] = Unused
  BY <1>1, <1>2, Sizes DEF Empty
<1> DEFINE x == [name |-> ".", ino |-> ROOT_INODE]
<1> DEFINE y == [name |-> "..", ino |-> ROOT_INODE]
<1>4. x \in Entry /\ y \in Entry /\ x.name = "." /\ y.name = ".." BY Sizes DEF Entry, AllName
<1>5. Dots = <<x, y>> BY DEF Dots
<1> HIDE DEF x, y
<1>6. Dots \in Seq(Entry) /\ Len(Dots) = 2 /\ Dots[1] = x /\ Dots[2] = y BY <1>4, <1>5
<1>7. Dots \in Content
  <2>1. 2 <= Room BY Sizes
  <2> QED BY <1>6, <2>1 DEF Content
<1>8. RootOnly \in FS
  <2>1. {ROOT_INODE} \in SUBSET Ino /\ {1} \in SUBSET Block BY Sizes
  <2> QED BY <1>3, <1>7, <2>1, ImageParts DEF RootOnly
<1> QED BY <1>3, <1>4, <1>6, <1>7, <1>8 DEF x, y

(* It is good and a tree.                                                    *)
LEMMA RootGood ==
  /\ Good(RootOnly) /\ Grown(RootOnly) /\ Live(RootOnly) = {ROOT_INODE}
  /\ Freed(RootOnly, ROOT_INODE) = {1} /\ RootOnly.inode[ROOT_INODE].blocks = <<1>>
  /\ \A n \in Name : Absent(RootOnly, ROOT_INODE, n)
<1> DEFINE s == RootOnly
<1>1. /\ s \in FS /\ s.imap = {ROOT_INODE} /\ s.bmap = {1} /\ s.inode = Empty /\ s.table = Empty
      /\ s.data[1] = Dots /\ \A b \in Block \ {1} : s.data[b] = <<>>
  <2>1. {ROOT_INODE} \in SUBSET Ino /\ {1} \in SUBSET Block BY Sizes
  <2>2. /\ s \in FS /\ s.imap = {ROOT_INODE} /\ s.bmap = {1} /\ s.inode = Empty /\ s.table = Empty
        /\ s.data = [b \in Block |-> IF b = 1 THEN Dots ELSE <<>>]
    BY <2>1, RootParts, ImageParts DEF RootOnly
  <2> QED BY <2>2, Sizes
<1>2. /\ s.inode[ROOT_INODE].mode = "dir" /\ s.inode[ROOT_INODE].links = 2
      /\ s.inode[ROOT_INODE].blocks = <<1>>
      /\ \A i \in Ino \ {ROOT_INODE} : s.inode[i].mode = "none" /\ s.inode[i].blocks = <<>>
  BY <1>1, RootParts DEF Unused
<1> HIDE DEF s
<1>3. Live(s) = {ROOT_INODE} BY <1>1, <1>2 DEF Live
<1>4. Freed(s, ROOT_INODE) = {1}
  <2> DEFINE q == s.inode[ROOT_INODE].blocks
  <2>1. ROOT_INODE \in Ino BY Sizes
  <2>2. Freed(s, ROOT_INODE) = {q[k] : k \in 1..Len(q)} BY <1>1, <2>1, Parts
  <2>3. q = <<1>> BY <1>2
  <2> HIDE DEF q
  <2>4. Len(q) = 1 /\ q[1] = 1 BY <2>3
  <2> QED BY <2>2, <2>4
<1>5. Freed(s, ROOT_INODE) \subseteq Block /\ ROOT_INODE \in Ino BY <1>4, Sizes
<1>6. \A e \in Entries(s, ROOT_INODE) : e.name \notin Name
  <2> SUFFICES ASSUME NEW e \in Entries(s, ROOT_INODE) PROVE e.name \notin Name OBVIOUS
  <2>1. \E k \in 1..2 : e = Dots[k] BY <1>1, <1>4, <1>5, RootParts, EntriesAre
  <2>2. e.name \in {".", ".."} BY <2>1, RootParts
  <2> QED BY <2>2
<1>7. NamesIn(s, ROOT_INODE) = {} /\ Subdirs(s, ROOT_INODE) = {} BY <1>6 DEF NamesIn, Subdirs
<1>8. Apart(s)
  <2>1. Bare(s) BY <1>1, <1>2 DEF Bare
  <2>2. \A i \in Ino : Owner(s, i) => i = ROOT_INODE BY <1>2 DEF Owner
  <2>3. Marks(s) BY <1>1, <1>2, <1>4, <2>2 DEF Marks, Once
  <2>4. Disjoint(s) BY <2>2 DEF Disjoint
  <2>5. Clean(s) BY <1>1 DEF Clean
  <2> QED BY <2>1, <2>3, <2>4, <2>5 DEF Apart
<1>9. OnImage(s)
  <2>1. \A m : Known(m, m) BY DEF Known, Starts
  <2> QED BY <1>1, <2>1 DEF OnImage
<1>10. Founded(s) BY <1>1, <1>2, <1>3, RootParts DEF Founded, Dotted
<1>11. Linked(s) BY <1>1, <1>2 DEF Linked
<1>12. Led(s, ROOT_INODE)
  <2>1. NoTwins(s, ROOT_INODE)
    <3>1. \A j, k \in 1..2 : Dots[j].name = Dots[k].name => j = k BY RootParts
    <3> QED BY <1>1, <1>4, <3>1, RootParts DEF NoTwins
  <2> QED BY <1>7, <2>1 DEF Led, OneName
<1>13. Good(s) BY <1>1, <1>3, <1>8, <1>9, <1>10, <1>11, <1>12 DEF Good
<1>14. Grown(s)
  <2>1. ROOT_INODE \in Rooted(s) BY <1>13, RootedFacts
  <2>2. Cardinality(Subdirs(s, ROOT_INODE)) = 0 BY <1>7, FS_EmptySet
  <2> QED BY <1>2, <1>3, <2>1, <2>2 DEF Grown
<1> QED BY <1>2, <1>3, <1>4, <1>6, <1>13, <1>14 DEF s, Absent

FileEntry == [name |-> f, ino |-> ROOT_INODE + 1]
FileInode == [mode |-> "reg", links |-> 1, blocks |-> <<2>>]
WithFile ==
  Image({ROOT_INODE, ROOT_INODE + 1}, {1, 2}, [Empty EXCEPT ![ROOT_INODE + 1] = FileInode], Append(Dots, FileEntry))

(* So is the one with a file: it is the other with an inode and a name more. *)
LEMMA FileGood ==
  Good(WithFile) /\ Grown(WithFile)
<1> DEFINE i == ROOT_INODE + 1
<1> DEFINE named == Append(Dots, FileEntry)
<1> DEFINE used == {ROOT_INODE, i}
<1> DEFINE filed == [Empty EXCEPT ![i] = FileInode]
<1> DEFINE s == RootOnly
<1> DEFINE marked == Image(used, {1}, Empty, Dots)
<1> DEFINE grown == Image(used, {1, 2}, Empty, Dots)
<1> DEFINE r == Image(used, {1, 2}, filed, Dots)
<1> DEFINE u == Image(used, {1, 2}, filed, named)
<1>1. /\ {ROOT_INODE} \in SUBSET Ino /\ used \in SUBSET Ino /\ {1} \in SUBSET Block /\ {1, 2} \in SUBSET Block
      /\ i \in Ino \ {ROOT_INODE} /\ used = {ROOT_INODE} \cup {i} /\ {1, 2} = {1} \cup {2}
  BY Sizes
<1>2. FileInode \in Inode
  <2>1. 1 \in 0..LinkMod-1 BY Rounding
  <2>2. <<2>> \in Seq(Block \cup {Beyond}) BY Sizes
  <2> QED BY <2>1, <2>2 DEF Inode, FileInode
<1>3. filed \in [Ino -> Inode] BY <1>1, <1>2, RootParts
<1>4. f \in Name BY DEF f
<1>5. FileEntry \in Entry /\ FileEntry.name = f /\ FileEntry.ino = i BY <1>1, <1>4 DEF FileEntry, Entry, AllName
<1>6. named \in Content
  <2>1. Dots \in Seq(Entry) BY RootParts
  <2>2. Len(Dots) = 2 BY RootParts
  <2>3. ASSUME NEW q \in Seq(Entry), NEW e \in Entry PROVE Append(q, e) \in Seq(Entry) /\ Len(Append(q, e)) = Len(q) + 1
    OBVIOUS
  <2>4. Append(Dots, FileEntry) \in Seq(Entry) /\ Len(Append(Dots, FileEntry)) = Len(Dots) + 1
    BY <1>5, <2>1, <2>3
  <2>5. Len(Append(Dots, FileEntry)) <= Room BY <2>2, <2>4, Sizes
  <2> QED BY <2>4, <2>5 DEF Content
<1>0. Empty \in [Ino -> Inode] /\ Dots \in Content BY RootParts
<1> DEFINE D(c) == [b \in Block |-> IF b = 1 THEN c ELSE <<>>]
<1> HIDE DEF i, named, used, filed
<1>7. /\ s \in FS /\ s.imap = {ROOT_INODE} /\ s.bmap = {1} /\ s.inode = Empty /\ s.table = Empty /\ s.data = D(Dots)
  BY <1>0, <1>1, ImageParts DEF RootOnly
<1>8. /\ marked \in FS /\ marked.imap = used /\ marked.bmap = {1}
      /\ marked.inode = Empty /\ marked.table = Empty /\ marked.data = D(Dots)
  BY <1>0, <1>1, ImageParts
<1>9. /\ grown \in FS /\ grown.imap = used /\ grown.bmap = {1, 2}
      /\ grown.inode = Empty /\ grown.table = Empty /\ grown.data = D(Dots)
  BY <1>0, <1>1, ImageParts
<1>10. /\ r \in FS /\ r.imap = used /\ r.bmap = {1, 2} /\ r.inode = filed /\ r.table = filed /\ r.data = D(Dots)
  BY <1>0, <1>1, <1>3, ImageParts
<1>11. /\ u \in FS /\ u.imap = used /\ u.bmap = {1, 2} /\ u.inode = filed /\ u.table = filed /\ u.data = D(named)
  BY <1>1, <1>3, <1>6, ImageParts
<1> HIDE DEF s, marked, grown, r, u
<1>12. Good(s) /\ Grown(s) /\ Live(s) = {ROOT_INODE} /\ Freed(s, ROOT_INODE) = {1}
       /\ Absent(s, ROOT_INODE, f)
  BY <1>4, RootGood DEF s
<1>13. IsNew(s, r, i, FileInode)
  <2>1. FileInode.mode \in {"reg", "dir"} /\ Once(FileInode.blocks) /\ ToSet(FileInode.blocks) = {2}
    BY DEF FileInode, Once, ToSet
  <2>2. {2} \in SUBSET Block /\ {2} \cap s.bmap = {} /\ i \in Ino \ s.imap BY <1>1, <1>7, Sizes
  <2>3. Marking(s, marked, i) BY <1>1, <1>7, <1>8 DEF Marking
  <2>4. Allocating(marked, grown, {2}) BY <1>1, <1>8, <1>9 DEF Allocating
  <2>5. Renewing(grown, r, i, FileInode) BY <1>9, <1>10 DEF Renewing, filed
  <2> QED BY <1>2, <1>8, <1>9, <1>10, <1>12, <2>1, <2>2, <2>3, <2>4, <2>5, NewInode
<1>14. /\ Good(r) /\ Off(s, r, {i}) /\ Unnamed(r, i) /\ r.inode[i] = FileInode /\ i \in r.imap
       /\ ROOT_INODE \in Live(r) /\ SameDir(s, r, ROOT_INODE)
  BY <1>12, <1>13 DEF IsNew
<1>15. ~IsDir(r, i) /\ i \notin Live(r) /\ i \notin Live(s)
  BY <1>1, <1>12, <1>14 DEF IsDir, Live, FileInode
<1>16. Enters(r, u, ROOT_INODE, 1, FileEntry)
  <2>1. 1 \in Freed(r, ROOT_INODE) BY <1>12, <1>14 DEF SameDir
  <2>2. D(named) = [D(Dots) EXCEPT ![1] = Append(D(Dots)[1], FileEntry)] BY Sizes DEF named
  <2> QED BY <1>10, <1>11, <2>1, <2>2 DEF Enters
<1>17. HasEntered(r, u, ROOT_INODE, i, f)
  <2>1. Absent(r, ROOT_INODE, f) BY <1>12, <1>14 DEF Absent, SameDir
  <2>2. Nameable(r, ROOT_INODE, i)
    <3>1. NamesAt(r, i) = {} BY <1>14, UnnamedNowhere
    <3>2. Cardinality(NamesAt(r, i)) = 0 BY <3>1, FS_EmptySet
    <3> QED BY <1>1, <1>14, <1>15, <3>2 DEF Nameable, FileInode
  <2>3. Enters(r, u, ROOT_INODE, 1, [name |-> f, ino |-> i]) BY <1>16 DEF FileEntry, i
  <2>4. 1 \in Block /\ i \in Ino BY <1>1, Sizes
  <2> QED BY <1>4, <1>11, <1>14, <2>1, <2>2, <2>3, <2>4, EntersThen
<1>18. Good(u) /\ Off(r, u, {i}) /\ i \notin Live(u) BY <1>15, <1>17 DEF HasEntered, Off
<1>19. Off(s, u, {i}) BY <1>14, <1>18, OffTrans
<1>20. Grown(u)
  <2>1. {i} \cap Live(s) = {} /\ {i} \cap Live(u) = {} BY <1>15, <1>18
  <2> QED BY <1>12, <1>18, <1>19, <2>1, OffGrown
<1> QED BY <1>18, <1>20 DEF u, used, filed, named, i, WithFile

(* The invariant holds at the start.                                         *)
LEMMA InitInv == Init => NameInv
<1> SUFFICES ASSUME Init PROVE NameInv OBVIOUS
<1>1. cwd = ROOT_INODE /\ kills = 0 /\ harm = {} /\ (fs = RootOnly \/ fs = WithFile)
  BY DEF Init, RootOnly, WithFile, FileEntry, FileInode
<1>2. Good(fs) /\ Grown(fs) BY <1>1, RootGood, FileGood
<1>3. fs \in FS /\ cwd \in Rooted(fs) BY <1>1, <1>2, GoodParts, RootedFacts
<1>4. 0 \in 0..MaxKills OBVIOUS
<1> QED BY <1>1, <1>2, <1>3, <1>4, Sizes DEF NameInv

(* Every command keeps it, and every kill.                                   *)
LEMMA NextInv == NameInv /\ [Next]_vars => NameInv'
<1> SUFFICES ASSUME NameInv, [Next]_vars PROVE NameInv' OBVIOUS
<1>1. ASSUME NEW p \in Ino, NEW n \in Name, Creat(p, n) PROVE NameInv' BY <1>1, CreatKeeps
<1>2. ASSUME NEW p \in Ino, NEW n \in Name, Mkdir(p, n) PROVE NameInv' BY <1>2, MkdirKeeps
<1>3. ASSUME NEW p \in Ino, NEW n \in Name, Unlink(p, n) PROVE NameInv' BY <1>3, UnlinkKeeps
<1>4. ASSUME NEW p \in Ino, NEW n \in AllName, Rmdir(p, n) PROVE NameInv' BY <1>4, RmdirKeeps
<1>5. ASSUME NEW i \in Ino, NEW p \in Ino, NEW n \in Name, Link(i, p, n) PROVE NameInv' BY <1>5, LinkKeeps
<1>6. ASSUME NEW i \in Ino, NEW p \in Ino, NEW n \in Name, CpNew(i, p, n) PROVE NameInv' BY <1>6, CpNewKeeps
<1>7. ASSUME NEW p \in Ino, NEW n \in Name, NEW c \in Target, Symlink(p, n, c) PROVE NameInv' BY <1>7, SymlinkKeeps
<1>8. ASSUME NEW i \in Ino, NEW d \in Ino, CpOnto(i, d) PROVE NameInv' BY <1>8, CpOntoKeeps
<1>9. ASSUME NEW i \in Ino, Cd(i) PROVE NameInv' BY <1>9, CdKeeps
<1>10. CASE Kill BY <1>10, KillKeeps
<1>11. CASE UNCHANGED vars BY <1>11 DEF vars, NameInv, Going
<1> QED BY <1>1, <1>2, <1>3, <1>4, <1>5, <1>6, <1>7, <1>8, <1>9, <1>10, <1>11 DEF Next
-----------------------------------------------------------------------------
(* The search finds every directory led to from the root: it has as many     *)
(* steps as there are inodes, and one that finds nothing new is the last.    *)
LEMMA RootedReached ==
  ASSUME Good(fs), cwd \in Rooted(fs)
  PROVE  Rooted(fs) \subseteq Reached
<1> DEFINE m == MaxIno - ROOT_INODE
<1>1. m \in Nat BY ReachedIs
<1>2. PICK R : Reached = R[m] /\ R[0] = First /\ \A n \in 1..m : R[n] = Wider(R[n-1])
  BY ReachedIs
<1>3. IsFiniteSet(Ino) /\ Cardinality(Ino) = m + 1
  BY FS_Interval DEF Ino, ROOT_INODE
<1> HIDE DEF m
<1>4. ROOT_INODE \in First
  <2>1. ROOT_INODE \in Live(fs) BY GoodParts
  <2> QED BY <2>1, Sizes DEF First, DirsIn, IsDir, Live
<1>5. /\ First \subseteq Rooted(fs) /\ Rooted(fs) \subseteq Ino
      /\ \A I : I \subseteq Rooted(fs) => Wider(I) \subseteq Rooted(fs)
  <2>1. Rooted(fs) \subseteq Live(fs) /\ Live(fs) \subseteq Ino BY RootedFacts, GoodParts
  <2> QED BY <2>1, WiderRooted
<1>6. \A I : I \subseteq Wider(I) BY DEF Wider
<1> DEFINE T == {n \in 0..m : ~(/\ ROOT_INODE \in R[n] /\ R[n] \subseteq Rooted(fs)
                                /\ Wider(R[n]) = R[n] \/ Cardinality(R[n]) >= n + 1)}
<1>7. ASSUME T # {} PROVE FALSE
  <2>1. T \in SUBSET Nat BY <1>1
  <2>2. PICK k \in T : \A j \in T : k <= j
    <3> HIDE DEF T
    <3> QED BY <1>7, <2>1, LeastNat
  <2>3. k \in 0..m OBVIOUS
  <2>4. CASE k = 0
    <3>1. ROOT_INODE \in R[0] /\ R[0] \subseteq Rooted(fs) BY <1>2, <1>4, <1>5
    <3>2. IsFiniteSet(R[0]) BY <1>3, <1>5, <3>1, FS_Subset
    <3>3. Cardinality(R[0]) \in Nat /\ Cardinality(R[0]) # 0 BY <3>1, <3>2, FS_CardinalityType, FS_EmptySet
    <3>4. Cardinality(R[0]) >= 0 + 1 BY <3>3
    <3> QED BY <2>4, <3>1, <3>4
  <2>5. CASE k # 0
    <3>1. k-1 \in 0..m /\ k \in 1..m /\ ~(k <= k-1) /\ (k-1)+1 = k BY <1>1, <2>3, <2>5
    <3>2. R[k] = Wider(R[k-1]) BY <1>2, <3>1
    <3>3. k-1 \notin T
      <4> HIDE DEF T
      <4> QED BY <2>2, <3>1
    <3>4. /\ ROOT_INODE \in R[k-1] /\ R[k-1] \subseteq Rooted(fs)
          /\ Wider(R[k-1]) = R[k-1] \/ Cardinality(R[k-1]) >= k
      BY <3>1, <3>3
    <3>5. ROOT_INODE \in R[k] /\ R[k] \subseteq Rooted(fs) /\ R[k-1] \subseteq R[k] BY <1>5, <1>6, <3>2, <3>4
    <3>6. CASE Wider(R[k-1]) = R[k-1]
      <4>1. Wider(R[k]) = R[k] BY <3>2, <3>6
      <4> QED BY <3>5, <4>1
    <3>7. CASE Wider(R[k-1]) # R[k-1] /\ Cardinality(R[k-1]) >= k
      <4>1. PICK y \in R[k] : y \notin R[k-1] BY <3>2, <3>5, <3>7
      <4>2. IsFiniteSet(R[k]) /\ IsFiniteSet(R[k-1]) BY <1>3, <1>5, <3>4, <3>5, FS_Subset
      <4>3. Cardinality(R[k-1] \cup {y}) = Cardinality(R[k-1]) + 1 BY <4>1, <4>2, FS_AddElement
      <4>4. Cardinality(R[k-1] \cup {y}) <= Cardinality(R[k]) BY <3>5, <4>1, <4>2, FS_Subset
      <4>5. Cardinality(R[k]) \in Nat /\ Cardinality(R[k-1]) \in Nat BY <4>2, FS_CardinalityType
      <4>6. Cardinality(R[k]) >= k + 1 BY <2>3, <3>7, <4>3, <4>4, <4>5
      <4> QED BY <3>5, <4>6
    <3> QED BY <3>4, <3>6, <3>7
  <2> QED BY <2>4, <2>5
<1>8. /\ ROOT_INODE \in Reached /\ Reached \subseteq Rooted(fs)
      /\ Wider(Reached) = Reached \/ Cardinality(Reached) >= m + 1
  <2>1. m \in 0..m /\ m \notin T BY <1>1, <1>7
  <2> QED BY <1>2, <2>1
<1>9. CASE Cardinality(Reached) >= m + 1
  <2>1. Reached \subseteq Ino /\ IsFiniteSet(Reached) BY <1>3, <1>5, <1>8, FS_Subset
  <2>2. Cardinality(Reached) <= Cardinality(Ino) BY <1>3, <2>1, FS_Subset
  <2>3. Cardinality(Reached) \in Nat BY <2>1, FS_CardinalityType
  <2>4. Cardinality(Reached) = Cardinality(Ino) BY <1>1, <1>3, <1>9, <2>2, <2>3
  <2>5. Reached = Ino BY <1>3, <2>1, <2>4, FS_Subset
  <2> QED BY <1>5, <2>5
<1>10. CASE Wider(Reached) = Reached
  <2>1. Closed(fs, Reached)
    <3> SUFFICES ASSUME NEW x \in Reached, NEW e \in Subdirs(fs, x) PROVE e.ino \in Reached
      BY DEF Closed, Under
    <3>1. e \in Entries(fs, x) /\ IsDir(fs, e.ino) BY DEF Subdirs, NamesIn
    <3>2. e.ino \in Wider(Reached) BY <3>1 DEF Wider, DirsIn, Children
    <3> QED BY <1>10, <3>2
  <2>2. Reached \in SUBSET Ino BY <1>5, <1>8
  <2> QED BY <1>8, <2>1, <2>2 DEF Rooted
<1> QED BY <1>8, <1>9, <1>10

(* The names that lead to an inode, as the properties count them.            *)
LEMMA NamesOfAre ==
  ASSUME Good(fs), NEW i
  PROVE  NamesOf(i) = NamesAt(fs, i) /\ LiveDirs = Live(fs)
<1>1. LiveDirs = Live(fs) BY DEF LiveDirs, Live
<1>2. ASSUME NEW d \in Live(fs), NEW e \in NamesIn(fs, d), e.ino = i
      PROVE  /\ e \in Entries(fs, d) /\ e.name \in Name /\ e = [name |-> e.name, ino |-> i]
             /\ <<d, e.name>> \in NamesAt(fs, i)
  <2>1. fs \in FS /\ d \in Ino /\ Freed(fs, d) \subseteq Block BY GoodParts
  <2>2. e \in Entries(fs, d) /\ e.name \in Name /\ e \in Entry BY <2>1, EntriesAre DEF NamesIn
  <2>3. e = [name |-> e.name, ino |-> i] BY <1>2, <2>2 DEF Entry
  <2> DEFINE x == <<d, e.name>>
  <2>4. x \in Live(fs) \X Name /\ x[1] = d /\ x[2] = e.name BY <2>2
  <2> HIDE DEF x
  <2>5. x \in NamesAt(fs, i) BY <2>2, <2>3, <2>4 DEF NamesAt
  <2> QED BY <2>2, <2>3, <2>5 DEF x
<1>3. NamesOf(i) \subseteq NamesAt(fs, i) BY <1>1, <1>2 DEF NamesOf
<1>4. ASSUME NEW x \in NamesAt(fs, i) PROVE x \in NamesOf(i)
  <2> DEFINE e == [name |-> x[2], ino |-> i]
  <2>1. x \in Live(fs) \X Name /\ e \in Entries(fs, x[1]) BY DEF NamesAt
  <2>2. x = <<x[1], x[2]>> /\ x[1] \in Live(fs) /\ e.name = x[2] /\ e.ino = i /\ x[2] \in Name BY <2>1
  <2> HIDE DEF e
  <2>3. e \in NamesIn(fs, x[1]) BY <2>1, <2>2 DEF NamesIn
  <2>4. x = <<x[1], e.name>> BY <2>2
  <2> QED BY <1>1, <2>2, <2>3, <2>4 DEF NamesOf
<1> QED BY <1>1, <1>3, <1>4

(* The invariant implies the properties.                                     *)
LEMMA InvTypeOK == NameInv => TypeOK
<1> SUFFICES ASSUME NameInv PROVE TypeOK OBVIOUS
<1>1. fs \in FS /\ cwd \in Ino /\ kills \in 0..MaxKills /\ harm \subseteq Harm BY DEF NameInv
<1>2. \A b \in Block : fs.data[b] \in Seq(Entry) /\ Len(fs.data[b]) <= Room BY <1>1, Parts, Sizes
<1>3. fs.data \in [Block -> Seq(Entry)]
  <2>1. fs.data \in [Block -> Content] BY <1>1, Parts
  <2> QED BY <1>2, <2>1
<1> QED BY <1>1, <1>2, <1>3, Parts DEF TypeOK

(* NamesLead: every name leads to a marked inode, a file has its links.      *)
LEMMA InvNamesLead == NameInv => NamesLead
<1> SUFFICES ASSUME NameInv, Going
             PROVE  /\ \A d \in LiveDirs : \A e \in NamesIn(fs, d) : e.ino \in fs.imap
                    /\ \A i \in fs.imap \ LiveDirs : fs.inode[i].links >= Cardinality(NamesOf(i))
  BY DEF NamesLead
<1>1. Good(fs) /\ fs \in FS /\ Linked(fs) BY GoodParts DEF NameInv
<1>2. LiveDirs = Live(fs) /\ \A i : NamesOf(i) = NamesAt(fs, i) BY <1>1, NamesOfAre
<1>3. ASSUME NEW d \in LiveDirs, NEW e \in NamesIn(fs, d) PROVE e.ino \in fs.imap
  BY <1>1, <1>2, GoodParts DEF Leading
<1>4. ASSUME NEW i \in fs.imap \ LiveDirs PROVE fs.inode[i].links >= Cardinality(NamesOf(i))
  <2>1. i \in Ino /\ fs.inode[i].mode # "dir" BY <1>1, <1>2, Parts DEF Live
  <2>2. Cardinality(NamesAt(fs, i)) <= fs.inode[i].links BY <1>1, <2>1 DEF Linked
  <2>3. fs.inode[i].links \in Nat
    <3>1. fs.inode[i].links \in 0..LinkMod-1 BY <1>1, <2>1, Parts
    <3> QED BY <3>1, Rounding
  <2>4. Cardinality(NamesAt(fs, i)) \in Nat
    <3>1. NamesAt(fs, i) \subseteq Ino \X Name BY <1>1, GoodParts DEF NamesAt
    <3>2. IsFiniteSet(NamesAt(fs, i)) BY <3>1, FiniteSets, FS_Subset
    <3> QED BY <3>2, FS_CardinalityType
  <2> QED BY <1>2, <2>2, <2>3, <2>4
<1> QED BY <1>3, <1>4

(* BlocksOwned: blocks have one owner, in memory and on the image.           *)
LEMMA InvBlocksOwned == NameInv => BlocksOwned
<1> SUFFICES ASSUME NameInv, Going, NEW inode \in {fs.inode, fs.table}, NEW b \in Block
             PROVE  Cardinality(Owners(inode, b)) <= 1 /\ (Owners(inode, b) # {} => b \in fs.bmap)
  BY InvTypeOK DEF BlocksOwned
<1>1. Good(fs) /\ fs \in FS /\ Marks(fs) /\ Disjoint(fs) /\ OnImage(fs) BY GoodParts DEF NameInv
<1> DEFINE S == Owners(inode, b)
<1>2. ASSUME NEW x \in S
      PROVE  \E i \in Ino : \E j \in 1..Len(fs.inode[i].blocks) :
               x = <<i, j>> /\ Owner(fs, i) /\ fs.inode[i].blocks[j] = b
  <2>1. PICK i \in fs.imap : /\ inode[i].mode \in {"reg", "dir"}
                             /\ \E j \in DOMAIN inode[i].blocks : x = <<i, j>> /\ inode[i].blocks[j] = b
    BY DEF Owners
  <2>2. PICK j \in DOMAIN inode[i].blocks : x = <<i, j>> /\ inode[i].blocks[j] = b BY <2>1
  <2>3. i \in Ino /\ inode \in [Ino -> Inode] BY <1>1, <2>1, Parts
  <2>4. inode[i].blocks \in Seq(Block \cup {Beyond}) /\ fs.inode[i].blocks \in Seq(Block \cup {Beyond})
    BY <1>1, <2>3, Parts DEF Inode
  <2>5. Known(fs.inode[i], fs.table[i]) BY <1>1, <2>3 DEF OnImage
  <2>6. inode[i].mode = fs.inode[i].mode /\ Starts(inode[i].blocks, fs.inode[i].blocks)
    <3>1. CASE inode = fs.inode BY <2>4, <3>1 DEF Starts
    <3>2. CASE inode = fs.table BY <2>5, <3>2 DEF Known
    <3> QED BY <3>1, <3>2
  <2>7. j \in 1..Len(inode[i].blocks) BY <2>4
  <2>8. j \in 1..Len(fs.inode[i].blocks) /\ fs.inode[i].blocks[j] = inode[i].blocks[j]
    BY <2>4, <2>6, <2>7 DEF Starts
  <2> QED BY <2>1, <2>2, <2>3, <2>6, <2>8 DEF Owner
<1>3. ASSUME NEW x \in S PROVE b \in fs.bmap
  <2>1. PICK i \in Ino : \E j \in 1..Len(fs.inode[i].blocks) :
          x = <<i, j>> /\ Owner(fs, i) /\ fs.inode[i].blocks[j] = b
    BY <1>2
  <2>2. b \in Freed(fs, i) BY <1>1, <2>1, Parts
  <2> QED BY <1>1, <2>1, <2>2 DEF Marks
<1>4. ASSUME NEW x \in S, NEW y \in S PROVE x = y
  <2>1. PICK i \in Ino : \E j \in 1..Len(fs.inode[i].blocks) :
          x = <<i, j>> /\ Owner(fs, i) /\ fs.inode[i].blocks[j] = b
    BY <1>2
  <2>2. PICK j \in 1..Len(fs.inode[i].blocks) : x = <<i, j>> /\ Owner(fs, i) /\ fs.inode[i].blocks[j] = b BY <2>1
  <2>3. PICK k \in Ino : \E l \in 1..Len(fs.inode[k].blocks) :
          y = <<k, l>> /\ Owner(fs, k) /\ fs.inode[k].blocks[l] = b
    BY <1>2
  <2>4. PICK l \in 1..Len(fs.inode[k].blocks) : y = <<k, l>> /\ Owner(fs, k) /\ fs.inode[k].blocks[l] = b BY <2>3
  <2>5. b \in Freed(fs, i) /\ b \in Freed(fs, k) BY <1>1, <2>2, <2>4, Parts
  <2>6. i = k BY <1>1, <2>2, <2>4, <2>5 DEF Disjoint
  <2>7. Once(fs.inode[i].blocks) BY <1>1, <2>2 DEF Marks
  <2>8. j = l BY <2>2, <2>4, <2>6, <2>7 DEF Once
  <2> QED BY <2>2, <2>4, <2>6, <2>8
<1> HIDE DEF S
<1>5. Cardinality(S) <= 1
  <2>1. CASE S = {} BY <2>1, FS_EmptySet
  <2>2. CASE S # {}
    <3>1. PICK x \in S : S = {x} BY <1>4, <2>2
    <3>2. Cardinality({x}) = 1 BY FS_Singleton
    <3> QED BY <3>1, <3>2
  <2> QED BY <2>1, <2>2
<1> QED BY <1>3, <1>5 DEF S

(* Tree: the directories are a tree as long as nothing went wrong.           *)
LEMMA InvTree == NameInv => Tree
<1> SUFFICES ASSUME NameInv, harm = {}
             PROVE  /\ cwd \in LiveDirs
                    /\ \A d \in LiveDirs \ {ROOT_INODE} :
                         d \in Reached /\ \E n \in Name : NamesOf(d) = {<<ParentOf(d), n>>}
                    /\ \A d \in LiveDirs : fs.inode[d].links = 2 + Cardinality(Subdirs(fs, d))
  BY DEF Tree
<1>1. Good(fs) /\ cwd \in Rooted(fs) /\ Grown(fs) BY DEF NameInv, Going
<1>2. /\ LiveDirs = Live(fs) /\ \A i : NamesOf(i) = NamesAt(fs, i)
      /\ Rooted(fs) = Live(fs) /\ Rooted(fs) \subseteq Reached
  BY <1>1, NamesOfAre, RootedFacts, RootedReached DEF Grown
<1>3. ASSUME NEW d \in Live(fs) \ {ROOT_INODE} PROVE \E n \in Name : NamesAt(fs, d) = {<<ParentOf(d), n>>}
  <2>1. \A g : Dotted(fs, d, g) => ParentOf(d) = g BY DEF Dotted, ParentOf
  <2>2. PICK p \in Rooted(fs) : Dotted(fs, d, p) /\ \E e \in Subdirs(fs, p) : e.ino = d BY <1>1, <1>2, RootedDotted
  <2>3. PICK e \in Subdirs(fs, p) : e.ino = d BY <2>2
  <2>4. e \in NamesIn(fs, p) /\ IsDir(fs, d) /\ e.name \in Name /\ p \in Live(fs) BY <1>2, <2>3 DEF Subdirs, NamesIn
  <2>5. ASSUME NEW x \in NamesAt(fs, d) PROVE x = <<p, e.name>>
    <3> DEFINE g == [name |-> x[2], ino |-> d]
    <3>1. x \in Live(fs) \X Name /\ g \in Entries(fs, x[1]) BY DEF NamesAt
    <3>2. x = <<x[1], x[2]>> /\ x[1] \in Live(fs) /\ x[2] \in Name /\ g.name = x[2] /\ g.ino = d BY <3>1
    <3> HIDE DEF g
    <3>3. g \in NamesIn(fs, x[1]) BY <3>1, <3>2 DEF NamesIn
    <3>4. Dotted(fs, d, x[1]) BY <1>1, <2>4, <3>2, <3>3, GoodParts DEF Leading
    <3>5. x[1] = p BY <2>1, <2>2, <3>4
    <3>6. g = e BY <1>1, <2>3, <2>4, <3>2, <3>3, <3>5, GoodParts DEF OneName
    <3> QED BY <3>2, <3>5, <3>6
  <2>6. <<p, e.name>> \in NamesAt(fs, d)
    <3>1. e = [name |-> e.name, ino |-> d] /\ e \in Entries(fs, p)
      <4>1. fs \in FS /\ p \in Ino /\ Freed(fs, p) \subseteq Block BY <1>1, <2>4, GoodParts
      <4>2. e \in Entries(fs, p) /\ e \in Entry BY <2>4, <4>1, EntriesAre DEF NamesIn
      <4> QED BY <2>3, <4>2 DEF Entry
    <3> DEFINE x == <<p, e.name>>
    <3>2. x \in Live(fs) \X Name /\ x[1] = p /\ x[2] = e.name BY <2>4
    <3> HIDE DEF x
    <3>3. x \in NamesAt(fs, d) BY <3>1, <3>2 DEF NamesAt
    <3> QED BY <3>3 DEF x
  <2>7. NamesAt(fs, d) = {<<ParentOf(d), e.name>>} BY <2>1, <2>2, <2>5, <2>6
  <2> QED BY <2>4, <2>7
<1>4. cwd \in LiveDirs BY <1>1, <1>2
<1>5. \A d \in LiveDirs : fs.inode[d].links = 2 + Cardinality(Subdirs(fs, d)) BY <1>1, <1>2 DEF Grown
<1>6. ASSUME NEW d \in LiveDirs \ {ROOT_INODE}
      PROVE  d \in Reached /\ \E n \in Name : NamesOf(d) = {<<ParentOf(d), n>>}
  BY <1>2, <1>3
<1> QED BY <1>4, <1>5, <1>6

-----------------------------------------------------------------------------
(* The program keeps the invariant, whatever it is killed in.                *)
THEOREM SpecInv == Spec => []NameInv
<1> USE DEF Spec
<1> QED BY InitInv, NextInv, PTL

(* Every name leads to an inode that is marked, and a file has a link for    *)
(* each of its names: link, unlink and rmdir free nothing that is named, and *)
(* the commands that create name nothing before they have written it.        *)
THEOREM SpecNamesLead == Spec => []NamesLead
BY SpecInv, InvNamesLead, PTL

(* No block has two owners or two places in one, in memory or on the image,  *)
(* and none that has an owner is free; everything is of its type.            *)
THEOREM SpecBlocksOwned == Spec => []BlocksOwned
BY SpecInv, InvBlocksOwned, PTL

(* While nothing was lost the directories are a tree, and a directory's link *)
(* count is two and one for each directory in it.                            *)
THEOREM SpecTree == Spec => []Tree
BY SpecInv, InvTree, PTL

=============================================================================
