------------------------------ MODULE MountRoot -----------------------------
(***************************************************************************)
(* "7 - MountRoot": the in-memory inodes under ls, cd and pwd (util.c,     *)
(* mount_root.c).  No command puts what it gets: every inode met takes a   *)
(* slot for good, and when there is none left get_minode falls out of its  *)
(* search with the last slot, reads the inode into it and leaves the slot  *)
(* under the number of the inode before.                                   *)
(*                                                                         *)
(* refCount is left out: it is positive from the first get on, and nothing *)
(* looks at more.  Left out as well: directories of more blocks than the   *)
(* direct ones, and files of a block or more, whose bytes ls and pwd would *)
(* take for entries once a slot of the table holds them in the place of a  *)
(* directory; pwd in a file, which reads them at once, has no action.  A   *)
(* command that is refused changes the slots its lookup went through.      *)
(***************************************************************************)
EXTENDS Integers, SequencesExt, FiniteSetsExt

CONSTANTS
  NMINODE,     \* slots in minodes[] (64)
  ROOT_INODE,  \* 2
  Image,       \* the blocks of each directory's entries; a file has none
  Paths,       \* [abs |-> begins with a slash, names |-> ...] the user types
  Begins,      \* <<m, n>>: the name m begins n
  Lost         \* what nobody knows

ASSUME MountRootAssumption ==
  /\ NMINODE \in Nat \ {0}
  /\ DOMAIN Image \subseteq Nat \ {0} /\ IsFiniteSet(DOMAIN Image) /\ ROOT_INODE \in DOMAIN Image
  /\ \A i \in DOMAIN Image :
       /\ Image[i] \in Seq(Seq([name : STRING, inode : DOMAIN Image]))
       /\ Image[i] # <<>> => Len(Image[i][1]) >= 2   \* . and ..
       /\ \A e \in ToSet(FlattenSeq(Image[i])) : <<e.name, e.name>> \in Begins
  /\ \A p \in Paths : p.abs \in BOOLEAN /\ p.names \in Seq(STRING) /\ p.names # <<>>
  /\ Lost \notin DOMAIN Image

VARIABLES
  minodes,  \* slots: ino, and the inode whose contents are in ip
  cwd,      \* running->cwd: a slot
  shown,    \* inodes printed by the last command that printed any
  met,      \* history: inodes asked for
  full,     \* history: get_minode found no slot
  astray,   \* history: the last cd took another name for the one asked
  doubt     \* history: and so did the last ls, or it was astray

vars == <<minodes, cwd, shown, met, full, astray, doubt>>

Slot == 1..NMINODE
root == 1
Ino == DOMAIN Image
NoIno == 0
Dir == {i \in Ino : Image[i] # <<>>}
Entries(i) == FlattenSeq(Image[i])
Parent(i) == Image[i][1][2].inode

(* The directories are a tree: `..' leads up, and to the root in the end. *)
ASSUME TreeAssumption ==
  /\ ROOT_INODE \in Dir /\ Parent(ROOT_INODE) = ROOT_INODE
  /\ \A i \in Dir :
       /\ Image[i][1][1] = [name |-> ".", inode |-> i] /\ Image[i][1][2].name = ".."
       /\ Parent(i) \in Dir /\ \E e \in ToSet(Entries(Parent(i))) : e.inode = i
       /\ \A e \in ToSet(Entries(i)) :
            e.inode \in Dir => e.inode \in {i, Parent(i)} \/ Parent(e.inode) = i
  /\ \A s \in SUBSET (Dir \ {ROOT_INODE}) : s # {} => \E i \in s : Parent(i) \notin s

TypeOK ==
  /\ minodes \in [Slot -> [ino : Ino \cup {NoIno}, ip : Ino \cup {NoIno}]]
  /\ cwd \in Slot /\ minodes[cwd].ip \in Ino
  /\ shown \in Seq(Ino \cup {NoIno})
  /\ met \subseteq Ino /\ {full, astray, doubt} \subseteq BOOLEAN

Init ==
  /\ minodes = [s \in Slot |-> IF s = root THEN [ino |-> ROOT_INODE, ip |-> ROOT_INODE]
                                           ELSE [ino |-> NoIno, ip |-> NoIno]]
  /\ cwd = root /\ shown = <<>> /\ met = {ROOT_INODE}
  /\ full = FALSE /\ astray = FALSE /\ doubt = FALSE

-----------------------------------------------------------------------------
(* The state a command works on: the slots, the one get_minode returned, the  *)
(* number the lookup has come to, whether a name was taken for another, what *)
(* was printed.                                                              *)
Now == [m |-> minodes, at |-> cwd, ino |-> NoIno, met |-> met, full |-> full,
        wrong |-> FALSE, out |-> <<>>]
Ip(st) == st.m[st.at].ip

(* get_minode.  Faulty forms: the search begins behind the root's slot; the   *)
(* loop over the unused slots goes on to the last.                           *)
HitBehind(m, i) == {s \in Slot \ {root} : m[s].ino = i}
Hit(m, i) == {s \in Slot : m[s].ino = i}
Unused(m) == {s \in Slot : m[s].ino = NoIno}
GetMinodeOn(st, i) ==
  LET hit == Hit(st.m, i)
      s == IF hit # {} THEN Min(hit) ELSE NMINODE
      m == [t \in Slot |-> IF st.m[t].ino = NoIno THEN [st.m[t] EXCEPT !.ino = i] ELSE st.m[t]]
  IN [st EXCEPT !.at = s, !.met = @ \cup {i}, !.full = @ \/ (hit = {} /\ Unused(st.m) = {}),
        !.m = IF hit # {} THEN @ ELSE [m EXCEPT ![s].ip = i]]
GetMinode(st, i) ==
  LET hit == Hit(st.m, i)
      free == Unused(st.m)
      s == Min(IF hit # {} THEN hit ELSE free \cup {NMINODE})
  IN [st EXCEPT !.at = s, !.met = @ \cup {i},
        !.full = @ \/ (hit = {} /\ free = {}),
        !.m = IF hit # {} THEN @
              ELSE [@ EXCEPT ![s] = [ino |-> IF free = {} THEN st.m[s].ino ELSE i, ip |-> i]]]

(* search: the first entry whose name begins the one asked for. *)
Search(st, n) ==
  LET es == Entries(Ip(st))
      k == SelectInSeq(es, LAMBDA e : <<e.name, n>> \in Begins)
  IN [st EXCEPT !.ino = IF k = 0 THEN NoIno ELSE es[k].inode,
                !.wrong = @ \/ (k # 0 /\ es[k].name # n)]

(* get_inode_number *)
GetInodeNumber(p) ==
  FoldLeft(LAMBDA st, n : IF st.ino = NoIno THEN st ELSE Search(GetMinode(st, st.ino), n),
           Search([Now EXCEPT !.at = IF p.abs THEN root ELSE cwd], Head(p.names)),
           Tail(p.names))

Set(st) == minodes' = st.m /\ met' = st.met /\ full' = st.full

(* cd: any inode will do, a file too. *)
CdTo(p, st) ==
  \/ /\ st.ino = NoIno /\ Set(st) /\ UNCHANGED <<cwd, shown, astray, doubt>>
  \/ /\ st.ino # NoIno
     /\ \E to \in {GetMinode(st, st.ino)} : Set(to) /\ cwd' = to.at
     /\ astray' = (st.wrong \/ (astray /\ ~p.abs))
     /\ UNCHANGED <<shown, doubt>>
Cd(p) == \E st \in {GetInodeNumber(p)} : CdTo(p, st)
CdRoot == cwd' = root /\ astray' = FALSE /\ UNCHANGED <<minodes, shown, met, full, doubt>>

(* ls_dir: the entries of a block are got one after the other; then the size  *)
(* and the next block number are read from the slot the directory was in.    *)
(* Faulty form: the first block is all.                                      *)
LsBlock(st, es) ==
  FoldLeft(LAMBDA x, e :
             IF e.name \in {".", ".."} THEN x
             ELSE LET y == GetMinode(x, e.inode) IN [y EXCEPT !.out = Append(@, Ip(y))],
           st, es)
LsDirFirst(st) == LsBlock(st, Image[Ip(st)][1])
LsDir(st) ==
  LET MaxBlocks == Max({Len(Image[i]) : i \in Ino})
  IN FoldLeft(LAMBDA x, k :
                LET blocks == Image[x.m[st.at].ip]
                IN IF k > Len(blocks) THEN x ELSE LsBlock(x, blocks[k]),
              st, [k \in 1..MaxBlocks |-> k])

LsFrom(st, unsure) ==
  /\ \E end \in {IF Ip(st) \in Dir THEN LsDir(st) ELSE [st EXCEPT !.out = <<Ip(st)>>]} :
       Set(end) /\ shown' = end.out
  /\ doubt' = (st.wrong \/ unsure) /\ UNCHANGED <<cwd, astray>>
LsHere == LsFrom(Now, astray)
LsTo(p, st) ==
  \/ st.ino = NoIno /\ Set(st) /\ UNCHANGED <<cwd, shown, astray, doubt>>
  \/ st.ino # NoIno /\ LsFrom(GetMinode(st, st.ino), astray /\ ~p.abs)
Ls(p) == \E st \in {GetInodeNumber(p)} : LsTo(p, st)

(* rpwd: from slot to slot up to the pointer `root'; a name not found in the *)
(* parent is whatever its uninitialised pointer leads to.  Longer than the   *)
(* number of its states it never comes back, and on the way it may not meet  *)
(* a file either.                                                            *)
Up(st) ==
  LET my == Ip(st)
      up == GetMinode(st, Parent(my))
  IN [up EXCEPT !.out = <<IF \E e \in ToSet(Entries(Ip(up))) : e.inode = my THEN my ELSE NoIno>> \o @]
Climbed ==
  FoldLeft(LAMBDA st, k : IF st.at = root \/ Ip(st) \notin Dir THEN st ELSE Up(st), Now,
           [k \in 1..NMINODE * Cardinality(Ino) |-> k])
Pwd ==
  /\ minodes[cwd].ip \in Dir
  /\ \E st \in {Climbed} : st.at = root /\ Set(st) /\ shown' = st.out
  /\ doubt' = astray /\ UNCHANGED <<cwd, astray>>

Next == (\E p \in Paths : Cd(p) \/ Ls(p)) \/ CdRoot \/ LsHere \/ Pwd

Spec == Init /\ [][Next]_vars

-----------------------------------------------------------------------------
(* get_minode: every slot but the last holds the inode it is named for, full  *)
(* table or not, and no inode has two; so the table is not full before more  *)
(* inodes were met than it has slots.  (And everything is of its type.)       *)
SlotsTrue ==
  /\ TypeOK
  /\ \A s \in Slot \ {NMINODE} : minodes[s].ip = minodes[s].ino
  /\ \A i \in Ino : Cardinality(Hit(minodes, i)) <= 1
  /\ full => Cardinality(met) > NMINODE

(* pwd meets `root' as long as the table was never full: it looks for the     *)
(* slot, not for the inode.                                                  *)
PwdReturns == ~full /\ minodes[cwd].ip \in Dir => Climbed.at = root

(* What cd, ls and pwd promise, as long as the table was never full and no    *)
(* name was taken for another, `..' for `.' included.                        *)
Promise ==
  INSTANCE Walk WITH
    here <- IF full \/ astray THEN Lost ELSE minodes[cwd].ip,
    shown <- IF full \/ doubt THEN Lost ELSE shown
Walks == Promise!Spec
=============================================================================
