------------------------------ MODULE Namespace ------------------------------
(***************************************************************************)
(* Names, link counts and blocks of the EXT2 shell: the commands that      *)
(* create and remove names (cmd/creat.c, mkdir.c, link.c, symlink.c, cp.c, *)
(* unlink.c, rmdir.c), the current directory (cd.c) and what a kill leaves *)
(* of their work on the image.                                             *)
(*                                                                         *)
(* `fs' is the file system: the bitmaps, the inode table and the data      *)
(* blocks as they are on the image, and the inodes as the program sees     *)
(* them.  The two kinds of inode differ while an inode stays in memory: it *)
(* is written when its last reference is put, so never for the root and    *)
(* late for the current directory (module InodeCache).  Everything else is *)
(* written through.  A command is the sequence of the file systems its     *)
(* writes lead through; it is run to the end, or killed after one of them, *)
(* and then the program starts again from the image.                       *)
(*                                                                         *)
(* Left out: open files (module OpenFiles: nothing here is open between    *)
(* commands), free counts (module Bitmap), the byte layout of a directory  *)
(* block (a sequence of entries; a block holds so many, whatever their     *)
(* names), indirect blocks, and an image with no inode or block left:      *)
(* there creat_file and enter_dir_entry go on with the number -1.          *)
(***************************************************************************)
EXTENDS Integers, SequencesExt, FiniteSetsExt

CONSTANTS
  MaxIno,    \* inodes on the device
  MaxBlock,  \* data blocks on the device
  Name,      \* names of entries, without . and ..
  Prefix,    \* pairs of names of which the first begins the second
  Room,      \* entries in a directory block
  Target,    \* block numbers the target of a symbolic link is taken for
  MaxLinks,  \* bound: link count up to which link is tried
  MaxKills   \* bound: times the program ends

ROOT_INODE == 2
NoIno == 0
Ino == ROOT_INODE..MaxIno
Block == 1..MaxBlock
Beyond == MaxBlock + 1      \* a block number past the end of the bitmap
AllName == Name \cup {".", ".."}
LinkMod == 65536            \* i_links_count is 16 bits wide

ASSUME NamespaceAssumption ==
  /\ MaxIno \in Nat /\ MaxIno > ROOT_INODE /\ MaxIno < LinkMod
  /\ MaxBlock \in Nat /\ MaxBlock >= 2
  /\ Name \cap {".", ".."} = {} /\ Name # {} /\ IsFiniteSet(Name)
  /\ Prefix \subseteq Name \X Name
  /\ Target \subseteq Block \cup {Beyond}
  /\ Room \in Nat /\ Room >= 3
  /\ MaxLinks \in 0..LinkMod-1 /\ MaxKills \in Nat

VARIABLES
  fs,     \* the file system, see above
  cwd,    \* inode of running->cwd
  kills,
  harm    \* history: what went wrong, see Harm

vars == <<fs, cwd, kills, harm>>

Inode == [mode : {"none", "reg", "dir", "lnk"}, links : 0..LinkMod-1,
          blocks : Seq(Block \cup {Beyond})]
Entry == [name : AllName, ino : Ino]

(* What can go wrong.  lost: a kill discarded inodes not yet written; half:  *)
(* it came in the middle of a command that creates.  The claims below hold   *)
(* through both.  Fatal, and the model stops: cut, a kill in the middle of a *)
(* command that frees or links; entry, a command removed another entry than  *)
(* the one it was asked for; name, an inode was freed while a name leads to  *)
(* it; orphan, after a kill a directory was removed with others in it, its   *)
(* link count being too low; block, a block freed under its owner;           *)
(* directory, a directory overwritten with the contents of a file; hang, a   *)
(* directory's own block freed by a loop that never ends.                    *)
Fatal == {"cut", "entry", "name", "orphan", "block", "directory", "hang"}
Harm == {"lost", "half"} \cup Fatal
Going == harm \cap Fatal = {}

TypeOK ==
  /\ fs.imap \subseteq Ino /\ fs.bmap \subseteq Block
  /\ fs.inode \in [Ino -> Inode] /\ fs.table \in [Ino -> Inode]
  /\ fs.data \in [Block -> Seq(Entry)]
  /\ \A b \in Block : Len(fs.data[b]) <= Room
  /\ cwd \in Ino
  /\ kills \in 0..MaxKills /\ harm \subseteq Harm

-----------------------------------------------------------------------------
(* The image the program is started on: the root alone, or with a file f of  *)
(* one block.                                                                *)
f == CHOOSE n \in Name : TRUE
Unused == [mode |-> "none", links |-> 0, blocks |-> <<>>]
Empty == [i \in Ino |-> IF i = ROOT_INODE THEN [mode |-> "dir", links |-> 2, blocks |-> <<1>>]
                                           ELSE Unused]
Dots == << [name |-> ".", ino |-> ROOT_INODE], [name |-> "..", ino |-> ROOT_INODE] >>
Image(used, blocks, inode, entries) ==
  [imap |-> used, bmap |-> blocks, inode |-> inode, table |-> inode,
   data |-> [b \in Block |-> IF b = 1 THEN entries ELSE <<>>]]
Init ==
  /\ \/ fs = Image({ROOT_INODE}, {1}, Empty, Dots)
     \/ LET file == ROOT_INODE + 1
        IN fs = Image({ROOT_INODE, file}, {1, 2},
                      [Empty EXCEPT ![file] = [mode |-> "reg", links |-> 1, blocks |-> <<2>>]],
                      Append(Dots, [name |-> f, ino |-> file]))
  /\ cwd = ROOT_INODE
  /\ kills = 0
  /\ harm = {}

IsDir(s, i) == i # NoIno /\ s.inode[i].mode = "dir"

(* search: the first entry, in the order of the blocks of directory d and in *)
(* each from its start, whose name is one of N; as <<block, index>>.         *)
Place(s, d, N) ==
  LET blocks == s.inode[d].blocks
      in(b) == SelectInSeq(s.data[b], LAMBDA e : e.name \in N)
      j == SelectInSeq(blocks, LAMBDA b : in(b) # 0)
  IN IF j = 0 THEN <<>> ELSE <<blocks[j], in(blocks[j])>>
EntryAt(s, place) == s.data[place[1]][place[2]]
Lookup(s, d, n) ==
  IF ~IsDir(s, d) \/ Place(s, d, {n}) = <<>> THEN NoIno
  ELSE EntryAt(s, Place(s, d, {n})).ino

(* get_inode_number: the directories a path may lead to, from the root or    *)
(* from cwd, and everything a name in them leads to.                         *)
Entries(s, d) == UNION {ToSet(s.data[b]) : b \in ToSet(s.inode[d].blocks)}
Children(s, d) == {e.ino : e \in Entries(s, d)}
DirsIn(s, I) == {i \in I : IsDir(s, i)}
Reached ==
  LET R[k \in 0..MaxIno - ROOT_INODE] ==
        IF k = 0 THEN DirsIn(fs, {ROOT_INODE, cwd})
        ELSE R[k-1] \cup DirsIn(fs, UNION {Children(fs, d) : d \in R[k-1]})
  IN R[MaxIno - ROOT_INODE]
NamesIn(s, d) == {e \in Entries(s, d) : e.name \in Name}
Subdirs(s, d) == {e \in NamesIn(s, d) : IsDir(s, e.ino)}
Named == UNION {Children(fs, d) : d \in Reached}
Files == {i \in Named : ~IsDir(fs, i)}

(* allocate_inode, allocate_block (k times): the lowest numbers, zeroed.     *)
FreeIno(s) == Ino \ s.imap
FreeBlock(s) == Block \ s.bmap
NewIno(s) == Min(FreeIno(s))
NewBlocks(s, k) ==
  CHOOSE q \in [1..k -> FreeBlock(s)] :
    \A j \in 1..k : \A b \in FreeBlock(s) : b < q[j] <=> \E l \in 1..j-1 : b = q[l]
NewBlock(s) == NewBlocks(s, 1)[1]
WithIno(s) == [s EXCEPT !.imap = @ \cup {NewIno(s)}]
WithBlocks(s, k) == [s EXCEPT !.bmap = @ \cup ToSet(NewBlocks(s, k))]

(* put_minode: the inode is written unless root or cwd keep it.              *)
Put(s, i) == IF i \in {ROOT_INODE, cwd} THEN s ELSE [s EXCEPT !.table[i] = s.inode[i]]

(* clear_blocks.  What a free block holds is left out.  The i_block of a     *)
(* symbolic link is the characters of its target, and treated the same.      *)
(* Faulty form: the numbers are left in i_block.                             *)
Freed(s, i) == ToSet(s.inode[i].blocks)
ClearBlocksKept(s, i) ==
  [s EXCEPT !.bmap = @ \ Freed(s, i),
            !.data = [b \in Block |-> IF b \in Freed(s, i) THEN <<>> ELSE s.data[b]]]
ClearBlocks(s, i) ==
  [s EXCEPT !.bmap = @ \ Freed(s, i),
            !.data = [b \in Block |-> IF b \in Freed(s, i) THEN <<>> ELSE s.data[b]],
            !.inode[i].blocks = <<>>]
Crashes(s, i) == Beyond \in Freed(s, i)
Owning(s) == {k \in s.imap : s.inode[k].mode \in {"reg", "dir"}}
Strays(s, i) == s.inode[i].mode = "lnk" /\ \E k \in Owning(s) : Freed(s, i) \cap Freed(s, k) # {}

(* enter_dir_entry: into the first block with room, else into a new one that *)
(* only the inode in memory knows of.  A sequence of one or two writes.      *)
Roomy(s, d) == SelectInSeq(s.inode[d].blocks, LAMBDA b : Len(s.data[b]) < Room)
CanEnter(s, d) == Roomy(s, d) # 0 \/ FreeBlock(s) # {}
EnterDirEntry(s, d, i, n) ==
  LET e == [name |-> n, ino |-> i]
      b == NewBlock(s)
      grown == WithBlocks(s, 1)
  IN IF Roomy(s, d) # 0
     THEN <<[s EXCEPT !.data[s.inode[d].blocks[Roomy(s, d)]] = Append(@, e)]>>
     ELSE <<grown, [grown EXCEPT !.inode[d].blocks = Append(@, b), !.data[b] = <<e>>]>>

(* remove_dir_entry compares as many characters as the entry has: the first  *)
(* entry whose name begins n is removed.  One that is alone in its block     *)
(* takes the block with it, and the loop over the next blocks never ends.    *)
Beginning(n) == {m \in AllName : m = n \/ <<m, n>> \in Prefix \cup {<<".", "..">>}}
Hit(s, d, n) == Place(s, d, Beginning(n))
Hangs(s, d, n) == Hit(s, d, n) # <<>> /\ Len(s.data[Hit(s, d, n)[1]]) = 1
RemoveDirEntry(s, d, n) ==
  IF Hit(s, d, n) = <<>> THEN s
  ELSE LET b == Hit(s, d, n)[1]
       IN IF Hangs(s, d, n) THEN [s EXCEPT !.bmap = @ \ {b}]
          ELSE [s EXCEPT !.data[b] = RemoveAt(@, Hit(s, d, n)[2])]
WrongEntry(s, d, n, i) ==
  Hit(s, d, n) # <<>> /\ EntryAt(s, Hit(s, d, n)) # [name |-> n, ino |-> i]

-----------------------------------------------------------------------------
(* The program ends at file system s and starts again (mount_root): what was *)
(* in memory only is gone.                                                   *)
Restart(s, h) ==
  /\ kills < MaxKills
  /\ kills' = kills + 1
  /\ fs' = [s EXCEPT !.inode = s.table]
  /\ cwd' = ROOT_INODE
  /\ harm' = harm \cup h \cup IF s.inode # s.table THEN {"lost"} ELSE {}

Kill == Going /\ Restart(fs, {})

(* A command whose writes lead through the file systems ss: run to its end,  *)
(* doing the harm h, or killed on the way, doing k as well.                  *)
Run(ss, h, k) ==
  \/ /\ fs' = Last(ss)
     /\ harm' = harm \cup h
     /\ UNCHANGED <<cwd, kills>>
  \/ \E n \in 1..Len(ss)-1 : Restart(ss[n], h \cup k)

New(p, n) == Going /\ IsDir(fs, p) /\ Lookup(fs, p, n) = NoIno /\ p \in Reached

(* creat_file.  Faulty form: the name is entered before the inode is written.*)
Blank == [mode |-> "reg", links |-> 1, blocks |-> <<>>]
CreatFileLate(s, p, n) ==
  LET i == NewIno(s)
      marked == WithIno(s)
      entered == EnterDirEntry(marked, p, i, n)
  IN <<marked>> \o entered \o <<Put([Last(entered) EXCEPT !.inode[i] = Blank], i)>>
CreatFile(s, p, n) ==
  LET i == NewIno(s)
      marked == WithIno(s)
      put == Put([marked EXCEPT !.inode[i] = Blank], i)
  IN <<marked, put>> \o EnterDirEntry(put, p, i, n)
CanCreat(p) == FreeIno(fs) # {} /\ CanEnter(fs, p)

Creat(p, n) ==
  /\ New(p, n)
  /\ CanCreat(p)
  /\ LET made == CreatFile(fs, p, n) IN Run(made \o <<Put(Last(made), p)>>, {}, {"half"})

(* js_mkdir, my_mkdir: an inode with two links and a block with . and ..,    *)
(* a name, one more link for the parent.                                     *)
MadeDir(p, n) ==
  LET i == NewIno(fs)
      b == NewBlock(fs)
      marked == WithIno(fs)
      grown == WithBlocks(marked, 1)
      put == Put([grown EXCEPT !.inode[i] = [mode |-> "dir", links |-> 2, blocks |-> <<b>>]], i)
      dots == [put EXCEPT !.data[b] = << [name |-> ".", ino |-> i], [name |-> "..", ino |-> p] >>]
  IN <<marked, grown, put, dots>> \o EnterDirEntry(dots, p, i, n)
CanMkdir(p) ==
  /\ FreeIno(fs) # {}
  /\ Cardinality(FreeBlock(fs)) >= IF Roomy(fs, p) = 0 THEN 2 ELSE 1
Mkdir(p, n) ==
  /\ New(p, n)
  /\ CanMkdir(p)
  /\ LET made == MadeDir(p, n)
     IN Run(made \o <<Put([Last(made) EXCEPT !.inode[p].links = (@ + 1) % LinkMod], p)>>, {}, {"half"})

(* js_link: another name for inode i, which no directory is. *)
Link(i, p, n) ==
  /\ New(p, n)
  /\ i \in Files
  /\ fs.inode[i].links < MaxLinks
  /\ CanEnter(fs, p)
  /\ LET entered == EnterDirEntry(fs, p, i, n)
         old == Put([Last(entered) EXCEPT !.inode[i].links = @ + 1], i)
     IN Run(entered \o <<old, Put(old, p)>>, {}, {"cut"})

(* js_symlink: the characters of the target (some file that exists) go into  *)
(* i_block, where they are the block number c.                               *)
Symlink(p, n, c) ==
  /\ New(p, n)
  /\ Files # {}
  /\ CanCreat(p)
  /\ LET made == CreatFile(fs, p, n)
         k == NewIno(fs)
         put == Put([Last(made) EXCEPT !.inode[k].mode = "lnk", !.inode[k].blocks = <<c>>], k)
     IN Run(made \o <<put, Put(put, p)>>, {}, {"half"})

(* js_cp: a destination that does not exist is created; its blocks are freed *)
(* (open_file with WRITE) and as many as the source then has are written.    *)
(* The source of a copy onto itself has none left.  The target of a symbolic *)
(* link is shorter than a block.                                             *)
Length(s, i) == IF s.inode[i].mode = "lnk" THEN 1 ELSE Len(s.inode[i].blocks)
Copied(s, i, d) ==
  LET clear == ClearBlocks(s, d)
      k == Length(clear, i)
      grown == WithBlocks(clear, k)
  IN <<clear, grown, Put([grown EXCEPT !.inode[d].blocks = NewBlocks(clear, k)], d)>>
CanCopy(s, i, d) ==
  LET clear == ClearBlocks(s, d) IN Cardinality(FreeBlock(clear)) >= Length(clear, i)

CpNew(i, p, n) ==
  /\ New(p, n)
  /\ i \in Named
  /\ CanCreat(p)
  /\ LET made == CreatFile(fs, p, n)
         put == Put(Last(made), p)
     IN /\ CanCopy(put, i, NewIno(fs))
        /\ Run(made \o <<put>> \o Copied(put, i, NewIno(fs)), {}, {"half"})

CpOnto(i, d) ==
  /\ Going /\ i \in Named /\ d \in Named
  /\ ~Crashes(fs, d)
  /\ CanCopy(fs, i, d)
  /\ Run(Copied(fs, i, d),
         IF IsDir(fs, d) THEN {"directory"} ELSE IF Strays(fs, d) THEN {"block"} ELSE {}, {"cut"})

(* js_unlink of the name n in directory p: clear_blocks is called whatever   *)
(* the link count, an inode is freed only if it is a symbolic link, and that *)
(* whatever its link count.  A target of more than one character is a block  *)
(* number beyond the bitmap, and the program ends.                           *)
Unlinked(i) ==
  LET s == [fs EXCEPT !.inode[i].links = (@ + LinkMod - 1) % LinkMod]
  IN IF s.inode[i].mode = "lnk" THEN [s EXCEPT !.imap = @ \ {i}] ELSE s
UnlinkHarm(p, n, i) ==
  (IF Strays(fs, i) THEN {"block"} ELSE {})
    \cup (IF fs.inode[i].mode = "lnk" /\ fs.inode[i].links # 1 THEN {"name"} ELSE {})
    \cup (IF WrongEntry(fs, p, n, i) THEN {"entry"} ELSE {})
RemovableFile(p, n) ==
  /\ Going
  /\ Lookup(fs, p, n) # NoIno /\ ~IsDir(fs, Lookup(fs, p, n))
  /\ p \in Reached
Unlink(p, n) ==
  /\ RemovableFile(p, n)
  /\ LET i == Lookup(fs, p, n)
         counted == Unlinked(i)
         clear == ClearBlocks(counted, i)
         removed == RemoveDirEntry(clear, p, n)
         h == UnlinkHarm(p, n, i)
     IN IF Crashes(fs, i) THEN Restart(counted, {"cut"})
        ELSE IF Hangs(fs, p, n) THEN Restart(removed, h \cup {"hang"})
        ELSE Run(<<counted, clear, removed, Put(removed, p), Put(Put(removed, p), i)>>, h, {"cut"})

(* js_rmdir of the name n in directory p (`.' and `..' are names too): no    *)
(* other user, at most two links; the parent is the second entry of the      *)
(* first block, and need not be p.  Faulty form: three links pass.           *)
InUse(i) == i \in {ROOT_INODE, cwd}
FewLinksOffByOne(i) == fs.inode[i].links <= 3
FewLinks(i) == fs.inode[i].links <= 2
ParentOf(i) == fs.data[fs.inode[i].blocks[1]][2].ino
HasParent(i) ==
  /\ fs.inode[i].blocks # <<>> /\ Len(fs.data[fs.inode[i].blocks[1]]) >= 2
  /\ IsDir(fs, ParentOf(i))
Rmdir(p, n) ==
  /\ Going
  /\ LET i == Lookup(fs, p, n)
     IN /\ IsDir(fs, i)
        /\ ~InUse(i) /\ FewLinks(i) /\ HasParent(i)
        /\ p \in Reached
        /\ LET q == ParentOf(i)
               clear == ClearBlocks(fs, i)
               unmarked == [clear EXCEPT !.imap = @ \ {i}]
               put == Put(unmarked, i)
               removed == RemoveDirEntry(put, q, n)
               counted == [removed EXCEPT !.inode[q].links = (@ + LinkMod - 1) % LinkMod]
               h == (IF WrongEntry(put, q, n, i) THEN {"entry"} ELSE {})
                      \cup (IF Subdirs(fs, i) # {} /\ harm # {} THEN {"orphan"} ELSE {})
           IN IF Hangs(put, q, n) THEN Restart(removed, h \cup {"hang"})
              ELSE Run(<<clear, unmarked, put, removed, Put(counted, q)>>, h, {"cut"})

(* js_cd: the old directory is put, and written if that was its last user. *)
Cd(i) ==
  /\ Going /\ i \in Reached
  /\ cwd' = i
  /\ fs' = IF cwd \in {ROOT_INODE, i} THEN fs ELSE [fs EXCEPT !.table[cwd] = fs.inode[cwd]]
  /\ UNCHANGED <<kills, harm>>

Next ==
  \/ \E p \in Ino, n \in Name : Creat(p, n) \/ Mkdir(p, n) \/ Unlink(p, n)
  \/ \E p \in Ino, n \in AllName : Rmdir(p, n)
  \/ \E i, p \in Ino, n \in Name : Link(i, p, n) \/ CpNew(i, p, n)
  \/ \E p \in Ino, n \in Name, c \in Target : Symlink(p, n, c)
  \/ \E i, d \in Ino : CpOnto(i, d)
  \/ \E i \in Ino : Cd(i)
  \/ Kill

Spec == Init /\ [][Next]_vars

-----------------------------------------------------------------------------
(* The names in the directories that are in use. *)
LiveDirs == {d \in fs.imap : fs.inode[d].mode = "dir"}
NamesOf(i) == UNION {{<<d, e.name>> : e \in {x \in NamesIn(fs, d) : x.ino = i}} : d \in LiveDirs}

(* Every name leads to an inode that is marked, and a file has at least as   *)
(* many links as names: nothing is freed, and no number reused, while a name *)
(* leads to it.  Holds over kills between commands and in the middle of      *)
(* those that create: they mark and write an inode before they name it.      *)
NamesLead ==
  Going =>
    /\ \A d \in LiveDirs : \A e \in NamesIn(fs, d) : e.ino \in fs.imap
    /\ \A i \in fs.imap \ LiveDirs : fs.inode[i].links >= Cardinality(NamesOf(i))

(* The inodes and places a block is in. *)
Owners(inode, b) ==
  UNION {{<<i, j>> : j \in {k \in DOMAIN inode[i].blocks : inode[i].blocks[k] = b}} :
           i \in {k \in fs.imap : inode[k].mode \in {"reg", "dir"}}}

(* A block of a file or directory is marked and has one owner and one place, *)
(* on the image as in memory, whatever was lost: freeing and allocating      *)
(* agree with what the inodes say.  (And everything is of its type.)          *)
BlocksOwned ==
  /\ TypeOK
  /\ Going =>
       \A inode \in {fs.inode, fs.table} : \A b \in Block :
         /\ Cardinality(Owners(inode, b)) <= 1
         /\ Owners(inode, b) # {} => b \in fs.bmap

(* The directories are a tree: each but the root has one name, in the        *)
(* directory its .. says, and is reached from the root; nobody sits in one   *)
(* that is gone.  rmdir sees to it by two counts only, references and links, *)
(* so the link count is two and one for each directory inside.               *)
Tree ==
  harm = {} =>
    /\ cwd \in LiveDirs
    /\ \A d \in LiveDirs \ {ROOT_INODE} :
         /\ d \in Reached
         /\ \E n \in Name : NamesOf(d) = {<<ParentOf(d), n>>}
    /\ \A d \in LiveDirs : fs.inode[d].links = 2 + Cardinality(Subdirs(fs, d))
=============================================================================
