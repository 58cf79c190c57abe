------------------------------ MODULE BlockMap ------------------------------
(***************************************************************************)
(* The block map of a regular file in the EXT2 shell: myread and mywrite   *)
(* (utils/file.c), clear_blocks (utils/readwrite.c), and the commands that *)
(* use them: cp, open for writing and close, unlink.  A number of direct   *)
(* blocks, then one index block, then an index block of index blocks.      *)
(*                                                                         *)
(* What is freed and written in a block is on the device at once; the      *)
(* inode only when its last user puts it.  In between the program may be   *)
(* killed, and starts again with the inodes of the image.                  *)
(*                                                                         *)
(* cp does not set the offset its destination is opened at: mywrite starts *)
(* where the last user of the table entry stopped (module OpenFiles).      *)
(*                                                                         *)
(* An open for writing, or a cp, that finds fd[] full has freed the blocks *)
(* of the file when it throws its error, and put_minode then writes        *)
(* nothing: the file is empty as long as its slot of minodes[] is not      *)
(* taken, and what it was on the image, less its blocks, after that.       *)
(***************************************************************************)
EXTENDS Blocks

CONSTANT File   \* inode numbers of the regular files

ASSUME BlockMapAssumption == File \subseteq Nat \ {0}

VARIABLES
  inode,   \* the files' inodes as the program sees them
  image,   \* and as they are on the device
  open,    \* files cleared and not yet written back
  refused, \* files cleared by a command that was then refused, while they are in
           \* the slot its table entry, which nobody gives back, points to
  offset,  \* of the table entry cp's destination will get
  kills    \* bound: times the program may yet be killed

fileVars == <<inode, image, open, refused, offset, kills>>
Inode == [size : Nat, map : Map]
Ceil(n) == (n + PER_BLOCK - 1) \div PER_BLOCK

Files == [marked |-> marked, number |-> number, chain |-> chain, ok |-> TRUE, inode |-> inode]
SetFiles(st) == SetDevice(st) /\ inode' = st.inode

-----------------------------------------------------------------------------
(* myread: the block a logical block of the file is in. *)
Physical(num, map, lb) ==
  LET k == lb - NUM_DIRECT - PER_BLOCK
  IN IF lb < NUM_DIRECT THEN map[lb]
     ELSE IF k < 0 THEN num[map[IND]][lb - NUM_DIRECT]
     ELSE num[num[map[DBL]][k \div PER_BLOCK]][k % PER_BLOCK]

(* A read of one block from a file at an offset that begins one.  Faulty     *)
(* form: a whole block whatever is left of the file.                         *)
MyReadWhole(st, f, off) ==
  LET b == Physical(st.number, st.inode[f].map, off \div PER_BLOCK)
  IN [u \in 1..PER_BLOCK |-> st.number[b][u - 1]]
MyRead(st, f, off) ==
  LET b == Physical(st.number, st.inode[f].map, off \div PER_BLOCK)
      left == st.inode[f].size - off
  IN [u \in 1..Min({left, PER_BLOCK}) |-> st.number[b][u - 1]]

(* The contents of a file, as cat shows them. *)
Contents(num, ino) ==
  [n \in 1..ino.size |->
     num[Physical(num, ino.map, (n - 1) \div PER_BLOCK)][(n - 1) % PER_BLOCK]]

(* mywrite: a block for slot k of i_block, or of index block b, unless it has *)
(* one.                                                                      *)
Attach(st, f, k) ==
  IF st.inode[f].map[k] # 0 THEN st
  ELSE [Allocate(st) EXCEPT !.inode[f].map[k] = New(st)]
AttachIn(st, b, k) ==
  IF st.number[b][k] # 0 THEN st ELSE [Allocate(st) EXCEPT !.number[b][k] = New(st)]

(* A missing index block is stored in i_block[lb], which is the slot of the   *)
(* index block only if lb is the first logical block behind it: a write that *)
(* begins further on is out of the model.                                    *)
Mapped(st, f, lb) ==
  LET k == lb - NUM_DIRECT - PER_BLOCK
      ind == Attach(st, f, IND)
      dbl == Attach(st, f, DBL)
      mid == AttachIn(dbl, dbl.inode[f].map[DBL], k \div PER_BLOCK)
      b == mid.number[mid.inode[f].map[DBL]][k \div PER_BLOCK]
  IN IF lb < NUM_DIRECT THEN Attach(st, f, lb)
     ELSE IF k >= 0 THEN AttachIn(mid, b, k % PER_BLOCK)
     ELSE IF st.inode[f].map[IND] = 0 /\ lb # IND THEN [st EXCEPT !.ok = FALSE]
     ELSE AttachIn(ind, ind.inode[f].map[IND], lb - NUM_DIRECT)

(* The part of a write that falls in one block; i_size grows by its length   *)
(* if the offset has passed it.                                              *)
WriteIn(st, f, off, buf) ==
  LET s == Mapped(st, f, off \div PER_BLOCK)
      b == Physical(s.number, s.inode[f].map, off \div PER_BLOCK)
      u0 == off % PER_BLOCK
      text == [u \in u0..u0 + Len(buf) - 1 |-> buf[u - u0 + 1]] @@ s.number[b]
  IN IF buf = <<>> \/ ~s.ok THEN s
     ELSE [s EXCEPT !.number[b] = text, !.chain[b] = <<>>,
                    !.inode[f].size = IF off + Len(buf) > @ THEN @ + Len(buf) ELSE @]

(* mywrite of at most a block, which may fall in two: the second part is     *)
(* taken from the beginning of the buffer again.                             *)
MyWrite(st, f, off, buf) ==
  LET n == Min({PER_BLOCK - (off % PER_BLOCK), Len(buf)})
      first == WriteIn(st, f, off, SubSeq(buf, 1, n))
  IN IF n = Len(buf) THEN first ELSE WriteIn(first, f, off + n, SubSeq(buf, 1, Len(buf) - n))

(* clear_blocks.  Faulty form: the first slot is not reset. *)
ClearBlocksKept(st, f) ==
  LET map == st.inode[f].map
  IN [st EXCEPT !.marked = @ \ Covered(st.number, map),
                !.inode[f] = [size |-> 0, map |-> [NoBlock EXCEPT ![0] = map[0]]]]
ClearBlocks(st, f) ==
  [st EXCEPT !.marked = @ \ Covered(st.number, st.inode[f].map),
             !.inode[f] = [size |-> 0, map |-> NoBlock]]

(* The loop of cp, a block at a time.  A file copied onto itself is empty by *)
(* then.                                                                     *)
Offsets(size) == [k \in 1..Ceil(size) |-> (k - 1) * PER_BLOCK]
Chunk(s, i, j, off, at) ==
  IF s.ok /\ \A l \in {i, j} : Sane(s.number, s.inode[l].map)
  THEN MyWrite(s, j, off + at, MyRead(s, i, at)) ELSE [s EXCEPT !.ok = FALSE]
Copied(st, i, j, off) ==
  FoldLeft(LAMBDA s, at : Chunk(s, i, j, off, at), st, Offsets(st.inode[i].size))
CpTo(i, j) == Copied(ClearBlocks(Files, j), i, j, offset)

-----------------------------------------------------------------------------
(* The image: the files one after the other, laid out as mywrite does; each  *)
(* integer of their contents is one of a kind.                               *)
Text(f, at, n) == [u \in 1..n |-> NBLOCKS + 100 * f + at + u]
Laid(st, f, size) ==
  FoldLeft(LAMBDA s, at : MyWrite(s, f, at, Text(f, at, Min({PER_BLOCK, size - at}))),
           st, Offsets(size))
FileInit(st, Size, bound) ==
  LET empty == [size |-> 0, map |-> NoBlock]
      bare == [marked |-> st.marked, number |-> st.number, chain |-> st.chain, ok |-> TRUE,
               inode |-> [f \in File |-> empty]]
      full == FoldLeft(LAMBDA x, f : Laid(x, f, Size[f]), bare, SetToSeq(File))
  IN /\ SetAll(full) /\ inode = full.inode /\ image = full.inode
     /\ open = {} /\ refused = {} /\ offset = 0 /\ kills = bound

(* duplicate_oft finds no table entry in use, other than for reading, whose   *)
(* pointer leads to the file's slot: neither an open one nor one left behind  *)
(* by a refused open.  (That one goes on to refuse whoever has the slot next; *)
(* the slots are in module OpenFiles.)                                       *)
Available(f) == f \notin open \cup refused

(* open for writing, and unlink up to the put: the blocks are free at once.   *)
ClearOf(f) ==
  /\ Available(f) /\ Sane(number, inode[f].map)
  /\ SetFiles(ClearBlocks(Files, f))
  /\ UNCHANGED <<image, offset, kills>>
Clear(f) == ClearOf(f) /\ open' = open \cup {f} /\ UNCHANGED refused

(* open for writing, or cp to the file, with fd[] full: put_minode returns    *)
(* with the inode not written.                                               *)
OpenRefused(f) == ClearOf(f) /\ refused' = refused \cup {f} /\ UNCHANGED open

(* close, the end of unlink: put_minode writes the inode. *)
Put(f) ==
  /\ f \in open
  /\ image' = [image EXCEPT ![f] = inode[f]]
  /\ open' = open \ {f}
  /\ UNCHANGED <<marked, number, chain, inode, refused, offset, kills>>

(* Another command gets the inode while it is still in its slot, and its put   *)
(* writes it (ls, stat, ...).                                                 *)
Save(f) ==
  /\ f \in refused
  /\ image' = [image EXCEPT ![f] = inode[f]]
  /\ UNCHANGED <<marked, number, chain, inode, open, refused, offset, kills>>

(* get_minode takes the slot for another inode; the file is read again from   *)
(* the image.                                                                *)
Forget(f) ==
  /\ f \in refused
  /\ inode' = [inode EXCEPT ![f] = image[f]]
  /\ refused' = refused \ {f}
  /\ UNCHANGED <<marked, number, chain, image, open, offset, kills>>

(* A file opened for appending and closed leaves its size as the offset of   *)
(* its table entry.                                                          *)
OpenAppend(f) ==
  /\ Available(f) /\ offset' = inode[f].size
  /\ UNCHANGED <<marked, number, chain, inode, image, open, refused, kills>>

(* cp: neither file is open for writing (duplicate_oft).  Its end resets the *)
(* offset and puts both inodes.                                              *)
CanCp(i, j) ==
  /\ Available(i) /\ Available(j)
  /\ Sane(number, inode[i].map) /\ Sane(number, inode[j].map)
CpDone(j, st) ==
  /\ st.ok /\ SetFiles(st)
  /\ image' = [image EXCEPT ![j] = st.inode[j]]
  /\ offset' = 0
  /\ UNCHANGED <<open, refused, kills>>
Cp(i, j) == CanCp(i, j) /\ CpDone(j, CpTo(i, j))

(* The program is killed at its prompt, or in a cp that has copied all but    *)
(* not put the inode.                                                        *)
Restart ==
  /\ kills > 0 /\ kills' = kills - 1
  /\ open' = {} /\ refused' = {} /\ offset' = 0 /\ inode' = image /\ UNCHANGED image
KillFiles == Restart /\ UNCHANGED <<marked, number, chain>>
CpCut(st) == st.ok /\ SetDevice(st)
CpKilled(i, j) == Restart /\ CanCp(i, j) /\ CpCut(CpTo(i, j))
=============================================================================
