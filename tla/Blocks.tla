------------------------------- MODULE Blocks -------------------------------
(***************************************************************************)
(* The blocks of the EXT2 shell's device as files and directories share    *)
(* them: the block bitmap (utils/bitmap.c), what each block holds, and the *)
(* fifteen numbers of i_block[] (of which the last is never used).         *)
(*                                                                         *)
(* A block is read in two ways: as PER_BLOCK integers, which are block     *)
(* numbers or the contents of a file, and as a chain of directory entries. *)
(* What a directory's block says when read as integers is left out: they   *)
(* are no block numbers; so is what a chain of entries read in integers is *)
(* but that one of zeros has a rec_len of 0, over which every search loops.*)
(* Left out as well: a full device, on which the code goes on with block   *)
(* number -1 and buffers nobody filled (the bitmap itself: module Bitmap). *)
(***************************************************************************)
EXTENDS Integers, SequencesExt, FiniteSetsExt, TLC

CONSTANTS
  NUM_DIRECT,  \* direct blocks of an inode (12)
  PER_BLOCK,   \* integers in a block (256)
  NBLOCKS      \* blocks on the device

ASSUME BlocksAssumption ==
  /\ NUM_DIRECT \in Nat \ {0} /\ PER_BLOCK \in Nat /\ PER_BLOCK > NUM_DIRECT
  /\ NBLOCKS \in Nat \ {0}

Block == 1..NBLOCKS
Number == 0..NBLOCKS          \* 0 is no block, and when it is read the boot block
Opaque == NBLOCKS + 1         \* part of a directory entry, taken for a number
Unit == 0..PER_BLOCK-1
IND == NUM_DIRECT             \* INDIRECT_BLOCK_NUMBER
DBL == NUM_DIRECT + 1         \* DOUBLE_INDIRECT_BLOCK_NUMBER
Map == [0..DBL -> Number]     \* i_block
NoBlock == [k \in 0..DBL |-> 0]
Zeros == [u \in Unit |-> 0]

VARIABLES
  marked,  \* blocks marked in the bitmap
  number,  \* the integers in each block
  chain    \* the directory entries in each block, <<>> if it is none

(* The state a command works on; ok: the device has not run out of blocks.   *)
Device == [marked |-> marked, number |-> number, chain |-> chain, ok |-> TRUE]
SetAll(st) == marked = st.marked /\ number = st.number /\ chain = st.chain
SetDevice(st) == marked' = st.marked /\ number' = st.number /\ chain' = st.chain

(* allocate_block: the lowest free block, filled with zeros. *)
Free(st) == Block \ st.marked
New(st) == IF Free(st) = {} THEN 0 ELSE Min(Free(st))
Allocate(st) ==
  IF Free(st) = {} THEN [st EXCEPT !.ok = FALSE]
  ELSE [st EXCEPT !.marked = @ \cup {New(st)}, !.number[New(st)] = Zeros,
                  !.chain[New(st)] = <<>>]

(* The numbers in an index block; the index blocks below the doubly indirect *)
(* one.                                                                      *)
In(num, b) == IF b \notin Block THEN {} ELSE {num[b][u] : u \in Unit} \ {0}
Middle(num, map) == In(num, map[DBL])

(* What clear_blocks gives back: everything i_block leads to but the blocks   *)
(* between the doubly indirect one and the data.  Faulty form: the indirect  *)
(* block itself is not given back.                                           *)
Data(num, map) ==
  {map[k] : k \in 0..NUM_DIRECT-1} \cup In(num, map[IND])
    \cup UNION {In(num, b) : b \in Middle(num, map)}
CoveredNoIndirect(num, map) == (Data(num, map) \cup {map[DBL]}) \ {0}
Covered(num, map) == (Data(num, map) \cup {map[IND], map[DBL]}) \ {0}
Reach(num, map) == Covered(num, map) \cup Middle(num, map)

(* What i_block leads to are block numbers. *)
Sane(num, map) ==
  /\ In(num, map[IND]) \subseteq Block /\ Middle(num, map) \subseteq Block
  /\ \A b \in Middle(num, map) : In(num, b) \subseteq Block
=============================================================================
