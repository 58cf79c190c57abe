----------------------------- MODULE DirBlocks ------------------------------
(***************************************************************************)
(* The blocks of one directory of the EXT2 shell: search (utils/search.c), *)
(* enter_dir_entry and remove_dir_entry (utils/readwrite.c) and            *)
(* assign_first_empty_bno (utils/indirect.c), as the commands that make    *)
(* and remove names call them: a name is entered only after search has not *)
(* found it, and removed only after search has.                            *)
(*                                                                         *)
(* A block is a chain of entries: each says how far the next one is, and   *)
(* the last one reaches to the end of the block.  The entries of an index  *)
(* block are assigned in slot NUM_DIRECT only, whatever the loop counts,   *)
(* and search takes the index block itself for a block of entries: it      *)
(* meets a rec_len of zero and never comes back.  So nothing behind the    *)
(* index block is ever searched, and a second block there never assigned.  *)
(*                                                                         *)
(* Left out: names that begin other names (module Namespace), inode        *)
(* numbers, i_size, and directories that are root or cwd, whose i_block is *)
(* written later (module Namespace).                                       *)
(***************************************************************************)
EXTENDS Blocks

CONSTANTS
  Name,      \* names, without . and ..
  Long,      \* those that need more room
  DIR_UNITS  \* block_size, in the smallest room an entry takes

ASSUME DirBlocksAssumption ==
  Long \subseteq Name /\ Name \cap {".", ".."} = {} /\ DIR_UNITS \in Nat /\ DIR_UNITS >= 3

VARIABLES
  dir,   \* i_block of the directory
  hung   \* a loop of the current command never ends

dirVars == <<dir, hung>>
Entry == [name : Name \cup {".", ".."}, rec_len : 1..DIR_UNITS]
Dir == [marked |-> marked, number |-> number, chain |-> chain, ok |-> TRUE, hung |-> FALSE]
SetDir(st) == SetDevice(st) /\ hung' = st.hung

(* 4 * ((8 + name_len + 3) / 4) *)
Ideal(n) == IF n \in Long THEN 2 ELSE 1

(* mkdir: the first block holds . and .. *)
MadeDir(others) ==
  [marked |-> {1} \cup others,
   number |-> [b \in Number |-> IF b = 1 THEN [u \in Unit |-> Opaque] ELSE Zeros],
   chain |-> [b \in Number |->
     IF b = 1 THEN << [name |-> ".", rec_len |-> 1], [name |-> "..", rec_len |-> DIR_UNITS - 1] >>
              ELSE <<>>]]
DirInit == dir = [NoBlock EXCEPT ![0] = 1] /\ hung = FALSE

-----------------------------------------------------------------------------
Slot == 0..NUM_DIRECT-1
Used == {k \in Slot : dir[k] # 0}
At(c, n) == SelectInSeq(c, LAMBDA e : e.name = n)
Has(n) == {k \in Used : At(chain[dir[k]], n) # 0}
Names == {n \in Name : Has(n) # {}}

(* Blocks of the directory that hold no entries any more.  In some the first  *)
(* entry has a rec_len of zero, over which every loop stays; in the others    *)
(* it depends on their bytes.                                                *)
Zero(b) == number[b][1] = 0
Wiped == {k \in Used : chain[dir[k]] = <<>> /\ Zero(dir[k])}
Foreign == {k \in Used : chain[dir[k]] = <<>>} \ Wiped

(* search: what may come of looking for n. *)
Search(n) ==
  LET before == IF Has(n) = {} THEN Used ELSE {k \in Used : k < Min(Has(n))}
      index == IF Has(n) = {} /\ dir[IND] # 0 THEN {dir[IND]} ELSE {}
      must == before \cap Wiped # {} \/ \E b \in index : Zero(b)
      may == before \cap Foreign # {} \/ index # {}
  IN CASE must -> {"loops"}
       [] may /\ ~must -> {"loops", IF Has(n) = {} THEN "missing" ELSE "found"}
       [] OTHER -> {IF Has(n) = {} THEN "missing" ELSE "found"}

(* Any command that looks for a name. *)
Find(n) ==
  /\ ~hung /\ "loops" \in Search(n)
  /\ hung' = TRUE
  /\ UNCHANGED <<marked, number, chain, dir>>

-----------------------------------------------------------------------------
(* enter_dir_entry: the room behind the last entry of a block is split.      *)
(* Faulty form: the new entry is taken for longer than that room.            *)
Fits(c, n) == Last(c).rec_len - Ideal(Last(c).name) >= Ideal(n)
SplitOver(c, n) == Append(Front(c), [name |-> n, rec_len |-> Last(c).rec_len])
Split(c, n) ==
  LET used == Ideal(Last(c).name)
  IN Append(Front(c) \o <<[Last(c) EXCEPT !.rec_len = used]>>,
            [name |-> n, rec_len |-> Last(c).rec_len - used])
Roomy(n) == {k \in Used : chain[dir[k]] # <<>> /\ Fits(chain[dir[k]], n)}
Place(k, c) == [Dir EXCEPT !.chain[dir[k]] = c, !.number[dir[k]] = [u \in Unit |-> Opaque]]

(* A block of foreign bytes is written to or never left, unless they lead on. *)
Stray(k) ==
  \/ SetDir([Dir EXCEPT !.number[dir[k]] = [u \in Unit |-> Opaque]])
  \/ SetDir([Dir EXCEPT !.hung = TRUE])

(* The new block, and assign_first_empty_bno: the first unused direct slot,   *)
(* or slot NUM_DIRECT of the index block, which is allocated second.         *)
Grown(n) == [Allocate(Dir) EXCEPT !.chain[New(Dir)] = << [name |-> n, rec_len |-> DIR_UNITS] >>,
                                  !.number[New(Dir)] = [u \in Unit |-> Opaque]]
EnterEntry(n) ==
  LET k == IF Roomy(n) = {} THEN NUM_DIRECT ELSE Min(Roomy(n))
      b == New(Dir)
      st == Allocate(Grown(n))
      q == New(Grown(n))
  IN /\ ~hung /\ "missing" \in Search(n)
     /\ \/ /\ k \in Slot
           /\ SetDir(Place(k, Split(chain[dir[k]], n)))
           /\ UNCHANGED dir
        \/ /\ \E i \in Foreign : i < k /\ Stray(i)
           /\ UNCHANGED dir
        \/ /\ k \notin Slot /\ Used # Slot
           /\ Grown(n).ok /\ SetDir(Grown(n))
           /\ dir' = [dir EXCEPT ![Min(Slot \ Used)] = b]
        \/ /\ k \notin Slot /\ Used = Slot
           /\ st.ok /\ SetDir([st EXCEPT !.number[q][NUM_DIRECT] = b])
           /\ dir' = [dir EXCEPT ![IND] = q]

-----------------------------------------------------------------------------
(* remove_dir_entry: the room of the last entry goes to the one before it,    *)
(* that of any other to the last, when the entries behind it have moved up.  *)
(* Faulty form: the room of the last entry is lost.                          *)
WithoutLost(c, j) ==
  IF j = Len(c) THEN Front(c)
  ELSE RemoveAt([c EXCEPT ![Len(c)].rec_len = @ + c[j].rec_len], j)
Without(c, j) ==
  IF j = Len(c) THEN Front([c EXCEPT ![j-1].rec_len = @ + c[j].rec_len])
  ELSE RemoveAt([c EXCEPT ![Len(c)].rec_len = @ + c[j].rec_len], j)

(* The only entry of its block: the block is free, but stays in i_block, and  *)
(* the contents of the next ones move down a block each, until there is none *)
(* left or an unused slot, over which the loop never gets.                   *)
Emptied(k) ==
  LET gap == {i \in k+1..NUM_DIRECT-1 : dir[i] = 0}
      end == IF gap = {} THEN NUM_DIRECT ELSE Min(gap)
      S[i \in k..end-1] ==
        IF i = k THEN [Dir EXCEPT !.marked = @ \ {dir[k]}, !.hung = gap # {}]
        ELSE LET s == S[i-1]
             IN [s EXCEPT !.number[dir[i-1]] = s.number[dir[i]],
                          !.chain[dir[i-1]] = s.chain[dir[i]]]
  IN S[end-1]

RemoveEntry(n) ==
  LET k == Min(Has(n))
      c == chain[dir[k]]
  IN /\ ~hung /\ "found" \in Search(n)
     /\ \/ Len(c) = 1 /\ SetDir(Emptied(k))
        \/ Len(c) > 1 /\ SetDir(Place(k, Without(c, At(c, n))))
        \/ \E i \in Foreign : i < k /\ Stray(i)
     /\ UNCHANGED dir

(* What takes the directory's own blocks or names: see Volume. *)
Breaks(n) == Has(n) # {} /\ Len(chain[dir[Min(Has(n))]]) = 1
Outgrows(n) == Has(n) = {} /\ Used = Slot /\ Roomy(n) = {}
=============================================================================
