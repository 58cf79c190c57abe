------------------------------- MODULE Bitmap -------------------------------
(***************************************************************************)
(* The block and inode allocator of the EXT2 shell (utils/bitmap.c).       *)
(*                                                                         *)
(* A number handed out by allocate_block or allocate_inode is marked in a  *)
(* bitmap block on the disk; the number of free ones is kept twice, in the *)
(* super block and in the group descriptor, both cached in memory (sp, gp) *)
(* and written through.  One call writes three or four blocks in a row     *)
(* with no journal: a step of this module is one put_block, and the        *)
(* program may be killed between any two of them (the shell has no quit    *)
(* command: a kill is how every session ends) and started again.           *)
(*                                                                         *)
(* The callers are the environment: any caller may allocate, may give back *)
(* a number it holds, and may also give back a number it does not hold     *)
(* (a stray free).  For a block: `unlink' of a symbolic link hands the      *)
(* characters of the target's path to deallocate_block as block numbers,   *)
(* and a kill, or a command refused, after clear_blocks leaves a disk      *)
(* inode naming blocks that were freed.  For an inode: `unlink' of a       *)
(* symbolic link frees its inode even when the link has other names, and   *)
(* the unlink of another of them frees it again.                           *)
(* A refused call (nothing free, a number <= 0) changes nothing and is a   *)
(* stuttering step.                                                        *)
(***************************************************************************)
EXTENDS Integers, FiniteSets

CONSTANTS
  NBlocks,    \* nblocks: blocks on the device
  NInodes,    \* ninodes: inodes on the device
  SuperMod,   \* 2^width of the super block's counters (2^32 in the code)
  GroupMod,   \* 2^width of the group descriptor's counters (2^16 in the code)
  MaxCrashes, \* bound: kills explored
  MaxStrays   \* bound: stray frees explored

ASSUME SizeAssumption ==
  /\ NBlocks \in Nat \ {0}
  /\ NInodes \in Nat \ {0}
  /\ SuperMod \in Nat /\ SuperMod > NBlocks /\ SuperMod > NInodes
  /\ GroupMod \in Nat /\ GroupMod > NBlocks /\ GroupMod > NInodes
  /\ MaxCrashes \in Nat
  /\ MaxStrays \in Nat

VARIABLES
  sp,       \* in memory: the super block's free counts
  gp,       \* in memory: the group descriptor's free counts
  dsp,      \* on disk: block SUPER_BLOCK_OFFSET
  dgp,      \* on disk: block GD_BLOCK_OFFSET
  bits,     \* on disk: the numbers whose bit is set (bit n-1 stands for n)
  content,  \* on disk: what each block holds
  op,       \* the call in progress and the put_block it does next
  holders,  \* history: how many callers hold each number
  exposed,  \* history: numbers a stray free took from their holder
  crashes, strays

disk == <<dsp, dgp, bits, content>>
vars == <<sp, gp, dsp, dgp, bits, content, op, holders, exposed, crashes, strays>>

Kind == {"block", "inode"}
Limit(k) == IF k = "block" THEN NBlocks ELSE NInodes
Numbers(k) == 1..Limit(k)
AnyNumber == Numbers("block") \cup Numbers("inode")
Clear(k) == Numbers(k) \ bits[k]

Idle == [pc |-> "idle"]
Calls == [pc : {"super", "gd", "map", "clear"}, fn : {"allocate", "deallocate"},
          kind : Kind, num : Nat, buf : SUBSET Nat]

TypeOK ==
  /\ sp \in [Kind -> 0..SuperMod-1] /\ dsp \in [Kind -> 0..SuperMod-1]
  /\ gp \in [Kind -> 0..GroupMod-1] /\ dgp \in [Kind -> 0..GroupMod-1]
  /\ bits \in [Kind -> SUBSET Nat] /\ \A k \in Kind : bits[k] \subseteq Numbers(k)
  /\ content \in [Numbers("block") -> {"zero", "data"}]
  /\ op \in Calls \cup {Idle}
  /\ op # Idle => op.num \in Numbers(op.kind) /\ op.buf \subseteq Numbers(op.kind)
  /\ holders \in [Kind -> [AnyNumber -> Nat]]
  /\ exposed \in [Kind -> SUBSET Nat]
  /\ crashes \in 0..MaxCrashes
  /\ strays \in 0..MaxStrays

-----------------------------------------------------------------------------
(* The counters are unsigned: decrementing zero wraps around. *)
Inc(c, mod) == (c + 1) % mod
DecSigned(c, mod) == c - 1       \* faulty: a signed counter that goes below zero
Dec(c, mod) == (c - 1) % mod

(* A disk made by mkfs: every count agrees with its bitmap, every marked   *)
(* number has one holder (the files of the image) and unmarked blocks may  *)
(* hold anything.                                                          *)
Init ==
  /\ bits \in [Kind -> SUBSET AnyNumber]
  /\ \A k \in Kind : bits[k] \subseteq Numbers(k)
  /\ sp = [k \in Kind |-> Cardinality(Clear(k))]
  /\ gp = sp /\ dsp = sp /\ dgp = sp
  /\ content = [b \in Numbers("block") |-> "data"]
  /\ op = Idle
  /\ holders = [k \in Kind |-> [n \in AnyNumber |-> IF n \in bits[k] THEN 1 ELSE 0]]
  /\ exposed = [k \in Kind |-> {}]
  /\ crashes = 0 /\ strays = 0

(* The copy of the bitmap with the bit of n set (set_bit).  Faulty form: the *)
(* number n is taken for the index of its bit.                              *)
MarkedOffByOne(k, n) == bits[k] \cup ({n + 1} \cap Numbers(k))
Marked(k, n) == bits[k] \cup {n}

IsLowestClear(k, n) == n \in Clear(k) /\ \A m \in Clear(k) : n <= m

(* allocate_block, allocate_inode: the first clear bit is set in a copy of  *)
(* the bitmap, and decFreeBlocks/decFreeInodes lower the counts in memory.  *)
Allocate(k) ==
  /\ op = Idle
  /\ \E n \in Numbers(k) :
       /\ IsLowestClear(k, n)
       /\ op' = [pc |-> "super", fn |-> "allocate", kind |-> k, num |-> n,
                 buf |-> Marked(k, n)]
  /\ sp' = [sp EXCEPT ![k] = Dec(@, SuperMod)]
  /\ gp' = [gp EXCEPT ![k] = Dec(@, GroupMod)]
  /\ UNCHANGED <<disk, holders, exposed, crashes, strays>>

(* Faulty form of StartDeallocate: the free counts are left alone. *)
StartDeallocateUncounted(k, n) ==
  /\ op = Idle
  /\ op' = [pc |-> "super", fn |-> "deallocate", kind |-> k, num |-> n,
            buf |-> bits[k] \ {n}]
  /\ UNCHANGED <<sp, gp, disk, crashes>>

(* deallocate_block, deallocate_inode: the bit is cleared in a copy of the  *)
(* bitmap without a look at its value, and the counts are raised in memory. *)
StartDeallocate(k, n) ==
  /\ op = Idle
  /\ op' = [pc |-> "super", fn |-> "deallocate", kind |-> k, num |-> n,
            buf |-> bits[k] \ {n}]
  /\ sp' = [sp EXCEPT ![k] = Inc(@, SuperMod)]
  /\ gp' = [gp EXCEPT ![k] = Inc(@, GroupMod)]
  /\ UNCHANGED <<disk, crashes>>

Deallocate(k, n) ==
  /\ holders[k][n] > 0
  /\ StartDeallocate(k, n)
  /\ holders' = [holders EXCEPT ![k][n] = @ - 1]
  /\ UNCHANGED <<exposed, strays>>

(* A caller frees a block or an inode it does not hold. *)
StrayFree(k, n) ==
  /\ strays < MaxStrays
  /\ StartDeallocate(k, n)
  /\ strays' = strays + 1
  /\ exposed' = [exposed EXCEPT ![k] = @ \cup {n}]
  /\ UNCHANGED holders

(* The put_blocks of decFree.../incFree..., in this order. *)
PutSuper ==
  /\ op # Idle /\ op.pc = "super"
  /\ dsp' = sp
  /\ op' = [op EXCEPT !.pc = "gd"]
  /\ UNCHANGED <<sp, gp, dgp, bits, content, holders, exposed, crashes, strays>>

PutGroup ==
  /\ op # Idle /\ op.pc = "gd"
  /\ dgp' = gp
  /\ op' = [op EXCEPT !.pc = "map"]
  /\ UNCHANGED <<sp, gp, dsp, bits, content, holders, exposed, crashes, strays>>

Hand(k, n) == holders' = [holders EXCEPT ![k][n] = @ + 1]

(* The put_block of the bitmap: the last step of every call but            *)
(* allocate_block, which clears the new block before it returns it.        *)
PutMap ==
  /\ op # Idle /\ op.pc = "map"
  /\ bits' = [bits EXCEPT ![op.kind] = op.buf]
  /\ IF op.fn = "allocate" /\ op.kind = "block"
     THEN op' = [op EXCEPT !.pc = "clear"] /\ UNCHANGED holders
     ELSE /\ op' = Idle
          /\ IF op.fn = "allocate" THEN Hand(op.kind, op.num) ELSE UNCHANGED holders
  /\ UNCHANGED <<sp, gp, dsp, dgp, content, exposed, crashes, strays>>

(* Faulty form of ClearBlock: clear_block(dev, i) for clear_block(dev, i + 1). *)
ClearBlockOffByOne ==
  /\ op # Idle /\ op.pc = "clear"
  /\ content' = [b \in Numbers("block") |-> IF b = op.num - 1 THEN "zero" ELSE content[b]]
  /\ Hand("block", op.num)
  /\ op' = Idle
  /\ UNCHANGED <<sp, gp, dsp, dgp, bits, exposed, crashes, strays>>

(* clear_block: the new block is filled with zeroes, then returned. *)
ClearBlock ==
  /\ op # Idle /\ op.pc = "clear"
  /\ content' = [content EXCEPT ![op.num] = "zero"]
  /\ Hand("block", op.num)
  /\ op' = Idle
  /\ UNCHANGED <<sp, gp, dsp, dgp, bits, exposed, crashes, strays>>

(* A holder writes its block (put_block by mywrite, enter_dir_entry, ...). *)
WriteBlock(n) ==
  /\ op = Idle /\ holders["block"][n] > 0 /\ content[n] = "zero"
  /\ content' = [content EXCEPT ![n] = "data"]
  /\ UNCHANGED <<sp, gp, dsp, dgp, bits, op, holders, exposed, crashes, strays>>

(* The program is killed inside a call; mount_root of the next run reads    *)
(* both counts back.  A number the call was about to return has no holder.  *)
Crash ==
  /\ op # Idle /\ crashes < MaxCrashes
  /\ crashes' = crashes + 1
  /\ op' = Idle
  /\ sp' = dsp /\ gp' = dgp
  /\ UNCHANGED <<disk, holders, exposed, strays>>

Next ==
  \/ \E k \in Kind : Allocate(k)
  \/ \E k \in Kind : \E n \in Numbers(k) : Deallocate(k, n)
  \/ \E k \in Kind : \E n \in Numbers(k) : StrayFree(k, n)
  \/ PutSuper \/ PutGroup \/ PutMap \/ ClearBlock
  \/ \E n \in Numbers("block") : WriteBlock(n)
  \/ Crash

Spec == Init /\ [][Next]_vars

-----------------------------------------------------------------------------
InFlight(k, n) == op # Idle /\ op.fn = "allocate" /\ op.kind = k /\ op.num = n

(* Exclusive ownership: a number no stray free has touched has at most one  *)
(* holder; its bit is set as long as it has one, at every put_block and     *)
(* after every kill; and a call never has a held number in hand to return.  *)
(* This is what test_bit/set_bit and the order of the writes in             *)
(* allocate_block and deallocate_block are for.                             *)
Exclusive ==
  \A k \in Kind : \A n \in Numbers(k) \ exposed[k] :
    /\ holders[k][n] <= 1
    /\ holders[k][n] = 1 => n \in bits[k] /\ ~InFlight(k, n)

(* Count accounting: between calls, each of the four free counts differs    *)
(* from the number of clear bits by no more than the kills and stray frees  *)
(* suffered so far: the unjournaled writes of decFreeBlocks and             *)
(* incFreeBlocks never compound, and with no kill and no stray free the     *)
(* counts are exact.                                                        *)
Agrees(count, k, mod) ==
  \E e \in -crashes..(crashes + strays) : count = (Cardinality(Clear(k)) + e) % mod
CountsBounded ==
  op = Idle => \A k \in Kind : /\ Agrees(sp[k], k, SuperMod) /\ dsp[k] = sp[k]
                               /\ Agrees(gp[k], k, GroupMod) /\ dgp[k] = gp[k]

(* A block is handed out zeroed, whatever its previous holder left in it,   *)
(* and no other block that has a holder is zeroed on the way (clear_block   *)
(* is called on i + 1, the number of bit i).                                *)
CleanHandout ==
  [][\A n \in Numbers("block") :
       /\ holders'["block"][n] > holders["block"][n] => content'[n] = "zero"
       /\ content[n] = "data" /\ content'[n] = "zero"
            => holders["block"][n] = 0 \/ n \in exposed["block"]]_vars
=============================================================================
