----------------------------- MODULE InodeStore -----------------------------
(***************************************************************************)
(* What the in-memory inode cache promises the commands of the shell, with *)
(* no cache in it: every inode has one current value, which is what a get  *)
(* shows and what a change replaces, and a stable value on the disk.  The  *)
(* last user to let go of an inode makes its current value stable, unless  *)
(* an error is thrown at that moment: then the inode is dropped, and it    *)
(* keeps its current value only until its place is needed.  A kill of the  *)
(* program brings every inode back to its stable value, so that it can     *)
(* lose updates only to inodes in use, or dropped, at that moment.         *)
(***************************************************************************)
CONSTANTS Ino, Root, Value

VARIABLES
  current,  \* what a user of the inode sees
  stable,   \* what the disk holds
  busy,     \* the inodes in use
  dropped,  \* the inodes let go of under an error and not written since
  call      \* the last call of a user, with the value it was shown or wrote

storeVars == <<current, stable, busy, dropped, call>>

Init ==
  /\ stable \in [Ino -> Value]
  /\ current = stable
  /\ busy = {Root}
  /\ dropped = {}
  /\ call = <<"boot">>

Acquire(i) ==
  /\ call' = <<"get", i, current[i]>>
  /\ busy' = busy \cup {i}
  /\ UNCHANGED <<current, stable, dropped>>

(* The inode takes the place of a dropped one, whose update is lost. *)
AcquireOver(i, j) ==
  /\ j \in dropped \ (busy \cup {i})
  /\ call' = <<"get", i, current[i]>>
  /\ busy' = busy \cup {i}
  /\ dropped' = dropped \ {j}
  /\ current' = [current EXCEPT ![j] = stable[j]]
  /\ UNCHANGED stable

Write(i, v) ==
  /\ call' = <<"change", i, v>>
  /\ i \in busy
  /\ current' = [current EXCEPT ![i] = v]
  /\ UNCHANGED <<stable, busy, dropped>>

(* The last user of an inode lets go of it; an earlier one changes nothing.  *)
ReleaseLast(i) ==
  /\ call' = <<"put", i>>
  /\ i \in busy \ {Root}
  /\ busy' = busy \ {i}
  /\ stable' = [stable EXCEPT ![i] = current[i]]
  /\ dropped' = dropped \ {i}
  /\ UNCHANGED current

(* The same while an error is thrown. *)
Drop(i) ==
  /\ call' = <<"put", i>>
  /\ i \in busy \ {Root}
  /\ busy' = busy \ {i}
  /\ dropped' = dropped \cup {i}
  /\ UNCHANGED <<current, stable>>

Release(i) ==
  /\ call' = <<"put", i>>
  /\ i \in busy
  /\ UNCHANGED <<current, stable, busy, dropped>>

Kill ==
  /\ call' = <<"boot">>
  /\ current' = stable
  /\ busy' = {Root}
  /\ dropped' = {}
  /\ UNCHANGED stable

Next ==
  \/ \E i \in Ino : \/ Acquire(i) \/ Release(i) \/ ReleaseLast(i) \/ Drop(i)
                 \/ \E j \in Ino : AcquireOver(i, j)
                 \/ \E v \in Value : Write(i, v)
  \/ Kill

Spec == Init /\ [][Next]_storeVars

(* Nothing is pending for an inode nobody uses, but for the dropped ones: the *)
(* promise the commands that create, link and remove files build on          *)
(* (put_minode, readwrite.c 80-104).                                         *)
Durable == \A i \in Ino \ (busy \cup dropped) : stable[i] = current[i]
=============================================================================
