-------------------------------- MODULE Walk --------------------------------
(***************************************************************************)
(* What the user of "7 - MountRoot" expects: he is in one directory of the *)
(* tree, cd takes him along the names of a path, ls shows what is there    *)
(* and pwd the way up.  Where he is, or what he was shown, may be Lost.    *)
(***************************************************************************)
EXTENDS Integers, SequencesExt

CONSTANTS
  ROOT_INODE,
  Image,  \* the blocks of each directory's entries; a file has none
  Paths,  \* [abs |-> begins with a slash, names |-> ...] the user types
  Lost

VARIABLES here, shown

Ino == DOMAIN Image
NoIno == 0
Dir == {i \in Ino : Image[i] # <<>>}
Entries(i) == FlattenSeq(Image[i])
Child(i, n) ==
  LET k == SelectInSeq(Entries(i), LAMBDA e : e.name = n)
  IN IF k = 0 THEN NoIno ELSE Entries(i)[k].inode
Parent(i) == Child(i, "..")

Target(start, names) ==
  LET to[k \in 0..Len(names)] ==
        IF k = 0 THEN start
        ELSE IF to[k-1] = NoIno THEN NoIno ELSE Child(to[k-1], names[k])
  IN to[Len(names)]
From(p) == IF p.abs THEN ROOT_INODE ELSE here
Known(p) == p.abs \/ here # Lost

(* The inodes ls prints, and those pwd names. *)
Listing(i) ==
  LET es == Entries(i)
      upto[k \in 0..Len(es)] ==
        IF k = 0 THEN <<>>
        ELSE IF es[k].name \in {".", ".."} THEN upto[k-1] ELSE Append(upto[k-1], es[k].inode)
  IN IF i \in Dir THEN upto[Len(es)] ELSE <<i>>
WayUp[i \in Dir] == IF i = ROOT_INODE THEN <<>> ELSE Append(WayUp[Parent(i)], i)

Sees(s) == shown' \in {s, Lost} /\ here' \in {here, Lost}
Init == here = ROOT_INODE /\ shown = <<>>
Cd(i) == here' \in {i, Lost} /\ shown' \in {shown, Lost}
Next ==
  \/ Cd(ROOT_INODE) \/ Sees(Lost)
  \/ here # Lost /\ Sees(Listing(here))
  \/ here \in Dir /\ Sees(WayUp[here])
  \/ \E p \in Paths : Known(p) /\ Target(From(p), p.names) # NoIno
       /\ \/ Cd(Target(From(p), p.names))
          \/ Sees(Listing(Target(From(p), p.names)))
Spec == Init /\ [][Next]_<<here, shown>>
=============================================================================
