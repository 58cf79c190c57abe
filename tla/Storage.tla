------------------------------ MODULE Storage -------------------------------
(***************************************************************************)
(* What the user of the EXT2 shell expects of its blocks: files that hold  *)
(* what was copied into them, and a directory that holds the names entered *)
(* and not removed.  Either may be lost, and is then of unknown contents.  *)
(***************************************************************************)
EXTENDS Integers, Sequences

CONSTANTS File, Name, Lost

VARIABLES contents, names

(* The contents of j become c; other files may be lost, none may change.      *)
Becomes(j, c) ==
  \A f \in File : contents'[f] \in {Lost, IF f = j THEN c ELSE contents[f]}
Copy(i, j) == Becomes(j, IF i = j THEN <<>> ELSE contents[i])
Truncate(j) == Becomes(j, <<>>)
LoseFiles == \A f \in File : contents'[f] \in {Lost, contents[f]}

FilesInit == \A f \in File : contents[f] # Lost
FilesNext == LoseFiles \/ \E i, j \in File : Copy(i, j) \/ Truncate(j)
FilesSpec == FilesInit /\ [][FilesNext]_contents

(* A name not there is entered, one that is there removed. *)
NamesInit == names = {}
NamesNext ==
  \/ names' = Lost
  \/ /\ names # Lost
     /\ \E n \in Name : names' = names \cup {n} \/ names' = names \ {n}
NamesSpec == NamesInit /\ [][NamesNext]_names
=============================================================================
