------------------------------ MODULE SimTree ------------------------------
(***************************************************************************)
(* The command simulator of src/2 - Linux Command Sim: a tree of nodes in  *)
(* memory, linked by child, sibling and parent pointers, under mkdir,      *)
(* creat, rmdir, rm, cd, save and reload.                                  *)
(*                                                                         *)
(* A command is one step.  Every command shares the global buffers dname   *)
(* and bname, which the loop of main does not clear: a name cut from one   *)
(* pathname is still there when the next one is taken apart, and the next  *)
(* directory is put behind it, without a slash where strtok has cut.       *)
(*                                                                         *)
(* A step that follows a NULL pointer ends the program, and it starts      *)
(* again.  The model stops when the current directory is, or is linked to, *)
(* memory that was freed.  Left out: printing (ls, pwd, menu), the length  *)
(* of the buffers (stringGlobal has room for one character), and save or   *)
(* reload of other files than outfile.txt, where save always writes.       *)
(* Search ends without a return value unless it returns 1; in no build is  *)
(* that value 1.                                                           *)
(***************************************************************************)
EXTENDS Integers, SequencesExt, FiniteSetsExt

CONSTANTS
  MaxNode,  \* nodes there is memory for
  Name,     \* names the user types
  Path,     \* pathnames the user types, see Pathname
  MaxDname, \* bound: names in dname, which is 64 characters long
  MaxLine   \* bound: lines a saved tree may have

Id == 1..MaxNode
Null == 0
ROOT == 1
Blank == "blank"  \* the empty name
Glued == "glued"  \* two names without a slash between them: no node has it
AnyName == Name \cup {Blank, Glued, "root"}
Pathname == [abs : BOOLEAN, names : Seq(Name)]

ASSUME SimTreeAssumption ==
  /\ MaxNode \in Nat \ {0} /\ MaxDname \in Nat /\ MaxLine \in Nat
  /\ Name \cap {Blank, Glued, "root"} = {}
  /\ Path \subseteq Pathname

VARIABLES
  s,      \* the program: nodes, cwd, dname, bname
  saved   \* lines of outfile.txt

vars == <<s, saved>>

(* dname: its names, whether the last is without a slash behind it, whether  *)
(* a slash is in front.                                                      *)
Node == [used : BOOLEAN, name : AnyName, type : {"D", "F"},
         child : Id \cup {Null}, sibling : Id \cup {Null}, parent : Id \cup {Null}]
State == [node : [Id -> Node], cwd : Id, dname : Seq(AnyName), open : BOOLEAN, slash : BOOLEAN,
          bname : Name \cup {Blank}]
Line == [type : {"D", "F"}, path : Seq(AnyName)]

TypeOK ==
  /\ s \in State /\ Len(s.dname) <= MaxDname + 1
  /\ saved \in Seq(Line)

-----------------------------------------------------------------------------
(* initialize. *)
NoNode == [used |-> FALSE, name |-> Blank, type |-> "D", child |-> Null, sibling |-> Null, parent |-> Null]
Started ==
  [node |-> [x \in Id |-> IF x = ROOT THEN [NoNode EXCEPT !.used = TRUE, !.name = "root"] ELSE NoNode],
   cwd |-> ROOT, dname |-> <<>>, open |-> FALSE, slash |-> FALSE, bname |-> Blank]
Init == s = Started /\ saved = <<>>

(* The list of node x and the siblings after it. *)
Siblings(node, x) ==
  LET at[k \in 0..MaxNode] ==
        IF k = 0 THEN x ELSE LET y == at[k-1] IN IF y = Null THEN Null ELSE node[y].sibling
  IN SelectSeq([k \in 1..MaxNode |-> at[k-1]], LAMBDA y : y # Null)
ChildrenOf(node, x) == Siblings(node, node[x].child)
(* The first of a list with name n, as an index. *)
IndexOf(node, list, n) == SelectInSeq(list, LAMBDA y : node[y].name = n)

(* PathnameToDirBasename, checkAbsoluteRelative.  `/' alone changes cwd in   *)
(* every command.                                                            *)
IsRoot(path) == path.abs /\ path.names = <<>>
Glue(dname, names) ==
  SubSeq(dname, 1, Len(dname) - 1) \o <<Glued>> \o Tail(names)
Taken(t, path) ==
  LET front == IF path.names = <<>> THEN <<>> ELSE Front(path.names)
  IN [t EXCEPT
        !.dname = IF t.open /\ front # <<>> THEN Glue(@, front) ELSE @ \o front,
        !.open = @ /\ front = <<>>,
        !.slash = @ \/ path.abs,
        !.bname = IF path.names = <<>> THEN @ ELSE Last(path.names),
        !.cwd = IF IsRoot(path) THEN ROOT ELSE @]
StartOf(t, path) == IF path.abs THEN ROOT ELSE t.cwd
(* strtok(pathname) finds the first name only: strtok has cut it before. *)
FirstOf(path) == IF path.names = <<>> THEN <<>> ELSE <<Head(path.names)>>
(* strtok(dname) leaves the first name, where it cuts the slash. *)
Cut(t) == IF t.dname = <<>> THEN t ELSE [t EXCEPT !.dname = <<Head(@)>>, !.open = TRUE]

(* Search from node x along names: found, refused with a message, or lost,   *)
(* that is through a NULL pointer.  A name that is not there leads to NULL.  *)
Search(node, x, names, type) ==
  FoldLeft(LAMBDA r, n :
             IF r.how # "found" THEN r
             ELSE IF r.at = Null THEN [r EXCEPT !.how = "lost"]
             ELSE IF node[r.at].child = Null THEN [r EXCEPT !.how = "refused"]
             ELSE LET list == ChildrenOf(node, r.at)
                      k == IndexOf(node, list, n)
                  IN IF k = 0 THEN [r EXCEPT !.at = Null]
                     ELSE [at |-> list[k],
                           how |-> IF node[list[k]].type = "F" /\ type = "D" THEN "refused" ELSE "found"],
           [at |-> x, how |-> "found"], names)

(* What a command makes of the program: its state, and whether it lives. *)
Lives(t) == [state |-> t, alive |-> TRUE]
Dies(t) == [state |-> t, alive |-> FALSE]

(* mkdirFunction, also for creat. *)
Duplicate(node, d, n) == \E y \in ToSet(ChildrenOf(node, d)) : node[y].name = n
NewId(node) == Min({x \in Id : ~node[x].used})
NewNode(t, d, type) ==
  [used |-> TRUE, name |-> t.bname, type |-> type, child |-> Null, sibling |-> Null, parent |-> d]
Linked(t, d, type) ==
  LET x == NewId(t.node)
      new == [t EXCEPT !.node[x] = NewNode(t, d, type)]
  IN IF t.node[d].child = Null THEN [new EXCEPT !.node[d].child = x]
     ELSE [new EXCEPT !.node[Last(ChildrenOf(t.node, d))].sibling = x]
Mkdir(t, path, type) ==
  LET u == Taken(t, path)
      r == Search(u.node, StartOf(u, path), u.dname, type)
      v == Cut(u)
  IN IF r.how = "refused" THEN Lives(v)
     ELSE IF r.how = "lost" \/ r.at = Null THEN Dies(v)
     ELSE IF Duplicate(v.node, r.at, v.bname) THEN Lives(v)
     ELSE Lives(Linked(v, r.at, type))

(* cdFunction *)
Cd(t, path) ==
  LET u == Taken(t, path)
      r == Search(u.node, StartOf(u, path), FirstOf(path), "none")
  IN IF IsRoot(path) \/ r.how # "found" \/ r.at = Null THEN u
     ELSE IF u.node[r.at].type = "F" THEN u ELSE [u EXCEPT !.cwd = r.at]

(* rmdirFunction, also for rm: the first child, of which its own first child *)
(* is freed, or a later one, which is freed itself; empty or not.  Faulty    *)
(* form: the one after it is freed in its child's place.                     *)
UnlinkedOther(t, d, list, k) ==
  LET x == list[k]
      free(node, y) == IF y = Null THEN node ELSE [node EXCEPT ![y] = NoNode]
  IN IF k = 1
     THEN [t EXCEPT !.node = free([t.node EXCEPT ![d].child = t.node[x].sibling], t.node[x].sibling)]
     ELSE [t EXCEPT !.node = free([t.node EXCEPT ![list[k-1]].sibling = t.node[x].sibling], x)]
Unlinked(t, d, list, k) ==
  LET x == list[k]
      free(node, y) == IF y = Null THEN node ELSE [node EXCEPT ![y] = NoNode]
  IN IF k = 1
     THEN [t EXCEPT !.node = free([t.node EXCEPT ![d].child = t.node[x].sibling], t.node[x].child)]
     ELSE [t EXCEPT !.node = free([t.node EXCEPT ![list[k-1]].sibling = t.node[x].sibling], x)]
Rmdir(t, path, type) ==
  LET u == Taken(t, path)
      names == IF u.dname = <<>> /\ ~u.slash THEN <<>> ELSE FirstOf(path)
      r == Search(u.node, StartOf(u, path), names, type)
      list == ChildrenOf(u.node, r.at)
      k == IndexOf(u.node, list, u.bname)
  IN IF IsRoot(path) \/ r.how = "refused" THEN Lives(u)
     ELSE IF r.at = Null THEN Dies(u)
     ELSE IF list = <<>> THEN Lives(u)
     ELSE IF k = 0 THEN Dies(u)
     ELSE IF u.node[list[k]].type # type THEN Lives(u)
     ELSE Lives(Unlinked(u, r.at, list, k))

(* save: from the root down to the first child, along the siblings, and up   *)
(* again; flag is set on the way up.  FileGetString: the names up to the     *)
(* root.  Faulty form: flag stays set along the siblings.                    *)
PathTo(node, x) ==
  LET up[k \in 0..MaxNode] ==
        IF k = 0 THEN x ELSE LET y == up[k-1] IN IF y = Null THEN Null ELSE node[y].parent
      above == SelectSeq([k \in 1..MaxNode |-> up[k-1]], LAMBDA y : y \notin {Null, ROOT})
  IN Reverse([k \in 1..Len(above) |-> node[above[k]].name])
WalkNextFlagged(node, w) ==
  LET n == node[w.at]
      line == [type |-> n.type, path |-> PathTo(node, w.at)]
      out == IF w.flag THEN w.out ELSE Append(w.out, line)
  IN IF n.child # Null /\ ~w.flag THEN [at |-> n.child, flag |-> FALSE, out |-> out]
     ELSE IF n.sibling # Null THEN [at |-> n.sibling, flag |-> w.flag, out |-> out]
     ELSE [at |-> n.parent, flag |-> TRUE, out |-> out]
WalkNext(node, w) ==
  LET n == node[w.at]
      line == [type |-> n.type, path |-> PathTo(node, w.at)]
      out == IF w.flag THEN w.out ELSE Append(w.out, line)
  IN IF n.child # Null /\ ~w.flag THEN [at |-> n.child, flag |-> FALSE, out |-> out]
     ELSE IF n.sibling # Null THEN [at |-> n.sibling, flag |-> FALSE, out |-> out]
     ELSE [at |-> n.parent, flag |-> TRUE, out |-> out]
Walk(node) ==
  LET w[k \in 0..2*MaxNode] ==
        IF k = 0 THEN [at |-> ROOT, flag |-> FALSE, out |-> <<>>]
        ELSE LET v == w[k-1] IN IF v.at = Null THEN v ELSE WalkNext(node, v)
  IN w[2*MaxNode]

(* reload: mkdir or creat for every line but the root's. *)
LinePath(line) == [abs |-> TRUE, names |-> SelectSeq(line.path, LAMBDA n : n # Blank)]
Reload(t) ==
  FoldLeft(LAMBDA r, line :
             IF ~r.alive \/ (line.type = "D" /\ IsRoot(LinePath(line))) THEN r
             ELSE IF \A x \in Id : r.state.node[x].used THEN Dies(r.state)
             ELSE Mkdir(r.state, LinePath(line), line.type),
           Lives(t), saved)

-----------------------------------------------------------------------------
(* Where the pointers from cwd lead, and from the root.                      *)
Pointers(node, x) == {node[x].child, node[x].sibling, node[x].parent} \ {Null}
From(x) ==
  LET R[k \in 0..MaxNode] ==
        IF k = 0 THEN {x} ELSE LET S == R[k-1] IN S \cup UNION {Pointers(s.node, y) : y \in S}
  IN R[MaxNode]
Dangling == \E x \in From(s.cwd) : ~s.node[x].used
Going == Len(s.dname) <= MaxDname /\ ~Dangling
Memory == \E x \in Id : ~s.node[x].used

(* A command that dies ends the program; what it had in memory is gone. *)
Goes(r) == s' = IF r.alive THEN r.state ELSE Started
MkdirCmd(path) == Going /\ Memory /\ Goes(Mkdir(s, path, "D")) /\ UNCHANGED saved
CreatCmd(path) == Going /\ Memory /\ Goes(Mkdir(s, path, "F")) /\ UNCHANGED saved
RmdirCmd(path) == Going /\ Goes(Rmdir(s, path, "D")) /\ UNCHANGED saved
RmCmd(path) == Going /\ Goes(Rmdir(s, path, "F")) /\ UNCHANGED saved
CdCmd(path) == Going /\ s' = Cd(s, path) /\ UNCHANGED saved
Save ==
  LET lines == Walk(s.node).out
  IN Going /\ Len(lines) <= MaxLine /\ saved' = lines /\ UNCHANGED s
ReloadCmd == Going /\ Goes(Reload(s)) /\ UNCHANGED saved
Quit == s' = Started /\ UNCHANGED saved

Next ==
  \/ \E path \in Path :
       MkdirCmd(path) \/ CreatCmd(path) \/ RmdirCmd(path) \/ RmCmd(path) \/ CdCmd(path)
  \/ Save \/ ReloadCmd \/ Quit

Spec == Init /\ [][Next]_vars

-----------------------------------------------------------------------------
(* The tree as its child and sibling pointers show it: level by level. *)
Below(S) == UNION {ToSet(ChildrenOf(s.node, x)) : x \in S}
Tree ==
  LET T[k \in 0..MaxNode] == IF k = 0 THEN {ROOT} ELSE LET S == T[k-1] IN S \cup Below(S)
  IN T[MaxNode]

(* What hangs on the root is a tree: no freed node in it, each node in one   *)
(* list and once, under the parent it points to, under a name that no other  *)
(* in the list has.  Commands unlink and free, with pointers to what they    *)
(* unlinked still around, and dname leads them anywhere.  (And everything is *)
(* of its type.)                                                             *)
TreeOK ==
  /\ TypeOK
  /\ \A x \in Tree : s.node[x].used
  /\ s.node[ROOT].parent = Null /\ s.node[ROOT].sibling = Null
  /\ \A x \in Tree : \A y \in ToSet(ChildrenOf(s.node, x)) : s.node[y].parent = x
  /\ \A x \in Tree : IsInjective(ChildrenOf(s.node, x))
  /\ \A x \in Tree : \A y, z \in ToSet(ChildrenOf(s.node, x)) :
       s.node[y].name = s.node[z].name => y = z

LeadsTo(path, x) ==
  Search(s.node, ROOT, path, "none") = [at |-> x, how |-> "found"]

(* save comes to its end and writes every node of the tree once, a directory *)
(* before what is in it, under the path that leads to it from the root.      *)
SavedWhole ==
  LET w == Walk(s.node)
  IN /\ w.at = Null
     /\ Len(w.out) = Cardinality(Tree)
     /\ \A x \in Tree : \E k \in DOMAIN w.out :
          /\ LeadsTo(w.out[k].path, x) /\ w.out[k].type = s.node[x].type
          /\ w.out[k].path # <<>> => \E j \in 1..k-1 : w.out[j].path = Front(w.out[k].path)

=============================================================================
