------------------------------ MODULE MCShell ------------------------------
EXTENDS Shell

(* Lines of one, two and three programs. *)
P(name, redirect) == [name |-> name, redirect |-> redirect]
Plain == P("found", "none")
Missing == P("missing", "none")
SomeCommands ==
  { <<Plain>>, <<Missing>>, <<P("missing", "in")>>,
    <<Plain, Plain>>, <<P("found", "out"), Plain>>, <<Plain, P("found", "in")>>,
    <<Missing, Plain>>, <<Plain, Missing>>, <<Plain, P("empty", "none")>>, <<P("empty", "none"), Plain>>,
    <<Plain, Plain, P("found", "out")>> }
=============================================================================
