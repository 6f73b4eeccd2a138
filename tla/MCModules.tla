------------------------------ MODULE MCModules ------------------------------
(***************************************************************************)
(* Small programs for ModuleExports: what their modules export.            *)
(***************************************************************************)
EXTENDS Sequences, TLC

None == [kind |-> "none", from |-> "", name |-> "", typeOnly |-> FALSE]
Local == [None EXCEPT !.kind = "local"]
ReExport(m, n) == [kind |-> "from", from |-> m, name |-> n, typeOnly |-> FALSE]
Type(m, n) == [ReExport(m, n) EXCEPT !.typeOnly = TRUE]
Namespace(m) == [None EXCEPT !.kind = "namespace", !.from = m]

Star(m) == [from |-> m, typeOnly |-> FALSE]

\* One name, in three modules that lead to each other, and a fourth that asks the first for it.
OneName ==
  {[exports |-> [a |-> [x |-> ea], b |-> [x |-> eb], c |-> [x |-> ec], main |-> [asked |-> ReExport("a", "x")]],
    stars |-> [a |-> sa, b |-> sb, c |-> sc, main |-> <<>>]] :
     ea \in {None, ReExport("b", "x")}, eb \in {None, Local, Type("c", "x"), Namespace("c")},
     ec \in {None, Local, ReExport("a", "x")},
     sa \in {<<>>, <<Star("b")>>, <<Star("b"), Star("c")>>, <<Star("c"), Star("b")>>}, sb \in {<<>>, <<Star("c")>>}, sc \in {<<>>, <<Star("a")>>}}

\* Two names, each of which may be the other in another module.
TwoNames ==
  {[exports |-> [a |-> [x |-> None, y |-> ea], b |-> [x |-> xb, y |-> yb], c |-> [x |-> xc, y |-> Local]],
    stars |-> [a |-> <<Star("b"), Star("c")>>, b |-> <<>>, c |-> sc]] :
     ea \in {None, ReExport("b", "x")}, xb \in {Local, ReExport("c", "y"), Type("a", "y")},
     yb \in {None, ReExport("a", "x"), ReExport("c", "x")}, xc \in {None, ReExport("a", "y"), Type("c", "y"), ReExport("b", "x")},
     sc \in {<<>>, <<Star("b")>>}}

\* A default export, which has a name of its own where it is asked for.
Defaults ==
  {[exports |-> [a |-> ("default" :> ea), b |-> ("default" :> eb), main |-> [x |-> em]],
    stars |-> [a |-> sa, b |-> <<>>, main |-> sm]] :
     ea \in {None, Local, ReExport("b", "default"), Type("b", "default"), ReExport("main", "x")},
     eb \in {None, Local, ReExport("a", "default")}, em \in {ReExport("a", "default"), Type("b", "default")},
     sa \in {<<>>, <<Star("b")>>}, sm \in {<<>>, <<Star("a")>>}}

ModulePrograms == OneName \cup TwoNames \cup Defaults
ExportOrders == {<<"default", "x", "y", "asked">>, <<"asked", "y", "x", "default">>}
=============================================================================
