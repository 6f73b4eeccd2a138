----------------------------- MODULE MCFileLoader -----------------------------
(***************************************************************************)
(* FileLoader over the graphs of three files in which file b has at most   *)
(* MaxRefs distinct references and each other file at most one, and the    *)
(* depth-first order as a reference definition.                            *)
(***************************************************************************)
EXTENDS FileLoader, TLC

CONSTANTS a, b, d, MaxRefs

MCFiles == {a, b, d}

\* a is a library of the default library directory, with a rank of its own; d may
\* be another, with a lower rank.
MCPriority == (a :> 2) @@ (b :> 9) @@ (d :> 1)

\* The sequences of at most n members of S, without repetition.
Lists(S, n) == {s \in UNION {[1..k -> S] : k \in 0..n} : IsInjective(s)}

\* Each file is always referred to in the same way: as a library when it is in libs.
AsRefs(s, libs) == [i \in 1..Len(s) |-> [file |-> s[i], lib |-> s[i] \in libs]]

GraphsOver(libs, roots, inA, inD) ==
    [roots : {AsRefs(s, libs) : s \in roots},
     refs  : {(a :> AsRefs(s, libs)) @@ (b :> AsRefs(t, libs)) @@ (d :> AsRefs(u, libs)) :
                 s \in Lists(inA, 1), t \in Lists(MCFiles, MaxRefs), u \in Lists(inD, 1)}]

\* One ordinary file and two libraries, or two ordinary files and a library.
MCInputs ==
    GraphsOver({a, d}, {<<b, a>>, <<d, b>>}, {a, d}, {a, d})
        \cup GraphsOver({a}, {<<b, d>>, <<b, a>>}, {a}, MCFiles)

\* b is a root, as an ordinary file; a, a library, is a root too and refers to d
\* as a library, while b refers to d by a path.
AsLib(f)  == [file |-> f, lib |-> TRUE]
AsFile(f) == [file |-> f, lib |-> FALSE]

MixedPrograms ==
    [roots : {<<AsFile(b), AsLib(a)>>},
     refs  : {(a :> <<AsLib(d)>>) @@ (b :> s) @@ (d :> <<>>) :
                 s \in {<<AsFile(d)>>, <<AsFile(a), AsFile(d)>>, <<>>}}]

-----------------------------------------------------------------------------
\* The post-order of a depth-first walk of the references: visited files, then
\* the files yielded.
RECURSIVE WalkFrom(_, _, _)
WalkFrom(p, list, acc) ==
    IF list = <<>> THEN acc
    ELSE LET f == Head(list).file
         IN  IF f \in acc.visited THEN WalkFrom(p, Tail(list), acc)
             ELSE LET inner == WalkFrom(p, p.refs[f], [acc EXCEPT !.visited = @ \cup {f}])
                  IN  WalkFrom(p, Tail(list), [inner EXCEPT !.yielded = Append(@, f)])

WalkOrder(p) == WalkFrom(p, p.roots, [visited |-> {}, yielded |-> <<>>]).yielded

\* The libraries of the order in rank order, then the rest.
FilesOf(ordered, isLib(_)) ==
    SortSeq(SelectSeq(ordered, isLib), LAMBDA f, g : LibPriority[f] < LibPriority[g])
        \o SelectSeq(ordered, LAMBDA f : ~isLib(f))

\* The references of program p, by owner, in the order the walk meets them.
Mentions(p) ==
    p.roots \o FlattenSeq([i \in 1..Len(WalkOrder(p)) |-> p.refs[WalkOrder(p)[i]]])

\* The program's file list is a function of the references alone: "dedup tasks
\* to ensure correct file order, regardless of which task would be started
\* first" (fileloader.go:163).  The order asked for is that of the sequential work
\* group.  With MCInputs any schedule gives it; with MixedPrograms, whose file d
\* is a library where a refers to it and not where b does, the sequential group
\* runs a's closure first and d is placed among the libraries.
OrderIsSequential ==
    loader = "done" =>
        files = FilesOf(WalkOrder(program), LAMBDA f : AsLib(f) \in ToSet(Mentions(program)))
=============================================================================
