--------------------------- MODULE MCProjectService ---------------------------
(***************************************************************************)
(* Small workspaces for ProjectService: two files, one of which the other  *)
(* may import.                                                             *)
(***************************************************************************)
EXTENDS ProjectService

CONSTANTS f, g, c1, blank, plain, user

TwoFiles == <<f, g>>

\* user imports f
MCImports == [t \in Texts \cup {Blank} |-> IF t = user THEN {f} ELSE {}]

\* Two files of one directory that has a tsconfig.json
OneConfig == [x \in Files |-> c1]

NoConfig == [x \in Files |-> Nil]

Included(S) == [files |-> {}, include |-> S]

SomeConfigs == {Included({f, g}), [files |-> {f}, include |-> {}]}

-----------------------------------------------------------------------------
(* A workspace that stays as it is: the disk has every file, each tsconfig.json *)
(* includes the files of its directory, and only the client writes to the disk. *)

Own(c) == Included({x \in Files : ConfigOf[x] = c})

OwnConfigs == {Own(c) : c \in Configs}

QuietInit ==
    /\ Init
    /\ \A x \in Files : disk[x] # Nil
    /\ \A c \in Configs : config[c] = Own(c)

QuietSpec == QuietInit /\ [][Handler]_vars
=============================================================================
