---------------------------- MODULE MCTreeDiff ----------------------------
(***************************************************************************)
(* Trees three levels deep: a file in two versions, or with another mode,  *)
(* or a directory, or nothing, under each name the level has.              *)
(***************************************************************************)
EXTENDS TreeDiff

CONSTANTS x, y, one, two

MCName == {x, y}
MCObject == {one, two}
MCMode == {"file", "exec"}

\* A mode is only told from another one at the same object.
Leaves == {[id |-> one, mode |-> "file"], [id |-> two, mode |-> "file"],
           [id |-> one, mode |-> "exec"]}

Dirs(trees) == {[id |-> t, mode |-> "tree"] : t \in trees}

Trees(names, entries) == UNION {[d -> entries] : d \in SUBSET names}

Bottom == Trees({x}, Leaves)
Middle == Trees({x, y}, Leaves \cup Dirs(Bottom))
Top == {t \in Trees({x, y}, Leaves \cup Dirs(Middle)) :
            y \in DOMAIN t => t[y] \in Leaves}

MCTree == Bottom \cup Middle \cup Top
=============================================================================
