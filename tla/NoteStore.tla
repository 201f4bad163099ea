----------------------------- MODULE NoteStore -----------------------------
(***************************************************************************)
(* The notes of a repository with no mention of who writes them, or of how *)
(* many reads and writes it takes: an entity appears at one instant, under *)
(* a name never used before, and stays what it is; it may go, once, and    *)
(* does not come back; and an anchor is registered, for good, when it has  *)
(* an entity. Captures are not part of it.                                 *)
(*                                                                         *)
(* AnchorNotes implements it by commands that can be cut short anywhere.   *)
(***************************************************************************)
EXTENDS Naturals, Sequences

CONSTANTS Anchor,  \* the anchors that can be registered
          Entity   \* what can be written; each has the `group' its name is in

VARIABLES entities,   \* every entity ever written, in the order of their names
          live,       \* the names of those that are there
          registered  \* the anchors the registry names

vars == <<entities, live, registered>>

Init ==
    /\ entities = <<>>
    /\ live = {}
    /\ registered = {}

Put ==
    /\ \E entity \in Entity : entities' = Append(entities, entity)
    /\ live' = live \cup {Len(entities) + 1}
    /\ UNCHANGED registered

\* Entities come first: no anchor is registered that nothing was ever about.
Register ==
    /\ \E n \in DOMAIN entities :
        /\ entities[n].group \in Anchor
        /\ registered' = registered \cup {entities[n].group}
    /\ UNCHANGED <<entities, live>>

Delete ==
    /\ \E n \in live : live' = live \ {n}
    /\ UNCHANGED <<entities, registered>>

Next == Put \/ Register \/ Delete

Spec == Init /\ [][Next]_vars
=============================================================================
