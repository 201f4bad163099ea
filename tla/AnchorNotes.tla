---------------------------- MODULE AnchorNotes ----------------------------
(***************************************************************************)
(* `git anchor create', `inject', `list', `show' and `remove'              *)
(* (git-anchor/src/main.rs), run by several processes on one repository    *)
(* that git also collects garbage in.                                      *)
(*                                                                         *)
(* A capture writes a handle, which no ref keeps. `inject' reads the       *)
(* binding a handle locates, builds a document of the kind around it from  *)
(* the kind's schema and the command line, writes that as an entity, and,  *)
(* for a position, registers the handle under refs/anchors/<anchor id>.    *)
(* `remove' checks every name it was given and then deletes them; `list'   *)
(* asks for the names of a kind and then reads one after the other. Each   *)
(* read and each write is a step, and a process can die between any two.   *)
(*                                                                         *)
(* Entities are git-store's, named after the commit that wrote them: here  *)
(* they are numbered as they are written. git-store deletes one name at a  *)
(* time, and tells whether it was there. git prunes what no ref reaches,   *)
(* except objects so young that a running command may have written them.   *)
(* Whether an entity's copy of a binding shares its objects with the       *)
(* handle is git-store's business and is not counted on: a handle is kept  *)
(* by the registry alone. Of a value only its being there, being null and  *)
(* being a binding are kept. Every kind has a published schema.            *)
(***************************************************************************)
EXTENDS Naturals, Sequences, FiniteSets, Functions

CONSTANTS Process,
          Position,   \* ids of position bindings
          Whole,      \* ids of bindings without hints: commits and hybrids
          Hints,      \* what a handle keeps beside the identity
          Kind,       \* the kinds with a published schema
          Schema,     \* the fields of each kind's document, and their shapes
          MaxNotes,   \* bound: entities written
          MaxRemoves, \* bound: `remove' commands run
          MaxReaders  \* bound: processes in `list' or `show' at once

\* A field's node, whether it is in an `Optional', and whether the schema has a
\* default for it.
Shape == [node : {"String", "Binding", "Other"}, optional : BOOLEAN, has_default : BOOLEAN]

NoHandle == [anchor |-> "none"]
NoHints == "no hints"
NoKind == "none"

\* A `CaptureHandle': content-addressed over identity and hints.
Handle == [anchor : Position, hints : Hints] \cup [anchor : Whole, hints : {NoHints}]

ASSUME AnchorNotesAssumption ==
    /\ Position \cap Whole = {}
    /\ NoHandle \notin Handle /\ NoKind \notin Kind
    /\ \A k \in Kind : \A f \in DOMAIN Schema[k] : Schema[k][f] \in Shape
    /\ MaxNotes \in Nat /\ MaxRemoves \in Nat /\ MaxReaders \in Nat

\* `CaptureHandle::anchor_id': of the identity alone.
AnchorId(handle) == handle.anchor

Note == 1..MaxNotes

-----------------------------------------------------------------------------
(***************************************************************************)
(* Documents                                                               *)
(***************************************************************************)
Null == [value |-> "null"]
Filled == [value |-> "given"]
Defaulted == [value |-> "default"]

\* A binding in a document, or a field of any other node.
Bound(anchor) == [anchor |-> anchor]

Value == [anchor : Position \cup Whole] \cup {Null, Filled, Defaulted}

Fields(k) == DOMAIN Schema[k]

\* `shape_is_binding', directly or through an `Optional'.
BindingFields(k) == {f \in Fields(k) : Schema[k][f].node = "Binding"}

\* `binding_field' finds exactly one.
Anchorable(k) == \E f \in Fields(k) : BindingFields(k) = {f}

BindingField(k) == CHOOSE f \in Fields(k) : BindingFields(k) = {f}

\* What a positional argument could fill, the binding aside.
StringFields(k) ==
    {f \in Fields(k) : Schema[k][f] = [node |-> "String", optional |-> FALSE, has_default |-> FALSE]}

\* `unique_string_field': a positional argument fills the one there is.
Positional(k) ==
    IF Cardinality(StringFields(k)) = 1 THEN {[f \in StringFields(k) |-> Filled]} ELSE {}

\* --json sets any fields, the binding field to any binding at all.
Json(k) ==
    UNION {{[f \in set |-> IF Schema[k][f].node = "Binding" THEN Bound(a) ELSE Filled] :
               a \in Position \cup Whole} :
              set \in SUBSET Fields(k)}

\* What the command line sets: neither is required, and --json may set nothing.
Arguments(k) == Positional(k) \cup Json(k)

\* A field that nothing set: its default, or null.
Unset(k, f) == IF Schema[k][f].has_default THEN Defaulted ELSE Null

\* Variant: what the command line sets is set last.
DocumentOfArguments(k, anchor, given) ==
    [f \in Fields(k) |->
        IF f \in DOMAIN given THEN given[f]
        ELSE IF f = BindingField(k) THEN Bound(anchor) ELSE Unset(k, f)]

\* The document: the binding is set last, and over anything set before it.
Document(k, anchor, given) ==
    [f \in Fields(k) |->
        IF f = BindingField(k) THEN Bound(anchor)
        ELSE IF f \in DOMAIN given THEN given[f] ELSE Unset(k, f)]

\* `build' refuses a document with a required field that nothing set.
Buildable(k, given) ==
    \A f \in Fields(k) \ {BindingField(k)} :
        f \in DOMAIN given \/ Schema[k][f].optional \/ Schema[k][f].has_default

-----------------------------------------------------------------------------
VARIABLES objects,   \* handles in the object database
          registry,  \* refs/anchors/<anchor id>
          notes,     \* every entity ever written
          live,      \* the entities that are there
          injected,  \* those whose `inject' printed their name
          removals,  \* how many `remove' commands were started
          deletions, \* how often each entity was deleted
          reports,   \* what `remove' commands had done when they ended
          pc,        \* where each process is in its command
          inject,    \* what it injects, and the entity it wrote
          remove,    \* what it removes, and how far it is
          list       \* what it lists, and what it has printed

store == <<objects, registry, notes, live>>
ended == <<injected, removals, deletions, reports>>
locals == <<pc, inject, remove, list>>
vars == <<store, ended, locals>>

\* An entity: its kind, the group its name is in, and its document.
Entity ==
    UNION {[kind : {k}, group : Position \cup Whole, document : [Fields(k) -> Value]] :
              k \in {k \in Kind : Anchorable(k)}}

NoEntity == [kind |-> NoKind]

NoInject == [handle |-> NoHandle, entity |-> NoEntity, note |-> 0]

\* The names on the command line, and those the command has deleted.
NoRemove == [kind |-> NoKind, names |-> <<>>, at |-> 0, deleted |-> {}]

\* The names asked for, those still to be read, and those printed.
NoList == [names |-> {}, left |-> {}, shown |-> {}]

Running(step) == {p \in Process : pc[p] \in step}

\* The entities of kind k that are there.
Present(k) == {n \in live : notes[n].kind = k}

Init ==
    /\ objects = {}
    /\ registry = [a \in Position |-> NoHandle]
    /\ notes = <<>>
    /\ live = {}
    /\ injected = {}
    /\ removals = 0
    /\ deletions = [n \in Note |-> 0]
    /\ reports = {}
    /\ pc = [p \in Process |-> "idle"]
    /\ inject = [p \in Process |-> NoInject]
    /\ remove = [p \in Process |-> NoRemove]
    /\ list = [p \in Process |-> NoList]

Goto(p, step) == pc' = [pc EXCEPT ![p] = step]

-----------------------------------------------------------------------------
\* `cmd_create': a capture, which advances no ref.
Create ==
    /\ \E h \in Handle : objects' = objects \cup {h}
    /\ UNCHANGED <<registry, notes, live, ended, locals>>

\* git prunes a handle: it is not registered, and no running command wrote it.
Prune ==
    /\ \E h \in objects :
        /\ h \notin Range(registry)
        /\ \A p \in Running({"register"}) : inject[p].handle # h
        /\ objects' = objects \ {h}
    /\ UNCHANGED <<registry, notes, live, ended, locals>>

\* `cmd_inject' reads the schema and the binding, and builds the document;
\* without any of them there is nothing to inject.
Inject(p) ==
    /\ pc[p] = "idle"
    /\ Len(notes) < MaxNotes
    /\ \E k \in Kind, h \in objects :
        /\ Anchorable(k)
        /\ \E given \in Arguments(k) :
            /\ Buildable(k, given)
            /\ inject' = [inject EXCEPT ![p] =
                            [handle |-> h, note |-> 0,
                             entity |-> [kind |-> k, group |-> AnchorId(h),
                                         document |-> Document(k, AnchorId(h), given)]]]
    /\ Goto(p, "write")
    /\ UNCHANGED <<store, ended, remove, list>>

\* The entity is written, under a group named after the anchor id. Only a
\* position is registered.
WriteNote(p) ==
    /\ pc[p] = "write"
    /\ Len(notes) < MaxNotes
    /\ notes' = Append(notes, inject[p].entity)
    /\ live' = live \cup {Len(notes) + 1}
    /\ inject' = [inject EXCEPT ![p].note = Len(notes) + 1]
    /\ Goto(p, IF AnchorId(inject[p].handle) \in Position THEN "serialize" ELSE "print")
    /\ UNCHANGED <<objects, registry, ended, remove, list>>

\* Variant: the handle that was given is taken to be there still.
KeepHandle(p) ==
    /\ pc[p] = "serialize"
    /\ Goto(p, "register")
    /\ UNCHANGED <<store, ended, inject, remove, list>>

\* `serialize_into': the handle is written again.
WriteHandle(p) ==
    /\ pc[p] = "serialize"
    /\ objects' = objects \cup {inject[p].handle}
    /\ Goto(p, "register")
    /\ UNCHANGED <<registry, notes, live, ended, inject, remove, list>>

\* The registry ref is set, whatever it was.
Register(p) ==
    /\ pc[p] = "register"
    /\ registry' = [registry EXCEPT ![AnchorId(inject[p].handle)] = inject[p].handle]
    /\ Goto(p, "print")
    /\ UNCHANGED <<objects, notes, live, ended, inject, remove, list>>

\* The command prints the name of the entity, and ends.
PrintName(p) ==
    /\ pc[p] = "print"
    /\ injected' = injected \cup {inject[p].note}
    /\ inject' = [inject EXCEPT ![p] = NoInject]
    /\ Goto(p, "idle")
    /\ UNCHANGED <<store, removals, deletions, reports, remove, list>>

\* A crash or an error of the store.
AbandonInject(p) ==
    /\ pc[p] \in {"write", "serialize", "register", "print"}
    /\ inject' = [inject EXCEPT ![p] = NoInject]
    /\ Goto(p, "idle")
    /\ UNCHANGED <<store, ended, remove, list>>

-----------------------------------------------------------------------------
\* `cmd_list' asks for the names of a kind, all at once.
List(p) ==
    /\ pc[p] = "idle"
    /\ Cardinality(Running({"list"})) < MaxReaders
    /\ \E k \in Kind :
        list' = [list EXCEPT ![p] = [names |-> Present(k), left |-> Present(k), shown |-> {}]]
    /\ Goto(p, "list")
    /\ UNCHANGED <<store, ended, inject, remove>>

\* The name `list' reads next: they are in some order, which is not theirs here.
NextListed(p) == CHOOSE n \in list[p].left : TRUE

\* It is there, and is printed.
ReadListed(p) ==
    /\ pc[p] = "list"
    /\ list[p].left # {} /\ NextListed(p) \in live
    /\ list' = [list EXCEPT ![p] = [names |-> list[p].names,
                                  left |-> list[p].left \ {NextListed(p)},
                                  shown |-> list[p].shown \cup {NextListed(p)}]]
    /\ UNCHANGED <<store, ended, pc, inject, remove>>

\* Variant: the listing ends where an entity is missing.
StopListed(p) ==
    /\ pc[p] = "list"
    /\ list[p].left # {} /\ NextListed(p) \notin live
    /\ list' = [list EXCEPT ![p].left = {}]
    /\ UNCHANGED <<store, ended, pc, inject, remove>>

\* It was removed since: the listing goes on with the next.
SkipListed(p) ==
    /\ pc[p] = "list"
    /\ list[p].left # {} /\ NextListed(p) \notin live
    /\ list' = [list EXCEPT ![p].left = @ \ {NextListed(p)}]
    /\ UNCHANGED <<store, ended, pc, inject, remove>>

\* `cmd_show': one read of one name, which has to be there.
Show(p) ==
    /\ pc[p] = "idle"
    /\ Cardinality(Running({"list"})) < MaxReaders
    /\ \E k \in Kind : \E n \in Present(k) :
        list' = [list EXCEPT ![p] = [names |-> {n}, left |-> {}, shown |-> {n}]]
    /\ Goto(p, "list")
    /\ UNCHANGED <<store, ended, inject, remove>>

\* The command ends, having printed everything or not.
EndList(p) ==
    /\ pc[p] = "list"
    /\ list' = [list EXCEPT ![p] = NoList]
    /\ Goto(p, "idle")
    /\ UNCHANGED <<store, ended, inject, remove>>

-----------------------------------------------------------------------------
\* The names given are any one or two that were ever listed.
Names == {<<n>> : n \in DOMAIN notes} \cup {<<n, m>> : n, m \in DOMAIN notes}

\* `cmd_remove' starts.
Remove(p) ==
    /\ pc[p] = "idle"
    /\ removals < MaxRemoves
    /\ removals' = removals + 1
    /\ \E k \in Kind, names \in Names :
        remove' = [remove EXCEPT ![p] = [kind |-> k, names |-> names, at |-> 1, deleted |-> {}]]
    /\ Goto(p, "check")
    /\ UNCHANGED <<store, injected, deletions, reports, inject, list>>

\* The name the command has got to.
Current(p) == remove[p].names[remove[p].at]

IsPresent(p) == Current(p) \in Present(remove[p].kind)

AtLast(p) == remove[p].at = Len(remove[p].names)

\* A command ends, having deleted something or not, everything or not.
Finish(p, record, outcome) ==
    /\ reports' = reports \cup {[touched |-> record.deleted # {},
                                 whole |-> record.deleted = Range(record.names),
                                 outcome |-> outcome]}
    /\ remove' = [remove EXCEPT ![p] = NoRemove]
    /\ Goto(p, "idle")

\* Variant: the second loop goes on counting from the first.
CheckPast(p) ==
    /\ pc[p] = "check"
    /\ IsPresent(p)
    /\ Goto(p, IF AtLast(p) THEN "delete" ELSE "check")
    /\ remove' = [remove EXCEPT ![p].at = @ + 1]
    /\ UNCHANGED <<store, ended, inject, list>>

\* The first loop: the name is there.
Check(p) ==
    /\ pc[p] = "check"
    /\ IsPresent(p)
    /\ IF AtLast(p)
       THEN Goto(p, "delete") /\ remove' = [remove EXCEPT ![p].at = 1]
       ELSE UNCHANGED pc /\ remove' = [remove EXCEPT ![p].at = @ + 1]
    /\ UNCHANGED <<store, ended, inject, list>>

\* Either loop: it is not.
Refuse(p) ==
    /\ pc[p] \in {"check", "delete"}
    /\ ~IsPresent(p)
    /\ Finish(p, remove[p], "no entity")
    /\ UNCHANGED <<store, injected, removals, deletions, inject, list>>

\* One round of the second loop that leaves the registry so.
DeleteAnd(p, now) ==
    LET done == [remove[p] EXCEPT !.deleted = @ \cup {Current(p)}]
    IN  /\ pc[p] = "delete"
        /\ live' = live \ {Current(p)}
        /\ deletions' = [deletions EXCEPT ![Current(p)] = @ + 1]
        /\ registry' = now
        /\ IF AtLast(p)
           THEN Finish(p, done, "removed")
           ELSE /\ remove' = [remove EXCEPT ![p] = [done EXCEPT !.at = done.at + 1]]
                /\ UNCHANGED <<pc, reports>>
        /\ UNCHANGED <<objects, notes, injected, removals, inject, list>>

\* Variant: an entity that is no longer there counts as deleted.
DeleteAnyway(p) == pc[p] = "delete" /\ DeleteAnd(p, registry)

\* Variant: the anchor is unregistered with its entity.
DeleteAndUnregister(p) ==
    /\ pc[p] = "delete"
    /\ IsPresent(p)
    /\ DeleteAnd(p, [a \in Position |->
                        IF a = notes[Current(p)].group THEN NoHandle ELSE registry[a]])

\* The second loop: `delete_name'.
Delete(p) ==
    /\ pc[p] = "delete"
    /\ IsPresent(p)
    /\ DeleteAnd(p, registry)

AbandonRemove(p) ==
    /\ pc[p] \in {"check", "delete"}
    /\ Finish(p, remove[p], "died")
    /\ UNCHANGED <<store, injected, removals, deletions, inject, list>>

Next ==
    \/ Create
    \/ Prune
    \/ \E p \in Process :
        \/ Inject(p)
        \/ WriteNote(p)
        \/ WriteHandle(p)
        \/ Register(p)
        \/ PrintName(p)
        \/ AbandonInject(p)
        \/ List(p)
        \/ ReadListed(p)
        \/ SkipListed(p)
        \/ Show(p)
        \/ EndList(p)
        \/ Remove(p)
        \/ Check(p)
        \/ Refuse(p)
        \/ Delete(p)
        \/ AbandonRemove(p)

Spec == Init /\ [][Next]_vars

-----------------------------------------------------------------------------
(***************************************************************************)
(* Properties                                                              *)
(***************************************************************************)
Report == [touched : BOOLEAN, whole : BOOLEAN, outcome : {"removed", "no entity", "died"}]

Step == {"idle", "write", "serialize", "register", "print", "list", "check", "delete"}

\* It holds a handle and an entity, and knows its name once it is written.
Injecting(p) ==
    /\ inject[p].handle \in Handle
    /\ inject[p].entity \in Entity
    /\ IF pc[p] = "write" THEN inject[p].note = 0 ELSE inject[p].note \in DOMAIN notes
    /\ pc[p] \in {"serialize", "register"} => AnchorId(inject[p].handle) \in Position

\* It is at one of the names it was given, all of which were written once.
Removing(p) ==
    /\ remove[p].at \in DOMAIN remove[p].names
    /\ Range(remove[p].names) \subseteq DOMAIN notes

\* The type invariant: what a process holds is what its command is at, and every
\* name anywhere was once written.
TypeOK ==
    /\ objects \subseteq Handle
    /\ registry \in [Position -> Handle \cup {NoHandle}]
    /\ notes \in Seq(Entity) /\ Len(notes) <= MaxNotes
    /\ live \subseteq DOMAIN notes
    /\ injected \subseteq DOMAIN notes
    /\ removals \in 0..MaxRemoves
    /\ deletions \in [Note -> Nat]
    /\ reports \subseteq Report
    /\ pc \in [Process -> Step]
    /\ inject \in [Process -> [handle : Handle \cup {NoHandle}, entity : Entity \cup {NoEntity},
                               note : Note \cup {0}]]
    /\ remove \in [Process -> [kind : Kind \cup {NoKind}, names : Seq(Note), at : Nat,
                               deleted : SUBSET Note]]
    /\ list \in [Process -> [names : SUBSET Note, left : SUBSET Note, shown : SUBSET Note]]
    /\ \A p \in Process :
        /\ IF pc[p] \in {"write", "serialize", "register", "print"}
           THEN Injecting(p) ELSE inject[p] = NoInject
        /\ IF pc[p] \in {"check", "delete"} THEN Removing(p) ELSE remove[p] = NoRemove
        /\ IF pc[p] = "list" THEN list[p].names \subseteq DOMAIN notes ELSE list[p] = NoList

\* Whatever the registry names can be read, and is the anchor it is filed
\* under: an unregistered handle may be pruned at any time, and between the
\* entity and the ref lie other writers and a garbage collection.
RegistryResolves ==
    \A a \in Position :
        registry[a] # NoHandle => registry[a] \in objects /\ AnchorId(registry[a]) = a

\* The anchor of every position whose `inject' printed a name is registered,
\* whichever other entities of that anchor are injected, cut short or removed.
InjectedIsRegistered ==
    \A n \in injected : notes[n].group \in Position => registry[notes[n].group] # NoHandle

\* Every entity is complete, and its one binding is of the anchor its name is
\* grouped under, whatever --json put in that field and whatever was left out.
NoteIsOfItsAnchor ==
    \A n \in DOMAIN notes :
        LET k == notes[n].kind
        IN  \A f \in Fields(k) :
                LET value == notes[n].document[f]
                IN  /\ Schema[k][f].node = "Binding" =>
                            value = Bound(notes[n].group)
                    /\ value = Null => Schema[k][f].optional

\* A listing misses nothing and makes nothing up: it has printed every entity it
\* got past that is still there, although others were removed under it, and
\* nothing that was not there when it started.
ListingsAreWhole ==
    \A p \in Process :
        /\ (list[p].names \ list[p].left) \cap live \subseteq list[p].shown
        /\ list[p].shown \subseteq list[p].names

\* An entity is deleted by one command only, and stays deleted; one that reports
\* to have removed its names deleted each of them itself. So two commands given
\* the same name never both report that they removed it, although both may have
\* found it there.
RemovedOnce ==
    /\ \A n \in Note : deletions[n] = IF n \in DOMAIN notes \ live THEN 1 ELSE 0
    /\ \A r \in reports : r.outcome = "removed" => r.whole

\* `remove' deletes "every named entity, having confirmed all of them exist
\* first, so a missing name leaves every entity untouched" (main.rs:352-353):
\* a command that ends for want of an entity has deleted nothing.
FailedRemoveTouchesNothing ==
    \A r \in reports : r.outcome = "no entity" => ~r.touched

\* The anchors the registry names.
Registered == {a \in Position : registry[a] # NoHandle}

Store == INSTANCE NoteStore WITH Anchor <- Position, entities <- notes, registered <- Registered

\* Seen from the repository, every command is a few steps of the store of notes,
\* wherever it is cut short: it writes one entity under a new name, then may
\* register the anchor of that entity, or it deletes entities that are there; no
\* other command rewrites an entity, brings one back or unregisters its anchor.
ImplementsNoteStore == Store!Spec
=============================================================================
