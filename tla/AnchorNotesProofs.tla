-------------------------- MODULE AnchorNotesProofs --------------------------
(***************************************************************************)
(* Theorems about AnchorNotes, for any processes, anchors, hints, kinds    *)
(* and schemas, and any number of commands.                                *)
(***************************************************************************)
EXTENDS AnchorNotes, SequenceTheorems, TLAPS

Inserting == {"write", "serialize", "register", "print"}
Deleting == {"check", "delete"}

-----------------------------------------------------------------------------
(***************************************************************************)
(* Documents                                                               *)
(***************************************************************************)

\* What a command line sets is a value, in a field of the kind.
LEMMA ArgumentsTyped ==
    ASSUME NEW k \in Kind, NEW given \in Arguments(k)
    PROVE  /\ DOMAIN given \subseteq Fields(k)
           /\ \A f \in DOMAIN given : given[f] \in Value
<1>1. CASE given \in Positional(k)
    BY <1>1 DEF Positional, StringFields, Fields, Value
<1>2. CASE given \in Json(k)
    <2>1. PICK set \in SUBSET Fields(k), a \in Position \cup Whole :
            given = [f \in set |-> IF Schema[k][f].node = "Binding" THEN Bound(a) ELSE Filled]
        BY <1>2 DEF Json
    <2>2. Bound(a) \in Value /\ Filled \in Value
        BY DEF Bound, Value
    <2>3. QED
        BY <2>1, <2>2
<1>3. QED
    BY <1>1, <1>2 DEF Arguments

LEMMA DocumentTyped ==
    ASSUME NEW k \in Kind, NEW a \in Position \cup Whole, NEW given \in Arguments(k)
    PROVE  Document(k, a, given) \in [Fields(k) -> Value]
<1> USE DEF Document
<1>1. Bound(a) \in Value /\ \A f : Unset(k, f) \in Value
    BY DEF Bound, Value, Unset
<1>2. ASSUME NEW f \in Fields(k)
      PROVE  Document(k, a, given)[f] \in Value
    <2>1. CASE f = BindingField(k)
        BY <2>1, <1>1
    <2>2. CASE f # BindingField(k) /\ f \in DOMAIN given
        BY <2>2, ArgumentsTyped
    <2>3. CASE f # BindingField(k) /\ f \notin DOMAIN given
        BY <2>3, <1>1
    <2>4. QED
        BY <2>1, <2>2, <2>3
<1>3. QED
    BY <1>2

LEMMA EntityOf ==
    ASSUME NEW k \in Kind, Anchorable(k), NEW a \in Position \cup Whole,
           NEW document \in [Fields(k) -> Value]
    PROVE  [kind |-> k, group |-> a, document |-> document] \in Entity
<1> DEFINE Of(j) == [kind : {j}, group : Position \cup Whole, document : [Fields(j) -> Value]]
<1>1. [kind |-> k, group |-> a, document |-> document] \in Of(k)
    OBVIOUS
<1>2. QED
    BY <1>1 DEF Entity

LEMMA EntityTyped ==
    ASSUME NEW e \in Entity
    PROVE  /\ e.kind \in Kind /\ Anchorable(e.kind)
           /\ e.group \in Position \cup Whole
           /\ e.document \in [Fields(e.kind) -> Value]
           /\ e = [kind |-> e.kind, group |-> e.group, document |-> e.document]
BY DEF Entity

\* Every handle is of an anchor.
LEMMA AnchorIdTyped ==
    ASSUME NEW h \in Handle
    PROVE  AnchorId(h) \in Position \cup Whole
BY DEF Handle, AnchorId

-----------------------------------------------------------------------------
(***************************************************************************)
(* Type correctness                                                        *)
(***************************************************************************)

\* The parts of the type invariant: the repository, what has ended, what the
\* processes hold, and what each of them holds where it is in its command.
StoreOK ==
    /\ objects \subseteq Handle
    /\ registry \in [Position -> Handle \cup {NoHandle}]
    /\ notes \in Seq(Entity) /\ Len(notes) <= MaxNotes
    /\ live \subseteq DOMAIN notes

EndedOK ==
    /\ injected \subseteq DOMAIN notes
    /\ removals \in 0..MaxRemoves
    /\ deletions \in [Note -> Nat]
    /\ reports \subseteq Report

LocalsOK ==
    /\ pc \in [Process -> Step]
    /\ inject \in [Process -> [handle : Handle \cup {NoHandle}, entity : Entity \cup {NoEntity},
                               note : Note \cup {0}]]
    /\ remove \in [Process -> [kind : Kind \cup {NoKind}, names : Seq(Note), at : Nat,
                               deleted : SUBSET Note]]
    /\ list \in [Process -> [names : SUBSET Note, left : SUBSET Note, shown : SUBSET Note]]

ProcessOK(p) ==
    /\ IF pc[p] \in Inserting THEN Injecting(p) ELSE inject[p] = NoInject
    /\ IF pc[p] \in Deleting THEN Removing(p) ELSE remove[p] = NoRemove
    /\ IF pc[p] = "list" THEN list[p].names \subseteq DOMAIN notes ELSE list[p] = NoList

LEMMA TypeParts ==
    TypeOK <=> StoreOK /\ EndedOK /\ LocalsOK /\ \A p \in Process : ProcessOK(p)
BY DEF TypeOK, StoreOK, EndedOK, LocalsOK, ProcessOK, Inserting, Deleting

\* The names ever written only become more, and stay within the bound.
LEMMA NamesAreNotes ==
    ASSUME StoreOK
    PROVE  DOMAIN notes = 1..Len(notes) /\ DOMAIN notes \subseteq Note
BY AnchorNotesAssumption DEF StoreOK, Note

\* A process that a step leaves alone is as it was.
LEMMA OthersOK ==
    ASSUME NEW q \in Process, ProcessOK(q), DOMAIN notes \subseteq DOMAIN notes',
           pc'[q] = pc[q], inject'[q] = inject[q], remove'[q] = remove[q], list'[q] = list[q]
    PROVE  ProcessOK(q)'
BY DEF ProcessOK, Injecting, Removing

LEMMA InitType == Init => TypeOK
<1> SUFFICES ASSUME Init PROVE TypeOK
    OBVIOUS
<1>1. StoreOK /\ EndedOK
    BY AnchorNotesAssumption DEF Init, StoreOK, EndedOK, Note
<1>2. LocalsOK
    BY DEF Init, LocalsOK, Step, NoInject, NoRemove, NoList, Note
<1>3. \A p \in Process : ProcessOK(p)
    BY DEF Init, ProcessOK, Inserting, Deleting
<1>4. QED
    BY <1>1, <1>2, <1>3, TypeParts

\* What is left to show of a step that one process takes.
Others(p) ==
    \A q \in Process \ {p} :
        pc'[q] = pc[q] /\ inject'[q] = inject[q] /\ remove'[q] = remove[q] /\ list'[q] = list[q]

LEMMA StepType ==
    ASSUME TypeOK, NEW p \in Process, StoreOK', EndedOK', LocalsOK',
           DOMAIN notes \subseteq DOMAIN notes', Others(p), ProcessOK(p)'
    PROVE  TypeOK'
<1>1. ASSUME NEW q \in Process PROVE ProcessOK(q)'
    <2>1. CASE q = p
        BY <2>1
    <2>2. CASE q # p
        BY <2>2, OthersOK, TypeParts DEF Others
    <2>3. QED
        BY <2>1, <2>2
<1>2. QED
    BY <1>1, TypeParts DEF TypeOK, StoreOK, EndedOK, LocalsOK, ProcessOK, Inserting, Deleting

\* Steps of `create' and of git.
LEMMA StoreType ==
    ASSUME TypeOK, Create \/ Prune
    PROVE  TypeOK'
<1>1. objects' \subseteq Handle
    BY DEF Create, Prune, TypeOK
<1>2. UNCHANGED <<registry, notes, live, injected, removals, deletions, reports, pc, inject, remove, list>>
    BY DEF Create, Prune, ended, locals
<1>3. QED
    BY <1>1, <1>2 DEF TypeOK, Injecting, Removing

LEMMA InjectType ==
    ASSUME TypeOK, NEW p \in Process, Inject(p)
    PROVE  TypeOK'
<1> USE DEF Inject
<1>0. PICK k \in Kind, h \in objects :
        /\ Anchorable(k)
        /\ \E given \in Arguments(k) :
            inject' = [inject EXCEPT ![p] =
                        [handle |-> h, note |-> 0,
                         entity |-> [kind |-> k, group |-> AnchorId(h),
                                     document |-> Document(k, AnchorId(h), given)]]]
    OBVIOUS
<1>1. PICK given \in Arguments(k) :
        inject' = [inject EXCEPT ![p] =
                    [handle |-> h, note |-> 0,
                     entity |-> [kind |-> k, group |-> AnchorId(h),
                                 document |-> Document(k, AnchorId(h), given)]]]
    BY <1>0
<1> DEFINE e == [kind |-> k, group |-> AnchorId(h), document |-> Document(k, AnchorId(h), given)]
<1>2. h \in Handle
    BY DEF TypeOK
<1>3. e \in Entity
    BY <1>0, <1>2, AnchorIdTyped, DocumentTyped, EntityOf
<1> HIDE DEF e
<1>4. inject' = [inject EXCEPT ![p] = [handle |-> h, note |-> 0, entity |-> e]]
    BY <1>1 DEF e
<1>5. UNCHANGED <<objects, registry, notes, live, injected, removals, deletions, reports, remove, list>>
    BY DEF store, ended
<1>6. LocalsOK' /\ pc'[p] = "write" /\ Others(p)
    BY <1>2, <1>3, <1>4, <1>5 DEF TypeOK, LocalsOK, Goto, Step, Others
<1>7. StoreOK' /\ EndedOK'
    BY <1>5, TypeParts DEF StoreOK, EndedOK
<1>8. ProcessOK(p)'
    BY <1>2, <1>3, <1>4, <1>5, <1>6
    DEF TypeOK, ProcessOK, Injecting, Inserting, Deleting
<1>9. QED
    BY <1>5, <1>6, <1>7, <1>8, StepType

LEMMA WriteNoteType ==
    ASSUME TypeOK, NEW p \in Process, WriteNote(p)
    PROVE  TypeOK'
<1> USE DEF WriteNote
<1> DEFINE n == Len(notes) + 1
<1>1. inject[p].entity \in Entity /\ inject[p].handle \in Handle /\ n \in Note
    BY AnchorNotesAssumption DEF TypeOK, Injecting, Note
<1>2. /\ notes' \in Seq(Entity) /\ Len(notes') = n
      /\ DOMAIN notes' = 1..n /\ DOMAIN notes = 1..Len(notes)
    BY <1>1 DEF TypeOK
<1>3. UNCHANGED <<objects, registry, injected, removals, deletions, reports, remove, list>>
    BY DEF ended
<1>4. StoreOK' /\ EndedOK'
    BY <1>1, <1>2, <1>3, AnchorNotesAssumption DEF TypeOK, StoreOK, EndedOK
<1>5. LocalsOK' /\ Others(p) /\ pc'[p] \in {"serialize", "print"}
    <2>1. inject' = [inject EXCEPT ![p].note = n]
        OBVIOUS
    <2>2. inject' \in [Process -> [handle : Handle \cup {NoHandle}, entity : Entity \cup {NoEntity},
                                   note : Note \cup {0}]]
        <3> DEFINE Record == [handle : Handle \cup {NoHandle}, entity : Entity \cup {NoEntity},
                              note : Note \cup {0}]
                   now == [inject[p] EXCEPT !.note = n]
        <3>1. inject \in [Process -> Record]
            BY DEF TypeOK
        <3>2. inject[p] \in Record
            BY <3>1
        <3> HIDE DEF n
        <3>3. now \in Record
            BY <1>1, <3>2
        <3>4. inject' = [inject EXCEPT ![p] = now]
            BY <2>1
        <3> HIDE DEF Record, now
        <3>5. inject' \in [Process -> Record]
            BY <3>1, <3>3, <3>4
        <3>6. QED
            BY <3>5 DEF Record
    <2>3. PICK s \in {"serialize", "print"} : pc' = [pc EXCEPT ![p] = s]
        BY DEF Goto
    <2>4. QED
        BY <1>3, <2>1, <2>2, <2>3 DEF TypeOK, LocalsOK, Step, Others
<1>6. ProcessOK(p)'
    <2>1. inject'[p] = [inject[p] EXCEPT !.note = n]
        BY DEF TypeOK
    <2>2. pc'[p] = "serialize" => AnchorId(inject[p].handle) \in Position
        BY DEF TypeOK, Goto
    <2>3. inject'[p].note = n /\ inject'[p].handle = inject[p].handle
            /\ inject'[p].entity = inject[p].entity
        BY <2>1 DEF TypeOK
    <2>4. Injecting(p)'
        BY <1>1, <1>2, <1>5, <2>2, <2>3 DEF Injecting
    <2>5. QED
        BY <1>3, <1>5, <2>4 DEF TypeOK, ProcessOK, Inserting, Deleting
<1>7. QED
    BY <1>2, <1>4, <1>5, <1>6, StepType

LEMMA WriteHandleType ==
    ASSUME TypeOK, NEW p \in Process, WriteHandle(p) \/ Register(p)
    PROVE  TypeOK'
<1> USE DEF WriteHandle, Register
<1>1. inject[p].handle \in Handle /\ AnchorId(inject[p].handle) \in Position
    BY DEF TypeOK, Injecting
<1>2. UNCHANGED <<notes, live, injected, removals, deletions, reports, inject, remove, list>>
    BY DEF ended
<1>3. StoreOK' /\ EndedOK'
    BY <1>1, <1>2 DEF TypeOK, StoreOK, EndedOK
<1>4. LocalsOK' /\ Others(p) /\ pc'[p] \in {"register", "print"}
    BY <1>2 DEF TypeOK, LocalsOK, Goto, Step, Others
<1>5. ProcessOK(p)'
    BY <1>1, <1>2, <1>4 DEF TypeOK, ProcessOK, Injecting, Inserting, Deleting
<1>6. QED
    BY <1>2, <1>3, <1>4, <1>5, StepType

LEMMA EndInjectType ==
    ASSUME TypeOK, NEW p \in Process, PrintName(p) \/ AbandonInject(p)
    PROVE  TypeOK'
<1> USE DEF PrintName, AbandonInject
<1>1. UNCHANGED <<objects, registry, notes, live, removals, deletions, reports, remove, list>>
    BY DEF store, ended
<1>2. injected' \subseteq DOMAIN notes
    BY DEF TypeOK, Injecting, ended
<1>3. StoreOK' /\ EndedOK'
    BY <1>1, <1>2 DEF TypeOK, StoreOK, EndedOK
<1>4. LocalsOK' /\ Others(p) /\ pc'[p] = "idle" /\ inject'[p] = NoInject
    <2>1. NoInject \in [handle : Handle \cup {NoHandle}, entity : Entity \cup {NoEntity},
                        note : Note \cup {0}]
        BY DEF NoInject
    <2>2. pc' = [pc EXCEPT ![p] = "idle"] /\ inject' = [inject EXCEPT ![p] = NoInject]
        BY DEF Goto
    <2>3. QED
        BY <1>1, <2>1, <2>2 DEF TypeOK, LocalsOK, Step, Others
<1>5. ProcessOK(p)'
    BY <1>1, <1>4 DEF TypeOK, ProcessOK, Inserting, Deleting
<1>6. QED
    BY <1>1, <1>3, <1>4, <1>5, StepType

\* A step of `list' or `show' that leaves the process with what it lists.
LEMMA ReaderType ==
    ASSUME TypeOK, NEW p \in Process,
           NEW l \in [names : SUBSET Note, left : SUBSET Note, shown : SUBSET Note],
           l.names \subseteq DOMAIN notes,
           pc[p] \in {"idle", "list"},
           UNCHANGED <<store, ended, inject, remove>>,
           list' = [list EXCEPT ![p] = l],
           \/ pc' = [pc EXCEPT ![p] = "list"]
           \/ pc' = [pc EXCEPT ![p] = "idle"] /\ l = NoList
    PROVE  TypeOK'
<1>1. UNCHANGED <<objects, registry, notes, live, injected, removals, deletions, reports, inject, remove>>
    BY DEF store, ended
<1>2. StoreOK' /\ EndedOK'
    BY <1>1, TypeParts DEF StoreOK, EndedOK
<1>3. LocalsOK' /\ Others(p)
    BY <1>1 DEF TypeOK, LocalsOK, Step, Others
<1>4. pc'[p] \in {"idle", "list"} /\ list'[p] = l /\ (pc'[p] # "list" => l = NoList)
    BY DEF TypeOK
<1>5. ProcessOK(p)'
    BY <1>1, <1>4 DEF TypeOK, ProcessOK, Inserting, Deleting
<1>6. QED
    BY <1>1, <1>2, <1>3, <1>5, StepType

LEMMA ListType ==
    ASSUME TypeOK, NEW p \in Process,
           List(p) \/ ReadListed(p) \/ SkipListed(p) \/ Show(p) \/ EndList(p)
    PROVE  TypeOK'
<1>1. live \subseteq DOMAIN notes /\ DOMAIN notes \subseteq Note
    BY NamesAreNotes, TypeParts DEF TypeOK
<1>2. CASE List(p)
    <2>1. PICK k \in Kind :
            list' = [list EXCEPT ![p] = [names |-> Present(k), left |-> Present(k), shown |-> {}]]
        BY <1>2 DEF List
    <2>2. Present(k) \subseteq DOMAIN notes /\ Present(k) \subseteq Note
        BY <1>1 DEF Present
    <2>3. QED
        BY <1>2, <2>1, <2>2, ReaderType DEF List, Goto
<1>3. CASE ReadListed(p)
    <2> DEFINE l == [names |-> list[p].names, left |-> list[p].left \ {NextListed(p)},
                     shown |-> list[p].shown \cup {NextListed(p)}]
    <2>1. list' = [list EXCEPT ![p] = l] /\ pc[p] = "list" /\ pc' = pc
        BY <1>3 DEF ReadListed
    <2>2. /\ l \in [names : SUBSET Note, left : SUBSET Note, shown : SUBSET Note]
          /\ l.names = list[p].names
        BY <1>1, <1>3 DEF ReadListed, TypeOK
    <2>3. pc' = [pc EXCEPT ![p] = "list"] /\ list[p].names \subseteq DOMAIN notes
        BY <2>1 DEF TypeOK
    <2>4. QED
        BY <1>3, <2>1, <2>2, <2>3, ReaderType DEF ReadListed
<1>4. CASE SkipListed(p)
    <2> DEFINE l == [list[p] EXCEPT !.left = @ \ {NextListed(p)}]
    <2>1. list' = [list EXCEPT ![p] = l] /\ pc[p] = "list" /\ pc' = pc
        BY <1>4 DEF SkipListed
    <2>2. /\ l \in [names : SUBSET Note, left : SUBSET Note, shown : SUBSET Note]
          /\ l.names = list[p].names
        BY DEF TypeOK
    <2>3. pc' = [pc EXCEPT ![p] = "list"] /\ list[p].names \subseteq DOMAIN notes
        BY <2>1 DEF TypeOK
    <2>4. QED
        BY <1>4, <2>1, <2>2, <2>3, ReaderType DEF SkipListed
<1>5. CASE Show(p)
    <2>1. PICK k \in Kind :
            \E n \in Present(k) :
                list' = [list EXCEPT ![p] = [names |-> {n}, left |-> {}, shown |-> {n}]]
        BY <1>5 DEF Show
    <2>2. PICK n \in Present(k) :
            list' = [list EXCEPT ![p] = [names |-> {n}, left |-> {}, shown |-> {n}]]
        BY <2>1
    <2>3. n \in DOMAIN notes /\ n \in Note
        BY <1>1 DEF Present
    <2>4. QED
        BY <1>5, <2>2, <2>3, ReaderType DEF Show, Goto
<1>6. CASE EndList(p)
    <2>1. NoList \in [names : SUBSET Note, left : SUBSET Note, shown : SUBSET Note]
            /\ NoList.names = {}
        BY DEF NoList
    <2>2. QED
        BY <1>6, <2>1, ReaderType DEF EndList, Goto
<1>7. QED
    BY <1>2, <1>3, <1>4, <1>5, <1>6

RemoveRecord == [kind : Kind \cup {NoKind}, names : Seq(Note), at : Nat, deleted : SUBSET Note]

\* The names on a command line are one or two that were written.
LEMMA NamesTyped ==
    ASSUME StoreOK, NEW names \in Names
    PROVE  names \in Seq(Note) /\ 1 \in DOMAIN names /\ Range(names) \subseteq DOMAIN notes
<1>1. CASE \E n \in DOMAIN notes : names = <<n>>
    BY <1>1, NamesAreNotes DEF Range
<1>2. CASE \E n, m \in DOMAIN notes : names = <<n, m>>
    BY <1>2, NamesAreNotes DEF Range
<1>3. QED
    BY <1>1, <1>2 DEF Names

\* The name a command has got to was written.
LEMMA CurrentTyped ==
    ASSUME TypeOK, NEW p \in Process, pc[p] \in Deleting
    PROVE  /\ Removing(p)
           /\ Current(p) \in DOMAIN notes /\ Current(p) \in Note
           /\ Current(p) \in Range(remove[p].names)
           /\ remove[p].at \in 1..Len(remove[p].names)
<1>1. Removing(p) /\ remove[p] \in RemoveRecord
    BY DEF TypeOK, Deleting, RemoveRecord
<1>2. DOMAIN notes \subseteq Note
    BY NamesAreNotes, TypeParts
<1>3. QED
    BY <1>1, <1>2 DEF Removing, Current, Range, RemoveRecord

\* A step of `remove' that goes on with r, or ends.
LEMMA RemoverType ==
    ASSUME TypeOK, NEW p \in Process, StoreOK', EndedOK', UNCHANGED <<notes, inject, list>>,
           pc[p] \in Deleting \cup {"idle"},
           NEW r \in RemoveRecord, NEW s \in Step,
           remove' = [remove EXCEPT ![p] = r], pc' = [pc EXCEPT ![p] = s],
           \/ s = "idle" /\ r = NoRemove
           \/ s \in Deleting /\ r.at \in DOMAIN r.names /\ Range(r.names) \subseteq DOMAIN notes
    PROVE  TypeOK'
<1>1. LocalsOK' /\ Others(p)
    BY DEF TypeOK, LocalsOK, Others, RemoveRecord
<1>2. pc'[p] = s /\ remove'[p] = r
    BY DEF TypeOK
<1>3. inject[p] = NoInject /\ list[p] = NoList
    BY DEF TypeOK, Deleting
<1>4. ProcessOK(p)'
    BY <1>2, <1>3 DEF ProcessOK, Removing, Inserting, Deleting
<1>5. QED
    BY <1>1, <1>4, StepType

LEMMA FinishType ==
    ASSUME TypeOK, NEW p \in Process, StoreOK', UNCHANGED <<notes, inject, list, injected, removals>>,
           deletions' \in [Note -> Nat], pc[p] \in Deleting, NEW record,
           NEW outcome \in {"removed", "no entity", "died"}, Finish(p, record, outcome)
    PROVE  TypeOK'
<1>1. reports' \subseteq Report
    <2>1. \A touched, whole \in BOOLEAN :
            [touched |-> touched, whole |-> whole, outcome |-> outcome] \in Report
        BY DEF Report
    <2>2. /\ (record.deleted # {}) \in BOOLEAN
          /\ (record.deleted = Range(record.names)) \in BOOLEAN
        OBVIOUS
    <2>3. [touched |-> record.deleted # {}, whole |-> record.deleted = Range(record.names),
           outcome |-> outcome] \in Report
        BY <2>1, <2>2, Zenon
    <2>4. QED
        BY <2>3 DEF Finish, TypeOK
<1>2. EndedOK'
    BY <1>1 DEF TypeOK, EndedOK
<1>3. NoRemove \in RemoveRecord
    <2>1. <<>> \in Seq(Note)
        BY EmptySeq
    <2>2. QED
        BY <2>1 DEF NoRemove, RemoveRecord
<1>4. "idle" \in Step
    BY DEF Step
<1>5. QED
    BY <1>2, <1>3, <1>4, RemoverType DEF Finish, Goto

LEMMA RemoveType ==
    ASSUME TypeOK, NEW p \in Process, Remove(p)
    PROVE  TypeOK'
<1>1. PICK k \in Kind, names \in Names :
        remove' = [remove EXCEPT ![p] = [kind |-> k, names |-> names, at |-> 1, deleted |-> {}]]
    BY DEF Remove
<1> DEFINE r == [kind |-> k, names |-> names, at |-> 1, deleted |-> {}]
<1>2. r \in RemoveRecord /\ r.at \in DOMAIN r.names /\ Range(r.names) \subseteq DOMAIN notes
    BY NamesTyped, TypeParts DEF RemoveRecord
<1>3. StoreOK' /\ EndedOK'
    BY AnchorNotesAssumption DEF Remove, store, TypeOK, StoreOK, EndedOK
<1>4. "check" \in Step /\ "check" \in Deleting
    BY DEF Step, Deleting
<1> HIDE DEF r
<1>5. remove' = [remove EXCEPT ![p] = r] /\ pc' = [pc EXCEPT ![p] = "check"] /\ pc[p] = "idle"
    BY <1>1 DEF r, Remove, Goto
<1>6. QED
    BY <1>2, <1>3, <1>4, <1>5, RemoverType DEF Remove, store

LEMMA CheckType ==
    ASSUME TypeOK, NEW p \in Process, Check(p)
    PROVE  TypeOK'
<1>1. pc[p] = "check" /\ pc[p] \in Deleting /\ UNCHANGED <<store, ended, inject, list>>
    BY DEF Check, Deleting
<1>2. StoreOK' /\ EndedOK'
    BY <1>1 DEF store, ended, TypeOK, StoreOK, EndedOK
<1>3. Removing(p) /\ remove[p] \in RemoveRecord /\ remove[p].at \in 1..Len(remove[p].names)
    BY <1>1, CurrentTyped DEF TypeOK, RemoveRecord
<1>4. CASE AtLast(p)
    <2> DEFINE r == [remove[p] EXCEPT !.at = 1]
    <2>1. r \in RemoveRecord /\ r.at \in DOMAIN r.names /\ Range(r.names) \subseteq DOMAIN notes
        BY <1>3 DEF RemoveRecord, Removing
    <2>2. remove' = [remove EXCEPT ![p].at = 1] /\ pc' = [pc EXCEPT ![p] = "delete"]
        BY <1>4 DEF Check, Goto
    <2>3. remove' = [remove EXCEPT ![p] = r]
        BY <2>2
    <2>4. "delete" \in Step /\ "delete" \in Deleting
        BY DEF Step, Deleting
    <2>5. QED
        BY <1>1, <1>2, <2>1, <2>2, <2>3, <2>4, RemoverType DEF store
<1>5. CASE ~AtLast(p)
    <2> DEFINE r == [remove[p] EXCEPT !.at = @ + 1]
    <2>1. r \in RemoveRecord /\ r.at \in DOMAIN r.names /\ Range(r.names) \subseteq DOMAIN notes
        BY <1>3, <1>5 DEF RemoveRecord, Removing, AtLast
    <2>2. remove' = [remove EXCEPT ![p].at = @ + 1] /\ pc' = pc
        BY <1>5 DEF Check
    <2>3. remove' = [remove EXCEPT ![p] = r]
        BY <2>2
    <2>4. "check" \in Step /\ "check" \in Deleting /\ pc' = [pc EXCEPT ![p] = "check"]
        BY <1>1, <2>2 DEF Step, Deleting, TypeOK
    <2>5. QED
        BY <1>1, <1>2, <2>1, <2>3, <2>4, RemoverType DEF store
<1>6. QED
    BY <1>4, <1>5

LEMMA CutShortType ==
    ASSUME TypeOK, NEW p \in Process, Refuse(p) \/ AbandonRemove(p)
    PROVE  TypeOK'
<1>1. /\ UNCHANGED <<store, injected, removals, deletions, inject, list>>
      /\ pc[p] \in Deleting
      /\ \E outcome \in {"no entity", "died"} : Finish(p, remove[p], outcome)
    BY DEF Refuse, AbandonRemove, Deleting
<1>2. StoreOK' /\ deletions' \in [Note -> Nat]
    BY <1>1 DEF store, TypeOK, StoreOK
<1>3. QED
    BY <1>1, <1>2, FinishType DEF store

LEMMA DeleteType ==
    ASSUME TypeOK, NEW p \in Process, Delete(p)
    PROVE  TypeOK'
<1> DEFINE done == [remove[p] EXCEPT !.deleted = @ \cup {Current(p)}]
           r == [done EXCEPT !.at = done.at + 1]
<1>1. /\ pc[p] = "delete" /\ pc[p] \in Deleting
      /\ live' = live \ {Current(p)} /\ registry' = registry
      /\ deletions' = [deletions EXCEPT ![Current(p)] = @ + 1]
      /\ UNCHANGED <<objects, notes, injected, removals, inject, list>>
      /\ IF AtLast(p)
         THEN Finish(p, done, "removed")
         ELSE remove' = [remove EXCEPT ![p] = r] /\ UNCHANGED <<pc, reports>>
    BY DEF Delete, DeleteAnd, Deleting
<1>2. /\ Removing(p) /\ remove[p] \in RemoveRecord
      /\ Current(p) \in Note /\ remove[p].at \in 1..Len(remove[p].names)
    BY <1>1, CurrentTyped DEF TypeOK, RemoveRecord
<1>3. StoreOK' /\ deletions' \in [Note -> Nat]
    BY <1>1, <1>2 DEF TypeOK, StoreOK
<1>4. CASE AtLast(p)
    BY <1>1, <1>3, <1>4, FinishType
<1>5. CASE ~AtLast(p)
    <2>1. EndedOK'
        BY <1>1, <1>3, <1>5 DEF TypeOK, EndedOK
    <2>2. r \in RemoveRecord /\ r.at \in DOMAIN r.names /\ Range(r.names) \subseteq DOMAIN notes
        <3>1. done \in RemoveRecord /\ done.at = remove[p].at /\ done.names = remove[p].names
            BY <1>2 DEF RemoveRecord
        <3> HIDE DEF done
        <3>2. r \in RemoveRecord /\ r.at = remove[p].at + 1 /\ r.names = remove[p].names
            BY <1>2, <3>1 DEF RemoveRecord
        <3>3. remove[p].at + 1 \in 1..Len(remove[p].names)
            BY <1>2, <1>5 DEF RemoveRecord, AtLast
        <3>4. QED
            BY <1>2, <3>2, <3>3 DEF RemoveRecord, Removing
    <2>3. "delete" \in Step /\ "delete" \in Deleting /\ pc' = [pc EXCEPT ![p] = "delete"]
        BY <1>1, <1>5 DEF Step, Deleting, TypeOK
    <2> HIDE DEF r
    <2>4. QED
        BY <1>1, <1>3, <1>5, <2>1, <2>2, <2>3, RemoverType
<1>6. QED
    BY <1>4, <1>5

LEMMA NextType == TypeOK /\ [Next]_vars => TypeOK'
<1> SUFFICES ASSUME TypeOK, [Next]_vars PROVE TypeOK'
    OBVIOUS
<1>1. CASE UNCHANGED vars
    BY <1>1 DEF vars, store, ended, locals, TypeOK, Injecting, Removing
<1>2. CASE Next
    BY <1>2, StoreType, InjectType, WriteNoteType, WriteHandleType, EndInjectType, ListType,
       RemoveType, CheckType, CutShortType, DeleteType DEF Next
<1>3. QED
    BY <1>1, <1>2

\* What a process holds fits where it is in its command, and every name
\* anywhere was once written, whoever dies where.
THEOREM NotesTypeCorrect == Spec => []TypeOK
<1>1. QED
    BY InitType, NextType, PTL DEF Spec

-----------------------------------------------------------------------------
(***************************************************************************)
(* The registry                                                            *)
(***************************************************************************)

\* The steps that leave what is injected, and where that has got to, alone.
Aside(p) ==
    \/ List(p) \/ ReadListed(p) \/ SkipListed(p) \/ Show(p) \/ EndList(p)
    \/ Remove(p) \/ Check(p) \/ Refuse(p) \/ Delete(p) \/ AbandonRemove(p)

LEMMA AsideKeeps ==
    ASSUME TypeOK, NEW p \in Process, Aside(p)
    PROVE  /\ UNCHANGED <<objects, registry, notes, injected, inject>>
           /\ \A q \in Process :
                pc'[q] = pc[q] \/ (pc[q] \notin Inserting /\ pc'[q] \notin Inserting)
<1>1. CASE List(p) \/ Show(p) \/ EndList(p) \/ Remove(p)
    BY <1>1 DEF List, Show, EndList, Remove, Goto, store, ended, TypeOK, Inserting
<1>2. CASE ReadListed(p) \/ SkipListed(p)
    BY <1>2 DEF ReadListed, SkipListed, store, ended
<1>3. CASE Check(p)
    BY <1>3 DEF Check, Goto, store, ended, TypeOK, Inserting
<1>4. CASE Refuse(p) \/ AbandonRemove(p)
    BY <1>4 DEF Refuse, AbandonRemove, Finish, Goto, store, TypeOK, Inserting
<1>5. CASE Delete(p)
    BY <1>5 DEF Delete, DeleteAnd, Finish, Goto, TypeOK, Inserting
<1>6. QED
    BY <1>1, <1>2, <1>3, <1>4, <1>5 DEF Aside

\* What a step is one of.
LEMMA NextSteps ==
    ASSUME Next
    PROVE  \/ Create
           \/ Prune
           \/ \E p \in Process :
                \/ Inject(p) \/ WriteNote(p) \/ WriteHandle(p) \/ Register(p)
                \/ PrintName(p) \/ AbandonInject(p) \/ Aside(p)
BY DEF Next, Aside

\* What is about to be registered was written, and cannot be pruned.
AboutToRegister == \A p \in Process : pc[p] = "register" => inject[p].handle \in objects

RegistryInv == TypeOK /\ AboutToRegister /\ RegistryResolves

LEMMA RegistryNext == RegistryInv /\ [Next]_vars => RegistryInv'
<1> SUFFICES ASSUME RegistryInv, [Next]_vars PROVE RegistryInv'
    OBVIOUS
<1> USE DEF RegistryInv, AboutToRegister, RegistryResolves
<1>1. TypeOK'
    BY NextType
<1>2. \A a \in Position : registry[a] \in Handle \cup {NoHandle}
    BY DEF TypeOK
<1>3. CASE UNCHANGED vars
    BY <1>1, <1>3 DEF vars, store, locals
<1>4. CASE Create
    BY <1>1, <1>4 DEF Create, locals
<1>5. CASE Prune
    <2>1. PICK h \in objects :
            /\ h \notin Range(registry)
            /\ \A p \in Running({"register"}) : inject[p].handle # h
            /\ objects' = objects \ {h}
        BY <1>5 DEF Prune
    <2>2. \A a \in Position : registry[a] # h
        BY <2>1 DEF TypeOK, Range
    <2>3. \A p \in Process : pc[p] = "register" => inject[p].handle # h
        BY <2>1 DEF Running
    <2>4. QED
        BY <1>1, <1>5, <2>1, <2>2, <2>3 DEF Prune, locals
<1>6. ASSUME NEW p \in Process,
             Inject(p) \/ WriteNote(p) \/ PrintName(p) \/ AbandonInject(p) \/ Aside(p)
      PROVE  RegistryInv'
    <2>1. UNCHANGED <<objects, registry>>
        BY <1>6, AsideKeeps DEF Inject, WriteNote, PrintName, AbandonInject, store
    <2>2. \A q \in Process : pc'[q] = "register" => pc[q] = "register" /\ inject'[q] = inject[q]
        <3>1. CASE Aside(p)
            BY <3>1, AsideKeeps DEF Inserting
        <3>2. CASE ~Aside(p)
            <4>1. PICK s \in Step : pc' = [pc EXCEPT ![p] = s] /\ s # "register"
                BY <1>6, <3>2 DEF Inject, WriteNote, PrintName, AbandonInject, Goto, Step
            <4>2. \A q \in Process \ {p} : inject'[q] = inject[q]
                BY <1>6, <3>2 DEF Inject, WriteNote, PrintName, AbandonInject, TypeOK
            <4>3. QED
                BY <4>1, <4>2 DEF TypeOK
        <3>3. QED
            BY <3>1, <3>2
    <2>3. QED
        BY <1>1, <2>1, <2>2
<1>7. ASSUME NEW p \in Process, WriteHandle(p)
      PROVE  RegistryInv'
    <2>1. objects' = objects \cup {inject[p].handle} /\ UNCHANGED <<registry, inject>>
        BY <1>7 DEF WriteHandle
    <2>2. \A q \in Process \ {p} : pc'[q] = pc[q]
        BY <1>7 DEF WriteHandle, Goto, TypeOK
    <2>3. QED
        BY <1>1, <2>1, <2>2
<1>8. ASSUME NEW p \in Process, Register(p)
      PROVE  RegistryInv'
    <2>1. /\ registry' = [registry EXCEPT ![AnchorId(inject[p].handle)] = inject[p].handle]
          /\ UNCHANGED <<objects, inject>> /\ pc[p] = "register"
          /\ \A q \in Process : pc'[q] = "register" => pc[q] = "register"
        BY <1>8 DEF Register, Goto, TypeOK
    <2>2. QED
        BY <1>1, <2>1 DEF TypeOK
<1>9. QED
    BY <1>3, <1>4, <1>5, <1>6, <1>7, <1>8, NextSteps

\* Whatever the registry names can be read, however captures are pruned
\* between the reads and writes of any number of commands.
THEOREM RegistryCorrect == Spec => []RegistryResolves
<1>1. Init => RegistryInv
    BY InitType DEF Init, RegistryInv, AboutToRegister, RegistryResolves
<1>2. RegistryInv => RegistryResolves
    BY DEF RegistryInv
<1>3. QED
    BY <1>1, <1>2, RegistryNext, PTL DEF Spec

-----------------------------------------------------------------------------
(***************************************************************************)
(* Entities                                                                *)
(***************************************************************************)

\* What NoteIsOfItsAnchor says of one entity.
OfItsAnchor(entity) ==
    \A f \in Fields(entity.kind) :
        LET value == entity.document[f]
        IN  /\ Schema[entity.kind][f].node = "Binding" => value = Bound(entity.group)
            /\ value = Null => Schema[entity.kind][f].optional

\* Nothing the command line sets is null.
LEMMA ArgumentsFilled ==
    ASSUME NEW k \in Kind, NEW given \in Arguments(k)
    PROVE  \A f \in DOMAIN given : given[f] # Null
<1>1. Filled # Null /\ \A a : Bound(a) # Null
    BY DEF Filled, Null, Bound
<1>2. CASE given \in Positional(k)
    BY <1>1, <1>2 DEF Positional
<1>3. CASE given \in Json(k)
    <2>1. PICK set \in SUBSET Fields(k), a \in Position \cup Whole :
            given = [f \in set |-> IF Schema[k][f].node = "Binding" THEN Bound(a) ELSE Filled]
        BY <1>3 DEF Json
    <2>2. QED
        BY <1>1, <2>1
<1>4. QED
    BY <1>2, <1>3 DEF Arguments

\* `inject' sets the one binding field last, and refuses what is left out.
LEMMA DocumentOfItsAnchor ==
    ASSUME NEW k \in Kind, Anchorable(k), NEW a \in Position \cup Whole,
           NEW given \in Arguments(k), Buildable(k, given)
    PROVE  OfItsAnchor([kind |-> k, group |-> a, document |-> Document(k, a, given)])
<1>1. /\ BindingField(k) \in Fields(k) /\ BindingFields(k) = {BindingField(k)}
    BY DEF Anchorable, BindingField
<1>2. Bound(a) # Null /\ Defaulted # Null
    BY DEF Bound, Defaulted, Null
<1>3. ASSUME NEW f \in Fields(k)
      PROVE  /\ Schema[k][f].node = "Binding" => Document(k, a, given)[f] = Bound(a)
             /\ Document(k, a, given)[f] = Null => Schema[k][f].optional
    <2>1. CASE f = BindingField(k)
        BY <1>2, <2>1 DEF Document
    <2>2. CASE f # BindingField(k)
        <3>1. Schema[k][f].node # "Binding"
            BY <1>1, <2>2 DEF BindingFields
        <3>2. CASE f \in DOMAIN given
            BY <2>2, <3>1, <3>2, ArgumentsFilled DEF Document
        <3>3. CASE f \notin DOMAIN given
            <4>1. Document(k, a, given)[f] = Unset(k, f)
                BY <2>2, <3>3 DEF Document
            <4>2. Schema[k][f].optional \/ Schema[k][f].has_default
                BY <2>2, <3>3 DEF Buildable
            <4>3. QED
                BY <1>2, <3>1, <4>1, <4>2 DEF Unset
        <3>4. QED
            BY <3>2, <3>3
    <2>3. QED
        BY <2>1, <2>2
<1>4. QED
    BY <1>3 DEF OfItsAnchor

\* What a process injects is of the anchor its handle locates, and what it wrote
\* is what it injects.
InjectsItsAnchor ==
    \A p \in Process :
        /\ pc[p] \in Inserting =>
            /\ inject[p].entity.group = AnchorId(inject[p].handle)
            /\ OfItsAnchor(inject[p].entity)
        /\ pc[p] \in Inserting \ {"write"} => notes[inject[p].note] = inject[p].entity

\* A process that is about to print has registered its position.
PrintsRegistered ==
    \A p \in Process :
        pc[p] = "print" /\ AnchorId(inject[p].handle) \in Position =>
            registry[AnchorId(inject[p].handle)] # NoHandle

EntityInv ==
    /\ TypeOK
    /\ InjectsItsAnchor
    /\ PrintsRegistered
    /\ InjectedIsRegistered
    /\ \A n \in DOMAIN notes : OfItsAnchor(notes[n])

\* The process a step injects for, and all others.
LEMMA EntityStep ==
    ASSUME EntityInv, TypeOK', NEW p \in Process,
           DOMAIN notes \subseteq DOMAIN notes',
           \A n \in DOMAIN notes : notes'[n] = notes[n],
           \A n \in DOMAIN notes' : OfItsAnchor(notes'[n]),
           \A a \in Position : registry[a] # NoHandle => registry'[a] # NoHandle,
           \A n \in injected' \ injected :
                notes[n].group \in Position => registry[notes[n].group] # NoHandle,
           injected' \subseteq DOMAIN notes,
           \A q \in Process \ {p} : pc'[q] = pc[q] /\ inject'[q] = inject[q],
           pc'[p] \in Inserting =>
                /\ inject'[p].entity.group = AnchorId(inject'[p].handle)
                /\ OfItsAnchor(inject'[p].entity),
           pc'[p] \in Inserting \ {"write"} => notes'[inject'[p].note] = inject'[p].entity,
           pc'[p] = "print" /\ AnchorId(inject'[p].handle) \in Position =>
                registry'[AnchorId(inject'[p].handle)] # NoHandle
    PROVE  EntityInv'
<1>1. InjectsItsAnchor'
    <2>1. ASSUME NEW q \in Process, q # p, pc[q] \in Inserting \ {"write"}
          PROVE  inject[q].note \in DOMAIN notes
        BY <2>1 DEF EntityInv, TypeOK, Injecting, Inserting
    <2>2. ASSUME NEW q \in Process
          PROVE  /\ pc'[q] \in Inserting =>
                    /\ inject'[q].entity.group = AnchorId(inject'[q].handle)
                    /\ OfItsAnchor(inject'[q].entity)
                 /\ pc'[q] \in Inserting \ {"write"} =>
                    notes'[inject'[q].note] = inject'[q].entity
        <3>1. CASE q = p
            BY <3>1
        <3>2. CASE q # p
            <4>1. pc'[q] = pc[q] /\ inject'[q] = inject[q]
                BY <3>2
            <4>2. /\ pc[q] \in Inserting =>
                        /\ inject[q].entity.group = AnchorId(inject[q].handle)
                        /\ OfItsAnchor(inject[q].entity)
                  /\ pc[q] \in Inserting \ {"write"} => notes[inject[q].note] = inject[q].entity
                BY DEF EntityInv, InjectsItsAnchor
            <4>3. pc[q] \in Inserting \ {"write"} =>
                        notes'[inject[q].note] = notes[inject[q].note]
                BY <2>1, <3>2
            <4>4. QED
                BY <4>1, <4>2, <4>3
        <3>3. QED
            BY <3>1, <3>2
    <2>3. QED
        BY <2>2 DEF InjectsItsAnchor, OfItsAnchor
<1>2. PrintsRegistered'
    BY DEF EntityInv, PrintsRegistered
<1>3. InjectedIsRegistered'
    BY DEF EntityInv, InjectedIsRegistered
<1>4. QED
    BY <1>1, <1>2, <1>3 DEF EntityInv, OfItsAnchor

LEMMA EntityNext == EntityInv /\ [Next]_vars => EntityInv'
<1> SUFFICES ASSUME EntityInv, [Next]_vars PROVE EntityInv'
    OBVIOUS
<1>1. TypeOK /\ TypeOK'
    BY NextType DEF EntityInv
<1>2. CASE UNCHANGED vars
    BY <1>1, <1>2
    DEF vars, store, ended, locals, EntityInv, InjectsItsAnchor, PrintsRegistered, InjectedIsRegistered
<1>3. CASE Create \/ Prune
    BY <1>1, <1>3 DEF Create, Prune, ended, locals, EntityInv, InjectsItsAnchor,
       PrintsRegistered, InjectedIsRegistered
<1>4. ASSUME NEW p \in Process, Inject(p)
      PROVE  EntityInv'
    <2>1. PICK k \in Kind, h \in objects :
            /\ Anchorable(k)
            /\ \E given \in Arguments(k) :
                /\ Buildable(k, given)
                /\ inject' = [inject EXCEPT ![p] =
                            [handle |-> h, note |-> 0,
                             entity |-> [kind |-> k, group |-> AnchorId(h),
                                         document |-> Document(k, AnchorId(h), given)]]]
        BY <1>4 DEF Inject
    <2>2. PICK given \in Arguments(k) :
            /\ Buildable(k, given)
            /\ inject' = [inject EXCEPT ![p] =
                            [handle |-> h, note |-> 0,
                             entity |-> [kind |-> k, group |-> AnchorId(h),
                                         document |-> Document(k, AnchorId(h), given)]]]
        BY <2>1
    <2>3. AnchorId(h) \in Position \cup Whole
        BY <1>1, AnchorIdTyped DEF TypeOK
    <2> DEFINE e == [kind |-> k, group |-> AnchorId(h), document |-> Document(k, AnchorId(h), given)]
    <2>4. OfItsAnchor(e) /\ e.group = AnchorId(h)
        BY <2>1, <2>2, <2>3, DocumentOfItsAnchor
    <2> HIDE DEF e
    <2>5. inject' = [inject EXCEPT ![p] = [handle |-> h, note |-> 0, entity |-> e]]
        BY <2>2 DEF e
    <2>6. pc' = [pc EXCEPT ![p] = "write"] /\ UNCHANGED <<registry, notes, injected>>
        BY <1>4 DEF Inject, Goto, store, ended
    <2>7. /\ inject'[p].handle = h /\ inject'[p].entity = e /\ pc'[p] = "write"
          /\ \A q \in Process \ {p} : pc'[q] = pc[q] /\ inject'[q] = inject[q]
        BY <1>1, <2>5, <2>6 DEF TypeOK
    <2>8. \A n \in injected' \ injected : FALSE
        BY <2>6
    <2>9. injected' \subseteq DOMAIN notes /\ \A n \in DOMAIN notes' : OfItsAnchor(notes'[n])
        BY <1>1, <2>6 DEF TypeOK, EntityInv
    <2>10. QED
        BY <1>1, <2>4, <2>6, <2>7, <2>8, <2>9, EntityStep
<1>5. ASSUME NEW p \in Process, WriteNote(p)
      PROVE  EntityInv'
    <2> DEFINE n == Len(notes) + 1
    <2>1. /\ inject[p].handle \in Handle /\ inject[p].entity \in Entity
          /\ inject[p].entity.group = AnchorId(inject[p].handle)
          /\ OfItsAnchor(inject[p].entity)
        BY <1>5 DEF WriteNote, EntityInv, InjectsItsAnchor, TypeOK, Injecting, Inserting
    <2>2. /\ DOMAIN notes = 1..Len(notes) /\ DOMAIN notes' = 1..n
          /\ notes'[n] = inject[p].entity
          /\ \A m \in DOMAIN notes : notes'[m] = notes[m]
        BY <1>1, <1>5, <2>1 DEF WriteNote, TypeOK
    <2>3. PICK s \in {"serialize", "print"} :
            /\ pc' = [pc EXCEPT ![p] = s]
            /\ s = "print" => AnchorId(inject[p].handle) \notin Position
        BY <1>5 DEF WriteNote, Goto
    <2>4. inject' = [inject EXCEPT ![p].note = n] /\ UNCHANGED <<registry, injected>>
        BY <1>5 DEF WriteNote, ended
    <2>5. /\ inject'[p].handle = inject[p].handle /\ inject'[p].entity = inject[p].entity
          /\ inject'[p].note = n /\ pc'[p] = s
          /\ \A q \in Process \ {p} : pc'[q] = pc[q] /\ inject'[q] = inject[q]
        BY <1>1, <2>3, <2>4 DEF TypeOK
    <2>6. \A m \in DOMAIN notes' : OfItsAnchor(notes'[m])
        <3>1. Len(notes) \in Nat
            BY <1>1 DEF TypeOK
        <3>2. \A m \in DOMAIN notes' : m = n \/ m \in DOMAIN notes
            BY <2>2, <3>1
        <3>3. \A m \in DOMAIN notes : OfItsAnchor(notes[m])
            BY DEF EntityInv
        <3> HIDE DEF n
        <3>4. QED
            BY <2>1, <2>2, <3>2, <3>3
    <2>7. DOMAIN notes \subseteq DOMAIN notes' /\ injected' \subseteq DOMAIN notes
        BY <1>1, <2>2, <2>4 DEF TypeOK
    <2>8. QED
        BY <1>1, <2>1, <2>2, <2>3, <2>4, <2>5, <2>6, <2>7, EntityStep
<1>6. ASSUME NEW p \in Process, WriteHandle(p)
      PROVE  EntityInv'
    <2>1. /\ UNCHANGED <<registry, notes, injected, inject>> /\ pc[p] = "serialize"
          /\ pc'[p] = "register" /\ \A q \in Process \ {p} : pc'[q] = pc[q]
        BY <1>1, <1>6 DEF WriteHandle, Goto, ended, TypeOK
    <2>2. QED
        BY <1>1, <2>1 DEF EntityInv, InjectsItsAnchor, PrintsRegistered, InjectedIsRegistered, Inserting
<1>7. ASSUME NEW p \in Process, Register(p)
      PROVE  EntityInv'
    <2>1. /\ inject[p].handle \in Handle /\ AnchorId(inject[p].handle) \in Position
          /\ pc[p] = "register"
        BY <1>7 DEF Register, EntityInv, TypeOK, Injecting
    <2>2. /\ registry' = [registry EXCEPT ![AnchorId(inject[p].handle)] = inject[p].handle]
          /\ UNCHANGED <<notes, injected, inject>>
          /\ pc'[p] = "print" /\ \A q \in Process \ {p} : pc'[q] = pc[q]
        BY <1>1, <1>7 DEF Register, Goto, ended, TypeOK
    <2>3. \A a \in Position : registry[a] # NoHandle => registry'[a] # NoHandle
        BY <1>1, <2>1, <2>2, AnchorNotesAssumption DEF TypeOK
    <2>4. registry'[AnchorId(inject[p].handle)] # NoHandle
        BY <1>1, <2>1, <2>2, AnchorNotesAssumption DEF TypeOK
    <2>5. QED
        BY <1>1, <2>1, <2>2, <2>3, <2>4
        DEF EntityInv, InjectsItsAnchor, PrintsRegistered, InjectedIsRegistered, Inserting
<1>8. ASSUME NEW p \in Process, PrintName(p)
      PROVE  EntityInv'
    <2>1. /\ pc[p] = "print" /\ inject[p].note \in DOMAIN notes
          /\ notes[inject[p].note].group = AnchorId(inject[p].handle)
        BY <1>8 DEF PrintName, EntityInv, InjectsItsAnchor, TypeOK, Injecting, Inserting
    <2>2. /\ injected' = injected \cup {inject[p].note} /\ UNCHANGED <<registry, notes>>
          /\ pc'[p] = "idle"
          /\ \A q \in Process \ {p} : pc'[q] = pc[q] /\ inject'[q] = inject[q]
        BY <1>1, <1>8 DEF PrintName, Goto, store, TypeOK
    <2>3. QED
        BY <1>1, <2>1, <2>2
        DEF EntityInv, InjectsItsAnchor, PrintsRegistered, InjectedIsRegistered, Inserting
<1>9. ASSUME NEW p \in Process, AbandonInject(p)
      PROVE  EntityInv'
    <2>1. /\ UNCHANGED <<registry, notes, injected>> /\ pc'[p] = "idle"
          /\ \A q \in Process \ {p} : pc'[q] = pc[q] /\ inject'[q] = inject[q]
        BY <1>1, <1>9 DEF AbandonInject, Goto, store, ended, TypeOK
    <2>2. QED
        BY <1>1, <2>1
        DEF EntityInv, InjectsItsAnchor, PrintsRegistered, InjectedIsRegistered, Inserting
<1>10. ASSUME NEW p \in Process, Aside(p)
      PROVE  EntityInv'
    <2>1. /\ UNCHANGED <<registry, notes, injected, inject>>
          /\ \A q \in Process :
                pc'[q] = pc[q] \/ (pc[q] \notin Inserting /\ pc'[q] \notin Inserting)
        BY <1>1, <1>10, AsideKeeps
    <2>2. QED
        BY <1>1, <2>1
        DEF EntityInv, InjectsItsAnchor, PrintsRegistered, InjectedIsRegistered, Inserting
<1>11. QED
    BY <1>2, <1>3, <1>4, <1>5, <1>6, <1>7, <1>8, <1>9, <1>10, NextSteps

LEMMA EntityInit == Init => EntityInv
<1> SUFFICES ASSUME Init PROVE EntityInv
    OBVIOUS
<1>1. TypeOK
    BY InitType
<1>2. DOMAIN notes = {} /\ \A p \in Process : pc[p] = "idle"
    BY DEF Init
<1>3. QED
    BY <1>1, <1>2 DEF Init, EntityInv, InjectsItsAnchor, PrintsRegistered, InjectedIsRegistered, Inserting

\* Every position that a finished `inject' was about stays registered, whatever
\* other commands do to its entities.
THEOREM RegistrationCorrect == Spec => []InjectedIsRegistered
<1>1. EntityInv => InjectedIsRegistered
    BY DEF EntityInv
<1>2. QED
    BY <1>1, EntityInit, EntityNext, PTL DEF Spec

\* Every entity's one binding is of the anchor it is grouped under, for any
\* schema and any command line.
THEOREM EntityCorrect == Spec => []NoteIsOfItsAnchor
<1>1. EntityInv => NoteIsOfItsAnchor
    BY DEF EntityInv, NoteIsOfItsAnchor, OfItsAnchor
<1>2. QED
    BY <1>1, EntityInit, EntityNext, PTL DEF Spec

-----------------------------------------------------------------------------
(***************************************************************************)
(* Listings                                                                *)
(***************************************************************************)

\* What a process has still to read is among what it asked for.
ListingInv == TypeOK /\ ListingsAreWhole /\ \A p \in Process : list[p].left \subseteq list[p].names

\* A step that leaves every listing alone brings back no entity.
LEMMA ListingKept ==
    ASSUME ListingInv, TypeOK', list' = list, live' \cap DOMAIN notes \subseteq live
    PROVE  ListingInv'
<1>1. \A p \in Process : list[p].names \subseteq DOMAIN notes
    <2>1. NoList.names = {}
        BY DEF NoList
    <2>2. QED
        BY <2>1 DEF ListingInv, TypeOK
<1>2. QED
    BY <1>1 DEF ListingInv, ListingsAreWhole

\* A step that changes one listing changes no entity.
LEMMA ListingChanged ==
    ASSUME ListingInv, TypeOK', live' = live, NEW p \in Process,
           NEW l, list' = [list EXCEPT ![p] = l],
           l.left \subseteq l.names, l.shown \subseteq l.names,
           (l.names \ l.left) \cap live \subseteq l.shown
    PROVE  ListingInv'
<1>1. \A q \in Process : list'[q] = IF q = p THEN l ELSE list[q]
    BY DEF ListingInv, TypeOK
<1>2. QED
    BY <1>1 DEF ListingInv, ListingsAreWhole

LEMMA ListingNext == ListingInv /\ [Next]_vars => ListingInv'
<1> SUFFICES ASSUME ListingInv, [Next]_vars PROVE ListingInv'
    OBVIOUS
<1>1. TypeOK /\ TypeOK'
    BY NextType DEF ListingInv
<1>2. CASE UNCHANGED vars \/ Create \/ Prune
    BY <1>1, <1>2, ListingKept DEF vars, store, locals, Create, Prune
<1>3. ASSUME NEW p \in Process,
             \/ Inject(p) \/ WriteHandle(p) \/ Register(p) \/ PrintName(p) \/ AbandonInject(p)
             \/ Remove(p) \/ Check(p) \/ Refuse(p) \/ AbandonRemove(p)
      PROVE  ListingInv'
    <2>1. list' = list /\ live' = live
        BY <1>3 DEF Inject, WriteHandle, Register, PrintName, AbandonInject, Remove, Check, Refuse,
                    AbandonRemove, store
    <2>2. QED
        BY <1>1, <2>1, ListingKept
<1>4. ASSUME NEW p \in Process, WriteNote(p)
      PROVE  ListingInv'
    <2>1. list' = list /\ live' = live \cup {Len(notes) + 1} /\ DOMAIN notes = 1..Len(notes)
        BY <1>1, <1>4 DEF WriteNote, TypeOK
    <2>2. Len(notes) + 1 \notin 1..Len(notes)
        BY <1>1 DEF TypeOK
    <2>3. QED
        BY <1>1, <2>1, <2>2, ListingKept
<1>5. ASSUME NEW p \in Process, Delete(p)
      PROVE  ListingInv'
    <2>1. list' = list /\ live' \subseteq live
        BY <1>5 DEF Delete, DeleteAnd
    <2>2. QED
        BY <1>1, <2>1, ListingKept
<1>6. ASSUME NEW p \in Process, List(p)
      PROVE  ListingInv'
    <2>1. PICK k \in Kind :
            list' = [list EXCEPT ![p] = [names |-> Present(k), left |-> Present(k), shown |-> {}]]
        BY <1>6 DEF List
    <2> DEFINE l == [names |-> Present(k), left |-> Present(k), shown |-> {}]
    <2>2. l.left \subseteq l.names /\ l.shown \subseteq l.names /\ l.names \ l.left = {}
        OBVIOUS
    <2>3. live' = live /\ list' = [list EXCEPT ![p] = l]
        BY <1>6, <2>1 DEF List, store
    <2> HIDE DEF l
    <2>4. QED
        BY <1>1, <2>2, <2>3, ListingChanged
<1>7. ASSUME NEW p \in Process, ReadListed(p)
      PROVE  ListingInv'
    <2> DEFINE l == [names |-> list[p].names, left |-> list[p].left \ {NextListed(p)},
                     shown |-> list[p].shown \cup {NextListed(p)}]
    <2>1. list' = [list EXCEPT ![p] = l] /\ live' = live /\ NextListed(p) \in list[p].left
        BY <1>7 DEF ReadListed, store, NextListed
    <2>2. /\ list[p].left \subseteq list[p].names /\ list[p].shown \subseteq list[p].names
          /\ (list[p].names \ list[p].left) \cap live \subseteq list[p].shown
        BY DEF ListingInv, ListingsAreWhole
    <2>3. /\ l.left \subseteq l.names /\ l.shown \subseteq l.names
          /\ (l.names \ l.left) \cap live \subseteq l.shown
        BY <2>1, <2>2
    <2> HIDE DEF l
    <2>4. QED
        BY <1>1, <2>1, <2>3, ListingChanged
<1>8. ASSUME NEW p \in Process, SkipListed(p)
      PROVE  ListingInv'
    <2> DEFINE l == [list[p] EXCEPT !.left = @ \ {NextListed(p)}]
    <2>1. list' = [list EXCEPT ![p].left = @ \ {NextListed(p)}]
        BY <1>8 DEF SkipListed
    <2>2. list' = [list EXCEPT ![p] = l]
        BY <2>1
    <2>3. live' = live /\ NextListed(p) \in list[p].left /\ NextListed(p) \notin live
        BY <1>8 DEF SkipListed, store, NextListed
    <2>4. /\ list[p].left \subseteq list[p].names /\ list[p].shown \subseteq list[p].names
          /\ (list[p].names \ list[p].left) \cap live \subseteq list[p].shown
        BY DEF ListingInv, ListingsAreWhole
    <2>5. /\ l.names = list[p].names /\ l.left = list[p].left \ {NextListed(p)}
          /\ l.shown = list[p].shown
        BY <1>1 DEF TypeOK
    <2> HIDE DEF l
    <2>6. /\ l.left \subseteq l.names /\ l.shown \subseteq l.names
          /\ (l.names \ l.left) \cap live \subseteq l.shown
        BY <2>3, <2>4, <2>5
    <2>7. QED
        BY <1>1, <2>2, <2>3, <2>6, ListingChanged
<1>9. ASSUME NEW p \in Process, Show(p)
      PROVE  ListingInv'
    <2>1. PICK k \in Kind :
            \E n \in Present(k) :
                list' = [list EXCEPT ![p] = [names |-> {n}, left |-> {}, shown |-> {n}]]
        BY <1>9 DEF Show
    <2>2. PICK n \in Present(k) :
            list' = [list EXCEPT ![p] = [names |-> {n}, left |-> {}, shown |-> {n}]]
        BY <2>1
    <2> DEFINE l == [names |-> {n}, left |-> {}, shown |-> {n}]
    <2>3. /\ l.left \subseteq l.names /\ l.shown \subseteq l.names
          /\ (l.names \ l.left) \cap live \subseteq l.shown
        OBVIOUS
    <2>4. live' = live /\ list' = [list EXCEPT ![p] = l]
        BY <1>9, <2>2 DEF Show, store
    <2> HIDE DEF l
    <2>5. QED
        BY <1>1, <2>3, <2>4, ListingChanged
<1>10. ASSUME NEW p \in Process, EndList(p)
      PROVE  ListingInv'
    <2>1. NoList.left = {} /\ NoList.shown = {} /\ NoList.names = {}
        BY DEF NoList
    <2>2. live' = live /\ list' = [list EXCEPT ![p] = NoList]
        BY <1>10 DEF EndList, store
    <2>3. QED
        BY <1>1, <2>1, <2>2, ListingChanged
<1>11. QED
    BY <1>2, <1>3, <1>4, <1>5, <1>6, <1>7, <1>8, <1>9, <1>10 DEF Next

\* A listing misses no entity that is there all along, and shows none that was
\* not there when it began.
THEOREM ListingCorrect == Spec => []ListingsAreWhole
<1>1. Init => ListingInv
    BY InitType DEF Init, ListingInv, ListingsAreWhole, NoList
<1>2. ListingInv => ListingsAreWhole
    BY DEF ListingInv
<1>3. QED
    BY <1>1, <1>2, ListingNext, PTL DEF Spec

-----------------------------------------------------------------------------
(***************************************************************************)
(* Removals                                                                *)
(***************************************************************************)

\* A command in its second loop has deleted exactly the names it got past.
DeletedSoFar(p) ==
    /\ pc[p] = "check" => remove[p].deleted = {}
    /\ pc[p] = "delete" =>
        remove[p].deleted = {remove[p].names[i] : i \in 1..(remove[p].at - 1)}

RemovalInv == TypeOK /\ RemovedOnce /\ \A p \in Process : DeletedSoFar(p)

\* A step that deletes nothing, by a process that goes on with its command.
LEMMA RemovalKept ==
    ASSUME RemovalInv, TypeOK', UNCHANGED <<deletions, reports>>,
           DOMAIN notes' \ live' = DOMAIN notes \ live,
           \A p \in Process : DeletedSoFar(p)'
    PROVE  RemovalInv'
BY DEF RemovalInv, RemovedOnce

\* What a command that ends reports.
LEMMA FinishReport ==
    ASSUME NEW p \in Process, NEW record, NEW outcome, Finish(p, record, outcome)
    PROVE  \E r : /\ reports' = reports \cup {r}
                  /\ r.outcome = outcome
                  /\ r.whole = (record.deleted = Range(record.names))
<1> DEFINE r == [touched |-> record.deleted # {}, whole |-> record.deleted = Range(record.names),
                 outcome |-> outcome]
<1>1. \A t, w, o : LET x == [touched |-> t, whole |-> w, outcome |-> o]
                  IN  x.outcome = o /\ x.whole = w
    OBVIOUS
<1>2. r.outcome = outcome /\ r.whole = (record.deleted = Range(record.names))
    BY <1>1, Zenon
<1>3. reports' = reports \cup {r}
    BY DEF Finish
<1> HIDE DEF r
<1>4. QED
    BY <1>2, <1>3, Zenon

\* A process that has ended its command has deleted nothing in another.
LEMMA FinishEnds ==
    ASSUME RemovalInv, NEW p \in Process, NEW record, NEW outcome, Finish(p, record, outcome)
    PROVE  \A q \in Process : DeletedSoFar(q)'
<1>1. pc'[p] = "idle"
    BY DEF Finish, Goto, RemovalInv, TypeOK
<1>2. \A q \in Process \ {p} : pc'[q] = pc[q] /\ remove'[q] = remove[q]
    BY DEF Finish, Goto, RemovalInv, TypeOK
<1>3. ASSUME NEW q \in Process \ {p} PROVE DeletedSoFar(q)'
    BY <1>2 DEF RemovalInv, DeletedSoFar
<1>4. DeletedSoFar(p)'
    BY <1>1 DEF DeletedSoFar
<1>5. QED
    BY <1>3, <1>4

\* A command that ends before it has removed everything says so.
LEMMA RemovalCut ==
    ASSUME RemovalInv, TypeOK', NEW p \in Process,
           UNCHANGED <<notes, live, deletions>>, NEW outcome, outcome # "removed",
           Finish(p, remove[p], outcome)
    PROVE  RemovalInv'
<1>1. \A q \in Process : DeletedSoFar(q)'
    BY FinishEnds
<1>2. \A r \in reports' : r.outcome = "removed" => r \in reports
    <2>1. PICK r : reports' = reports \cup {r} /\ r.outcome = outcome
        BY FinishReport
    <2>2. QED
        BY <2>1
<1>3. QED
    BY <1>1, <1>2 DEF RemovalInv, RemovedOnce

LEMMA RemovalDelete ==
    ASSUME RemovalInv, TypeOK', NEW p \in Process, Delete(p)
    PROVE  RemovalInv'
<1> DEFINE n == Current(p)
           done == [remove[p] EXCEPT !.deleted = @ \cup {Current(p)}]
           r == [done EXCEPT !.at = done.at + 1]
<1>1. /\ pc[p] = "delete" /\ pc[p] \in Deleting /\ n \in live
      /\ live' = live \ {n} /\ notes' = notes
      /\ deletions' = [deletions EXCEPT ![n] = @ + 1]
      /\ IF AtLast(p)
         THEN Finish(p, done, "removed")
         ELSE remove' = [remove EXCEPT ![p] = r] /\ UNCHANGED <<pc, reports>>
    BY DEF Delete, DeleteAnd, Deleting, IsPresent, Present
<1>2. /\ remove[p] \in RemoveRecord /\ n \in Note /\ n \in DOMAIN notes
      /\ remove[p].at \in 1..Len(remove[p].names)
      /\ n = remove[p].names[remove[p].at]
    BY <1>1, CurrentTyped DEF RemovalInv, TypeOK, RemoveRecord, Current
<1>3. \A m \in Note : deletions'[m] = IF m \in DOMAIN notes' \ live' THEN 1 ELSE 0
    <2>1. /\ deletions \in [Note -> Nat]
          /\ \A m \in Note : deletions[m] = IF m \in DOMAIN notes \ live THEN 1 ELSE 0
        BY DEF RemovalInv, RemovedOnce, TypeOK
    <2> HIDE DEF n
    <2>2. deletions[n] = 0
        BY <1>1, <1>2, <2>1
    <2>3. ASSUME NEW m \in Note
          PROVE  deletions'[m] = IF m \in DOMAIN notes' \ live' THEN 1 ELSE 0
        <3>1. CASE m = n
            BY <1>1, <1>2, <2>1, <2>2, <3>1
        <3>2. CASE m # n
            BY <1>1, <2>1, <3>2
        <3>3. QED
            BY <3>1, <3>2
    <2>4. QED
        BY <2>3
<1> HIDE DEF n
<1>4. /\ done.names = remove[p].names /\ done.at = remove[p].at
      /\ done.deleted = {remove[p].names[i] : i \in 1..remove[p].at}
    <2>1. remove[p].deleted = {remove[p].names[i] : i \in 1..(remove[p].at - 1)}
        BY <1>1 DEF RemovalInv, DeletedSoFar
    <2>2. 1..remove[p].at = 1..(remove[p].at - 1) \cup {remove[p].at}
        BY <1>2 DEF RemoveRecord
    <2>3. /\ done.names = remove[p].names /\ done.at = remove[p].at
          /\ done.deleted = remove[p].deleted \cup {n}
        BY <1>2 DEF RemoveRecord, n
    <2> HIDE DEF done
    <2>4. QED
        BY <1>2, <2>1, <2>2, <2>3
<1> HIDE DEF done
<1>5. CASE AtLast(p)
    <2>1. done.deleted = Range(done.names)
        BY <1>2, <1>4, <1>5 DEF AtLast, Range, RemoveRecord
    <2>2. \A r1 \in reports' : r1.outcome = "removed" => r1.whole
        <3>1. PICK r0 : /\ reports' = reports \cup {r0}
                        /\ r0.whole = (done.deleted = Range(done.names))
            BY <1>1, <1>5, FinishReport
        <3>2. r0.whole
            BY <2>1, <3>1, Zenon
        <3>3. QED
            BY <3>1, <3>2 DEF RemovalInv, RemovedOnce
    <2>3. \A q \in Process : DeletedSoFar(q)'
        BY <1>1, <1>5, FinishEnds
    <2>4. QED
        BY <1>3, <2>2, <2>3 DEF RemovalInv, RemovedOnce
<1>6. CASE ~AtLast(p)
    <2>1. /\ r.names = remove[p].names /\ r.at - 1 = remove[p].at
          /\ r.deleted = {remove[p].names[i] : i \in 1..remove[p].at}
        <3>1. done \in RemoveRecord
            <4>1. remove[p].deleted \cup {n} \in SUBSET Note
                BY <1>2 DEF RemoveRecord
            <4>2. QED
                BY <1>2, <4>1 DEF RemoveRecord, done, n
        <3>2. r.names = done.names /\ r.deleted = done.deleted /\ r.at = done.at + 1
            BY <3>1 DEF RemoveRecord
        <3>3. QED
            BY <1>2, <1>4, <3>2 DEF RemoveRecord
    <2> HIDE DEF r
    <2>2. remove' = [remove EXCEPT ![p] = r] /\ UNCHANGED <<pc, reports>>
        BY <1>1, <1>6
    <2>3. ASSUME NEW q \in Process PROVE DeletedSoFar(q)'
        <3>1. CASE q = p
            <4>1. remove'[q] = r /\ pc'[q] = "delete"
                BY <1>1, <2>2, <3>1 DEF RemovalInv, TypeOK
            <4>2. remove'[q].deleted = {remove'[q].names[i] : i \in 1..(remove'[q].at - 1)}
                BY <2>1, <4>1
            <4>3. QED
                BY <4>1, <4>2 DEF DeletedSoFar
        <3>2. CASE q # p
            <4>1. remove'[q] = remove[q] /\ pc'[q] = pc[q]
                BY <2>2, <3>2 DEF RemovalInv, TypeOK
            <4>2. QED
                BY <4>1 DEF RemovalInv, DeletedSoFar
        <3>3. QED
            BY <3>1, <3>2
    <2>4. QED
        BY <1>3, <2>2, <2>3 DEF RemovalInv, RemovedOnce
<1>7. QED
    BY <1>5, <1>6

LEMMA RemovalNext == RemovalInv /\ [Next]_vars => RemovalInv'
<1> SUFFICES ASSUME RemovalInv, [Next]_vars PROVE RemovalInv'
    OBVIOUS
<1>1. TypeOK /\ TypeOK'
    BY NextType DEF RemovalInv
<1>2. \A p \in Process : DeletedSoFar(p)
    BY DEF RemovalInv
<1>3. CASE UNCHANGED vars \/ Create \/ Prune
    <2>1. UNCHANGED <<notes, live, deletions, reports, pc, remove>>
        BY <1>3 DEF vars, store, ended, locals, Create, Prune
    <2>2. QED
        BY <1>1, <1>2, <2>1, RemovalKept DEF DeletedSoFar
<1>4. ASSUME NEW p \in Process,
             \/ Inject(p) \/ WriteHandle(p) \/ Register(p) \/ PrintName(p) \/ AbandonInject(p)
             \/ List(p) \/ ReadListed(p) \/ SkipListed(p) \/ Show(p) \/ EndList(p)
      PROVE  RemovalInv'
    <2>1. UNCHANGED <<notes, live, deletions, reports, remove>>
        BY <1>4 DEF Inject, WriteHandle, Register, PrintName, AbandonInject, List, ReadListed,
                    SkipListed, Show, EndList, store, ended
    <2>2. \E s \in Step \ Deleting : pc' = [pc EXCEPT ![p] = s] \/ pc' = pc
        BY <1>4 DEF Inject, WriteHandle, Register, PrintName, AbandonInject, List, ReadListed,
                    SkipListed, Show, EndList, Goto, Step, Deleting
    <2>3. \A q \in Process : DeletedSoFar(q)'
        BY <1>1, <1>2, <2>1, <2>2 DEF DeletedSoFar, TypeOK, Deleting
    <2>4. QED
        BY <1>1, <2>1, <2>3, RemovalKept
<1>5. ASSUME NEW p \in Process, WriteNote(p)
      PROVE  RemovalInv'
    <2> DEFINE n == Len(notes) + 1
    <2>1. inject[p].entity \in Entity /\ Len(notes) \in Nat /\ notes \in Seq(Entity)
        BY <1>1, <1>5 DEF WriteNote, TypeOK, Injecting
    <2>2. notes' = Append(notes, inject[p].entity) /\ live' = live \cup {n}
        BY <1>5 DEF WriteNote
    <2>3. DOMAIN notes' = 1..n /\ DOMAIN notes = 1..Len(notes)
        BY <2>1, <2>2
    <2>4. 1..n = 1..Len(notes) \cup {n} /\ n \notin 1..Len(notes)
        BY <2>1
    <2>5. DOMAIN notes' \ live' = DOMAIN notes \ live
        BY <2>2, <2>3, <2>4
    <2>6. \E s \in Step \ Deleting : pc' = [pc EXCEPT ![p] = s]
        BY <1>5 DEF WriteNote, Goto, Step, Deleting
    <2>7. UNCHANGED <<deletions, reports, remove>>
        BY <1>5 DEF WriteNote, ended
    <2>8. \A q \in Process : DeletedSoFar(q)'
        BY <1>1, <1>2, <2>6, <2>7 DEF DeletedSoFar, TypeOK, Deleting
    <2>9. QED
        BY <1>1, <2>5, <2>7, <2>8, RemovalKept
<1>6. ASSUME NEW p \in Process, Remove(p)
      PROVE  RemovalInv'
    <2>1. UNCHANGED <<notes, live, deletions, reports>> /\ pc' = [pc EXCEPT ![p] = "check"]
        BY <1>6 DEF Remove, Goto, store
    <2>2. PICK k \in Kind, names \in Names :
            remove' = [remove EXCEPT ![p] =
                        [kind |-> k, names |-> names, at |-> 1, deleted |-> {}]]
        BY <1>6 DEF Remove
    <2>3. \A q \in Process : DeletedSoFar(q)'
        BY <1>1, <1>2, <2>1, <2>2 DEF DeletedSoFar, TypeOK
    <2>4. QED
        BY <1>1, <2>1, <2>3, RemovalKept
<1>7. ASSUME NEW p \in Process, Check(p)
      PROVE  RemovalInv'
    <2>1. UNCHANGED <<notes, live, deletions, reports>> /\ pc[p] = "check"
        BY <1>7 DEF Check, store, ended
    <2>2. remove[p].deleted = {} /\ remove[p] \in RemoveRecord
        BY <1>1, <1>2, <2>1 DEF DeletedSoFar, TypeOK, RemoveRecord
    <2>3. CASE AtLast(p)
        <3>1. pc' = [pc EXCEPT ![p] = "delete"] /\ remove' = [remove EXCEPT ![p].at = 1]
            BY <1>7, <2>3 DEF Check, Goto
        <3>2. remove'[p].at = 1 /\ remove'[p].deleted = {} /\ pc'[p] = "delete"
            BY <1>1, <2>2, <3>1 DEF TypeOK
        <3>3. \A q \in Process \ {p} : remove'[q] = remove[q] /\ pc'[q] = pc[q]
            BY <3>1 DEF TypeOK
        <3>4. \A q \in Process : DeletedSoFar(q)'
            BY <1>2, <3>2, <3>3 DEF DeletedSoFar
        <3>5. QED
            BY <1>1, <2>1, <3>4, RemovalKept
    <2>4. CASE ~AtLast(p)
        <3>1. pc' = pc /\ remove' = [remove EXCEPT ![p].at = @ + 1]
            BY <1>7, <2>4 DEF Check
        <3>2. remove'[p].deleted = {} /\ pc'[p] = "check"
            BY <1>1, <2>1, <2>2, <3>1 DEF TypeOK
        <3>3. \A q \in Process \ {p} : remove'[q] = remove[q] /\ pc'[q] = pc[q]
            BY <3>1 DEF TypeOK
        <3>4. \A q \in Process : DeletedSoFar(q)'
            BY <1>2, <3>2, <3>3 DEF DeletedSoFar
        <3>5. QED
            BY <1>1, <2>1, <3>4, RemovalKept
    <2>5. QED
        BY <2>3, <2>4
<1>8. ASSUME NEW p \in Process, Refuse(p) \/ AbandonRemove(p)
      PROVE  RemovalInv'
    BY <1>1, <1>8, RemovalCut DEF Refuse, AbandonRemove, store
<1>9. QED
    BY <1>1, <1>3, <1>4, <1>5, <1>6, <1>7, <1>8, RemovalDelete DEF Next

\* However many commands are given one name, one deletes it; and a command that
\* reports success deleted all it was given itself.
THEOREM RemovalCorrect == Spec => []RemovedOnce
<1>1. Init => RemovalInv
    BY InitType DEF Init, RemovalInv, RemovedOnce, DeletedSoFar
<1>2. RemovalInv => RemovedOnce
    BY DEF RemovalInv
<1>3. QED
    BY <1>1, <1>2, RemovalNext, PTL DEF Spec

\* One process only, so that nothing happens during a command but its own steps.
Alone == \A p, q \in Process : p = q

\* What a command has found present is there until it deletes it itself.
FoundSoFar(p) ==
    /\ pc[p] = "check" =>
        \A i \in 1..(remove[p].at - 1) : remove[p].names[i] \in Present(remove[p].kind)
    /\ pc[p] = "delete" =>
        \A i \in DOMAIN remove[p].names :
            remove[p].names[i] \in Present(remove[p].kind) \cup remove[p].deleted

AloneInv == RemovalInv /\ (Alone => \A p \in Process : FoundSoFar(p))

\* A command that ends, or is none that removes, has found nothing.
LEMMA NothingFound ==
    ASSUME Alone, NEW p \in Process, pc'[p] \notin Deleting
    PROVE  \A q \in Process : FoundSoFar(q)'
<1>1. \A q \in Process : q = p
    BY DEF Alone
<1>2. FoundSoFar(p)'
    BY DEF FoundSoFar, Deleting
<1>3. QED
    BY <1>1, <1>2

LEMMA CheckFinds ==
    ASSUME TypeOK, Alone, NEW p \in Process, FoundSoFar(p), Check(p)
    PROVE  FoundSoFar(p)'
<1>1. /\ UNCHANGED <<notes, live>> /\ pc[p] = "check"
      /\ remove[p].names[remove[p].at] \in Present(remove[p].kind)
    BY DEF Check, IsPresent, Current, store
<1>2. /\ remove[p] \in RemoveRecord
      /\ remove[p].at \in 1..Len(remove[p].names) /\ Len(remove[p].names) \in Nat
      /\ DOMAIN remove[p].names = 1..Len(remove[p].names)
    BY <1>1, CurrentTyped DEF TypeOK, RemoveRecord, Deleting
<1>3. \A i \in 1..remove[p].at : remove[p].names[i] \in Present(remove[p].kind)
    <2>1. \A i \in 1..(remove[p].at - 1) : remove[p].names[i] \in Present(remove[p].kind)
        BY <1>1 DEF FoundSoFar
    <2>2. \A i \in 1..remove[p].at : i \in 1..(remove[p].at - 1) \/ i = remove[p].at
        BY <1>2
    <2>3. QED
        BY <1>1, <2>1, <2>2
<1>4. \A k : Present(k)' = Present(k)
    BY <1>1 DEF Present
<1>5. CASE AtLast(p)
    <2>1. pc' = [pc EXCEPT ![p] = "delete"] /\ remove' = [remove EXCEPT ![p].at = 1]
        BY <1>5 DEF Check, Goto
    <2>2. /\ pc'[p] = "delete" /\ remove'[p].names = remove[p].names
          /\ remove'[p].kind = remove[p].kind
        BY <1>2, <2>1 DEF TypeOK, RemoveRecord
    <2>3. \A i \in DOMAIN remove[p].names : remove[p].names[i] \in Present(remove[p].kind)
        BY <1>2, <1>3, <1>5 DEF AtLast
    <2>4. QED
        BY <1>4, <2>2, <2>3 DEF FoundSoFar
<1>6. CASE ~AtLast(p)
    <2>1. pc' = pc /\ remove' = [remove EXCEPT ![p].at = @ + 1]
        BY <1>6 DEF Check
    <2>2. /\ pc'[p] = "check" /\ remove'[p].names = remove[p].names
          /\ remove'[p].kind = remove[p].kind /\ remove'[p].at = remove[p].at + 1
        BY <1>1, <1>2, <2>1 DEF TypeOK, RemoveRecord
    <2>3. remove'[p].at - 1 = remove[p].at
        BY <1>2, <2>2
    <2>4. QED
        BY <1>3, <1>4, <2>2, <2>3 DEF FoundSoFar
<1>7. QED
    BY <1>5, <1>6

LEMMA DeleteFinds ==
    ASSUME TypeOK, Alone, NEW p \in Process, FoundSoFar(p), Delete(p)
    PROVE  FoundSoFar(p)'
<1> DEFINE n == Current(p)
           done == [remove[p] EXCEPT !.deleted = @ \cup {Current(p)}]
           r == [done EXCEPT !.at = done.at + 1]
<1>1. /\ pc[p] = "delete" /\ live' = live \ {n} /\ notes' = notes
      /\ IF AtLast(p)
         THEN Finish(p, done, "removed")
         ELSE remove' = [remove EXCEPT ![p] = r] /\ UNCHANGED pc
    BY DEF Delete, DeleteAnd
<1>2. CASE AtLast(p)
    <2>1. pc'[p] = "idle"
        BY <1>1, <1>2 DEF Finish, Goto, TypeOK
    <2>2. QED
        BY <2>1 DEF FoundSoFar
<1>3. CASE ~AtLast(p)
    <2>1. remove[p] \in RemoveRecord /\ n \in Note
        BY <1>1, CurrentTyped DEF TypeOK, RemoveRecord, Deleting
    <2>2. /\ r.names = remove[p].names /\ r.kind = remove[p].kind
          /\ r.deleted = remove[p].deleted \cup {n}
        <3> HIDE DEF n
        <3>1. done = [remove[p] EXCEPT !.deleted = remove[p].deleted \cup {n}]
            BY DEF n
        <3>2. /\ done.names = remove[p].names /\ done.kind = remove[p].kind
              /\ done.deleted = remove[p].deleted \cup {n}
            BY <2>1, <3>1 DEF RemoveRecord
        <3>3. done \in RemoveRecord
            <4>1. remove[p].deleted \cup {n} \in SUBSET Note
                BY <2>1 DEF RemoveRecord
            <4>2. QED
                BY <2>1, <3>1, <4>1 DEF RemoveRecord
        <3> HIDE DEF done
        <3>4. r.names = done.names /\ r.kind = done.kind /\ r.deleted = done.deleted
            BY <3>3 DEF RemoveRecord
        <3>5. QED
            BY <3>2, <3>4
    <2> HIDE DEF n, r
    <2>3. remove'[p] = r /\ pc'[p] = "delete"
        BY <1>1, <1>3 DEF TypeOK
    <2>4. \A k : Present(k) \subseteq {m \in live' : notes'[m].kind = k} \cup {n}
        BY <1>1 DEF Present
    <2>5. \A i \in DOMAIN r.names :
            r.names[i] \in {m \in live' : notes'[m].kind = r.kind} \cup r.deleted
        <3>1. \A i \in DOMAIN remove[p].names :
                remove[p].names[i] \in Present(remove[p].kind) \cup remove[p].deleted
            BY <1>1 DEF FoundSoFar
        <3>2. QED
            BY <2>2, <2>4, <3>1
    <2>6. QED
        BY <2>3, <2>5 DEF FoundSoFar, Present
<1>4. QED
    BY <1>2, <1>3

LEMMA AloneNext == AloneInv /\ [Next]_vars => AloneInv'
<1> SUFFICES ASSUME AloneInv, Alone, [Next]_vars
             PROVE  \A q \in Process : FoundSoFar(q)'
    BY RemovalNext DEF AloneInv, Alone
<1>1. TypeOK /\ TypeOK' /\ \A p \in Process : FoundSoFar(p)
    BY NextType DEF AloneInv, RemovalInv
<1>2. CASE UNCHANGED vars \/ Create \/ Prune
    <2>1. UNCHANGED <<notes, live, pc, remove>>
        BY <1>2 DEF vars, store, ended, locals, Create, Prune
    <2>2. QED
        BY <1>1, <2>1 DEF FoundSoFar, Present
<1>3. ASSUME NEW p \in Process,
             \/ Inject(p) \/ WriteNote(p) \/ WriteHandle(p) \/ Register(p) \/ PrintName(p)
             \/ AbandonInject(p) \/ List(p) \/ Show(p) \/ EndList(p)
      PROVE  \A q \in Process : FoundSoFar(q)'
    <2>1. \E s \in Step \ Deleting : Goto(p, s)
        <3>1. CASE WriteNote(p)
            BY <3>1 DEF WriteNote, Step, Deleting
        <3>2. CASE Inject(p) \/ WriteHandle(p) \/ Register(p) \/ PrintName(p) \/ AbandonInject(p)
            BY <3>2 DEF Inject, WriteHandle, Register, PrintName, AbandonInject, Step, Deleting
        <3>3. CASE List(p) \/ Show(p) \/ EndList(p)
            BY <3>3 DEF List, Show, EndList, Step, Deleting
        <3>4. QED
            BY <1>3, <3>1, <3>2, <3>3
    <2>2. pc'[p] \notin Deleting
        BY <1>1, <2>1 DEF Goto, TypeOK
    <2>3. QED
        BY <2>2, NothingFound
<1>4. ASSUME NEW p \in Process, ReadListed(p) \/ SkipListed(p)
      PROVE  \A q \in Process : FoundSoFar(q)'
    <2>1. pc'[p] \notin Deleting
        BY <1>4 DEF ReadListed, SkipListed, Deleting
    <2>2. QED
        BY <2>1, NothingFound
<1>5. ASSUME NEW p \in Process, Refuse(p) \/ AbandonRemove(p)
      PROVE  \A q \in Process : FoundSoFar(q)'
    <2>1. \E outcome : Finish(p, remove[p], outcome)
        BY <1>5, Zenon DEF Refuse, AbandonRemove
    <2>2. Goto(p, "idle")
        BY <2>1, Zenon DEF Finish
    <2>3. pc'[p] \notin Deleting
        BY <1>1, <2>2 DEF Goto, TypeOK, Deleting
    <2>4. QED
        BY <2>3, NothingFound
<1>6. ASSUME NEW p \in Process, Remove(p)
      PROVE  \A q \in Process : FoundSoFar(q)'
    <2>1. pc'[p] = "check" /\ remove'[p].at = 1
        BY <1>1, <1>6 DEF Remove, Goto, TypeOK
    <2>2. FoundSoFar(p)'
        BY <2>1 DEF FoundSoFar
    <2>3. QED
        BY <2>2 DEF Alone
<1>7. ASSUME NEW p \in Process, Check(p) \/ Delete(p)
      PROVE  \A q \in Process : FoundSoFar(q)'
    <2>1. FoundSoFar(p)'
        BY <1>1, <1>7, CheckFinds, DeleteFinds
    <2>2. QED
        BY <2>1 DEF Alone
<1>8. QED
    BY <1>2, <1>3, <1>4, <1>5, <1>6, <1>7 DEF Next

\* A name that is gone when its turn to be deleted comes was given twice, if nobody
\* else is there to remove it.
OnlyRepeatsAreMissed ==
    Alone => \A p \in Process :
        pc[p] = "delete" /\ ~IsPresent(p) =>
            \E i \in 1..(remove[p].at - 1) : remove[p].names[i] = Current(p)

\* With one process, `remove' keeps its promise to check every name before it
\* touches any, for all names given once: what it found is there until it deletes
\* it. Repeats and other processes are all that can make it fail half way.
THEOREM AloneFailsOnRepeatsOnly == Spec => []OnlyRepeatsAreMissed
<1>1. Init => AloneInv
    BY InitType DEF Init, AloneInv, FoundSoFar, RemovalInv, RemovedOnce, DeletedSoFar
<1>2. AloneInv => OnlyRepeatsAreMissed
    <2> SUFFICES ASSUME AloneInv, Alone, NEW p \in Process, pc[p] = "delete", ~IsPresent(p)
                 PROVE  \E i \in 1..(remove[p].at - 1) : remove[p].names[i] = Current(p)
        BY DEF OnlyRepeatsAreMissed
    <2>1. remove[p].at \in DOMAIN remove[p].names
        BY DEF AloneInv, RemovalInv, TypeOK, Removing
    <2>2. Current(p) \in remove[p].deleted
        BY <2>1 DEF AloneInv, FoundSoFar, IsPresent, Current
    <2>3. remove[p].deleted = {remove[p].names[i] : i \in 1..(remove[p].at - 1)}
        BY DEF AloneInv, RemovalInv, DeletedSoFar
    <2>4. QED
        BY <2>2, <2>3
<1>3. QED
    BY <1>1, <1>2, AloneNext, PTL DEF Spec


-----------------------------------------------------------------------------
(***************************************************************************)
(* The store of notes                                                      *)
(***************************************************************************)

\* Writing an entity puts it.
LEMMA WritePuts ==
    ASSUME TypeOK, NEW p \in Process, WriteNote(p)
    PROVE  Store!Put
<1>1. inject[p].entity \in Entity
    BY DEF WriteNote, TypeOK, Injecting
<1>2. UNCHANGED Registered
    BY DEF WriteNote, Registered
<1>3. QED
    BY <1>1, <1>2 DEF WriteNote, Store!Put

\* A process registers the anchor of the entity it wrote before.
LEMMA RegisterRegisters ==
    ASSUME EntityInv, TypeOK, NEW p \in Process, Register(p)
    PROVE  Store!Register
<1> DEFINE n == inject[p].note
           h == inject[p].handle
<1>1. /\ pc[p] = "register" /\ UNCHANGED <<notes, live>>
      /\ registry' = [registry EXCEPT ![AnchorId(h)] = h]
    BY DEF Register
<1>2. n \in DOMAIN notes /\ h \in Handle /\ AnchorId(h) \in Position
    BY <1>1 DEF TypeOK, Injecting
<1>3. notes[n].group = AnchorId(h)
    BY <1>1 DEF EntityInv, InjectsItsAnchor, Inserting
<1>4. registry \in [Position -> Handle \cup {NoHandle}] /\ NoHandle \notin Handle
    BY AnchorNotesAssumption DEF TypeOK
<1> HIDE DEF n, h
<1>5. Registered' = Registered \cup {notes[n].group}
    BY <1>1, <1>2, <1>3, <1>4 DEF Registered
<1>6. QED
    BY <1>1, <1>2, <1>3, <1>5 DEF Store!Register

\* A round of the second loop of `remove' deletes an entity that is there.
LEMMA DeleteDeletes ==
    ASSUME NEW p \in Process, Delete(p)
    PROVE  Store!Delete
<1>1. Current(p) \in live
    BY DEF Delete, IsPresent, Present
<1>2. live' = live \ {Current(p)} /\ UNCHANGED <<notes, registry>>
    BY DEF Delete, DeleteAnd
<1>3. QED
    BY <1>1, <1>2 DEF Store!Delete, Registered

\* Nothing else is seen there.
LEMMA OthersAreUnseen ==
    ASSUME Next, \A p \in Process : ~WriteNote(p) /\ ~Register(p) /\ ~Delete(p)
    PROVE  UNCHANGED <<notes, live, Registered>>
<1>1. UNCHANGED <<registry, notes, live>>
    BY DEF Next, Create, Prune, Inject, WriteHandle, PrintName, AbandonInject, List,
           ReadListed, SkipListed, Show, EndList, Remove, Check, Refuse, AbandonRemove, store
<1>2. QED
    BY <1>1 DEF Registered

LEMMA NotesRefineNext == EntityInv /\ TypeOK /\ [Next]_vars => [Store!Next]_(Store!vars)
<1> SUFFICES ASSUME EntityInv, TypeOK, [Next]_vars PROVE [Store!Next]_(Store!vars)
    OBVIOUS
<1>1. CASE UNCHANGED vars
    BY <1>1 DEF vars, store, Store!vars, Registered
<1>2. CASE \E p \in Process : WriteNote(p) \/ Register(p) \/ Delete(p)
    BY <1>2, WritePuts, RegisterRegisters, DeleteDeletes DEF Store!Next
<1>3. CASE Next /\ \A p \in Process : ~WriteNote(p) /\ ~Register(p) /\ ~Delete(p)
    BY <1>3, OthersAreUnseen DEF Store!vars
<1>4. QED
    BY <1>1, <1>2, <1>3

\* The commands, dying anywhere, implement the store of notes: an entity is
\* written and deleted at one instant each and never changes between (`write' and
\* `delete_name'), and an anchor is registered for good, after an entity of it was
\* written.
THEOREM NotesRefinement == Spec => ImplementsNoteStore
<1>1. Init => Store!Init
    BY DEF Init, Store!Init, Registered
<1>2. EntityInv => TypeOK
    BY DEF EntityInv
<1>3. QED
    BY <1>1, <1>2, EntityInit, EntityNext, NotesRefineNext, PTL
       DEF Spec, ImplementsNoteStore, Store!Spec
=============================================================================
