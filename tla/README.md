# git-anchor and git-attest in TLA+

This directory is a TLA+ model of the two crates of this repository. Each module describes
one component; TLC checks small instances of it; TLAPS proves nearly all of the safety
properties for every value of the constants.

* **git-attest** keeps *claims* about objects as signed commits, chained on one ref per
  target, and keys whose rotation is itself a chain of claims.
* **git-anchor** names a range of lines, a file, a tree or a commit so that it can be found
  again in other revisions, and keeps notes attached to those names.

Both stand on *git-store* (entities, schemas, kinds, and compare-and-swap of refs) and
*gix*, which are dependencies. They are modelled from the way this repository uses them.

## 1. The system

| part | source | state | operations | correct when |
|---|---|---|---|---|
| claim chains | `git-attest/src/chain.rs` | `refs/claims/<target>` | `sign`, `revoke`, `append`, `resolve` | chains only grow; every call lands at most once; numbering matches position; what is revoked is marked |
| key lifecycle | `git-attest/src/key.rs` | key documents, key chains | `add_key`, `rotate_key`, `write_key`, `key_chain`, `resolve_key_with` | a link resolves exactly when each link up to it is signed by the key of the one below; what these calls publish can be read |
| verification | `git-attest/src/verify.rs` | none (reads) | `verify`, `verify_commit`, `SshEd25519` | a good verdict exactly under a key that resolves; verdicts do not change |
| schemas | `git-attest/src/schema.rs` | `refs/schema/*` | two registrations | published before anything is written under them |
| `git attest` | `git-attest/src/main.rs`, `signer.rs` | all of the above, the user's key files | `sign`, `revoke`, `verify`, `log`, `resolve` | what lands can be read; what a default command signs verifies exactly when the key it looked up signed it, if the link it names resolves |
| capture, spans | `git-anchor/src/anchor.rs`, `util.rs` | a handle | `capture`, `capture_worktree`, lines to bytes and back | the span is the lines asked for |
| oracles | `git-anchor/src/oracle.rs` | none (reads) | `diff_trace`, `fingerprint`, `op_log`, `project` | the lines found are the lines anchored; lost only if touched |
| tree diff | `git-anchor/src/diff.rs` | none (reads) | `diff_trees`, `walk` | the changes make the head tree, once, and are apart |
| bindings | `git-anchor/src/binding.rs` | a binding inside an entity | `revalidate`, `trace`, `locate` | a verdict is one that held while it was being computed; pruning does not change it |
| handles, identity | `git-anchor/src/handle.rs`, `oid.rs` | a handle object, `refs/anchors/<id>` | write, read, register | a registered anchor can be read |
| `git anchor` | `git-anchor/src/main.rs` | entities and the registry | `create`, `inject`, `remove`, `list`, `show`, `kinds`, `id` | a note carries the anchor it is filed under, which is registered; a listing is whole; a note is removed once |

How they meet:

* `sign`, `revoke`, `add_key` and `rotate_key` all end in `append`. Every claim of every
  kind about one target, key claims included, shares one ref, and that is how an ordinary
  revocation comes to lie between two links of a key.
* `verify` reads a claim's `key`, walks that key's chain, and checks the claim against the
  key at the named link.
* `git attest sign` is a sequence of calls of the library with nothing held between them.
* A capture writes an object no ref points at. `inject` reads it, writes an entity, and
  registers it under a ref in a second write.
* A position's revalidation uses `diff_trace` while the commit it was captured at exists,
  and `fingerprint` once it was collected.

What is hard here is the same thing throughout: every operation is a sequence of reads and
writes of a repository shared with other processes. The library holds no lock; it relies on
compare-and-swap of refs, on content addressing, and on the order of its writes. Commands
can be cut short anywhere. Garbage collection runs when it likes. The other hard part is
arithmetic at boundaries: 1-based inclusive lines, 0-based half-open lines, byte spans,
hunks, files without a last newline. `PROJECT.json` lists the hazards line by line, each
with the properties that would catch it.

## 2. The modules

| module | models | composes with |
|---|---|---|
| `ClaimLog` | what chains promise: a log per target to which a call's claim is added at one instant | |
| `ClaimGraph` | what the claims of a repository are, with no mention of who writes them: each lands on one history at one instant, and cites only what has landed | |
| `ClaimChain` | `chain.rs` as it runs: read the tip, count, publish, retry | refines `ClaimLog` and `ClaimGraph` |
| `KeyResolution` | `key_chain`, `resolve_key_with`, `verify`, as operators over chains and key documents | used by the next two |
| `KeyChain` | the life of keys, called as a library, and whatever else lands on the same refs | extends `KeyResolution`; appends in one step, as `ClaimLog` allows |
| `AttestCli` | `git attest sign` and `revoke` as scripts, and the key files they sign with | extends `KeyResolution`; appends in one step, as `ClaimLog` allows |
| `SpanMap` | `-L`, capture and `diff_trace` of one file | |
| `TreeDiff` | `diff_trees` | |
| `Revalidate` | `revalidate` of commits, trees, hybrids and positions, with the oracles it asks, while the repository changes | takes from `SpanMap` that a traced region is unchanged |
| `NoteStore` | what the notes promise: entities that appear and go at one instant and never change, and a registry that only grows | |
| `AnchorNotes` | `git anchor create`, `inject`, `list`, `show`, `remove`, and git's garbage collection | refines `NoteStore` |
| `ClaimChainProofs`, `KeyResolutionProofs`, `KeyChainProofs`, `AttestCliProofs`, `SpanMapProofs`, `TreeDiffProofs`, `RevalidateProofs`, `AnchorNotesProofs` | theorems | each extends the module it is named after, and `TLAPS`; those of `KeyChain` and `AttestCli` also `KeyResolutionProofs` |
| `MC*` | the finite sets TLC uses | one per module checked |

The operators whose comment begins with *Variant* are the code with a plausible mistake in
it. They belong to no specification. `PROJECT.json` ("mutants") pairs each checked property
with the variant that breaks it, so that every property is known to say something about the
code.

### Claim chains: `ClaimLog`, `ClaimChain`

`append` (chain.rs 150-183) is a loop of three accesses to the repository, and each is an
action: `ReadTip` (the ref), `ReadHistory` (a second read of the ref, to number the claim),
and the write, `Publish` when the expectation holds and `LoseRace` when it does not.
`BackendFault` is a write that fails with a `Backend` error for any other reason, which the
code treats in the same way; `Fail` is an error it returns. `Crash` ends a call at any
point, also between publishing and returning the id. Of a revocation, the envelope of the
revoked claim is read first (`Revoke`). A ref is the history at its tip, since a commit id
determines all of its ancestors. `ClaimLog` has the same calls with one step, `Land`,
between start and end; the mapping forgets everything a writer has read, and everything but
`Publish` maps to a stutter or to the call starting or ending.

That a Backend error means the ref did not move is git-store's promise, and it is what makes
retrying safe. The variant `PublishAndRetry` is the world without it.

### Keys: `KeyResolution`, `KeyChain`

`KeyResolution` holds the pure part. `KeyDocument` is `key_document`: a claim has to publish
a key on a key's chain, and the tree it points at has to be there and to decode. `KeyChain`
(the operator) walks from a link to the root, newest first, and stops at the first document
it cannot have (`Faults`); `BadLinks` are the links not signed with the key below them;
`Resolve` is the `Ok(Some)`, `Ok(None)` and error of `resolve_key_with`; `Verify` is
`verify`, and `VerifyCommit` its outcomes in the code's order. A signature is the key that
made it, `Unsigned`, or `OtherArmor`, which is no SSHSIG block. `Ed25519` are the keys of
the one format that has a verifier and `Parsing` those whose bytes parse: an unsigned claim
under an `ssh-ed25519` key that does not parse is a bad signature, and a signed one is of an
unknown format.

A key stands for its document, as the document's hash is the key's id. Documents that share
a key and differ in the machine bit alone are left out. A document can be read while a ref
keeps it (`docs`), and may or may not be there otherwise, since anyone can write an object
and git prunes what nothing refers to: a property about reads ranges over all `Readings` of
the documents. A tree that is no key document is `OtherTree`.

In `KeyChain` processes call `add_key`, `rotate_key`, `sign` and `revoke`; any store signs
with any key, since nothing in the code ties a store's signer to the key it names. `sign`
takes any envelope: about a commit, a key or a claim, under any label, with any payload,
naming any claim as its key. So it can put a key claim on a key's chain whose document
nobody wrote. `written` remembers which claims `add_key` and `rotate_key` made, and
`DocumentsReachable` says that only the others can take a chain out of reach. A call to one
of those two is a read, a write of the key document, and an append; an append is one step,
as `ClaimChain` implements `ClaimLog`, in which a claim lands at one instant. (It implements
`ClaimGraph` too: what lands cites only what had landed.)

### The command line: `AttestCli`

A command is a script: `EnsureSchemas` (which kinds are published) with `RegisterClaims` and
`RegisterKeys`; `GivenKey` with `--key`, or else `FindKey`, or `MissKey`, `WriteKey` and
`AddKey`; `WritePayload`; `AppendClaim`. Users race on a fresh repository with two keys.
`Abandon` ends a command between any two steps. `Rotate` is a program that rotates a key
through the library.

`Sign` takes any target, label and payload, and a payload given by its hash (`built` is
false) or made by the command from `--json`. Only two readers look at a payload, the walk of
a key's chain and `key_claim`'s search for the signing key, and where neither can come one
tree stands for all.

The signing key is a pair of files. Which public key the command publishes is decided when
it starts, from `<key>.pub` if there is one and else from the private half (`PublicLine`);
what it signs with is the private half as it is at each signature. `ReplaceKey` is the user
replacing either file at any time, so a claim has both a `by` and a `public`, of which only
the first is in the commit.

`DefaultKeyDecides` says what a claim signed without `--key` comes to. It names the oldest
claim that points at its key on the key's chain, whatever that claim's label, or the key-add
of its own command. If that link or one beneath it publishes no key (`Strayed`), the claim
is an error to verify. If something beneath it publishes another key, or it or a link above
the root was signed with another (`Contested`), it is for `LinksResolveInTurn` to say what
the link resolves to. In all other cases the claim verifies exactly when its signer is its
`public`, provided the document can be read.

### Spans: `SpanMap`

A file is a sequence of lines with widths in bytes, and only the last may lack its
terminator. `ParseLines` is the reading of `-L` with its saturating arithmetic, where
`MaxNumber` stands for 2^64 - 1. `Capture` and `CaptureWorktree` make the span and end in
`"captured"`, where what was asked for is still known (`CapturedAsAsked`); `PrintHandle`
ends the command. `BeginMap` turns the span into lines of the committed blob; the hunks of
the diff are then met one at a time, in order, and each is above the span (`ShiftHunk`),
below it (`BelowHunk`) or overlaps it (`TouchingHunk`). The diff is not computed: the walk
may meet any sequence of hunks that turns one file into the other, so the result does not
depend on the diff algorithm. What a span shows is the set of its bytes, each with its
distance from the span's start, its line's content and its place in that line (`Slice`).

### Tree diff: `TreeDiff`

The recursion is a set of pairs of subtrees still to be compared, taken in any order, since
the leftovers on the base side come out of a `HashMap` and the result is sorted at the end.
A read can fail at any time (`ReadFails`).

### Bindings: `Revalidate`

One call of `revalidate`, one action per read: `HasCommit`, `ResolveForCommit` and
`WalkHistory` for a commit; `ResolveForTree` and `SearchTree` for a tree; both in turn for a
hybrid; `ResolveForTrace`, `HasGenesis`, `Trace`, `NotFound` and then, if the anchor's
commit is gone, `ResolveForMatch` and `Match` (or `NoReference`) for a position. Between any
two, others commit, merge or amend (`MakeCommit`), move or delete the revision (`Move`) and
prune what nothing reaches (`Prune`). A commit carries the set of commits in its history.
`held` is a history variable: the verdicts an undisturbed call would have given at the
instants since this one began.

`VerdictsHeld` says of every Valid that it was true at some instant of the call, whatever
was pruned meanwhile. Of other answers it leaves out the calls in which the resolved commit,
or the commit a commit binding names, was pruned while they ran (`Trusted` is "Valid, or
`Undisturbed`"): there the code can answer Stale for a commit that was an ancestor
throughout, since an error of the walk counts as not reached. It does cover the pruning of a
position's own commit between the two questions whether it is there.

The diff and rename detection are parameters: `Survives` is any relation under which a
surviving region is found again in the new file, which is what `SpanMap` establishes of the
code that walks the diff, and `Similar` any relation at all. A fingerprint is the minimum,
for each seed, over the shingles of a text, whatever the hash functions.

### Notes: `AnchorNotes`

`Create` writes a handle. `Inject` reads it and builds the document of the kind from the
kind's schema, field by field: what `--json` or the text arguments set, then defaults and
nulls for what is left, and the binding last. A kind with no field for a binding, with two,
or with a required field that nothing fills ends the command there. `WriteNote` writes the
entity; then, for a position, `WriteHandle` and `Register` write the registry ref, before
`PrintName`. `List` asks for the names of a kind and `ReadListed` or `SkipListed` then read
one at a time, in an order of its own; `Show` is one read. `Remove` is two loops, `Check`
over all names and `Delete` over all names. `AbandonInject`, `EndList` and `AbandonRemove`
end a command anywhere. `Prune` takes handles no ref keeps, except those a running command
has just written: git keeps young objects for two weeks, and the model assumes that no
command runs for longer than that.

## 3. What TLC checks

| run | instance | shows |
|---|---|---|
| `claim_chain` | 3 writers, 1 commit, 3 calls | with lost races, failed writes and crashes: `OnlyAppends`, `SequenceIsPosition` though tip and history are separate reads, `EachCallLandsOnce`, `AnsweredClaimsStay`, `RetryMeansProgress` (a lost race is somebody's progress), `MarksAreRevocations` (what `resolve` marks is what was revoked there, and by `revoke`), `EveryCallEnds`, and `ImplementsClaimLog` |
| `key_chain` | 2 processes, 2 SSH keys, signatures by either or of another armor, 3 claims | with any of the key documents missing that nothing keeps: `LinksResolveInTurn` (a link resolves exactly when the one below it resolves to the key that signed it), `VerifiedUnderResolvedKey` (and exactly the claims signed by such a key verify), `PoisonedFromBelow` (which links are errors to read), `DocumentsReachable`, `VerdictsAreFinal` |
| `attest_cli` | 2 users, 2 keys, 1 commit, 2 commands, 1 rotation or key replacement, 6 claims | `ClaimsAreReadable` (schemas and payloads come before what needs them), `DefaultKeyDecides`, `GivenKeyHasVerdict` |
| `span_map` | all files of up to 3 lines out of 3, every `-L` with numbers up to 5, all targets, all diffs | `CapturedAsAsked`, `CandidateIsCapturedText`, `MappedLinesAreUnchanged`, `OnlyTouchedSpansAreLost` |
| `tree_diff` | all pairs of trees over 2 names, with directories nested twice | `ChangesAreTheDiff` (what is returned is `DiffOf`, the topmost differences, and nothing else), `ChangesMakeHead`, `ChangesAreApart`, `NothingEqualIsRead` |
| `revalidate` | 3 commits, 3 snapshots (captured, shifted, renamed), 1 tree, 1 revision | `VerdictsHeld` (the answer was true at some instant), `HybridHeldUnderForward`, `PruningKeepsValid` |
| `notes` | 2 processes, 1 position, 1 commit, 2 hints, 2 kinds (one that can be anchored, one with two bindings), 2 entities, 2 removes, 1 reader | `RegistryResolves`, `InjectedIsRegistered`, `NoteIsOfItsAnchor`, `ListingsAreWhole`, `RemovedOnce` |

Why these bounds are enough to be interesting:

* *Three calls* are the fewest with sign, revoke, revoke, and they let one writer lose two
  races to two others.
* *Three claims* on key chains are the fewest in which two rotations of one key race, and in
  which a foreign claim comes between two links. The run has 590,853 states. It leaves out
  ordinary subjects, since a claim about a claim is off the key's chain as well, and
  unsigned claims and keys without a verifier, which fail as a signature in another armor
  does, with another verdict; the theorems of section 4 have all of these.
* *Two commands* are two users who both miss the key, or one who signs on top of what the
  other did; *one change* is a rotation or a replaced key file between any two of their
  steps. Two commands write up to four claims and the rotation a fifth, so that the bound of
  six never stops a command. The run has 1,929,696 states.
* *Numbers up to 5* with three lines are enough for a count that is cut at the largest
  number, for ranges that end past the file, and for a count of none.
* *Three lines* put something above, inside and below a span of one line, with a hunk on
  either side touching it or not; one of the line contents has no terminator, and the widths
  differ.
* *Two names and two levels* let a directory and a file swap places on either side.
* *Three commits* let a tip be amended away from a common parent, merged, and pruned while a
  call that resolved it is running; the snapshots put a line above the anchored one and
  rename the file.
* *Two of each* in `notes` are two injects of one anchor with different hints racing with
  each other, or with two removes that share a name; with one of two entities removed, a
  listing has one to skip and one to show.

Symmetry is used for processes, keys and hints, which those instances do not tell apart, in
runs without temporal properties that it would invalidate. `CHECK_DEADLOCK FALSE` is set
where the bounded system stops: when all calls are made (`claim_chain`, `key_chain`,
`attest_cli`), and when a diff has ended (`tree_diff`). The other passing runs check
deadlock.

**Fairness.** `ClaimChain!FairSpec` has weak fairness of a writer's own steps (a live
process goes on) and strong fairness of `Publish`. The latter is needed because the loop has
no bound: weak fairness alone lets a writer lose every race, or fail every write, for ever,
and so does the code. Strong fairness says that a writer who can publish again and again
does not fail every time: the bound on calls makes losing races finite, and a backend that
never succeeds is outside what the loop claims. `EveryCallEnds` is meant under that
assumption only. No other module states liveness.

### Disagreements between the code and what is written of it

Five are runs that TLC finishes with a counterexample. Two are stated by a property that
holds, as what the code does instead: `key_chain` and `attest_cli`. Section 4 has theorems
that say how far the others go, but for `position_collected` and `key_rotation`.

| run | written | what the code does |
|---|---|---|
| `revoke_revocation` | chain.rs 123-126: a revocation goes to "`claim`'s own ref", so "reading the chain is enough to see it" | the revocation of a revocation goes to the chain of the claim it revoked, and the revocation on its own chain stays unmarked |
| `key_rotation` | key.rs 151-155: a rotation names "`previous` as the key it was signed with", and the store must "be signing with `previous`'s key for the rotation to resolve" | each link is checked against the one right below it, and the one it names is not looked at: of two racing rotations of a link, the second can resolve signed with the key of the first |
| `key_chain` (`PoisonedFromBelow`) | key.rs 183: `NotAKeyClaim` is for a claim that does not publish a key | a revocation, or any claim about a key, makes every later link of the chain fail that way |
| `attest_cli` (`DefaultKeyDecides`) | main.rs 423-424: "the oldest match is the key-add at the chain's root" | a match is by payload alone: after `git attest sign key:<k> <k> --kind note` the oldest match is no key claim, and what is signed by default is an error to verify |
| `span_dirty` | anchor.rs 239-241: an anchor to uncommitted content survives its being committed | the span is of the working tree's bytes, and is traced from the committed blob |
| `position_collected` | anchor.rs 241-242: `genesis_rev` is "never-load-bearing"; binding.rs 579-580: a perfect match is "the same signal" as a surviving commit | history follows renames and the fingerprint does not: a position in a renamed file is valid until its commit is pruned, and stale after |
| `notes_remove` | main.rs 352-353: "a missing name leaves every entity untouched" | a name given twice, or one removed by another process after the check, fails the command when others are already gone |

## 4. What is proved

Every safety property that a passing run checks is also a theorem, for all values of the
constants: processes, keys, subjects, lines, trees, schemas and snapshots are arbitrary
sets, and the bounds arbitrary numbers. `PROJECT.json` ("theorems") lists them by property.
The proofs assume only the named assumptions of the modules, which TLC evaluates on its
instances:

| assumption | says |
|---|---|
| `ClaimChainAssumption` | `MaxCalls` is a number |
| `KeyResolutionAssumption` | `Ed25519` and `Parsing` are keys; `MaxClaims` is a number; a missing signature, one in another armor and a tree that is no document are not keys |
| `KeyChainAssumption` | there are finitely many processes (the bound on claims counts those under way); a signature is a key, none, or of another armor |
| `AttestCliAssumption` | the bounds are numbers; a missing `.pub` is not a key; some claim can be made |
| `SpanMapAssumption` | lines have bytes; some have no terminator; a file has fewer lines than the largest number there is |
| `TreeDiffAssumption` | a tree maps names to entries; modes and ids are told apart; trees are at most `MaxDepth` deep |
| `RevalidateAssumption` | a region the diff reports as surviving is in the new file, and survives an empty diff; files are sequences of lines; a shingle is not empty |
| `AnchorNotesAssumption` | positions are not commits or hybrids; a schema gives each field a shape |

That `Survives` keeps the first of `RevalidateAssumption`'s demands is a theorem of the
walk that computes it: `MappedTextOccurs`, below.

**`ClaimChainProofs`.**

1. `Typed` is the type invariant together with the fact that a writer serves a call that was
   made. It gives `TypeCorrect`, and, as every step either leaves a chain alone or publishes
   on it, `AppendOnly`.
2. `Numbered` adds that what a writer read is a prefix of the chain (`ReadsArePast`, which
   is what `RetryMeansProgress` states) and that claims are numbered by position.
   `SequenceIsPosition` alone is not inductive: `Publish` writes the length of one read onto
   the tip of another, and the two agree only because chains grow and the expectation is
   compared with the first read. It gives `RetryIsProgress` and `SequenceCorrect`.
3. `Landing` says that claims on chains come from calls (`ClaimsComeFromCalls`), that no two
   writers serve one call (`OwnCalls`), that a call which has not published has no claim
   anywhere (`LandedWhenPublished`), and that answered calls were made. `EachCallLandsOnce`
   and `AnsweredClaimsStay` need these because a publish by one writer must be known not to
   be another's claim. It gives `LandsOnce` and `AnsweredStays`.
4. `Revoking` adds that a revocation is about a call made before it and goes to that call's
   target (`RevocationsFollowTargets`). With `Landing` it puts claim and revocation on one
   chain, where `resolve` sees both: `RevocationIsSeen`.
5. `Refinement`: initial states map to initial states and, under `Typed`, each step of
   `ClaimChain` maps to a step of `ClaimLog` or to none.
6. `Citing` adds to `Landing` that what a call cites had landed when it was made, and
   `LoopImplementsGraph` is the refinement of `ClaimGraph` under it.
7. `MarksAreExact` is the converse of 4: what is marked was revoked, although `sign` takes
   any envelope and can be given one that reads like a revocation. Such a claim lands on the
   chain of its target, so to mark anything it must be on the chain of the claims about a
   claim `c` while `c` is on that chain too; `c` would be about itself, or about a claim
   that is about it. `Marking` rules both out by an order: calls cite only earlier calls
   (`CallsLookBack`), and on a chain a claim is only ever above those it cites
   (`ClaimsLookDown`).
8. `RevocationsCannotBeRevoked` is from the same invariant: no claim that `revoke` made is
   ever marked, so `revoke_revocation` is not one unlucky order of calls but what happens
   to every revocation of a revocation. A mark on one would have to be on the chain of a
   claim about itself.

**`KeyResolutionProofs`** has no state. It says what `Resolve` and `Verify` come to on
chains whose claims have ids of their own (`ResolveAt`), that adding a claim with a new id
on top of any chain changes neither for a claim that was there (`GrownResolve`,
`GrownVerify`), and that under two sets of documents each either fails for want of one or
answers the same (`ResolveReads`, `VerifyReads`). The two modules below need only show that
their steps are of that kind.

**`KeyChainProofs`.** `KeyInv` is `TypeOK`; claims are `Distinct`, `Placed` (a key claim is
on the chain of its key) and `Numbered` in the order of landing; what is under way fits the
bound (`Counted`); a claim names only what had landed (`Named`); of the claims `add_key` and
`rotate_key` make, documents come first (`Written`). `DocumentsReachable` is not inductive
without the last, which also speaks of processes past their write. `VerdictsStand` is an
action property: each step adds at most one claim, with a new id, and documents are only
added to. A place resolves exactly when all links up to it are `Good`, and those are good
one at a time (`GoodInTurn`): `LinksResolve` makes of the walk from the root a rule about
neighbours, and `BrokenChainsStayBroken` follows. `OneStrayClaimPoisons` says when the walk
ends before it has looked at a signature: exactly when some claim at or below the link
publishes no key document that is there. `VerifiedIsSigned` needs only what reading a landed
key can come to (`ReadKey`).

**`AttestCliProofs`.** `CliInv` has two halves, `Store` of the refs and `Command(p)` of each
process: what a command has `Ascertained` by each of its steps (schemas published, link
landed, and resolving or the oldest of its kind, payload written). The argument for there
being no lock is that all of these stay true when refs only grow (`Extended`). The oldest
match on a chain stays the oldest (`StaysNamed`), which the newest would not. A user
replacing key files disturbs nothing in it, since a claim carries the key that signed it.
`DefaultKeyIsVerified` then reads the link at the place it has (`DefaultPlace`): strayed, it
is an error (`StrayedReads`), and uncontested, it resolves (`UncontestedResolves`).

**`SpanMapProofs`.** `Mapping` is `TypeOK`, `Fresh` (nothing is counted before the walk
begins), `Walked` (the hunks met so far are in order, are not past the span, and account for
`added` and `removed`) and the two properties proved from it, `MappingKeepsLines` and
`LossMeansEdit`. The second shows that the checked subtractions of the code never fail for a
span that survived. `Showing` adds that a capture spans whole lines (`Spanned`) and that
what is traced and reported is that span (`Traced`). Then `span_to_lines` undoes
`byte_span_of` because every line has bytes (`LinesOfSpan`), and equal lines are equally far
apart wherever they are (`OffsetsAgree`), which gives `CandidateShowsText` and
`CaptureIsAsAsked`. The facts about positions in a file that would call for an induction are
shown by taking a least counterexample (`LeastExists`). `MappedTextOccurs` puts `Mapping`
and `Showing` together: the whole region that is reported, not only its single lines, is in
the target as one run. `DirtyBelowIsHarmless` is the other side of `span_dirty`: the two
files have the boundaries of their common start in common (`SameStart`), so a span that ends
in it is a span of the committed blob as well (`CleanSpan`), and is traced to its bytes.
Only an edit above the end of the span can misplace it.

**`TreeDiffProofs`.** `DiffInv` adds to the properties that a pair of trees still to be
compared is what the two trees have at its path (`FramesAreLocated`), that pairs are apart
from one another and from the changes (`FramesAreApart`), that all that lies above a pair or
a change was descended into and a change is where the walk stopped (`ByDescent`), and that
every path at which the trees differ is below a pair or a change (`DifferencesAreCovered`).
When no pair is left, every difference is below a change: `ChangesMakeHead`. And as no
difference lies above a change, the changes are the topmost differences: `ResultIsTheDiff`,
which makes the result a function of the two trees. `DiffIsEmptyWhenFilesAreEqual` is about
that function alone.

**`RevalidateProofs`.** `RevalInv` says, for each step of a call, which verdicts the reads
so far have put into `held` (`CommitIsHeld`, `TreeIsHeld`, `HybridIsHeld`, `PositionIsHeld`)
with the fact that histories are closed and pruning keeps what is reachable (`Histories`).
`VerdictsHeld` alone says nothing of a call before it ends. `PruningIsHarmless` is by cases
on the binding, and for positions from the assumption on `Survives` and a lemma that a text
found in a file has its window and so its fingerprint among the file's.

**`AnchorNotesProofs`** has five invariants over `TypeOK`. `RegistryInv` adds that what is
about to be registered was written and is young; `EntityInv` that an inject carries its own
anchor's binding to the entity it wrote and has registered it by the time it prints;
`ListingInv` that what is left to read was asked for; `RemovalInv` that a command past some
of its names deleted each of them itself; `AloneInv` that, with one process, what a command
found in its first loop is there until it deletes it in its second. The last gives
`AloneFailsOnRepeatsOnly`: repeated names and other processes, the two ways in which
`notes_remove` goes wrong, are all there are. `NotesRefinement` is the refinement of
`NoteStore` under `EntityInv`: the entity a process wrote is what it is still registering
the anchor of, so the registry never names an anchor that nothing was ever about.

**Proved only.** The refinements `LoopImplementsGraph` and `NotesRefinement` have no run of
their own, nor have `MappedTextOccurs`, `BrokenChainsStayBroken`,
`RevocationsCannotBeRevoked`, `DirtyBelowIsHarmless`, `AloneFailsOnRepeatsOnly` and
`DiffIsEmptyWhenFilesAreEqual`. To see one on an instance, add the formula it is about to
its module's `MC` module and configuration (with one process for `AloneFailsOnRepeatsOnly`).
The full `notes` instance then takes far longer than without; fewer removes and readers are
enough.

**Model-checked only.** `EveryCallEnds`, as liveness under fairness is beyond the prover;
and the five disagreements of section 3 that are counterexamples.

## 5. What is not modelled

* **Commit signing** beyond the two key files: `gpg.format` and `user.signingkey`, the block
  `ssh-keygen` writes, and its failures before anything is written.
* **Formats**: the stripping of `gpgsig`, SSHSIG blocks, OpenSSH keys, kind and ref names,
  git-store's encoding of documents, and the normal form and hash behind an anchor id.
  Hashes are injective in the models, and key documents that differ in
  the machine bit alone are taken for one.
* **Similarities below 1**, `op_log`, `project` and the witnesses of a trace, which hand
  lists of candidates to a caller and decide nothing; the validity of a delta, which
  compares two arguments; read errors in `revalidate` other than those pruning causes.
* **`verify_with`** with a verifier of the caller's own; the commands that only print
  (`log`, `resolve`, `kinds`, `id`); `prompt_document`, which asks at a terminal for what
  `--json` gives; the resolution of path arguments.
* **`pin.rs`**, fixtures, workflows and packaging, which have no behaviour.
* git-store, gix and the diff library, beyond what the code relies on.

## 6. Plan

Done, in this order: `ClaimLog`, `ClaimChain` and its proofs; `KeyResolution`, `KeyChain`;
`AttestCli`; `SpanMap`; `TreeDiff`; `AnchorNotes`; `Revalidate`; the key files of
`AttestCli`, `-L` in `SpanMap`, documents, listings and `show` in `AnchorNotes`; and the
proofs of all of them; `ClaimGraph` and `NoteStore` with what implements them. What could
follow:

1. **One model of a diff**: `Revalidate` with `SpanMap`'s walk in place of `Survives`, for
   instances small enough to check. `MappedTextOccurs` is the fact the two would share.
2. **Similarities below 1** and the candidates of `project`, once something in the code
   decides by them.
