# A TLA+ model of peios-rs

This directory models the crate `peios` (`peios/src`), the Rust bindings to the
Peios system libraries, with TLA+ specifications that TLC model-checks and TLAPS
proves things about. Most of the crate is a thin layer: one method, one libpeios
call. The modules here are about the rest, where the crate has logic of its own
that runs against something that changes under it: a kernel that overwrites a
shared ring, other processes that replace what is being read, other clients of
the registry, threads that share a handle, errors that latch and surface later.

Line numbers refer to the files under `peios/src`. The map from every definition
to the lines it models is in `PROJECT.json`.

## The system

| component | state | operations | talks to | what is hard | what makes it correct |
|---|---|---|---|---|---|
| event ring consumer, `event.rs` | a mapping shared with the kernel; the caller's read position | `map`, `event_at`, the loads, `wait` | kernel (shared memory) | every read races the producer; lapping; resizing | a snapshot is one real event; a lost race is `EAGAIN`, never another error; `EINVAL` is for an event whose type is not UTF-8; only overwritten events are lost |
| event emission by policy, `event.rs` | a mutex around libpeios' policy handle | `enabled`, `emit_with`, `emit` | libpeios, registry watch, kernel | threads; the policy changes between decision and emission | one thread in the handle; the answer was right during the call; the mutex is always released |
| batch emission, `event.rs` | none | `emit_batch` | kernel | failure in the middle | success means all; a batch refused in the crate emits nothing |
| event reader, `event.rs` | libpeios' cursor | `open`, `next`, `wait`, `lost` | libpeios, kernel | an event is consumed and then cannot be returned | every event is returned, counted as lost, or covered by an error |
| size probes, `util.rs`, `registry.rs` | local buffers | `probe`, `probe_str`, `query_value`, `enum_*`, `info`, `get_security`, `query_values_batch` | kernel | the object changes between the calls | what is returned existed at one instant; `ERANGE` only when really outgrown |
| files and mount policy, `file.rs` | an fd | `OpenOptions::create`, `*_sd`, `mount_get_policy`, `mount_set_policy` | kernel | policy and template are read in several calls; descriptors are written with a selection of their own | a template is returned with its own policy; an object is not opened by accident; the fd of a failed open is closed |
| registry keys, `registry.rs` | key fds | open, create, values, iterators, watches, security, `delete_key`, `delete_tree` | LCS, loregd, other clients | walks of many calls; transactions that make opens wait; guarded writes; a bounded watch queue | nothing outside the tree is deleted; all or nothing, in one layer; no wait for itself; no lost update; a copy kept by a watch comes to be right |
| transactions, `registry.rs` | an fd | `begin`, `commit`, drop, `status` | LCS | commit consumes the handle; time-outs | an error aborts |
| layers, `registry/layers.rs` | keys under `Layers` | `create`, `list`, `read`, setters, `delete` | registry | two creators; the first layer; lists of many calls | one creator wins; values are there when the layer is; nothing is left behind |
| wire formats, `registry.rs`, `registry/data.rs` | none | `parse_watch_events`, `parse_value_records`, `decode`, `encode` | kernel's bytes | lengths, terminators, damage | what is parsed accounts for every byte; decoding loses nothing but terminators and empty strings |
| token builder, `token.rs` | two error latches, C contents | setters, `reset`, `error`, `to_bytes`, `create` | libpeios | an error on either side of the boundary, reuse | a token has all that was asked for |
| impersonation, `token.rs` | the thread's token | `impersonate`, `impersonate_scoped`, `revert`, the guard's drop | kernel | guards that overlap; reverts that fail | no client's identity outlives its guards |
| tokens and sessions, `token.rs` | fds | queries, `adjust_groups`, `adjust_privileges`, resets, `set_session_id`, `adjust_default`, `Session::list` | kernel | callers that share a token; masks of words; sentinels | what a mask restores is what was there; a setter sets what it was given or nothing |
| access checks, `access.rs` | a request | `check`, `check_list` | kernel | whose identity is asked about, and when; denial against failure | the decision is about the identity the caller has in mind |
| descriptors, ACLs, SIDs, SDDL, masks, `security/` | C builders, bytes | builders, views, formatting | libpeios | entries that cannot be read; absent against empty | a list that comes out is whole |
| MessagePack, `msgpack.rs` | libpeios' cursor | `Writer`, `Reader`, `validate` | libpeios | what a failed read leaves | only what was given, skipped or reported is passed |
| sockets, `socket.rs` | fds | `send_message`, `recv_message`, `peer_pidfd` | kernel | descriptors that did not fit; numbers that are used again | every descriptor has one owner |
| processes, errors, `peios-sys`, `vendor/`, `tools/` | none | - | - | - | not modelled |

The components are mostly independent of one another; they meet in the registry
(layers are built on keys and transactions, the deletion of a tree on the subkey
iterator), in `util::probe`, which every read of variable size goes through, in the
descriptor table, into which sockets and files both put what they own, and on a
thread, whose impersonation an access check that names no token asks about.

## The modules

One module per component, `MC...` modules that give TLC constants and put together
the components that one run checks, and `...Proofs` modules. Components that share
no state are not interleaved: in `MCReads`, `MCEvents`, `MCTokens` and `MCContents`
a variable `part` says which component a behaviour is of, so that one run checks
each of them at the price of the sum of their states. Definitions whose comment
begins with *Mutant* or *A bug* are not part of a specification: they are broken
variants of the definition that follows, and each property is checked to fail when
one of them takes its place.

**EventRing** (`event.rs:258-298, 416-487`). `event_at` is cut at every access to
the shared mapping: the loads of `generation`, `write_pos` and `tail_pos`, the
private copy of the header and its checks, `copy_event_bytes` one read at a time,
and the two re-checks after the copy. The data region is an array of cells, a
cell holding the position whose bytes it has, so a torn read is one that met a
cell of another position; a read of such bytes may come out in any way (any size,
an error, or success). The kernel is external and does what `event.rs` relies on:
it moves `tail_pos` before it reuses a slot, publishes `write_pos` after the event
is written, and bumps the generation before the memory of a retired mapping is
used for something else. The caller's side of the contract (401-408) closes the
loop: advance by the size, catch up when lapped, map again when the generation
moved. An event's type string may be bytes that are not UTF-8, for which `from_raw`
answers `EINVAL` (`RefuseType`) before it copies the payload, and which, like every
error, is deferred until the re-checks; torn bytes may come out either way. The error
brings no size, so the caller asks again until it is lapped: `EventuallyDrained` says
that this is the only place where it can stop. Note that `event_at` samples the generation when it starts and not when
the ring was mapped, so a resize before the call is the caller's check; the
properties say so (`gen = mapGen`).

**EventStream** is what a consumer is promised, with no memory and no races: a
stream that is appended to, forgotten from the old end, and taken in order.
`EventRing` implements it; the refinement mapping is in `EventRing`
(`Stream == INSTANCE EventStream WITH end <- write_pos, oldest <- tail_pos, cursor <- read_pos`).

**SizeProbe** (`util.rs:62-108`, `registry.rs:539-820, 960-1005`). The five loops
of the crate that learn a size and then read, told apart by where they begin (a
probe or a call with empty buffers), by what a too-small buffer tells them (the
new size, or only `ERANGE`), by whether a zero-length buffer is a probe again, and
by how often they try. The object has a content and a size and is replaced
between any two calls.

**MountPolicy** (`file.rs:322-405`). `mount_get_policy`'s first read and its loop
of at most four, against `mount_set_policy` of others. A policy is its generation;
a template is the generation it belongs to and its length.

**EventEmit** (`event.rs:66-82, 123-146, 181-215`). Threads in `emit_with`: the
length check, the mutex, the decision, the closure outside the mutex, the emission;
an administrator changes the policy at any time. How libpeios decides from a
setting and a tier is external (`Decide`).

**EmitBatch** (`event.rs:91-121`). The count, the marshalling that may refuse, the
one call, and what becomes of its count.

**EventReader** (`event.rs:318-379`). The kernel publishes events, drops some, and
keeps the last `Slots`; libpeios' cursor (external) goes to the next event that is
left and counts what it skips; `next` makes an owned copy, or answers `EINVAL` for
an event whose type is not UTF-8, when the cursor has already moved; or it fails for
libpeios' own reasons (`NextFails`, 356), when no event was handed out. A program cannot
tell the two errors apart, so `EveryEventIsAccountedFor` counts errors as an upper bound:
the events that were neither returned nor counted as lost are at most as many as the
errors it saw.

**Descriptors** (`socket.rs:18-130`, `file.rs:130-273`, `util.rs:23-33`). A table of
descriptor numbers, the lowest free one handed out first, and the values of the
program that own them. `recv_message` takes a token and descriptors of which the
kernel delivers only what fits; `OpenOptions::create` and `open` look at a status
after the object exists; `send_message` borrows; values are dropped at any time, and
their numbers come back as other objects.

**DeleteTree** (`registry.rs:822-875, 1250-1272, 378-409`). The recursion of
`gather` is a stack of frames; each step of the iterator, each open and each
deletion is an action, and any of them may fail (`CallFails`). `delete_key` removes the
entry in the layer it is given, and "lower entries re-emerge" (822-823): `live` are the
keys with an entry in that layer, `elsewhere` those with one in another, and a key is
visible through either. So a key may stay visible after its deletion, stand in its
parent's way (`ENOTEMPTY`), or have nothing in this layer to delete. Other clients create
and delete entries of both kinds between any two steps, until the call and its
transaction are over. The registry's rules are external: a key with visible children is
`ENOTEMPTY`, and one with no entry in the layer `ENOENT` (an assumption: the code does
not say); a transaction holds a bounded number of operations; while one that has written
is open, opens wait, until it is timed out. The entries of one name in several layers are
taken to be of one key, and no entry hides another (`hide_key`).

**RegistryValues** (`registry.rs:80-114, 535-606, 672-710, 887-946, 1144-1239`). The values of
one key with the kernel's sequence numbers. Clients read, modify and write with
`expect_seq`, retry on a refusal, write blindly when there was nothing to read, or
delete. A watching program arms the watch, takes a snapshot, reads records and
applies them one by one, starting over on an overflow or an error. An iterator asks
for one dense position per call; a call that fails ends the walk with its error (1233-1236),
as `None` does without one, and `WalkGivesAll` says of each what has been given by then.
A name is a number, in the order in which the
registry enumerates.

**Positions** has no state: the element of a finite ordered set that so many others
come before. The registry numbers subkeys and values that way, `layers::list` sorts
by it, and the kernel hands out the lowest free descriptor by it. It is a definition by
`CHOOSE` and a count rather than a sorted sequence, so that something can be proved
about it.

**WireFormats** (`registry.rs:1073-1141, 1309-1343`, `registry/data.rs`). The kernel's
records are written into a sequence of cells, one cell of which may be changed or
whose end may be cut; the parsers read them back as the code does, check by check.
`decode` and `encode` are compared with each other on everything a program stores.
The parsers' loops are functions recursive over sequences, so that the equation each
satisfies, and what it computes, can be proved.

**Layers** (`registry/layers.rs`). Creators run `create` step by step in their
transactions; an administrator opens a layer and then uses the handle, by when the
key may be gone; a lister walks the subkeys by dense position, opens each name and
queries three values. Handles are to keys and not to names. A layer name is a
number that orders as the registry enumerates; names are taken to be UTF-8, though
`list` decodes them lossily.

**TokenBuilder** (`token.rs:976-1278`). The Rust-side latch and the C builder's,
with every setter; the ones that only pass their argument on are one action.

**TokenAdjust** (`token.rs:497-530, 601-724`, `security/mask.rs:130-224`). A live
token that two callers adjust through their handles; each may put back, from the
mask it was handed, what it found: groups by index, privileges by bit, or privileges by
name, as a service does that keeps the names. `NAMES` is the table of `mask.rs`, in which
not every privilege stands; `canonical_names` and `parse_name` look it up as the code
does. Index 0 is the user SID, so a token may have one index more than its mask has bits;
nothing is assumed about how many groups there are. `RestoreIsExact` states what a
restore gives back and what it cannot: a group past the mask comes back disabled, and by
name the privileges without one stay as they are. `set_session_id` and `adjust_default` with a small `U32` and
`U16`, whose last value is the sentinel.

**Impersonation** (`token.rs:297-345, 556-593, 921-944`, `access.rs`). Threads open
handles, adopt tokens with and without a guard, revert, and drop guards in any
order; each revert may fail. The kernel keeps one token per thread and restores
nothing. An access check names a token or leaves the subject to the kernel; the
decision records how the thread stood.

**SecurityDescriptors** (`security/acl.rs`, `security/sd.rs`, `security/sddl.rs:35-60`,
`file.rs:408-550`). The ACL builder with its latched error; the views and
`to_acl`, for which an entry may be unreadable; the descriptor of one object, which
editors read and write with any selection of its components.

**MsgPack** (`msgpack.rs`). A buffer is a sequence of items, a header being followed
by its values. The writer latches its first error; the reader moves over items it
was asked for, skips whole values, and consumes a string before it finds that it is
not UTF-8.

## The runs

| run | bounds | states | what it shows |
|---|---|---|---|
| `EventRing` | 4 cells, events of up to 3, positions up to 6, 1 resize | 3 200 000 | `SnapshotIsReal`, `RaceIsNeverAnError`, the refinement `ImplementsStream`, and `EventuallyDrained` |
| `Reads` | probes: sizes 0 to 5, 4 replacements; mount policy: templates 0 to 5, 5 policies; descriptors: 3 numbers, 4 hand-outs, 1 message under way, 1 file, 1 token | 2 100 000 | `ReadIsSnapshot`, `ErangeMeansOutgrown`; `TemplateBelongsToPolicy`, `MissingTemplateMeansRemovedOrOutgrown`; `EveryDescriptorHasOneOwner` |
| `MountPolicy_snapshot` | the same for the mount policy | - | **violated**: `PolicyIsSnapshot` |
| `Events` | emission: 2 threads, 1 change; batches up to 5, counts up to 4; reader: 2 slots, 5 events, 2 errors before a call fails no more | 135 000 | `OneAtATime`, `AnswerMatchesPolicy`, `EveryCallReturns`; `ResultTellsTheRing`; `EveryEventIsAccountedFor` |
| `EmitBatch_count` | batches up to 3 | - | **violated**: `FailureCarriesCount` |
| `DeleteTree` | 8 keys on 3 levels, 2 of them perhaps in other layers, 4 operations, 4 descriptors, 2 changes by others | 707 000 | `StaysInTree`, `AllOrNothing`, `OkMeansGone`, `QuietTreeIsDeletable`, `NeverWaitsForItself`, `EventuallyReturns` |
| `Layers_create` | 2 creators, 2 names, 1 administration call | 56 000 | `LayerIsWhole`, `OneCreator`, `NothingLeftBehind`, `CreateReturns` |
| `Layers_list` | 2 creators, 3 names, 1 administration call, 1 listing | 3 070 000 | `ListAnswersRight` |
| `Layers_exact` | 2 creators, 3 names, 1 listing | - | **violated**: `ListIsExact` |
| `Tokens` | builder: 3 setters between resets; adjustments: 2 callers, the user SID and 4 groups, 2 words of 2 bits, 3 privileges of which 2 have names, `U16` 4, `U32` 2; threads: 2 threads, 2 clients, 2 guards each, 5 calls | 1 754 000 | `BuiltAsAsked`, `ErrorIffRefused`; `RestoreIsExact`, `SetOrUntouched`; `NeverOverstays`, `DecidedForRightSubject` |
| `Tokens_mask` | the same for the group mask | - | **violated**: `OneBitPerIndex` |
| `Contents` | lists of up to 3 entries, 2 editors, 2 records a buffer, 5 loose bytes, 3 items; values: 2 clients, 2 names, a queue of 2, 3 writes, 1 damaged read | 368 000 | `RebuildKeepsEveryAce`; `OpenOnlyWhenAsked`; `ParseIsExact`, `DecodeLosesNothing`; `OnlyBadStringsAreLost`; `NoLostUpdate`, `CopyIsFresh`, `WalkGivesAll`, `CopyBecomesFresh` |

Why the bounds are enough. A ring of four cells holds an event of three next to one
of one, so events wrap around the end, a new event overwrites parts of two old ones,
and positions up to six reach every cell a second time; the second resize behaves
as the first, since a retired mapping is only left by mapping again. Four
replacements are one per fill, which is what it takes to use up a loop; sizes up to
five give four growths in a row from zero or one. Five policies are one more than
the four re-reads. Three descriptor numbers are a token and two descriptors, so that
a message meets a full table at each of its places, and a fourth hand-out is a
number used again. Two slots and five events let the reader be lapped twice, with
an event that cannot be returned before, between and after the losses, and a call that
fails before and after one. The tree has
a leaf under a child, a link under another, a name that cannot be opened and a key
outside; the key it is called on and that leaf may be in other layers, so that one shows
through at the end and one in the middle; two changes by others are one in each layer, or
a key and one under it; four operations and four descriptors are one or two less than the whole
tree needs, so both limits are hit. Three names let a created layer sort before,
between and after others. Three setters are one refused in Rust, one in C, and one
around them. A mask word of two bits puts the second group into the next word, and
the fourth group past the last one; the widths are as small as they may be to leave values on both sides of each. Two
guards overlap in both orders, and five calls are a handle, two guards, a drop and a
check, with the threads independent but for the bound. Three writes overflow a queue
of two and leave one to come after the overflow; a client needs one read and one
write, so two clients and three writes include each refusal, the retry and a blind
write. Two values let a walk skip one and repeat one. Two records let damage to the
first be taken for the second. Three items are a header, a string that is not UTF-8
and what follows.

`CHECK_DEADLOCK FALSE` is given for the layers, `Tokens` and
`Contents`, where every call ends and each bound on calls is finite, so the system
stops by itself; the other runs check for deadlock. Symmetry (of threads and
callers) is used in `Tokens` only, whose properties are all invariants.

### Fairness

* `EventRing`: weak fairness of the consumer's own steps together, since a thread
  that is runnable runs. Nothing is assumed of the kernel, which in the model stops
  writing only because positions are bounded: "the consumer catches up whenever the
  kernel pauses".
* `EventEmit` (in `Events`): weak fairness of each thread's own steps, strong fairness of taking
  the mutex: a mutex that is released again and again is eventually granted. No
  fairness for the start of calls or for the administrator.
* `DeleteTree`: the calling thread runs on, and the registry times out a
  transaction that keeps a call waiting (the comment at `registry.rs:842-845`).
* `Layers`: each creator's steps; a wait for another's transaction is left by that
  creator's own progress.
* `RegistryValues` (in `Contents`): weak fairness of the watching program's own steps together,
  arming, reading, applying: its thread runs on and a read returns when there are
  records. A read that fails on a damaged record is not assumed either way, nor is
  anything of the writers, which stop only because writes are bounded: "once the
  writers stop, the copy comes to be right and stays right".
* `Reads`, `Tokens` and the rest of `Contents`: none, their properties are safety.

### Disagreements with the documentation

1. `mount_get_policy` may return a policy that has a template without it
   (`file.rs:363-376`): when a re-read finds the template gone, the fields of the
   *first* read are kept, and when four reads meet `ERANGE` the loop ends without
   an error.
2. `emit_batch` does not return, on failure, how many events preceded the one that
   failed (`event.rs:87-89` against `110-114`).
3. `layers::list` may list a layer twice, or not at all, when layers are created or
   deleted during its walk by dense position (`layers.rs:56` against `65-68`).
4. `GroupMask` has not "one bit per group index" (`token.rs:713`): the user SID is index
   0 and the groups are 1 to N (707), a token may have 1024 groups and the mask has 1024
   bits (`vendor/kernel/include/uapi/pkm/token.h:85-89`), so that `is_enabled(1024)` is
   false for a group that was enabled.

## What is proved

Proofs are for every value of the constants that satisfies the modules' named
assumptions, and rest on nothing else. Eight modules hold them; each theorem that
states a property is of the component's own specification, of which the runs check
small instances.

**EventRingProofs.** `TypeCorrect`, `RingCorrect`, `SnapshotCorrect`, `RaceCorrect`,
`LossCorrect` and `RingImplementsStream`. The invariant that makes the argument
inductive is `RingInv`: *WindowInv*, the readable window and the event being written
fit the region, and while the mapping is live each cell of the window holds its own
position; *LogInv*, events abut and do not overlap; *CursorInv*, every position the
consumer sampled is the start of an event or the end, and the sampled generation
lies between the mapping's and the ring's; *CopyInv*, if the slot has not been given
up since, all bytes read so far were the event's own, and the verdict on its type is the
right one. `SnapshotIsReal` alone says
nothing about the middle of a copy, and the re-checks prove the copy good only
through `CopyInv`: a `tail_pos` still at or before the position means that no cell
of the event was ever a target. The refinement maps accepting an event to `Deliver`,
publishing to `Emit`, making room to `Forget`, and everything else to a stutter.

**ReadsProofs**, of the three components of `Reads` and of the registry's values. For the probes: `ProbeTypeCorrect`,
`ProbeCorrect`, `SnapshotCorrect` and `ErangeCorrect`. The invariant `ProbeInv` counts:
when a fill is about to run, the replacements seen are at least the fills lost so far,
and one more if the buffer no longer has the object's size; a size learnt by a probe is
one the object had. For the mount policy: `MountTypeCorrect`, `RereadCorrect`,
`TemplateCorrect` and `MissingTemplateCorrect`. Neither promise is inductive: both speak
of the finished call only. `RereadInv` says of the running loop that the policy in force
is among those seen, that each refused read was preceded by a replacement of its own,
and that there is one more whenever the template no longer fits the buffer. For the
descriptors: `OwnersCorrect`, for any table, any messages and any number of values.
`OwnInv` splits "exactly one owner" into "some value owns it" and "no two do", which
steps preserve and a count does not show; the lemma `NumbersFree` says that the kernel's
numbers are free and each is handed out once. The table of numbers is finite.

For the registry's values, in the same module: `RegTypeCorrect`, `UpdatesCorrect`,
`CopyCorrect` and `WalkCorrect`, for any number of clients, any finite set of names and any length of the queue.
`GuardInv`: what a client has read is what the value still holds as long as the sequence
numbers agree, and a number 0 means there was nothing to lose. `FullInv` and `WatchInv`:
a full queue ends in the overflow record, and each value in which the copy differs has a
record, read or still queued, that will renew it; `CopyIsFresh` is the case in which no
record is left. `WalkInv`, for the iterator: what was there when the walk began is given
or has at least `index` values before it, as long as nothing is removed; what was given
has fewer than `index` before it, as long as nothing is added. The two halves are why
only a removal hides a value and only an addition repeats one. A walk that failed has, by
the first half, given all but values with at least `index` before them, and those are
behind the ones it gave.

**EventsProofs.** `MutualExclusion` and `AnswerCorrect` for any number of threads,
`ReaderCorrect` for every ring and every stream, `BatchCorrect` for every batch.
`MutexInv` says that the holder of the mutex, and nobody else, stands at the
decision. `CallInv` ties each step of a call to the settings in force since it
began: the one in force now is among them, and a call past the decision has one
among them that allows its tier. The count of `EveryEventIsAccountedFor` needs
`ReaderInv`, that what was given lies in order before the position. `BatchInv` says
that `raw` is a beginning of the caller's slice, the ring a beginning of `raw`, and
that nothing is in the ring before the whole slice is marshalled, which is why a
refused batch leaves nothing. `ReaderLosesOnlyBadStrings` is of the MessagePack reader,
whose cursor `CursorInside` bounds by its buffer.

**SecurityProofs.** For the token builder: `BuilderCorrect`, `BuiltCorrect` and
`ErrorCorrect`. `BuilderInv` adds that the C builder holds exactly what was asked for as
long as nothing was refused; that alone explains why checking `error` before building
is enough. For adjustments: `RestoreCorrect`, for any callers, groups, word widths and
privileges, and `SetCorrect`, for every width of the integers. `AdjustInv` says that each
mask a caller still holds stands for what was there when it was handed it; `MaskIsExact`
is the arithmetic of it, that index `i` is found at bit `i % WordBits` of word
`i \div WordBits` on both sides of every word boundary, and is not found from the end of
the last word on. That the names of a mask parse to its named bits needs only what the
tests of `mask.rs` say of its table: no name and no bit twice. For impersonation:
`ThreadTypeCorrect`, `IdentityCorrect` and `DecisionCorrect`, for any number of guards.
`NeverOverstays` is inductive with the types: a drop reverts whatever the thread
impersonates, so that no order leaves an identity without the guard, adoption or failed
revert it came from. `DecidedForRightSubject` needs `NewestGuard`: until a thread
changes its identity again, the guard made last is the last of its guards and names
the identity in force. For descriptors and lists: `ListCorrect` and `StoreCorrect`.
`BuilderHolds` says of the ACL builder what `BuilderInv` says of the token's.
`HandsHonest` says that an absent DACL that somebody holds, having selected it, is
accounted for before it is written.

**WireProofs.** `ParseCorrect` and `DecodeCorrect`, for every buffer and not only for the
short ones of the run, above `WireInvariant`. `WireInv` is that the buffer is a sequence
of cells; that, as long as nothing was damaged, it is the records sent, one after the
other; and that stored data is the encoding of a value a program can store, under its own
type, or loose bytes under any type. The properties speak of the buffer and of what was
sent, and not of how the one came of the other: that is what `WireInv` adds. The rest is
about the parsers and holds of every sequence of cells. The lemmas come in pairs. What was
written reads back: `PathReadsBack`, `EventsReadBack`, `ValuesReadBack`, `ListReadsBack`,
`StoredReadsBack`. And what is accepted is nothing but what the bytes say: by `PathIsExact`
and `EventsAreExact` a parser of watch records that does not refuse has accounted for every
cell, by `ValuesAreExact` the values read are what the buffer starts with, and by
`ListIsExact` every byte that is not a NUL is in a string of the list, in its place.
`DecodedIsStorable` and `DecodeKeeps` say of `decode` that its answer can be stored and
that it loses what the type promises to lose and no more.

Induction over data is done by least counterexample, since the provers cannot instantiate
the library's induction theorems. Each parser's recursion is shown to satisfy its own
equation (`PathPartsSteps`, `WatchEventsSteps`, `ValueRecordsSteps`, `StringsSteps`,
`OthersSteps`, `FlattenSteps`), because what it calls itself on is shorter. A claim about
all sequences is then a claim that the set of those for which it holds is everything, and
a shortest one outside the set leads to a shorter one.

**CommonLemmas.** What several of the modules rest on. *Positions*: in a finite set with
an order, the lesser of two elements has the lower position, each number below the set's
size is the position of one element, and that element is `Nth`; the steps of every walk by
dense position, the sort of `layers::list` and the lowest free descriptor use it.
*Recursion*: a set of numbers that is not empty has a least one (`Least`); a subset
that has each element whose smaller ones it has is the whole set (`BySize`); and a
function defined by what it is on smaller arguments exists and satisfies its equation
(`RecursiveOnSize`). *Sequences*: what joining, cutting and shifting them does.

**DeleteTreeProofs.** For every tree of keys, of any depth, with any links and names that
are not UTF-8, and all limits: `StaysUnderThisKey`, `OpensFirst`, `OkLeavesNothing`,
`TransactionsAreWhole` and `QuietTreeIsDeleted`, above `TypeCorrect`. The first five rest
on `TreeInv`: *TxnInv*, what the state of the transaction says of what is staged and
deleted; *WalkInv*, everything gathered or still listed lies under this key, since a
name is a child of the key it was listed under and is opened as itself, not as what it
points at; *LiveInv*, no key is there without its parent; *CountInv* and *OkInv*, the
number answered is that of the keys deleted. `OkMeansGone` needs no count of what was
listed: the registry deletes a key only when no child is visible through any layer, and
this key is deleted last. What is left may be this key, through another layer.
`QuietTreeIsDeleted` is the hard one, since nothing said so far excludes a key that is
deleted before its children, or twice. `QuietInv` describes the walk as long as nobody
else touches the tree. While it gathers (`GatherInv`): the stack is a path from this key
down, each key on it once; the names left on each frame are children not yet opened;
whatever child is not left, not gathered, and not next on the path does not exist; and
what is gathered is gathered once, after all its children. While it deletes
(`DeletionInv`): the keys deleted are those whose turn has come, the others are all
visible, and no key under this one is left out. So a child that is visible when its
parent's turn comes shows through from another layer, and a key with no entry to delete
never had one.

**LayersProofs.** For any number of creators and names: `LayersTyped`, `LayersAreWhole`,
`CreatorsDiffer`, `FailedCreatesLeaveNothing` (an action property) and
`ListsAnswerRight`. `CallInv` ties the step at which each call of `create` stands to
what it has staged by then. `KeyOnce`, that no two calls hold one key, is what makes
`OneCreator` inductive: two calls that had one key while still under way could later both
answer `Ok`. `ListInv` says that, until a deletion races it, a list has only names whose
layers are there, so that `ENOENT` comes of a race alone; that the result is in order
is the lemma `SortedRight`, by the positions of `CommonLemmas`.

**Assumptions.** Those of each module's `ASSUME`, which TLC evaluates on every run. Most
are types. The others are facts of the environment: a process's descriptor numbers, a
registry's keys, a key's value names and the layers' names are finite in number and can
be put in an order; and the keys under a key form a tree, that is, each is reached by
parents and no set of them is its own ancestry. `WireAssumption` says of the kernel
that the lengths of what it sends fit the records' length fields, that a name or a path's
component has no NUL in it and is a string, and of programs that they store data of the
kinds the registry has.

**Only model-checked.** Liveness (`EventuallyDrained`, `EveryCallReturns`,
`EventuallyReturns`, `CreateReturns`, `CopyBecomesFresh`) is outside what the prover
does. Every other property of a passing run has a theorem.

## Not modelled

* `peios-sys`, the vendored headers and the tools: generated, third-party, or not
  part of the library. `error.rs` and `lib.rs` wrap errno and declare modules.
* `process.rs`, `Token::duplicate`, `restrict`, the linked token, `Session`'s calls, and of
  the registry `hide_key`, `blanket_tombstone`, `flush`, `backup`, `restore` and
  `set_security`: one libpeios call each with no state in the crate; what they
  change, the resolution of layers above all, is the kernel's.
* `EventRing::wait` and `set_need_wake`: the futex wake-up, of which both sides
  are outside the repository.
* SIDs, `reinherit` and `strip_inherited`, and the encoding of an access check's
  audit context: bytes in, bytes out of libpeios. Constants of masks are data.
* The number of an item's bytes in MessagePack, of a string or a header: libpeios
  encodes. Lengths above `u32` in a registry write, which are cut
  (`registry.rs:1284-1286`): it takes four gigabytes in one value, which the kernel
  would have to accept whole for the difference to show.
* The errors of `list` and `read` other than `ENOENT` (`layers.rs:68`, `70`, `99`): a
  call that the registry refuses ends the listing with its error, of which
  `ListAnswersRight` claims nothing.
* The depth to which MessagePack's `validate` looks, and the status of each node of a
  `check_list`.
* Layer names and key names in `Layers` are UTF-8, though `layers::list` decodes
  lossily; in `DeleteTree`, a name that is not UTF-8 is one of the cases.

`Data::MultiSz` drops empty strings, though `data.rs:17-19` says that `decode`
forgives nothing that would lose information; the type's own comment
(`data.rs:36-37`) says that they are not kept, and `DecodeLosesNothing` states what
the type promises.
