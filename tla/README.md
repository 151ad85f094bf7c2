# A TLA+ model of idrive-gateway

idrive-gateway exposes an IDrive account (the EVS web service) as a local WebDAV
server. This directory models the parts of it that decide whether a user's bytes
survive and whether its answers are true: the replacement protocol and its journal,
what a request does to a file, the request serialisation and process life around
both, the two caches, the saved session, and the commands with their login window.
Paths below are relative to `src/`.

## 1. Inventory

| Component | State | Operations | Talks to | Hard because | Correct when | Module |
|---|---|---|---|---|---|---|
| Replacement transactions (`internal/evs/journal.go`, `upload.go`, `move.go`) | journal directory, the record in memory, the hidden stage and backup names on the server | `UploadFile`, `MoveReplace`, `recoverReplacement`, `cleanupStage`, `recoverUpload`, `RecoverPending` | EVS; called by the WebDAV file system, the handler and start-up | EVS has no atomic replace; every call can fail, or succeed and lose its answer; the process can die anywhere; other clients write | a replacement is all or nothing and no bytes are lost on the way | `ReplaceTx`, `ReplaceTxInv`, `ReplaceTxProofs`, `ReplaceTxExternal`, `AtomicStore` |
| EVS client: listings and direct mutations (`internal/evs/client.go`) | `browseCache`, `cacheGeneration`, in-flight fetches | `Browse`, `BrowseFresh`, `Stat`, `StatFresh`, `Mkdir`, `Rename`, `Delete`, `Copy`, `Move`, `waitForPathState` | EVS; called by everyone | fetches outlive their readers; answers get lost; Copy and Move are asynchronous | no stale listing survives a mutation; success is real | `BrowseCache`; the tree effects in `ReplaceTx` |
| Upload transfer (`client.go`: `uploadSmall`, `uploadChunked`) | upload session, chunk offsets | one request, or start / chunks / finish | EVS | partial uploads | the chunks are the file, in order | `ChunkPlan`; calls in `Commands`, proofs in `CommandsProofs`; one action of `ReplaceTx` |
| WebDAV handler (`internal/webdav/handler.go`, `preconditions.go`) | weighted semaphore, `active`, `closing`, `idle` | admit, recover, reject, run, leave, drain | journal, file system | fairness, early returns, cancellation; names translated twice | mutations run alone, after recovery; a condition holds for what is replaced | `Gateway`, `FileRequests` |
| Process life (`cmd/idrive-gateway/main.go`, `internal/processlock`) | `server.lock`, `client.journal` | start, signal, shutdown, drain, exit | journal, handler | timeouts race with late requests; a second process starts | the journal has one owner | `Gateway` |
| Download cache (`internal/webdav/cache.go`, `maintenance.go`) | files, flights, pins | `Open`, `ensure`, `fill`, `pruneFiles`, `invalidate` | EVS download, file system | shared downloads, cancellation, pruning at any moment | an opened file is there; nothing leaks | `FileCache` |
| Saved session (`internal/session/store.go`, `cmd/idrive-gateway/session.go`) | `session.json`, its lock, fingerprint and revision in memory | `Load`, `Save`, `SaveCurrent`, `SaveLoaded`, ticker, final save | login command, server | several processes, stale revisions, half failed writes | a newer login is never overwritten, refreshed cookies are kept | `SessionStore` |
| Cookie jar (`internal/session/jar.go`) | cookies by domain, path, name | `SetCookies`, `snapshot` | HTTP client | domain rules, expiry | what is saved is what was received | one value in `SessionStore` |
| WebDAV files (`internal/webdav/fs.go`) | temporary file, dirty flag; pending seek | `newWriteFile`, `Write`, `Close`; `ensureLocal`, `Seek`, `Read` | handler's `writeState`, cache, client | partial bodies, late write errors, a seek before the download | a partial body is never committed; ranges are exact | `FileRequests` |
| Local retention (`maintenance.go`: `retainUpload`) | recovery directory | retain, prune | `writeFile.Close` | budget, half failed copies, crashes, other processes | a failed upload's bytes stay somewhere; the budget holds | `FileRequests` |
| Root aliases (`fs.go`: `rootAliases`) | none | display name to device id and back | client | ambiguous names | a listed name leads back to its folder | `RootAliases`, `FileRequestsProofs` |
| Login window (`internal/auth/webview.go`, `token.go`) | `sync.Once`, result channels, `done` | open, callbacks, close, terminate, exchange | the page, the user, the signal | three threads and a native event loop | a login ends, whatever happens to its window | `LoginWindow` |
| Commands (`main.go`, `smoke.go`, `internal/probe`) | scratch directory on the server, report | `ensureClient`, the steps of `probe.Run` and `runSmoke`, deferred cleanup | session, login, EVS | calls that fail, lose their answer or come late | success is proven, leftovers are removed or named | `Commands` |
| Directory listing objects, flags, basic authentication, test server, packaging, rclone patch | | | | | | not modelled (section 8) |

The hazards that follow from this are listed, each at its line and with the
properties that watch it, in `PROJECT.json`.

## 2. Modules

`AtomicStore` is the promise: a map from paths to values that one mutation at a
time changes in a single step or not at all, with truthful success and failure
replies and a third reply, "uncertain", that promises only all-or-nothing.

`ReplaceTx` is the protocol. One action is one remote call, one journal save or
one verification, so a crash may fall between any two of them.
- *State.* `canon`, `stage`, `backup` are the server's files at canonical names,
  at `.idrive-gateway-upload-<id>` and at `.idrive-gateway-backup-<id>`; `disk` is
  the set of journal records; `tx` is the record the running code holds; `pc` is
  where it stands; `op`, `reply`, `old` belong to the request; `caller` says who
  called `recoverUpload`.
- *Data.* A content stands for a (size, SHA-256) pair, so `verifyUpload` is
  equality. Ids are reused once nothing bears them; the code draws random ones.
  Record fields that are functions of others (stage and backup names, sizes) are
  left out. `original = Absent` is `HadOriginal = false`.
- *Failures.* While `faulty` holds, a read may fail, a mutation may fail without
  or after its effect (`...Lost`), a save may fail before or after its rename
  (`atomicfile.Write`: `SyncDir` comes last), and the process may crash.
- *Calls.* `Rename` first looks for its target, and the server refuses a missing
  source; both are `Can...`. The second, idempotent save at `journal.go:231` is
  merged with the one at 187.
- `Journaled = FALSE` is the client as `probe` uses it, without a journal.

`ReplaceTxInv` holds the inductive invariants `IInv` and `AtomicInv`, `ReplaceTxProofs`
the proofs. For `Gateway`, `SessionStore`, `BrowseCache`, `FileCache`, `FileRequests`,
`Commands` and `RootAliases` a module `...Proofs` holds both (section 4).

`ReplaceTxExternal` adds what the gateway cannot exclude: another client that
writes and deletes canonical files at any moment, and renames that the server
performs after the gateway gave up on their answer. The ghost `owed` is the set
of contents that somebody stored and nobody gave up; the ghost `raced` remembers a
late rename that moved a destination recovery had already verified.

`Gateway` models who may touch the tree: `ServeHTTP`'s counting, the weighted
semaphore (first come, first served, as in `golang.org/x/sync`), recovery before a
mutation, and the life of several processes on one journal. A mutation is an
interval during which a record may be pending; what happens inside is `ReplaceTx`.

`SessionStore` models `session.json`. A set of cookies is a number issued in
increasing order; an identity is the number of the first cookies of a login. The
compare-and-swap of `Store.save` is three steps: acquire, check, write.

`BrowseCache` models the listing cache. A listing is a version number. Flights are
goroutines of their own that go on without their reader. An accepted Copy or Move is a
set of directories (`owing`) that the server changes one at a time, in any order and at
any time, also after the gateway stopped waiting. `waitForPathState` fetches a listing
(`PollFetch`), stores it and looks at it (`Poll`); Move waits for its target and then for
its source (`AfterWait`). A listing from before the mutation may show anything, since the
name may have come or gone meanwhile, so one that was cached or in flight would count.

`FileCache` models the download cache. A target is one version of one remote file
in a directory of its own; pins are counters; pruning may remove any set of
unpinned files that makes the rest fit. Every other local step may fail, the look at
the target included. Deletion errors (Windows) are left out.

`MC...` modules add the symmetry sets TLC uses, for `ReplaceTxExternal` the constraint
that ends a behaviour after the race its invariant excepts, and for `FileRequests` the
bounds of section 3.

`FileRequests` is one GET, PUT, COPY or PROPPATCH after another on one file, from the
handler's checks to the last byte.
- *State.* `remote` is the file; `staging` is the temporary file of a `writeFile`;
  `recovery` the recovery directory, a file with or without its JSON description;
  `got`, `eof`, `broken` are `writeState.received`, `eof`, `err`; `handle` is
  `readFile`'s descriptor and `pendingSeek`; `checked` and `at` are how the name was
  understood by the precondition and by `OpenFile`. The history variable `owed` is
  the set of bodies the gateway accepted and that nobody replaced or evicted;
  `strays` are staging files of such bodies that were left in the temporary directory.
- *A second process.* The recovery directory is the user's, `recoveryMu` is a process'
  own. Another gateway process retains its uploads in it, step by step (`Foreign...`):
  `foreign` is the file it is writing. Either process prunes for its own upload and may
  evict what the other one is still writing, whose next steps then write to a file
  without a name (`Rewrite`). The history variable `overlap` says that at the last prune
  the other process was between its own prune and its end.
- *Data.* A body is an identity and a number of blocks; a content also says how many
  of them it holds. An entity tag is compared as the version it stands for.
- *Calls.* `UploadFile` is one step here (`Commit`, `CommitFails`); `ReplaceTx` is
  what happens inside. Which files a prune evicts is left open, since it depends on
  modification times: any set of the older ones, as long as the rest fits.
- *Library.* `golang.org/x/net/webdav` opens a file with `O_RDWR|O_CREATE|O_TRUNC` for
  PUT and COPY, with `O_RDWR` for PROPPATCH, and closes it whatever happened; LOCK of
  a missing name creates an empty file like a PUT without a body. A local `lseek`
  is assumed not to fail in `Write`, the one error `writeState` does not record, and
  ignored errors of `os.Remove` are left out. So every eviction succeeds: where it does
  not, `pruneFiles` goes on without an error (`maintenance.go:98-108`) and leaves the
  directory over its budget.
- *One goroutine.* `readFile` unlocks its mutex around the download (`fs.go:389-395`) and
  looks again afterwards; the library uses a `readFile` in one goroutine, so `EnsureLocal`
  is one step.

`ChunkPlan` is the arithmetic of `uploadChunked`, `RootAliases` that of the display names
below `/`: operators without state, with the proofs in `CommandsProofs` and
`FileRequestsProofs`.

`LoginWindow` is `waitForTokenLogin`: the main thread before, in and after `w.Run`, the
goroutine that waits for the context, and the page's callbacks, which meet in
`sync.Once`. `Dispatch` after `Destroy` is undefined in the native library; the model
lets the process, which is being stopped, die of it.

`Commands` extends both with one run of a command: the session or the login
it begins with, then the steps of `probe.Run` or `runSmoke`, each as what it needs,
takes away and leaves in the scratch directory. A call may fail without or after its
effect, or be performed later (`late`); a copy, a move or smoke's way through rclone may
alter bytes (`altered`), which probe's downloads and smoke's `cat` have to notice.

Composition: `FileRequests` assumes that a mutation is alone in its process and that
`UploadFile` is atomic up to uncertainty; `Gateway` and `ReplaceTx` check that.
`Commands` composes `LoginWindow`, `ChunkPlan` and the scratch directory, and its `serve`
goes on as a process of `Gateway`. `ReplaceTx` assumes that one mutation runs at a time per journal
and after recovery, which is what `Gateway` checks (`MutationsRunAlone`,
`OneOwner`, `MutationStartsClean`). `BrowseCache` and `FileCache` assume that
mutations and readers exclude one another, which is `MutationsRunAlone` again.

Definitions whose name or comment says *mutant* are plausible mistakes in the
code. Each stands before the definition it would replace and is used by nothing;
replacing the definition by it must break the property `PROJECT.json` names.

## 3. Runs

| Run | Instance | Shows |
|---|---|---|
| `replace_tx` | 2 paths, 3 contents, 2 ids, journal | with every fault and crashes anywhere: `IInv` and the safety properties; `ReplaceTx` implements `AtomicStore` (`Atomic`); commits are final; requests end; recovery ends when the faults do |
| `replace_external` | 2 paths, 3 contents, another client that writes `c` or deletes, every rename possibly late | no bytes are lost to concurrent writers or slow renames, except in the one window of `replace_late_preserve` |
| `gateway` | 2 processes, 2 readers, 1 mutation, semaphore of 2 | exclusion, one owner, quiet after drain, clean start, no starvation, shutdown ends |
| `session` | 1 server, 1 login command, 4 cookies, 5 saves, all faults | a replaced login stays replaced; saves are compare-and-swap; the newest cookies are saved at exit; `ErrSessionChanged` is truthful |
| `browse_cache` | 2 directories, 2 readers, cache of 1, 2 changes of each, changed one at a time | no stale listing; fresh reads; real success |
| `file_cache` | 2 callers, 2 targets, room for 1, a pruning second process | opened files are there unless the other process took them; downloads keep their directory; own cancellation only; nothing left; every call returns |
| `write_file` | 2 bodies of up to 3 blocks, a limit of 2, a recovery budget of 4 that a second process shares | no partial body is committed or described as recovered; answers are true; accepted bytes stay somewhere; the budget holds, doubled while both processes retain; conditions and ranges hold; a stalled client is not waited for |
| `commands` | login, serve, probe and smoke, a chunked file of 2 MB + 12345 | scratch directories are removed or named; success is proven; every run ends |

Four further runs show where the code does less than its documents say; each is a
finding in `PROJECT.json` and checks the one property that quotes the document:

- `replace_late_preserve`: recovery verifies the destination (`journal.go:210`),
  then the server performs the rename to the backup name it had been asked for
  earlier, then recovery deletes that backup (`journal.go:222`), the only copy.
  The server must be slow by more than the gateway's own verification, so the
  window is narrow; `NoBytesLostUnlessRaced` shows that it is the only one. `docs/safety.md:13` promises to preserve uncertain bytes.
- `replace_readers`: readers do not run recovery (`handler.go:142`); after an
  uncertain reply they see the destination missing until the next mutation.
- `session_stale`: the revision is read at attachment, without the cookies
  (`session.go:27`), so a save of the same session made meanwhile is overwritten.
- `write_conditional`: the precondition and `OpenFile` each translate the request's name
  (`preconditions.go:17`, `fs.go:44`). If the root cannot be listed the first time,
  the display name stands for itself, nothing is found under it, `If-None-Match: *`
  passes, and the write then replaces the file that is there. `ConditionalWrite` shows
  that conditions hold otherwise. The library's look at the destination of a COPY with
  `Overwrite: F` has the same gap.

Five more properties hold with an exception that the code has and their comments name.
`SavedOnExit` excepts cookies that arrive while `EnableRecovery` runs: persistence
starts with the jar as it is then and takes it for saved (`session.go:22`), so they
are not written until they change again. `ChangedByAnother` excepts a server one of
whose saves failed behind its rename (`SyncDir`, `write.go:30`): it keeps the old
revision (`session.go:44`) and reports its own file as another process' for the rest
of its life. `OpenFindsFile` excepts files that a second process pruned (`robbed`): pins are a
variable of one process (`maintenance.go:23`), the cache directory is shared, so another
gateway may still remove a download between its publication and its opening.
`NothingLeftUnreported` excepts a scratch directory that the server made although the
call failed: `probe` defers the removal only after `Mkdir` returned (`probe.go:71-78`),
and `smoke`, which defers it earlier, may look before a late mkdir is performed.
`WithinBudget` allows twice the budget while two processes retain at the same time: each
prunes for its own upload alone (`maintenance.go:169`), then both add theirs. The first
retention that prunes alone brings the directory back within the budget.
The history variables `lapses`, `robbed` and `overlap` record these cases and nothing
else reads them.

`ReadIsFresh` says nothing of a reader that joined a flight. `Browse` runs a
shared fetch under its first caller's context (`client.go:232-246`): when that
caller is cancelled, the others get its `context canceled`, and a fetch whose
goroutine is delayed across a mutation gives a reader that joins it afterwards
the listing from before. The cache itself stays current (`CacheIsCurrent`).
Likewise `CacheIsCurrent` excludes directories that the server changed only after
Copy or Move had stopped waiting for it. `SuccessIsReal` says of a Copy that its target
is there and of a Move that its source is gone as well; what is inside a folder may
still be under way, and the code does not look.

### Bounds

- *Replacement.* A replacement involves its destination, its source and one
  transaction; two paths, both roles for each, cover every overlap, and two ids
  let a record survive while the next transaction draws its id. Three contents
  are old, new and somebody else's. Requests are not counted: every instance is
  finite because ids are reused.
- *Semaphore.* A size of 2 with readers of weight 1 has the three interesting
  states: free, shared, exclusive. The code's 2^20 never fills with readers.
- *Session.* `MaxIssued` and `MaxClock` end a behaviour; four cookies are two
  logins with a refresh each, five saves let two processes each save twice.
- *Listings.* `MaxVersion` and `MaxGeneration` allow two mutations, one more than
  the property needs (a fetch before, a mutation, a store after). While the server owes
  changes no other mutation begins.
- *Download cache.* Two callers are an owner and a waiter of one download, or a
  caller and the pruner of its file; two targets and room for one force eviction.

- *Bodies.* A limit of two blocks and bodies of up to three give empty, exact and too
  large ones, and a body that ends before, with or after its last write; a budget of
  four fits one described upload of two blocks, or two small ones, never both large
  ones. Conditions (`Tried`) are put on bodies of one block, one header at a time.
- *The other process.* It retains uploads of two blocks (`OtherSizes`) under one identity
  (`Others`), so that one of its own and one of this process exceed the budget. It begins
  while this process retains (`OthersBegin`) and has been evicted when the next request
  opens its file (`OthersOnlyMeet`): before that the two touch nothing in common. The file
  that was there at first is empty or of two blocks (`OldSizes`), and one body at a time is
  left in the temporary directory (`OneStray`). The proofs need none of these bounds, and no step
  of a request that `Answered` waits for is enabled or disabled by the other process.
- *Commands.* The probe's own size, three chunks of 1 MB, the last one short.

### Fairness

- `ReplaceTx`: weak fairness of the operation's and recovery's own steps. Every
  remote call has a deadline (`client.go:152`, `550`; the 30 second cleanups), so
  a started step ends. Requests, restarts and the end of the faults are not
  assumed; `NeverWedged` speaks of what follows once the faults have ended.
- `Gateway`: weak fairness of each request's own steps and of each process'
  shutdown steps (bounded waits of 10 and 70 seconds). Nobody has to start a
  process, send, cancel or stop.
- `FileCache`: weak fairness of each caller's steps; a download ends within its
  30 minutes, by success, failure or cancellation.
- `FileRequests`: weak fairness of the steps the code takes by itself. That includes
  the failure of a read from a silent client: `requestBody.Read` gives it two minutes
  (`handler.go:69`), `statusWriter.Write` likewise (`handler.go:102`). Clients need not
  send, read on or disconnect.
- `Commands`: weak fairness of the command's steps, of the window's own thread and of
  the goroutine; every remote call has a deadline. The user, the page and the signal
  are free to do nothing, so `Ends` speaks of a login once the signal has come.

Deadlock is checked in every run but `commands`, where a command that has ended stops.

## 4. What is proved

`ReplaceTxProofs` proves, with TLAPS, for every set of paths, contents and ids
that satisfies `ConstantsAssumption` (absent, directory and file values differ;
the empty path and id are not real ones):

- `TypeCorrect`: `Spec => []TypeOK`, with or without a journal.
- `InvariantHolds`: with a journal, `Spec => []IInv`.
- From it `ReplacementsPreserveOriginals`, `RecoveryFilesAreJournaled`,
  `OnePendingReplacement`, `RecordsStayReadable`.

`OriginalPreserved` alone is not inductive: whether a deletion is safe depends on
which record is on disk, on what the code in memory knows, and on what the server
holds. `IInv` says all three:

1. *Shapes.* The files of a ready, uncommitted record are in one of three shapes:
   `Pristine` (original in place), `SetAside` (original at the backup name),
   `InPlace` (new bytes in place, original at the backup name). A committed record
   has the new bytes in place. An unready record has touched nothing but its stage.
2. *Lag.* The record on disk is the one in memory or an earlier version of it
   (`Lags`): a save may fail either way, and recovery from either version is sound.
3. *Program points.* `JournalPC`, `RecordPC`, `ServerPC` state what is known at
   each label, for instance that at `promote` the record on disk is the one in
   memory, that a move has its `MoveStarted` mark, and that the original is aside.
4. *Coverage.* Every hidden file belongs to the one record on disk.

The proof has one step per action. Steps that leave the server and the journal
alone share `StepInv`, `FailInv`, `ReturnInv`; the renames and the deletions each
have a lemma about the shapes (`MoveToBackupInv`, `MoveIntoPlaceInv`, `MovedBack`,
`BackupDropped`, `StageDropped`). TLC checks `IInv` itself in `replace_tx`.

### The refinement

`ReplacementIsAtomic` (`Spec => Atomic`): with a journal, `ReplaceTx` implements
`AtomicStore`. The refinement mapping shows the tree as the next request will find it:
a destination that is missing, and that recovery would restore, counts as its backup.
`IInv` says that the tree can be repaired, not which tree comes out, so `AtomicInv` adds:

1. whose record is in memory (`Own`): that of the running request, or one that an
   earlier request left behind, whose recovery must change nothing;
2. what the record was made from (`OwnTx`): the request's paths and the bytes that stood
   there when it arrived;
3. which of two trees is seen (`OldView`, `OwnView`): the old one, or the one with the
   effect, and at which labels it can only be one of them: a reply is truthful because
   it is given at such a label.

Each action is then a stutter or a step of `AtomicStore`: the rename into place at
`promote` and the `direct` calls are the one step that changes the tree, and every other
remote call, save or crash leaves what is seen as it was. The lemmas `ViewSingle`,
`ViewNow` and `ViewNext` compute the tree that is seen from the one record.
`CommitsAreFinal` (`Spec => CommitIsFinal`) follows from `IInv` alone.

### Beside other actors

`ReplaceTxExternalProofs` takes `ReplaceTxExternal`, where another client writes and
deletes between any two steps and renames are performed after the gateway gave up on
them. Most of `IInv` is false there: no label knows any more what the server holds. What
is left is `EInv`:

1. *The journal is the gateway's own* (`OneRecord`, `OwnProgress`): at most one record,
   that of the transaction in memory; a record on disk that says committed is the one in
   memory; a label before the commit has an uncommitted record, one before the promotion
   a record without `MoveStarted`.
2. *Late renames* (`LateInv`): a preserving rename that is still to come belongs to a
   transaction that went straight to recovery, so the server can only perform it
   after the readback if recovery counts the destination as verified.
3. *Backups that may go* (`BackupsSpared`): wherever the code has decided to delete a
   backup, its contents are owed to nobody, stand at a canonical path, or are in another
   backup. No other client can undo this: whoever overwrites bytes gives them up.

The first two hold always, the third together with `NoBytesLost` until the race:

- `BytesAreKept`: `NoBytesLostUnlessRaced`, for any number of files, contents and ids, any
  set of renames that may be late, anything the other client may write.
- `BytesAreKeptInTime`: if no preserving rename is late, `NoBytesLost` without exception.
  So the violation that `replace_late_preserve` shows needs that one rename.
- `JournalStaysReadable`: whatever others do, the journal keeps at most one record, which
  `validateUploadRecord` accepts, so later mutations are not refused.
- `CommitsStayFinal`: from the save of a committed record to its removal the gateway's
  steps change no canonical file.

All four hold with and without a journal. At most one rename is late at a time, which is
part of the model (`GivenUp`).

### The other components

All proofs are for every value of the constants that the module's named assumption allows.

| Module | Theorem: property | For every | Inductive invariant: what the property needs besides itself |
|---|---|---|---|
| `GatewayProofs` | `MutationsAreAlone`: `MutationsRunAlone`; `JournalHasOneOwner`: `OneOwner`; `DrainedStaysQuiet`: `DrainedIsQuiet`; `MutationsStartClean`: `MutationStartsClean` | set of processes, finite sets of readers and mutations, semaphore size | `Holders`, `Waiters`, `WithinWeight`: the semaphore holds exactly those past it, queues each waiter once and is never overdrawn; `Locks`: who serves owns lock and journal; `Counting`, `Draining`: `active` is the number inside, and nothing enters after it was zero; `Recovering`: recovered means clean |
| `FileRequestsProofs` | `BodiesAreWhole`: `WholeBodiesOnly`; `RepliesAreTrue`: `TruthfulReply`; `AcceptedBodiesStay`: `NothingLost`; `RangesAreServed`: `RangeServed`; `WritesAreConditional`: `ConditionalWrite`; `RetentionStaysWithinBudget`: `WithinBudget` | finite set of bodies, set of the other process' uploads and of their sizes, limit, budget | `Progress`, `Staged`: how much of the body the temporary file holds at each label; `Whereabouts`: what each step of the retention left for the next; `ConditionHolds`: the checked condition holds until the commit; `Sending`: the descriptor and what was sent agree; `Room`, on top of `IInv`: from the eviction to the description each process' whole upload is reserved beside the other files, within one budget or, where the two meet, within two |
| `SessionStoreProofs` | `OldLoginsStayReplaced`: `OldLoginStaysReplaced`; `NewestCookiesSaved`: `SavedOnExit`; `SavesAreConditional`: `ConditionalSave`; `ReportsAreTrue`: `ChangedByAnother` | sets of servers and login commands, numbers of logins and saves | `LockHeld`: check and write happen under the lock; `Issuance`, `LoginsAreNew`: a new login is new everywhere; `Expectations`: what a save compares with is its own identity or revision; `OwnRevision`, `JarOrder`, `OwnCookies`: what a process knows of the file it wrote last |
| `BrowseCacheProofs` | `TypeCorrect`: `TypeOK`; `CacheStaysCurrent`: `CacheIsCurrent`; `ReadsAreFresh`: `ReadIsFresh`; `SuccessesAreReal`: `SuccessIsReal` | finite set of directories, set of readers, cache size, number of changes | `Progress`: what the server still owes belongs to this mutation; the listing a poll looks at is between the one before the mutation and the server's; what Move's first wait saw stays true during its second; `FlightsAreLed`: a live flight has its reader, so none fetches during a mutation; `GenerationsPass`, `ListingsAreCurrent`, `NothingOldIsLeft`: what may still be stored is current, or of an earlier generation; `ReadersSeeTheirTime` |
| `FileCacheProofs` | `OpenedFilesAreThere`: `OpenFindsFile`; `DownloadsKeepTheirDirectory`: `FillKeepsDirectory`; `CancellationsAreOwn`: `OwnCancellation`; `NothingStaysBehind`: `LeavesNothing`; `WaitersHaveOwners` | finite sets of callers and files, room | `PinsCount`: a pin is the number of callers in a call; `FilesStay`: a file that was found or made stays while it is pinned; `Cancellations`; `Belongings`, `FlightsAreOwned`: temporary files and flights have owners that are still in their call |
| `CommandsProofs` | `LeftoversAreNamed`: `NothingLeftUnreported`; `SuccessIsEarned`: `SuccessIsProven` | size of the chunked file | `Rooted`: nothing without the scratch directory, late calls included; `NothingYet`: nothing before its mkdir; `Unaltered`: which bytes the readbacks, cat's output included, have vouched for; `Reported`: what the report says at each step |

Each also proves its `TypeCorrect` and that its `IInv` is an invariant (`InvariantHolds`).
In the larger modules every part of `IInv` has a lemma of its own, with one step per
action, which names the parts it needs, and the last lemma puts them together. Why the
properties are not inductive by themselves shows best in three places.
`MutationsRunAlone` needs that a release admits no more than fits, for a queue of any
length: `Woken` is a maximum, so the proof goes through its upper bound (`WokenFits`)
and the queue that is left over (`RemovedAt`).
`CacheIsCurrent` says nothing of flights, yet a flight that read before a mutation may
store after it: `GenerationsPass` and `NothingOldIsLeft` make its store a no-op.
`NothingLost` must survive other processes' pruning between any two steps of the
retention: `Whereabouts` speaks of the recovery copy only as long as the body is owed.
`WithinBudget` is about the files that are there, but a retention adds to them in three
steps after a single look: `Room` reserves the size of the whole upload until it is
described, however little of it is written, and does so for either process. A prune
leaves room for its own upload only, so the other's reserve comes on top of the budget;
together they stay within twice the budget, since each upload by itself fits it. The total
is the number of bytes (`TotalSize`, a cardinality), so that the laws it needs
(`FewerFiles`, `OneFileMore`) follow from those of finite sets.

`CommandsProofs` also proves the plan of chunks, for every size that `UploadFile` uploads
in chunks (1 MB to 2,000,000,000 bytes): `ChunksPartition`, each chunk begins where the
one before it ends, none is empty and the last one ends with the file; `FewChunks`, there
are at most 120. The argument is the same for the three chunk sizes (`ChunkSizes`):
rounding up (`RoundedUp`) leaves a last chunk between one byte and a whole one (`Below`).

`FileRequestsProofs` also proves, for every listing of `/` (a set of names, some of them
devices with any names of their own): `ListedNamesResolve` and `ListedNamesDiffer`, the
name under which a folder is listed leads back to it; `IdsResolve`, a path that was
translated is not changed by a second translation; `DevicesAreProtected`. They rest on
`AliasesAreInjective`: an alias is neither a node's name nor another device's alias.

## 5. Only model-checked

- *Liveness*: `Answered` (twice), `NeverWedged`, `Served`, `StopEnds`, `Returns`, `Ends`.
  Liveness under fairness is outside what the prover supports. `WaitersHaveOwners` and
  `Waiters` are the safety half of `Returns` and `Served`.
- *The four findings*, which are violations.

Every invariant and every action property of a passing run is the statement of a theorem.

`Journaled = FALSE`, the client as the probe uses it, is covered by `TypeCorrect`, by the
theorems of `ReplaceTxExternalProofs` and, as to what the probe leaves behind, by
`CommandsProofs`; no run explores it in `ReplaceTx`.

## 6. Assumptions about the environment

- *Renames.* EVS renames are atomic, refuse a missing source and an existing target, and
  are performed at most once per request. The client's own look at the target
  (`client.go:410-414`) and the rename (`client.go:421`) are therefore one step
  (`CanPreserve`, `CanPromote`, `CanRestore`): if another client's file came between
  them, the server would refuse. Only `ReplaceTxExternal` has such clients; a server
  that replaced the target would let a rename overwrite what they stored.
- *Listings.* Directory listings and downloads are current once a mutation has been
  performed. Copy and Move are performed after their answer, one directory after
  another, in any order.
- *Directories.* EVS performs nothing in a directory that does not exist, an upload
  included. A scratch name is never used twice (`allocateScratch`), so the removal of a
  stale one finds nothing. No two entries of `/` have the same name.
- *The local system.* Random ids never repeat. A rename of a local file is atomic and
  durable once its directory is synced. Operating system locks are released when a
  process ends.
- *Conditions.* Only this gateway writes the file of `FileRequests`: nothing in the code
  keeps another client from replacing it between the check of a condition and the commit.
- *Journal records* are regular files of at most 16 KiB, as the scan requires
  (`journal.go:110`). `saveUpload` writes regular files only and does not check their
  length, which only paths of thousands of characters exceed; every scan would refuse
  such a record, and with it every later mutation.

What is assumed of the server and the libraries is marked external in the map.

## 7. Plan

Done: the core (`ReplaceTx` with its proofs, the refinement, other clients and
late renames), `Gateway`, `SessionStore`, `BrowseCache`, `FileCache`, `FileRequests`,
`Commands` with `LoginWindow`, and the operator modules with their proofs.

Proved: every safety property of the passing runs, and the refinement of `AtomicStore`.

Left to TLC: liveness. Left out: what section 8 lists.

## 8. Not modelled

`dirFile` and `fileInfo` (one goroutine that slices a list and formats metadata), flag
parsing, basic authentication and password files, the Windows mount of the smoke test
and the rclone processes it starts, the page's script, nonces and the validation of
authentication URLs, the rclone patch, packaging and CI: they keep no state that
outlives a call, or are not part of the gateway. The encoding of requests to EVS and
the parsing of its replies (`client.go`) appear only as calls that succeed or fail.
A killed `probe` or `smoke` leaves its scratch directory; the model has no such step.
`internal/testevs` is a test double of the service. The contents of directories:
paths in `ReplaceTx` are siblings, so recursive deletion and moves of whole trees
are single steps on one path. Of the recovery directory one more case is left out: a
process whose upload is evicted while it writes it still adds the description
(`maintenance.go:198`), a small JSON file without an upload that no property counts and
that later prunes remove. Writability and device-root checks
(`requireWritable`, `protectDeviceRoot`) appear only as refusals. Durability across
a power failure on filesystems without directory sync (Windows) is not covered.
