# A TLA+ verification project for jev-preflight

jev-preflight is a pair of Claude Code hooks. `UserPromptSubmit` takes a private
Git snapshot as the baseline of a turn; `Stop` diffs the working tree against it,
selects and redacts the diff, asks one API at most once, and may ask Claude for
one reinspection. Every hook is a process of its own: all they share is a
directory tree. Most of what can go wrong is in that tree — who holds which
lock, what a killed process leaves, what a sweep removes — and little of it is
within reach of a unit test.

The modules below model the system from its source; TLC checks them on small
instances, and TLAPS proves the theorems for every value of the constants. Every
safety property that a run checks is also a theorem, and so are the two
refinements; termination is only checked.

## 1. Inventory

| Component | Source | State | Operations | Correct when |
| --- | --- | --- | --- | --- |
| Hook runner | `internal/hook/runner.go` | the locals of a process | `Run`: open, lock, load, snapshot, diff, record, call, reply, deferred cleanup and unlock | at most one request per Stop and one continuation per prompt, whatever is delivered twice, overlaps or dies; the record precedes what it covers; every hook ends |
| Session storage | `internal/session/session.go` | prompt directories (marker, snapshot, `state.json`) | `Open`, `Load`, `Save`, `Cleanup`, `CleanupExpired` | only the lock's holder changes a record; content outlives a turn only with its record; what a crash leaves can be swept and never replayed |
| Directory lock | `session.go` 182-226 | a directory name, file identities | `acquireDirectoryLock`, `releaseDirectoryLock` | exclusive; an unlock never takes a successor's lock |
| Notice ledger | `session.go` 245-286, `runner.go` 176-191 | the session's ledger file and lock | `Notice`, `failure` | a class is shown once per session; the ledger keeps its limit |
| Tree diff | `internal/gitstate/gitstate.go` 192-302 | none | `Diff`, `parseNames`, `parseNumstat`, `splitPatches` | each change gets its own patch, or the diff is refused |
| Selection | `internal/diff/diff.go` | none | `Prepare`, `Included`, `Match` | nothing excluded leaves; everything eligible does, in one order |
| Git snapshots | `gitstate.go` 72-190 | the private index and objects | `Snapshot`, `expandIndex` | the real repository is untouched; a tree is the work tree and can be read later; an interrupted snapshot is taken up again without harm |
| API client | `internal/jev/client.go` | none | `Evaluate` | one request; no risk is named from an incomplete answer |
| Risk policy | `internal/policy/policy.go` | none | `Load`, `Select`, `Feedback` | the three worst axes, ties in a fixed order |
| Configuration | `internal/config/config.go` | none | `Load`, `APIKey` | settings apply as written or are refused |
| Protocol | `internal/hook/protocol.go` | none | `Decode`, `HasBackgroundWork`, `Write` | malformed input starts no run |
| Redaction | `internal/redact/redact.go` | none | `Text` | best effort on text |
| Smoke summary | `scripts/hook-smoke-summary` | counters and two maps | `consume`, `hook`, `run` | PASS only on evidence |
| Packaging | `scripts/package` | files in `dist/` | `buildArchive`, `unpackAndVerify`, `atomicWrite` | archive, checksum and unpacked copy agree; a release is what a run has printed |
| Launcher, manifests, fixtures | `scripts/run`, `hooks/`, `internal/testrepo`, `.github` | none | — | — |

How they interact: the host starts a process per event and reads its output;
a process opens the storage (in plugin-data storage it first sweeps the
directories of *all* prompts), tries the prompt's lock, and does everything else
under it. The deferred calls run in reverse order: cleanup, then unlock; the
output is written by `main` after both. Notices take a second lock, the
session's. Git runs as a child process, the API is one HTTPS request.

What is hard: two hooks of one prompt at once; a process killed between any two
system calls; a submission delivered twice or late; a sweep that looks before it
locks; a lock that outlives its maker; storage calls that fail one by one; three
Git outputs joined by position; a stream whose events interleave; a private index
that a killed Git command leaves behind, beside a repository whose user goes on
working; a release that is replaced file by file.
`PROJECT.json` lists these hazards at their lines.

## 2. Modules

| Module | Stands for | Its state |
| --- | --- | --- |
| `TurnGuard` | what the plugin promises about one prompt: the abstract write-ahead guard | phase of the record, requests, continuations owed and granted |
| `PromptStore` | `session.go` without `Notice`: the shared directories, sweep, open, lock, cleanup | `dir`, `lock`, `lockAge`, and `pc`, `loc` per hook |
| `HookRunner` | `Runner.Run` on top of it, the host, crashes and time | the above and four history variables |
| `PromptLock` | the lock that `PromptStore` assumes (`Take`, `Release`) | owner, status of each attempt |
| `DirLock` | the same lock as system calls on names with recycled file identities | the directory at the name, those moved aside, captured identities |
| `NoticeLedger` | `Notice` and `failure` | ledger, lock, and a view per hook |
| `TurnDiff` | `Repo.Diff` and `diff.Prepare` | the turn, Git's outputs as parsed so far, the result |
| `Evaluation` | `config.Load`, `Client.Evaluate`, `policy.Select` and `Run` around them, extending `NoticeLedger` by the Stop that reports a failure | the Stop: document, settings, answer, verdict |
| `GitSnapshot` | `Repo.Snapshot` with `expandIndex` and `filterOverrides`; the user's Git beside it | work tree, repository, private directory, the trees returned |
| `Packaging` | `scripts/package` | the maintainer's files and pin, the files in `dist`, the run |
| `SmokeSummary` | the smoke summary as a monitor of a stream | the counters and maps of `summary`, and what the stream really showed |

`HookRunner` extends `PromptStore` and implements `TurnGuard` through a refinement
mapping, for submissions that come once and storage that does not fail; `DirLock`
implements `PromptLock`. Both are checked *and proved*. `…MC` modules hold model values, symmetry sets and data for TLC;
`…Proofs` modules hold theorems.

### Correspondence with the code

*One step of a hook is one system call, or the calls that only the lock's holder
makes on its prompt directory.* `pc[h]` names the next one. In the order of the
code: `readdir`, `sweep`, `seize` (`CleanupExpired`); `mkdir`, `marker`,
`inspect`, `create`, `encode`, `validate`, `snapdir` (the rest of `Open`);
`lock`; `load`, `snapshot`, then `save` for a submission or `decide`, `send`,
`reply` for a Stop; `close`, `rm` (`Cleanup`, where `RemoveAll` unlinks the
entries it listed one by one in any order); `unlock`; `emit` (`Output.Write`).
`createOwnership` is two steps because another process can see the empty file.
`Save` is one step: a temporary file is renamed over the record. `keep` is the
choice between `Keep` and `Drop`; `loc[h].mem` is the `State` in memory.

`Prompts` are the hashed directory names; `Trees` are contents of the selected
work tree, so a tree is also the hash of its diff against the baseline. The
record is `[base, count, last]`; identities and paths in it never change.
`dir[p].age` is the youngest of the three dates that the sweep reads, `lockAge`
that of the lock. Time passes in ticks of a day, capped at `TTL`.

A prompt's snapshot is `none`, `empty` (as `Open` makes it) or `private`.
`Snapshot` in `HookRunner` either fails or yields some tree; it makes its
directory again when that has gone (`gitstate.go:77`).

In `DirLock` a lock directory has an identity from `Inodes`, which is free for
reuse when the directory is removed, as inode numbers are. `maker` is a ghost:
the attempt that made the directory now at the name. `Displace` is another
program renaming the lock away; it does not happen between `Mkdir` and `Stat` or
between the comparison and the `Rename`, because nothing in the code covers
those windows.

`TurnDiff` takes the differences between the two trees in any order Git may list
them, prints them as Git does (external: `NameStatus`, `Numstat`, `Sections`) and
runs the readers on the parts: `parseNames` and `parseNumstat` are loops over the
parts, one step of `ReadName` or `ReadLines` for each, whose `Reader` says where
the next entry begins. Paths are sequences of components; a glob
compares whole components. Names with one meaning to `Included` (lock files,
generated files, documents by extension) are one set. Git lists whole entries
and clean paths, so the refusals of empty status words and escaping paths have
no counterpart. Bodies are plain, secret or binary; redaction shrinks a secret
one, and can make two file names one.

`SmokeSummary` handles one block of a message per step. The ghosts `answer`,
`earlier` and `misplaced` keep what each hook answered, which hooks had answered
when it started, and which uses and Stops came too early; the verdict does not
read them.

In `GitSnapshot` an entry is its content and an index a function from files to
entries; a shared index is named by its hash, so its content is its name. A step is
one Git command (`read-tree`, `update-index`, the two of `filterOverrides`, `add`,
`write-tree`) or one group of file operations (`CopyIndex`, `CopyShared`). What Git
does in a command is external and modelled as far as a snapshot depends on it:
`git add` reads again what does not look up to date (`private.stale` are the
files that look so and are not), stores what no store in sight has, and leaves an
`index.lock` when it is killed. `Interrupted` is what each step may have done when
it fails or dies (one flag, `Faulty`, allows both). `touched` is a ghost: the real
objects and shared indexes that a command has given a new time, by what each command
has in sight: the alternate (`Alternate`), and the shared indexes of the Git directory
it runs in (`OwnGitDir`). A split index in front of `git add` would be one of them. `known` and `hook.due` are ghosts that say what a tree ought to
hold: files that were tracked when the index was taken over, or are not ignored,
as they are at `git add`. `excused` are files of which the code cannot get that
right: entries that Git was not sure of in the copied index (see `git_racy_copy`),
and all files after a truncated copy, a failed `rev-parse`, or a filter driver
configured between `filterOverrides` and `add`.

In `Packaging` an archive is its entries, and so is its digest, because
`buildArchive` writes them with fixed dates in a fixed order; a file that one of
the checks would refuse is `Bad`. Reading, writing the temporary archive, digesting
it, comparing and replacing are steps of their own. `stray` says that a file which
`validateExisting` refuses lies among the unpacked ones: the maintainer's, or the
temporary file of `atomicWrite`, which a kill leaves there and so does an error when
the deferred `os.Remove` fails too. Two ghosts: `cut` says that the run that replaced
the archive last has not finished, `printed` are the digests that finished runs have
printed; the maintainer pins one of those, or none, and never a guess.

In `Evaluation` a configuration is a sequence of members, whose names may repeat or
differ in case, since `Load` decodes it twice and the two decodings resolve
repetitions differently; a missing file and one that cannot be used (unreadable, too
long, more than one JSON document, no object) are cases of their own. Probabilities are thousandths; a question is the rank of
its ID. A session is one such Stop and then any failing hooks of `NoticeLedger`.

### Abstractions

Left out because no property is about them: permissions and symbolic links of
storage paths, JSON decoding of records (an invalid record or marker is one case, failing),
temporary files of atomic writes, diagnostics on stderr, the wording of
messages. Failures of `validateBase` and of `Snapshot` are choices. `Crash`
replaces the killed process by a fresh one, so a finite set of hooks stands for
any number of them in sequence.

## 3. Runs

| Run | Configuration | Shows |
| --- | --- | --- |
| `hook_overlap` | 3 hooks, 1 prompt, 3 trees, scratchpad storage, overlap, crashes, failing storage, submission delivered once | `TypeOK`, `OneContinuation` |
| `hook_quiet` | 2 hooks, 2 prompts, repeated submissions, no overlap, no crashes | `OnlyPendingContent`: nothing is left behind by regular turns; `OpenSucceeds`, `BaselineFixed` |
| `hook_fallback` | 2 hooks, 1 prompt, swept storage, time, overlap, crashes, failing storage, repeated submissions | `LockHeld`, `RecordedBeforeSend`, `TombstoneFinal` |
| `hook_live` | 2 hooks, swept storage, time, overlap, crashes, submission delivered once, fair | `HookTerminates`, `ImplementsTurnGuard` |
| `lock` | 5 attempts, 3 identities, displaced locks, crashes, faults | `IInv`, `Exclusive`, `FreeAtRest`, `SparesSuccessor`, `ImplementsPromptLock` |
| `evaluation` | no file, an unusable one, documents of up to 3 members; 4 questions, 4 scores, any answer; then 3 hooks, 4 classes, a ledger of 2, crashes, faults | `AppliedAsWritten`, `WorstFirst`, `ShownOnce`, `LedgerBounded`, `IInv`, `LedgerKept` |
| `turn_diff` | 5 paths (see below), up to 3 differences in every order | `TypeOK`, `SentIsTheTurn`, `NothingPrivateLeaves`, `SkippedForCause` |
| `smoke` | 3 hook identities of 2 names, 2 tool identities, up to 2 init events with up to 2 plugin entries; both values of `--with-key` | `TypeOK`, `PassIsEvidence` |
| `git_snapshot` | 2 files, one of which may be ignored, 2 contents, a filter driver with a process command, 2 trees, 2 steps of the user, any failed and killed attempts | `TypeOK`, `RealUntouched`, `TreeIsWorkTree`, `UnchangedStaysOut`, `TreeReadable` |
| `packaging` | 2 sources, 1 binary, 2 contents, 3 runs, 4 edits, failures, kills | `TypeOK`, `ReleaseAgrees`, `OnlyPrintedReleased` |

Two more runs expect a violation: they state what the documentation says, and
the counterexample is what the code does.

| Run | The documentation | The code |
| --- | --- | --- |
| `hook_abandoned` | what a crash leaves stays until the next TTL cleanup (`README.md`) | killed inside `RemoveAll` after the marker went, a hook leaves content that the sweep does not recognise |
| `git_racy_copy` | the baseline includes pre-existing changes (`docs/architecture.md`) | the copy of the index is newer than the index, so an edit within the second of a `git add`, of the same size, is taken for what was staged |

Two narrower disagreements have no run. A tracked file that becomes a link is one
entry of the listings and two patches, so `Repo.Diff` refuses the turn and it is
skipped, although `docs/architecture.md` says that tracked changes are handled;
`TurnDiff` has such turns (status `T`), and `SkippedForCause` counts the change of
type among the causes. And the sweep dates a directory
before it takes the lock and not again (`session.go:320-328`), so a directory used
in between is removed although it is fresh; in `hook_fallback` the hook that comes
later then finds nothing and stays silent.

Three promises hold under a condition that the runs and theorems name:

* *At most one continuation per prompt* is checked for one delivery of a
  submission (`Resubmit` = FALSE in `hook_overlap` and `hook_live`). A submission that the host
  delivers again **after** the prompt's final Stop finds no record and arms the
  prompt anew (`runner.go:77-104`, `runner.go:129-138`), with a new count.
* *A baseline never moves forward* (`BaselineFixed`): a submission that comes again
  while the record is there keeps it, unless a removal fails half-way. With
  `Faulty`, `Resubmit` and three overlapping hooks TLC finds the exception, in 43
  steps: a cleanup unlinks the marker and fails on `state.json`, so the lock is
  released with the record in place; the second delivery loads `ErrNotExist`
  (`session.go:157`), takes its snapshot, and while it does a hook that had found
  the directory empty before the first baseline (`session.go:112`) creates the marker
  anew; the second delivery's `Save` then finds a valid directory and overwrites the
  old record. Either condition alone excludes it, which is the hypothesis of
  `BaselineKept`.
* *The same hash is not evaluated again within the prompt*: the record keeps the
  last hash only (`session.go:354`). While cleanups succeed, a Stop that asks
  either continues, which closes the record to further evaluations, or removes
  it; with `Faulty` a prompt whose cleanup failed may be asked about again, so
  `ImplementsTurnGuard` (one request) is checked without `Faulty`, and
  `OneContinuation` with it.

### Bounds, and why they suffice

Hooks exit and are reused, so their number bounds concurrency, not the length of
a history; two are enough for every pair of steps to interleave, three for a
submission behind two Stops. One prompt suffices where prompts meet only in the
sweep, which with `Fallback` runs over the hook's own prompt as well;
`hook_quiet` has two. Two trees give a baseline and a
changed diff; `hook_overlap` has a third, for without it a second evaluation
would meet the recorded hash and stop there whatever the count said. `TTL` is 2 ticks: a tick is a day, so
two are certainly more than the 24 hours and one is not certainly so. No hook
lives through two ticks, because the host ends it after 90 seconds. `Cap` = 2 on
`asked` and `granted` distinguishes none, one, and too many. Locks: five attempts
on three identities, so identities are reused several times.
`MaxClasses` = 2 with four classes reaches the limit. Four questions are one more
than a feedback names, with scores below, at and above each threshold and one out
of range; three members are two of one name and one of another. `MaxChanges` = 3 puts an
entry before and behind a rename; `MaxBytes` = 4 is between one change and
three. Its paths meet every rule of `Included` and no two of them at once: one that a
pattern excludes, a document, an ordinary file, a document kept as a build input
(which redaction gives the label of the ordinary one), one below an excluded
directory. `MaxInits` = 2, `MaxEntries` = 2 and `MaxFailures` = 1 are one more than
what a pass allows. With three hook identities a pass with a key has room for the
submission, the feedback and its follow-up only; one more Stop, pending or second,
takes a fourth and is covered by the theorem alone. Two trees are the baseline and the end of a
turn; two steps of the user suffice for a file to be staged and edited, or an index
split and its shared index expired, while failed attempts are not bounded at all.
Three runs of the packager are one before and one after an interrupted one; with
four edits two files change, a digest is pinned and a stray file comes or goes. Symmetry is used for hooks,
trees, attempts, identities, contents and sources, which no definition singles out, and
never in the run with a liveness property. `hook_fallback` compares states without
`armed` and `granted` (its `VIEW`): no action reads them and no property of that run
mentions them, so states that differ in them alone have the same futures.

### Fairness

`HookTerminates` assumes weak fairness of each started process's next step
(`Fairness`). The code justifies it: the operating system schedules a process,
no step waits for another process (`Lock` does not wait; a taken lock is an exit),
and the waits inside a step have a timeout (`run` of Git under the context of 80
seconds, the request under its own, `WaitDelay` of a killed child). Crashes and
the environment's actions are not fair: nothing must ever be submitted or die.

## 4. Proofs

All theorems hold for every value of the constants that the named assumptions
allow. TLC evaluates the assumptions in the runs, and each is what the code or the
host gives:

* `TypeAssumption`, `HostAssumption` (hooks): the flags are Booleans, the model
  values differ, `TTL` is at least two ticks, a sweep reads at least one entry. Sets
  of hooks, prompts and trees are arbitrary.
* `DirLockAssumption`, `NoticeAssumption`, `SnapshotAssumption`,
  `PackagingAssumption`, `SummaryAssumption`: flags, counters and distinct model
  values.
* `EvaluationAssumption`: finitely many questions, scores are integers, the classes
  include those that the Stop reports.
* `DiffAssumption`: paths and patterns have at least one component (Git prints no
  empty path, and `validPattern` in `config.go` refuses an empty pattern), every path
  has a label, the limits are natural numbers.

**`HookRunnerProofs`** — any number of hooks, prompts, trees and sweeps.

* `TypeCorrect`. `TypeOK` alone is not inductive, because a hook at `decide` or
  `save` needs a tree and at `reply` a record; `Inv` adds that to the types of the
  locals (`Sound`). Lemmas about the ways in which steps move a hook (`Goes`,
  `Moves`, `Exits`, …) carry the cases of `Open`, of cleanup and of the run.
* `LockDiscipline` (`LockHeld`). `LockInv` says where a sweeping hook can be, and
  that a lock with a hook's name is the one lock it holds and has seen at most one
  tick: that is what makes an *expired* lock a dead one, and therefore needs
  `TTL >= 2` and the bound on a hook's life in `Tick`. Steps are of five kinds
  (`Outside`, `Inside`, `Taking`, `Passing`, `Giving`); each action is proved to be
  of a kind, and the invariant is preserved kind by kind.
* `AbandonedForGood` (`TombstoneFinal`) and `RecordBeforeRequest`
  (`RecordedBeforeSend`): with any failure, crash and repeated delivery. What a step
  may do to the directories is one of three effects (`Harmless`, `Writes`,
  `Unlinks`), the last two only on the prompt whose lock the hook holds; so a prompt
  whose lock is dead changes no more, and a hook's memory of the record stays true
  from its load to its reply (`Agrees`).
* `NothingLeft` (`OnlyPendingContent`) and `NextOpens` (`OpenSucceeds`), for
  scratchpad storage without overlap, crashes or failures. `Order` says which
  directory a hook at each label has before it (`Fits`), and that one nobody attends
  to is bare or pending.

**`HookGuardProofs`** — what a turn comes to.

* `BaselineKept` (`BaselineFixed`), if removals do not fail or submissions come once.
  Without failures (`Clean`) a record without a marker is in a removal that is going
  on; with single deliveries (`Once`) no submission is left once a baseline is there.
* `ContinuedOnce` (`OneContinuation`), for single deliveries and whatever fails or
  dies. `Budget` relates three things: what was granted, what some hook still owes
  its output, and the count on disk, which is raised before either.
* `GuardImplemented` (`ImplementsTurnGuard`), for single deliveries and storage that
  does not fail: each step saves, decides, sends, reserves or emits as `TurnGuard`
  allows, or changes nothing of the guard. `Asks` says that a record naming a diff
  and no continuation is in the hands of the hook that wrote it or out of reach
  for ever, so no second request follows it.
* `OneGrant`: whatever follows `TurnGuard` grants at most one continuation, and only
  after asking; and hence, through the refinement, `AskedBeforeContinued` of the
  processes.

**`DirLockProofs`** — `LockInvariant` (the inductive `IInv`), and from it
`MutualExclusion`, `UnlockSparesSuccessor`, `NameFreed` (`FreeAtRest`) and the
`Refinement` of `PromptLock`, all of them with displacement, crashes and failing
calls. The invariant keeps a captured identity out of circulation until its directory
is removed, which is why recycled identities do no harm. `NameFreed` adds that whoever
made the directory at the name is not through with it (`Kept`).

**`GitSnapshotProofs`** — `TreesWellFormed`, `SnapshotsFaithful`,
`SnapshotsComparable`, `SnapshotsReadable` and `SnapshotsOnlyRead`, for any number of
files, attempts, trees and steps of the user. The invariant has four parts beside the
types. `Stages`: the index is there and whole when a step relies on it, and it is
taken over before the first tree only. `Objects`: no index, shared index, HEAD or tree
names a blob that is in neither store. `Exact`: no file but an excused one is stale,
unknown to the index, or converted. `Steady`: a file that has not changed since the
first tree is due in every tree alike, because an ignored file stays out and a known
one in. Each part is preserved on its own, given the ones before it. `RealUntouched`
rests on `Stages`: only a step before the expansion can meet a split index, and the one
command among them that reads it, `update-index`, runs in a Git directory that holds
no real file (`NothingRefreshed`).

**`TurnDiffProofs`** — `ListsHoldPaths`, `WholeTurnIsSent` (`SentIsTheTurn`),
`PrivateStays` (`NothingPrivateLeaves`) and `SkipsHaveCauses` (`SkippedForCause`), for
any paths, patterns, limits and number of differences in any order. The argument
follows the data. An output is its entries joined, and each has its place in it
(`Places`). A loop of `parseNames` or `parseNumstat` goes through the values that its
definition gives it and no others (`SameLoop`), so it ends with one entry for each
difference (`NamesAreRead`, `LinesAreRead`). Sections and changes are in step exactly
if no difference is a change of type (`PatchesInStep`), and then each change gets its
own patch (`PatchesAreDealt`). There is one order of the changes by path, in which a
change stands at the number of paths up to its own (`ByPathOrders`). The recursive
`Match` says what `Covered` says, and what `Included` keeps is what is not `Private`
(`MatchIsCovered`, `IncludedUnlessPrivate`). So `Prepare` yields what the turn is or the
reason why not (`PrepareIsFaithful`). `TurnInvariant` says which of these facts
hold after each command.

**`EvaluationProofs`**

* `NoticeInvariant`, and from it `NoticesShownOnce`, `LedgerStaysBounded`,
  `LedgerNeverForgets`: what a hook has read is still the ledger when it writes.
* `ConfiguredAsWritten` (`AppliedAsWritten`): after each member the settings are what
  the members so far mean (`Meant`), by induction over the document, for the two
  decodings in turn.
* `WorstRisksFirst` (`WorstFirst`): among finitely many questions each has a rank,
  ranks are a bijection, and `Sorted` lists the questions by rank; the first three that
  reach the threshold are therefore the three worst.
* `SessionKeepsLedger`: a session that begins with an evaluation is one of hooks
  that report failures, so what is proved of notices holds of it.

**`SmokeSummaryProofs`** — `TypeCorrect` and `PassMeansEvidence` (`PassIsEvidence`),
for streams of any length and any number of identities. `Counted` ties each counter
to the size of a set of hooks, `Matched` the map of hooks to what was answered,
`Traced` a follow-up to the feedback that was there when it started, `Tidy` the count of
failures to what really went wrong. The verdict's equations between counters are then
equations between sets.

**`PackagingProofs`** — `PackagingTypes`, `ReleaseConsistent` and `PrintedReplacement`
(`OnlyPrintedReleased`). What makes `ReleaseAgrees` inductive is that a run past its
replacement has the entries of the archive in hand, and has set `cut`. For
`OnlyPrintedReleased` it is that a pin is a printed digest from the moment it is read
(`PinInv`), and that the digest is that of the temporary archive which takes the place.

*Induction over data.* Readers, folds over members and globs are recursive functions,
not `RECURSIVE` operators, so that the provers can reason about them. An induction
principle that takes a predicate cannot be instantiated; `SetInduction` states it for a
set of numbers, from the well-foundedness of `<`, and `Chain` obtains from it that a
value which each of n steps carries on exists after all of them. Any function with
the equations of the recursion is then equal to it step by step.

*Only model-checked*: `HookTerminates`, because liveness under fairness and `ENABLED`
are outside the prover's reach; and that the models reach their interesting cases, which
no safety theorem says.

## 5. Not modelled

* `policy.Load`: the document is embedded in the program and the same at every run.
  The wording of `Feedback` and of notices; `APIKey`, which reads two variables.
* The wire format of the request and its answer, and `Decode`'s validation of the
  hook input: a malformed one is one refusal, and starts nothing.
* The regular expressions of `redact`, character-level globs and exclude patterns,
  UTF-8 repair: text processing without state.
* `limitedOutput.Write` byte by byte: an output is whole or discarded.
* `Repo.Open`, which only reads; the SHA-256 setting of the private Git directory.
* In `Packaging`: the formats of binaries and versions, file modes and dates; changes
  of the unpacked entries by anyone but the packager; what failing runs leave in
  `dist` beside the unpacked files, which is in nobody's way. That a stray file blocks
  every later run, and only after the archive has been replaced (`main.go:179-183`,
  `474`), is in the model and forbidden by no property.
* In `GitSnapshot`: index entries marked assume-unchanged or skip-worktree, which the
  copy keeps and `git add` honours, so that the theorems are about repositories
  without them; and the leavings of a `RemoveAll` that fails *after* `update-index` has
  succeeded (after a failure, or a kill, they are in the model).
* A rate at which sweeps get to a directory: they read 512 entries in directory
  order, and no document bounds the wait.
* The launcher, fixtures and workflows, which hold no state of the program.

## 6. Plan

Written so far, in this order: `TurnGuard`, `PromptStore` and `HookRunner`, their
type and lock proofs, `DirLock` with its refinement, `NoticeLedger`, `TurnDiff`,
`SmokeSummary`, `GitSnapshot` and `Packaging` with their proofs, `Evaluation`; then
the records, turns and refinement of `HookRunner`, and the proofs of `SmokeSummary`,
`Evaluation` and `TurnDiff`.

What could come next:

1. `HookRunner` over the lock of `DirLock` itself. Today they meet in `PromptLock`:
   `DirLock` implements it, and `Take`, `Release` and `Strand` of `PromptStore` are its
   steps without `Evict`, that is, while no other program moves the lock directories.
2. Two hooks in one private directory: `GitSnapshot` has one process at a time,
   which is what the lock of `HookRunner` gives it, except for a child process
   that outlives the hook that was killed.
3. `Feedback` and its limit; `Decode` against the fields the host sends.
