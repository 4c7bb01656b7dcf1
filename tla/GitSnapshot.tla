------------------------------ MODULE GitSnapshot ------------------------------
(***************************************************************************)
(* Repo.Snapshot (gitstate.go): the work tree as a tree of a private index *)
(* and object store, beside a repository that its user goes on editing,    *)
(* staging and splitting.  Any step may fail or be the last of its         *)
(* process; the next snapshot of the same private directory takes up what  *)
(* it finds there.  What Git does with its index and objects is external.  *)
(***************************************************************************)
EXTENDS Sequences, Naturals

CONSTANTS Files,         \* paths of the work tree
          Blobs,         \* contents
          Ignorable,     \* the files that an ignore rule may cover
          FilterKeys,    \* clean, process, required: keys of one filter driver
          None,          \* no file, no entry, no index, no shared index
          Shared,        \* an entry that is in the shared index
          Filtered,      \* what the filter driver makes of any blob
          Faulty,        \* TRUE: calls and commands may fail, processes be killed
          MaxSnapshots,  \* trees taken in one private directory
          MaxUser        \* steps of the user

ASSUME SnapshotAssumption ==
    /\ Ignorable \subseteq Files
    /\ FilterKeys \subseteq {"clean", "process", "required"}
    /\ {None, Shared, Filtered} \cap Blobs = {}
    /\ None # Shared /\ None # Filtered /\ Shared # Filtered
    /\ None \notin [Files -> Blobs \cup {None, Shared, Filtered}]
    /\ Faulty \in BOOLEAN

VARIABLES work,      \* the content of each file
          ignored,   \* the files that an ignore rule covers
          repo,      \* the user's repository: index, shared indexes, objects, ...
          private,   \* the private directory
          hook,      \* where the process is, and its filter overrides
          trees,     \* the trees returned, with the one that was due
          users,     \* steps the user has taken
          known,     \* ghost: files in the real index when it was taken over
          excused,   \* ghost: files the snapshots need not get right (see below)
          changed,   \* ghost: files edited, ignored or unignored since the first tree
          touched    \* ghost: real objects and shared indexes given a new time

vars == <<work, ignored, repo, private, hook, trees, users, known, excused, changed, touched>>
ghosts == <<known, excused, changed>>

NoEntries == [f \in Files |-> None]
Contents(index) == {index[f] : f \in Files} \ {None, Shared}

\* An index, expanded by the shared index it names.  A shared index is named by
\* the hash of its content, so here it is that content.
Expand(own, base) == [f \in Files |-> IF own[f] = Shared THEN base[f] ELSE own[f]]
RealEntries == IF repo.index = None THEN repo.head ELSE Expand(repo.index, repo.base)
AllShared == [f \in Files |-> Shared]

EmptyDirectory ==
    [index |-> None, base |-> None, torn |-> FALSE, stale |-> {},
     lock |-> FALSE, git |-> {}, objects |-> {}]

Idle == [pc |-> "idle", overrides |-> FALSE, due |-> NoEntries]

\* A repository with an index, split or not, or with none but a HEAD, born or
\* not; what is in it need not be what is in the work tree.  No entry is marked
\* assume-unchanged or skip-worktree.
Init ==
    /\ work \in [Files -> Blobs]
    /\ ignored \in SUBSET Ignorable
    /\ \E entries \in [Files -> Blobs \cup {None}], how \in {"absent", "plain", "split"} :
         repo = [index |-> CASE how = "absent" -> None
                             [] how = "plain" -> entries
                             [] how = "split" -> AllShared,
                 base |-> IF how = "split" THEN entries ELSE None,
                 shared |-> IF how = "split" THEN {entries} ELSE {},
                 head |-> IF how = "absent" THEN entries ELSE NoEntries,
                 objects |-> Contents(entries), racy |-> {}, filter |-> {}]
    /\ private = EmptyDirectory
    /\ hook = Idle
    /\ trees = <<>> /\ users = 0
    /\ known = {} /\ excused = {} /\ changed = {} /\ touched = {}

----------------------------------------------------------------------------
(* The user and Git, as far as a snapshot depends on them.                 *)

User ==
    /\ users < MaxUser
    /\ users' = users + 1
    /\ UNCHANGED <<hook, trees, known, touched>>

Changed(f) == changed' = IF trees # <<>> \/ hook.pc = "write" THEN changed \cup {f} ELSE {}

\* A file is written or removed.  Its entry no longer looks up to date.
Edit(f, b) ==
    /\ User
    /\ work' = [work EXCEPT ![f] = b]
    /\ repo' = [repo EXCEPT !.racy = @ \ {f}]
    /\ private' = [private EXCEPT !.stale = @ \ {f}]
    /\ Changed(f)
    /\ UNCHANGED <<ignored, excused>>

\* git add writes the index anew: entries it cannot be sure of are marked.
Staged(f) == [repo EXCEPT
    !.index = [IF @ = None THEN NoEntries ELSE @ EXCEPT ![f] = work[f]],
    !.objects = @ \cup ({work[f]} \ {None}),
    !.racy = {}]

Stage(f) ==
    /\ User
    /\ repo' = Staged(f)
    /\ UNCHANGED <<work, ignored, private, excused, changed>>

\* The file is edited within the second of the git add, with the same size: only
\* the time of the index file tells that its entry may be out of date.
StageThenEdit(f, b) ==
    /\ User
    /\ work[f] # None /\ b # work[f]
    /\ repo' = [Staged(f) EXCEPT !.racy = {f}]
    /\ work' = [work EXCEPT ![f] = b]
    /\ private' = [private EXCEPT !.stale = @ \ {f}]
    /\ Changed(f)
    /\ UNCHANGED <<ignored, excused>>

Ignore(f) ==
    /\ User
    /\ ignored' = IF f \in ignored THEN ignored \ {f} ELSE ignored \cup {f}
    /\ Changed(f)
    /\ UNCHANGED <<work, repo, private, excused>>

\* git update-index --split-index; the shared index before it may expire.
Split ==
    /\ User
    /\ repo.index # None /\ repo.index # AllShared
    /\ \E expired \in SUBSET repo.shared :
         repo' = [repo EXCEPT !.index = AllShared, !.base = RealEntries, !.racy = {},
                              !.shared = (@ \ expired) \cup {RealEntries}]
    /\ UNCHANGED <<work, ignored, private, excused, changed>>

\* A filter driver gets another key, or its last: after the hook has looked,
\* nothing keeps Git from running it.
Configure(keys) ==
    /\ User
    /\ repo' = [repo EXCEPT !.filter = keys]
    /\ excused' = IF hook.pc = "add" THEN Files ELSE excused
    /\ UNCHANGED <<work, ignored, private, changed>>

UserStep ==
    \/ \E f \in Files : Stage(f) \/ \E b \in Blobs \cup {None} : Edit(f, b)
    \/ \E f \in Files, b \in Blobs : StageThenEdit(f, b)
    \/ \E f \in Ignorable : Ignore(f)
    \/ Split
    \/ \E keys \in SUBSET FilterKeys : Configure(keys)

----------------------------------------------------------------------------
(* Repo.Snapshot, one command or group of file operations per step.        *)

Goto(label) == hook' = [hook EXCEPT !.pc = label]
UserKeeps == UNCHANGED <<work, ignored, repo, users>>

\* Variant: the object store is emptied first.
PreparedClean == [private EXCEPT !.objects = {}]

\* MkdirAll of the directory and its object store leaves what there is.
Prepared == private

\* Variant: the real index is taken each time.
MustTakeAlways == TRUE

MustTake == private.index = None

\* Variant: only an index that has just been taken is expanded.
FirstStepFresh == IF MustTake THEN "index" ELSE "filters"

\* "Repeat conversion safely after an interrupted earlier snapshot too."
FirstStep == IF MustTake THEN "index" ELSE "prepare"

Start ==
    /\ hook.pc = "idle" /\ Len(trees) < MaxSnapshots
    /\ private' = Prepared
    /\ Goto(FirstStep)
    /\ UserKeeps /\ UNCHANGED <<trees, touched, ghosts>>

(* What a command has in sight, by the step that runs it.  Git refreshes the    *)
(* time of a shared index that it reads and of an object that it would store,   *)
(* wherever it finds them.                                                      *)

\* privateEnv names the real store as an alternate; writeCommand leaves it out.
Alternate(step) == step \notin {"add", "write"}
RealObjects(step) == IF Alternate(step) THEN repo.objects \cup {repo.head} ELSE {}

\* update-index has a Git directory of its own.
OwnGitDir(step) == step = "update-index"
SharedInSight(step) == IF OwnGitDir(step) THEN private.git ELSE repo.shared

\* Real files that get a new time when a command reads the private index and
\* stores what is in new.
Refreshed(new) ==
    LET shared == IF OwnGitDir(hook.pc) THEN {} ELSE repo.shared \cap {private.base}
    IN  shared \cup {o \in RealObjects(hook.pc) : o \in new}

\* A split index can be read where its shared index is in sight.
IndexReadable == private.base \in SharedInSight(hook.pc) \cup {None}

\* Variant: the index stays split.
StillSplit == private.index

Whole == Expand(private.index, private.base)

\* What is in the private index from now on is as in the real one.
TakenOver ==
    /\ known' = {f \in Files : RealEntries[f] # None}
    /\ excused' = excused \cup repo.racy

\* copyFile: byte for byte, but with a time of its own, so that the entries Git
\* was not sure of look up to date.
CopyIndex ==
    /\ hook.pc = "index"
    /\ repo.index # None
    /\ private' = [private EXCEPT !.index = repo.index, !.base = repo.base, !.stale = repo.racy]
    /\ TakenOver
    /\ Goto("prepare")
    /\ UserKeeps /\ UNCHANGED <<trees, changed, touched>>

\* No index: git read-tree of HEAD, or of nothing when there is no HEAD yet.
\* Whatever makes rev-parse fail is taken for that.
ReadTree ==
    /\ hook.pc = "index"
    /\ repo.index = None
    /\ ~private.lock
    /\ \E entries \in {repo.head} \cup (IF Faulty THEN {NoEntries} ELSE {}) :
         /\ private' = [private EXCEPT !.index = entries]
         /\ known' = {f \in Files : repo.head[f] # None}
         /\ excused' = IF entries = repo.head THEN excused ELSE Files
    /\ Goto("prepare")
    /\ UserKeeps /\ UNCHANGED <<trees, changed, touched>>

\* expandIndex: a Git directory of its own, with copies of all shared indexes.
\* A copy that an interrupted expansion has left is in the way.
CopyShared ==
    /\ hook.pc = "prepare"
    /\ private.git \cap repo.shared = {}
    /\ private' = [private EXCEPT !.git = private.git \cup repo.shared]
    /\ Goto("update-index")
    /\ UserKeeps /\ UNCHANGED <<trees, touched, ghosts>>

\* git update-index --no-split-index: nothing to write, and no lock to take, unless
\* the index is split.  From a truncated index Git reads what it can, or refuses it.
UpdateIndex ==
    /\ hook.pc = "update-index"
    /\ IndexReadable
    /\ ~private.lock \/ (private.base = None /\ ~private.torn)
    /\ \E kept \in IF private.torn THEN SUBSET Files ELSE {Files} :
         private' = [private EXCEPT
             !.index = [f \in Files |-> IF f \in kept THEN Whole[f] ELSE None],
             !.base = None, !.torn = FALSE, !.git = {}]
    /\ touched' = touched \cup Refreshed({})
    /\ Goto("filters")
    /\ UserKeeps /\ UNCHANGED <<trees, ghosts>>

\* Variant: only drivers with a clean command are overridden.
OverridesClean(keys) == "clean" \in keys

Overrides(keys) == keys # {}

FilterOverrides ==
    /\ hook.pc = "filters"
    /\ hook' = [hook EXCEPT !.pc = "add", !.overrides = Overrides(repo.filter)]
    /\ UserKeeps /\ UNCHANGED <<private, trees, touched, ghosts>>

\* Git's filter driver runs unless the command line has emptied its commands.
Converted(b) ==
    IF ~hook.overrides /\ repo.filter \cap {"clean", "process"} # {} THEN Filtered ELSE b

\* git add -A: what is in the index or not ignored.  Files whose entry does not
\* look up to date are read again, and their content is stored, unless a store in
\* sight has it.
ToAdd == {f \in Files : work[f] # None /\ (Whole[f] # None \/ f \notin ignored)}
Readable == ToAdd \ private.stale
Unsure == {f \in Readable : Whole[f] # work[f]}
Stored(files) == {Converted(work[f]) : f \in files}

Add ==
    /\ hook.pc = "add"
    /\ ~private.lock /\ IndexReadable
    /\ \E more \in SUBSET (Readable \ Unsure) : LET reread == Unsure \cup more IN
         /\ private' = [private EXCEPT
              !.index = [f \in Files |->
                  IF f \in reread THEN Converted(work[f])
                  ELSE IF f \in ToAdd THEN Whole[f] ELSE None],
              !.base = None,
              !.objects = @ \cup (Stored(reread) \ RealObjects("add"))]
         /\ touched' = touched \cup Refreshed(Stored(reread))
    /\ known' = {f \in Files : work[f] # None /\ (f \in known \/ f \notin ignored)}
    /\ hook' = [hook EXCEPT !.pc = "write",
                            !.due = [f \in Files |-> IF f \in known' THEN work[f] ELSE None]]
    /\ changed' = IF trees = <<>> THEN {} ELSE changed
    /\ UserKeeps /\ UNCHANGED <<trees, excused>>

\* git write-tree --missing-ok: the entries as they are, wherever their objects.
WriteTree ==
    /\ hook.pc = "write"
    /\ ~private.lock /\ IndexReadable
    /\ trees' = Append(trees, [tree |-> Whole, due |-> hook.due])
    /\ touched' = touched \cup Refreshed({Whole})
    /\ hook' = Idle
    /\ UserKeeps /\ UNCHANGED <<private, ghosts>>

\* What an interrupted step may have done: copyFile leaves what it has written,
\* a killed command its index.lock, and git add objects without their index.  One
\* copy of a shared index is as much in the way as all of them, and some of the
\* objects are no better than none.
Interrupted ==
    {private} \cup
    CASE hook.pc = "index" /\ repo.index # None ->
            {[private EXCEPT !.index = repo.index, !.base = repo.base, !.torn = TRUE]}
      [] hook.pc = "prepare" -> {[private EXCEPT !.git = private.git \cup repo.shared]}
      [] hook.pc = "add" ->
            {[private EXCEPT !.lock = TRUE, !.objects = @ \cup o] :
                o \in {{}, Stored(Readable) \ RealObjects("add")}}
      [] hook.pc \in {"update-index", "write"} \/ (hook.pc = "index" /\ repo.index = None) ->
            {[private EXCEPT !.lock = TRUE]}
      [] OTHER -> {}

\* Whatever a command on the index has refreshed by then stays so.
MayRefresh ==
    touched' \in {touched} \cup
        CASE hook.pc = "add" -> {touched \cup Refreshed(Stored(Readable))}
          [] hook.pc = "write" -> {touched \cup Refreshed({Whole})}
          [] hook.pc = "update-index" -> {touched \cup Refreshed({})}
          [] OTHER -> {}

\* What no further attempt gets past, or only one that finds it gone.
Blocked ==
    \/ private.lock /\ hook.pc \in {"add", "write"}
    \/ private.lock /\ hook.pc = "index" /\ repo.index = None
    \/ private.lock /\ hook.pc = "update-index" /\ private.base # None
    \/ hook.pc = "prepare" /\ private.git \cap repo.shared # {}
    \/ hook.pc = "update-index" /\ private.torn
    \/ hook.pc \in {"update-index", "add", "write"} /\ ~IndexReadable

\* The deferred RemoveAll takes the Git directory of the expansion with it, unless
\* there was no making that directory, the removal fails or the process is killed.
Ended(p) == {[p EXCEPT !.git = {}]} \cup (IF Faulty THEN {p} ELSE {})

\* Every early return, or a kill.  A command that a killed process had started has
\* ended before the next snapshot of the directory begins.
Fail ==
    /\ hook.pc # "idle"
    /\ Faulty \/ Blocked
    /\ \E p \in IF Faulty THEN Interrupted ELSE {private} :
         /\ private' \in IF hook.pc \in {"prepare", "update-index"} THEN Ended(p) ELSE {p}
         /\ known' = IF p.torn /\ ~private.torn THEN {f \in Files : RealEntries[f] # None} ELSE known
         /\ excused' = IF p.torn THEN Files ELSE excused
    /\ MayRefresh
    /\ hook' = Idle
    /\ UserKeeps /\ UNCHANGED <<trees, changed>>

Snapshot ==
    \/ Start \/ CopyIndex \/ ReadTree \/ CopyShared \/ UpdateIndex
    \/ FilterOverrides \/ Add \/ WriteTree \/ Fail

Next == UserStep \/ Snapshot

Spec == Init /\ [][Next]_vars

----------------------------------------------------------------------------
Trees == [Files -> Blobs \cup {None, Filtered}]

\* The index is whole before it is added to, and a tree is of contents.
TypeOK ==
    /\ work \in [Files -> Blobs \cup {None}]
    /\ private.index \in {None} \cup [Files -> Blobs \cup {None, Shared, Filtered}]
    /\ hook.pc \in {"filters", "add", "write"} => private.index \in Trees
    /\ \A k \in DOMAIN trees : trees[k].tree \in Trees

\* docs/architecture.md: writing commands "write only to the private index and
\* object store", and the expansion "avoids refreshing the real shared index's
\* timestamp": no snapshot, interrupted anywhere and taken up again by another,
\* gives a real object or shared index a new time.
RealUntouched == touched = {}

\* A returned tree holds every file that was tracked when the index was taken over
\* or is not ignored, with the content it had at git add, whatever interrupted
\* the attempts before it.  Excused are files that looked up to date in the copied
\* index and are not, all files after a truncated copy or a HEAD that could not be
\* read, and all after a filter was configured between the last two commands.
TreeIsWorkTree ==
    \A k \in DOMAIN trees : \A f \in Files \ excused : trees[k].tree[f] = trees[k].due[f]

\* Between two snapshots of a turn nothing differs but what was edited, ignored or
\* unignored since: staging, splitting and configuring do not show.
UnchangedStaysOut ==
    \A k \in DOMAIN trees : \A f \in Files \ (changed \cup excused) :
        trees[k].tree[f] = trees[1].tree[f]

\* The trees of a turn can be compared: whatever a tree holds is in the private or
\* in the real store, and stays there through later snapshots.
TreeReadable ==
    \A k \in DOMAIN trees : Contents(trees[k].tree) \subseteq private.objects \cup repo.objects

\* docs/architecture.md: "Pre-existing staged, unstaged, and untracked changes were
\* already included in the baseline", whenever they were made.
BaselineIsWorkTree == trees # <<>> => trees[1].tree = trees[1].due
================================================================================
