------------------------------ MODULE PromptStore ------------------------------
(***************************************************************************)
(* The private storage that the hook processes of one plugin installation  *)
(* share (internal/session/session.go): one directory per prompt, one lock *)
(* directory per prompt, and the steps Open, CleanupExpired, Lock, Cleanup *)
(* and unlock take on them.  The file system is the only shared memory;    *)
(* a step is one system call, or the calls that only the lock holder makes *)
(* on the prompt directory.                                                *)
(***************************************************************************)
EXTENDS Naturals, FiniteSets

CONSTANTS Hooks,       \* hook processes (an identity is reused after it exits)
          Prompts,     \* prompt identities (the 64-digit names under base)
          Trees,       \* selected content of the work tree, hence diff hashes
          Fallback,    \* TRUE: plugin-data storage, swept on every Open
          Faulty,      \* TRUE: storage operations may fail
          TTL,         \* ticks after which FallbackTTL has passed for certain
          SweepLimit,  \* entries one sweep reads (512 in the code)
          None,        \* the empty LastDiffHash
          NoState,     \* no state.json
          Free, Dead   \* no lock directory / a lock nobody will release

\* State, without the identities that never change.
Saved == [base : Trees, count : 0..1, last : Trees \cup {None}]

ASSUME TypeAssumption ==
    /\ Fallback \in BOOLEAN /\ Faulty \in BOOLEAN
    /\ TTL \in Nat /\ TTL >= 2
    /\ SweepLimit \in Nat \ {0}
    /\ Prompts # {}
    /\ None \notin Trees
    /\ Free # Dead /\ Free \notin Hooks /\ Dead \notin Hooks
    /\ Hooks \cap {"none", "ok", "torn"} = {}
    /\ NoState \notin Saved

VARIABLES dir,      \* the prompt directories
          lock,     \* who made .locks/<prompt>
          lockAge,  \* ticks since that lock directory was made
          pc, loc   \* where each hook process is, and its local variables

storeVars == <<dir, lock, lockAge, pc, loc>>

----------------------------------------------------------------------------
\* Data

\* A marker is absent, complete, abandoned half-written, or being written by a
\* hook: createOwnership creates the file before it encodes into it.
Markers == {"none", "ok", "torn"} \cup Hooks

Directory ==
    [there : BOOLEAN, marker : Markers, snap : {"none", "empty", "private"},
     state : Saved \cup {NoState}, age : 0..TTL]

Absent == [there |-> FALSE, marker |-> "none", snap |-> "none",
           state |-> NoState, age |-> 0]

\* What os.ReadDir lists.
Entries(d) ==
    {e \in {"marker", "snap", "state"} :
        \/ e = "marker" /\ d.marker # "none"
        \/ e = "snap" /\ d.snap # "none"
        \/ e = "state" /\ d.state # NoState}

\* Variant: the snapshot directory is emptied and left behind.
WithoutContents(d, e) ==
    CASE e = "marker" -> [d EXCEPT !.marker = "none", !.age = 0]
      [] e = "snap"   -> [d EXCEPT !.snap = "empty", !.age = 0]
      [] e = "state"  -> [d EXCEPT !.state = NoState, !.age = 0]

Without(d, e) ==
    CASE e = "marker" -> [d EXCEPT !.marker = "none", !.age = 0]
      [] e = "snap"   -> [d EXCEPT !.snap = "none", !.age = 0]
      [] e = "state"  -> [d EXCEPT !.state = NoState, !.age = 0]

\* validatePrompt: succeeds, or fails with os.ErrNotExist, or fails otherwise.
Valid(d) == d.there /\ d.marker = "ok"
Missing(d) == ~d.there \/ d.marker = "none"

Expired(age) == age >= TTL

Events == {"UserPromptSubmit", "Stop"}

Labels == {"idle", "readdir", "sweep", "seize", "mkdir", "marker", "inspect",
           "create", "encode", "validate", "snapdir", "lock",
           "load", "snapshot", "save", "decide", "send", "reply",
           "close", "rm", "unlock", "emit"}

\* The labels at which a hook runs the steps under its own prompt's lock.
Work == {"load", "snapshot", "save", "decide", "send", "reply"}

Locals ==
    [event : Events, prompt : Prompts, target : Prompts, sweeping : BOOLEAN,
     todo : SUBSET Prompts, rest : SUBSET {"marker", "snap", "state"},
     ok : BOOLEAN, active : BOOLEAN, mem : Saved \cup {NoState}, tree : Trees \cup {None},
     out : BOOLEAN, ticked : BOOLEAN]

Fresh(event, p) ==
    [event |-> event, prompt |-> p, target |-> p, sweeping |-> FALSE, todo |-> {},
     rest |-> {}, ok |-> TRUE, active |-> FALSE, mem |-> NoState,
     tree |-> None, out |-> FALSE, ticked |-> FALSE]

\* The locals of a process that has exited.
Blank == Fresh("UserPromptSubmit", CHOOSE p \in Prompts : TRUE)

----------------------------------------------------------------------------
\* Control

At(h, label) == pc[h] = label
Goto(h, label) == pc' = [pc EXCEPT ![h] = label]

SetLoc(h, l) == loc' = [loc EXCEPT ![h] = l]
SetDir(p, d) == dir' = [dir EXCEPT ![p] = d]

Exit(h) == Goto(h, "idle") /\ SetLoc(h, Blank)

KeepLock == UNCHANGED <<lock, lockAge>>

\* Variant: an expired lock is broken and taken over.
TakeExpired(h, p) ==
    /\ lock[p] = Free \/ Expired(lockAge[p])
    /\ lock' = [lock EXCEPT ![p] = h]
    /\ lockAge' = [lockAge EXCEPT ![p] = 0]

\* os.Mkdir of the lock directory succeeds for one process.
Take(h, p) ==
    /\ lock[p] = Free
    /\ lock' = [lock EXCEPT ![p] = h]
    /\ lockAge' = [lockAge EXCEPT ![p] = 0]

\* Mkdir succeeded and Open, Stat or Close of the new directory failed: the
\* error path returns without removing it.
Strand(p) ==
    /\ Faulty
    /\ lock[p] = Free
    /\ lock' = [lock EXCEPT ![p] = Dead]
    /\ lockAge' = [lockAge EXCEPT ![p] = 0]

\* Variant: the name is retired whoever made the directory.
ReleaseAny(h, p) ==
    /\ lock' = [lock EXCEPT ![p] = Free]
    /\ lockAge' = [lockAge EXCEPT ![p] = 0]

\* releaseDirectoryLock retires only the directory this process made; a Lstat,
\* a random suffix or a Rename that fails leaves it there, and says nothing.
Release(h, p) ==
    \/ /\ lock[p] = h
       /\ lock' = [lock EXCEPT ![p] = Free]
       /\ lockAge' = [lockAge EXCEPT ![p] = 0]
    \/ Faulty /\ lock[p] = h /\ lock' = [lock EXCEPT ![p] = Dead] /\ UNCHANGED lockAge
    \/ lock[p] # h /\ KeepLock

----------------------------------------------------------------------------
\* CleanupExpired, run by Open in fallback storage

\* One bounded ReadDir; the order of a directory's entries is arbitrary.
ReadBase(h) ==
    /\ At(h, "readdir")
    /\ LET present == {p \in Prompts : dir[p].there}
       IN  \E seen \in SUBSET present :
             /\ \/ seen = present /\ Cardinality(present) <= SweepLimit
                \/ Cardinality(seen) = SweepLimit
             /\ SetLoc(h, [loc[h] EXCEPT !.todo = seen, !.sweeping = TRUE])
    /\ Goto(h, "sweep")
    /\ UNCHANGED <<dir, lock, lockAge>>

\* A candidate is owned and none of its three dates is recent; its lock has
\* not been looked at yet.
Candidate(d) == Valid(d) /\ Expired(d.age)

Examine(h) ==
    /\ At(h, "sweep")
    /\ \E q \in loc[h].todo :
         /\ SetLoc(h, [loc[h] EXCEPT !.todo = @ \ {q}, !.target = q])
         /\ Goto(h, IF Candidate(dir[q]) THEN "seize" ELSE "sweep")
    /\ UNCHANGED <<dir, lock, lockAge>>

EndSweep(h) ==
    /\ At(h, "sweep")
    /\ loc[h].todo = {}
    /\ SetLoc(h, [loc[h] EXCEPT !.sweeping = FALSE, !.target = loc[h].prompt])
    /\ Goto(h, "mkdir")
    /\ UNCHANGED <<dir, lock, lockAge>>

\* Variant: every lock that is taken is treated as abandoned.
TombstoneAny(q) == lock[q] # Free

\* An expired lock is a crash tombstone: its prompt is cleaned without it.
Tombstone(q) == lock[q] # Free /\ Expired(lockAge[q])

Seize(h) ==
    /\ At(h, "seize")
    /\ LET q == loc[h].target
       IN  \/ Take(h, q) /\ Goto(h, "close")
           \/ Tombstone(q) /\ Goto(h, "close") /\ KeepLock
           \/ /\ Faulty \/ (lock[q] # Free /\ ~Tombstone(q))
              /\ Goto(h, "sweep") /\ KeepLock
           \/ Strand(q) /\ Goto(h, "sweep")
    /\ UNCHANGED <<dir, loc>>

----------------------------------------------------------------------------
\* The rest of Open

MakeDir(h) ==
    /\ At(h, "mkdir")
    /\ LET p == loc[h].prompt
       IN  IF dir[p].there THEN UNCHANGED dir
           ELSE SetDir(p, [Absent EXCEPT !.there = TRUE])
    /\ Goto(h, "marker")
    /\ UNCHANGED <<lock, lockAge, loc>>

ReadMarker(h) ==
    /\ At(h, "marker")
    /\ LET d == dir[loc[h].prompt]
       IN  \/ Valid(d) /\ Goto(h, "validate") /\ UNCHANGED loc
           \/ Missing(d) /\ Goto(h, "inspect") /\ UNCHANGED loc
           \/ ~Valid(d) /\ ~Missing(d) /\ Exit(h)
    /\ UNCHANGED <<dir, lock, lockAge>>

\* Only an empty directory without a marker is adopted.
Inspect(h) ==
    /\ At(h, "inspect")
    /\ LET d == dir[loc[h].prompt]
       IN  IF d.there /\ Entries(d) = {}
           THEN Goto(h, "create") /\ UNCHANGED loc
           ELSE Exit(h)
    /\ UNCHANGED <<dir, lock, lockAge>>

\* O_CREATE|O_EXCL: an existing marker is left to validatePrompt.
Create(h) ==
    /\ At(h, "create")
    /\ LET p == loc[h].prompt
           d == dir[p]
       IN  \/ ~d.there /\ Exit(h) /\ UNCHANGED dir
           \/ /\ d.there /\ d.marker # "none"
              /\ Goto(h, "validate") /\ UNCHANGED <<dir, loc>>
           \/ /\ d.there /\ d.marker = "none"
              /\ SetDir(p, [d EXCEPT !.marker = h, !.age = 0])
              /\ Goto(h, "encode") /\ UNCHANGED loc
    /\ UNCHANGED <<lock, lockAge>>

\* The bytes reach the file this process created, if it is still linked.
Encode(h) ==
    /\ At(h, "encode")
    /\ LET p == loc[h].prompt
           mine == dir[p].marker = h
       IN  \/ /\ IF mine THEN SetDir(p, [dir[p] EXCEPT !.marker = "ok", !.age = 0])
                          ELSE UNCHANGED dir
              /\ Goto(h, "validate") /\ UNCHANGED loc
           \/ /\ Faulty
              /\ IF mine THEN SetDir(p, [dir[p] EXCEPT !.marker = "torn"])
                         ELSE UNCHANGED dir
              /\ Exit(h)
    /\ UNCHANGED <<lock, lockAge>>

Validate(h) ==
    /\ At(h, "validate")
    /\ IF Valid(dir[loc[h].prompt])
       THEN Goto(h, "snapdir") /\ UNCHANGED loc
       ELSE Exit(h)
    /\ UNCHANGED <<dir, lock, lockAge>>

SnapDir(h) ==
    /\ At(h, "snapdir")
    /\ LET p == loc[h].prompt
           d == dir[p]
       IN  \/ ~d.there /\ Exit(h) /\ UNCHANGED dir
           \/ /\ d.there
              /\ IF d.snap = "none" THEN SetDir(p, [d EXCEPT !.snap = "empty", !.age = 0])
                                    ELSE UNCHANGED dir
              /\ Goto(h, "lock") /\ UNCHANGED loc
    /\ UNCHANGED <<lock, lockAge>>

\* Variant: the hook waits until the lock is free.
TryLockWaits(h) ==
    /\ At(h, "lock")
    /\ Take(h, loc[h].prompt) /\ Goto(h, "load")
    /\ UNCHANGED <<dir, loc>>

\* Lock never waits: a hook that finds the lock taken exits quietly, and one
\* that fails before the lock is made exits and leaves none.
TryLock(h) ==
    /\ At(h, "lock")
    /\ LET p == loc[h].prompt
       IN  \/ Take(h, p) /\ Goto(h, "load") /\ UNCHANGED loc
           \/ (Faulty \/ lock[p] # Free) /\ Exit(h) /\ KeepLock
           \/ Strand(p) /\ Exit(h)
    /\ UNCHANGED dir

----------------------------------------------------------------------------
\* Cleanup and unlock, shared by the sweep and by the end of a run

\* validatePrompt, then the listing with which os.RemoveAll starts.
Close(h) ==
    /\ At(h, "close")
    /\ LET d == dir[loc[h].target]
       IN  IF Valid(d)
           THEN /\ SetLoc(h, [loc[h] EXCEPT !.rest = Entries(d)])
                /\ Goto(h, "rm")
           ELSE /\ SetLoc(h, [loc[h] EXCEPT !.ok = ~d.there])
                /\ Goto(h, "unlock")
    /\ UNCHANGED <<dir, lock, lockAge>>

\* RemoveAll unlinks the entries it listed, in the directory's order.
Remove(h) ==
    /\ At(h, "rm")
    /\ \E e \in loc[h].rest :
         LET q == loc[h].target
         IN  \/ /\ IF e \in Entries(dir[q]) THEN SetDir(q, Without(dir[q], e))
                                           ELSE UNCHANGED dir
                /\ SetLoc(h, [loc[h] EXCEPT !.rest = @ \ {e}])
             \/ /\ Faulty
                /\ SetLoc(h, [loc[h] EXCEPT !.rest = @ \ {e}, !.ok = FALSE])
                /\ UNCHANGED dir
    /\ UNCHANGED <<lock, lockAge, pc>>

\* The directory itself goes only if nobody has added an entry meanwhile.
RemoveDir(h) ==
    /\ At(h, "rm")
    /\ loc[h].rest = {}
    /\ LET q == loc[h].target
       IN  IF Entries(dir[q]) = {}
           THEN SetDir(q, Absent) /\ UNCHANGED loc
           ELSE SetLoc(h, [loc[h] EXCEPT !.ok = FALSE]) /\ UNCHANGED dir
    /\ Goto(h, "unlock")
    /\ UNCHANGED <<lock, lockAge>>

\* A sweep goes on after a clean removal and makes Open fail after any other;
\* the run itself only writes its output after the lock is gone.
Unlock(h) ==
    /\ At(h, "unlock")
    /\ Release(h, loc[h].target)
    /\ \/ ~loc[h].sweeping /\ Goto(h, "emit") /\ UNCHANGED loc
       \/ loc[h].sweeping /\ loc[h].ok /\ Goto(h, "sweep") /\ UNCHANGED loc
       \/ loc[h].sweeping /\ ~loc[h].ok /\ Exit(h)
    /\ UNCHANGED dir

Open(h) ==
    \/ ReadBase(h) \/ Examine(h) \/ EndSweep(h) \/ Seize(h)
    \/ MakeDir(h) \/ ReadMarker(h) \/ Inspect(h) \/ Create(h) \/ Encode(h)
    \/ Validate(h) \/ SnapDir(h)

Cleanup(h) == Close(h) \/ Remove(h) \/ RemoveDir(h)
================================================================================
