------------------------------- MODULE HookRunner ------------------------------
(***************************************************************************)
(* Runner.Run (internal/hook/runner.go): every UserPromptSubmit and Stop   *)
(* of the host starts one process, which opens the storage, takes the      *)
(* prompt's lock, and either saves a baseline or decides, records, asks    *)
(* and answers.  Processes run concurrently and may be killed anywhere.    *)
(***************************************************************************)
EXTENDS PromptStore

CONSTANTS Submitters, \* prompts whose submission reaches the plugin at all
          Resubmit,  \* TRUE: the host may deliver a prompt's submission again
          Overlap,   \* TRUE: hooks of one prompt may run at the same time
          Crashes    \* TRUE: a process may be killed between two steps

ASSUME HostAssumption ==
    /\ Submitters \subseteq Prompts
    /\ Resubmit \in BOOLEAN /\ Overlap \in BOOLEAN /\ Crashes \in BOOLEAN

VARIABLES submitted,  \* prompts whose one submission has been delivered
          armed,      \* prompts that have had a baseline saved
          asked,      \* requests sent for each prompt, up to Cap
          granted     \* continuations written for each prompt, up to Cap

history == <<submitted, armed, asked, granted>>
vars == <<dir, lock, lockAge, pc, loc, submitted, armed, asked, granted>>

Cap == 2
Count(n) == IF n < Cap THEN n + 1 ELSE n

Live == {h \in Hooks : pc[h] # "idle"}

Init ==
    /\ dir = [p \in Prompts |-> Absent]
    /\ lock = [p \in Prompts |-> Free]
    /\ lockAge = [p \in Prompts |-> 0]
    /\ pc = [h \in Hooks |-> "idle"]
    /\ loc = [h \in Hooks |-> Blank]
    /\ submitted = {} /\ armed = {}
    /\ asked = [p \in Prompts |-> 0]
    /\ granted = [p \in Prompts |-> 0]

----------------------------------------------------------------------------
\* The host

Begin(h) ==
    /\ At(h, "idle")
    /\ \E p \in Prompts, event \in Events :
         /\ Overlap \/ \A g \in Live : loc[g].prompt # p
         /\ event = "UserPromptSubmit" =>
              p \in Submitters /\ (Resubmit \/ p \notin submitted)
         /\ submitted' = IF event = "Stop" \/ Resubmit THEN submitted ELSE submitted \cup {p}
         /\ SetLoc(h, Fresh(event, p))
    /\ Goto(h, IF Fallback THEN "readdir" ELSE "mkdir")
    /\ UNCHANGED <<dir, lock, lockAge, armed, asked, granted>>

----------------------------------------------------------------------------
\* The run, under the prompt's lock

\* A run that keeps the directory only unlocks; any other cleans up first.
\* What it has read and decided is not looked at again, except the output.
Leave(h, label, out) ==
    /\ Goto(h, label)
    /\ SetLoc(h, [loc[h] EXCEPT !.active = FALSE, !.mem = NoState, !.tree = None,
                                !.out = out])

Keep(h) == Leave(h, "unlock", FALSE)

\* Variant: the deferred cleanup is forgotten.
DropKeeps(h) == Leave(h, "unlock", FALSE)

Drop(h) == Leave(h, "close", FALSE)

CanContinue(st, active) == ~active /\ st.count = 0

ShouldEvaluate(st, hash, active) == CanContinue(st, active) /\ st.last # hash

\* The outcomes of Store.Load.
Loaded(d) == Valid(d) /\ d.state # NoState

\* Variant: a submission does not look for the state of an earlier one.
NotExistAlways(d) == TRUE

NotExist(d) == Missing(d) \/ (Valid(d) /\ d.state = NoState)

\* A submission keeps what it finds, and cleans up what it fails to read; it starts
\* a turn where it finds nothing, unless the configuration is "off" or cannot be loaded.
LoadSubmit(h) ==
    /\ At(h, "load")
    /\ loc[h].event = "UserPromptSubmit"
    /\ LET d == dir[loc[h].prompt]
       IN  \/ Loaded(d) /\ Keep(h)
           \/ (Faulty \/ ~Loaded(d)) /\ Drop(h)
           \/ NotExist(d) /\ Goto(h, "snapshot") /\ UNCHANGED loc
    /\ UNCHANGED <<dir, lock, lockAge, history>>

\* A Stop with background work keeps everything; without a state that may
\* continue, or a configuration, it ends the turn.  The two flags are the
\* host's: nothing ties them to what was granted.
LoadStop(h) ==
    /\ At(h, "load")
    /\ loc[h].event = "Stop"
    /\ \E active, waiting \in BOOLEAN :
         LET d == dir[loc[h].prompt]
         IN  \/ waiting /\ Keep(h)
             \/ ~waiting /\ Drop(h)
             \/ /\ ~waiting /\ Loaded(d)
                /\ CanContinue(d.state, active)
                /\ SetLoc(h, [loc[h] EXCEPT !.active = active, !.mem = d.state])
                /\ Goto(h, "snapshot")
    /\ UNCHANGED <<dir, lock, lockAge, history>>

\* MkdirAll makes the snapshot directory again if it has gone, and content is
\* written before Git can fail.  The tree is whatever the user has edited.
Snapshot(h) ==
    /\ At(h, "snapshot")
    /\ LET p == loc[h].prompt
           d == dir[p]
           age == IF d.there /\ d.snap # "none" THEN d.age ELSE 0
       IN  \/ /\ SetDir(p, [d EXCEPT !.there = TRUE, !.snap = "private", !.age = age])
              /\ \/ Drop(h)
                 \/ /\ \E t \in Trees : SetLoc(h, [loc[h] EXCEPT !.tree = t])
                    /\ Goto(h, IF loc[h].event = "Stop" THEN "decide" ELSE "save")
           \/ Drop(h) /\ UNCHANGED dir
    /\ UNCHANGED <<lock, lockAge, history>>

\* Store.Save: validatePrompt, then a temporary file renamed over state.json.
Store(h, st) ==
    /\ Valid(dir[loc[h].prompt])
    /\ SetDir(loc[h].prompt, [dir[loc[h].prompt] EXCEPT !.state = st, !.age = 0])

StoreFails(h) ==
    /\ Faulty \/ ~Valid(dir[loc[h].prompt])
    /\ UNCHANGED dir

\* Variant: the baseline is never put into the initial state.
InitialStateNoBase(tree) == [base |-> None, count |-> 0, last |-> None]

InitialState(tree) == [base |-> tree, count |-> 0, last |-> None]

SaveBaseline(h) ==
    /\ At(h, "save")
    /\ \/ /\ Store(h, InitialState(loc[h].tree))
          /\ armed' = armed \cup {loc[h].prompt}
          /\ Keep(h)
       \/ StoreFails(h) /\ Drop(h) /\ UNCHANGED armed
    /\ UNCHANGED <<lock, lockAge, submitted, asked, granted>>

\* Variant: the continuation is not counted.
RecordUncounted(st, hash, continuation) == [st EXCEPT !.last = hash]

\* Variant: the hash is only kept with a continuation.
RecordLate(st, hash, continuation) ==
    IF continuation THEN [st EXCEPT !.last = hash, !.count = @ + 1] ELSE st

RecordEvaluation(st, hash, continuation) ==
    [st EXCEPT !.last = hash, !.count = IF continuation THEN @ + 1 ELSE @]

\* Diff, Prepare and the key may each end the run; a diff worth asking about
\* is recorded, in memory and on disk, before anything is sent.
Decide(h) ==
    /\ At(h, "decide")
    /\ LET l == loc[h]
           st == RecordEvaluation(l.mem, l.tree, FALSE)
       IN  \/ Drop(h) /\ UNCHANGED dir
           \/ /\ l.tree # l.mem.base
              /\ ShouldEvaluate(l.mem, l.tree, l.active)
              /\ \/ /\ Store(h, st) /\ Goto(h, "send")
                    /\ SetLoc(h, [loc[h] EXCEPT !.mem = st])
                 \/ StoreFails(h) /\ Drop(h)
    /\ UNCHANGED <<lock, lockAge, history>>

\* The request leaves the machine, or fails before it does.
Send(h) ==
    /\ At(h, "send")
    /\ LET p == loc[h].prompt
       IN  \/ /\ asked' = [asked EXCEPT ![p] = Count(@)]
              /\ Goto(h, "reply") /\ UNCHANGED loc
           \/ Drop(h) /\ UNCHANGED asked
    /\ UNCHANGED <<dir, lock, lockAge, submitted, armed, granted>>

\* An error, a timeout, no risk, or report mode ends the turn; risks in assist
\* mode reserve the one continuation and keep the directory.
Reply(h) ==
    /\ At(h, "reply")
    /\ \/ Drop(h) /\ UNCHANGED dir
       \/ /\ loc[h].mem.count = 0
          /\ Store(h, RecordEvaluation(loc[h].mem, loc[h].tree, TRUE))
          /\ Leave(h, "unlock", TRUE)
       \/ StoreFails(h) /\ Drop(h)
    /\ UNCHANGED <<lock, lockAge, history>>

\* main writes the output after Run has returned, hence after the unlock.
Emit(h) ==
    /\ At(h, "emit")
    /\ granted' = IF loc[h].out
                  THEN [granted EXCEPT ![loc[h].prompt] = Count(@)] ELSE granted
    /\ Exit(h)
    /\ UNCHANGED <<dir, lock, lockAge, submitted, armed, asked>>

\* A step of Open, Lock, Cleanup or unlock: nothing the run remembers changes.
StorageStep(h) ==
    /\ Open(h) \/ TryLock(h) \/ Cleanup(h) \/ Unlock(h)
    /\ UNCHANGED history

Run(h) ==
    \/ LoadSubmit(h) \/ LoadStop(h) \/ Snapshot(h) \/ SaveBaseline(h)
    \/ Decide(h) \/ Send(h) \/ Reply(h) \/ Emit(h)

\* One step of the process of hook h.
Step(h) == StorageStep(h) \/ Run(h)

----------------------------------------------------------------------------
\* The environment

\* A killed process leaves its lock directory and a half-written marker.
Crash(h) ==
    /\ Crashes
    /\ ~At(h, "idle")
    /\ lock' = [p \in Prompts |-> IF lock[p] = h THEN Dead ELSE lock[p]]
    /\ dir' = [p \in Prompts |->
                 IF dir[p].marker = h
                 THEN [dir[p] EXCEPT !.marker = "torn"] ELSE dir[p]]
    /\ Exit(h)
    /\ UNCHANGED <<lockAge, history>>

Older(n) == IF n < TTL THEN n + 1 ELSE n

\* The coarse clock that dates directories and locks: a tick is a day, so two
\* ticks are certainly more than FallbackTTL.  The host ends a hook after 90
\* seconds, so no hook lives through two ticks.
Tick ==
    /\ Fallback
    /\ \A h \in Live : ~loc[h].ticked
    /\ loc' = [h \in Hooks |-> IF h \in Live THEN [loc[h] EXCEPT !.ticked = TRUE]
                                          ELSE loc[h]]
    /\ dir' = [p \in Prompts |->
                 IF dir[p].there THEN [dir[p] EXCEPT !.age = Older(@)] ELSE dir[p]]
    /\ lockAge' = [p \in Prompts |->
                     IF lock[p] = Free THEN lockAge[p] ELSE Older(lockAge[p])]
    /\ UNCHANGED <<lock, pc, history>>

Next ==
    \/ \E h \in Hooks : Begin(h) \/ Step(h) \/ Crash(h)
    \/ Tick

Spec == Init /\ [][Next]_vars

\* A started process is scheduled until it exits: every wait inside it is
\* bounded by a timeout, and no lock is ever waited for.
Fairness == \A h \in Hooks : WF_vars(Step(h))

FairSpec == Spec /\ Fairness
----------------------------------------------------------------------------
\* What the storage and the runs keep true

\* Every variable has its type.
TypeOK ==
    /\ dir \in [Prompts -> Directory]
    /\ lock \in [Prompts -> Hooks \cup {Free, Dead}]
    /\ lockAge \in [Prompts -> 0..TTL]
    /\ pc \in [Hooks -> Labels]
    /\ loc \in [Hooks -> Locals]
    /\ submitted \subseteq Prompts /\ armed \subseteq Prompts
    /\ asked \in [Prompts -> 0..Cap]
    /\ granted \in [Prompts -> 0..Cap]

\* The hook works on its own prompt, after Lock and before unlock.
Critical(h) ==
    pc[h] \in Work \/ (pc[h] \in {"close", "rm", "unlock"} /\ ~loc[h].sweeping)

\* A hook that works on a prompt holds its lock, and a sweep that removes a
\* directory either holds its lock or goes behind a crash tombstone.
LockHeld ==
    \A h \in Hooks :
        /\ Critical(h) => lock[loc[h].prompt] = h
        /\ pc[h] \in {"close", "rm"} /\ loc[h].sweeping =>
             \/ lock[loc[h].target] = h
             \/ lock[loc[h].target] = Dead /\ Tombstone(loc[h].target)

\* From the load to the end of the decision a Stop sees on disk the record it
\* has in memory: no sweep, and no other hook, touches it under the lock.
\* While the request is in flight that record names the diff in the request.
RecordedBeforeSend ==
    \A h \in Hooks :
        /\ pc[h] \in {"snapshot", "decide", "send", "reply"} /\ loc[h].event = "Stop" =>
             /\ Valid(dir[loc[h].prompt])
             /\ dir[loc[h].prompt].state = loc[h].mem
        /\ pc[h] \in {"send", "reply"} => loc[h].mem.last = loc[h].tree

\* README.md "Failure behavior": at most one continuation per prompt.
OneContinuation == \A p \in Prompts : granted[p] <= 1

\* docs/architecture.md: duplicate submissions retain the original baseline,
\* and the continuation count of a saved record is never taken back.
BaselineFixedStep ==
    \A p \in Prompts :
        LET s == dir[p].state
            t == dir'[p].state
        IN  s # NoState /\ t # NoState => t.base = s.base /\ t.count >= s.count

BaselineFixed == [][BaselineFixedStep]_vars

\* session.go, CleanupExpired: a tombstone is retained "so the old prompt
\* cannot replay".  Once a prompt's lock is abandoned it stays, no request is
\* sent for the prompt and no new record is saved.
TombstoneFinalStep ==
    \A p \in Prompts :
        lock[p] = Dead =>
            /\ lock'[p] = Dead
            /\ asked'[p] = asked[p]
            /\ dir'[p].state \in {dir[p].state, NoState}

TombstoneFinal == [][TombstoneFinalStep]_vars

Unattended(p) == \A h \in Live : loc[h].prompt # p

\* docs/architecture.md: a final or failed Stop removes the index, objects and
\* state.  With no hook running for a prompt, private content is on disk only
\* together with the record that a later Stop will use, and no lock is left.
OnlyPendingContent ==
    \A p \in Prompts :
        Unattended(p) =>
            /\ lock[p] = Free
            /\ dir[p].snap = "private" => Valid(dir[p]) /\ dir[p].state # NoState

\* Whatever the earlier hooks of a prompt did, the next one can open its
\* directory: Open never meets a state it refuses to adopt.
OpenSucceedsStep ==
    \A h \in Hooks :
        pc[h] \in {"marker", "inspect", "create", "encode", "validate", "snapdir"}
            => pc'[h] # "idle"

OpenSucceeds == [][OpenSucceedsStep]_vars

\* README.md "Security": what a crash leaves stays until the next applicable
\* TTL cleanup, so abandoned content must be in a directory the sweep accepts.
AbandonedContentIsOwned ==
    \A p \in Prompts :
        Unattended(p) /\ dir[p].snap = "private" => Valid(dir[p])

\* Every hook exits, with whatever the others hold, leave behind or sweep.
HookTerminates == \A h \in Hooks : ~At(h, "idle") ~> At(h, "idle")

----------------------------------------------------------------------------
\* The runs implement the write-ahead guard of TurnGuard

Phase(p) ==
    CASE p \notin armed -> "none"
      [] p \in armed /\ dir[p].state = NoState -> "closed"
      [] p \in armed /\ dir[p].state # NoState ->
           IF dir[p].state.count = 1 THEN "continued"
           ELSE IF dir[p].state.last = None THEN "armed" ELSE "asked"

Guard == INSTANCE TurnGuard
    WITH phase <- [p \in Prompts |-> Phase(p)],
         requests <- asked,
         owed <- [p \in Prompts |->
                    Cardinality({h \in Hooks : loc[h].out /\ loc[h].prompt = p})],
         grants <- granted

\* docs/architecture.md: the hash is saved before the call, the count before
\* the feedback; nothing lost in between is repeated.
ImplementsTurnGuard == Guard!Spec
================================================================================
