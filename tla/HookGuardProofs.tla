----------------------------- MODULE HookGuardProofs ----------------------------
(***************************************************************************)
(* What a turn comes to, for any number of hooks and prompts: a baseline   *)
(* stays what it was unless a removal fails half-way and the submission    *)
(* comes again; a prompt is continued at most once; and where storage does *)
(* not fail either, the processes together implement the write-ahead guard *)
(* of TurnGuard.                                                           *)
(***************************************************************************)
EXTENDS HookRunnerProofs, FiniteSetTheorems

----------------------------------------------------------------------------
\* The steps that matter to a turn

\* The hook has a continuation to write for the prompt.
Owes(h, p) == loc[h].out /\ loc[h].prompt = p

\* Nothing is saved, asked, reserved or written, though a record may be removed
\* and a hook may lose what it had to write.
Calm ==
    /\ UNCHANGED <<armed, asked, granted>>
    /\ \A p \in Prompts : dir'[p].state \in {dir[p].state, NoState}
    /\ \A h \in Hooks, p \in Prompts : Owes(h, p)' => Owes(h, p)

\* Only the record of the hook's prompt changes.
NewRecord(h, st) ==
    /\ dir'[loc[h].prompt].state = st
    /\ \A p \in Prompts \ {loc[h].prompt} : dir'[p] = dir[p]

\* The five steps of a turn: the baseline, the decision, the request, the
\* reservation of the continuation, and its output.
Saves(h) ==
    /\ pc[h] = "save" /\ pc'[h] = "unlock"
    /\ NewRecord(h, InitialState(loc[h].tree))
    /\ loc'[h].prompt = loc[h].prompt /\ ~loc'[h].out
    /\ armed' = armed \cup {loc[h].prompt}
    /\ UNCHANGED <<asked, granted>>

Decides(h) ==
    /\ pc[h] = "decide" /\ pc'[h] = "send"
    /\ ShouldEvaluate(loc[h].mem, loc[h].tree, loc[h].active)
    /\ NewRecord(h, RecordEvaluation(loc[h].mem, loc[h].tree, FALSE))
    /\ loc'[h].mem = RecordEvaluation(loc[h].mem, loc[h].tree, FALSE)
    /\ loc'[h].prompt = loc[h].prompt /\ loc'[h].out = loc[h].out
    /\ UNCHANGED <<armed, asked, granted>>

Sends(h) ==
    /\ pc[h] = "send" /\ pc'[h] = "reply"
    /\ asked' = [asked EXCEPT ![loc[h].prompt] = Count(@)]
    /\ UNCHANGED <<dir, loc, armed, granted>>

Reserves(h) ==
    /\ pc[h] = "reply" /\ pc'[h] = "unlock"
    /\ loc[h].mem.count = 0
    /\ NewRecord(h, RecordEvaluation(loc[h].mem, loc[h].tree, TRUE))
    /\ loc'[h].prompt = loc[h].prompt /\ loc'[h].out
    /\ UNCHANGED <<armed, asked, granted>>

Emits(h) ==
    /\ pc[h] = "emit" /\ pc'[h] = "idle" /\ loc'[h] = Blank
    /\ granted' = IF loc[h].out
                  THEN [granted EXCEPT ![loc[h].prompt] = Count(@)] ELSE granted
    /\ UNCHANGED <<dir, armed, asked>>

Turns(h) == Calm \/ Saves(h) \/ Decides(h) \/ Sends(h) \/ Reserves(h) \/ Emits(h)

LEMMA BlankOwesNothing == ~Blank.out
BY DEF Blank, Fresh

LEMMA CalmAlone ==
    ASSUME NEW h \in Hooks, Alone(h), UNCHANGED <<armed, asked, granted>>,
           \A p \in Prompts : dir'[p].state \in {dir[p].state, NoState},
           \/ ~loc'[h].out
           \/ loc'[h].out = loc[h].out /\ loc'[h].prompt = loc[h].prompt
    PROVE  Calm
BY DEF Alone, Calm, Owes

LEMMA DropsPlace == ASSUME Inv, NEW h \in Hooks, Drop(h) PROVE pc'[h] = "close"
BY LeaveMemory DEF Drop

LEMMA DecideTurns ==
    ASSUME Inv, LockInv, Present, NEW h \in Hooks, Decide(h), pc'[h] = "send"
    PROVE  Decides(h)
<1> DEFINE st == RecordEvaluation(loc[h].mem, loc[h].tree, FALSE)
           l == [loc[h] EXCEPT !.mem = st]
<1>1. Processes /\ loc[h] \in Locals
  BY Parts, Typed
<1>2. /\ ShouldEvaluate(loc[h].mem, loc[h].tree, loc[h].active)
      /\ Store(h, st) /\ Goto(h, "send") /\ SetLoc(h, l)
  BY DropsPlace DEF Decide
<1>3. l.mem = st /\ l.prompt = loc[h].prompt /\ l.out = loc[h].out
  BY <1>1 DEF Locals
<1>4. pc'[h] = "send" /\ loc'[h] = l
  BY <1>1, <1>2, MovesPlace
<1> HIDE DEF l
<1>5. NewRecord(h, st)
  BY <1>2, StoreWrites DEF Decide, At, NewRecord
<1>6. QED
  BY <1>2, <1>3, <1>4, <1>5 DEF Decide, At, history, Decides

LEMMA SendTurns ==
    ASSUME Inv, NEW h \in Hooks, Send(h), pc'[h] = "reply"
    PROVE  Sends(h)
<1>1. ~Drop(h)
  BY DropsPlace
<1>2. QED
  BY <1>1 DEF Send, At, Sends

LEMMA ReplyTurns ==
    ASSUME Inv, LockInv, Present, NEW h \in Hooks, Reply(h)
    PROVE  (Drop(h) /\ UNCHANGED dir) \/ Reserves(h)
<1> DEFINE st == RecordEvaluation(loc[h].mem, loc[h].tree, TRUE)
<1>1. CASE loc[h].mem.count = 0 /\ Store(h, st) /\ Leave(h, "unlock", TRUE)
  <2>1. pc'[h] = "unlock" /\ loc'[h].prompt = loc[h].prompt /\ loc'[h].out
    BY <1>1, LeaveMemory
  <2>2. NewRecord(h, st)
    BY <1>1, StoreWrites DEF Reply, At, NewRecord
  <2>3. QED
    BY <1>1, <2>1, <2>2 DEF Reply, At, history, Reserves
<1>2. QED
  BY <1>1 DEF Reply, StoreFails

LEMMA RunTurns ==
    ASSUME Inv, LockInv, Present, NEW h \in Hooks, Run(h)
    PROVE  Turns(h)
<1> DEFINE p == loc[h].prompt
<1>1. /\ Processes /\ Stored /\ loc[h] \in Locals /\ p \in Prompts
      /\ Alone(h)
  BY Parts, Typed, RunKinds DEF Kinds
<1>2. ASSUME Keep(h) \/ Drop(h)
      PROVE  /\ loc'[h].prompt = p /\ ~loc'[h].out
             /\ Keep(h) => pc'[h] = "unlock"
  BY <1>2, LeaveMemory DEF Keep, Drop
<1>3. ASSUME UNCHANGED dir, UNCHANGED <<armed, asked, granted>>,
             Keep(h) \/ Drop(h) \/ UNCHANGED loc
      PROVE  Calm
  BY <1>1, <1>2, <1>3, CalmAlone
<1>4. CASE LoadSubmit(h)
  BY <1>3, <1>4 DEF LoadSubmit, history, Turns
<1>5. CASE LoadStop(h)
  <2>1. ASSUME NEW b, NEW m, SetLoc(h, [loc[h] EXCEPT !.active = b, !.mem = m])
        PROVE  loc'[h].out = loc[h].out /\ loc'[h].prompt = p
    <3>1. LET l == [loc[h] EXCEPT !.active = b, !.mem = m]
          IN  l.out = loc[h].out /\ l.prompt = p
      BY <1>1 DEF Locals
    <3>2. QED
      BY <1>1, <2>1, <3>1, SetLocPlace
  <2>2. CASE Keep(h) \/ Drop(h)
    BY <1>3, <1>5, <2>2 DEF LoadStop, history, Turns
  <2>3. CASE ~(Keep(h) \/ Drop(h))
    <3>1. loc'[h].out = loc[h].out /\ loc'[h].prompt = p
      BY <1>5, <2>1, <2>3 DEF LoadStop
    <3>2. QED
      BY <1>1, <1>5, <3>1, CalmAlone DEF LoadStop, history, Turns
  <2>4. QED
    BY <2>2, <2>3
<1>6. CASE Snapshot(h)
  <2>1. \A q \in Prompts : dir'[q].state \in {dir[q].state, NoState}
    BY <1>6, SnapshotHarmless DEF Harmless
  <2>2. ASSUME NEW t, SetLoc(h, [loc[h] EXCEPT !.tree = t])
        PROVE  loc'[h].out = loc[h].out /\ loc'[h].prompt = p
    <3>1. LET l == [loc[h] EXCEPT !.tree = t]
          IN  l.out = loc[h].out /\ l.prompt = p
      BY <1>1 DEF Locals
    <3>2. QED
      BY <1>1, <2>2, <3>1, SetLocPlace
  <2>3. ~loc'[h].out \/ (loc'[h].out = loc[h].out /\ loc'[h].prompt = p)
    BY <1>2, <1>6, <2>2 DEF Snapshot
  <2>4. QED
    BY <1>1, <1>6, <2>1, <2>3, CalmAlone DEF Snapshot, history, Turns
<1>7. CASE SaveBaseline(h)
  <2>1. CASE /\ Store(h, InitialState(loc[h].tree))
             /\ armed' = armed \cup {p} /\ Keep(h)
    BY <1>2, <1>7, <2>1, StoreWrites DEF SaveBaseline, At, Saves, NewRecord, Turns
  <2>2. CASE StoreFails(h) /\ Drop(h) /\ UNCHANGED armed
    BY <1>3, <1>7, <2>2 DEF SaveBaseline, StoreFails, Turns
  <2>3. QED
    BY <1>7, <2>1, <2>2 DEF SaveBaseline
<1>8. CASE Decide(h)
  <2>1. CASE Drop(h) /\ UNCHANGED dir
    BY <1>3, <1>8, <2>1 DEF Decide, history, Turns
  <2>2. QED
    BY <1>1, <1>8, <2>1, DecideTurns, GotoPlace DEF Decide, StoreFails, Turns
<1>9. CASE Send(h)
  <2>1. CASE Drop(h) /\ UNCHANGED asked
    BY <1>3, <1>9, <2>1 DEF Send, Turns
  <2>2. QED
    BY <1>1, <1>9, <2>1, SendTurns, GotoPlace DEF Send, Turns
<1>10. CASE Reply(h)
  BY <1>3, <1>10, ReplyTurns DEF Reply, history, Turns
<1>11. CASE Emit(h)
  <2>1. pc'[h] = "idle" /\ loc'[h] = Blank
    BY <1>1, <1>11, MovesPlace DEF Emit, Exit
  <2>2. QED
    BY <1>11, <2>1 DEF Emit, At, Emits, Turns
<1>12. QED
  BY <1>4, <1>5, <1>6, <1>7, <1>8, <1>9, <1>10, <1>11 DEF Run

\* The labels of the storage steps.
LEMMA StorageLabels ==
    ASSUME NEW h, StorageStep(h)
    PROVE  pc[h] \in {"readdir", "sweep", "seize", "mkdir", "marker", "inspect",
                      "create", "encode", "validate", "snapdir", "lock",
                      "close", "rm", "unlock"}
BY DEF StorageStep, Open, Cleanup, At, ReadBase, Examine, EndSweep, Seize, MakeDir,
       ReadMarker, Inspect, Create, Encode, Validate, SnapDir, TryLock, Close, Remove,
       RemoveDir, Unlock

LEMMA StepTurns ==
    ASSUME Inv, LockInv, Present, NEW h \in Hooks, Step(h)
    PROVE  Turns(h)
<1>1. CASE StorageStep(h)
  <2>1. \A p \in Prompts : dir'[p].state \in {dir[p].state, NoState}
    BY <1>1, StorageEffect, StorageLabels DEF Effect, Harmless, Writes, Unlinks
  <2>2. Alone(h)
    BY <1>1, StorageKinds DEF Kinds
  <2>3. ~loc'[h].out \/ (loc'[h].out = loc[h].out /\ loc'[h].prompt = loc[h].prompt)
    BY <1>1, StorageMemory, BlankOwesNothing DEF Remembers, SameMemory
  <2>4. QED
    BY <1>1, <2>1, <2>2, <2>3, CalmAlone DEF StorageStep, history, Turns
<1>2. QED
  BY <1>1, RunTurns DEF Step

\* The host, a crash and the clock do nothing to a turn but end it.
LEMMA BeginCalm ==
    ASSUME Inv, NEW h \in Hooks, Begin(h)
    PROVE  Calm /\ Alone(h) /\ pc[h] = "idle"
<1>1. Processes
  BY Parts
<1>2. PICK event \in Events, p \in Prompts : SetLoc(h, Fresh(event, p))
  BY DEF Begin
<1>3. PICK label : Goto(h, label)
  BY DEF Begin
<1>4. loc'[h] = Fresh(event, p) /\ Alone(h)
  BY <1>1, <1>2, <1>3, MovesPlace
<1>5. ~loc'[h].out
  BY <1>4 DEF Fresh
<1>6. QED
  BY <1>4, <1>5, CalmAlone, BeginChanges DEF Begin, At

LEMMA CrashCalm ==
    ASSUME Inv, Present, NEW h \in Hooks, Crash(h)
    PROVE  Calm /\ Alone(h) /\ pc'[h] = "idle" /\ loc'[h] = Blank
<1>1. Processes
  BY Parts
<1>2. Alone(h) /\ pc'[h] = "idle" /\ loc'[h] = Blank
  BY <1>1, MovesPlace DEF Crash, Exit
<1>3. QED
  BY <1>2, CrashHarmless, CalmAlone, BlankOwesNothing DEF Crash, history, Harmless

LEMMA TickCalm == ASSUME Inv, Present, Tick PROVE Calm
<1>1. \A h \in Hooks : Remembers(h)
  BY TickMemory
<1>2. QED
  BY <1>1, TickHarmless DEF Tick, history, Calm, Owes, Remembers, SameMemory, Harmless

----------------------------------------------------------------------------
\* Storage that does not fail

\* A hook that removes a directory under its lock has the record on its list.
Listed(h) ==
    pc[h] = "rm" /\ lock[loc[h].target] = h /\ dir[loc[h].target].state # NoState
        => "state" \in loc[h].rest

\* A record without its marker is in a removal that is going on, or is never
\* looked at again.
Tidy(p) ==
    dir[p].state # NoState /\ ~Valid(dir[p]) =>
        lock[p] = Dead \/ \E h \in Hooks : lock[p] = h /\ pc[h] = "rm"

\* A submission that goes on to a baseline has found no record.
Turning(h) ==
    pc[h] \in {"snapshot", "save"} /\ loc[h].event = "UserPromptSubmit" =>
        dir[loc[h].prompt].state = NoState

Clean ==
    ~Faulty => /\ \A h \in Hooks : Listed(h) /\ Turning(h)
               /\ \A p \in Prompts : Tidy(p)

\* What a step of h may do to a lock.
LEMMA LockChange ==
    ASSUME Inv, NEW h \in Hooks, Kinds(h), NEW p \in Prompts
    PROVE  \/ lock'[p] = lock[p]
           \/ lock[p] \in {Free, h} /\ lock'[p] \in {Free, h, Dead}
<1>1. Locks /\ loc[h].prompt \in Prompts /\ loc[h].target \in Prompts
  BY Parts, Typed
<1>2. CASE KeepLock
  BY <1>2 DEF KeepLock
<1>3. ASSUME NEW q \in Prompts, Take(h, q) \/ Strand(q) \/ Release(h, q)
      PROVE  \/ lock'[p] = lock[p]
             \/ lock[p] \in {Free, h} /\ lock'[p] \in {Free, h, Dead}
  BY <1>1, <1>3 DEF Take, Strand, Release, KeepLock, Locks
<1>4. QED
  BY <1>1, <1>2, <1>3 DEF Kinds, Outside, Inside, Taking, Passing, Giving

LEMMA RunLabels ==
    ASSUME Inv, NEW h \in Hooks, Run(h)
    PROVE  pc[h] \in Work \cup {"emit"} /\ pc'[h] \in Work \cup {"close", "unlock", "idle"}
<1>1. Processes
  BY Parts
<1>2. Keep(h) \/ Drop(h) \/ Leave(h, "unlock", TRUE) => pc'[h] \in {"close", "unlock"}
  BY LeaveMemory DEF Keep, Drop
<1>3. \A label : Goto(h, label) => pc'[h] = label
  BY <1>1, GotoPlace
<1>4. QED
  BY <1>2, <1>3 DEF Run, LoadSubmit, LoadStop, Snapshot, SaveBaseline, Decide, Send,
       Reply, Emit, Exit, At, Work

\* A removal starts with the listing and goes on entry by entry.
LEMMA RemovalSteps ==
    ASSUME Inv, NEW h \in Hooks, Step(h), pc'[h] = "rm"
    PROVE  (Close(h) /\ Valid(dir[loc[h].target])) \/ Remove(h)
<1>1. Processes
  BY Parts
<1>2. \A label : Goto(h, label) => pc'[h] = label
  BY <1>1, GotoPlace
<1>3. ~Run(h)
  BY RunLabels DEF Work
<1>4. QED
  BY <1>2, <1>3
     DEF Step, StorageStep, Open, Cleanup, ReadBase, Examine, EndSweep, Seize, MakeDir,
         ReadMarker, Inspect, Create, Encode, Validate, SnapDir, TryLock, Close,
         RemoveDir, Unlock, Exit

LEMMA RestPlace ==
    ASSUME Processes, NEW h \in Hooks, NEW r, SetLoc(h, [loc[h] EXCEPT !.rest = r])
    PROVE  loc'[h].rest = r /\ loc'[h].target = loc[h].target
<1> DEFINE m == [loc[h] EXCEPT !.rest = r]
<1>1. m.rest = r /\ m.target = loc[h].target
  BY DEF Processes, Locals
<1>2. SetLoc(h, m)
  OBVIOUS
<1> HIDE DEF m
<1>3. QED
  BY <1>1, <1>2, SetLocPlace

LEMMA OwnListed ==
    ASSUME Inv, LockInv, ~Faulty, NEW h \in Hooks, Listed(h), Step(h)
    PROVE  Listed(h)'
<1> DEFINE q == loc[h].target
<1> SUFFICES ASSUME pc'[h] = "rm" PROVE Listed(h)'
  BY DEF Listed
<1>1. Processes /\ Stored /\ loc[h] \in Locals /\ q \in Prompts /\ dir[q] \in Directory
      /\ loc[h].rest \subseteq {"marker", "snap", "state"}
  BY Parts, Typed
<1>2. CASE Close(h) /\ Valid(dir[q])
  <2>1. loc'[h].rest = Entries(dir[q]) /\ loc'[h].target = q /\ dir' = dir
    BY <1>1, <1>2, RestPlace DEF Close
  <2>2. QED
    BY <2>1 DEF Listed, Entries
<1>3. CASE Remove(h)
  <2>1. PICK e \in loc[h].rest :
          /\ SetLoc(h, [loc[h] EXCEPT !.rest = loc[h].rest \ {e}])
          /\ IF e \in Entries(dir[q]) THEN SetDir(q, Without(dir[q], e))
                                      ELSE UNCHANGED dir
    BY <1>3 DEF Remove
  <2>2. loc'[h].rest = loc[h].rest \ {e} /\ loc'[h].target = q
    BY <1>1, <2>1, RestPlace
  <2>3. dir'[q].state # NoState => dir[q].state # NoState /\ e # "state"
    <3>1. CASE e \in Entries(dir[q])
      BY <1>1, <2>1, <3>1, SetDirPlace, WithoutValues
    <3>2. CASE e \notin Entries(dir[q])
      BY <2>1, <3>2 DEF Entries
    <3>3. QED
      BY <3>1, <3>2
  <2>4. pc[h] = "rm" /\ lock' = lock
    BY <1>3 DEF Remove, At
  <2>5. QED
    BY <2>2, <2>3, <2>4 DEF Listed
<1>4. QED
  BY <1>2, <1>3, RemovalSteps

\* A hook that loads holds the lock, so it sees no record that is half removed.
LEMMA LoadsTidy ==
    ASSUME Inv, LockInv, Present, NEW h \in Hooks, pc[h] = "load", Tidy(loc[h].prompt),
           NotExist(dir[loc[h].prompt])
    PROVE  dir[loc[h].prompt].state = NoState
<1>1. lock[loc[h].prompt] = h /\ loc[h].prompt \in Prompts
  BY Parts, Typed DEF LockInv, Disciplined, Critical, Work
<1>2. QED
  BY <1>1, HookNames DEF NotExist, Missing, Valid, Present, Tidy

LEMMA OwnTurning ==
    ASSUME Inv, LockInv, Present, NEW h \in Hooks, Tidy(loc[h].prompt),
           Turning(h), Run(h)
    PROVE  Turning(h)'
<1> SUFFICES ASSUME pc'[h] \in {"snapshot", "save"}, loc'[h].event = "UserPromptSubmit"
             PROVE  dir'[loc'[h].prompt].state = NoState
  BY DEF Turning
<1>1. /\ Processes /\ loc[h] \in Locals /\ loc[h].prompt \in Prompts
      /\ \A label : Goto(h, label) => pc'[h] = label
  BY Parts, Typed, GotoPlace
<1>2. ~(Keep(h) \/ Drop(h) \/ Leave(h, "unlock", TRUE))
  <2>1. ~ \E label \in {"unlock", "close"}, out \in BOOLEAN : Leave(h, label, out)
    BY LeaveMemory
  <2>2. QED
    BY <2>1 DEF Keep, Drop
<1>3. CASE LoadSubmit(h)
  BY <1>2, <1>3, LoadsTidy DEF LoadSubmit, At
<1>4. CASE LoadStop(h)
  <2>1. PICK b, m : SetLoc(h, [loc[h] EXCEPT !.active = b, !.mem = m])
    BY <1>2, <1>4 DEF LoadStop
  <2>2. [loc[h] EXCEPT !.active = b, !.mem = m].event = "Stop"
    BY <1>1, <1>4 DEF LoadStop, Locals
  <2>3. loc'[h].event = "Stop"
    BY <1>1, <2>1, <2>2, SetLocPlace
  <2>4. QED
    BY <2>3
<1>5. CASE Snapshot(h)
  <2>1. PICK t : SetLoc(h, [loc[h] EXCEPT !.tree = t])
    BY <1>2, <1>5 DEF Snapshot
  <2>2. LET l == [loc[h] EXCEPT !.tree = t]
        IN  l.event = loc[h].event /\ l.prompt = loc[h].prompt
    BY <1>1 DEF Locals
  <2>3. loc'[h].event = loc[h].event /\ loc'[h].prompt = loc[h].prompt
    BY <1>1, <2>1, <2>2, SetLocPlace
  <2>4. QED
    BY <1>1, <1>5, <2>3, SnapshotHarmless DEF Snapshot, At, Turning, Harmless
<1>6. QED
  BY <1>1, <1>2, <1>3, <1>4, <1>5
     DEF Run, SaveBaseline, Decide, Send, Reply, Emit, Exit

\* A record left without its marker.
LEMMA StepTidy ==
    ASSUME Inv, LockInv, Present, NEW h \in Hooks, Listed(h), Step(h),
           NEW p \in Prompts, Tidy(p)
    PROVE  Tidy(p)'
<1> SUFFICES ASSUME dir'[p].state # NoState, ~Valid(dir'[p])
             PROVE  lock'[p] = Dead \/ \E g \in Hooks : lock'[p] = g /\ pc'[g] = "rm"
  BY DEF Tidy, Valid
<1>1. Effect(h) /\ Kinds(h)
  BY StepEffect
<1>2. Placed(h) /\ Disciplined(h)
  BY DEF LockInv
<1>3. CASE Unlinks(h, p)
  <2>1. lock[p] = h \/ lock[p] = Dead
    BY <1>2, <1>3, HoldingLabels DEF Unlinks, Disciplined, Placed, Retired
  <2>2. Remove(h)
    BY <1>3, RemovalSteps DEF Unlinks, Close, At
  <2>3. lock' = lock /\ pc'[h] = "rm"
    BY <1>3, <2>2 DEF Remove, Unlinks
  <2>4. QED
    BY <2>1, <2>3
<1>4. CASE Harmless(p)
  <2>1. dir[p].state # NoState /\ ~Valid(dir[p])
    BY <1>4 DEF Harmless
  <2>2. CASE lock[p] = Dead
    BY <1>1, <2>2, DeadStays
  <2>3. ASSUME NEW g \in Hooks \ {h}, lock[p] = g, pc[g] = "rm"
        PROVE  lock'[p] = g /\ pc'[g] = "rm"
    BY <1>1, <2>3, LockChange, HookNames DEF Kinds, Alone
  <2>4. CASE lock[p] = h /\ pc[h] = "rm"
    <3>1. loc[h].target = p
      BY <1>2, <2>4 DEF Disciplined, Held, Placed
    <3>2. loc[h].rest # {}
      BY <2>1, <2>4, <3>1 DEF Listed
    <3>3. ~Run(h)
      BY <2>4, RunLabels DEF Work
    <3>4. Remove(h)
      BY <2>4, <3>2, <3>3
         DEF Step, StorageStep, Open, Cleanup, ReadBase, Examine, EndSweep, Seize,
             MakeDir, ReadMarker, Inspect, Create, Encode, Validate, SnapDir, TryLock,
             Close, RemoveDir, Unlock, At
    <3>5. QED
      BY <2>4, <3>4 DEF Remove
  <2>5. QED
    BY <2>1, <2>2, <2>3, <2>4 DEF Tidy
<1>5. QED
  BY <1>1, <1>3, <1>4 DEF Effect, Writes

\* The hook is where it was, and nothing has happened to its directories.
LEMMA OthersClean ==
    ASSUME NEW g \in Hooks, Listed(g), Turning(g),
           pc'[g] = pc[g], Remembers(g),
           loc'[g].rest = loc[g].rest, loc'[g].target = loc[g].target,
           pc[g] = "rm" /\ lock'[loc[g].target] = g =>
             lock[loc[g].target] = g /\ Harmless(loc[g].target),
           pc[g] \in Work => Harmless(loc[g].prompt)
    PROVE  Listed(g)' /\ Turning(g)'
BY DEF Listed, Turning, Remembers, SameMemory, Harmless, Work

LEMMA StepClean ==
    ASSUME Inv, LockInv, Present, Clean, ~Faulty, NEW h \in Hooks, Step(h)
    PROVE  Clean'
<1>1. Effect(h) /\ Kinds(h)
  BY StepEffect
<1>2. \A p \in Prompts : Tidy(p)'
  BY StepTidy DEF Clean
<1>3. Listed(h)' /\ Turning(h)'
  <2>1. Listed(h)'
    BY OwnListed DEF Clean
  <2>2. CASE StorageStep(h)
    <3>1. pc'[h] \notin {"snapshot", "save"}
      BY <2>2, StorageMemory DEF Quiet, Labels, Work
    <3>2. QED
      BY <2>1, <3>1 DEF Turning
  <2>3. CASE Run(h)
    <3>1. Tidy(loc[h].prompt)
      BY Parts, Typed DEF Clean
    <3>2. QED
      BY <2>1, <2>3, <3>1, OwnTurning DEF Clean
  <2>4. QED
    BY <2>2, <2>3 DEF Step
<1>4. ASSUME NEW g \in Hooks \ {h} PROVE Listed(g)' /\ Turning(g)'
  <2>1. /\ pc'[g] = pc[g] /\ Remembers(g)
        /\ loc'[g].rest = loc[g].rest /\ loc'[g].target = loc[g].target
    BY <1>1 DEF Kinds, Alone, Remembers, SameMemory
  <2>2. loc[g].target \in Prompts
    BY Parts, Typed
  <2>3. lock'[loc[g].target] = g =>
          lock[loc[g].target] = g /\ Harmless(loc[g].target)
    BY <1>1, <2>2, LockChange, Undisturbed, HookNames
  <2>4. pc[g] \in Work => Harmless(loc[g].prompt)
    BY <1>1, WorkUndisturbed DEF Critical
  <2>5. QED
    BY <2>1, <2>3, <2>4, OthersClean DEF Clean
<1>5. QED
  BY <1>2, <1>3, <1>4 DEF Clean

LEMMA NextClean ==
    Inv /\ LockInv /\ Present /\ Clean /\ [Next]_vars => Clean'
<1> SUFFICES ASSUME Inv, LockInv, Present, Clean, [Next]_vars, ~Faulty PROVE Clean'
  BY DEF Clean
<1>0. Processes
  BY Parts
<1>1. ASSUME NEW h \in Hooks, Begin(h) PROVE Clean'
  <2>1. /\ Alone(h) /\ pc[h] = "idle" /\ pc'[h] \in {"readdir", "mkdir"}
        /\ UNCHANGED <<dir, lock>>
    BY <1>0, <1>1, BeginCalm, GotoPlace DEF Begin
  <2>2. \A g \in Hooks : Listed(g)' /\ Turning(g)'
    BY <2>1 DEF Clean, Alone, Listed, Turning
  <2>3. \A p \in Prompts : Tidy(p)'
    BY <2>1 DEF Clean, Alone, Tidy, Valid
  <2>4. QED
    BY <2>2, <2>3 DEF Clean
<1>2. ASSUME NEW h \in Hooks, Step(h) PROVE Clean'
  BY <1>2, StepClean
<1>3. ASSUME NEW h \in Hooks, Crash(h) PROVE Clean'
  <2>1. /\ Alone(h) /\ pc'[h] = "idle" /\ \A p \in Prompts : Harmless(p)
        /\ \A p \in Prompts : lock'[p] = IF lock[p] = h THEN Dead ELSE lock[p]
    BY <1>3, CrashCalm, CrashHarmless DEF Crash
  <2>2. \A p \in Prompts : Tidy(p)'
    BY <2>1 DEF Clean, Alone, Tidy, Harmless
  <2>3. ASSUME NEW g \in Hooks \ {h} PROVE Listed(g)' /\ Turning(g)'
    <3>1. loc[g].prompt \in Prompts /\ loc[g].target \in Prompts /\ Listed(g) /\ Turning(g)
      BY Parts, Typed DEF Clean
    <3>2. /\ pc'[g] = pc[g] /\ Remembers(g)
          /\ loc'[g].rest = loc[g].rest /\ loc'[g].target = loc[g].target
      BY <2>1 DEF Alone, Remembers, SameMemory
    <3>3. QED
      BY <2>1, <3>1, <3>2, OthersClean, HookNames
  <2>4. Listed(h)' /\ Turning(h)'
    BY <2>1 DEF Listed, Turning
  <2>5. QED
    BY <2>2, <2>3, <2>4 DEF Clean
<1>4. CASE Tick
  <2>1. pc' = pc /\ lock' = lock /\ \A p \in Prompts : Harmless(p)
    BY <1>4, TickHarmless DEF Tick
  <2>2. \A p \in Prompts : Tidy(p)'
    BY <2>1 DEF Clean, Tidy, Harmless
  <2>3. ASSUME NEW g \in Hooks PROVE Listed(g)' /\ Turning(g)'
    <3>1. /\ loc[g] \in Locals /\ loc[g].prompt \in Prompts /\ loc[g].target \in Prompts
          /\ Listed(g) /\ Turning(g)
      BY Parts, Typed DEF Clean
    <3>2. loc'[g] \in {loc[g], [loc[g] EXCEPT !.ticked = TRUE]}
      BY <1>4 DEF Tick
    <3>3. loc'[g].rest = loc[g].rest /\ loc'[g].target = loc[g].target
      BY <3>1, <3>2 DEF Locals
    <3>4. QED
      BY <1>4, <2>1, <3>1, <3>3, TickMemory, OthersClean
  <2>4. QED
    BY <2>2, <2>3 DEF Clean
<1>5. CASE UNCHANGED vars
  BY <1>5 DEF vars, Clean, Listed, Turning, Tidy, Valid
<1>6. QED
  BY <1>1, <1>2, <1>3, <1>4, <1>5 DEF Next

LEMMA InitClean == Init => Clean
BY DEF Init, Clean, Listed, Turning, Tidy, Absent

----------------------------------------------------------------------------
\* Submissions that are delivered once

\* The hook carries the submission of its prompt.
Delivering(h) == pc[h] # "idle" /\ loc[h].event = "UserPromptSubmit"

\* It has left its run: it unlocks, then writes its output.
Ending(h) == pc[h] \in {"unlock", "emit"} /\ ~loc[h].sweeping

\* A prompt whose baseline is saved has no submission left that could save it.
Delivered(h) ==
    Delivering(h) => /\ loc[h].prompt \in submitted
                     /\ loc[h].prompt \in armed => Ending(h)

\* Nothing has happened to the prompt.
Untouched(p) ==
    /\ dir[p].state = NoState /\ asked[p] = 0 /\ granted[p] = 0
    /\ \A h \in Hooks : ~Owes(h, p)

OneEach ==
    \A g, h \in Hooks :
        Delivering(g) /\ Delivering(h) /\ loc[g].prompt = loc[h].prompt => g = h

Once ==
    ~Resubmit => /\ \A h \in Hooks : Delivered(h)
                 /\ OneEach
                 /\ armed \subseteq submitted
                 /\ \A p \in Prompts \ armed : Untouched(p)

LEMMA RunMemory ==
    ASSUME Inv, NEW h \in Hooks, Run(h)
    PROVE  \/ pc'[h] = "idle"
           \/ loc'[h].event = loc[h].event /\ loc'[h].prompt = loc[h].prompt
<1> DEFINE Same(l) == l.event = loc[h].event /\ l.prompt = loc[h].prompt
<1>1. Processes /\ loc[h] \in Locals
  BY Parts, Typed
<1>2. ASSUME Keep(h) \/ Drop(h) \/ Leave(h, "unlock", TRUE) PROVE Same(loc'[h])
  BY <1>2, LeaveMemory DEF Keep, Drop
<1>3. /\ \A b, m : Same([loc[h] EXCEPT !.active = b, !.mem = m])
      /\ \A t : Same([loc[h] EXCEPT !.tree = t])
      /\ \A m : Same([loc[h] EXCEPT !.mem = m])
      /\ Same(loc[h])
  BY <1>1 DEF Locals
<1> HIDE DEF Same
<1>4. ASSUME NEW l, Same(l), SetLoc(h, l) PROVE Same(loc'[h])
  BY <1>1, <1>4, SetLocPlace
<1>5. UNCHANGED loc => Same(loc'[h])
  BY <1>3
<1>6. Exit(h) => pc'[h] = "idle"
  BY <1>1, ExitPlace
<1>7. pc'[h] = "idle" \/ Same(loc'[h])
  BY <1>2, <1>3, <1>4, <1>5, <1>6
     DEF Run, LoadSubmit, LoadStop, Snapshot, SaveBaseline, Decide, Send, Reply, Emit
<1>8. QED
  BY <1>7 DEF Same

\* A hook's own step does not make its submission undelivered.
LEMMA OwnDelivered ==
    ASSUME Inv, LockInv, Present, NEW h \in Hooks, Delivered(h), Step(h), Delivering(h)'
    PROVE  /\ Delivering(h) /\ loc'[h].prompt = loc[h].prompt
           /\ loc[h].prompt \in armed' => Ending(h)'
<1>1. CASE StorageStep(h)
  <2>1. Remembers(h) /\ pc[h] # "idle" /\ armed' = armed
    BY <1>1, StorageMemory, StorageLabels DEF Delivering, StorageStep, history
  <2>2. Delivering(h) /\ loc'[h].prompt = loc[h].prompt
    BY <2>1 DEF Delivering, Remembers, SameMemory
  <2>3. ASSUME Ending(h) PROVE Ending(h)'
    <3>1. pc[h] = "unlock"
      BY <1>1, <2>3, StorageLabels DEF Ending
    <3>2. Unlock(h)
      BY <1>1, <3>1
         DEF StorageStep, Open, Cleanup, At, ReadBase, Examine, EndSweep, Seize, MakeDir,
             ReadMarker, Inspect, Create, Encode, Validate, SnapDir, TryLock, Close,
             Remove, RemoveDir
    <3>3. Goto(h, "emit") /\ UNCHANGED loc
      BY <2>3, <3>2 DEF Unlock, Ending
    <3>4. QED
      BY <2>3, <3>3, Parts, GotoPlace DEF Ending
  <2>4. QED
    BY <2>1, <2>2, <2>3 DEF Delivered
<1>2. CASE Run(h)
  <2>1. pc[h] \in Work \cup {"emit"}
    BY <1>2, RunLabels
  <2>2. Delivering(h) /\ loc'[h].prompt = loc[h].prompt
    BY <1>2, <2>1, RunMemory DEF Delivering, Work
  <2>3. ~Emit(h)
    BY Parts, ExitPlace DEF Emit, Delivering
  <2>4. pc[h] # "emit"
    BY <1>2, <2>3 DEF Run, At, LoadSubmit, LoadStop, Snapshot, SaveBaseline, Decide,
                      Send, Reply
  <2>5. loc[h].prompt \notin armed
    BY <2>1, <2>2, <2>4 DEF Delivered, Ending, Work
  <2>6. CASE Saves(h)
    <3>1. ~loc[h].sweeping
      BY <2>6 DEF LockInv, Placed, Saves
    <3>2. SamePlace(h)
      BY <1>2, <2>6, RunKinds, HoldingLabels DEF Kinds, Saves, Outside, Inside, Taking,
         Passing, Giving
    <3>3. QED
      BY <2>2, <2>6, <3>1, <3>2 DEF Saves, Ending, SamePlace, EqualPlace
  <2>7. CASE ~Saves(h)
    <3>1. armed' = armed
      BY <1>2, <2>7, RunTurns DEF Turns, Calm, Decides, Sends, Reserves, Emits
    <3>2. QED
      BY <2>2, <2>5, <3>1
  <2>8. QED
    BY <2>6, <2>7
<1>3. QED
  BY <1>1, <1>2 DEF Step

LEMMA CalmUntouched ==
    ASSUME Inv, Calm, NEW p \in Prompts, Untouched(p)
    PROVE  Untouched(p)'
BY DEF Calm, Untouched, Owes

\* A Stop at work on a prompt has a record, so the prompt has been touched.
LEMMA StopsTouch ==
    ASSUME Inv, NEW h \in Hooks, pc[h] \in {"decide", "send", "reply"}, Agrees(h)
    PROVE  /\ loc[h].event = "Stop" /\ loc[h].prompt \in Prompts
           /\ loc[h].mem \in Saved /\ loc[h].tree \in Trees
           /\ Valid(dir[loc[h].prompt])
           /\ dir[loc[h].prompt].state = loc[h].mem
           /\ dir[loc[h].prompt].state # NoState
BY Parts, Typed DEF Sound, Agrees

LEMMA StepUntouched ==
    ASSUME Inv, LockInv, Present, RecordedBeforeSend, NEW h \in Hooks, Step(h),
           NEW p \in Prompts, p \notin armed', Untouched(p)
    PROVE  Untouched(p)'
<1>0. Records /\ loc[h].prompt \in Prompts
  BY Parts, Typed
<1>1. CASE Calm
  BY <1>1, CalmUntouched
<1>2. Alone(h)
  BY StepEffect DEF Kinds
<1>3. loc[h].prompt = p => pc[h] \notin {"decide", "send", "reply"}
  BY StopsTouch, RecordedParts DEF Untouched
<1>4. CASE Saves(h)
  BY <1>2, <1>4 DEF Saves, NewRecord, Untouched, Alone, Owes
<1>5. CASE Decides(h)
  BY <1>2, <1>3, <1>5 DEF Decides, NewRecord, Untouched, Alone, Owes
<1>6. CASE Sends(h)
  BY <1>0, <1>3, <1>6 DEF Sends, Records, Untouched, Owes
<1>7. CASE Reserves(h)
  BY <1>2, <1>3, <1>7 DEF Reserves, NewRecord, Untouched, Alone, Owes
<1>8. CASE Emits(h)
  <2>1. loc[h].out => loc[h].prompt # p
    BY DEF Untouched, Owes
  <2>2. granted'[p] = granted[p]
    BY <1>0, <1>8, <2>1 DEF Emits, Records
  <2>3. QED
    BY <1>2, <1>8, <2>2, BlankOwesNothing DEF Emits, Untouched, Alone, Owes
<1>9. QED
  BY <1>1, <1>4, <1>5, <1>6, <1>7, <1>8, StepTurns DEF Turns

LEMMA StepOnce ==
    ASSUME Inv, LockInv, Present, RecordedBeforeSend, Once, ~Resubmit,
           NEW h \in Hooks, Step(h)
    PROVE  Once'
<1>1. Alone(h) /\ submitted' = submitted /\ Delivered(h)
  BY StepEffect DEF Kinds, Once, Step, StorageStep, Run, history, LoadSubmit, LoadStop,
     Snapshot, SaveBaseline, Decide, Send, Reply, Emit
<1>2. armed' = armed \/ (Saves(h) /\ armed' = armed \cup {loc[h].prompt})
  BY StepTurns DEF Turns, Calm, Saves, Decides, Sends, Reserves, Emits
<1>3. Saves(h) => Delivering(h)
  <2>1. pc[h] = "save" => loc[h].event = "UserPromptSubmit"
    BY Parts, Typed DEF Sound
  <2>2. QED
    BY <2>1 DEF Saves, Delivering
<1>4. \A g \in Hooks : Delivered(g)'
  <2>1. Delivered(h)'
    BY <1>1, OwnDelivered DEF Delivered
  <2>2. ASSUME NEW g \in Hooks \ {h} PROVE Delivered(g)'
    <3>1. pc'[g] = pc[g] /\ loc'[g] = loc[g]
      BY <1>1 DEF Alone
    <3>2. Delivering(g) => (loc[g].prompt \in armed' => loc[g].prompt \in armed)
      BY <1>2, <1>3 DEF Once, OneEach
    <3>3. QED
      BY <1>1, <3>1, <3>2 DEF Once, Delivered, Delivering, Ending
  <2>3. QED
    BY <2>1, <2>2
<1>5. OneEach'
  <2>1. \A g \in Hooks : Delivering(g)' => Delivering(g) /\ loc'[g].prompt = loc[g].prompt
    BY <1>1, OwnDelivered DEF Alone, Delivering
  <2>2. QED
    BY <2>1 DEF Once, OneEach
<1>6. (armed \subseteq submitted)'
  BY <1>1, <1>2, <1>3 DEF Once, Delivered
<1>7. \A p \in Prompts \ armed' : Untouched(p)'
  BY <1>2, StepUntouched DEF Once
<1>8. QED
  BY <1>4, <1>5, <1>6, <1>7 DEF Once

LEMMA NextOnce ==
    Inv /\ LockInv /\ Present /\ RecordedBeforeSend /\ Once /\ [Next]_vars => Once'
<1> SUFFICES ASSUME Inv, LockInv, Present, RecordedBeforeSend, Once, [Next]_vars,
                    ~Resubmit
             PROVE  Once'
  BY DEF Once
<1>0. Processes
  BY Parts
<1>1. ASSUME NEW h \in Hooks, Begin(h) PROVE Once'
  <2>1. PICK p \in Prompts, event \in Events :
          /\ event = "UserPromptSubmit" => p \notin submitted
          /\ submitted' = IF event = "Stop" THEN submitted ELSE submitted \cup {p}
          /\ SetLoc(h, Fresh(event, p))
    BY <1>1 DEF Begin
  <2>2. /\ Calm /\ Alone(h) /\ UNCHANGED <<dir, lock, lockAge, armed, asked, granted>>
        /\ loc'[h] = Fresh(event, p)
    BY <1>0, <1>1, <2>1, BeginCalm, BeginChanges, SetLocPlace
  <2>3. loc'[h].event = event /\ loc'[h].prompt = p
    BY <2>2 DEF Fresh
  <2>4. Delivering(h)' => p \in submitted' /\ p \notin submitted
    BY <2>1, <2>3 DEF Delivering
  <2>5. \A g \in Hooks \ {h} : pc'[g] = pc[g] /\ loc'[g] = loc[g]
    BY <2>2 DEF Alone
  <2>6. \A g \in Hooks : Delivered(g)'
    <3>1. Delivered(h)'
      BY <2>2, <2>3, <2>4 DEF Once, Delivered
    <3>2. \A g \in Hooks \ {h} : Delivered(g)'
      BY <2>1, <2>2, <2>5 DEF Once, Delivered, Delivering, Ending
    <3>3. QED
      BY <3>1, <3>2
  <2>7. OneEach'
    <3>1. ASSUME NEW g \in Hooks \ {h}, Delivering(g)', Delivering(h)'
          PROVE  loc'[g].prompt # loc'[h].prompt
      BY <2>3, <2>4, <2>5, <3>1 DEF Once, Delivered, Delivering
    <3>2. QED
      BY <2>5, <3>1 DEF Once, OneEach, Delivering
  <2>8. (armed \subseteq submitted)' /\ \A q \in Prompts \ armed' : Untouched(q)'
    BY <2>1, <2>2, CalmUntouched DEF Once
  <2>9. QED
    BY <2>6, <2>7, <2>8 DEF Once
<1>2. ASSUME NEW h \in Hooks, Step(h) PROVE Once'
  BY <1>2, StepOnce
<1>3. ASSUME NEW h \in Hooks, Crash(h) PROVE Once'
  <2>1. Calm /\ Alone(h) /\ pc'[h] = "idle" /\ UNCHANGED <<submitted, armed>>
    BY <1>3, CrashCalm DEF Crash, history
  <2>2. \A g \in Hooks : Delivering(g)' => g # h /\ pc'[g] = pc[g] /\ loc'[g] = loc[g]
    BY <2>1 DEF Alone, Delivering
  <2>3. QED
    BY <2>1, <2>2, CalmUntouched DEF Once, Delivered, Delivering, OneEach, Ending
<1>4. CASE Tick
  <2>1. Calm /\ UNCHANGED <<pc, submitted, armed>>
    BY <1>4, TickCalm DEF Tick, history
  <2>2. \A g \in Hooks : /\ loc'[g].event = loc[g].event /\ loc'[g].prompt = loc[g].prompt
                         /\ loc'[g].sweeping <=> loc[g].sweeping
    <3>1. ASSUME NEW g \in Hooks
          PROVE  /\ loc'[g].event = loc[g].event /\ loc'[g].prompt = loc[g].prompt
                 /\ loc'[g].sweeping <=> loc[g].sweeping
      <4>1. loc[g] \in Locals /\ loc'[g] \in {loc[g], [loc[g] EXCEPT !.ticked = TRUE]}
        BY <1>4, Parts, Typed DEF Tick
      <4>2. QED
        BY <4>1 DEF Locals
    <3>2. QED
      BY <3>1
  <2>3. QED
    BY <2>1, <2>2, CalmUntouched DEF Once, Delivered, Delivering, OneEach, Ending
<1>5. CASE UNCHANGED vars
  BY <1>5 DEF vars, Once, Delivered, Delivering, OneEach, Ending, Untouched, Owes
<1>6. QED
  BY <1>1, <1>2, <1>3, <1>4, <1>5 DEF Next

LEMMA InitOnce == Init => Once
BY BlankOwesNothing DEF Init, Once, Delivered, Delivering, OneEach, Untouched, Owes, Absent

----------------------------------------------------------------------------
\* The baseline of a record

LEMMA NewTurn ==
    ASSUME Inv, Clean, Once, ~Faulty \/ ~Resubmit, NEW h \in Hooks, Saves(h)
    PROVE  /\ dir[loc[h].prompt].state = NoState
           /\ ~Resubmit => loc[h].prompt \notin armed /\ Untouched(loc[h].prompt)
<1>1. loc[h].event = "UserPromptSubmit" /\ pc[h] = "save" /\ loc[h].prompt \in Prompts
  BY Parts, Typed DEF Sound, Saves
<1>2. CASE ~Resubmit
  BY <1>1, <1>2 DEF Once, Delivered, Delivering, Ending, Untouched
<1>3. CASE Resubmit
  BY <1>1, <1>3 DEF Clean, Turning
<1>4. QED
  BY <1>2, <1>3

LEMMA KnownCounts ==
    ASSUME Inv, NEW p \in Prompts, dir[p].state # NoState
    PROVE  dir[p].state \in Saved /\ dir[p].state.count \in {0, 1}
<1>1. dir[p].state \in Saved
  BY Parts, Fields DEF Stored
<1>2. QED
  BY <1>1 DEF Saved

LEMMA CalmBaseline == ASSUME Inv, Calm PROVE BaselineFixedStep
BY KnownCounts DEF Calm, BaselineFixedStep

LEMMA StepBaseline ==
    ASSUME Inv, LockInv, Present, RecordedBeforeSend, Clean, Once,
           ~Faulty \/ ~Resubmit, NEW h \in Hooks, Step(h)
    PROVE  BaselineFixedStep
<1>1. CASE Calm
  BY <1>1, CalmBaseline
<1>2. CASE Saves(h)
  BY <1>2, NewTurn, KnownCounts DEF Saves, NewRecord, BaselineFixedStep
<1>3. CASE Decides(h) \/ Reserves(h)
  <2>1. /\ loc[h].mem \in Saved /\ dir[loc[h].prompt].state = loc[h].mem
        /\ loc[h].prompt \in Prompts
    BY <1>3, StopsTouch, RecordedParts DEF Decides, Reserves
  <2>2. PICK c \in BOOLEAN : NewRecord(h, RecordEvaluation(loc[h].mem, loc[h].tree, c))
    BY <1>3 DEF Decides, Reserves
  <2>3. LET t == RecordEvaluation(loc[h].mem, loc[h].tree, c)
        IN  t.base = loc[h].mem.base /\ t.count >= loc[h].mem.count
    BY <2>1, RecordValues DEF Saved
  <2>4. QED
    BY <2>1, <2>2, <2>3, KnownCounts DEF NewRecord, BaselineFixedStep
<1>4. CASE Sends(h) \/ Emits(h)
  BY <1>4, KnownCounts DEF Sends, Emits, BaselineFixedStep
<1>5. QED
  BY <1>1, <1>2, <1>3, <1>4, StepTurns DEF Turns

\* What holds of every state, given what the constants say of the storage and
\* of the host.
LEMMA AlwaysTurns ==
    Spec => [](Inv /\ LockInv /\ Present /\ RecordedBeforeSend /\ Clean /\ Once)
BY InitInv, NextInv, InitLockInv, NextLockInv, InitPresent, NextPresent,
   InitRecorded, NextRecorded, InitClean, NextClean, InitOnce, NextOnce, PTL DEF Spec

\* A second submission never moves a baseline forward, and a continuation once
\* counted is never uncounted, if removals do not fail or each submission is
\* delivered once.  Without either it takes three hooks to break it: a cleanup
\* unlinks the marker and fails on the record, the second delivery therefore
\* loads nothing, and a hook that found the directory empty before the record
\* was there makes the marker anew (session.go:112), so the old record is
\* overwritten.
THEOREM BaselineKept == ~Faulty \/ ~Resubmit => (Spec => BaselineFixed)
<1> SUFFICES ASSUME ~Faulty \/ ~Resubmit PROVE Spec => BaselineFixed
  OBVIOUS
<1>1. Inv /\ LockInv /\ Present /\ RecordedBeforeSend /\ Clean /\ Once /\ [Next]_vars
        => [BaselineFixedStep]_vars
  <2> SUFFICES ASSUME Inv, LockInv, Present, RecordedBeforeSend, Clean, Once, Next
               PROVE  BaselineFixedStep
    OBVIOUS
  <2>1. ASSUME NEW h \in Hooks, Begin(h) PROVE BaselineFixedStep
    BY <2>1, BeginCalm, CalmBaseline
  <2>2. ASSUME NEW h \in Hooks, Step(h) PROVE BaselineFixedStep
    BY <2>2, StepBaseline
  <2>3. ASSUME NEW h \in Hooks, Crash(h) PROVE BaselineFixedStep
    BY <2>3, CrashCalm, CalmBaseline
  <2>4. CASE Tick
    BY <2>4, TickCalm, CalmBaseline
  <2>5. QED
    BY <2>1, <2>2, <2>3, <2>4 DEF Next
<1>2. QED
  BY <1>1, AlwaysTurns, PTL DEF BaselineFixed, Spec

----------------------------------------------------------------------------
\* One continuation

\* At most one continuation is written or still owed, and neither while the
\* record says that none has been reserved.
Budgeted(p) ==
    /\ granted[p] <= 1
    /\ \A g, h \in Hooks : Owes(g, p) /\ Owes(h, p) => g = h
    /\ \A h \in Hooks : Owes(h, p) => granted[p] = 0
    /\ dir[p].state # NoState /\ dir[p].state.count = 0 =>
         granted[p] = 0 /\ \A h \in Hooks : ~Owes(h, p)

Budget == ~Resubmit => \A p \in Prompts : Budgeted(p)

\* Nothing has changed for the prompt that could matter to its continuation.
LEMMA CalmBudgeted ==
    ASSUME NEW p \in Prompts, Budgeted(p), granted'[p] = granted[p],
           dir'[p].state \in {dir[p].state, NoState},
           \A h \in Hooks : Owes(h, p)' => Owes(h, p)
    PROVE  Budgeted(p)'
BY DEF Budgeted

\* The steps of a turn are about the hook's own prompt.
LEMMA OwnPrompt ==
    ASSUME Inv, NEW h \in Hooks, Alone(h), NEW p \in Prompts \ {loc[h].prompt},
           Saves(h) \/ Decides(h) \/ Sends(h) \/ Reserves(h) \/ Emits(h)
    PROVE  /\ dir'[p] = dir[p] /\ asked'[p] = asked[p] /\ granted'[p] = granted[p]
           /\ p \in armed' <=> p \in armed
           /\ \A g \in Hooks : Owes(g, p)' <=> Owes(g, p)
<1>1. dir'[p] = dir[p] /\ asked'[p] = asked[p] /\ granted'[p] = granted[p]
  BY Parts DEF Records, Saves, Decides, Sends, Reserves, Emits, NewRecord
<1>2. \A g \in Hooks : Owes(g, p)' <=> Owes(g, p)
  BY BlankOwesNothing DEF Alone, Owes, Saves, Decides, Sends, Reserves, Emits
<1>3. p \in armed' <=> p \in armed
  BY DEF Saves, Decides, Sends, Reserves, Emits
<1>4. QED
  BY <1>1, <1>2, <1>3

LEMMA StepBudget ==
    ASSUME Inv, LockInv, Present, RecordedBeforeSend, Clean, Once, Budget, ~Resubmit,
           NEW h \in Hooks, Step(h), NEW p \in Prompts
    PROVE  Budgeted(p)'
<1>1. Alone(h) /\ Budgeted(p) /\ Records /\ loc[h].prompt \in Prompts
  BY StepEffect, Parts, Typed DEF Kinds, Budget
<1>2. CASE Calm
  BY <1>1, <1>2, CalmBudgeted DEF Calm
<1>3. CASE ~Calm /\ loc[h].prompt # p
  BY <1>1, <1>3, OwnPrompt, CalmBudgeted, StepTurns DEF Turns
<1>4. CASE loc[h].prompt = p /\ Saves(h)
  <2>1. granted[p] = 0 /\ \A g \in Hooks : ~Owes(g, p)
    BY <1>4, NewTurn DEF Untouched
  <2>2. granted'[p] = 0 /\ \A g \in Hooks : ~Owes(g, p)'
    BY <1>1, <1>4, <2>1 DEF Saves, Alone, Owes
  <2>3. QED
    BY <2>2 DEF Budgeted
<1>5. CASE loc[h].prompt = p /\ Decides(h)
  <2>1. dir[p].state # NoState /\ dir[p].state.count = 0
    BY <1>5, StopsTouch, RecordedParts DEF Decides, ShouldEvaluate, CanContinue
  <2>2. granted[p] = 0 /\ \A g \in Hooks : ~Owes(g, p)
    BY <1>1, <2>1 DEF Budgeted
  <2>3. granted'[p] = 0 /\ \A g \in Hooks : ~Owes(g, p)'
    BY <1>1, <1>5, <2>2 DEF Decides, Alone, Owes
  <2>4. QED
    BY <2>3 DEF Budgeted
<1>6. CASE Sends(h)
  BY <1>1, <1>6, CalmBudgeted DEF Sends, Owes
<1>7. CASE loc[h].prompt = p /\ Reserves(h)
  <2>1. /\ loc[h].mem \in Saved
        /\ dir[p].state # NoState /\ dir[p].state.count = 0
    BY <1>7, StopsTouch, RecordedParts DEF Reserves
  <2>2. granted[p] = 0 /\ \A g \in Hooks : ~Owes(g, p)
    BY <1>1, <2>1 DEF Budgeted
  <2>3. granted'[p] = 0 /\ \A g \in Hooks \ {h} : ~Owes(g, p)'
    BY <1>1, <1>7, <2>2 DEF Reserves, Alone, Owes
  <2>4. dir'[p].state.count = 1
    <3> DEFINE st == RecordEvaluation(loc[h].mem, loc[h].tree, TRUE)
    <3>1. st.count = loc[h].mem.count + 1
      BY <2>1, RecordValues
    <3>2. NewRecord(h, st) /\ loc[h].mem.count = 0
      BY <1>7 DEF Reserves
    <3> HIDE DEF st
    <3>3. QED
      BY <1>7, <3>1, <3>2 DEF NewRecord
  <2>5. QED
    BY <2>3, <2>4 DEF Budgeted
<1>8. CASE loc[h].prompt = p /\ Emits(h)
  <2>1. CASE loc[h].out
    <3>1. Owes(h, p)
      BY <1>8, <2>1 DEF Owes
    <3>2. granted[p] = 0 /\ \A g \in Hooks \ {h} : ~Owes(g, p)
      BY <1>1, <3>1 DEF Budgeted
    <3>3. granted'[p] = 1
      BY <1>1, <1>8, <2>1, <3>2 DEF Emits, Records, Count, Cap
    <3>4. \A g \in Hooks : ~Owes(g, p)'
      BY <1>1, <1>8, <3>2, BlankOwesNothing DEF Emits, Alone, Owes
    <3>5. ~(dir[p].state # NoState /\ dir[p].state.count = 0)
      BY <1>1, <3>1 DEF Budgeted
    <3>6. QED
      BY <1>8, <3>3, <3>4, <3>5 DEF Budgeted, Emits
  <2>2. CASE ~loc[h].out
    <3>1. granted'[p] = granted[p] /\ dir'[p] = dir[p]
      BY <1>8, <2>2 DEF Emits
    <3>2. \A g \in Hooks : Owes(g, p)' => Owes(g, p)
      BY <1>1, <1>8, BlankOwesNothing DEF Emits, Alone, Owes
    <3>3. QED
      BY <1>1, <3>1, <3>2, CalmBudgeted
  <2>3. QED
    BY <2>1, <2>2
<1>9. QED
  BY <1>2, <1>3, <1>4, <1>5, <1>6, <1>7, <1>8, StepTurns DEF Turns

LEMMA NextBudget ==
    Inv /\ LockInv /\ Present /\ RecordedBeforeSend /\ Clean /\ Once /\ Budget
      /\ [Next]_vars => Budget'
<1> SUFFICES ASSUME Inv, LockInv, Present, RecordedBeforeSend, Clean, Once, Budget,
                    [Next]_vars, ~Resubmit, NEW p \in Prompts
             PROVE  Budgeted(p)'
  BY DEF Budget
<1>1. Budgeted(p)
  BY DEF Budget
<1>2. CASE Calm
  BY <1>1, <1>2, CalmBudgeted DEF Calm
<1>3. ASSUME NEW h \in Hooks, Step(h) PROVE Budgeted(p)'
  BY <1>3, StepBudget
<1>4. CASE UNCHANGED vars
  BY <1>1, <1>4 DEF vars, Budgeted, Owes
<1>5. QED
  BY <1>2, <1>3, <1>4, BeginCalm, CrashCalm, TickCalm DEF Next

LEMMA InitBudget == Init => Budget
BY BlankOwesNothing DEF Init, Budget, Budgeted, Owes

LEMMA AlwaysBudget == Spec => []Budget
BY AlwaysTurns, InitBudget, NextBudget, PTL DEF Spec

\* A prompt whose submission is delivered once is continued at most once, in
\* either storage, whatever fails, whoever is killed and however many hooks of
\* the prompt run at the same time.
THEOREM ContinuedOnce == ~Resubmit => (Spec => []OneContinuation)
<1> SUFFICES ASSUME ~Resubmit PROVE Spec => []OneContinuation
  OBVIOUS
<1>1. Budget => OneContinuation
  BY DEF Budget, Budgeted, OneContinuation
<1>2. QED
  BY <1>1, AlwaysBudget, PTL

----------------------------------------------------------------------------
\* One request for each record

\* A record that names a diff and no continuation.
Half(p) ==
    /\ dir[p].state # NoState
    /\ dir[p].state.last # None /\ dir[p].state.count = 0

\* Such a record is in the hands of the hook that wrote it, which answers or
\* removes it, or nobody will ever look at it again.
Attended(p) ==
    \/ lock[p] = Dead
    \/ \E h \in Hooks : lock[p] = h /\ pc[h] \in {"send", "reply", "close", "rm"}

\* Before a record names a diff nothing has been asked.
Unasked(p) ==
    dir[p].state # NoState /\ dir[p].state.last = None =>
        asked[p] = 0 /\ dir[p].state.count = 0

Asking(h) ==
    /\ pc[h] = "send" => asked[loc[h].prompt] = 0 /\ loc[h].mem.count = 0
    /\ pc[h] = "reply" => asked[loc[h].prompt] = 1

Asks ==
    ~Resubmit /\ ~Faulty =>
        /\ \A p \in Prompts : (Half(p) => Attended(p)) /\ Unasked(p)
        /\ \A h \in Hooks : Asking(h)

\* What a hook decides on says nothing about the prompt's requests yet.
LEMMA Decision ==
    ASSUME Inv, LockInv, RecordedBeforeSend, Asks, ~Resubmit, ~Faulty,
           NEW h \in Hooks, Decides(h)
    PROVE  LET p == loc[h].prompt
           IN  /\ p \in Prompts /\ lock[p] = h
               /\ dir[p].state # NoState /\ dir[p].state.count = 0
               /\ dir[p].state.last = None /\ asked[p] = 0
               /\ dir'[p].state # NoState /\ dir'[p].state.count = 0
               /\ dir'[p].state.last # None
               /\ loc'[h].mem.count = 0
<1> DEFINE p == loc[h].prompt
           st == RecordEvaluation(loc[h].mem, loc[h].tree, FALSE)
<1>1. /\ p \in Prompts /\ loc[h].mem \in Saved /\ loc[h].tree \in Trees
      /\ dir[p].state = loc[h].mem /\ loc[h].mem # NoState
  BY StopsTouch, RecordedParts DEF Decides
<1>2. loc[h].mem.count = 0
  BY DEF Decides, ShouldEvaluate, CanContinue
<1>3. lock[p] = h /\ pc[h] = "decide"
  BY DEF LockInv, Disciplined, Critical, Work, Decides
<1>4. dir[p].state.last = None
  BY <1>1, <1>2, <1>3, HookNames DEF Asks, Half, Attended
<1>5. asked[p] = 0
  BY <1>1, <1>4 DEF Asks, Unasked
<1>6. st \in Saved /\ st.count = loc[h].mem.count /\ st.last = loc[h].tree
  BY <1>1, RecordType, RecordValues
<1>7. NewRecord(h, st) /\ loc'[h].mem = st
  BY DEF Decides
<1> HIDE DEF st
<1>8. dir'[p].state = st
  BY <1>7 DEF NewRecord
<1>9. QED
  BY <1>1, <1>2, <1>3, <1>4, <1>5, <1>6, <1>7, <1>8, TypeAssumption

\* While a request is sent or answered the record names its diff.
LEMMA InFlight ==
    ASSUME Inv, LockInv, RecordedBeforeSend, NEW h \in Hooks, pc[h] \in {"send", "reply"}
    PROVE  LET p == loc[h].prompt
           IN  /\ p \in Prompts /\ lock[p] = h
               /\ loc[h].mem \in Saved /\ loc[h].tree \in Trees
               /\ dir[p].state = loc[h].mem /\ dir[p].state # NoState
               /\ dir[p].state.last = loc[h].tree /\ dir[p].state.last # None
<1>1. lock[loc[h].prompt] = h
  BY DEF LockInv, Disciplined, Critical, Work
<1>2. QED
  BY <1>1, StopsTouch, RecordedParts, TypeAssumption DEF Named

LEMMA Reservation ==
    ASSUME Inv, LockInv, RecordedBeforeSend, NEW h \in Hooks, Reserves(h)
    PROVE  LET p == loc[h].prompt
           IN  /\ p \in Prompts /\ dir[p].state.count = 0
               /\ dir'[p].state # NoState /\ dir'[p].state.count = 1
               /\ dir'[p].state.last # None
<1> DEFINE p == loc[h].prompt
           st == RecordEvaluation(loc[h].mem, loc[h].tree, TRUE)
<1>1. /\ p \in Prompts /\ loc[h].mem \in Saved /\ loc[h].tree \in Trees
      /\ dir[p].state = loc[h].mem
  BY InFlight DEF Reserves
<1>2. NewRecord(h, st) /\ loc[h].mem.count = 0
  BY DEF Reserves
<1>3. st \in Saved /\ st.count = loc[h].mem.count + 1 /\ st.last = loc[h].tree
  BY <1>1, <1>2, RecordType, RecordValues
<1> HIDE DEF st
<1>4. dir'[p].state = st /\ st.count = 1
  BY <1>2, <1>3 DEF NewRecord
<1>5. QED
  BY <1>1, <1>2, <1>3, <1>4, TypeAssumption

LEMMA Baseline ==
    ASSUME Inv, NEW h \in Hooks, Saves(h)
    PROVE  LET p == loc[h].prompt
           IN  /\ p \in Prompts
               /\ dir'[p].state # NoState /\ dir'[p].state.count = 0
               /\ dir'[p].state.last = None
<1> DEFINE st == InitialState(loc[h].tree)
<1>1. loc[h].prompt \in Prompts /\ loc[h].tree \in Trees
  BY Parts, Typed DEF Saves, Sound
<1>2. st \in Saved /\ st.count = 0 /\ st.last = None
  BY <1>1, InitialType DEF InitialState
<1>3. NewRecord(h, st)
  BY DEF Saves
<1> HIDE DEF st
<1>4. QED
  BY <1>1, <1>2, <1>3, TypeAssumption DEF NewRecord

LEMMA StepUnasked ==
    ASSUME Inv, LockInv, Present, RecordedBeforeSend, Clean, Once, Asks,
           ~Resubmit, ~Faulty, NEW h \in Hooks, Step(h), NEW p \in Prompts
    PROVE  Unasked(p)'
<1>1. Alone(h) /\ Unasked(p) /\ loc[h].prompt \in Prompts
  BY StepEffect, Parts, Typed DEF Kinds, Asks
<1>2. CASE Calm
  BY <1>1, <1>2 DEF Calm, Unasked
<1>3. CASE ~Calm /\ loc[h].prompt # p
  BY <1>1, <1>3, OwnPrompt, StepTurns DEF Turns, Unasked
<1>4. CASE loc[h].prompt = p /\ Saves(h)
  <2>1. asked[p] = 0 /\ asked' = asked
    BY <1>4, NewTurn DEF Untouched, Saves
  <2>2. QED
    BY <1>4, <2>1, Baseline DEF Unasked
<1>5. CASE loc[h].prompt = p /\ Decides(h)
  BY <1>5, Decision DEF Unasked
<1>6. CASE loc[h].prompt = p /\ Sends(h)
  <2>1. dir'[p].state.last # None
    BY <1>6, InFlight DEF Sends
  <2>2. QED
    BY <2>1 DEF Unasked
<1>7. CASE loc[h].prompt = p /\ Reserves(h)
  BY <1>7, Reservation DEF Unasked
<1>8. CASE Emits(h)
  BY <1>1, <1>8 DEF Emits, Unasked
<1>9. QED
  BY <1>2, <1>3, <1>4, <1>5, <1>6, <1>7, <1>8, StepTurns DEF Turns

LEMMA StepAsking ==
    ASSUME Inv, LockInv, Present, RecordedBeforeSend, Asks,
           ~Resubmit, ~Faulty, NEW h \in Hooks, Step(h), NEW g \in Hooks
    PROVE  Asking(g)'
<1>1. CASE g # h
  <2>1. pc'[g] = pc[g] /\ loc'[g] = loc[g] /\ Asking(g)
    BY <1>1, StepEffect DEF Kinds, Alone, Asks
  <2>2. pc[g] \in {"send", "reply"} => asked'[loc[g].prompt] = asked[loc[g].prompt]
    BY <1>1, InFlight, SendsUnderLock
  <2>3. QED
    BY <2>1, <2>2 DEF Asking
<1>2. CASE g = h /\ pc'[h] \in {"send", "reply"}
  <2>1. Run(h)
    BY <1>2, StorageMemory DEF Step, Quiet, Labels, Work
  <2>2. Processes
    BY Parts
  <2>3. ~(Keep(h) \/ Drop(h) \/ Leave(h, "unlock", TRUE) \/ Exit(h))
    <3>1. ~ \E label \in {"unlock", "close"}, out \in BOOLEAN : Leave(h, label, out)
      BY <1>2, LeaveMemory
    <3>2. QED
      BY <1>2, <2>2, <3>1, ExitPlace DEF Keep, Drop
  <2>4. \A label : Goto(h, label) => pc'[h] = label
    BY <2>2, GotoPlace
  <2>5. (pc'[h] = "send" /\ Decide(h)) \/ (pc'[h] = "reply" /\ Send(h))
    BY <1>2, <2>1, <2>3, <2>4
       DEF Run, LoadSubmit, LoadStop, Snapshot, SaveBaseline, Decide, Send, Reply, Emit
  <2>6. CASE Decides(h) /\ pc'[h] = "send"
    <3>1. loc'[h].prompt = loc[h].prompt /\ asked' = asked
      BY <2>6 DEF Decides
    <3>2. QED
      BY <1>2, <2>6, <3>1, Decision DEF Asking
  <2>7. CASE Sends(h) /\ pc'[h] = "reply"
    <3>1. loc[h].prompt \in Prompts /\ Records /\ asked[loc[h].prompt] = 0
      BY <2>7, Parts, Typed DEF Sends, Asks, Asking
    <3>2. asked'[loc[h].prompt] = 1 /\ loc' = loc
      BY <2>7, <3>1 DEF Sends, Records, Count, Cap
    <3>3. QED
      BY <1>2, <2>7, <3>2 DEF Asking
  <2>8. QED
    BY <2>5, <2>6, <2>7, DecideTurns, SendTurns
<1>3. QED
  BY <1>1, <1>2 DEF Asking

\* The hook that holds the lock of such a record does not let go of it.
LEMMA HolderAttends ==
    ASSUME Inv, LockInv, Present, RecordedBeforeSend, Clean, ~Faulty,
           NEW h \in Hooks, Step(h), NEW p \in Prompts, Half(p), Half(p)',
           lock[p] = h, pc[h] \in {"send", "reply", "close", "rm"}
    PROVE  lock'[p] = h /\ pc'[h] \in {"send", "reply", "close", "rm"}
<1>1. /\ Processes /\ Stored /\ Placed(h) /\ Disciplined(h) /\ Held(h) = p
      /\ \A label : Goto(h, label) => pc'[h] = label
  BY Parts, GotoPlace DEF LockInv, Disciplined
<1>2. lock' = lock
  BY StepEffect, HoldingLabels
     DEF Kinds, Outside, Inside, Taking, Passing, Giving, KeepLock
<1>3. pc[h] \in {"close", "rm"} => loc[h].target = p
  BY <1>1 DEF Held, Placed
<1>4. pc[h] \in {"send", "reply"} => loc[h].prompt = p
  BY <1>1 DEF Held, Placed
<1>5. CASE pc[h] = "send"
  <2>1. Send(h)
    BY <1>5, StorageLabels
       DEF Step, Run, At, LoadSubmit, LoadStop, Snapshot, SaveBaseline, Decide, Reply, Emit
  <2>2. pc'[h] \in {"reply", "close"}
    BY <1>1, <2>1, DropsPlace DEF Send
  <2>3. QED
    BY <1>2, <2>2
<1>6. CASE pc[h] = "reply"
  <2>1. Reply(h)
    BY <1>6, StorageLabels
       DEF Step, Run, At, LoadSubmit, LoadStop, Snapshot, SaveBaseline, Decide, Send, Emit
  <2>2. Drop(h)
    <3>1. ~Reserves(h)
      BY <1>4, <1>6, Reservation DEF Half
    <3>2. QED
      BY <2>1, <3>1, ReplyTurns DEF Reply
  <2>3. QED
    BY <1>2, <2>2, DropsPlace
<1>7. CASE pc[h] = "close"
  <2>1. Close(h)
    BY <1>7 DEF Step, StorageStep, Run, Open, Cleanup, At, ReadBase, Examine, EndSweep,
       Seize, MakeDir, ReadMarker, Inspect, Create, Encode, Validate, SnapDir, TryLock,
       Remove, RemoveDir, Unlock, LoadSubmit, LoadStop, Snapshot, SaveBaseline, Decide,
       Send, Reply, Emit
  <2>2. Valid(dir[loc[h].target])
    BY <1>3, <1>7, HookNames DEF Clean, Tidy, Half
  <2>3. QED
    BY <1>1, <1>2, <2>1, <2>2 DEF Close
<1>8. CASE pc[h] = "rm"
  <2>1. Remove(h) \/ RemoveDir(h)
    BY <1>8 DEF Step, StorageStep, Run, Open, Cleanup, At, ReadBase, Examine, EndSweep,
       Seize, MakeDir, ReadMarker, Inspect, Create, Encode, Validate, SnapDir, TryLock,
       Close, Unlock, LoadSubmit, LoadStop, Snapshot, SaveBaseline, Decide, Send,
       Reply, Emit
  <2>2. loc[h].rest # {}
    BY <1>3, <1>8 DEF Clean, Listed, Half
  <2>3. QED
    BY <1>2, <1>8, <2>1, <2>2 DEF Remove, RemoveDir
<1>9. QED
  BY <1>5, <1>6, <1>7, <1>8

LEMMA StepAttended ==
    ASSUME Inv, LockInv, Present, RecordedBeforeSend, Clean, Once, Asks,
           ~Resubmit, ~Faulty, NEW h \in Hooks, Step(h), NEW p \in Prompts, Half(p)'
    PROVE  Attended(p)'
<1>1. Kinds(h) /\ Alone(h) /\ loc[h].prompt \in Prompts
  BY StepEffect, Parts, Typed DEF Kinds
<1>2. CASE Half(p)
  <2>1. Attended(p)
    BY <1>2 DEF Asks
  <2>2. CASE lock[p] = Dead
    BY <1>1, <2>2, DeadStays DEF Attended
  <2>3. ASSUME NEW g \in Hooks \ {h}, lock[p] = g, pc[g] \in {"send", "reply", "close", "rm"}
        PROVE  lock'[p] = g /\ pc'[g] = pc[g]
    BY <1>1, <2>3, LockChange, HookNames DEF Alone
  <2>4. CASE lock[p] = h /\ pc[h] \in {"send", "reply", "close", "rm"}
    BY <1>2, <2>4, HolderAttends DEF Attended
  <2>5. QED
    BY <2>1, <2>2, <2>3, <2>4 DEF Attended
<1>3. CASE ~Half(p)
  <2>1. Decides(h) /\ loc[h].prompt = p
    <3>1. ~Calm
      BY <1>3 DEF Calm, Half
    <3>2. loc[h].prompt = p
      BY <1>1, <1>3, <3>1, OwnPrompt, StepTurns DEF Turns, Half
    <3>3. ~Saves(h) /\ ~Reserves(h)
      BY <3>2, Baseline, Reservation DEF Half
    <3>4. ~Sends(h) /\ ~Emits(h)
      BY <1>3 DEF Sends, Emits, Half
    <3>5. QED
      BY <3>1, <3>2, <3>3, <3>4, StepTurns DEF Turns
  <2>2. lock[p] = h /\ pc[h] = "decide" /\ pc'[h] = "send"
    BY <2>1, Decision DEF Decides
  <2>3. lock' = lock
    BY <1>1, <2>2, HoldingLabels
       DEF Kinds, Outside, Inside, Taking, Passing, Giving, KeepLock
  <2>4. QED
    BY <2>2, <2>3 DEF Attended
<1>4. QED
  BY <1>2, <1>3

LEMMA NextAsks ==
    Inv /\ LockInv /\ Present /\ RecordedBeforeSend /\ Clean /\ Once /\ Asks
      /\ [Next]_vars => Asks'
<1> SUFFICES ASSUME Inv, LockInv, Present, RecordedBeforeSend, Clean, Once, Asks,
                    [Next]_vars, ~Resubmit, ~Faulty
             PROVE  Asks'
  BY DEF Asks
<1>0. Processes
  BY Parts
<1>1. ASSUME NEW h \in Hooks, Begin(h) PROVE Asks'
  <2>1. /\ Alone(h) /\ pc[h] = "idle" /\ pc'[h] \in {"readdir", "mkdir"}
        /\ UNCHANGED <<dir, lock, asked>>
    BY <1>0, <1>1, BeginCalm, GotoPlace DEF Begin
  <2>2. \A p \in Prompts : (Half(p)' => Attended(p)') /\ Unasked(p)'
    BY <2>1 DEF Alone, Asks, Half, Attended, Unasked
  <2>3. \A g \in Hooks : Asking(g)'
    BY <2>1 DEF Alone, Asks, Asking
  <2>4. QED
    BY <2>2, <2>3 DEF Asks
<1>2. ASSUME NEW h \in Hooks, Step(h) PROVE Asks'
  BY <1>2, StepUnasked, StepAsking, StepAttended DEF Asks
<1>3. ASSUME NEW h \in Hooks, Crash(h) PROVE Asks'
  <2>1. /\ Alone(h) /\ pc'[h] = "idle" /\ asked' = asked
        /\ \A p \in Prompts : dir'[p].state = dir[p].state
        /\ \A p \in Prompts : lock'[p] = IF lock[p] = h THEN Dead ELSE lock[p]
    BY <1>3, CrashCalm, CrashHarmless DEF Crash, history, Harmless
  <2>2. \A p \in Prompts : (Half(p)' => Attended(p)') /\ Unasked(p)'
    BY <2>1 DEF Alone, Asks, Half, Attended, Unasked
  <2>3. \A g \in Hooks : Asking(g)'
    BY <2>1 DEF Alone, Asks, Asking
  <2>4. QED
    BY <2>2, <2>3 DEF Asks
<1>4. CASE Tick
  <2>1. /\ UNCHANGED <<pc, lock, asked>>
        /\ \A p \in Prompts : dir'[p].state = dir[p].state
        /\ \A h \in Hooks : Remembers(h)
    BY <1>4, TickMemory, TickHarmless DEF Tick, history, Harmless
  <2>2. \A p \in Prompts : (Half(p)' => Attended(p)') /\ Unasked(p)'
    BY <2>1 DEF Asks, Half, Attended, Unasked
  <2>3. \A g \in Hooks : Asking(g)'
    BY <2>1 DEF Asks, Asking, Remembers, SameMemory
  <2>4. QED
    BY <2>2, <2>3 DEF Asks
<1>5. CASE UNCHANGED vars
  BY <1>5 DEF vars, Asks, Half, Attended, Unasked, Asking
<1>6. QED
  BY <1>1, <1>2, <1>3, <1>4, <1>5 DEF Next

LEMMA InitAsks == Init => Asks
BY DEF Init, Asks, Half, Unasked, Asking, Absent

LEMMA AlwaysAsks ==
    Spec => [](Inv /\ LockInv /\ Present /\ RecordedBeforeSend /\ Clean /\ Once
                 /\ Budget /\ Asks)
BY AlwaysTurns, AlwaysBudget, InitAsks, NextAsks, PTL DEF Spec

----------------------------------------------------------------------------
\* The write-ahead guard

Owing(p) == {h \in Hooks : loc[h].out /\ loc[h].prompt = p}

\* Only the prompt p gets anywhere.
Elsewhere(p) ==
    \A q \in Prompts \ {p} : Phase(q)' = Phase(q) /\ Owing(q)' = Owing(q)

PhaseOf == [q \in Prompts |-> Phase(q)]
OwedOf == [q \in Prompts |-> Cardinality(Owing(q))]

LEMMA GuardMoves ==
    ASSUME NEW p \in Prompts, Elsewhere(p)
    PROVE  /\ PhaseOf[p] = Phase(p) /\ OwedOf[p] = Cardinality(Owing(p))
           /\ PhaseOf' = [PhaseOf EXCEPT ![p] = Phase(p)']
           /\ OwedOf' = [OwedOf EXCEPT ![p] = Cardinality(Owing(p)')]
           /\ Phase(p)' = Phase(p) => PhaseOf' = PhaseOf
           /\ Owing(p)' = Owing(p) => OwedOf' = OwedOf
<1>1. \A q \in Prompts : q # p => Phase(q)' = Phase(q)
  BY DEF Elsewhere
<1>2. \A q \in Prompts : q # p => Cardinality(Owing(q))' = Cardinality(Owing(q))
  BY DEF Elsewhere
<1>3. PhaseOf[p] = Phase(p) /\ OwedOf[p] = Cardinality(Owing(p))
  BY DEF PhaseOf, OwedOf
<1>4. PhaseOf' = [PhaseOf EXCEPT ![p] = Phase(p)']
  BY <1>1 DEF PhaseOf
<1>5. OwedOf' = [OwedOf EXCEPT ![p] = Cardinality(Owing(p)')]
  BY <1>2 DEF OwedOf
<1>6. Phase(p)' = Phase(p) => PhaseOf' = PhaseOf
  BY <1>1 DEF PhaseOf
<1>7. Owing(p)' = Owing(p) => OwedOf' = OwedOf
  BY <1>2 DEF OwedOf
<1>8. QED
  BY <1>3, <1>4, <1>5, <1>6, <1>7

LEMMA GuardArm ==
    ASSUME NEW p \in Prompts, Elsewhere(p), Phase(p) = "none", Phase(p)' = "armed",
           Owing(p)' = Owing(p), UNCHANGED <<asked, granted>>
    PROVE  Guard!Next
<1>1. Guard!Arm(p)
  BY GuardMoves DEF Guard!Arm, PhaseOf, OwedOf, Owing
<1>2. QED
  BY <1>1 DEF Guard!Next

LEMMA GuardRecord ==
    ASSUME NEW p \in Prompts, Elsewhere(p), Phase(p) = "armed", Phase(p)' = "asked",
           Owing(p)' = Owing(p), UNCHANGED <<asked, granted>>
    PROVE  Guard!Next
<1>1. Guard!Record(p)
  BY GuardMoves DEF Guard!Record, PhaseOf, OwedOf, Owing
<1>2. QED
  BY <1>1 DEF Guard!Next

LEMMA GuardRequest ==
    ASSUME NEW p \in Prompts, Elsewhere(p), Phase(p) = "asked", Phase(p)' = Phase(p),
           Owing(p)' = Owing(p), asked[p] = 0,
           asked' = [asked EXCEPT ![p] = Count(@)], granted' = granted
    PROVE  Guard!Next
<1>1. PhaseOf[p] = "asked" /\ UNCHANGED <<PhaseOf, OwedOf, granted>>
  BY GuardMoves
<1>2. asked' = [asked EXCEPT ![p] = asked[p] + 1]
  BY DEF Count, Cap
<1>3. Guard!Request(p)
  BY <1>1, <1>2 DEF Guard!Request, PhaseOf, OwedOf, Owing
<1>4. QED
  BY <1>3 DEF Guard!Next

LEMMA GuardReserve ==
    ASSUME NEW p \in Prompts, Elsewhere(p), Phase(p) = "asked", Phase(p)' = "continued",
           asked[p] = 1, Owing(p) = {}, NEW h, Owing(p)' = {h},
           UNCHANGED <<asked, granted>>
    PROVE  Guard!Next
<1>1. Cardinality(Owing(p)) = 0 /\ Cardinality(Owing(p)') = 1
  BY FS_EmptySet, FS_Singleton
<1>2. /\ PhaseOf[p] = "asked" /\ PhaseOf' = [PhaseOf EXCEPT ![p] = "continued"]
      /\ OwedOf' = [OwedOf EXCEPT ![p] = OwedOf[p] + 1]
  BY <1>1, GuardMoves
<1>3. Guard!Reserve(p)
  BY <1>2 DEF Guard!Reserve, PhaseOf, OwedOf, Owing
<1>4. QED
  BY <1>3 DEF Guard!Next

LEMMA GuardGrant ==
    ASSUME NEW p \in Prompts, Elsewhere(p), Phase(p)' = Phase(p), granted[p] = 0,
           NEW h, Owing(p) = {h}, Owing(p)' = {}, asked' = asked,
           granted' = [granted EXCEPT ![p] = Count(@)]
    PROVE  Guard!Next
<1>1. Cardinality(Owing(p)) = 1 /\ Cardinality(Owing(p)') = 0
  BY FS_EmptySet, FS_Singleton
<1>2. /\ OwedOf[p] > 0 /\ UNCHANGED PhaseOf
      /\ OwedOf' = [OwedOf EXCEPT ![p] = OwedOf[p] - 1]
  BY <1>1, GuardMoves
<1>3. granted' = [granted EXCEPT ![p] = granted[p] + 1]
  BY DEF Count, Cap
<1>4. Guard!Grant(p)
  BY <1>2, <1>3 DEF Guard!Grant, PhaseOf, OwedOf, Owing
<1>5. QED
  BY <1>4 DEF Guard!Next

LEMMA GuardLose ==
    ASSUME NEW p \in Prompts, Elsewhere(p), Phase(p)' = Phase(p),
           NEW h, Owing(p) = {h}, Owing(p)' = {}, UNCHANGED <<asked, granted>>
    PROVE  Guard!Next
<1>1. Cardinality(Owing(p)) = 1 /\ Cardinality(Owing(p)') = 0
  BY FS_EmptySet, FS_Singleton
<1>2. /\ OwedOf[p] > 0 /\ UNCHANGED PhaseOf
      /\ OwedOf' = [OwedOf EXCEPT ![p] = OwedOf[p] - 1]
  BY <1>1, GuardMoves
<1>3. Guard!Lose(p)
  BY <1>2 DEF Guard!Lose, PhaseOf, OwedOf, Owing
<1>4. QED
  BY <1>3 DEF Guard!Next

LEMMA GuardClose ==
    ASSUME NEW p \in Prompts, Elsewhere(p),
           Phase(p) \in {"armed", "asked", "continued"}, Phase(p)' = "closed",
           Owing(p)' = Owing(p), UNCHANGED <<asked, granted>>
    PROVE  Guard!Next
<1>1. Guard!Close(p)
  BY GuardMoves DEF Guard!Close, PhaseOf, OwedOf, Owing
<1>2. QED
  BY <1>1 DEF Guard!Next

LEMMA GuardStutter ==
    ASSUME \A p \in Prompts : Phase(p)' = Phase(p) /\ Owing(p)' = Owing(p),
           UNCHANGED <<asked, granted>>
    PROVE  UNCHANGED Guard!vars
BY DEF Guard!vars, Owing

\* What a phase says of the record, before and after a step.
LEMMA PhaseValues ==
    ASSUME NEW p
    PROVE  /\ p \notin armed => Phase(p) = "none"
           /\ p \in armed /\ dir[p].state = NoState => Phase(p) = "closed"
           /\ p \in armed /\ dir[p].state # NoState =>
                /\ dir[p].state.count = 1 => Phase(p) = "continued"
                /\ dir[p].state.count = 0 =>
                     Phase(p) = IF dir[p].state.last = None THEN "armed" ELSE "asked"
BY DEF Phase

LEMMA NextPhaseValues ==
    ASSUME NEW p
    PROVE  /\ p \in armed' /\ dir'[p].state = NoState => Phase(p)' = "closed"
           /\ p \in armed' /\ dir'[p].state # NoState =>
                /\ dir'[p].state.count = 1 => Phase(p)' = "continued"
                /\ dir'[p].state.count = 0 =>
                     Phase(p)' = IF dir'[p].state.last = None THEN "armed" ELSE "asked"
           /\ dir'[p].state = dir[p].state /\ (p \in armed' <=> p \in armed) =>
                Phase(p)' = Phase(p)
BY DEF Phase

LEMMA OwingValues ==
    /\ \A p : Owing(p) = {h \in Hooks : Owes(h, p)}
    /\ \A p : Owing(p)' = {h \in Hooks : Owes(h, p)'}
BY DEF Owing, Owes

LEMMA OwnElsewhere ==
    ASSUME Inv, NEW h \in Hooks, Alone(h),
           Saves(h) \/ Decides(h) \/ Sends(h) \/ Reserves(h) \/ Emits(h)
    PROVE  Elsewhere(loc[h].prompt)
<1> SUFFICES ASSUME NEW q \in Prompts \ {loc[h].prompt}
             PROVE  Phase(q)' = Phase(q) /\ Owing(q)' = Owing(q)
  BY DEF Elsewhere
<1>1. /\ dir'[q] = dir[q] /\ (q \in armed' <=> q \in armed)
      /\ \A g \in Hooks : Owes(g, q)' <=> Owes(g, q)
  BY OwnPrompt
<1>2. Phase(q)' = Phase(q)
  BY <1>1, NextPhaseValues
<1>3. QED
  BY <1>1, <1>2, OwingValues

\* A prompt with a record has been armed.
LEMMA RecordArmed ==
    ASSUME Once, ~Resubmit, NEW p \in Prompts, dir[p].state # NoState
    PROVE  p \in armed
BY DEF Once, Untouched

\* The records stay as they are.
Still == \A p \in Prompts : dir'[p].state = dir[p].state

\* A removal unlinks an entry, perhaps a record.
Clears(h) ==
    /\ pc[h] = "rm" /\ Remembers(h)
    /\ \A p \in Prompts \ {loc[h].target} : dir'[p].state = dir[p].state

LEMMA StoreStill ==
    ASSUME Inv, Present, Calm, NEW h \in Hooks, NEW st \in Saved, Store(h, st),
           pc[h] \in {"save", "decide", "reply"}
    PROVE  Still
<1>1. dir'[loc[h].prompt].state # NoState /\ loc[h].prompt \in Prompts
  BY StoreWrites, TypeAssumption, Parts, Typed
<1>2. QED
  BY <1>1, StoreWrites DEF Calm, Still

LEMMA CalmStep ==
    ASSUME Inv, LockInv, Present, Calm, NEW h \in Hooks, Step(h)
    PROVE  Still \/ Clears(h)
<1>1. Effect(h) /\ Sound(pc[h], loc[h])
  BY StepEffect, Parts, Typed
<1>2. CASE UNCHANGED dir
  BY <1>2 DEF Still
<1>3. CASE pc[h] = "rm"
  <2>1. StorageStep(h)
    BY <1>3, RunLabels DEF Step, Work
  <2>2. \A p \in Prompts \ {loc[h].target} : dir'[p].state = dir[p].state
    BY <1>1, <1>3 DEF Effect, Harmless, Writes, Unlinks
  <2>3. CASE pc'[h] = "rm"
    BY <1>3, <2>1, <2>2, <2>3, StorageMemory DEF Clears
  <2>4. CASE pc'[h] # "rm"
    BY <1>1, <1>3, <2>4 DEF Effect, Harmless, Writes, Unlinks, Still
  <2>5. QED
    BY <2>3, <2>4
<1>4. CASE pc[h] \in {"save", "decide", "reply"}
  <2>1. Run(h)
    BY <1>4, StorageLabels DEF Step
  <2>2. CASE SaveBaseline(h)
    BY <1>1, <1>2, <1>4, <2>2, InitialType, StoreStill
       DEF SaveBaseline, StoreFails, Sound, At
  <2>3. CASE Decide(h) \/ Reply(h)
    <3>1. loc[h].mem \in Saved /\ loc[h].tree \in Trees
      BY <1>1, <2>3, Parts, Typed DEF Decide, Reply, Sound, At
    <3>2. QED
      BY <1>2, <1>4, <2>3, <3>1, RecordType, StoreStill DEF Decide, Reply, StoreFails
  <2>4. QED
    BY <1>4, <2>1, <2>2, <2>3
       DEF Run, At, LoadSubmit, LoadStop, Snapshot, Send, Emit
<1>5. QED
  BY <1>1, <1>3, <1>4 DEF Effect, Harmless, Writes, Unlinks, Still

\* Where no record changes, at most a hook dies that owed a continuation.
LEMMA StillGuard ==
    ASSUME Budget, ~Resubmit, Calm, Still, NEW h \in Hooks, Alone(h)
    PROVE  Guard!Next \/ UNCHANGED Guard!vars
<1>1. \A p \in Prompts : Phase(p)' = Phase(p)
  BY NextPhaseValues DEF Calm, Still
<1>2. \A p \in Prompts, g \in Hooks : Owes(g, p)' => Owes(g, p)
  BY DEF Calm
<1>3. \A p \in Prompts, g \in Hooks \ {h} : Owes(g, p)' <=> Owes(g, p)
  BY DEF Alone, Owes
<1>4. CASE \A p \in Prompts : Owes(h, p) => Owes(h, p)'
  BY <1>1, <1>2, <1>3, <1>4, OwingValues, GuardStutter DEF Calm
<1>5. ASSUME NEW p \in Prompts, Owes(h, p), ~Owes(h, p)' PROVE Guard!Next
  <2>1. \A g \in Hooks : Owes(g, p) => g = h
    BY <1>5 DEF Budget, Budgeted
  <2>2. Owing(p) = {h} /\ Owing(p)' = {}
    BY <1>2, <1>5, <2>1, OwingValues
  <2>3. \A q \in Prompts \ {p} : ~Owes(h, q)
    BY <1>5 DEF Owes
  <2>4. \A q \in Prompts \ {p} : Owing(q)' = Owing(q)
    BY <1>2, <1>3, <2>3, OwingValues
  <2>5. Elsewhere(p)
    BY <1>1, <2>4 DEF Elsewhere
  <2>6. QED
    BY <1>1, <2>2, <2>5, GuardLose DEF Calm
<1>6. QED
  BY <1>4, <1>5

LEMMA ClearsGuard ==
    ASSUME Inv, Once, Budget, ~Resubmit, Calm, NEW h \in Hooks, Alone(h), Clears(h)
    PROVE  Guard!Next \/ UNCHANGED Guard!vars
<1>0. PICK t \in Prompts : t = loc[h].target
  BY Parts, Typed
<1>1. armed' = armed
  BY DEF Calm
<1>2. \A p \in Prompts : Owing(p)' = Owing(p)
  <2>1. \A p \in Prompts, g \in Hooks : Owes(g, p)' <=> Owes(g, p)
    BY DEF Alone, Clears, Remembers, SameMemory, Owes
  <2>2. QED
    BY <2>1, OwingValues
<1>3. \A q \in Prompts \ {t} : Phase(q)' = Phase(q)
  BY <1>0, <1>1, NextPhaseValues DEF Clears
<1>4. CASE Still
  BY <1>4, StillGuard
<1>5. CASE ~Still
  <2>1. dir[t].state # NoState /\ dir'[t].state = NoState
    BY <1>0, <1>5 DEF Still, Clears, Calm
  <2>2. t \in armed /\ dir[t].state.count \in {0, 1}
    BY <2>1, RecordArmed, KnownCounts
  <2>3. Phase(t) \in {"armed", "asked", "continued"} /\ Phase(t)' = "closed"
    BY <1>1, <2>1, <2>2, PhaseValues, NextPhaseValues
  <2>4. Elsewhere(t)
    BY <1>2, <1>3 DEF Elsewhere
  <2>5. QED
    BY <1>2, <2>3, <2>4, GuardClose DEF Calm
<1>6. QED
  BY <1>4, <1>5

LEMMA StepGuard ==
    ASSUME Inv, LockInv, Present, RecordedBeforeSend, Clean, Once, Budget, Asks,
           ~Resubmit, ~Faulty, NEW h \in Hooks, Step(h)
    PROVE  Guard!Next \/ UNCHANGED Guard!vars
<1>0. PICK p \in Prompts : p = loc[h].prompt
  BY Parts, Typed
<1>1. Alone(h) /\ Budgeted(p) /\ Asking(h)
  BY StepEffect DEF Kinds, Budget, Asks
<1>2. CASE Calm
  BY <1>1, <1>2, CalmStep, StillGuard, ClearsGuard
<1>3. CASE Saves(h)
  <2>1. Phase(p) = "none" /\ \A g \in Hooks : ~Owes(g, p)
    BY <1>0, <1>3, NewTurn, PhaseValues DEF Untouched
  <2>2. Phase(p)' = "armed"
    BY <1>0, <1>3, Baseline, NextPhaseValues DEF Saves
  <2>3. Owing(p)' = Owing(p)
    <3>1. \A g \in Hooks : ~Owes(g, p)'
      BY <1>0, <1>1, <1>3, <2>1 DEF Alone, Saves, Owes
    <3>2. QED
      BY <1>0, <2>1, <3>1, OwingValues
  <2>4. QED
    BY <1>0, <1>1, <1>3, <2>1, <2>2, <2>3, OwnElsewhere, GuardArm DEF Saves
<1>4. CASE Decides(h)
  <2>1. p \in armed /\ armed' = armed
    BY <1>0, <1>4, Decision, RecordArmed DEF Decides
  <2>2. Phase(p) = "armed" /\ Phase(p)' = "asked"
    BY <1>0, <1>4, <2>1, Decision, PhaseValues, NextPhaseValues
  <2>3. \A g \in Hooks : Owes(g, p)' <=> Owes(g, p)
    BY <1>0, <1>1, <1>4 DEF Alone, Decides, Owes
  <2>4. QED
    BY <1>0, <1>1, <1>4, <2>2, <2>3, OwingValues, OwnElsewhere, GuardRecord DEF Decides
<1>5. CASE Sends(h)
  <2>1. p \in armed
    BY <1>0, <1>5, InFlight, RecordArmed DEF Sends
  <2>2. Phase(p) = "asked" /\ asked[p] = 0
    BY <1>0, <1>1, <1>5, <2>1, InFlight, PhaseValues DEF Sends, Asking
  <2>3. Phase(p)' = Phase(p) /\ Owing(p)' = Owing(p)
    BY <1>0, <1>5, NextPhaseValues DEF Sends, Owing
  <2>4. QED
    BY <1>0, <1>1, <1>5, <2>2, <2>3, OwnElsewhere, GuardRequest DEF Sends
<1>6. CASE Reserves(h)
  <2>1. p \in armed /\ armed' = armed /\ dir[p].state # NoState /\ dir[p].state.count = 0
    BY <1>0, <1>6, InFlight, Reservation, RecordArmed DEF Reserves
  <2>2. Phase(p) = "asked" /\ Phase(p)' = "continued"
    <3>1. dir[p].state.last # None
      BY <1>0, <1>6, InFlight DEF Reserves
    <3>2. dir'[p].state # NoState /\ dir'[p].state.count = 1
      BY <1>0, <1>6, Reservation
    <3>3. QED
      BY <2>1, <3>1, <3>2, PhaseValues, NextPhaseValues
  <2>3. asked[p] = 1
    BY <1>0, <1>1, <1>6 DEF Reserves, Asking
  <2>4. \A g \in Hooks : ~Owes(g, p)
    BY <1>0, <1>1, <2>1 DEF Budgeted
  <2>5. \A g \in Hooks : Owes(g, p)' <=> g = h
    BY <1>0, <1>1, <1>6, <2>4 DEF Alone, Reserves, Owes
  <2>6. Owing(p) = {} /\ Owing(p)' = {h}
    BY <1>0, <2>4, <2>5, OwingValues
  <2>7. QED
    BY <1>0, <1>1, <1>6, <2>2, <2>3, <2>6, OwnElsewhere, GuardReserve DEF Reserves
<1>7. CASE Emits(h) /\ loc[h].out
  <2>1. Owes(h, p)
    BY <1>0, <1>7 DEF Owes
  <2>2. granted[p] = 0 /\ \A g \in Hooks : Owes(g, p) => g = h
    BY <1>0, <1>1, <2>1 DEF Budgeted
  <2>3. \A g \in Hooks : ~Owes(g, p)'
    BY <1>0, <1>1, <1>7, <2>2, BlankOwesNothing DEF Alone, Emits, Owes
  <2>4. Owing(p) = {h} /\ Owing(p)' = {}
    BY <1>0, <2>1, <2>2, <2>3, OwingValues
  <2>5. Phase(p)' = Phase(p)
    BY <1>0, <1>7, NextPhaseValues DEF Emits
  <2>6. granted' = [granted EXCEPT ![p] = Count(@)] /\ asked' = asked
    BY <1>0, <1>7 DEF Emits
  <2>7. QED
    BY <1>0, <1>1, <1>7, <2>2, <2>4, <2>5, <2>6, OwnElsewhere, GuardGrant
<1>8. CASE Emits(h) /\ ~loc[h].out
  <2>1. \A q \in Prompts, g \in Hooks : Owes(g, q)' <=> Owes(g, q)
    BY <1>0, <1>1, <1>8, BlankOwesNothing DEF Alone, Emits, Owes
  <2>2. \A q \in Prompts : Phase(q)' = Phase(q) /\ Owing(q)' = Owing(q)
    BY <1>0, <1>8, <2>1, NextPhaseValues, OwingValues DEF Emits
  <2>3. QED
    BY <1>0, <1>8, <2>2, GuardStutter DEF Emits
<1>9. QED
  BY <1>2, <1>3, <1>4, <1>5, <1>6, <1>7, <1>8, StepTurns DEF Turns

LEMMA NextGuard ==
    ASSUME Inv, LockInv, Present, RecordedBeforeSend, Clean, Once, Budget, Asks,
           ~Resubmit, ~Faulty, [Next]_vars
    PROVE  Guard!Next \/ UNCHANGED Guard!vars
<1>1. ASSUME NEW h \in Hooks, Begin(h) PROVE Guard!Next \/ UNCHANGED Guard!vars
  BY <1>1, BeginCalm, BeginChanges, StillGuard DEF Still
<1>2. ASSUME NEW h \in Hooks, Step(h) PROVE Guard!Next \/ UNCHANGED Guard!vars
  BY <1>2, StepGuard
<1>3. ASSUME NEW h \in Hooks, Crash(h) PROVE Guard!Next \/ UNCHANGED Guard!vars
  BY <1>3, CrashCalm, CrashHarmless, StillGuard DEF Still, Harmless
<1>4. CASE Tick
  <2>1. Calm /\ \A p \in Prompts : dir'[p].state = dir[p].state
    BY <1>4, TickCalm, TickHarmless DEF Harmless
  <2>2. \A p \in Prompts, h \in Hooks : Owes(h, p)' <=> Owes(h, p)
    BY <1>4, TickMemory DEF Remembers, SameMemory, Owes
  <2>3. \A p \in Prompts : Phase(p)' = Phase(p) /\ Owing(p)' = Owing(p)
    BY <2>1, <2>2, NextPhaseValues, OwingValues DEF Calm
  <2>4. QED
    BY <2>1, <2>3, GuardStutter DEF Calm
<1>5. CASE UNCHANGED vars
  <2>1. \A p \in Prompts : Phase(p)' = Phase(p) /\ Owing(p)' = Owing(p)
    BY <1>5, NextPhaseValues DEF vars, Owing
  <2>2. QED
    BY <1>5, <2>1, GuardStutter DEF vars
<1>6. QED
  BY <1>1, <1>2, <1>3, <1>4, <1>5 DEF Next

LEMMA InitGuard == Init => Guard!Init
<1> SUFFICES ASSUME Init PROVE Guard!Init
  OBVIOUS
<1>1. \A p \in Prompts : Phase(p) = "none"
  BY PhaseValues DEF Init
<1>2. \A p \in Prompts : Owing(p) = {}
  BY BlankOwesNothing DEF Init, Owing
<1>3. \A p \in Prompts : Cardinality(Owing(p)) = 0
  BY <1>2, FS_EmptySet
<1>4. PhaseOf = [p \in Prompts |-> "none"] /\ OwedOf = [p \in Prompts |-> 0]
  BY <1>1, <1>3 DEF PhaseOf, OwedOf
<1>5. QED
  BY <1>4 DEF Guard!Init, PhaseOf, OwedOf, Owing, Init

\* Where storage does not fail and a submission comes once, the processes, with
\* their locks, sweeps and crashes, do nothing that the guard of one prompt
\* does not allow: the hash is on disk before the request it covers, the count
\* before the continuation, and what is lost in between is not done again.
THEOREM GuardImplemented == ~Resubmit /\ ~Faulty => (Spec => ImplementsTurnGuard)
<1> SUFFICES ASSUME ~Resubmit, ~Faulty PROVE Spec => ImplementsTurnGuard
  OBVIOUS
<1>1. Inv /\ LockInv /\ Present /\ RecordedBeforeSend /\ Clean /\ Once /\ Budget /\ Asks
        /\ [Next]_vars => [Guard!Next]_(Guard!vars)
  BY NextGuard
<1>2. QED
  BY <1>1, InitGuard, AlwaysAsks, PTL DEF Spec, ImplementsTurnGuard, Guard!Spec

----------------------------------------------------------------------------
\* What the guard grants

\* A prompt that is still before its reservation owes and has granted nothing;
\* afterwards the two together never exceed the single reservation.
GuardInv ==
    /\ PhaseOf \in [Prompts -> {"none", "armed", "asked", "continued", "closed"}]
    /\ asked \in [Prompts -> Nat] /\ OwedOf \in [Prompts -> Nat] /\ granted \in [Prompts -> Nat]
    /\ \A p \in Prompts :
         /\ PhaseOf[p] \in {"none", "armed"} => asked[p] = 0
         /\ asked[p] <= 1
         /\ PhaseOf[p] \in {"none", "armed", "asked"} => OwedOf[p] + granted[p] = 0
         /\ OwedOf[p] + granted[p] <= asked[p]

\* One step per action; only Request, Reserve, Grant and Lose move the budget.
LEMMA NextGuardInv == GuardInv /\ [Guard!Next]_(Guard!vars) => GuardInv'
<1> SUFFICES ASSUME GuardInv, [Guard!Next]_(Guard!vars) PROVE GuardInv'
  OBVIOUS
<1>1. CASE UNCHANGED Guard!vars
  <2>1. UNCHANGED <<PhaseOf, asked, OwedOf, granted>>
    BY <1>1 DEF Guard!vars, PhaseOf, OwedOf, Owing
  <2>2. QED
    BY <2>1 DEF GuardInv
<1>2. ASSUME NEW p \in Prompts, Guard!Arm(p) PROVE GuardInv'
  <2>1. /\ PhaseOf[p] = "none" /\ PhaseOf' = [PhaseOf EXCEPT ![p] = "armed"]
        /\ UNCHANGED <<asked, OwedOf, granted>>
    BY <1>2 DEF Guard!Arm, PhaseOf, OwedOf, Owing
  <2>2. QED
    BY <2>1 DEF GuardInv
<1>3. ASSUME NEW p \in Prompts, Guard!Record(p) PROVE GuardInv'
  <2>1. /\ PhaseOf[p] = "armed" /\ PhaseOf' = [PhaseOf EXCEPT ![p] = "asked"]
        /\ UNCHANGED <<asked, OwedOf, granted>>
    BY <1>3 DEF Guard!Record, PhaseOf, OwedOf, Owing
  <2>2. QED
    BY <2>1 DEF GuardInv
<1>4. ASSUME NEW p \in Prompts, Guard!Request(p) PROVE GuardInv'
  <2>1. /\ PhaseOf[p] = "asked" /\ asked[p] = 0 /\ asked' = [asked EXCEPT ![p] = @ + 1]
        /\ UNCHANGED <<PhaseOf, OwedOf, granted>>
    BY <1>4 DEF Guard!Request, PhaseOf, OwedOf, Owing
  <2>2. QED
    BY <2>1 DEF GuardInv
<1>5. ASSUME NEW p \in Prompts, Guard!Reserve(p) PROVE GuardInv'
  <2>1. /\ PhaseOf[p] = "asked" /\ asked[p] = 1
        /\ PhaseOf' = [PhaseOf EXCEPT ![p] = "continued"]
        /\ OwedOf' = [OwedOf EXCEPT ![p] = @ + 1]
        /\ UNCHANGED <<asked, granted>>
    BY <1>5 DEF Guard!Reserve, PhaseOf, OwedOf, Owing
  <2>2. QED
    BY <2>1 DEF GuardInv
<1>6. ASSUME NEW p \in Prompts, Guard!Grant(p) PROVE GuardInv'
  <2>1. /\ OwedOf[p] > 0 /\ OwedOf' = [OwedOf EXCEPT ![p] = @ - 1]
        /\ granted' = [granted EXCEPT ![p] = @ + 1]
        /\ UNCHANGED <<PhaseOf, asked>>
    BY <1>6 DEF Guard!Grant, PhaseOf, OwedOf, Owing
  <2>2. QED
    BY <2>1 DEF GuardInv
<1>7. ASSUME NEW p \in Prompts, Guard!Lose(p) PROVE GuardInv'
  <2>1. /\ OwedOf[p] > 0 /\ OwedOf' = [OwedOf EXCEPT ![p] = @ - 1]
        /\ UNCHANGED <<PhaseOf, asked, granted>>
    BY <1>7 DEF Guard!Lose, PhaseOf, OwedOf, Owing
  <2>2. QED
    BY <2>1 DEF GuardInv
<1>8. ASSUME NEW p \in Prompts, Guard!Close(p) PROVE GuardInv'
  <2>1. /\ PhaseOf[p] \in {"armed", "asked", "continued"}
        /\ PhaseOf' = [PhaseOf EXCEPT ![p] = "closed"]
        /\ UNCHANGED <<asked, OwedOf, granted>>
    BY <1>8 DEF Guard!Close, PhaseOf, OwedOf, Owing
  <2>2. QED
    BY <2>1 DEF GuardInv
<1>9. QED
  BY <1>1, <1>2, <1>3, <1>4, <1>5, <1>6, <1>7, <1>8 DEF Guard!Next

\* README.md "Failure behavior": whatever follows the guard continues a prompt at
\* most once, and only after it has asked (runner.go:134-168).
THEOREM OneGrant == Guard!Spec => [](Guard!TypeOK /\ Guard!AtMostOne)
<1>1. Guard!Init => GuardInv
  <2> SUFFICES ASSUME Guard!Init PROVE GuardInv
    OBVIOUS
  <2>1. /\ PhaseOf = [p \in Prompts |-> "none"] /\ asked = [p \in Prompts |-> 0]
        /\ OwedOf = [p \in Prompts |-> 0] /\ granted = [p \in Prompts |-> 0]
    BY DEF Guard!Init, PhaseOf, OwedOf, Owing
  <2>2. QED
    BY <2>1 DEF GuardInv
<1>2. GuardInv => Guard!AtMostOne
  <2> SUFFICES ASSUME GuardInv, NEW p \in Prompts
               PROVE  granted[p] <= 1 /\ granted[p] <= asked[p]
    BY DEF Guard!AtMostOne
  <2>1. asked[p] \in Nat /\ OwedOf[p] \in Nat /\ granted[p] \in Nat
    BY DEF GuardInv
  <2>2. asked[p] <= 1 /\ OwedOf[p] + granted[p] <= asked[p]
    BY DEF GuardInv
  <2>3. QED
    BY <2>1, <2>2
<1>3. GuardInv => Guard!TypeOK
  BY DEF GuardInv, Guard!TypeOK, Guard!Phases, PhaseOf, OwedOf, Owing
<1>4. QED
  BY <1>1, <1>2, <1>3, NextGuardInv, PTL DEF Guard!Spec

\* So the processes ask about a prompt at most once, and never continue one that
\* they have not asked about, whoever is killed between the request and the output.
THEOREM AskedBeforeContinued ==
    ~Resubmit /\ ~Faulty => (Spec => []Guard!AtMostOne)
<1> SUFFICES ASSUME ~Resubmit, ~Faulty PROVE Spec => []Guard!AtMostOne
  OBVIOUS
<1>1. Spec => Guard!Spec
  BY GuardImplemented DEF ImplementsTurnGuard
<1>2. QED
  BY <1>1, OneGrant, PTL
================================================================================
