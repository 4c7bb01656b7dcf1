---------------------------- MODULE HookRunnerProofs ---------------------------
(***************************************************************************)
(* The hooks and their storage, for any number of hooks, prompts and trees,*)
(* in either storage, with or without faults, crashes, overlapping and     *)
(* repeated hooks: every variable keeps its type; a hook works on a prompt *)
(* only under the lock it made, and a sweep goes past a lock only if the   *)
(* process that made it is gone; what a hook has loaded stays true until   *)
(* it has saved; an abandoned prompt stays abandoned; and regular turns    *)
(* leave nothing behind that is not needed or that a later hook could not  *)
(* open.                                                                   *)
(***************************************************************************)
EXTENDS HookRunner, TLAPS

----------------------------------------------------------------------------
\* Records stay records of their type when a field is updated

LEMMA ZeroAge == 0 \in 0..TTL
BY TypeAssumption

LEMMA BlankType == Blank \in Locals
<1>1. (CHOOSE p \in Prompts : TRUE) \in Prompts
  BY TypeAssumption
<1>2. QED
  BY <1>1 DEF Blank, Fresh, Locals, Events

LEMMA AbsentType ==
    Absent \in Directory /\ [Absent EXCEPT !.there = TRUE] \in Directory
BY ZeroAge DEF Absent, Directory, Markers

LEMMA DirectoryUpdate ==
    ASSUME NEW d \in Directory, NEW a \in 0..TTL
    PROVE  /\ \A m \in Markers : [d EXCEPT !.marker = m] \in Directory
           /\ \A m \in Markers : [d EXCEPT !.marker = m, !.age = a] \in Directory
           /\ \A s \in {"none", "empty", "private"} :
                [d EXCEPT !.snap = s, !.age = a] \in Directory
           /\ [d EXCEPT !.there = TRUE, !.snap = "private", !.age = a] \in Directory
           /\ \A s \in Saved \cup {NoState} :
                [d EXCEPT !.state = s, !.age = a] \in Directory
           /\ [d EXCEPT !.age = a] \in Directory
BY DEF Directory

LEMMA WithoutType ==
    ASSUME NEW d \in Directory, NEW e \in {"marker", "snap", "state"}
    PROVE  Without(d, e) \in Directory
<1>1. "none" \in Markers /\ NoState \in Saved \cup {NoState}
  BY DEF Markers
<1>2. QED
  BY <1>1, ZeroAge, DirectoryUpdate DEF Without

LEMMA RecordType ==
    ASSUME NEW st \in Saved, NEW t \in Trees
    PROVE  /\ RecordEvaluation(st, t, FALSE) \in Saved
           /\ st.count = 0 => RecordEvaluation(st, t, TRUE) \in Saved
<1>1. RecordEvaluation(st, t, FALSE) = [st EXCEPT !.last = t, !.count = st.count]
  BY DEF RecordEvaluation
<1>2. st.count = 0 => RecordEvaluation(st, t, TRUE) = [st EXCEPT !.last = t, !.count = 1]
  BY DEF RecordEvaluation
<1>3. \A n \in 0..1 : [st EXCEPT !.last = t, !.count = n] \in Saved
  BY DEF Saved
<1>4. st.count \in 0..1 /\ 1 \in 0..1
  BY DEF Saved
<1>5. QED
  BY <1>1, <1>2, <1>3, <1>4

LEMMA InitialType == ASSUME NEW t \in Trees PROVE InitialState(t) \in Saved
BY DEF InitialState, Saved

LEMMA SetDirType ==
    ASSUME dir \in [Prompts -> Directory], NEW p \in Prompts,
           NEW d \in Directory, SetDir(p, d)
    PROVE  dir' \in [Prompts -> Directory]
BY DEF SetDir

LEMMA SetLocType ==
    ASSUME loc \in [Hooks -> Locals], NEW h \in Hooks, NEW l \in Locals,
           SetLoc(h, l)
    PROVE  loc' \in [Hooks -> Locals]
BY DEF SetLoc

----------------------------------------------------------------------------
\* What a process may rely on at each label

\* A Stop that has read the record holds it until it leaves, the tree is known
\* once the snapshot is taken, only a Stop decides, and only a submission saves
\* a baseline.
Sound(label, l) ==
    /\ label \in {"snapshot", "decide", "send", "reply"} /\ l.event = "Stop" =>
         l.mem # NoState
    /\ label \in {"save", "decide", "send", "reply"} => l.tree \in Trees
    /\ label \in {"decide", "send", "reply"} => l.event = "Stop"
    /\ label = "save" => l.event = "UserPromptSubmit"

Processes ==
    /\ pc \in [Hooks -> Labels]
    /\ loc \in [Hooks -> Locals]
    /\ \A h \in Hooks : Sound(pc[h], loc[h])

Inv == TypeOK /\ Processes

LEMMA Moves ==
    ASSUME Processes, NEW h \in Hooks, NEW label \in Labels, NEW l \in Locals,
           Sound(label, l), Goto(h, label), SetLoc(h, l)
    PROVE  Processes'
BY DEF Processes, Goto, SetLoc

LEMMA Goes ==
    ASSUME Processes, NEW h \in Hooks, NEW label \in Labels,
           Sound(label, loc[h]), Goto(h, label), UNCHANGED loc
    PROVE  Processes'
BY DEF Processes, Goto

LEMMA Stays ==
    ASSUME Processes, NEW h \in Hooks, NEW l \in Locals,
           Sound(pc[h], l), SetLoc(h, l), UNCHANGED pc
    PROVE  Processes'
BY DEF Processes, SetLoc

\* The labels of Open, Cleanup and unlock ask nothing of the locals.
LEMMA Plain ==
    ASSUME NEW label \in Labels \ (Work \ {"load"}), NEW l
    PROVE  Sound(label, l)
BY DEF Sound, Labels, Work

LEMMA Exits == ASSUME Processes, NEW h \in Hooks, Exit(h) PROVE Processes'
<1>1. "idle" \in Labels \ (Work \ {"load"})
  BY DEF Labels, Work
<1>2. QED
  BY <1>1, Plain, BlankType, Moves DEF Exit

----------------------------------------------------------------------------
\* The shared variables

Locks == lock \in [Prompts -> Hooks \cup {Free, Dead}] /\ lockAge \in [Prompts -> 0..TTL]

Stored == dir \in [Prompts -> Directory]

Records ==
    /\ submitted \subseteq Prompts /\ armed \subseteq Prompts
    /\ asked \in [Prompts -> 0..Cap]
    /\ granted \in [Prompts -> 0..Cap]

LEMMA Parts == Inv <=> Processes /\ Locks /\ Stored /\ Records
BY DEF Inv, TypeOK, Processes, Locks, Stored, Records

LEMMA LockTypes ==
    ASSUME Locks, NEW h \in Hooks, NEW p \in Prompts,
           Take(h, p) \/ Strand(p) \/ Release(h, p) \/ KeepLock
    PROVE  Locks'
BY ZeroAge DEF Locks, Take, Strand, Release, KeepLock

LEMMA CountType == ASSUME NEW n \in 0..Cap PROVE Count(n) \in 0..Cap
BY DEF Count, Cap

LEMMA LocalFields ==
    ASSUME NEW l \in Locals
    PROVE  /\ \A q \in Prompts, t \in SUBSET Prompts :
                [l EXCEPT !.todo = t, !.target = q] \in Locals
           /\ \A t \in SUBSET Prompts :
                [l EXCEPT !.todo = t, !.sweeping = TRUE] \in Locals
           /\ \A q \in Prompts :
                [l EXCEPT !.sweeping = FALSE, !.target = q] \in Locals
           /\ \A r \in SUBSET {"marker", "snap", "state"} :
                /\ [l EXCEPT !.rest = r] \in Locals
                /\ [l EXCEPT !.rest = r, !.ok = FALSE] \in Locals
           /\ \A b \in BOOLEAN : [l EXCEPT !.ok = b] \in Locals
           /\ \A b \in BOOLEAN, st \in Saved :
                [l EXCEPT !.active = b, !.mem = st] \in Locals
           /\ \A st \in Saved : [l EXCEPT !.mem = st] \in Locals
           /\ \A t \in Trees : [l EXCEPT !.tree = t] \in Locals
           /\ [l EXCEPT !.ticked = TRUE] \in Locals
BY DEF Locals

LEMMA LocalValues ==
    ASSUME NEW l \in Locals
    PROVE  /\ \A t : LET m == [l EXCEPT !.tree = t]
                   IN  m.tree = t /\ m.event = l.event /\ m.mem = l.mem
           /\ \A st : LET m == [l EXCEPT !.mem = st]
                    IN  m.tree = l.tree /\ m.event = l.event /\ m.mem = st
           /\ LET m == [l EXCEPT !.ticked = TRUE]
              IN  m.tree = l.tree /\ m.event = l.event /\ m.mem = l.mem
BY DEF Locals

LEMMA Typed ==
    ASSUME Processes, Stored, NEW h \in Hooks
    PROVE  /\ loc[h] \in Locals
           /\ loc[h].event \in Events
           /\ loc[h].prompt \in Prompts /\ loc[h].target \in Prompts
           /\ loc[h].todo \subseteq Prompts
           /\ loc[h].rest \subseteq {"marker", "snap", "state"}
           /\ loc[h].mem \in Saved \cup {NoState}
           /\ loc[h].tree \in Trees \cup {None}
           /\ Sound(pc[h], loc[h])
           /\ \A p \in Prompts : dir[p] \in Directory
BY DEF Processes, Stored, Locals

LEMMA Fields ==
    ASSUME NEW d \in Directory
    PROVE  d.state \in Saved \cup {NoState} /\ d.age \in 0..TTL /\ d.marker \in Markers
BY DEF Directory

\* The labels that ask nothing of the locals.
Quiet == Labels \ (Work \ {"load"})

LEMMA QuietLabels ==
    {"idle", "readdir", "sweep", "seize", "mkdir", "marker", "inspect", "create",
     "encode", "validate", "snapdir", "lock", "load", "close", "rm", "unlock", "emit"}
       \subseteq Quiet
BY DEF Quiet, Labels, Work

LEMMA GoesQuietly ==
    ASSUME Processes, NEW h \in Hooks, NEW label \in Quiet,
           Goto(h, label), UNCHANGED loc
    PROVE  Processes'
BY Plain, Goes DEF Quiet

LEMMA MovesQuietly ==
    ASSUME Processes, NEW h \in Hooks, NEW label \in Quiet, NEW l \in Locals,
           Goto(h, label), SetLoc(h, l)
    PROVE  Processes'
BY Plain, Moves DEF Quiet

\* One step of Open.
LEMMA OpenInv ==
    ASSUME Processes, Locks, Stored, NEW h \in Hooks, Open(h)
    PROVE  Processes' /\ Locks' /\ Stored'
<1> DEFINE p == loc[h].prompt
<1>0. Locks /\ p \in Prompts /\ loc[h].target \in Prompts /\ loc[h] \in Locals
  BY Typed
<1>1. CASE ReadBase(h)
  <2>1. PICK t \in SUBSET Prompts :
          SetLoc(h, [loc[h] EXCEPT !.todo = t, !.sweeping = TRUE])
    BY <1>1 DEF ReadBase
  <2>2. Processes'
    BY <1>0, <1>1, <2>1, LocalFields, MovesQuietly, QuietLabels DEF ReadBase
  <2>3. QED
    BY <1>1, <2>2 DEF ReadBase, Locks, Stored
<1>2. CASE Examine(h)
  <2>1. PICK q \in Prompts :
          /\ SetLoc(h, [loc[h] EXCEPT !.todo = loc[h].todo \ {q}, !.target = q])
          /\ Goto(h, IF Candidate(dir[q]) THEN "seize" ELSE "sweep")
    BY <1>2, Typed DEF Examine
  <2>2. loc[h].todo \ {q} \in SUBSET Prompts
    BY Typed
  <2>3. Processes'
    BY <1>0, <2>1, <2>2, LocalFields, MovesQuietly, QuietLabels
  <2>4. QED
    BY <1>2, <2>3 DEF Examine, Locks, Stored
<1>3. CASE EndSweep(h)
  <2>1. Processes'
    BY <1>0, <1>3, LocalFields, MovesQuietly, QuietLabels DEF EndSweep
  <2>2. QED
    BY <1>3, <2>1 DEF EndSweep, Locks, Stored
<1>4. CASE Seize(h)
  <2>1. Processes'
    BY <1>4, GoesQuietly, QuietLabels DEF Seize
  <2>2. Locks'
    BY <1>0, <1>4, LockTypes DEF Seize
  <2>3. QED
    BY <1>4, <2>1, <2>2 DEF Seize, Stored
<1>5. CASE MakeDir(h)
  <2>1. Processes'
    BY <1>5, GoesQuietly, QuietLabels DEF MakeDir
  <2>2. Stored'
    BY <1>0, <1>5, AbsentType, SetDirType DEF MakeDir, Stored
  <2>3. QED
    BY <1>5, <2>1, <2>2 DEF MakeDir, Locks
<1>6. CASE ReadMarker(h) \/ Inspect(h) \/ Validate(h)
  <2>1. Processes'
    BY <1>6, GoesQuietly, QuietLabels, Exits DEF ReadMarker, Inspect, Validate
  <2>2. QED
    BY <1>6, <2>1 DEF ReadMarker, Inspect, Validate, Locks, Stored
<1>7. CASE Create(h)
  <2>1. Processes'
    BY <1>7, GoesQuietly, QuietLabels, Exits DEF Create
  <2>2. h \in Markers /\ dir[p] \in Directory
    BY <1>0, Typed DEF Markers
  <2>3. [dir[p] EXCEPT !.marker = h, !.age = 0] \in Directory
    BY <2>2, DirectoryUpdate, ZeroAge
  <2>4. Stored'
    BY <1>0, <1>7, <2>3, SetDirType DEF Create, Stored
  <2>5. QED
    BY <1>7, <2>1, <2>4 DEF Create, Locks
<1>8. CASE Encode(h)
  <2>1. Processes'
    BY <1>8, GoesQuietly, QuietLabels, Exits DEF Encode
  <2>2. {"ok", "torn"} \subseteq Markers /\ dir[p] \in Directory
    BY <1>0, Typed DEF Markers
  <2>3. /\ [dir[p] EXCEPT !.marker = "ok", !.age = 0] \in Directory
        /\ [dir[p] EXCEPT !.marker = "torn"] \in Directory
    BY <2>2, DirectoryUpdate, ZeroAge
  <2>4. Stored'
    BY <1>0, <1>8, <2>3, SetDirType DEF Encode, Stored
  <2>5. QED
    BY <1>8, <2>1, <2>4 DEF Encode, Locks
<1>9. CASE SnapDir(h)
  <2>1. Processes'
    BY <1>9, GoesQuietly, QuietLabels, Exits DEF SnapDir
  <2>2. [dir[p] EXCEPT !.snap = "empty", !.age = 0] \in Directory
    BY <1>0, Typed, DirectoryUpdate, ZeroAge
  <2>3. Stored'
    BY <1>0, <1>9, <2>2, SetDirType DEF SnapDir, Stored
  <2>4. QED
    BY <1>9, <2>1, <2>3 DEF SnapDir, Locks
<1>10. QED
  BY <1>1, <1>2, <1>3, <1>4, <1>5, <1>6, <1>7, <1>8, <1>9 DEF Open

\* One step of Lock, Cleanup or unlock.
LEMMA LockCleanupInv ==
    ASSUME Processes, Locks, Stored, NEW h \in Hooks,
           TryLock(h) \/ Cleanup(h) \/ Unlock(h)
    PROVE  Processes' /\ Locks' /\ Stored'
<1> DEFINE q == loc[h].target
<1>0. /\ loc[h].prompt \in Prompts /\ q \in Prompts /\ loc[h] \in Locals
      /\ dir[q] \in Directory
  BY Typed
<1>1. CASE TryLock(h)
  <2>1. Processes'
    BY <1>1, GoesQuietly, QuietLabels, Exits DEF TryLock
  <2>2. Locks'
    BY <1>0, <1>1, LockTypes DEF TryLock
  <2>3. QED
    BY <1>1, <2>1, <2>2 DEF TryLock, Stored
<1>2. CASE Close(h)
  <2>1. Entries(dir[q]) \in SUBSET {"marker", "snap", "state"}
    BY DEF Entries
  <2>2. CASE Valid(dir[q])
    BY <1>0, <1>2, <2>1, <2>2, LocalFields, MovesQuietly, QuietLabels DEF Close, Locks, Stored
  <2>3. CASE ~Valid(dir[q])
    <3>1. PICK b \in BOOLEAN : SetLoc(h, [loc[h] EXCEPT !.ok = b])
      BY <1>2, <2>3, ZenonT(20) DEF Close
    <3>2. Goto(h, "unlock") /\ UNCHANGED <<dir, lock, lockAge>>
      BY <1>2, <2>3 DEF Close
    <3>3. QED
      BY <1>0, <3>1, <3>2, LocalFields, MovesQuietly, QuietLabels DEF Locks, Stored
  <2>4. QED
    BY <2>2, <2>3
<1>3. CASE Remove(h)
  <2>1. PICK e \in {"marker", "snap", "state"} :
          \/ /\ IF e \in Entries(dir[q]) THEN SetDir(q, Without(dir[q], e))
                                           ELSE UNCHANGED dir
             /\ SetLoc(h, [loc[h] EXCEPT !.rest = loc[h].rest \ {e}])
          \/ /\ SetLoc(h, [loc[h] EXCEPT !.rest = loc[h].rest \ {e}, !.ok = FALSE])
             /\ UNCHANGED dir
    BY <1>3, Typed DEF Remove
  <2>2. loc[h].rest \ {e} \in SUBSET {"marker", "snap", "state"}
    BY Typed
  <2>3. pc[h] = "rm" /\ "rm" \in Quiet /\ UNCHANGED pc
    BY <1>3, QuietLabels DEF Remove, At
  <2>4. \A l : Sound(pc[h], l)
    BY <2>3, Plain DEF Quiet
  <2>5. Processes'
    BY <1>0, <2>1, <2>2, <2>3, <2>4, LocalFields, Stays
  <2>6. Stored'
    BY <1>0, <2>1, WithoutType, SetDirType DEF Stored
  <2>7. QED
    BY <1>3, <2>5, <2>6 DEF Remove, Locks
<1>4. CASE RemoveDir(h)
  <2>1. Processes'
    BY <1>0, <1>4, LocalFields, GoesQuietly, MovesQuietly, QuietLabels DEF RemoveDir
  <2>2. Stored'
    BY <1>0, <1>4, AbsentType, SetDirType DEF RemoveDir, Stored
  <2>3. QED
    BY <1>4, <2>1, <2>2 DEF RemoveDir, Locks
<1>5. CASE Unlock(h)
  <2>1. Processes'
    BY <1>5, GoesQuietly, QuietLabels, Exits DEF Unlock
  <2>2. Locks'
    BY <1>0, <1>5, LockTypes DEF Unlock
  <2>3. QED
    BY <1>5, <2>1, <2>2 DEF Unlock, Stored
<1>6. QED
  BY <1>1, <1>2, <1>3, <1>4, <1>5 DEF Cleanup

LEMMA Leaves ==
    ASSUME Processes, Stored, NEW h \in Hooks, NEW label \in {"unlock", "close"},
           NEW out \in BOOLEAN, Leave(h, label, out)
    PROVE  Processes'
<1>1. [loc[h] EXCEPT !.active = FALSE, !.mem = NoState, !.tree = None,
                     !.out = out] \in Locals
  BY Typed DEF Locals
<1>2. QED
  BY <1>1, MovesQuietly, QuietLabels DEF Leave

LEMMA KeepsOrDrops ==
    ASSUME Processes, Stored, NEW h \in Hooks, Keep(h) \/ Drop(h)
    PROVE  Processes'
BY Leaves DEF Keep, Drop

LEMMA Stores ==
    ASSUME Processes, Stored, NEW h \in Hooks, NEW st \in Saved, Store(h, st)
    PROVE  Stored'
<1>1. loc[h].prompt \in Prompts /\ dir[loc[h].prompt] \in Directory
  BY Typed
<1>2. [dir[loc[h].prompt] EXCEPT !.state = st, !.age = 0] \in Directory
  BY <1>1, DirectoryUpdate, ZeroAge
<1>3. QED
  BY <1>1, <1>2, SetDirType DEF Store, Stored

\* One step of the run.
LEMMA RunInv ==
    ASSUME Inv, NEW h \in Hooks, Run(h)
    PROVE  Inv'
<1> DEFINE p == loc[h].prompt
<1>0. /\ Processes /\ Locks /\ Stored /\ Records
      /\ p \in Prompts /\ loc[h] \in Locals /\ dir[p] \in Directory
      /\ Sound(pc[h], loc[h])
  BY Parts, Typed
<1> SUFFICES Processes' /\ Locks' /\ Stored' /\ Records'
  BY Parts DEF Inv, TypeOK, Processes, Locks, Stored, Records
<1>1. CASE LoadSubmit(h)
  <2>1. CASE Keep(h) \/ Drop(h)
    BY <1>0, <1>1, <2>1, KeepsOrDrops DEF LoadSubmit, history, Locks, Stored, Records
  <2>2. CASE Goto(h, "snapshot") /\ UNCHANGED loc
    <3>1. Sound("snapshot", loc[h]) /\ "snapshot" \in Labels
      BY <1>1 DEF LoadSubmit, Sound, Labels
    <3>2. QED
      BY <1>0, <1>1, <2>2, <3>1, Goes DEF LoadSubmit, history, Locks, Stored, Records
  <2>3. QED
    BY <1>1, <2>1, <2>2 DEF LoadSubmit
<1>2. CASE LoadStop(h)
  <2>1. CASE Keep(h) \/ Drop(h)
    BY <1>0, <1>2, <2>1, KeepsOrDrops DEF LoadStop, history, Locks, Stored, Records
  <2>2. CASE \E b \in BOOLEAN :
               /\ Loaded(dir[p])
               /\ SetLoc(h, [loc[h] EXCEPT !.active = b, !.mem = dir[p].state])
               /\ Goto(h, "snapshot")
    <3>1. PICK b \in BOOLEAN :
            /\ SetLoc(h, [loc[h] EXCEPT !.active = b, !.mem = dir[p].state])
            /\ Goto(h, "snapshot")
      BY <2>2
    <3>2. dir[p].state \in Saved /\ dir[p].state # NoState
      BY <1>0, <2>2, Fields DEF Loaded
    <3>3. [loc[h] EXCEPT !.active = b, !.mem = dir[p].state] \in Locals
      BY <1>0, <3>2, LocalFields
    <3>4. [loc[h] EXCEPT !.active = b, !.mem = dir[p].state].mem = dir[p].state
      BY <1>0 DEF Locals
    <3>5. /\ Sound("snapshot", [loc[h] EXCEPT !.active = b, !.mem = dir[p].state])
          /\ "snapshot" \in Labels
      BY <3>2, <3>4 DEF Sound, Labels
    <3>6. QED
      BY <1>0, <1>2, <3>1, <3>3, <3>5, Moves DEF LoadStop, history, Locks, Stored, Records
  <2>3. QED
    BY <1>2, <2>1, <2>2 DEF LoadStop
<1>3. CASE Snapshot(h)
  <2>1. Stored'
    <3>1. PICK a \in 0..TTL :
            \/ SetDir(p, [dir[p] EXCEPT !.there = TRUE, !.snap = "private", !.age = a])
            \/ UNCHANGED dir
      BY <1>0, <1>3, Fields, ZeroAge DEF Snapshot
    <3>2. [dir[p] EXCEPT !.there = TRUE, !.snap = "private", !.age = a] \in Directory
      BY <1>0, DirectoryUpdate
    <3>3. QED
      BY <1>0, <3>1, <3>2, SetDirType DEF Stored
  <2>2. CASE Drop(h)
    BY <1>0, <1>3, <2>1, <2>2, KeepsOrDrops DEF Snapshot, history, Locks, Records
  <2>3. CASE \E t \in Trees :
               /\ SetLoc(h, [loc[h] EXCEPT !.tree = t])
               /\ Goto(h, IF loc[h].event = "Stop" THEN "decide" ELSE "save")
    <3>1. PICK t \in Trees :
            /\ SetLoc(h, [loc[h] EXCEPT !.tree = t])
            /\ Goto(h, IF loc[h].event = "Stop" THEN "decide" ELSE "save")
      BY <2>3
    <3> DEFINE l == [loc[h] EXCEPT !.tree = t]
               next == IF loc[h].event = "Stop" THEN "decide" ELSE "save"
    <3>2. /\ l \in Locals
          /\ l.tree = t /\ l.event = loc[h].event /\ l.mem = loc[h].mem
      <4>1. loc[h] \in Locals
        BY <1>0, Typed
      <4>2. l \in Locals
        BY <4>1, LocalFields, Zenon
      <4>3. QED
        BY <4>1, <4>2, LocalValues, Zenon
    <3>3. next \in Labels /\ Sound(next, l)
      BY <1>0, <1>3, <3>2, Typed DEF Sound, Labels, Snapshot, At, Events
    <3>4. Goto(h, next) /\ SetLoc(h, l)
      BY <3>1
    <3> HIDE DEF l, next
    <3>5. Processes'
      BY <1>0, <3>2, <3>3, <3>4, Moves
    <3>6. QED
      BY <1>0, <1>3, <2>1, <3>5 DEF Snapshot, history, Locks, Records
  <2>4. QED
    BY <1>3, <2>2, <2>3 DEF Snapshot
<1>4. CASE SaveBaseline(h)
  <2>1. loc[h].tree \in Trees
    BY <1>0, <1>4 DEF SaveBaseline, Sound, At
  <2>2. Processes'
    BY <1>0, <1>4, KeepsOrDrops DEF SaveBaseline
  <2>3. Stored'
    BY <1>0, <1>4, <2>1, InitialType, Stores DEF SaveBaseline, StoreFails, Stored
  <2>4. Records'
    BY <1>0, <1>4 DEF SaveBaseline, Records
  <2>5. QED
    BY <1>0, <1>4, <2>2, <2>3, <2>4 DEF SaveBaseline, Locks
<1>5. CASE Decide(h)
  <2> DEFINE st == RecordEvaluation(loc[h].mem, loc[h].tree, FALSE)
  <2>1. loc[h].mem \in Saved /\ loc[h].tree \in Trees /\ loc[h].event = "Stop"
    BY <1>0, <1>5, Typed DEF Decide, Sound, At
  <2>2. st \in Saved /\ st # NoState
    BY <2>1, RecordType, TypeAssumption
  <2>3. CASE Drop(h)
    BY <1>0, <1>5, <2>2, <2>3, KeepsOrDrops, Stores
       DEF Decide, StoreFails, history, Locks, Stored, Records
  <2>4. CASE Store(h, st) /\ Goto(h, "send") /\ SetLoc(h, [loc[h] EXCEPT !.mem = st])
    <3> DEFINE l == [loc[h] EXCEPT !.mem = st]
    <3>1. /\ l \in Locals
          /\ l.tree = loc[h].tree /\ l.event = loc[h].event /\ l.mem = st
      <4>1. loc[h] \in Locals /\ st \in Saved
        BY <1>0, <2>2, Typed
      <4> HIDE DEF st
      <4>2. l \in Locals
        BY <4>1, LocalFields, Zenon
      <4>3. QED
        BY <4>1, <4>2, LocalValues, Zenon
    <3>2. "send" \in Labels /\ Sound("send", l)
      BY <2>1, <2>2, <3>1 DEF Sound, Labels
    <3> HIDE DEF st
    <3>3. Stored'
      BY <1>0, <2>2, <2>4, Stores
    <3>4. SetLoc(h, l) /\ Goto(h, "send")
      BY <2>4
    <3> HIDE DEF l
    <3>5. Processes'
      BY <1>0, <3>1, <3>2, <3>4, Moves
    <3>6. QED
      BY <1>0, <1>5, <3>3, <3>5 DEF Decide, history, Locks, Records
  <2>5. QED
    BY <1>5, <2>3, <2>4 DEF Decide
<1>6. CASE Send(h)
  <2>1. Processes'
    <3>1. "reply" \in Labels /\ Sound("reply", loc[h])
      BY <1>0, <1>6 DEF Send, Sound, Labels, At
    <3>2. QED
      BY <1>0, <1>6, <3>1, Goes, KeepsOrDrops DEF Send
  <2>2. loc[h].tree \in Trees
    BY <1>0, <1>6 DEF Send, Sound, At
  <2>3. Records'
    BY <1>0, <1>6, <2>2, CountType DEF Send, Records
  <2>4. QED
    BY <1>0, <1>6, <2>1, <2>3 DEF Send, Locks, Stored
<1>7. CASE Reply(h)
  <2> DEFINE st == RecordEvaluation(loc[h].mem, loc[h].tree, TRUE)
  <2>1. loc[h].mem \in Saved /\ loc[h].tree \in Trees
    BY <1>0, <1>7, Typed DEF Reply, Sound, At
  <2>2. loc[h].mem.count = 0 => st \in Saved
    BY <2>1, RecordType
  <2>3. Processes'
    BY <1>0, <1>7, KeepsOrDrops, Leaves DEF Reply
  <2>4. Stored'
    BY <1>0, <1>7, <2>2, Stores DEF Reply, StoreFails, Stored
  <2>5. QED
    BY <1>0, <1>7, <2>3, <2>4 DEF Reply, history, Locks, Records
<1>8. CASE Emit(h)
  <2>1. Records'
    BY <1>0, <1>8, CountType DEF Emit, Records
  <2>2. QED
    BY <1>0, <1>8, <2>1, Exits DEF Emit, Locks, Stored
<1>9. QED
  BY <1>1, <1>2, <1>3, <1>4, <1>5, <1>6, <1>7, <1>8 DEF Run

LEMMA InitInv == Init => Inv
<1>1. SUFFICES ASSUME Init PROVE Inv
  OBVIOUS
<1>2. "idle" \in Labels /\ Sound("idle", Blank)
  BY DEF Labels, Sound
<1>3. Processes
  BY <1>1, <1>2, BlankType DEF Init, Processes
<1>4. Stored
  BY <1>1, AbsentType DEF Init, Stored
<1>5. Locks
  BY <1>1, ZeroAge DEF Init, Locks
<1>6. Records
  BY <1>1 DEF Init, Records, Cap
<1>7. QED
  BY <1>3, <1>4, <1>5, <1>6, Parts

LEMMA NextInv == Inv /\ [Next]_vars => Inv'
<1> SUFFICES ASSUME Inv, [Next]_vars PROVE Inv'
  OBVIOUS
<1>0. Processes /\ Locks /\ Stored /\ Records
  BY Parts
<1>p. ASSUME Processes', Locks', Stored', Records' PROVE Inv'
  BY <1>p DEF Inv, TypeOK, Processes, Locks, Stored, Records
<1>1. ASSUME NEW h \in Hooks, Begin(h) PROVE Inv'
  <2>1. PICK p \in Prompts, event \in Events :
          /\ submitted' = IF event = "Stop" \/ Resubmit THEN submitted ELSE submitted \cup {p}
          /\ SetLoc(h, Fresh(event, p))
    BY <1>1 DEF Begin
  <2>2. Fresh(event, p) \in Locals
    BY DEF Fresh, Locals
  <2>3. Processes'
    BY <1>0, <1>1, <2>1, <2>2, MovesQuietly, QuietLabels DEF Begin
  <2>4. Records'
    BY <1>0, <1>1, <2>1 DEF Begin, Records
  <2>5. QED
    BY <1>0, <1>1, <1>p, <2>3, <2>4 DEF Begin, Locks, Stored
<1>2. ASSUME NEW h \in Hooks, StorageStep(h) PROVE Inv'
  <2>1. Processes' /\ Locks' /\ Stored'
    BY <1>0, <1>2, OpenInv, LockCleanupInv DEF StorageStep
  <2>2. QED
    BY <1>0, <1>2, <1>p, <2>1 DEF StorageStep, history, Records
<1>3. ASSUME NEW h \in Hooks, Run(h) PROVE Inv'
  BY <1>3, RunInv
<1>4. ASSUME NEW h \in Hooks, Crash(h) PROVE Inv'
  <2>1. \A p \in Prompts :
          dir[p] \in Directory /\ [dir[p] EXCEPT !.marker = "torn"] \in Directory
    <3>1. "torn" \in Markers
      BY DEF Markers
    <3>2. QED
      BY <1>0, <3>1, DirectoryUpdate, ZeroAge DEF Stored
  <2>2. Stored'
    BY <1>4, <2>1 DEF Crash, Stored
  <2>3. Locks'
    BY <1>0, <1>4 DEF Crash, Locks
  <2>4. QED
    BY <1>0, <1>4, <1>p, <2>2, <2>3, Exits DEF Crash, history, Records
<1>5. ASSUME Tick PROVE Inv'
  <2>1. \A n \in 0..TTL : Older(n) \in 0..TTL
    BY TypeAssumption DEF Older
  <2>2. \A p \in Prompts :
          dir[p] \in Directory /\ [dir[p] EXCEPT !.age = Older(dir[p].age)] \in Directory
    BY <1>0, <2>1, DirectoryUpdate, Fields DEF Stored
  <2>3. Stored'
    BY <1>5, <2>2 DEF Tick, Stored
  <2>4. Locks'
    BY <1>0, <1>5, <2>1 DEF Tick, Locks
  <2>5. \A h \in Hooks :
          /\ [loc[h] EXCEPT !.ticked = TRUE] \in Locals
          /\ [loc[h] EXCEPT !.ticked = TRUE].mem = loc[h].mem
          /\ [loc[h] EXCEPT !.ticked = TRUE].tree = loc[h].tree
          /\ [loc[h] EXCEPT !.ticked = TRUE].event = loc[h].event
    BY <1>0, Typed, LocalFields, LocalValues
  <2>6. \A h \in Hooks :
          /\ loc'[h] \in Locals /\ loc'[h].mem = loc[h].mem
          /\ loc'[h].tree = loc[h].tree /\ loc'[h].event = loc[h].event
    BY <1>0, <1>5, <2>5, Typed DEF Tick
  <2>7. loc' \in [Hooks -> Locals] /\ pc' = pc
    BY <1>5, <2>6 DEF Tick
  <2>8. Processes'
    BY <1>0, <2>6, <2>7 DEF Processes, Sound
  <2>9. QED
    BY <1>0, <1>5, <1>p, <2>3, <2>4, <2>8 DEF Tick, history, Records
<1>6. CASE UNCHANGED vars
  BY <1>0, <1>6, <1>p DEF vars, Processes, Locks, Stored, Records
<1>7. QED
  BY <1>1, <1>2, <1>3, <1>4, <1>5, <1>6 DEF Next, Step

\* Every variable keeps its type, whatever the hooks, the prompts, the storage
\* and the faults: in particular a Stop that decides, sends or answers always
\* has the record it has loaded, and the tree it has taken.
THEOREM TypeCorrect == Spec => []TypeOK
<1>1. Inv => TypeOK
  BY DEF Inv
<1>2. QED
  BY <1>1, InitInv, NextInv, PTL DEF Spec

----------------------------------------------------------------------------
\* The locks: the inductive invariant

\* The labels at which a hook may hold a lock.
Holding == Work \cup {"close", "rm", "unlock"}

\* The lock of a hook that holds one: its prompt's, or its sweep's.
Held(h) == IF loc[h].sweeping THEN loc[h].target ELSE loc[h].prompt

\* Where a hook is, and what it sweeps.
Placed(h) ==
    /\ ~loc[h].sweeping => loc[h].target = loc[h].prompt
    /\ loc[h].sweeping => pc[h] \in {"sweep", "seize", "close", "rm", "unlock"}
    /\ pc[h] \in {"sweep", "seize"} => loc[h].sweeping

\* A lock that a sweep may go past stays as it is.
Retired(p) == lock[p] = Dead /\ Tombstone(p)

\* The locks a hook needs, and the locks that bear its name: the one it holds,
\* which has seen at most one tick, because the hook has.
Disciplined(h) ==
    /\ Critical(h) => lock[loc[h].prompt] = h
    /\ pc[h] \in {"close", "rm"} /\ loc[h].sweeping =>
         lock[loc[h].target] = h \/ Retired(loc[h].target)
    /\ \A p \in Prompts : lock[p] = h =>
         /\ pc[h] \in Holding /\ Held(h) = p
         /\ lockAge[p] = 0 \/ (lockAge[p] = 1 /\ loc[h].ticked)

LockInv == \A h \in Hooks : Placed(h) /\ Disciplined(h)

----------------------------------------------------------------------------
\* The locks: the kinds of step

\* The other hooks are where they were.
Alone(h) == \A g \in Hooks \ {h} : pc'[g] = pc[g] /\ loc'[g] = loc[g]

EqualPlace(k, l) ==
    /\ k.prompt = l.prompt /\ k.target = l.target
    /\ k.sweeping = l.sweeping /\ k.ticked = l.ticked

SamePlace(h) == EqualPlace(loc'[h], loc[h])

\* A step from a place without a lock to another.
Outside(h) ==
    /\ pc[h] \notin Holding /\ pc'[h] \notin Holding /\ Placed(h)'
    /\ KeepLock \/ \E p \in Prompts : Strand(p)

\* A step under the lock, or behind a tombstone.
Inside(h) ==
    /\ pc[h] \in Holding /\ pc'[h] \in Holding
    /\ loc[h].sweeping => pc[h] \in {"close", "rm"} /\ pc'[h] \notin Work
    /\ pc[h] # "unlock" /\ SamePlace(h) /\ KeepLock

\* A step that takes a lock: the prompt's by Lock, an expired one's by a sweep.
Taking(h) ==
    /\ pc[h] \notin Holding /\ SamePlace(h)
    /\ \/ pc[h] = "lock" /\ pc'[h] = "load" /\ Take(h, loc[h].prompt)
       \/ pc[h] = "seize" /\ pc'[h] = "close" /\ Take(h, loc[h].target)

\* A sweep that goes behind a lock.
Passing(h) ==
    /\ pc[h] = "seize" /\ pc'[h] = "close" /\ SamePlace(h)
    /\ Tombstone(loc[h].target) /\ KeepLock

\* The unlock.
Giving(h) ==
    /\ pc[h] = "unlock" /\ pc'[h] \notin Holding /\ Placed(h)'
    /\ Release(h, loc[h].target)

LEMMA HoldingLabels ==
    /\ Holding = {"load", "snapshot", "save", "decide", "send", "reply",
                  "close", "rm", "unlock"}
    /\ \A h : Critical(h) <=>
         pc[h] \in Work \/ (pc[h] \in {"close", "rm", "unlock"} /\ ~loc[h].sweeping)
BY DEF Holding, Work, Critical

LEMMA HookNames == \A h \in Hooks : h # Free /\ h # Dead
BY TypeAssumption

\* What a step of h does to the locks leaves every other hook disciplined.
LEMMA OthersKeep ==
    ASSUME LockInv, NEW h \in Hooks, Alone(h),
           \A p \in Prompts :
             \/ lock'[p] = lock[p] /\ lockAge'[p] = lockAge[p]
             \/ lock[p] \in {Free, h} /\ lock'[p] \in {Free, h, Dead},
           Inv, NEW g \in Hooks \ {h}
    PROVE  Placed(g)' /\ Disciplined(g)'
<1>1. pc'[g] = pc[g] /\ loc'[g] = loc[g] /\ Placed(g) /\ Disciplined(g)
  BY DEF Alone, LockInv
<1>2. \A p \in Prompts : /\ lock'[p] = g <=> lock[p] = g
                         /\ lock'[p] = g => lockAge'[p] = lockAge[p]
                         /\ Retired(p) => Retired(p)'
  BY HookNames, TypeAssumption DEF Retired, Tombstone
<1>3. loc[g].prompt \in Prompts /\ loc[g].target \in Prompts
  BY Parts, Typed
<1>4. Placed(g)'
  BY <1>1 DEF Placed
<1>5. (Critical(g) => lock[loc[g].prompt] = g)'
  BY <1>1, <1>2, <1>3 DEF Disciplined, Critical
<1>6. (pc[g] \in {"close", "rm"} /\ loc[g].sweeping =>
         lock[loc[g].target] = g \/ Retired(loc[g].target))'
  BY <1>1, <1>2, <1>3 DEF Disciplined, Retired, Tombstone
<1>7. \A p \in Prompts : lock'[p] = g =>
         /\ pc'[g] \in Holding /\ Held(g)' = p
         /\ lockAge'[p] = 0 \/ (lockAge'[p] = 1 /\ loc'[g].ticked)
  BY <1>1, <1>2 DEF Disciplined, Held
<1>8. QED
  BY <1>4, <1>5, <1>6, <1>7 DEF Disciplined

\* What each kind of step leaves the hook itself.
LEMMA OutsideKeeps ==
    ASSUME Inv, LockInv, NEW h \in Hooks, Outside(h) \/ Giving(h)
    PROVE  Placed(h)' /\ Disciplined(h)'
<1>1. \A p \in Prompts : lock'[p] # h
  <2>1. CASE Outside(h)
    BY <2>1, HookNames, Parts DEF Outside, Disciplined, LockInv, KeepLock, Strand, Locks
  <2>2. CASE Giving(h)
    <3>1. \A p \in Prompts : lock[p] = h => p = loc[h].target
      BY DEF Disciplined, LockInv, Held, Placed
    <3>2. QED
      BY <2>2, <3>1, HookNames, Parts DEF Giving, Release, KeepLock, Locks
  <2>3. QED
    BY <2>1, <2>2
<1>2. pc'[h] \notin Holding /\ Placed(h)'
  BY DEF Outside, Giving
<1>3. ~Critical(h)' /\ pc'[h] \notin {"close", "rm"}
  BY <1>2, HoldingLabels DEF Critical, Work
<1>4. QED
  BY <1>1, <1>2, <1>3 DEF Disciplined

LEMMA InsideKeeps ==
    ASSUME Inv, LockInv, NEW h \in Hooks, Inside(h)
    PROVE  Placed(h)' /\ Disciplined(h)'
<1>1. Placed(h) /\ Disciplined(h) /\ lock' = lock /\ lockAge' = lockAge
  BY DEF LockInv, Inside, KeepLock
<1>2. Placed(h)'
  BY <1>1, HoldingLabels DEF Inside, SamePlace, EqualPlace, Placed, Work
<1>3. Critical(h)' => Critical(h)
  BY <1>1, HoldingLabels DEF Inside, SamePlace, EqualPlace, Critical, Placed, Work
<1>4. QED
  BY <1>1, <1>2, <1>3, HoldingLabels
     DEF Inside, SamePlace, EqualPlace, Disciplined, Held, Retired, Tombstone, Work

LEMMA TakingKeeps ==
    ASSUME Inv, LockInv, NEW h \in Hooks, Taking(h) \/ Passing(h)
    PROVE  Placed(h)' /\ Disciplined(h)'
<1>1. Placed(h) /\ Disciplined(h) /\ SamePlace(h) /\ pc[h] \notin Holding
  BY HoldingLabels DEF LockInv, Taking, Passing
<1>2. \A p \in Prompts : lock[p] # h
  BY <1>1 DEF Disciplined
<1>3. loc[h].prompt \in Prompts /\ loc[h].target \in Prompts /\ Locks
  BY Parts, Typed
<1>4. CASE pc[h] = "lock" /\ pc'[h] = "load" /\ Take(h, loc[h].prompt)
  <2>1. ~loc[h].sweeping
    BY <1>1, <1>4 DEF Placed
  <2>2. Placed(h)'
    BY <1>1, <1>4, <2>1 DEF Placed, SamePlace, EqualPlace
  <2>3. lock'[loc[h].prompt] = h /\ lockAge'[loc[h].prompt] = 0
    BY <1>3, <1>4 DEF Take, Locks
  <2>4. \A p \in Prompts : lock'[p] = h => p = loc[h].prompt
    BY <1>2, <1>3, <1>4 DEF Take, Locks
  <2>5. QED
    BY <1>1, <1>4, <2>1, <2>2, <2>3, <2>4, HoldingLabels
       DEF Disciplined, SamePlace, EqualPlace, Held, Critical
<1>5. CASE pc[h] = "seize" /\ pc'[h] = "close" /\ Take(h, loc[h].target)
  <2>1. loc[h].sweeping
    BY <1>1, <1>5 DEF Placed
  <2>2. Placed(h)'
    BY <1>1, <1>5, <2>1 DEF Placed, SamePlace, EqualPlace
  <2>3. lock'[loc[h].target] = h /\ lockAge'[loc[h].target] = 0
    BY <1>3, <1>5 DEF Take, Locks
  <2>4. \A p \in Prompts : lock'[p] = h => p = loc[h].target
    BY <1>2, <1>3, <1>5 DEF Take, Locks
  <2>5. ~Critical(h)'
    BY <1>1, <1>5, <2>1 DEF Critical, SamePlace, EqualPlace, Work
  <2>6. QED
    BY <1>1, <1>5, <2>1, <2>2, <2>3, <2>4, <2>5, HoldingLabels
       DEF Disciplined, SamePlace, EqualPlace, Held
<1>6. CASE Passing(h)
  <2>1. loc[h].sweeping /\ lock' = lock /\ lockAge' = lockAge
    BY <1>1, <1>6 DEF Placed, Passing, KeepLock
  <2>2. Placed(h)'
    BY <1>1, <1>6, <2>1 DEF Placed, SamePlace, EqualPlace, Passing
  <2>3. \A g \in Hooks : lock[loc[h].target] = g => lockAge[loc[h].target] <= 1
    BY <1>3 DEF LockInv, Disciplined
  <2>4. lock[loc[h].target] = Dead
    BY <1>3, <1>6, <2>3, TypeAssumption DEF Passing, Tombstone, Expired, Locks
  <2>5. Retired(loc[h].target)
    BY <1>6, <2>4 DEF Passing, Retired
  <2>6. ~Critical(h)'
    BY <1>6, <2>1, <1>1 DEF Critical, SamePlace, EqualPlace, Work, Passing
  <2>7. \A p \in Prompts : lock'[p] # h
    BY <1>2, <2>1
  <2>8. loc'[h].target = loc[h].target
    BY <1>1 DEF SamePlace, EqualPlace
  <2>9. QED
    BY <2>1, <2>2, <2>5, <2>6, <2>7, <2>8 DEF Disciplined, Retired, Tombstone
<1>7. QED
  BY <1>4, <1>5, <1>6 DEF Taking

----------------------------------------------------------------------------
\* The locks: which steps are of which kind

Kinds(h) ==
    /\ Alone(h)
    /\ Outside(h) \/ Inside(h) \/ Taking(h) \/ Passing(h) \/ Giving(h)

\* The updates of the locals after which a hook still works at the same place.
LEMMA PlaceValues ==
    ASSUME NEW l \in Locals
    PROVE  /\ \A a : /\ EqualPlace([l EXCEPT !.rest = a], l)
                    /\ EqualPlace([l EXCEPT !.rest = a, !.ok = FALSE], l)
                    /\ EqualPlace([l EXCEPT !.ok = a], l)
                    /\ EqualPlace([l EXCEPT !.mem = a], l)
                    /\ EqualPlace([l EXCEPT !.tree = a], l)
           /\ \A a, b : EqualPlace([l EXCEPT !.active = a, !.mem = b], l)
           /\ \A b : EqualPlace([l EXCEPT !.active = FALSE, !.mem = NoState,
                                         !.tree = None, !.out = b], l)
BY DEF EqualPlace, Locals

Sweeps(l) == l.sweeping
Settled(l) == ~l.sweeping /\ l.target = l.prompt

LEMMA SweepValues ==
    ASSUME NEW l \in Locals
    PROVE  /\ \A a : Sweeps([l EXCEPT !.todo = a, !.sweeping = TRUE])
           /\ \A a, q : l.sweeping => Sweeps([l EXCEPT !.todo = a, !.target = q])
           /\ Settled([l EXCEPT !.sweeping = FALSE, !.target = l.prompt])
           /\ Settled(Blank)
BY DEF Locals, Blank, Fresh, Sweeps, Settled

LEMMA GotoPlace ==
    ASSUME Processes, NEW h \in Hooks, NEW label, Goto(h, label)
    PROVE  /\ pc'[h] = label
           /\ \A g \in Hooks \ {h} : pc'[g] = pc[g]
BY DEF Processes, Goto

LEMMA SetLocPlace ==
    ASSUME Processes, NEW h \in Hooks, NEW l, SetLoc(h, l)
    PROVE  /\ loc'[h] = l
           /\ \A g \in Hooks \ {h} : loc'[g] = loc[g]
BY DEF Processes, SetLoc

LEMMA EqualMoves ==
    ASSUME Processes, NEW h \in Hooks, NEW l, SetLoc(h, l), EqualPlace(l, loc[h])
    PROVE  SamePlace(h)
BY SetLocPlace DEF SamePlace

LEMMA SweepMoves ==
    ASSUME Processes, NEW h \in Hooks, NEW l, SetLoc(h, l)
    PROVE  /\ Sweeps(l) => Sweeps(loc'[h])
           /\ Settled(l) => Settled(loc'[h])
BY SetLocPlace

LEMMA GoesPlace ==
    ASSUME Processes, NEW h \in Hooks, NEW label, Goto(h, label), UNCHANGED loc
    PROVE  Alone(h) /\ SamePlace(h) /\ pc'[h] = label
BY GotoPlace DEF Alone, SamePlace, EqualPlace

LEMMA MovesPlace ==
    ASSUME Processes, NEW h \in Hooks, NEW label, NEW l, Goto(h, label), SetLoc(h, l)
    PROVE  Alone(h) /\ pc'[h] = label /\ loc'[h] = l
BY GotoPlace, SetLocPlace DEF Alone

LEMMA ExitPlace ==
    ASSUME Processes, NEW h \in Hooks, Exit(h)
    PROVE  Alone(h) /\ pc'[h] = "idle" /\ pc'[h] \notin Holding /\ Placed(h)'
<1>1. Alone(h) /\ pc'[h] = "idle" /\ loc'[h] = Blank
  BY MovesPlace DEF Exit
<1>2. ~Blank.sweeping /\ Blank.target = Blank.prompt
  BY BlankType, SweepValues DEF Settled
<1>3. QED
  BY <1>1, <1>2, HoldingLabels DEF Placed

LEMMA LeavePlace ==
    ASSUME Inv, NEW h \in Hooks, Keep(h) \/ Drop(h) \/ Leave(h, "unlock", TRUE)
    PROVE  Alone(h) /\ SamePlace(h) /\ pc'[h] \in {"unlock", "close"}
<1>1. Processes /\ loc[h] \in Locals
  BY Parts, Typed
<1>2. PICK label \in {"unlock", "close"}, out \in BOOLEAN : Leave(h, label, out)
  BY DEF Keep, Drop
<1> DEFINE l == [loc[h] EXCEPT !.active = FALSE, !.mem = NoState, !.tree = None,
                              !.out = out]
<1>3. Goto(h, label) /\ SetLoc(h, l)
  BY <1>2 DEF Leave
<1>4. EqualPlace(l, loc[h])
  BY <1>1, PlaceValues
<1> HIDE DEF l
<1>5. Alone(h) /\ pc'[h] = label /\ SamePlace(h)
  BY <1>1, <1>3, <1>4, MovesPlace, EqualMoves
<1>6. QED
  BY <1>5

\* The run, from the load to the reply, stays under its lock; the output is
\* written without it.
LEMMA RunKinds ==
    ASSUME Inv, LockInv, NEW h \in Hooks, Run(h)
    PROVE  Kinds(h)
<1>1. Processes /\ Stored /\ loc[h] \in Locals /\ Placed(h)
  BY Parts, Typed DEF LockInv
<1>2. ASSUME pc[h] \in Work, Alone(h), SamePlace(h), KeepLock,
             pc'[h] \in Work \cup {"close", "unlock"}
      PROVE  Kinds(h)
  BY <1>1, <1>2, HoldingLabels DEF Kinds, Inside, Placed, Work
<1>3. ASSUME pc[h] \in Work, KeepLock, Keep(h) \/ Drop(h) \/ Leave(h, "unlock", TRUE)
      PROVE  Kinds(h)
  BY <1>2, <1>3, LeavePlace
<1>4. ASSUME pc[h] \in Work, KeepLock, NEW label \in Work, Goto(h, label),
             \/ UNCHANGED loc
             \/ \E b \in BOOLEAN, m \in Saved \cup {NoState} :
                  SetLoc(h, [loc[h] EXCEPT !.active = b, !.mem = m])
             \/ \E t \in Trees : SetLoc(h, [loc[h] EXCEPT !.tree = t])
             \/ \E m : SetLoc(h, [loc[h] EXCEPT !.mem = m])
      PROVE  Kinds(h)
  <2>1. Alone(h) /\ pc'[h] = label
    BY <1>1, <1>4, GoesPlace, MovesPlace
  <2>2. SamePlace(h)
    <3>1. CASE UNCHANGED loc
      BY <3>1 DEF SamePlace, EqualPlace
    <3>2. ASSUME NEW b \in BOOLEAN, NEW m,
                 SetLoc(h, [loc[h] EXCEPT !.active = b, !.mem = m])
          PROVE  SamePlace(h)
      BY <1>1, <3>2, SetLocPlace, EqualMoves, PlaceValues
    <3>3. ASSUME NEW t, SetLoc(h, [loc[h] EXCEPT !.tree = t]) PROVE SamePlace(h)
      BY <1>1, <3>3, SetLocPlace, EqualMoves, PlaceValues
    <3>4. ASSUME NEW m, SetLoc(h, [loc[h] EXCEPT !.mem = m]) PROVE SamePlace(h)
      BY <1>1, <3>4, SetLocPlace, EqualMoves, PlaceValues
    <3>5. QED
      BY <1>4, <3>1, <3>2, <3>3, <3>4
  <2>3. QED
    BY <1>2, <1>4, <2>1, <2>2
<1>5. CASE LoadSubmit(h)
  BY <1>3, <1>4, <1>5 DEF LoadSubmit, KeepLock, At, Work
<1>6. CASE LoadStop(h)
  <2>1. Keep(h) \/ Drop(h) \/
        \E b \in BOOLEAN, m \in Saved \cup {NoState} :
          SetLoc(h, [loc[h] EXCEPT !.active = b, !.mem = m]) /\ Goto(h, "snapshot")
    BY <1>1, <1>6, Typed, Fields DEF LoadStop
  <2>2. pc[h] \in Work /\ KeepLock /\ "snapshot" \in Work
    BY <1>6 DEF LoadStop, At, Work, KeepLock
  <2>3. QED
    BY <1>3, <1>4, <2>1, <2>2
<1>7. CASE Snapshot(h)
  <2>1. Drop(h) \/
        \E t \in Trees : /\ SetLoc(h, [loc[h] EXCEPT !.tree = t])
                        /\ Goto(h, IF loc[h].event = "Stop" THEN "decide" ELSE "save")
    BY <1>7 DEF Snapshot
  <2>2. pc[h] \in Work /\ KeepLock /\ {"decide", "save"} \subseteq Work
    BY <1>7 DEF Snapshot, At, Work, KeepLock
  <2>3. QED
    BY <1>3, <1>4, <2>1, <2>2
<1>8. CASE SaveBaseline(h)
  BY <1>3, <1>8 DEF SaveBaseline, At, Work, KeepLock
<1>9. CASE Decide(h)
  <2>1. \/ Drop(h)
        \/ Goto(h, "send") /\ \E m : SetLoc(h, [loc[h] EXCEPT !.mem = m])
    BY <1>9 DEF Decide
  <2>2. pc[h] \in Work /\ KeepLock /\ "send" \in Work
    BY <1>9 DEF Decide, At, Work, KeepLock
  <2>3. QED
    BY <1>3, <1>4, <2>1, <2>2
<1>10. CASE Send(h)
  BY <1>3, <1>4, <1>10 DEF Send, At, Work, KeepLock
<1>11. CASE Reply(h)
  BY <1>3, <1>11 DEF Reply, At, Work, KeepLock
<1>12. CASE Emit(h)
  <2>1. Alone(h) /\ pc'[h] \notin Holding /\ Placed(h)'
    BY <1>1, <1>12, ExitPlace DEF Emit
  <2>2. QED
    BY <1>12, <2>1, HoldingLabels DEF Emit, At, Kinds, Outside, KeepLock
<1>13. QED
  BY <1>5, <1>6, <1>7, <1>8, <1>9, <1>10, <1>11, <1>12 DEF Run

\* The steps of Open, Lock, Cleanup and unlock.
LEMMA StorageKinds ==
    ASSUME Inv, LockInv, NEW h \in Hooks, StorageStep(h)
    PROVE  Kinds(h)
<1>1. /\ Processes /\ Stored /\ loc[h] \in Locals /\ Placed(h)
      /\ loc[h].prompt \in Prompts /\ loc[h].target \in Prompts
  BY Parts, Typed DEF LockInv
<1>2. ASSUME Exit(h), pc[h] \notin Holding, KeepLock \/ \E p \in Prompts : Strand(p)
      PROVE  Kinds(h)
  BY <1>1, <1>2, ExitPlace DEF Kinds, Outside
<1>3. ASSUME pc[h] \notin Holding \cup {"sweep", "seize"}, NEW label,
             label \notin Holding \cup {"sweep", "seize"},
             Goto(h, label), UNCHANGED loc, KeepLock
      PROVE  Kinds(h)
  <2>1. Alone(h) /\ SamePlace(h) /\ pc'[h] = label /\ ~loc[h].sweeping
    BY <1>1, <1>3, GoesPlace, HoldingLabels DEF Placed
  <2>2. Placed(h)'
    BY <1>1, <1>3, <2>1 DEF Placed, SamePlace, EqualPlace
  <2>3. QED
    BY <1>3, <2>1, <2>2 DEF Kinds, Outside
<1>4. CASE ReadBase(h)
  <2>1. PICK t \in SUBSET Prompts :
          SetLoc(h, [loc[h] EXCEPT !.todo = t, !.sweeping = TRUE])
    BY <1>4 DEF ReadBase
  <2>2. Alone(h) /\ pc'[h] = "sweep" /\ Sweeps(loc'[h])
    BY <1>1, <1>4, <2>1, MovesPlace, SweepMoves, SweepValues DEF ReadBase
  <2>3. QED
    BY <1>4, <2>2, HoldingLabels
       DEF ReadBase, At, Kinds, Outside, Placed, KeepLock, Sweeps
<1>5. CASE Examine(h)
  <2>1. PICK q \in Prompts, label \in {"seize", "sweep"} :
          /\ SetLoc(h, [loc[h] EXCEPT !.todo = loc[h].todo \ {q}, !.target = q])
          /\ Goto(h, label)
    BY <1>1, <1>5, Typed DEF Examine
  <2>2. pc[h] = "sweep" /\ loc[h].sweeping
    BY <1>1, <1>5 DEF Examine, At, Placed
  <2>3. Alone(h) /\ pc'[h] = label /\ Sweeps(loc'[h])
    BY <1>1, <2>1, <2>2, MovesPlace, SweepMoves, SweepValues
  <2>4. QED
    BY <1>5, <2>2, <2>3, HoldingLabels
       DEF Examine, Kinds, Outside, Placed, KeepLock, Sweeps
<1>6. CASE EndSweep(h)
  <2>1. Alone(h) /\ pc'[h] = "mkdir" /\ Settled(loc'[h])
    BY <1>1, <1>6, MovesPlace, SweepMoves, SweepValues DEF EndSweep
  <2>2. QED
    BY <1>6, <2>1, HoldingLabels
       DEF EndSweep, At, Kinds, Outside, Placed, KeepLock, Settled
<1>7. CASE Seize(h)
  <2>1. PICK label \in {"close", "sweep"} :
          /\ Goto(h, label)
          /\ \/ label = "close" /\ Take(h, loc[h].target)
             \/ label = "close" /\ Tombstone(loc[h].target) /\ KeepLock
             \/ label = "sweep" /\ KeepLock
             \/ label = "sweep" /\ Strand(loc[h].target)
    BY <1>7 DEF Seize
  <2>2. pc[h] = "seize" /\ loc[h].sweeping /\ UNCHANGED loc
    BY <1>1, <1>7 DEF Seize, At, Placed
  <2>3. Alone(h) /\ SamePlace(h) /\ pc'[h] = label
    BY <1>1, <2>1, <2>2, GoesPlace
  <2>4. CASE label = "close"
    BY <2>1, <2>2, <2>3, <2>4, HoldingLabels DEF Kinds, Taking, Passing
  <2>5. CASE label = "sweep"
    BY <1>1, <2>1, <2>2, <2>3, <2>5, HoldingLabels
       DEF Kinds, Outside, Placed, SamePlace, EqualPlace
  <2>6. QED
    BY <2>4, <2>5
<1>8. CASE MakeDir(h)
  BY <1>3, <1>8, HoldingLabels DEF MakeDir, At, KeepLock
<1>9. CASE ReadMarker(h)
  BY <1>2, <1>3, <1>9, HoldingLabels DEF ReadMarker, At, KeepLock
<1>10. CASE Inspect(h)
  BY <1>2, <1>3, <1>10, HoldingLabels DEF Inspect, At, KeepLock
<1>11. CASE Create(h)
  BY <1>2, <1>3, <1>11, HoldingLabels DEF Create, At, KeepLock
<1>12. CASE Encode(h)
  BY <1>2, <1>3, <1>12, HoldingLabels DEF Encode, At, KeepLock
<1>13. CASE Validate(h)
  BY <1>2, <1>3, <1>13, HoldingLabels DEF Validate, At, KeepLock
<1>14. CASE SnapDir(h)
  BY <1>2, <1>3, <1>14, HoldingLabels DEF SnapDir, At, KeepLock
<1>15. CASE TryLock(h)
  <2>1. pc[h] = "lock" /\ pc[h] \notin Holding
    BY <1>15, HoldingLabels DEF TryLock, At
  <2>2. CASE Take(h, loc[h].prompt) /\ Goto(h, "load") /\ UNCHANGED loc
    BY <1>1, <2>1, <2>2, GoesPlace DEF Kinds, Taking
  <2>3. CASE Exit(h)
    <3>1. Alone(h) /\ pc'[h] \notin Holding /\ Placed(h)'
      BY <1>1, <2>3, ExitPlace
    <3>2. CASE KeepLock \/ Strand(loc[h].prompt)
      BY <1>1, <2>1, <3>1, <3>2 DEF Kinds, Outside
    <3>3. CASE Take(h, loc[h].prompt) /\ Goto(h, "load")
      BY <1>1, <3>1, <3>3, GotoPlace, HoldingLabels
    <3>4. QED
      BY <1>15, <3>2, <3>3 DEF TryLock
  <2>4. QED
    BY <1>15, <2>2, <2>3 DEF TryLock
<1>16. CASE Close(h)
  <2>1. pc[h] = "close" /\ KeepLock
    BY <1>16 DEF Close, At, KeepLock
  <2>2. CASE Valid(dir[loc[h].target])
    <3>1. Alone(h) /\ pc'[h] = "rm" /\ SamePlace(h)
      BY <1>1, <1>16, <2>2, MovesPlace, EqualMoves, PlaceValues DEF Close
    <3>2. QED
      BY <2>1, <3>1, HoldingLabels DEF Kinds, Inside, Work
  <2>3. CASE ~Valid(dir[loc[h].target])
    <3>1. PICK b \in BOOLEAN : SetLoc(h, [loc[h] EXCEPT !.ok = b])
      BY <1>16, <2>3, ZenonT(20) DEF Close
    <3>2. Goto(h, "unlock")
      BY <1>16, <2>3 DEF Close
    <3>3. Alone(h) /\ pc'[h] = "unlock" /\ SamePlace(h)
      BY <1>1, <3>1, <3>2, MovesPlace, EqualMoves, PlaceValues
    <3>4. QED
      BY <2>1, <3>3, HoldingLabels DEF Kinds, Inside, Work
  <2>4. QED
    BY <2>2, <2>3
<1>17. CASE Remove(h)
  <2>1. PICK r : \/ SetLoc(h, [loc[h] EXCEPT !.rest = r])
                 \/ SetLoc(h, [loc[h] EXCEPT !.rest = r, !.ok = FALSE])
    BY <1>17 DEF Remove
  <2>2. SamePlace(h) /\ \A g \in Hooks \ {h} : loc'[g] = loc[g]
    BY <1>1, <2>1, SetLocPlace, EqualMoves, PlaceValues
  <2>3. pc[h] = "rm" /\ pc' = pc /\ KeepLock
    BY <1>17 DEF Remove, At, KeepLock
  <2>4. QED
    BY <2>2, <2>3, HoldingLabels DEF Kinds, Alone, Inside, Work
<1>18. CASE RemoveDir(h)
  <2>1. Alone(h) /\ pc'[h] = "unlock" /\ SamePlace(h)
    BY <1>1, <1>18, GoesPlace, MovesPlace, EqualMoves, PlaceValues DEF RemoveDir
  <2>2. pc[h] = "rm" /\ KeepLock
    BY <1>18 DEF RemoveDir, At, KeepLock
  <2>3. QED
    BY <2>1, <2>2, HoldingLabels DEF Kinds, Inside, Work
<1>19. CASE Unlock(h)
  <2>1. pc[h] = "unlock" /\ Release(h, loc[h].target)
    BY <1>19 DEF Unlock, At
  <2>2. CASE Exit(h)
    BY <1>1, <2>1, <2>2, ExitPlace DEF Kinds, Giving
  <2>3. CASE /\ UNCHANGED loc
             /\ \/ ~loc[h].sweeping /\ Goto(h, "emit")
                \/ loc[h].sweeping /\ Goto(h, "sweep")
    <3>1. /\ Alone(h) /\ SamePlace(h)
          /\ pc'[h] = IF loc[h].sweeping THEN "sweep" ELSE "emit"
      BY <1>1, <2>3, GoesPlace
    <3>2. pc'[h] \notin Holding /\ Placed(h)'
      BY <1>1, <3>1, HoldingLabels DEF Placed, SamePlace, EqualPlace
    <3>3. QED
      BY <2>1, <3>1, <3>2 DEF Kinds, Giving
  <2>4. QED
    BY <1>19, <2>2, <2>3 DEF Unlock
<1>20. QED
  BY <1>4, <1>5, <1>6, <1>7, <1>8, <1>9, <1>10, <1>11, <1>12, <1>13, <1>14,
     <1>15, <1>16, <1>17, <1>18, <1>19 DEF StorageStep, Open, Cleanup

LEMMA KindsKeep ==
    ASSUME Inv, LockInv, NEW h \in Hooks, Kinds(h)
    PROVE  LockInv'
<1>1. Locks /\ Placed(h) /\ Disciplined(h) /\ loc[h].prompt \in Prompts
      /\ loc[h].target \in Prompts
  BY Parts, Typed DEF LockInv
<1>2. \A p \in Prompts :
        \/ lock'[p] = lock[p] /\ lockAge'[p] = lockAge[p]
        \/ lock[p] \in {Free, h} /\ lock'[p] \in {Free, h, Dead}
  <2>1. CASE KeepLock
    BY <2>1 DEF KeepLock
  <2>2. ASSUME NEW q \in Prompts, Take(h, q) \/ Strand(q) \/ Release(h, q)
        PROVE  \A p \in Prompts :
                 \/ lock'[p] = lock[p] /\ lockAge'[p] = lockAge[p]
                 \/ lock[p] \in {Free, h} /\ lock'[p] \in {Free, h, Dead}
    BY <1>1, <2>2 DEF Take, Strand, Release, KeepLock, Locks
  <2>3. QED
    BY <1>1, <2>1, <2>2 DEF Kinds, Outside, Inside, Taking, Passing, Giving
<1>3. Alone(h) /\ Placed(h)' /\ Disciplined(h)'
  BY OutsideKeeps, InsideKeeps, TakingKeeps DEF Kinds
<1>4. \A g \in Hooks \ {h} : Placed(g)' /\ Disciplined(g)'
  BY <1>2, <1>3, OthersKeep
<1>5. QED
  BY <1>3, <1>4 DEF LockInv

----------------------------------------------------------------------------
\* The lock discipline

LEMMA InitLockInv == Init => LockInv
<1> SUFFICES ASSUME Init PROVE LockInv
  OBVIOUS
<1>1. \A h \in Hooks : pc[h] = "idle" /\ loc[h] = Blank
  BY DEF Init
<1>2. ~Blank.sweeping /\ Blank.target = Blank.prompt
  BY BlankType, SweepValues DEF Settled
<1>3. \A h \in Hooks, p \in Prompts : lock[p] # h
  BY HookNames DEF Init
<1>4. QED
  BY <1>1, <1>2, <1>3, HoldingLabels DEF LockInv, Placed, Disciplined, Critical, Work

LEMMA NextLockInv == Inv /\ LockInv /\ [Next]_vars => LockInv'
<1> SUFFICES ASSUME Inv, LockInv, [Next]_vars PROVE LockInv'
  OBVIOUS
<1>0. Processes /\ Locks
  BY Parts
<1>1. ASSUME NEW h \in Hooks, Begin(h) PROVE LockInv'
  <2>1. PICK p \in Prompts, event \in Events : SetLoc(h, Fresh(event, p))
    BY <1>1 DEF Begin
  <2>2. PICK label \in {"readdir", "mkdir"} : Goto(h, label)
    BY <1>1 DEF Begin
  <2>3. Alone(h) /\ pc'[h] = label /\ loc'[h] = Fresh(event, p)
    BY <1>0, <2>1, <2>2, MovesPlace
  <2>4. Placed(h)'
    BY <2>3 DEF Placed, Fresh
  <2>5. pc[h] = "idle" /\ KeepLock
    BY <1>1 DEF Begin, At, KeepLock
  <2>6. Kinds(h)
    BY <2>3, <2>4, <2>5, HoldingLabels DEF Kinds, Outside
  <2>7. QED
    BY <2>6, KindsKeep
<1>2. ASSUME NEW h \in Hooks, Step(h) PROVE LockInv'
  BY <1>2, RunKinds, StorageKinds, KindsKeep DEF Step
<1>3. ASSUME NEW h \in Hooks, Crash(h) PROVE LockInv'
  <2>1. \A p \in Prompts :
          /\ lock'[p] = IF lock[p] = h THEN Dead ELSE lock[p]
          /\ lockAge'[p] = lockAge[p]
    BY <1>0, <1>3 DEF Crash, Locks
  <2>2. Alone(h) /\ pc'[h] = "idle" /\ pc'[h] \notin Holding /\ Placed(h)'
    BY <1>0, <1>3, ExitPlace DEF Crash
  <2>3. \A g \in Hooks \ {h} : Placed(g)' /\ Disciplined(g)'
    BY <2>1, <2>2, OthersKeep
  <2>4. Disciplined(h)'
    BY <2>1, <2>2, HookNames, HoldingLabels DEF Disciplined, Critical, Work
  <2>5. QED
    BY <2>2, <2>3, <2>4 DEF LockInv
<1>4. ASSUME Tick PROVE LockInv'
  <2> SUFFICES ASSUME NEW h \in Hooks PROVE Placed(h)' /\ Disciplined(h)'
    BY DEF LockInv
  <2>0. Placed(h) /\ Disciplined(h) /\ loc[h] \in Locals
        /\ loc[h].prompt \in Prompts /\ loc[h].target \in Prompts
    BY Parts, Typed DEF LockInv
  <2>1. lock' = lock /\ pc' = pc
    BY <1>4 DEF Tick
  <2>2. /\ loc'[h].prompt = loc[h].prompt /\ loc'[h].target = loc[h].target
        /\ loc'[h].sweeping = loc[h].sweeping
        /\ pc[h] # "idle" => ~loc[h].ticked /\ loc'[h].ticked
    <3>1. LET l == [loc[h] EXCEPT !.ticked = TRUE]
          IN  /\ l.prompt = loc[h].prompt /\ l.target = loc[h].target
              /\ l.sweeping = loc[h].sweeping /\ l.ticked
      BY <2>0 DEF Locals
    <3>2. pc[h] # "idle" =>
            loc'[h] = [loc[h] EXCEPT !.ticked = TRUE] /\ ~loc[h].ticked
      BY <1>4 DEF Tick, Live
    <3>3. pc[h] = "idle" => loc'[h] = loc[h]
      BY <1>4 DEF Tick, Live
    <3>4. QED
      BY <3>1, <3>2, <3>3
  <2>3. Placed(h)'
    BY <2>0, <2>1, <2>2 DEF Placed
  <2>4. Critical(h)' => lock'[loc'[h].prompt] = h
    BY <2>0, <2>1, <2>2 DEF Critical, Disciplined
  <2>5. \A p \in Prompts :
          /\ Expired(lockAge[p]) /\ lock[p] = Dead =>
               Expired(lockAge'[p]) /\ lock'[p] = Dead
          /\ lockAge[p] = 0 => lockAge'[p] \in {0, 1}
    BY <1>0, <1>4, <2>1, TypeAssumption DEF Tick, Older, Expired, Locks
  <2>6. pc[h] \in {"close", "rm"} /\ loc[h].sweeping =>
          \/ lock'[loc[h].target] = h
          \/ lock'[loc[h].target] = Dead /\ Expired(lockAge'[loc[h].target])
    BY <2>0, <2>1, <2>5, HookNames DEF Disciplined, Retired, Tombstone
  <2>7. \A p \in Prompts : lock'[p] = h =>
          /\ pc'[h] \in Holding /\ Held(h)' = p
          /\ lockAge'[p] = 0 \/ (lockAge'[p] = 1 /\ loc'[h].ticked)
    <3> SUFFICES ASSUME NEW p \in Prompts, lock[p] = h
                 PROVE  /\ pc'[h] \in Holding /\ Held(h)' = p
                        /\ lockAge'[p] = 0 \/ (lockAge'[p] = 1 /\ loc'[h].ticked)
      BY <2>1
    <3>1. /\ pc[h] \in Holding /\ Held(h) = p
          /\ lockAge[p] = 0 \/ (lockAge[p] = 1 /\ loc[h].ticked)
      BY <2>0 DEF Disciplined
    <3>2. ~loc[h].ticked /\ loc'[h].ticked
      BY <2>2, <3>1, HoldingLabels
    <3>3. lockAge'[p] \in {0, 1}
      BY <2>5, <3>1, <3>2
    <3>4. Held(h)' = p
      BY <2>2, <3>1 DEF Held
    <3>5. QED
      BY <2>1, <3>1, <3>2, <3>3, <3>4
  <2>8. Disciplined(h)'
    <3>1. (pc[h] \in {"close", "rm"} /\ loc[h].sweeping =>
             \/ lock[loc[h].target] = h
             \/ /\ lock[loc[h].target] = Dead /\ lock[loc[h].target] # Free
                /\ Expired(lockAge[loc[h].target]))'
      BY <2>1, <2>2, <2>6, TypeAssumption DEF Expired
    <3>2. QED
      BY <2>4, <2>7, <3>1 DEF Disciplined, Retired, Tombstone
  <2>9. QED
    BY <2>3, <2>8
<1>5. CASE UNCHANGED vars
  BY <1>5 DEF vars, LockInv, Placed, Disciplined, Critical, Held, Retired, Tombstone
<1>6. QED
  BY <1>1, <1>2, <1>3, <1>4, <1>5 DEF Next

\* However many hooks run, crash and sweep, a hook reads and writes a prompt's
\* record only under the lock it made itself, and a sweep removes a directory
\* only under its lock or behind the lock of a process that is gone.
THEOREM LockDiscipline == Spec => []LockHeld
<1>1. LockInv => LockHeld
  BY DEF LockInv, Disciplined, LockHeld, Retired
<1>2. QED
  BY <1>1, InitInv, NextInv, InitLockInv, NextLockInv, PTL DEF Spec

----------------------------------------------------------------------------
\* What a step does to the directories

\* A record is in a directory.
Present == \A p \in Prompts : dir[p].state # NoState => dir[p].there

\* The record stays, in a directory that does not become less valid.
Harmless(p) ==
    /\ dir'[p].state = dir[p].state
    /\ dir'[p].state # NoState => dir'[p].there
    /\ Valid(dir[p]) => Valid(dir'[p])

\* Store.Save of the hook's prompt.
Writes(h, p) ==
    /\ pc[h] \in {"save", "decide", "reply"} /\ loc[h].prompt = p
    /\ Valid(dir[p]) /\ Valid(dir'[p])

\* An entry of the directory is unlinked.
Unlinks(h, p) ==
    /\ pc[h] = "rm" /\ pc'[h] = "rm" /\ loc[h].target = p
    /\ dir'[p].state \in {dir[p].state, NoState}
    /\ dir'[p].there <=> dir[p].there

Effect(h) == \A p \in Prompts : Harmless(p) \/ Writes(h, p) \/ Unlinks(h, p)

LEMMA DirectoryValues ==
    ASSUME NEW d \in Directory
    PROVE  /\ \A m, a : LET e == [d EXCEPT !.marker = m, !.age = a]
                      IN  (e.there <=> d.there) /\ e.marker = m /\ e.state = d.state
           /\ \A m : LET e == [d EXCEPT !.marker = m]
                   IN  (e.there <=> d.there) /\ e.marker = m /\ e.state = d.state
           /\ \A s, a : LET e == [d EXCEPT !.snap = s, !.age = a]
                      IN  (e.there <=> d.there) /\ e.marker = d.marker /\ e.state = d.state
           /\ \A s, a : LET e == [d EXCEPT !.there = TRUE, !.snap = s, !.age = a]
                      IN  e.there /\ e.marker = d.marker /\ e.state = d.state
           /\ \A s, a : LET e == [d EXCEPT !.state = s, !.age = a]
                      IN  (e.there <=> d.there) /\ e.marker = d.marker /\ e.state = s
           /\ \A a : LET e == [d EXCEPT !.age = a]
                   IN  (e.there <=> d.there) /\ e.marker = d.marker /\ e.state = d.state
BY DEF Directory

LEMMA NewDirectory ==
    /\ ~Absent.there /\ Absent.state = NoState
    /\ [Absent EXCEPT !.there = TRUE].state = NoState
BY DEF Absent

LEMMA WithoutValues ==
    ASSUME NEW d \in Directory, NEW e \in {"marker", "snap", "state"}
    PROVE  /\ Without(d, e).there <=> d.there
           /\ Without(d, e).state = IF e = "state" THEN NoState ELSE d.state
           /\ Without(d, e).marker = IF e = "marker" THEN "none" ELSE d.marker
BY DirectoryValues DEF Without

LEMMA SetDirPlace ==
    ASSUME Stored, NEW p \in Prompts, NEW d, SetDir(p, d)
    PROVE  dir'[p] = d /\ \A q \in Prompts \ {p} : dir'[q] = dir[q]
BY DEF Stored, SetDir

\* A step that changes one directory, or none, has that effect.
LEMMA SameHarmless ==
    ASSUME Present, NEW p \in Prompts, dir'[p] = dir[p]
    PROVE  Harmless(p)
BY DEF Present, Harmless

LEMMA OneHarmless ==
    ASSUME Present, Stored, NEW h, NEW q \in Prompts, NEW d, SetDir(q, d),
           d.state = dir[q].state, d.state # NoState => d.there,
           Valid(dir[q]) => Valid(d)
    PROVE  Effect(h)
BY SetDirPlace, SameHarmless DEF Harmless, Effect

LEMMA NoneHarmless ==
    ASSUME Present, NEW h, UNCHANGED dir
    PROVE  Effect(h)
BY SameHarmless DEF Effect

LEMMA MarkerNames == \A h \in Hooks : h # "ok" /\ h # "none" /\ h # "torn"
BY TypeAssumption

LEMMA StorageEffect ==
    ASSUME Inv, Present, NEW h \in Hooks, StorageStep(h)
    PROVE  Effect(h)
<1> DEFINE p == loc[h].prompt
          q == loc[h].target
<1>1. /\ Stored /\ p \in Prompts /\ q \in Prompts
      /\ dir[p] \in Directory /\ dir[q] \in Directory
      /\ loc[h].rest \subseteq {"marker", "snap", "state"}
  BY Parts, Typed
<1>2. CASE UNCHANGED dir
  BY <1>2, NoneHarmless
<1>3. CASE MakeDir(h)
  <2>1. CASE ~dir[p].there /\ SetDir(p, [Absent EXCEPT !.there = TRUE])
    <3>1. dir[p].state = NoState
      BY <1>1, <2>1 DEF Present
    <3>2. QED
      BY <1>1, <2>1, <3>1, NewDirectory, OneHarmless DEF Valid
  <2>2. QED
    BY <1>2, <1>3, <2>1 DEF MakeDir
<1>4. CASE Create(h)
  <2>1. CASE dir[p].marker = "none" /\ SetDir(p, [dir[p] EXCEPT !.marker = h, !.age = 0])
    <3> DEFINE d == [dir[p] EXCEPT !.marker = h, !.age = 0]
    <3>1. d.state = dir[p].state /\ (d.there <=> dir[p].there) /\ SetDir(p, d)
      BY <1>1, <2>1, DirectoryValues
    <3>2. Valid(dir[p]) => Valid(d)
      BY <1>1, <2>1, DirectoryValues DEF Valid
    <3> HIDE DEF d
    <3>3. QED
      BY <1>1, <3>1, <3>2, OneHarmless DEF Present
  <2>2. QED
    BY <1>2, <1>4, <2>1 DEF Create
<1>5. CASE Encode(h)
  <2>1. CASE dir[p].marker = h /\ SetDir(p, [dir[p] EXCEPT !.marker = "ok", !.age = 0])
    <3> DEFINE d == [dir[p] EXCEPT !.marker = "ok", !.age = 0]
    <3>1. d.state = dir[p].state /\ (d.there <=> dir[p].there) /\ SetDir(p, d)
      BY <1>1, <2>1, DirectoryValues
    <3>2. Valid(dir[p]) => Valid(d)
      BY <1>1, <2>1, DirectoryValues, MarkerNames DEF Valid
    <3> HIDE DEF d
    <3>3. QED
      BY <1>1, <3>1, <3>2, OneHarmless DEF Present
  <2>2. CASE dir[p].marker = h /\ SetDir(p, [dir[p] EXCEPT !.marker = "torn"])
    <3> DEFINE d == [dir[p] EXCEPT !.marker = "torn"]
    <3>1. d.state = dir[p].state /\ (d.there <=> dir[p].there) /\ SetDir(p, d)
      BY <1>1, <2>2, DirectoryValues
    <3>2. Valid(dir[p]) => Valid(d)
      BY <1>1, <2>2, DirectoryValues, MarkerNames DEF Valid
    <3> HIDE DEF d
    <3>3. QED
      BY <1>1, <3>1, <3>2, OneHarmless DEF Present
  <2>3. QED
    BY <1>2, <1>5, <2>1, <2>2 DEF Encode
<1>6. CASE SnapDir(h)
  <2>1. CASE SetDir(p, [dir[p] EXCEPT !.snap = "empty", !.age = 0])
    <3> DEFINE d == [dir[p] EXCEPT !.snap = "empty", !.age = 0]
    <3>1. d.state = dir[p].state /\ (d.there <=> dir[p].there) /\ SetDir(p, d)
      BY <1>1, <2>1, DirectoryValues
    <3>2. Valid(dir[p]) => Valid(d)
      BY <1>1, <2>1, DirectoryValues DEF Valid
    <3> HIDE DEF d
    <3>3. QED
      BY <1>1, <3>1, <3>2, OneHarmless DEF Present
  <2>2. QED
    BY <1>2, <1>6, <2>1 DEF SnapDir
<1>7. CASE Remove(h)
  <2>1. ASSUME NEW e \in loc[h].rest, SetDir(q, Without(dir[q], e)) PROVE Effect(h)
    <3>1. pc[h] = "rm" /\ pc'[h] = "rm"
      BY <1>7 DEF Remove, At
    <3>2. Unlinks(h, q)
      BY <1>1, <2>1, <3>1, SetDirPlace, WithoutValues DEF Unlinks
    <3>3. QED
      BY <1>1, <2>1, <3>2, SetDirPlace, SameHarmless DEF Effect
  <2>2. QED
    BY <1>2, <1>7, <2>1 DEF Remove
<1>8. CASE RemoveDir(h)
  <2>1. CASE Entries(dir[q]) = {} /\ SetDir(q, Absent)
    <3>1. dir[q].state = NoState /\ dir[q].marker = "none"
      BY <2>1 DEF Entries
    <3>2. QED
      BY <1>1, <2>1, <3>1, NewDirectory, OneHarmless DEF Valid
  <2>2. QED
    BY <1>2, <1>8, <2>1 DEF RemoveDir
<1>9. QED
  BY <1>2, <1>3, <1>4, <1>5, <1>6, <1>7, <1>8
     DEF StorageStep, Open, Cleanup, ReadBase, Examine, EndSweep, Seize, ReadMarker,
         Inspect, Validate, TryLock, Close, Unlock

LEMMA StoreWrites ==
    ASSUME Inv, Present, NEW h \in Hooks, NEW st, Store(h, st),
           pc[h] \in {"save", "decide", "reply"}
    PROVE  /\ Effect(h)
           /\ Valid(dir[loc[h].prompt]) /\ Valid(dir'[loc[h].prompt])
           /\ dir'[loc[h].prompt].state = st
           /\ \A p \in Prompts \ {loc[h].prompt} : dir'[p] = dir[p]
<1> DEFINE p == loc[h].prompt
<1>1. Stored /\ p \in Prompts /\ dir[p] \in Directory
  BY Parts, Typed
<1>2. Valid(dir[p]) /\ Valid(dir'[p]) /\ dir'[p].state = st
  <2> DEFINE d == [dir[p] EXCEPT !.state = st, !.age = 0]
  <2>1. (d.there <=> dir[p].there) /\ d.marker = dir[p].marker /\ d.state = st
    BY <1>1, DirectoryValues
  <2>2. Valid(dir[p]) /\ SetDir(p, d)
    BY DEF Store
  <2> HIDE DEF d
  <2>3. QED
    BY <1>1, <2>1, <2>2, SetDirPlace DEF Valid
<1>3. \A r \in Prompts \ {p} : dir'[r] = dir[r]
  BY <1>1, SetDirPlace DEF Store
<1>4. QED
  BY <1>1, <1>2, <1>3, SameHarmless DEF Effect, Writes

LEMMA SnapshotHarmless ==
    ASSUME Inv, Present, NEW h \in Hooks, Snapshot(h)
    PROVE  \A p \in Prompts : Harmless(p)
<1> DEFINE p == loc[h].prompt
<1>1. Stored /\ p \in Prompts /\ dir[p] \in Directory
  BY Parts, Typed
<1>2. PICK a : \/ SetDir(p, [dir[p] EXCEPT !.there = TRUE, !.snap = "private", !.age = a])
               \/ UNCHANGED dir
  BY DEF Snapshot
<1>3. CASE UNCHANGED dir
  BY <1>3, SameHarmless
<1>4. CASE SetDir(p, [dir[p] EXCEPT !.there = TRUE, !.snap = "private", !.age = a])
  <2> DEFINE d == [dir[p] EXCEPT !.there = TRUE, !.snap = "private", !.age = a]
  <2>0. d.there /\ d.marker = dir[p].marker /\ d.state = dir[p].state /\ dir'[p] = d
    BY <1>1, <1>4, SetDirPlace, DirectoryValues
  <2> HIDE DEF d
  <2>1. Harmless(p)
    BY <2>0 DEF Harmless, Valid
  <2>2. QED
    BY <1>1, <1>4, <2>1, SetDirPlace, SameHarmless
<1>5. QED
  BY <1>2, <1>3, <1>4

LEMMA RunEffect ==
    ASSUME Inv, Present, NEW h \in Hooks, Run(h)
    PROVE  Effect(h)
<1>1. CASE UNCHANGED dir
  BY <1>1, NoneHarmless
<1>2. CASE Snapshot(h)
  BY <1>2, SnapshotHarmless DEF Effect
<1>3. CASE SaveBaseline(h)
  BY <1>1, <1>3, StoreWrites DEF SaveBaseline, StoreFails, At
<1>4. CASE Decide(h)
  BY <1>1, <1>4, StoreWrites DEF Decide, StoreFails, At
<1>5. CASE Reply(h)
  BY <1>1, <1>5, StoreWrites DEF Reply, StoreFails, At
<1>6. QED
  BY <1>1, <1>2, <1>3, <1>4, <1>5 DEF Run, LoadSubmit, LoadStop, Send, Emit

LEMMA CrashHarmless ==
    ASSUME Inv, Present, NEW h \in Hooks, Crash(h)
    PROVE  \A p \in Prompts : Harmless(p)
<1> SUFFICES ASSUME NEW p \in Prompts PROVE Harmless(p)
  OBVIOUS
<1>1. dir[p] \in Directory
  BY Parts, Typed
<1>2. dir'[p] = IF dir[p].marker = h THEN [dir[p] EXCEPT !.marker = "torn"] ELSE dir[p]
  BY DEF Crash
<1>3. CASE dir[p].marker = h
  BY <1>1, <1>2, <1>3, DirectoryValues, MarkerNames DEF Harmless, Present, Valid
<1>4. QED
  BY <1>2, <1>3, SameHarmless

LEMMA TickHarmless ==
    ASSUME Inv, Present, Tick
    PROVE  \A p \in Prompts : Harmless(p)
<1> SUFFICES ASSUME NEW p \in Prompts PROVE Harmless(p)
  OBVIOUS
<1>1. dir[p] \in Directory
  BY Parts DEF Stored
<1>2. PICK a : dir'[p] = [dir[p] EXCEPT !.age = a] \/ dir'[p] = dir[p]
  BY DEF Tick
<1>3. CASE dir'[p] = [dir[p] EXCEPT !.age = a]
  BY <1>1, <1>3, DirectoryValues DEF Harmless, Present, Valid
<1>4. QED
  BY <1>2, <1>3, SameHarmless

\* The lock keeps every other hook off the record, except that a sweep unlinks
\* behind an abandoned lock.
LEMMA Undisturbed ==
    ASSUME Inv, LockInv, NEW h \in Hooks, Effect(h),
           NEW p \in Prompts, lock[p] # h
    PROVE  Harmless(p) \/ (lock[p] = Dead /\ Unlinks(h, p))
<1>1. Placed(h) /\ Disciplined(h)
  BY DEF LockInv
<1>2. ~Writes(h, p)
  BY <1>1, HoldingLabels DEF Writes, Disciplined, Work
<1>3. Unlinks(h, p) => lock[p] = Dead
  BY <1>1, HoldingLabels DEF Unlinks, Disciplined, Placed, Retired
<1>4. QED
  BY <1>2, <1>3 DEF Effect

\* Every step of a hook has an effect of this kind and is of a kind of step.
LEMMA StepEffect ==
    ASSUME Inv, LockInv, Present, NEW h \in Hooks, Step(h)
    PROVE  Effect(h) /\ Kinds(h)
BY StorageEffect, RunEffect, StorageKinds, RunKinds DEF Step

LEMMA EffectKeepsPresent ==
    ASSUME Present, NEW h, Effect(h)
    PROVE  Present'
<1> SUFFICES ASSUME NEW p \in Prompts, dir'[p].state # NoState PROVE dir'[p].there
  BY DEF Present
<1>1. CASE Unlinks(h, p)
  BY <1>1 DEF Unlinks, Present
<1>2. QED
  BY <1>1 DEF Effect, Harmless, Writes, Valid

LEMMA InitPresent == Init => Present
BY DEF Init, Present, Absent

LEMMA BeginChanges ==
    ASSUME NEW h, Begin(h)
    PROVE  UNCHANGED <<dir, lock, lockAge, armed, asked, granted>>
BY DEF Begin

LEMMA NextPresent == Inv /\ LockInv /\ Present /\ [Next]_vars => Present'
<1> SUFFICES ASSUME Inv, LockInv, Present, [Next]_vars PROVE Present'
  OBVIOUS
<1>1. ASSUME NEW h \in Hooks, Begin(h) PROVE Present'
  BY <1>1, BeginChanges DEF Present
<1>2. ASSUME NEW h \in Hooks, Step(h) PROVE Present'
  BY <1>2, StepEffect, EffectKeepsPresent
<1>3. ASSUME NEW h \in Hooks, Crash(h) PROVE Present'
  BY <1>3, CrashHarmless DEF Present, Harmless
<1>4. CASE Tick
  BY <1>4, TickHarmless DEF Present, Harmless
<1>5. CASE UNCHANGED vars
  BY <1>5 DEF vars, Present
<1>6. QED
  BY <1>1, <1>2, <1>3, <1>4, <1>5 DEF Next

----------------------------------------------------------------------------
\* An abandoned prompt

LEMMA SendsUnderLock ==
    ASSUME Inv, LockInv, NEW h \in Hooks, Step(h),
           NEW p \in Prompts, lock[p] # h
    PROVE  asked'[p] = asked[p]
<1>1. CASE Send(h)
  <2>1. loc[h].prompt # p
    BY <1>1, HoldingLabels DEF Send, At, LockInv, Disciplined, Work
  <2>2. asked' = [asked EXCEPT ![loc[h].prompt] = Count(asked[loc[h].prompt])]
          \/ UNCHANGED asked
    BY <1>1 DEF Send
  <2>3. QED
    BY <2>1, <2>2, Parts DEF Records
<1>2. CASE ~Send(h)
  BY <1>2 DEF Step, StorageStep, Run, LoadSubmit, LoadStop, Snapshot, SaveBaseline,
              Decide, Reply, Emit, history
<1>3. QED
  BY <1>1, <1>2

\* No kind of step touches a lock that is abandoned.
LEMMA DeadStays ==
    ASSUME Inv, LockInv, NEW h \in Hooks, Kinds(h), NEW p \in Prompts, lock[p] = Dead
    PROVE  lock'[p] = Dead
<1>1. Locks /\ h # Dead /\ loc[h].prompt \in Prompts /\ loc[h].target \in Prompts
  BY Parts, Typed, HookNames
<1>2. CASE KeepLock
  BY <1>2 DEF KeepLock
<1>3. ASSUME NEW q \in Prompts, Take(h, q) \/ Strand(q) \/ Release(h, q)
      PROVE  lock'[p] = Dead
  BY <1>1, <1>3, TypeAssumption DEF Take, Strand, Release, KeepLock, Locks
<1>4. QED
  BY <1>1, <1>2, <1>3 DEF Kinds, Outside, Inside, Taking, Passing, Giving

\* Once a hook has been killed under its lock, or a lock has been stranded, the
\* prompt is shut for good: nothing is asked and nothing recorded for it again,
\* however many hooks, sweeps and deliveries of its submission follow.
THEOREM AbandonedForGood == Spec => TombstoneFinal
<1>1. Inv /\ LockInv /\ Present /\ [Next]_vars => [TombstoneFinalStep]_vars
  <2> SUFFICES ASSUME Inv, LockInv, Present, Next,
                      NEW p \in Prompts, lock[p] = Dead
               PROVE  /\ lock'[p] = Dead
                      /\ asked'[p] = asked[p]
                      /\ dir'[p].state \in {dir[p].state, NoState}
    BY DEF TombstoneFinalStep
  <2>1. ASSUME NEW h \in Hooks, Begin(h)
        PROVE  lock'[p] = Dead /\ asked'[p] = asked[p] /\ dir'[p].state = dir[p].state
    BY <2>1, BeginChanges
  <2>2. ASSUME NEW h \in Hooks, Step(h)
        PROVE  /\ lock'[p] = Dead
               /\ asked'[p] = asked[p]
               /\ dir'[p].state \in {dir[p].state, NoState}
    <3>1. lock[p] # h /\ Kinds(h) /\ Effect(h)
      BY <2>2, HookNames, StepEffect
    <3>2. lock'[p] = Dead /\ asked'[p] = asked[p]
      BY <2>2, <3>1, DeadStays, SendsUnderLock
    <3>3. QED
      BY <3>1, <3>2, Undisturbed DEF Harmless, Unlinks
  <2>3. ASSUME NEW h \in Hooks, Crash(h)
        PROVE  lock'[p] = Dead /\ asked'[p] = asked[p] /\ dir'[p].state = dir[p].state
    <3>1. Harmless(p)
      BY <2>3, CrashHarmless
    <3>2. QED
      BY <2>3, <3>1 DEF Crash, history, Harmless
  <2>4. CASE Tick
    BY <2>4, TickHarmless DEF Tick, history, Harmless
  <2>5. QED
    BY <2>1, <2>2, <2>3, <2>4 DEF Next
<1>2. QED
  BY <1>1, InitInv, NextInv, InitLockInv, NextLockInv, InitPresent, NextPresent, PTL
     DEF Spec, TombstoneFinal

----------------------------------------------------------------------------
\* What a step leaves of a hook's memory

SameMemory(k, l) ==
    /\ k.event = l.event /\ k.prompt = l.prompt
    /\ k.mem = l.mem /\ k.tree = l.tree /\ k.out = l.out

Remembers(h) == SameMemory(loc'[h], loc[h])

\* The updates of the locals that the storage steps and the clock make.
LEMMA MemoryValues ==
    ASSUME NEW l \in Locals
    PROVE  /\ \A a, b : /\ SameMemory([l EXCEPT !.todo = a, !.sweeping = b], l)
                       /\ SameMemory([l EXCEPT !.todo = a, !.target = b], l)
                       /\ SameMemory([l EXCEPT !.sweeping = a, !.target = b], l)
                       /\ SameMemory([l EXCEPT !.rest = a, !.ok = b], l)
           /\ \A a : /\ SameMemory([l EXCEPT !.rest = a], l)
                    /\ SameMemory([l EXCEPT !.ok = a], l)
                    /\ SameMemory([l EXCEPT !.ticked = a], l)
BY DEF SameMemory, Locals

LEMMA SetMemory ==
    ASSUME Processes, NEW h \in Hooks, NEW l, SetLoc(h, l), SameMemory(l, loc[h])
    PROVE  Remembers(h)
BY SetLocPlace DEF Remembers

\* A step of the storage ends the process, or leaves its memory and its run.
LEMMA StorageMemory ==
    ASSUME Inv, NEW h \in Hooks, StorageStep(h)
    PROVE  \/ pc'[h] = "idle" /\ loc'[h] = Blank
           \/ Remembers(h) /\ pc'[h] \in Quiet
<1>1. Processes /\ loc[h] \in Locals /\ loc[h].prompt \in Prompts
  BY Parts, Typed
<1>2. Exit(h) => pc'[h] = "idle" /\ loc'[h] = Blank
  BY <1>1, MovesPlace DEF Exit
<1>3. ASSUME NEW label \in Quiet, Goto(h, label) PROVE pc'[h] \in Quiet
  BY <1>1, <1>3, GotoPlace
<1>4. UNCHANGED loc => Remembers(h)
  BY DEF Remembers, SameMemory
<1>5. CASE ReadBase(h)
  BY <1>1, <1>3, <1>5, SetMemory, MemoryValues, QuietLabels DEF ReadBase
<1>6. CASE Examine(h)
  BY <1>1, <1>3, <1>6, SetMemory, MemoryValues, QuietLabels DEF Examine
<1>7. CASE EndSweep(h)
  BY <1>1, <1>3, <1>7, SetMemory, MemoryValues, QuietLabels DEF EndSweep
<1>8. CASE Close(h)
  <2>1. PICK a : SetLoc(h, [loc[h] EXCEPT !.rest = a]) \/ SetLoc(h, [loc[h] EXCEPT !.ok = a])
    BY <1>8 DEF Close
  <2>2. pc'[h] \in Quiet
    BY <1>3, <1>8, QuietLabels DEF Close
  <2>3. QED
    BY <1>1, <2>1, <2>2, SetMemory, MemoryValues
<1>9. CASE Remove(h)
  <2>1. PICK a : \/ SetLoc(h, [loc[h] EXCEPT !.rest = a])
                 \/ SetLoc(h, [loc[h] EXCEPT !.rest = a, !.ok = FALSE])
    BY <1>9 DEF Remove
  <2>2. pc'[h] \in Quiet
    BY <1>9, QuietLabels DEF Remove, At
  <2>3. QED
    BY <1>1, <2>1, <2>2, SetMemory, MemoryValues
<1>10. CASE RemoveDir(h)
  BY <1>1, <1>3, <1>4, <1>10, SetMemory, MemoryValues, QuietLabels DEF RemoveDir
<1>11. CASE \/ Seize(h) \/ MakeDir(h) \/ ReadMarker(h) \/ Inspect(h) \/ Create(h)
            \/ Encode(h) \/ Validate(h) \/ SnapDir(h) \/ TryLock(h) \/ Unlock(h)
  BY <1>2, <1>3, <1>4, <1>11, QuietLabels
     DEF Seize, MakeDir, ReadMarker, Inspect, Create, Encode, Validate, SnapDir,
         TryLock, Unlock
<1>12. QED
  BY <1>5, <1>6, <1>7, <1>8, <1>9, <1>10, <1>11 DEF StorageStep, Open, Cleanup

LEMMA TickMemory ==
    ASSUME Inv, Tick, NEW h \in Hooks
    PROVE  Remembers(h) /\ pc'[h] = pc[h]
<1>1. loc[h] \in Locals
  BY Parts, Typed
<1>2. loc'[h] \in {loc[h], [loc[h] EXCEPT !.ticked = TRUE]}
  BY DEF Tick
<1>3. SameMemory(loc[h], loc[h])
  BY DEF SameMemory
<1>4. QED
  BY <1>1, <1>2, <1>3, MemoryValues DEF Remembers, Tick

\* A hook that leaves its run forgets everything but its prompt.
LEMMA LeaveMemory ==
    ASSUME Inv, NEW h \in Hooks, NEW label, NEW out \in BOOLEAN, Leave(h, label, out)
    PROVE  /\ pc'[h] = label
           /\ loc'[h].event = loc[h].event /\ loc'[h].prompt = loc[h].prompt
           /\ loc'[h].out = out
<1> DEFINE l == [loc[h] EXCEPT !.active = FALSE, !.mem = NoState, !.tree = None,
                              !.out = out]
<1>1. Processes /\ loc[h] \in Locals
  BY Parts, Typed
<1>2. l.event = loc[h].event /\ l.prompt = loc[h].prompt /\ l.out = out
  BY <1>1 DEF Locals
<1>3. Goto(h, label) /\ SetLoc(h, l)
  BY DEF Leave
<1> HIDE DEF l
<1>4. QED
  BY <1>1, <1>2, <1>3, MovesPlace

----------------------------------------------------------------------------
\* What a Stop has loaded

\* The two parts of RecordedBeforeSend, for one hook.
Agrees(h) ==
    pc[h] \in {"snapshot", "decide", "send", "reply"} /\ loc[h].event = "Stop" =>
        Valid(dir[loc[h].prompt]) /\ dir[loc[h].prompt].state = loc[h].mem

Named(h) == pc[h] \in {"send", "reply"} => loc[h].mem.last = loc[h].tree

LEMMA RecordedParts == RecordedBeforeSend <=> \A h \in Hooks : Agrees(h) /\ Named(h)
BY DEF RecordedBeforeSend, Agrees, Named

\* The four labels are under the lock, and the other labels ask nothing.
LEMMA QuietAgrees ==
    ASSUME NEW h, pc'[h] \in Quiet \/ pc'[h] = "save"
    PROVE  Agrees(h)' /\ Named(h)'
BY DEF Quiet, Labels, Work, Agrees, Named

LEMMA RecordValues ==
    ASSUME NEW st \in Saved, NEW t, NEW c \in BOOLEAN
    PROVE  LET r == RecordEvaluation(st, t, c)
           IN  /\ r.base = st.base /\ r.last = t
               /\ r.count = IF c THEN st.count + 1 ELSE st.count
BY DEF RecordEvaluation, Saved

\* A hook's own step of the run.
LEMMA RunAgrees ==
    ASSUME Inv, LockInv, Present, NEW h \in Hooks, Agrees(h), Named(h), Run(h)
    PROVE  Agrees(h)' /\ Named(h)'
<1> DEFINE p == loc[h].prompt
<1>1. /\ Processes /\ Stored /\ loc[h] \in Locals /\ Sound(pc[h], loc[h])
      /\ p \in Prompts /\ loc[h].mem \in Saved \cup {NoState}
  BY Parts, Typed
<1>2. ASSUME NEW label \in {"unlock", "close"}, NEW out \in BOOLEAN, Leave(h, label, out)
      PROVE  Agrees(h)' /\ Named(h)'
  BY <1>2, LeaveMemory, QuietAgrees, QuietLabels
<1>3. ASSUME Keep(h) \/ Drop(h) \/ Leave(h, "unlock", TRUE)
      PROVE  Agrees(h)' /\ Named(h)'
  BY <1>2, <1>3 DEF Keep, Drop
<1>4. CASE LoadSubmit(h)
  <2>1. CASE Goto(h, "snapshot") /\ UNCHANGED loc
    <3>1. pc'[h] = "snapshot" /\ loc'[h].event # "Stop"
      BY <1>1, <1>4, <2>1, GotoPlace DEF LoadSubmit
    <3>2. QED
      BY <3>1 DEF Agrees, Named
  <2>2. QED
    BY <1>3, <1>4, <2>1 DEF LoadSubmit
<1>5. CASE LoadStop(h)
  <2>1. ASSUME NEW b, SetLoc(h, [loc[h] EXCEPT !.active = b, !.mem = dir[p].state]),
               Loaded(dir[p]), Goto(h, "snapshot")
        PROVE  Agrees(h)' /\ Named(h)'
    <3> DEFINE l == [loc[h] EXCEPT !.active = b, !.mem = dir[p].state]
    <3>1. l.mem = dir[p].state /\ l.prompt = p
      BY <1>1 DEF Locals
    <3>2. pc'[h] = "snapshot" /\ loc'[h] = l
      BY <1>1, <2>1, MovesPlace
    <3> HIDE DEF l
    <3>3. UNCHANGED dir
      BY <1>5 DEF LoadStop
    <3>4. QED
      BY <2>1, <3>1, <3>2, <3>3 DEF Agrees, Named, Loaded, Valid
  <2>2. QED
    BY <1>3, <1>5, <2>1 DEF LoadStop
<1>6. CASE Snapshot(h)
  <2>1. ASSUME NEW t, SetLoc(h, [loc[h] EXCEPT !.tree = t]),
               Goto(h, IF loc[h].event = "Stop" THEN "decide" ELSE "save")
        PROVE  Agrees(h)' /\ Named(h)'
    <3> DEFINE l == [loc[h] EXCEPT !.tree = t]
    <3>1. l.mem = loc[h].mem /\ l.prompt = p /\ l.event = loc[h].event
      BY <1>1 DEF Locals
    <3>2. /\ pc'[h] = IF loc[h].event = "Stop" THEN "decide" ELSE "save"
          /\ loc'[h] = l
      BY <1>1, <2>1, MovesPlace
    <3> HIDE DEF l
    <3>3. Harmless(p)
      BY <1>1, <1>6, SnapshotHarmless
    <3>4. QED
      BY <1>6, <3>1, <3>2, <3>3 DEF Snapshot, At, Agrees, Named, Harmless, Valid
  <2>2. QED
    BY <1>3, <1>6, <2>1 DEF Snapshot
<1>7. CASE SaveBaseline(h)
  BY <1>3, <1>7 DEF SaveBaseline
<1>8. CASE Decide(h)
  <2> DEFINE st == RecordEvaluation(loc[h].mem, loc[h].tree, FALSE)
  <2>1. CASE Store(h, st) /\ Goto(h, "send") /\ SetLoc(h, [loc[h] EXCEPT !.mem = st])
    <3> DEFINE l == [loc[h] EXCEPT !.mem = st]
    <3>1. l.mem = st /\ l.prompt = p /\ l.tree = loc[h].tree
      BY <1>1 DEF Locals
    <3>2. pc'[h] = "send" /\ loc'[h] = l
      BY <1>1, <2>1, MovesPlace
    <3>3. Valid(dir'[p]) /\ dir'[p].state = st
      BY <1>8, <2>1, StoreWrites DEF Decide, At
    <3>4. loc[h].mem \in Saved
      BY <1>1, <1>8 DEF Decide, At, Sound
    <3>5. st.last = loc[h].tree
      BY <3>4, RecordValues
    <3> HIDE DEF l, st
    <3>6. QED
      BY <3>1, <3>2, <3>3, <3>5 DEF Agrees, Named, Valid
  <2>2. QED
    BY <1>3, <1>8, <2>1 DEF Decide
<1>9. CASE Send(h)
  <2>1. CASE Goto(h, "reply") /\ UNCHANGED loc
    BY <1>1, <1>9, <2>1, GotoPlace DEF Send, At, Agrees, Named, Valid
  <2>2. QED
    BY <1>3, <1>9, <2>1 DEF Send
<1>10. CASE Reply(h)
  BY <1>3, <1>10 DEF Reply
<1>11. CASE Emit(h)
  BY <1>1, <1>11, ExitPlace, QuietAgrees, QuietLabels DEF Emit
<1>12. QED
  BY <1>4, <1>5, <1>6, <1>7, <1>8, <1>9, <1>10, <1>11 DEF Run

\* What another hook does leaves it as it is.
LEMMA OthersAgree ==
    ASSUME Inv, LockInv, NEW g \in Hooks, Agrees(g), Named(g),
           pc'[g] = pc[g], Remembers(g),
           pc[g] \in Work => Harmless(loc[g].prompt)
    PROVE  Agrees(g)' /\ Named(g)'
BY DEF Agrees, Named, Remembers, SameMemory, Harmless, Work, Valid

LEMMA WorkUndisturbed ==
    ASSUME Inv, LockInv, NEW h \in Hooks, Effect(h),
           NEW g \in Hooks \ {h}, Critical(g)
    PROVE  Harmless(loc[g].prompt)
<1>1. lock[loc[g].prompt] = g /\ loc[g].prompt \in Prompts
  BY Parts, Typed DEF LockInv, Disciplined
<1>2. QED
  BY <1>1, Undisturbed, HookNames

LEMMA NextRecorded ==
    Inv /\ LockInv /\ Present /\ RecordedBeforeSend /\ [Next]_vars => RecordedBeforeSend'
<1> SUFFICES ASSUME Inv, LockInv, Present, \A h \in Hooks : Agrees(h) /\ Named(h),
                    [Next]_vars, NEW g \in Hooks
             PROVE  Agrees(g)' /\ Named(g)'
  BY RecordedParts DEF RecordedBeforeSend, Agrees, Named
<1>0. Processes /\ loc[g].prompt \in Prompts
  BY Parts, Typed
<1>1. ASSUME NEW h \in Hooks, Begin(h) PROVE Agrees(g)' /\ Named(g)'
  <2>1. CASE g = h
    BY <1>0, <1>1, <2>1, GotoPlace, QuietAgrees, QuietLabels DEF Begin
  <2>2. CASE g # h
    <3>1. pc'[g] = pc[g] /\ loc'[g] = loc[g]
      BY <1>0, <1>1, <2>2, GotoPlace, SetLocPlace DEF Begin
    <3>2. QED
      BY <1>1, <3>1, BeginChanges DEF Agrees, Named
  <2>3. QED
    BY <2>1, <2>2
<1>2. ASSUME NEW h \in Hooks, Step(h) PROVE Agrees(g)' /\ Named(g)'
  <2>1. CASE g = h
    BY <1>2, <2>1, RunAgrees, StorageMemory, QuietAgrees, QuietLabels DEF Step
  <2>2. CASE g # h
    <3>1. pc'[g] = pc[g] /\ Remembers(g) /\ Effect(h)
      BY <1>2, <2>2, StepEffect DEF Kinds, Alone, Remembers, SameMemory
    <3>2. QED
      BY <2>2, <3>1, OthersAgree, WorkUndisturbed DEF Critical
  <2>3. QED
    BY <2>1, <2>2
<1>3. ASSUME NEW h \in Hooks, Crash(h) PROVE Agrees(g)' /\ Named(g)'
  <2>1. CASE g = h
    BY <1>0, <1>3, <2>1, ExitPlace, QuietAgrees, QuietLabels DEF Crash
  <2>2. CASE g # h
    <3>1. pc'[g] = pc[g] /\ Remembers(g)
      BY <1>0, <1>3, <2>2, ExitPlace DEF Crash, Alone, Remembers, SameMemory
    <3>2. QED
      BY <1>0, <1>3, <3>1, OthersAgree, CrashHarmless
  <2>3. QED
    BY <2>1, <2>2
<1>4. CASE Tick
  BY <1>0, <1>4, TickMemory, TickHarmless, OthersAgree
<1>5. CASE UNCHANGED vars
  BY <1>5 DEF vars, Agrees, Named, Valid
<1>6. QED
  BY <1>1, <1>2, <1>3, <1>4, <1>5 DEF Next

LEMMA InitRecorded == Init => RecordedBeforeSend
BY DEF Init, RecordedBeforeSend

\* What holds of every state, whatever fails and whoever is killed.
LEMMA Always == Spec => [](Inv /\ LockInv /\ Present /\ RecordedBeforeSend)
BY InitInv, NextInv, InitLockInv, NextLockInv, InitPresent, NextPresent,
   InitRecorded, NextRecorded, PTL DEF Spec

\* A Stop never works from memory that the disk no longer bears out: from its
\* load to its reply nobody else replaces, removes or invalidates the record,
\* and while a request is in flight the record names the diff it is about.
THEOREM RecordBeforeRequest == Spec => []RecordedBeforeSend
BY Always, PTL

----------------------------------------------------------------------------
\* What regular turns leave

\* Scratchpad storage, one hook of a prompt at a time, nobody killed and no
\* failing storage.
Regular == ~Fallback /\ ~Overlap /\ ~Crashes /\ ~Faulty

\* Between hooks a directory has nothing in it, or it is valid, with a record if
\* with content.
Bare(d) == d.marker = "none" /\ d.snap = "none" /\ d.state = NoState
Pending(d) == Valid(d) /\ (d.snap = "private" => d.state # NoState)
Clear(d) == Bare(d) \/ Pending(d)

\* The directory that a hook at each label has before it.
Fits(h, label, rest, d) ==
    /\ label \notin {"readdir", "sweep", "seize"}
    /\ label \in {"mkdir", "unlock", "emit"} => Clear(d)
    /\ label = "marker" => (d.there /\ Bare(d)) \/ Pending(d)
    /\ label \in {"inspect", "create"} => d.there /\ Bare(d)
    /\ label = "encode" =>
         d.there /\ d.marker = h /\ d.snap = "none" /\ d.state = NoState
    /\ label \in {"validate", "snapdir", "lock", "load"} => Pending(d)
    /\ label \in {"snapshot", "save", "decide", "send", "reply", "close"} => Valid(d)
    /\ label = "rm" => d.there /\ Entries(d) \subseteq rest

Sole == \A g, h \in Live : loc[g].prompt = loc[h].prompt => g = h

Ordered(h) ==
    /\ Settled(loc[h])
    /\ pc[h] # "idle" =>
         /\ Fits(h, pc[h], loc[h].rest, dir[loc[h].prompt])
         /\ lock[loc[h].prompt] = IF pc[h] \in Holding THEN h ELSE Free

Resting(p) == Unattended(p) => lock[p] = Free /\ Clear(dir[p])

Order ==
    /\ Sole
    /\ \A h \in Hooks : Ordered(h)
    /\ \A p \in Prompts : Resting(p)

\* What a step does to the directory of its prompt, the only one it changes: the
\* hook goes on with a directory that fits, or it ends and leaves a clear one.
Tends(h) ==
    LET p == loc[h].prompt
    IN  /\ \A q \in Prompts \ {p} : dir'[q] = dir[q]
        /\ \/ pc'[h] = "idle" /\ pc[h] = "emit" /\ Clear(dir'[p])
           \/ /\ pc'[h] # "idle" /\ loc'[h].prompt = p
              /\ Fits(h, pc'[h], loc'[h].rest, dir'[p])

LEMMA InitOrder == Init => Order
<1> SUFFICES ASSUME Init PROVE Order
  OBVIOUS
<1>1. \A h \in Hooks : pc[h] = "idle" /\ Settled(loc[h])
  BY SweepValues, BlankType DEF Init
<1>2. \A p \in Prompts : lock[p] = Free /\ Clear(dir[p])
  BY DEF Init, Absent, Clear, Bare
<1>3. QED
  BY <1>1, <1>2 DEF Order, Sole, Ordered, Resting, Live

\* What such a step does to the lock of its prompt, the only one it changes.
LEMMA TendsLock ==
    ASSUME Inv, LockInv, Regular, Order, NEW h \in Hooks, pc[h] # "idle",
           Kinds(h), Tends(h)
    PROVE  /\ \A q \in Prompts \ {loc[h].prompt} : lock'[q] = lock[q]
           /\ lock'[loc[h].prompt] = IF pc'[h] \in Holding THEN h ELSE Free
           /\ Settled(loc'[h])
<1> DEFINE p == loc[h].prompt
<1>1. /\ Placed(h) /\ Settled(loc[h]) /\ p \in Prompts /\ Locks
      /\ lock[p] = IF pc[h] \in Holding THEN h ELSE Free
      /\ pc[h] \notin {"readdir", "sweep", "seize"}
  BY Parts, Typed DEF LockInv, Order, Ordered, Fits
<1>2. pc'[h] \notin {"readdir", "sweep", "seize"}
  BY DEF Tends, Fits
<1>3. CASE Outside(h)
  <2>1. lock' = lock
    BY <1>3 DEF Outside, KeepLock, Strand, Regular
  <2>2. Settled(loc'[h])
    BY <1>2, <1>3, HoldingLabels DEF Outside, Placed, Settled
  <2>3. QED
    BY <1>1, <1>3, <2>1, <2>2 DEF Outside
<1>4. CASE Inside(h)
  BY <1>1, <1>4 DEF Inside, SamePlace, EqualPlace, KeepLock, Settled
<1>5. CASE Taking(h)
  <2>1. pc[h] = "lock" /\ pc'[h] = "load" /\ Take(h, p)
    BY <1>1, <1>5 DEF Taking
  <2>2. QED
    BY <1>1, <1>5, <2>1, HoldingLabels
       DEF Taking, Take, SamePlace, EqualPlace, Settled, Locks
<1>6. CASE Passing(h)
  BY <1>1, <1>6 DEF Passing
<1>7. CASE Giving(h)
  <2>1. lock'[p] = Free /\ \A q \in Prompts \ {p} : lock'[q] = lock[q]
    BY <1>1, <1>7, HoldingLabels DEF Giving, Release, Settled, Locks, Regular
  <2>2. Settled(loc'[h])
    BY <1>2, <1>7, HoldingLabels DEF Giving, Placed, Settled
  <2>3. QED
    BY <1>7, <2>1, <2>2 DEF Giving
<1>8. QED
  BY <1>3, <1>4, <1>5, <1>6, <1>7 DEF Kinds

\* Such a step keeps the order.
LEMMA TendsKeeps ==
    ASSUME Inv, LockInv, Regular, Order, NEW h \in Hooks, pc[h] # "idle",
           Kinds(h), Tends(h)
    PROVE  Order'
<1> DEFINE p == loc[h].prompt
<1>1. /\ \A g \in Hooks \ {h} : pc'[g] = pc[g] /\ loc'[g] = loc[g]
      /\ p \in Prompts /\ \A g \in Hooks : loc[g].prompt \in Prompts
  BY Parts, Typed DEF Kinds, Alone
<1>2. /\ \A q \in Prompts \ {p} : lock'[q] = lock[q] /\ dir'[q] = dir[q]
      /\ lock'[p] = IF pc'[h] \in Holding THEN h ELSE Free
      /\ Settled(loc'[h])
  BY TendsLock DEF Tends
<1>3. \A g \in Hooks \ {h} : pc[g] # "idle" => loc[g].prompt # p
  BY DEF Order, Sole, Live
<1>4. Sole'
  BY <1>1, <1>3 DEF Order, Sole, Live, Tends
<1>5. ASSUME NEW g \in Hooks PROVE Ordered(g)'
  <2>1. CASE g = h
    BY <1>2, <2>1 DEF Ordered, Tends
  <2>2. CASE g # h
    BY <1>1, <1>2, <1>3, <2>2 DEF Order, Ordered
  <2>3. QED
    BY <2>1, <2>2
<1>6. ASSUME NEW q \in Prompts PROVE Resting(q)'
  <2>1. CASE q # p
    BY <1>1, <1>2, <2>1 DEF Order, Resting, Unattended, Live
  <2>2. CASE q = p
    BY <1>2, <2>2, HoldingLabels DEF Resting, Unattended, Live, Tends
  <2>3. QED
    BY <2>1, <2>2
<1>7. QED
  BY <1>4, <1>5, <1>6 DEF Order

LEMMA SnapValues ==
    ASSUME NEW d \in Directory
    PROVE  /\ \A m, a : [d EXCEPT !.marker = m, !.age = a].snap = d.snap
           /\ \A s, a : [d EXCEPT !.snap = s, !.age = a].snap = s
           /\ \A s, a : [d EXCEPT !.state = s, !.age = a].snap = d.snap
BY DEF Directory

LEMMA RestValues ==
    ASSUME NEW l \in Locals
    PROVE  /\ \A r : LET m == [l EXCEPT !.rest = r] IN m.rest = r /\ m.prompt = l.prompt
           /\ \A m : [l EXCEPT !.mem = m].prompt = l.prompt
           /\ \A t : [l EXCEPT !.tree = t].prompt = l.prompt
           /\ \A b : [l EXCEPT !.active = FALSE, !.mem = NoState, !.tree = None,
                               !.out = b].prompt = l.prompt
BY DEF Locals

LEMMA EntriesValues ==
    ASSUME NEW d
    PROVE  /\ Entries(d) = {} <=> Bare(d)
           /\ Entries(d) \subseteq {"marker", "snap", "state"}
BY DEF Entries, Bare

\* Unlinking an entry takes it off the list.
LEMMA WithoutEntries ==
    ASSUME NEW d \in Directory, NEW e \in {"marker", "snap", "state"}
    PROVE  /\ Entries(Without(d, e)) = Entries(d) \ {e}
           /\ Without(d, e).there <=> d.there
<1> DEFINE w == Without(d, e)
<1>1. /\ w.marker = IF e = "marker" THEN "none" ELSE d.marker
      /\ w.snap = IF e = "snap" THEN "none" ELSE d.snap
      /\ w.state = IF e = "state" THEN NoState ELSE d.state
      /\ w.there <=> d.there
  BY DirectoryValues, SnapValues DEF Without
<1> HIDE DEF w
<1>2. \A x : x \in Entries(w) <=> x \in Entries(d) \ {e}
  BY <1>1 DEF Entries
<1>3. Entries(w) = Entries(d) \ {e}
  BY <1>2
<1>4. QED
  BY <1>1, <1>3 DEF w

\* The steps that change no directory, by the label they lead to.
LEMMA GoesTends ==
    ASSUME Inv, NEW h \in Hooks, UNCHANGED dir, NEW label, label # "idle",
           Goto(h, label),
           \/ UNCHANGED loc
           \/ \E l : SetLoc(h, l) /\ l.prompt = loc[h].prompt /\ l.rest = loc[h].rest,
           Fits(h, label, loc[h].rest, dir[loc[h].prompt])
    PROVE  Tends(h)
BY Parts, GotoPlace, SetLocPlace DEF Tends

LEMMA OpenTends ==
    ASSUME Inv, Present, Regular, Order, NEW h \in Hooks, Open(h)
    PROVE  Tends(h)
<1> DEFINE p == loc[h].prompt
          d == dir[p]
<1>1. /\ Processes /\ Stored /\ p \in Prompts /\ d \in Directory
      /\ pc[h] # "idle" => Fits(h, pc[h], loc[h].rest, d)
  BY Parts, Typed DEF Order, Ordered
<1>2. CASE ReadBase(h) \/ Examine(h) \/ EndSweep(h) \/ Seize(h)
  BY <1>1, <1>2 DEF ReadBase, Examine, EndSweep, Seize, At, Fits
<1>3. CASE MakeDir(h)
  <2>1. Clear(d) /\ Goto(h, "marker") /\ UNCHANGED loc
    BY <1>1, <1>3 DEF MakeDir, At, Fits
  <2>2. CASE d.there /\ UNCHANGED dir
    BY <1>1, <2>1, <2>2, GoesTends DEF Fits, Clear
  <2>3. CASE SetDir(p, [Absent EXCEPT !.there = TRUE])
    <3>1. dir'[p].there /\ Bare(dir'[p]) /\ \A q \in Prompts \ {p} : dir'[q] = dir[q]
      BY <1>1, <2>3, SetDirPlace DEF Absent, Bare
    <3>2. QED
      BY <1>1, <2>1, <3>1, GotoPlace DEF Tends, Fits
  <2>4. QED
    BY <1>3, <2>2, <2>3 DEF MakeDir
<1>4. CASE ReadMarker(h)
  <2>1. (d.there /\ Bare(d)) \/ Pending(d)
    BY <1>1, <1>4 DEF ReadMarker, At, Fits
  <2>2. Valid(d) \/ Missing(d)
    BY <2>1 DEF Bare, Pending, Missing
  <2>3. \/ Valid(d) /\ Goto(h, "validate") /\ UNCHANGED loc
        \/ Missing(d) /\ Goto(h, "inspect") /\ UNCHANGED loc
    BY <1>4, <2>2 DEF ReadMarker
  <2>4. UNCHANGED dir
    BY <1>4 DEF ReadMarker
  <2>5. Valid(d) => Pending(d)
    BY <2>1 DEF Bare, Valid
  <2>6. Missing(d) => d.there /\ Bare(d)
    BY <2>1 DEF Pending, Valid, Missing
  <2>7. QED
    BY <2>3, <2>4, <2>5, <2>6, GoesTends DEF Fits
<1>5. CASE Inspect(h)
  <2>1. d.there /\ Bare(d)
    BY <1>1, <1>5 DEF Inspect, At, Fits
  <2>2. Goto(h, "create") /\ UNCHANGED <<dir, loc>>
    BY <1>5, <2>1, EntriesValues DEF Inspect
  <2>3. QED
    BY <2>1, <2>2, GoesTends DEF Fits
<1>6. CASE Create(h)
  <2>1. d.there /\ Bare(d)
    BY <1>1, <1>6 DEF Create, At, Fits
  <2> DEFINE c == [d EXCEPT !.marker = h, !.age = 0]
  <2>2. SetDir(p, c) /\ Goto(h, "encode") /\ UNCHANGED loc
    BY <1>6, <2>1 DEF Create, Bare
  <2>3. c.there /\ c.marker = h /\ c.snap = "none" /\ c.state = NoState
    BY <1>1, <2>1, DirectoryValues, SnapValues DEF Bare
  <2> HIDE DEF c
  <2>4. dir'[p] = c /\ \A q \in Prompts \ {p} : dir'[q] = dir[q]
    BY <1>1, <2>2, SetDirPlace
  <2>5. QED
    BY <1>1, <2>2, <2>3, <2>4, GotoPlace DEF Tends, Fits
<1>7. CASE Encode(h)
  <2>1. d.there /\ d.marker = h /\ d.snap = "none" /\ d.state = NoState
    BY <1>1, <1>7 DEF Encode, At, Fits
  <2> DEFINE c == [d EXCEPT !.marker = "ok", !.age = 0]
  <2>2. SetDir(p, c) /\ Goto(h, "validate") /\ UNCHANGED loc
    BY <1>7, <2>1 DEF Encode, Regular
  <2>3. c.there /\ c.marker = "ok" /\ c.snap = "none" /\ c.state = NoState
    BY <1>1, <2>1, DirectoryValues, SnapValues
  <2> HIDE DEF c
  <2>4. dir'[p] = c /\ \A q \in Prompts \ {p} : dir'[q] = dir[q]
    BY <1>1, <2>2, SetDirPlace
  <2>5. Pending(dir'[p])
    BY <2>3, <2>4 DEF Pending, Valid
  <2>6. QED
    BY <1>1, <2>2, <2>4, <2>5, GotoPlace DEF Tends, Fits
<1>8. CASE Validate(h)
  <2>1. Pending(d)
    BY <1>1, <1>8 DEF Validate, At, Fits
  <2>2. Goto(h, "snapdir") /\ UNCHANGED <<dir, loc>>
    BY <1>8, <2>1 DEF Validate, Pending
  <2>3. QED
    BY <2>1, <2>2, GoesTends DEF Fits
<1>9. CASE SnapDir(h)
  <2>1. Pending(d)
    BY <1>1, <1>9 DEF SnapDir, At, Fits
  <2>2. Goto(h, "lock") /\ UNCHANGED loc
    BY <1>9, <2>1 DEF SnapDir, Pending, Valid
  <2> DEFINE c == [d EXCEPT !.snap = "empty", !.age = 0]
  <2>3. CASE SetDir(p, c)
    <3>1. (c.there <=> d.there) /\ c.marker = d.marker /\ c.snap = "empty"
      BY <1>1, DirectoryValues, SnapValues
    <3> HIDE DEF c
    <3>2. Pending(c)
      BY <2>1, <3>1 DEF Pending, Valid
    <3>3. dir'[p] = c /\ \A q \in Prompts \ {p} : dir'[q] = dir[q]
      BY <1>1, <2>3, SetDirPlace
    <3>4. QED
      BY <1>1, <2>2, <3>2, <3>3, GotoPlace DEF Tends, Fits
  <2>4. CASE UNCHANGED dir
    BY <2>1, <2>2, <2>4, GoesTends DEF Fits
  <2>5. QED
    BY <1>9, <2>1, <2>3, <2>4 DEF SnapDir, Pending, Valid
<1>10. QED
  BY <1>2, <1>3, <1>4, <1>5, <1>6, <1>7, <1>8, <1>9 DEF Open

\* A hook that leaves keeps its prompt, and looks at its directory no more
\* closely than the unlock or the cleanup does.
LEMMA LeaveTends ==
    ASSUME Inv, NEW h \in Hooks, NEW label \in {"unlock", "close"}, NEW out,
           Leave(h, label, out)
    PROVE  pc'[h] = label /\ loc'[h].prompt = loc[h].prompt
<1> DEFINE l == [loc[h] EXCEPT !.active = FALSE, !.mem = NoState, !.tree = None,
                              !.out = out]
<1>1. Processes /\ loc[h] \in Locals
  BY Parts, Typed
<1>2. Goto(h, label) /\ SetLoc(h, l)
  BY DEF Leave
<1>3. l.prompt = loc[h].prompt
  BY <1>1, RestValues
<1> HIDE DEF l
<1>4. QED
  BY <1>1, <1>2, <1>3, GotoPlace, SetLocPlace

LEMMA DropTends ==
    ASSUME Inv, NEW h \in Hooks, Drop(h), Valid(dir'[loc[h].prompt]),
           \A q \in Prompts \ {loc[h].prompt} : dir'[q] = dir[q]
    PROVE  Tends(h)
<1>1. pc'[h] = "close" /\ loc'[h].prompt = loc[h].prompt
  BY LeaveTends DEF Drop
<1>2. QED
  BY <1>1 DEF Tends, Fits

LEMMA KeepTends ==
    ASSUME Inv, NEW h \in Hooks, Keep(h) \/ Leave(h, "unlock", TRUE),
           Clear(dir'[loc[h].prompt]),
           \A q \in Prompts \ {loc[h].prompt} : dir'[q] = dir[q]
    PROVE  Tends(h)
<1>1. pc'[h] = "unlock" /\ loc'[h].prompt = loc[h].prompt
  BY LeaveTends DEF Keep
<1>2. QED
  BY <1>1 DEF Tends, Fits

\* A step within the run.
LEMMA WorkTends ==
    ASSUME Inv, NEW h \in Hooks, Valid(dir'[loc[h].prompt]),
           \A q \in Prompts \ {loc[h].prompt} : dir'[q] = dir[q],
           NEW label \in {"snapshot", "save", "decide", "send", "reply"}, Goto(h, label),
           \/ UNCHANGED loc
           \/ \E b, m : SetLoc(h, [loc[h] EXCEPT !.active = b, !.mem = m])
           \/ \E t : SetLoc(h, [loc[h] EXCEPT !.tree = t])
           \/ \E m : SetLoc(h, [loc[h] EXCEPT !.mem = m])
    PROVE  Tends(h)
<1>1. Processes /\ loc[h] \in Locals /\ pc'[h] = label
  BY Parts, Typed, GotoPlace
<1>2. loc'[h].prompt = loc[h].prompt
  <2>1. CASE UNCHANGED loc
    BY <2>1
  <2>2. ASSUME NEW b, NEW m, SetLoc(h, [loc[h] EXCEPT !.active = b, !.mem = m])
        PROVE  loc'[h].prompt = loc[h].prompt
    <3> DEFINE l == [loc[h] EXCEPT !.active = b, !.mem = m]
    <3>1. SetLoc(h, l) /\ l.prompt = loc[h].prompt
      BY <1>1, <2>2 DEF Locals
    <3> HIDE DEF l
    <3>2. QED
      BY <1>1, <3>1, SetLocPlace
  <2>3. ASSUME NEW t, SetLoc(h, [loc[h] EXCEPT !.tree = t])
        PROVE  loc'[h].prompt = loc[h].prompt
    <3> DEFINE l == [loc[h] EXCEPT !.tree = t]
    <3>1. SetLoc(h, l) /\ l.prompt = loc[h].prompt
      BY <1>1, <2>3, RestValues
    <3> HIDE DEF l
    <3>2. QED
      BY <1>1, <3>1, SetLocPlace
  <2>4. ASSUME NEW m, SetLoc(h, [loc[h] EXCEPT !.mem = m])
        PROVE  loc'[h].prompt = loc[h].prompt
    <3> DEFINE l == [loc[h] EXCEPT !.mem = m]
    <3>1. SetLoc(h, l) /\ l.prompt = loc[h].prompt
      BY <1>1, <2>4, RestValues
    <3> HIDE DEF l
    <3>2. QED
      BY <1>1, <3>1, SetLocPlace
  <2>5. QED
    BY <2>1, <2>2, <2>3, <2>4
<1>3. QED
  BY <1>1, <1>2 DEF Tends, Fits

LEMMA RunTends ==
    ASSUME Inv, Present, Regular, Order, NEW h \in Hooks, Run(h)
    PROVE  Tends(h)
<1> DEFINE p == loc[h].prompt
          d == dir[p]
<1>1. /\ Processes /\ Stored /\ p \in Prompts /\ d \in Directory
      /\ Sound(pc[h], loc[h]) /\ loc[h].mem \in Saved \cup {NoState}
      /\ pc[h] # "idle" => Fits(h, pc[h], loc[h].rest, d)
  BY Parts, Typed DEF Order, Ordered
<1>2. CASE LoadSubmit(h)
  <2>1. Pending(d) /\ UNCHANGED dir
    BY <1>1, <1>2 DEF LoadSubmit, At, Fits
  <2>2. QED
    BY <1>2, <2>1, KeepTends, DropTends, WorkTends DEF LoadSubmit, Pending, Clear
<1>3. CASE LoadStop(h)
  <2>1. Pending(d) /\ UNCHANGED dir
    BY <1>1, <1>3 DEF LoadStop, At, Fits
  <2>2. \/ Keep(h) \/ Drop(h)
        \/ /\ Goto(h, "snapshot")
           /\ \E b, m : SetLoc(h, [loc[h] EXCEPT !.active = b, !.mem = m])
    BY <1>3 DEF LoadStop
  <2>3. QED
    BY <2>1, <2>2, KeepTends, DropTends, WorkTends DEF Pending, Clear
<1>4. CASE Snapshot(h)
  <2>1. Valid(d)
    BY <1>1, <1>4 DEF Snapshot, At, Fits
  <2>2. Valid(dir'[p]) /\ \A q \in Prompts \ {p} : dir'[q] = dir[q]
    <3>1. PICK a : \/ SetDir(p, [d EXCEPT !.there = TRUE, !.snap = "private", !.age = a])
                   \/ UNCHANGED dir
      BY <1>4 DEF Snapshot
    <3> DEFINE c == [d EXCEPT !.there = TRUE, !.snap = "private", !.age = a]
    <3>2. c.there /\ c.marker = d.marker
      BY <1>1, DirectoryValues
    <3> HIDE DEF c
    <3>3. CASE SetDir(p, c)
      BY <1>1, <2>1, <3>2, <3>3, SetDirPlace DEF Valid
    <3>4. CASE UNCHANGED dir
      BY <2>1, <3>4
    <3>5. QED
      BY <3>1, <3>3, <3>4 DEF c
  <2>3. \/ Drop(h)
        \/ /\ \E label \in {"decide", "save"} : Goto(h, label)
           /\ \E t : SetLoc(h, [loc[h] EXCEPT !.tree = t])
    BY <1>4 DEF Snapshot
  <2>4. QED
    BY <2>2, <2>3, DropTends, WorkTends
<1>5. ASSUME pc[h] \in {"save", "decide", "reply"}, NEW st \in Saved, Store(h, st)
      PROVE  /\ Clear(dir'[p]) /\ Valid(dir'[p])
             /\ \A q \in Prompts \ {p} : dir'[q] = dir[q]
  <2>1. Valid(dir'[p]) /\ dir'[p].state = st /\ \A q \in Prompts \ {p} : dir'[q] = dir[q]
    BY <1>5, StoreWrites
  <2>2. st # NoState
    BY TypeAssumption
  <2>3. QED
    BY <2>1, <2>2 DEF Clear, Pending
<1>6. CASE SaveBaseline(h)
  <2>1. pc[h] = "save" /\ Valid(d) /\ InitialState(loc[h].tree) \in Saved
    BY <1>1, <1>6, InitialType DEF SaveBaseline, At, Fits, Sound
  <2>2. Store(h, InitialState(loc[h].tree)) /\ Keep(h)
    BY <1>6, <2>1 DEF SaveBaseline, StoreFails, Regular
  <2>3. QED
    BY <1>5, <2>1, <2>2, KeepTends
<1>7. CASE Decide(h)
  <2>1. pc[h] = "decide" /\ Valid(d)
    BY <1>1, <1>7 DEF Decide, At, Fits
  <2>2. loc[h].mem \in Saved /\ loc[h].tree \in Trees
    BY <1>1, <2>1 DEF Sound
  <2> DEFINE st == RecordEvaluation(loc[h].mem, loc[h].tree, FALSE)
  <2>3. \/ Drop(h) /\ UNCHANGED dir
        \/ /\ Store(h, st) /\ Goto(h, "send")
           /\ SetLoc(h, [loc[h] EXCEPT !.mem = st])
    BY <1>7, <2>1 DEF Decide, StoreFails, Regular
  <2>4. st \in Saved
    BY <2>2, RecordType
  <2> HIDE DEF st
  <2>5. QED
    BY <1>5, <2>1, <2>3, <2>4, DropTends, WorkTends
<1>8. CASE Send(h)
  <2>1. Valid(d) /\ UNCHANGED dir
    BY <1>1, <1>8 DEF Send, At, Fits
  <2>2. Drop(h) \/ (Goto(h, "reply") /\ UNCHANGED loc)
    BY <1>8 DEF Send
  <2>3. QED
    BY <2>1, <2>2, DropTends, WorkTends
<1>9. CASE Reply(h)
  <2>1. pc[h] = "reply" /\ Valid(d)
    BY <1>1, <1>9 DEF Reply, At, Fits
  <2>2. loc[h].mem \in Saved /\ loc[h].tree \in Trees
    BY <1>1, <2>1 DEF Sound
  <2> DEFINE st == RecordEvaluation(loc[h].mem, loc[h].tree, TRUE)
  <2>3. \/ Drop(h) /\ UNCHANGED dir
        \/ /\ loc[h].mem.count = 0 /\ Store(h, st)
           /\ Leave(h, "unlock", TRUE)
    BY <1>9, <2>1 DEF Reply, StoreFails, Regular
  <2>4. loc[h].mem.count = 0 => st \in Saved
    BY <2>2, RecordType
  <2> HIDE DEF st
  <2>5. QED
    BY <1>5, <2>1, <2>3, <2>4, DropTends, KeepTends
<1>10. CASE Emit(h)
  <2>1. pc[h] = "emit" /\ Clear(d) /\ UNCHANGED dir /\ Exit(h)
    BY <1>1, <1>10 DEF Emit, At, Fits
  <2>2. QED
    BY <1>1, <2>1, ExitPlace, HoldingLabels DEF Tends
<1>11. QED
  BY <1>2, <1>3, <1>4, <1>6, <1>7, <1>8, <1>9, <1>10 DEF Run

LEMMA CleanupTends ==
    ASSUME Inv, Present, Regular, Order, NEW h \in Hooks,
           TryLock(h) \/ Cleanup(h) \/ Unlock(h)
    PROVE  Tends(h)
<1> DEFINE p == loc[h].prompt
          d == dir[p]
<1>1. /\ Processes /\ Stored /\ p \in Prompts /\ d \in Directory
      /\ loc[h] \in Locals /\ loc[h].rest \subseteq {"marker", "snap", "state"}
      /\ loc[h].target = p /\ ~loc[h].sweeping
      /\ pc[h] # "idle" => Fits(h, pc[h], loc[h].rest, d)
      /\ pc[h] # "idle" => lock[p] = IF pc[h] \in Holding THEN h ELSE Free
  BY Parts, Typed DEF Order, Ordered, Settled
<1>2. CASE TryLock(h)
  <2>1. Pending(d) /\ lock[p] = Free
    BY <1>1, <1>2, HoldingLabels DEF TryLock, At, Fits
  <2>2. Goto(h, "load") /\ UNCHANGED <<dir, loc>>
    BY <1>2, <2>1 DEF TryLock, Strand, Regular
  <2>3. QED
    BY <2>1, <2>2, GoesTends DEF Fits
<1>3. CASE Close(h)
  <2>1. Valid(d)
    BY <1>1, <1>3 DEF Close, At, Fits
  <2> DEFINE l == [loc[h] EXCEPT !.rest = Entries(d)]
  <2>2. SetLoc(h, l) /\ Goto(h, "rm") /\ UNCHANGED dir
    BY <1>1, <1>3, <2>1 DEF Close
  <2>3. l.rest = Entries(d) /\ l.prompt = p
    BY <1>1, RestValues
  <2> HIDE DEF l
  <2>4. pc'[h] = "rm" /\ loc'[h] = l
    BY <1>1, <2>2, GotoPlace, SetLocPlace
  <2>5. QED
    BY <2>1, <2>2, <2>3, <2>4 DEF Tends, Fits, Valid
<1>4. CASE Remove(h)
  <2>1. d.there /\ Entries(d) \subseteq loc[h].rest
    BY <1>1, <1>4 DEF Remove, At, Fits
  <2>2. PICK e \in loc[h].rest :
          /\ IF e \in Entries(d) THEN SetDir(p, Without(d, e)) ELSE UNCHANGED dir
          /\ SetLoc(h, [loc[h] EXCEPT !.rest = loc[h].rest \ {e}])
    BY <1>1, <1>4 DEF Remove, Regular
  <2>3. pc'[h] = "rm"
    BY <1>4 DEF Remove, At
  <2>4. loc'[h].rest = loc[h].rest \ {e} /\ loc'[h].prompt = p
    <3> DEFINE l == [loc[h] EXCEPT !.rest = loc[h].rest \ {e}]
    <3>1. SetLoc(h, l) /\ l.rest = loc[h].rest \ {e} /\ l.prompt = p
      BY <1>1, <2>2, RestValues
    <3> HIDE DEF l
    <3>2. QED
      BY <1>1, <3>1, SetLocPlace
  <2>5. /\ dir'[p].there /\ Entries(dir'[p]) \subseteq loc[h].rest \ {e}
        /\ \A q \in Prompts \ {p} : dir'[q] = dir[q]
    <3>1. CASE e \in Entries(d)
      BY <1>1, <2>1, <2>2, <3>1, SetDirPlace, WithoutEntries
    <3>2. CASE e \notin Entries(d)
      BY <2>1, <2>2, <3>2
    <3>3. QED
      BY <3>1, <3>2
  <2>6. QED
    BY <2>3, <2>4, <2>5 DEF Tends, Fits
<1>5. CASE RemoveDir(h)
  <2>1. Entries(d) = {}
    BY <1>1, <1>5 DEF RemoveDir, At, Fits
  <2>2. SetDir(p, Absent) /\ Goto(h, "unlock") /\ UNCHANGED loc
    BY <1>1, <1>5, <2>1 DEF RemoveDir
  <2>3. Bare(dir'[p]) /\ \A q \in Prompts \ {p} : dir'[q] = dir[q]
    BY <1>1, <2>2, SetDirPlace DEF Absent, Bare
  <2>4. QED
    BY <1>1, <2>2, <2>3, GotoPlace DEF Tends, Fits, Clear
<1>6. CASE Unlock(h)
  <2>1. Clear(d)
    BY <1>1, <1>6 DEF Unlock, At, Fits
  <2>2. Goto(h, "emit") /\ UNCHANGED <<dir, loc>>
    BY <1>1, <1>6 DEF Unlock
  <2>3. QED
    BY <2>1, <2>2, GoesTends DEF Fits
<1>7. QED
  BY <1>2, <1>3, <1>4, <1>5, <1>6 DEF Cleanup

LEMMA StepTends ==
    ASSUME Inv, Present, Regular, Order, NEW h \in Hooks, Step(h)
    PROVE  Tends(h) /\ pc[h] # "idle"
<1>1. Tends(h)
  BY OpenTends, RunTends, CleanupTends DEF Step, StorageStep
<1>2. pc[h] # "idle"
  BY DEF Step, StorageStep, Open, Cleanup, Run, ReadBase, Examine, EndSweep, Seize,
         MakeDir, ReadMarker, Inspect, Create, Encode, Validate, SnapDir, TryLock,
         Close, Remove, RemoveDir, Unlock, LoadSubmit, LoadStop, Snapshot,
         SaveBaseline, Decide, Send, Reply, Emit, At
<1>3. QED
  BY <1>1, <1>2

\* A hook begins where no other is, hence with the directory as the last one
\* has left it.
LEMMA BeginOrder ==
    ASSUME Inv, Regular, Order, NEW h \in Hooks, Begin(h)
    PROVE  Order'
<1>1. PICK p \in Prompts, event \in Events :
        (\A g \in Live : loc[g].prompt # p) /\ SetLoc(h, Fresh(event, p))
  BY DEF Begin, Regular
<1>2. Processes /\ UNCHANGED <<dir, lock>> /\ Goto(h, "mkdir") /\ pc[h] = "idle"
  BY Parts DEF Begin, Regular, At
<1>3. /\ pc'[h] = "mkdir" /\ loc'[h] = Fresh(event, p)
      /\ \A g \in Hooks \ {h} : pc'[g] = pc[g] /\ loc'[g] = loc[g]
  BY <1>1, <1>2, GotoPlace, SetLocPlace
<1>4. loc'[h].prompt = p /\ Settled(loc'[h])
  BY <1>3 DEF Fresh, Settled
<1>5. lock[p] = Free /\ Clear(dir[p])
  BY <1>1 DEF Order, Resting, Unattended
<1>6. Sole'
  BY <1>1, <1>2, <1>3, <1>4 DEF Order, Sole, Live
<1>7. ASSUME NEW g \in Hooks PROVE Ordered(g)'
  <2>1. CASE g = h
    BY <1>2, <1>3, <1>4, <1>5, <2>1, HoldingLabels DEF Ordered, Fits
  <2>2. CASE g # h
    BY <1>2, <1>3, <2>2 DEF Order, Ordered
  <2>3. QED
    BY <2>1, <2>2
<1>8. ASSUME NEW q \in Prompts PROVE Resting(q)'
  BY <1>2, <1>3 DEF Order, Resting, Unattended, Live
<1>9. QED
  BY <1>6, <1>7, <1>8 DEF Order

LEMMA NextOrder ==
    Regular => (Inv /\ LockInv /\ Present /\ Order /\ [Next]_vars => Order')
<1> SUFFICES ASSUME Regular, Inv, LockInv, Present, Order, [Next]_vars PROVE Order'
  OBVIOUS
<1>1. ASSUME NEW h \in Hooks, Begin(h) PROVE Order'
  BY <1>1, BeginOrder
<1>2. ASSUME NEW h \in Hooks, Step(h) PROVE Order'
  BY <1>2, StepTends, StepEffect, TendsKeeps
<1>3. CASE (\E h \in Hooks : Crash(h)) \/ Tick
  BY <1>3 DEF Crash, Tick, Regular
<1>4. CASE UNCHANGED vars
  BY <1>4 DEF vars, Order, Sole, Ordered, Resting, Unattended, Live
<1>5. QED
  BY <1>1, <1>2, <1>3, <1>4 DEF Next

LEMMA AlwaysOrder == Regular => (Spec => [](Inv /\ LockInv /\ Present /\ Order))
<1> SUFFICES ASSUME Regular PROVE Spec => [](Inv /\ LockInv /\ Present /\ Order)
  OBVIOUS
<1>1. Inv /\ LockInv /\ Present /\ Order /\ [Next]_vars => Order'
  BY NextOrder
<1>2. QED
  BY <1>1, InitInv, NextInv, InitLockInv, NextLockInv, InitPresent, NextPresent,
     InitOrder, PTL DEF Spec

\* Regular turns leave private content only together with the record that a later
\* Stop will use, and no lock.
THEOREM NothingLeft ==
    ~Fallback /\ ~Overlap /\ ~Crashes /\ ~Faulty => (Spec => []OnlyPendingContent)
<1> SUFFICES ASSUME Regular PROVE Spec => []OnlyPendingContent
  BY DEF Regular
<1>1. Order => OnlyPendingContent
  BY DEF Order, Resting, Clear, Bare, Pending, OnlyPendingContent
<1>2. QED
  BY <1>1, AlwaysOrder, PTL

\* Whatever regular turns have left, Open adopts it.
THEOREM NextOpens ==
    ~Fallback /\ ~Overlap /\ ~Crashes /\ ~Faulty => (Spec => OpenSucceeds)
<1> SUFFICES ASSUME Regular PROVE Spec => OpenSucceeds
  BY DEF Regular
<1>1. Inv /\ LockInv /\ Present /\ Order /\ [Next]_vars => [OpenSucceedsStep]_vars
  <2> SUFFICES ASSUME Inv, LockInv, Present, Order, Next, NEW g \in Hooks,
                      pc[g] \in {"marker", "inspect", "create", "encode", "validate",
                                 "snapdir"}
               PROVE  pc'[g] # "idle"
    BY DEF OpenSucceedsStep
  <2>1. ASSUME NEW h \in Hooks, Begin(h) PROVE pc'[g] # "idle"
    BY <2>1, Parts, GotoPlace DEF Begin, At
  <2>2. ASSUME NEW h \in Hooks, Step(h) PROVE pc'[g] # "idle"
    <3>1. Tends(h) /\ Kinds(h)
      BY <2>2, StepTends, StepEffect
    <3>2. CASE g # h
      BY <3>1, <3>2 DEF Kinds, Alone
    <3>3. CASE g = h
      BY <3>1, <3>3 DEF Tends
    <3>4. QED
      BY <3>2, <3>3
  <2>3. CASE (\E h \in Hooks : Crash(h)) \/ Tick
    BY <2>3 DEF Crash, Tick, Regular
  <2>4. QED
    BY <2>1, <2>2, <2>3 DEF Next
<1>2. QED
  BY <1>1, AlwaysOrder, PTL DEF OpenSucceeds, Spec
================================================================================
