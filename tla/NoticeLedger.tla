------------------------------ MODULE NoticeLedger -----------------------------
(***************************************************************************)
(* Store.Notice (session.go) and Runner.failure (runner.go): hooks of one  *)
(* session report classes of failure; a class is shown to the user when    *)
(* the session's ledger does not list it yet.  The ledger is read, checked *)
(* and replaced under a lock that is never waited for; the message itself  *)
(* is written by main, when the lock is gone.                              *)
(***************************************************************************)
EXTENDS Naturals, FiniteSets

CONSTANTS Hooks,       \* hook processes of the session
          Classes,     \* failure classes
          MaxClasses,  \* classes a ledger may list (32 in the code)
          Free, Dead,  \* no lock directory / a lock nobody will release
          Crashes,     \* TRUE: a process may be killed
          Faulty       \* TRUE: storage operations may fail

ASSUME NoticeAssumption ==
    /\ MaxClasses \in Nat
    /\ Free # Dead /\ Free \notin Hooks /\ Dead \notin Hooks
    /\ Crashes \in BOOLEAN /\ Faulty \in BOOLEAN

VARIABLES ledger,  \* the classes in the ledger file
          lock,    \* who made the notice lock
          pc,      \* where each hook is
          class,   \* the class each hook reports
          view,    \* the classes each hook has read
          emit,    \* whether the hook will write its message
          shown    \* history: messages written for each class

vars == <<ledger, lock, pc, class, view, emit, shown>>

Init ==
    /\ ledger = {}
    /\ lock = Free
    /\ pc = [h \in Hooks |-> "idle"]
    /\ class \in [Hooks -> Classes]
    /\ view = [h \in Hooks |-> {}]
    /\ emit = [h \in Hooks |-> FALSE]
    /\ shown = [c \in Classes |-> 0]

Goto(h, label) == pc' = [pc EXCEPT ![h] = label]

\* The run fails for a reason of its own.
Fail(h) ==
    /\ pc[h] = "idle"
    /\ \E c \in Classes : class' = [class EXCEPT ![h] = c]
    /\ view' = [view EXCEPT ![h] = {}]
    /\ emit' = [emit EXCEPT ![h] = FALSE]
    /\ Goto(h, "lock")
    /\ UNCHANGED <<ledger, lock, shown>>

\* Variant: the lock is ignored.
MayTakeAlways(h) == TRUE

MayTake(h) == lock = Free

\* A lock that is taken, or an error that strands it, ends the report quietly.
Lock(h) ==
    /\ pc[h] = "lock"
    /\ \/ MayTake(h) /\ lock' = h /\ Goto(h, "read")
       \/ lock # Free /\ Goto(h, "exit") /\ UNCHANGED lock
       \/ Faulty /\ lock = Free /\ lock' = Dead /\ Goto(h, "exit")
    /\ UNCHANGED <<ledger, class, view, emit, shown>>

\* Variant: the limit is compared one too late.
HasRoomFor(c, known) == c \notin known /\ Cardinality(known) <= MaxClasses

\* Variant: the list is not searched for the class.
HasRoomForAny(c, known) == Cardinality(known) < MaxClasses

\* A class is new, and there is room for it.
MayAdd(c, known) == c \notin known /\ Cardinality(known) < MaxClasses

\* The ledger is read into memory; an invalid one is an error.
Read(h) ==
    /\ pc[h] = "read"
    /\ view' = [view EXCEPT ![h] = ledger]
    /\ \/ MayAdd(class[h], ledger) /\ Goto(h, "write")
       \/ (~MayAdd(class[h], ledger) \/ Faulty) /\ Goto(h, "unlock")
    /\ UNCHANGED <<ledger, lock, class, emit, shown>>

\* Variant: the new class replaces the ones that were read.
AppendedAlone(c, known) == {c}

Appended(c, known) == known \cup {c}

\* atomicJSON renames the new list over the old one, or changes nothing.
Write(h) ==
    /\ pc[h] = "write"
    /\ \/ /\ ledger' = Appended(class[h], view[h])
          /\ emit' = [emit EXCEPT ![h] = TRUE]
       \/ Faulty /\ UNCHANGED <<ledger, emit>>
    /\ Goto(h, "unlock")
    /\ UNCHANGED <<lock, class, view, shown>>

\* A release that fails leaves the lock to nobody.
Unlock(h) ==
    /\ pc[h] = "unlock"
    /\ lock' = Free \/ (Faulty /\ lock' = Dead)
    /\ Goto(h, "exit")
    /\ UNCHANGED <<ledger, class, view, emit, shown>>

\* The message reaches the host when the process ends.
Exit(h) ==
    /\ pc[h] = "exit"
    /\ shown' = IF emit[h] THEN [shown EXCEPT ![class[h]] = @ + 1] ELSE shown
    /\ emit' = [emit EXCEPT ![h] = FALSE]
    /\ Goto(h, "idle")
    /\ UNCHANGED <<ledger, lock, class, view>>

Crash(h) ==
    /\ Crashes
    /\ pc[h] # "idle"
    /\ lock' = IF lock = h THEN Dead ELSE lock
    /\ emit' = [emit EXCEPT ![h] = FALSE]
    /\ Goto(h, "idle")
    /\ UNCHANGED <<ledger, class, view, shown>>

Step(h) == Lock(h) \/ Read(h) \/ Write(h) \/ Unlock(h) \/ Exit(h)

Next == \E h \in Hooks : Fail(h) \/ Step(h) \/ Crash(h)

Spec == Init /\ [][Next]_vars

----------------------------------------------------------------------------
Labels == {"idle", "lock", "read", "write", "unlock", "exit"}

TypeOK ==
    /\ ledger \subseteq Classes
    /\ lock \in Hooks \cup {Free, Dead}
    /\ pc \in [Hooks -> Labels]
    /\ class \in [Hooks -> Classes]
    /\ view \in [Hooks -> SUBSET Classes]
    /\ emit \in [Hooks -> BOOLEAN]
    /\ shown \in [Classes -> Nat]

\* docs/architecture.md: the session lock prevents duplicate notices.  Over all
\* the prompts of a session a class is shown at most once, and only when the
\* ledger remembers it.
ShownOnce == \A c \in Classes : shown[c] <= 1 /\ (shown[c] = 1 => c \in ledger)

\* No report makes the ledger forget a class, however reports interleave.
LedgerKept == [][ledger \subseteq ledger']_ledger

\* validClasses refuses a ledger of more classes than that, and with it every
\* later notice: no sequence of reports produces one.
LedgerBounded == Cardinality(ledger) <= MaxClasses

\* The invariant behind them: what a hook is about to write is still what the
\* ledger says, and each listed class has at most one message, written or due.
Critical(h) == pc[h] \in {"read", "write", "unlock"}

IInv ==
    /\ TypeOK
    /\ IsFiniteSet(ledger)
    /\ LedgerBounded
    /\ \A h \in Hooks :
         /\ Critical(h) => lock = h
         /\ pc[h] = "write" =>
              view[h] = ledger /\ MayAdd(class[h], ledger) /\ ~emit[h]
         /\ emit[h] => /\ pc[h] \in {"unlock", "exit"}
                       /\ class[h] \in ledger
                       /\ shown[class[h]] = 0
    /\ \A g, h \in Hooks : emit[g] /\ emit[h] /\ class[g] = class[h] => g = h
    /\ \A c \in Classes : shown[c] <= 1 /\ (shown[c] = 1 => c \in ledger)
================================================================================
