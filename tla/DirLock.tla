-------------------------------- MODULE DirLock --------------------------------
(***************************************************************************)
(* The directory lock of session.go: Mkdir of one name decides who owns    *)
(* it; the owner remembers the file identity (inode) it found there, and   *)
(* unlock compares that identity, renames the name aside and removes it.   *)
(* Identities are reused once their directory is gone, unlock may be       *)
(* called again at any time, and another program may rename the lock away. *)
(***************************************************************************)
EXTENDS Naturals, FiniteSets

CONSTANTS Attempts,  \* calls of acquireDirectoryLock on this name
          Inodes,    \* file identities of directories
          Nothing,   \* no directory at the name / no identity captured
          Displaced, \* TRUE: another program may rename the lock away
          Crashes,   \* TRUE: a process may be killed
          Faulty     \* TRUE: Open, Stat, rand, Rename and Remove may fail

ASSUME DirLockAssumption ==
    /\ Nothing \notin Inodes /\ Nothing \notin Attempts
    /\ Displaced \in BOOLEAN /\ Crashes \in BOOLEAN /\ Faulty \in BOOLEAN

VARIABLES at,      \* the directory at the lock's name
          aside,   \* directories under other names: .released-*, or displaced
          maker,   \* ghost: the attempt whose Mkdir made the directory at the name
          info,    \* the identity each attempt has captured
          pc       \* where each attempt is

vars == <<at, aside, maker, info, pc>>

Labels == {"mkdir", "open", "held", "rename", "remove", "refused", "failed",
           "done", "dead"}

Init ==
    /\ at = Nothing
    /\ aside = {}
    /\ maker = Nothing
    /\ info = [a \in Attempts |-> Nothing]
    /\ pc = [a \in Attempts |-> "mkdir"]

Goto(a, label) == pc' = [pc EXCEPT ![a] = label]

\* os.Mkdir: the name goes to one attempt, with an identity not in use.
Mkdir(a) ==
    /\ pc[a] = "mkdir"
    /\ at = Nothing
    /\ at' \in Inodes \ aside
    /\ maker' = a
    /\ Goto(a, "open")
    /\ UNCHANGED <<aside, info>>

\* errors.Is(err, os.ErrExist).
Refused(a) ==
    /\ pc[a] = "mkdir"
    /\ at # Nothing
    /\ Goto(a, "refused")
    /\ UNCHANGED <<at, aside, maker, info>>

\* Variant: the identity is never captured.
CaptureNothing(a) ==
    /\ pc[a] = "open"
    /\ \/ Goto(a, "held")
       \/ Faulty /\ Goto(a, "failed")
    /\ UNCHANGED <<at, aside, maker, info>>

\* Open, Stat and Close: whatever has the name by now is taken for the lock.
\* On an error nothing is removed and no unlock is returned.
Capture(a) ==
    /\ pc[a] = "open"
    /\ \/ /\ info' = [info EXCEPT ![a] = at]
          /\ Goto(a, "held")
       \/ Faulty /\ Goto(a, "failed") /\ UNCHANGED info
    /\ UNCHANGED <<at, aside, maker>>

\* Variant: sync.Once is gone, so that every call of unlock goes through.
MayUnlockAgain(a) == pc[a] \in {"held", "done"}

MayUnlock(a) == pc[a] = "held"

\* Variant: the identity of what has the name is not compared.
AnyDirectory(a) == at # Nothing

SameFile(a) == at # Nothing /\ at = info[a]

\* releaseDirectoryLock up to the rename: Lstat, SameFile, a fresh name.
Compare(a) ==
    /\ MayUnlock(a)
    /\ \/ SameFile(a) /\ Goto(a, "rename")
       \/ ~SameFile(a) /\ Goto(a, "done")
       \/ Faulty /\ Goto(a, "failed")
    /\ UNCHANGED <<at, aside, maker, info>>

Rename(a) ==
    /\ pc[a] = "rename"
    /\ \/ /\ at' = Nothing /\ maker' = Nothing
          /\ aside' = aside \cup {at}
          /\ Goto(a, "remove")
       \/ Faulty /\ Goto(a, "failed") /\ UNCHANGED <<at, aside, maker>>
    /\ UNCHANGED info

\* os.Remove of the retired name; its error is ignored.  The identity that is
\* freed here may be the next lock's.
Remove(a) ==
    /\ pc[a] = "remove"
    /\ aside' = aside \ {info[a]} \/ (Faulty /\ UNCHANGED aside)
    /\ Goto(a, "done")
    /\ UNCHANGED <<at, maker, info>>

Crash(a) ==
    /\ Crashes
    /\ pc[a] # "dead"
    /\ Goto(a, "dead")
    /\ UNCHANGED <<at, aside, maker, info>>

\* Another program renames the lock away, but not between Mkdir and Stat, nor
\* between the comparison and the rename: nothing in the code covers those.
Displace ==
    /\ Displaced
    /\ at # Nothing
    /\ \A a \in Attempts : pc[a] \notin {"open", "rename"}
    /\ at' = Nothing /\ maker' = Nothing
    /\ aside' = aside \cup {at}
    /\ UNCHANGED <<info, pc>>

Step(a) == Mkdir(a) \/ Refused(a) \/ Capture(a) \/ Compare(a) \/ Rename(a) \/ Remove(a)

Next ==
    \/ \E a \in Attempts : Step(a) \/ Crash(a)
    \/ Displace

Spec == Init /\ [][Next]_vars

----------------------------------------------------------------------------
TypeOK ==
    /\ at \in Inodes \cup {Nothing}
    /\ aside \subseteq Inodes
    /\ maker \in Attempts \cup {Nothing}
    /\ info \in [Attempts -> Inodes \cup {Nothing}]
    /\ pc \in [Attempts -> Labels]

\* From its Mkdir to its rename an attempt may believe it has the lock.
Holds(a) == pc[a] \in {"open", "held", "rename"}

\* The attempt's directory is no longer at the name: somebody renamed it away.
Evicted(a) == pc[a] = "held" /\ info[a] \in aside

\* session_test.go, TestConcurrentLockHasOneWinner: two attempts never hold the
\* lock at the same time, except that one of them does not know yet that
\* another program has renamed its directory away.
Exclusive ==
    \A a, b \in Attempts :
        Holds(a) /\ Holds(b) => a = b \/ (Displaced /\ (Evicted(a) \/ Evicted(b)))

\* docs/architecture.md: "Repeated unlock calls cannot release a successor's
\* lock", and TestLockReleasePreservesReplacement: an unlock never takes away a
\* directory that another attempt has made, displaced or not.
SparesSuccessorStep ==
    \A a \in Attempts :
        pc[a] = "rename" /\ pc'[a] = "remove" => maker = a

SparesSuccessor == [][SparesSuccessorStep]_vars

\* An unlock that nothing disturbs makes the name free again: the lock outlives
\* only attempts that died or failed while they held it.
FreeAtRest ==
    (\A a \in Attempts : pc[a] \in {"mkdir", "refused", "done"}) => at = Nothing

\* An attempt whose directory was renamed away owns nothing any more; one that
\* failed leaves its directory behind and is as good as dead.
Status(a) ==
    CASE pc[a] = "mkdir" -> "new"
      [] pc[a] \in {"open", "rename"} -> "owner"
      [] pc[a] = "held" -> IF maker = a THEN "owner" ELSE "finished"
      [] pc[a] = "refused" -> "refused"
      [] pc[a] \in {"remove", "done"} -> "finished"
      [] pc[a] \in {"failed", "dead"} -> "dead"

Abstract == INSTANCE PromptLock
    WITH Nobody <- Nothing,
         owner <- maker,
         status <- [a \in Attempts |-> Status(a)]

\* Mkdir and the identity comparison implement the lock that Store assumes, even
\* when another program takes it from its owner.
ImplementsPromptLock == Abstract!Spec

\* The invariant behind them: whoever may believe it holds the lock has made
\* the directory at the name and remembers it, unless it was displaced; what an
\* attempt remembers is its own, and stays out of circulation until removed.
IInv ==
    /\ TypeOK
    /\ maker = Nothing <=> at = Nothing
    /\ at \notin aside
    /\ \A a \in Attempts :
         /\ pc[a] \in {"open", "rename"} => maker = a
         /\ pc[a] = "rename" => info[a] = at
         /\ pc[a] = "held" =>
              \/ maker = a /\ info[a] = at
              \/ Displaced /\ maker # a /\ info[a] \in aside
         /\ pc[a] = "remove" => maker # a /\ info[a] \in aside
    /\ \A a, b \in {c \in Attempts : pc[c] \in {"held", "rename", "remove"}} :
         info[a] = info[b] => a = b
================================================================================
