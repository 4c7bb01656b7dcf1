----------------------------- MODULE DirLockProofs -----------------------------
(***************************************************************************)
(* The directory lock for any number of attempts, any identities, with or  *)
(* without crashes, failing calls and displacement.                        *)
(***************************************************************************)
EXTENDS DirLock, TLAPS

LEMMA InitIInv == Init => IInv
BY DirLockAssumption DEF Init, IInv, TypeOK, Labels

\* One step per action: the invariant survives whatever an attempt, or the
\* program that displaces the lock, does.
LEMMA NextIInv == IInv /\ [Next]_vars => IInv'
<1> SUFFICES ASSUME IInv, [Next]_vars PROVE IInv'
  OBVIOUS
<1> USE DirLockAssumption DEF IInv, TypeOK, Labels, Goto
<1>1. CASE UNCHANGED vars
  BY <1>1 DEF vars
<1>2. ASSUME NEW a \in Attempts, Mkdir(a) PROVE IInv'
  BY <1>2 DEF Mkdir
<1>3. ASSUME NEW a \in Attempts, Refused(a) PROVE IInv'
  BY <1>3 DEF Refused
<1>4. ASSUME NEW a \in Attempts, Capture(a) PROVE IInv'
  BY <1>4 DEF Capture
<1>5. ASSUME NEW a \in Attempts, Compare(a) PROVE IInv'
  BY <1>5 DEF Compare, MayUnlock, SameFile
<1>6. ASSUME NEW a \in Attempts, Rename(a) PROVE IInv'
  BY <1>6 DEF Rename
<1>7. ASSUME NEW a \in Attempts, Remove(a) PROVE IInv'
  BY <1>7 DEF Remove
<1>8. ASSUME NEW a \in Attempts, Crash(a) PROVE IInv'
  BY <1>8 DEF Crash
<1>9. CASE Displace
  BY <1>9 DEF Displace
<1>10. QED
  BY <1>1, <1>2, <1>3, <1>4, <1>5, <1>6, <1>7, <1>8, <1>9 DEF Next, Step

\* Who holds the lock, and what it remembers, is always as IInv says.
THEOREM LockInvariant == Spec => []IInv
BY InitIInv, NextIInv, PTL DEF Spec

\* Two attempts never hold the lock at the same time, unless another program has
\* taken the directory of one of them away.
THEOREM MutualExclusion == Spec => []Exclusive
<1>1. IInv => Exclusive
  BY DEF IInv, TypeOK, Exclusive, Holds, Evicted
<1>2. QED
  BY <1>1, LockInvariant, PTL

\* An unlock never takes away a directory that another attempt has made, even
\* when identities are reused and the lock has been displaced.
THEOREM UnlockSparesSuccessor == Spec => SparesSuccessor
<1>1. IInv /\ [Next]_vars => [SparesSuccessorStep]_vars
  BY DEF IInv, SparesSuccessorStep
<1>2. QED
  BY <1>1, LockInvariant, PTL DEF Spec, SparesSuccessor

\* Whoever made the directory at the name is not through with it.
Kept == maker # Nothing => pc[maker] \in {"open", "held", "rename", "failed", "dead"}

LEMMA NextKept == IInv /\ Kept /\ [Next]_vars => Kept'
<1> SUFFICES ASSUME IInv, Kept, [Next]_vars PROVE Kept'
  OBVIOUS
<1> USE DirLockAssumption DEF IInv, TypeOK, Labels, Goto, Kept
<1>1. CASE UNCHANGED vars
  BY <1>1 DEF vars
<1>2. ASSUME NEW a \in Attempts, Mkdir(a) PROVE Kept'
  BY <1>2 DEF Mkdir
<1>3. ASSUME NEW a \in Attempts, Refused(a) PROVE Kept'
  BY <1>3 DEF Refused
<1>4. ASSUME NEW a \in Attempts, Capture(a) PROVE Kept'
  BY <1>4 DEF Capture
<1>5. ASSUME NEW a \in Attempts, Compare(a) PROVE Kept'
  <2>1. CASE maker = a
    <3>1. SameFile(a)
      BY <2>1, <1>5 DEF Compare, MayUnlock, SameFile
    <3>2. QED
      BY <3>1, <2>1, <1>5 DEF Compare, MayUnlock
  <2>2. CASE maker # a
    BY <2>2, <1>5 DEF Compare, MayUnlock
  <2>3. QED
    BY <2>1, <2>2
<1>6. ASSUME NEW a \in Attempts, Rename(a) PROVE Kept'
  BY <1>6 DEF Rename
<1>7. ASSUME NEW a \in Attempts, Remove(a) PROVE Kept'
  BY <1>7 DEF Remove
<1>8. ASSUME NEW a \in Attempts, Crash(a) PROVE Kept'
  BY <1>8 DEF Crash
<1>9. CASE Displace
  BY <1>9 DEF Displace
<1>10. QED
  BY <1>1, <1>2, <1>3, <1>4, <1>5, <1>6, <1>7, <1>8, <1>9 DEF Next, Step

\* Once every attempt has been refused or has unlocked, the name is free: only
\* an attempt that died or failed leaves the lock behind.
THEOREM NameFreed == Spec => []FreeAtRest
<1>1. Init => Kept
  BY DEF Init, Kept
<1>2. IInv /\ Kept => FreeAtRest
  BY DirLockAssumption DEF IInv, TypeOK, Kept, FreeAtRest
<1>3. QED
  BY <1>1, <1>2, InitIInv, NextIInv, NextKept, PTL DEF Spec

\* The directories implement the abstract lock: what another program does to them
\* is an eviction, and what a failing call leaves behind is an abandoned lock.
THEOREM Refinement == Spec => ImplementsPromptLock
<1>1. Init => Abstract!Init
  BY DEF Init, Abstract!Init, Status
<1>2. ASSUME IInv, [Next]_vars PROVE [Abstract!Next]_(Abstract!vars)
  <2> USE <1>2, DirLockAssumption DEF IInv, TypeOK, Labels, Goto
  <2>1. CASE UNCHANGED vars
    BY <2>1 DEF vars, Abstract!vars, Status
  <2>2. ASSUME NEW a \in Attempts, Mkdir(a)
        PROVE  Abstract!Acquire(a)
    <3>1. \A b \in Attempts \ {a} : Status(b)' = Status(b)
      BY <2>2 DEF Mkdir, Status
    <3>2. Status(a) = "new" /\ Status(a)' = "owner"
      BY <2>2 DEF Mkdir, Status
    <3>3. QED
      BY <3>1, <3>2, <2>2 DEF Mkdir, Abstract!Acquire
  <2>3. ASSUME NEW a \in Attempts, Refused(a)
        PROVE  Abstract!Refuse(a)
    <3>1. \A b \in Attempts \ {a} : Status(b)' = Status(b)
      BY <2>3 DEF Refused, Status
    <3>2. Status(a) = "new" /\ Status(a)' = "refused"
      BY <2>3 DEF Refused, Status
    <3>3. QED
      BY <3>1, <3>2, <2>3 DEF Refused, Abstract!Refuse
  <2>4. ASSUME NEW a \in Attempts, Capture(a)
        PROVE  Abstract!Abandon(a) \/ UNCHANGED Abstract!vars
    <3>1. \A b \in Attempts \ {a} : Status(b)' = Status(b)
      BY <2>4 DEF Capture, Status
    <3>2. Status(a) = "owner" /\ Status(a)' \in {"owner", "dead"}
      BY <2>4 DEF Capture, Status
    <3>3. maker' = maker
      BY <2>4 DEF Capture
    <3>4. QED
      BY <3>1, <3>2, <3>3 DEF Abstract!Abandon, Abstract!vars
  <2>5. ASSUME NEW a \in Attempts, Compare(a)
        PROVE  Abstract!Abandon(a) \/ Abstract!Stop(a) \/ UNCHANGED Abstract!vars
    <3>1. \A b \in Attempts \ {a} : Status(b)' = Status(b)
      BY <2>5 DEF Compare, MayUnlock, SameFile, Status
    <3>2. maker' = maker /\ Status(a) \in {"owner", "finished"}
      BY <2>5 DEF Compare, MayUnlock, Status
    <3>3. CASE SameFile(a) /\ pc'[a] = "rename"
      <4>1. maker = a
        BY <3>3, <2>5 DEF Compare, MayUnlock, SameFile
      <4>2. Status(a)' = Status(a)
        BY <3>2, <3>3, <2>5, <4>1 DEF MayUnlock, Compare, Status
      <4>3. QED
        BY <3>1, <3>2, <4>2 DEF Abstract!vars
    <3>4. CASE ~SameFile(a) /\ pc'[a] = "done"
      <4>1. maker # a
        BY <3>4, <2>5 DEF Compare, MayUnlock, SameFile
      <4>2. Status(a)' = Status(a)
        BY <3>2, <3>4, <2>5, <4>1 DEF MayUnlock, Compare, Status
      <4>3. QED
        BY <3>1, <3>2, <4>2 DEF Abstract!vars
    <3>5. CASE pc'[a] = "failed"
      <4>1. Status(a)' = "dead"
        BY <3>5 DEF Status
      <4>2. QED
        BY <3>1, <3>2, <4>1 DEF Abstract!Abandon, Abstract!Stop
    <3>6. QED
      BY <3>3, <3>4, <3>5, <2>5 DEF Compare
  <2>6. ASSUME NEW a \in Attempts, Rename(a)
        PROVE  Abstract!Release(a) \/ Abstract!Abandon(a)
    <3>1. \A b \in Attempts \ {a} : Status(b)' = Status(b)
      BY <2>6 DEF Rename, Status
    <3>2. /\ Status(a) = "owner"
         /\ \/ Status(a)' = "finished" /\ maker' = Nothing
            \/ Status(a)' = "dead" /\ maker' = maker
      BY <2>6 DEF Rename, Status
    <3>3. QED
      BY <3>1, <3>2, <2>6 DEF Rename, Abstract!Release, Abstract!Abandon
  <2>7. ASSUME NEW a \in Attempts, Remove(a)
        PROVE  UNCHANGED Abstract!vars
    <3>1. \A b \in Attempts \ {a} : Status(b)' = Status(b)
      BY <2>7 DEF Remove, Status
    <3>2. Status(a)' = Status(a)
      BY <2>7 DEF Remove, Status
    <3>3. QED
      BY <3>1, <3>2, <2>7 DEF Remove, Abstract!vars
  <2>8. ASSUME NEW a \in Attempts, Crash(a)
        PROVE  Abstract!Abandon(a) \/ Abstract!Stop(a) \/ UNCHANGED Abstract!vars
    <3>1. \A b \in Attempts \ {a} : Status(b)' = Status(b)
      BY <2>8 DEF Crash, Status
    <3>2. /\ Status(a)' = "dead"
         /\ Status(a) \in {"new", "owner", "refused", "finished", "dead"}
      BY <2>8 DEF Crash, Status
    <3> DEFINE status == [b \in Attempts |-> Status(b)]
    <3>3. status' = [status EXCEPT ![a] = "dead"] /\ maker' = maker /\ status[a] = Status(a)
      BY <2>8, <3>1, <3>2 DEF Crash
    <3>4. CASE Status(a) = "dead"
      <4>1. status' = status
        BY <2>8, <3>1, <3>2, <3>4
      <4>2. QED
        BY <3>3, <4>1 DEF Abstract!vars
    <3>5. CASE Status(a) # "dead"
      BY <3>2, <3>3, <3>5 DEF Abstract!Abandon, Abstract!Stop
    <3>6. QED
      BY <3>4, <3>5
  <2>9. CASE Displace
    <3>1. PICK a \in Attempts : a = maker
      BY <2>9 DEF Displace
    <3>2. maker' = Nothing /\ pc' = pc
      BY <2>9 DEF Displace
    <3>3. \A b \in Attempts \ {a} : Status(b)' = Status(b)
      BY <3>1, <3>2 DEF Status
    <3>4. pc[a] = "held" => Status(a) = "owner" /\ Status(a)' = "finished"
      BY <3>1, <3>2 DEF Status
    <3>5. pc[a] # "held" => Status(a)' = Status(a) /\ Status(a) # "owner"
      BY <2>9, <3>1, <3>2 DEF Displace, Status
    <3>6. Abstract!Evict(a)
      BY <3>1, <3>2, <3>3, <3>4, <3>5 DEF Abstract!Evict
    <3>7. QED
      BY <3>6 DEF Abstract!Next
  <2>10. QED
    BY <2>1, <2>2, <2>3, <2>4, <2>5, <2>6, <2>7, <2>8, <2>9
    DEF Next, Step, Abstract!Next
<1>3. QED
  BY <1>1, <1>2, LockInvariant, PTL DEF Spec, ImplementsPromptLock, Abstract!Spec
================================================================================
