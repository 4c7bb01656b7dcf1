---------------------------- MODULE PackagingProofs ----------------------------
(* Every release that a run of the packager leaves is consistent, for any files *)
(* and contents, any number of runs and edits, and a failure or kill at any step. *)
EXTENDS Packaging, TLAPS

\* What a run has read so far.
HasRead == \A n \in Names \ run.todo : run.entries[n] \in Contents

\* What each step of a run relies on.
StageInv ==
    /\ run.pc = "sources" => run.todo \subseteq Sources
    /\ run.pc = "sources" => \A n \in Sources \ run.todo : run.entries[n] \in Contents
    /\ run.pc = "binaries" => run.todo \subseteq Binaries /\ HasRead
    /\ run.pc \in {"digest", "replace"} => run.entries \in Archives /\ run.temp = run.entries
    /\ run.pc \in {"replace", "existing", "unpack"} => run.digest = run.entries
    /\ run.pc \in {"existing", "unpack"} => cut /\ archive = run.entries /\ archive \in Archives
    /\ run.pc = "unpack" => \A n \in Names \ run.todo : unpacked[n] = archive[n]

\* What the maintainer may have pinned, or the run has read, was printed before.
PinInv == {pin, run.pin} \subseteq printed \cup {None}

IInv == TypeOK /\ StageInv /\ PinInv /\ ReleaseAgrees

LEMMA InitInv == Init => IInv
<1> SUFFICES ASSUME Init PROVE IInv
  OBVIOUS
<1>1. Unread \in [Names -> Contents \cup {None}]
  BY DEF Unread
<1>2. run \in Runs
  BY <1>1 DEF Init, Idle, Runs
<1>3. TypeOK
  BY <1>1, <1>2 DEF Init, TypeOK
<1>4. StageInv /\ PinInv /\ ReleaseAgrees
  BY DEF Init, Idle, StageInv, PinInv, ReleaseAgrees
<1> QED
  BY <1>3, <1>4 DEF IInv

\* The maintainer touches neither the archive nor the run.
LEMMA MaintainInv == IInv /\ Maintain => IInv'
<1> SUFFICES ASSUME IInv, Maintain PROVE IInv'
  OBVIOUS
<1> USE DEF IInv
<1>1. UNCHANGED <<archive, checksum, unpacked, run, cut, printed>>
  BY DEF Maintain, ghosts
<1>2. files' \in [Names -> Contents \cup {Bad}]
  BY DEF Maintain, TypeOK
<1>3. pin' \in {pin} \cup printed \cup {None}
  BY DEF Maintain
<1>4. stray' \in BOOLEAN
  BY DEF Maintain, TypeOK
<1>5. TypeOK'
  BY <1>1, <1>2, <1>3, <1>4 DEF TypeOK
<1>6. StageInv' /\ PinInv' /\ ReleaseAgrees'
  BY <1>1, <1>3 DEF StageInv, HasRead, PinInv, ReleaseAgrees
<1> QED
  BY <1>5, <1>6

LEMMA ReadInv == ASSUME IInv, NEW n \in Names, Read(n) PROVE IInv'
<1> USE DEF IInv
<1>1. files[n] \in Contents
  BY DEF Read, Refused, TypeOK
<1>2. TypeOK'
  BY <1>1 DEF Read, TypeOK, Runs, Maintained, dist, ghosts
<1>3. StageInv'
  BY <1>1 DEF Read, StageInv, HasRead, TypeOK, Runs, Maintained, dist, ghosts
<1>4. PinInv' /\ ReleaseAgrees'
  BY DEF Read, PinInv, ReleaseAgrees, TypeOK, Runs, Maintained, dist, ghosts
<1> QED
  BY <1>2, <1>3, <1>4

LEMMA UnpackInv == ASSUME IInv, NEW n \in Names, Unpack(n) PROVE IInv'
<1> USE DEF IInv
<1>1. archive[n] \in Contents /\ archive \in Archives
  BY DEF Unpack, StageInv, Archives
<1>2. TypeOK'
  BY <1>1 DEF Unpack, TypeOK, Runs, Goto, Maintained, ghosts
<1>3. StageInv'
  BY <1>1 DEF Unpack, StageInv, TypeOK, Runs, Goto, Maintained, ghosts
<1>4. PinInv' /\ ReleaseAgrees'
  BY DEF Unpack, PinInv, StageInv, ReleaseAgrees, TypeOK, Runs, Goto, Maintained, ghosts
<1> QED
  BY <1>2, <1>3, <1>4

LEMMA StartInv == ASSUME IInv, NEW strict \in BOOLEAN, Start(strict) PROVE IInv'
<1> USE DEF IInv
<1>1. TypeOK'
  BY DEF Start, Idle, Unread, TypeOK, Runs, Names, dist, ghosts
<1>2. StageInv' /\ PinInv' /\ ReleaseAgrees'
  BY DEF Start, Idle, StageInv, PinInv, ReleaseAgrees, TypeOK, Runs, dist, ghosts
<1> QED
  BY <1>1, <1>2

LEMMA ReadPinInv == IInv /\ ReadPin => IInv'
<1> SUFFICES ASSUME IInv, ReadPin PROVE IInv'
  OBVIOUS
<1> USE DEF IInv
<1>1. TypeOK'
  BY DEF ReadPin, TypeOK, Runs, Names, Maintained, dist, ghosts
<1>2. StageInv'
  BY DEF ReadPin, StageInv, HasRead, TypeOK, Runs, Names, Maintained, dist, ghosts
<1>3. PinInv' /\ ReleaseAgrees'
  BY DEF ReadPin, PinInv, ReleaseAgrees, TypeOK, Runs, Maintained, dist, ghosts
<1> QED
  BY <1>1, <1>2, <1>3

LEMMA WriteInv == IInv /\ Write => IInv'
<1> SUFFICES ASSUME IInv, Write PROVE IInv'
  OBVIOUS
<1> USE DEF IInv
<1>1. run.entries \in Archives
  BY DEF Write, StageInv, HasRead, TypeOK, Runs, Archives
<1>2. TypeOK'
  BY <1>1 DEF Write, TypeOK, Runs, Maintained, dist, ghosts
<1>3. StageInv'
  BY <1>1 DEF Write, StageInv, TypeOK, Runs, Maintained, dist, ghosts
<1>4. PinInv' /\ ReleaseAgrees'
  BY DEF Write, PinInv, ReleaseAgrees, TypeOK, Runs, Maintained, dist, ghosts
<1> QED
  BY <1>2, <1>3, <1>4

LEMMA DigestInv == IInv /\ Digest => IInv'
<1> SUFFICES ASSUME IInv, Digest PROVE IInv'
  OBVIOUS
<1> USE DEF IInv
<1>1. TypeOK'
  BY DEF Digest, Digested, TypeOK, Runs, Maintained, dist, ghosts
<1>2. StageInv'
  BY DEF Digest, Digested, StageInv, TypeOK, Runs, Maintained, dist, ghosts
<1>3. PinInv' /\ ReleaseAgrees'
  BY DEF Digest, PinInv, ReleaseAgrees, TypeOK, Runs, Maintained, dist, ghosts
<1> QED
  BY <1>1, <1>2, <1>3

LEMMA ReplaceInv == IInv /\ Replace => IInv'
<1> SUFFICES ASSUME IInv, Replace PROVE IInv'
  OBVIOUS
<1> USE DEF IInv
<1>1. TypeOK'
  BY DEF Replace, StageInv, TypeOK, Runs, Goto, Maintained, ghosts
<1>2. StageInv' /\ ReleaseAgrees'
  BY DEF Replace, StageInv, ReleaseAgrees, TypeOK, Runs, Goto, Maintained, ghosts
<1>3. PinInv'
  BY DEF Replace, PinInv, TypeOK, Runs, Goto, Maintained, ghosts
<1> QED
  BY <1>1, <1>2, <1>3

LEMMA CheckExistingInv == IInv /\ CheckExisting => IInv'
<1> SUFFICES ASSUME IInv, CheckExisting PROVE IInv'
  OBVIOUS
<1> USE DEF IInv
<1>1. TypeOK'
  BY DEF CheckExisting, TypeOK, Runs, Goto, Maintained, dist, ghosts
<1>2. StageInv'
  BY DEF CheckExisting, StageInv, TypeOK, Runs, Goto, Maintained, dist, ghosts
<1>3. PinInv' /\ ReleaseAgrees'
  BY DEF CheckExisting, PinInv, ReleaseAgrees, TypeOK, Runs, Goto, Maintained, dist, ghosts
<1> QED
  BY <1>1, <1>2, <1>3

\* The only step that makes the release agree again.
LEMMA FinishInv == IInv /\ Finish => IInv'
<1> SUFFICES ASSUME IInv, Finish PROVE IInv'
  OBVIOUS
<1> USE DEF IInv
<1>1. /\ archive = run.entries /\ archive \in Archives /\ unpacked = archive
      /\ run.digest = archive
  BY DEF Finish, StageInv
<1>2. TypeOK'
  <2>1. run' \in Runs
    BY DEF Finish, Idle, Unread, Runs, Names
  <2>2. checksum' = archive /\ cut' = FALSE /\ printed' = printed \cup {archive}
    BY <1>1 DEF Finish, Sum
  <2>3. UNCHANGED <<files, pin, archive, unpacked, stray>>
    BY DEF Finish, Maintained
  <2> QED
    BY <1>1, <2>1, <2>2, <2>3 DEF TypeOK
<1>3. StageInv' /\ PinInv'
  BY DEF Finish, Idle, StageInv, PinInv, TypeOK, Runs, Maintained, ghosts
<1>4. ReleaseAgrees'
  BY <1>1 DEF Finish, Sum, ReleaseAgrees, Maintained, ghosts
<1> QED
  BY <1>2, <1>3, <1>4

\* An error or a kill after Replace leaves cut set, and one before it leaves the
\* old release alone.
LEMMA EndInv == IInv /\ (Fail \/ Kill) => IInv'
<1> SUFFICES ASSUME IInv, Fail \/ Kill PROVE IInv'
  OBVIOUS
<1> USE DEF IInv
<1>1. Idle \in Runs
  BY DEF Idle, Unread, Runs, Names
<1>2. stray' \in BOOLEAN
  BY PackagingAssumption DEF Fail, Kill, Unpacking, TypeOK
<1>3. TypeOK'
  BY <1>1, <1>2 DEF Fail, Kill, TypeOK, Maintained, ghosts
<1>4. StageInv' /\ PinInv' /\ ReleaseAgrees'
  BY DEF Fail, Kill, Idle, StageInv, PinInv, ReleaseAgrees, Maintained, ghosts
<1> QED
  BY <1>3, <1>4

LEMMA NextInv == IInv /\ [Next]_vars => IInv'
<1> SUFFICES ASSUME IInv, [Next]_vars PROVE IInv'
  OBVIOUS
<1>1. CASE Package
  BY <1>1, StartInv, ReadInv, UnpackInv, ReadPinInv, WriteInv, DigestInv, ReplaceInv,
     CheckExistingInv, FinishInv, EndInv DEF Package
<1>2. CASE Maintain
  BY <1>2, MaintainInv
<1>3. CASE UNCHANGED vars
  BY <1>3 DEF vars, IInv, TypeOK, StageInv, HasRead, PinInv, ReleaseAgrees
<1> QED
  BY <1>1, <1>2, <1>3 DEF Next

LEMMA InvHolds == Spec => []IInv
  BY InitInv, NextInv, PTL DEF Spec

\* The archive, its checksum and its unpacked copy agree, whatever is edited while
\* the packager (buildArchive) runs and wherever its runs end, unless the last run
\* that replaced the archive was cut short.
THEOREM ReleaseConsistent == Spec => []ReleaseAgrees
<1>1. IInv => ReleaseAgrees
  BY DEF IInv
<1> QED
  BY <1>1, InvHolds, PTL

\* The packager's state has its type.
THEOREM PackagingTypes == Spec => []TypeOK
<1>1. IInv => TypeOK
  BY DEF IInv
<1> QED
  BY <1>1, InvHolds, PTL

\* Without -prepare-pin an archive gives way only to one that a finished run has
\* verified and printed, whatever was edited while the sources and binaries were
\* read: buildArchive digests what it has written and compares it before replaceFile.
THEOREM PrintedReplacement == Spec => OnlyPrintedReleased
<1>1. ASSUME Next, archive' # archive PROVE Replace
  BY <1>1 DEF Next, Maintain, Package, Start, Read, Unpack, ReadPin, Write, Digest,
     CheckExisting, Finish, Fail, Kill, dist, ghosts
<1>2. ASSUME IInv, Replace, run.strict PROVE archive' \in printed
  <2>1. run.digest = run.pin /\ archive' = run.temp
    BY <1>2 DEF Replace, MayReplace
  <2>2. /\ run.temp = run.entries /\ run.digest = run.entries
        /\ run.entries \in Archives /\ run.pin \in printed \cup {None}
    BY <1>2 DEF IInv, Replace, StageInv, PinInv
  <2> QED
    BY <2>1, <2>2, PackagingAssumption
<1>3. IInv /\ [Next]_vars => [OnlyPrintedReleasedStep]_vars
  BY <1>1, <1>2 DEF OnlyPrintedReleasedStep
<1> QED
  BY <1>3, InvHolds, PTL DEF Spec, OnlyPrintedReleased
================================================================================
