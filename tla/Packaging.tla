------------------------------- MODULE Packaging -------------------------------
(***************************************************************************)
(* The release packager (scripts/package): it reads the sources and the    *)
(* binaries one by one, writes the archive beside its place, digests it,   *)
(* compares the digest with the pin of the marketplace catalog, replaces   *)
(* the archive, unpacks and compares it, and writes the checksum last.     *)
(* The maintainer edits at any time, and pins digests that a run has       *)
(* printed; any call may fail and any run may be killed.                   *)
(* An archive is written the same way whenever its entries are the same,   *)
(* so that its entries stand for its bytes and for its digest.             *)
(***************************************************************************)
EXTENDS Naturals, FiniteSets

CONSTANTS Sources, Binaries,   \* what an archive consists of
          Contents,            \* contents that pass the checks on their entry
          Bad,                 \* missing, no regular file, of another version or format
          None,                \* no file, no pin, not read yet
          Faulty,              \* TRUE: a call may fail
          Kills,               \* TRUE: a run may be killed
          MaxRuns, MaxEdits    \* runs of the packager, steps of the maintainer

Names == Sources \cup Binaries
Archives == [Names -> Contents]

ASSUME PackagingAssumption ==
    /\ Sources \cap Binaries = {}
    /\ Bad \notin Contents /\ None \notin Contents /\ None # Bad
    /\ None \notin Archives
    /\ Faulty \in BOOLEAN /\ Kills \in BOOLEAN

VARIABLES files,     \* the sources and the built binaries
          pin,       \* source.sha256 in the catalog
          archive,   \* the archive in dist
          checksum,  \* the digest in the file beside it
          unpacked,  \* the unpacked entries
          stray,     \* a file that is no entry lies among the unpacked ones
          run,       \* the packager: what it has read, written and digested
          cut,       \* ghost: the run that replaced the archive last has not finished
          printed,   \* ghost: the digests that finished runs have printed
          runs, edits

vars == <<files, pin, archive, checksum, unpacked, stray, run, cut, printed, runs, edits>>
dist == <<archive, checksum, unpacked, stray>>
ghosts == <<cut, printed>>

Unread == [n \in Names |-> None]
Idle == [pc |-> "idle", strict |-> TRUE, entries |-> Unread, pin |-> None,
         temp |-> None, digest |-> None, todo |-> {}]

Init ==
    /\ files \in [Names -> Contents]
    /\ pin = None
    /\ archive = None /\ checksum = None /\ unpacked = Unread /\ stray = FALSE
    /\ run = Idle
    /\ cut = FALSE /\ printed = {} /\ runs = 0 /\ edits = 0

----------------------------------------------------------------------------
(* The maintainer, between any two steps of a run.  A pin is a digest that *)
(* a run has printed, and never a guess.                                   *)

Maintain ==
    /\ edits < MaxEdits
    /\ edits' = edits + 1
    /\ \/ /\ \E n \in Names, c \in Contents \cup {Bad} : files' = [files EXCEPT ![n] = c]
          /\ UNCHANGED <<pin, stray>>
       \/ /\ pin' \in printed \cup {None}
          /\ UNCHANGED <<files, stray>>
       \/ /\ stray' = ~stray
          /\ UNCHANGED <<files, pin>>
    /\ UNCHANGED <<archive, checksum, unpacked, run, ghosts, runs>>

----------------------------------------------------------------------------
(* buildArchive                                                            *)

Maintained == UNCHANGED <<files, pin, edits, runs>>
Goto(label, todo) == run' = [run EXCEPT !.pc = label, !.todo = todo]

\* packageArchive, or -prepare-pin, which only leaves the pin unchecked.
Start(strict) ==
    /\ run.pc = "idle" /\ runs < MaxRuns
    /\ run' = [Idle EXCEPT !.pc = "sources", !.strict = strict, !.todo = Sources]
    /\ runs' = runs + 1
    /\ UNCHANGED <<files, pin, edits, dist, ghosts>>

\* Variant: no check on what is read.
RefusedNever(n) == FALSE

\* By readRegular, validateVersions or matchesTarget.
Refused(n) == files[n] = Bad

\* One source, or one binary.
Read(n) ==
    /\ run.pc \in {"sources", "binaries"}
    /\ n \in run.todo
    /\ ~Refused(n)
    /\ run' = [run EXCEPT !.entries[n] = files[n], !.todo = @ \ {n}]
    /\ Maintained /\ UNCHANGED <<dist, ghosts>>

\* The catalog: versions and the form of the pin.
ReadPin ==
    /\ run.pc = "sources" /\ run.todo = {}
    /\ run.strict => pin # None
    /\ run' = [run EXCEPT !.pc = "binaries", !.pin = pin, !.todo = Binaries]
    /\ Maintained /\ UNCHANGED <<dist, ghosts>>

\* The temporary archive.
Write ==
    /\ run.pc = "binaries" /\ run.todo = {}
    /\ run' = [run EXCEPT !.pc = "digest", !.temp = run.entries]
    /\ Maintained /\ UNCHANGED <<dist, ghosts>>

\* Variant: the archive that is in place is digested.
DigestedInPlace == archive

\* fileSHA256 reads the temporary archive back.
Digested == run.temp

Digest ==
    /\ run.pc = "digest"
    /\ run' = [run EXCEPT !.pc = "replace", !.digest = Digested]
    /\ Maintained /\ UNCHANGED <<dist, ghosts>>

MayReplace == run.strict => run.digest = run.pin

Replace ==
    /\ run.pc = "replace"
    /\ MayReplace
    /\ archive' = run.temp
    /\ cut' = TRUE
    /\ Goto("existing", {})
    /\ Maintained /\ UNCHANGED <<checksum, unpacked, stray, printed>>

\* validateExisting refuses what is neither an entry nor a directory of one.
CheckExisting ==
    /\ run.pc = "existing"
    /\ ~stray
    /\ Goto("unpack", Names)
    /\ Maintained /\ UNCHANGED <<dist, ghosts>>

\* One entry of the archive, written beside its place and renamed.
Unpack(n) ==
    /\ run.pc = "unpack"
    /\ n \in run.todo
    /\ unpacked' = [unpacked EXCEPT ![n] = archive[n]]
    /\ Goto("unpack", run.todo \ {n})
    /\ Maintained /\ UNCHANGED <<archive, checksum, stray, ghosts>>

\* Variant: the pin is taken for the digest.
SumFromPin == run.pin

Sum == run.digest

\* All entries compare equal, the checksum is written and the digest printed.
Finish ==
    /\ run.pc = "unpack" /\ run.todo = {}
    /\ unpacked = run.entries
    /\ checksum' = Sum
    /\ cut' = FALSE
    /\ printed' = printed \cup {run.digest}
    /\ run' = Idle
    /\ Maintained /\ UNCHANGED <<archive, unpacked, stray>>

Blocked ==
    \/ \E n \in run.todo : run.pc \in {"sources", "binaries"} /\ Refused(n)
    \/ run.pc = "sources" /\ run.todo = {} /\ run.strict /\ pin = None
    \/ run.pc = "replace" /\ ~MayReplace
    \/ run.pc = "existing" /\ stray
    \/ run.pc = "unpack" /\ run.todo = {} /\ unpacked # run.entries

\* atomicWrite makes its file beside the entry.  A kill leaves it there, and so
\* does an error, when the deferred os.Remove fails as well.
Unpacking == run.pc = "unpack" /\ run.todo # {}

\* A temporary archive that is left in dist is in nobody's way.
Fail ==
    /\ run.pc # "idle"
    /\ Faulty \/ Blocked
    /\ stray' \in {stray, stray \/ (Faulty /\ Unpacking)}
    /\ run' = Idle
    /\ Maintained /\ UNCHANGED <<archive, checksum, unpacked, ghosts>>

Kill ==
    /\ Kills
    /\ run.pc # "idle"
    /\ stray' \in {stray, stray \/ Unpacking}
    /\ run' = Idle
    /\ Maintained /\ UNCHANGED <<archive, checksum, unpacked, ghosts>>

Package ==
    \/ \E strict \in BOOLEAN : Start(strict)
    \/ \E n \in Names : Read(n) \/ Unpack(n)
    \/ ReadPin \/ Write \/ Digest \/ Replace \/ CheckExisting \/ Finish \/ Fail \/ Kill

Next == Maintain \/ Package

Spec == Init /\ [][Next]_vars

----------------------------------------------------------------------------
Runs == [pc : {"idle", "sources", "binaries", "digest", "replace", "existing", "unpack"},
         strict : BOOLEAN, entries : [Names -> Contents \cup {None}],
         pin : Archives \cup {None}, temp : Archives \cup {None},
         digest : Archives \cup {None}, todo : SUBSET Names]

TypeOK ==
    /\ files \in [Names -> Contents \cup {Bad}]
    /\ {pin, archive, checksum} \subseteq Archives \cup {None}
    /\ unpacked \in [Names -> Contents \cup {None}]
    /\ stray \in BOOLEAN
    /\ run \in Runs
    /\ cut \in BOOLEAN /\ printed \subseteq Archives

\* The archive, its checksum and its unpacked copy belong together, unless the run
\* that replaced the archive was cut short by an error or a kill: whatever was
\* edited meanwhile, and however the runs before and after it ended.
ReleaseAgrees ==
    ~cut => checksum = archive /\ archive \in {None, unpacked}

\* docs/releasing.md: "Normal packaging rejects a missing, invalid, or mismatched
\* marketplace pin before replacing the archive".  So without -prepare-pin an
\* archive gives way only to one that an earlier run has packed, unpacked and
\* compared in full, and whose digest it has printed: never to a mixture of what
\* was in the files at different times, unless that is what was printed.
OnlyPrintedReleasedStep ==
    archive' # archive /\ run.strict => archive' \in printed

OnlyPrintedReleased == [][OnlyPrintedReleasedStep]_vars
================================================================================
