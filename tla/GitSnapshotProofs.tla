--------------------------- MODULE GitSnapshotProofs ---------------------------
(* The trees that Repo.Snapshot returns, for any files, contents and repository, *)
(* any number of snapshots, attempts and steps of the user: they can be read,    *)
(* they are the work tree, and they differ only where something has changed.     *)
EXTENDS GitSnapshot, TLAPS

Entry == Blobs \cup {None}
TreeEntry == Blobs \cup {None, Filtered}
Whence == [Files -> Entry]
PrivateIndexes == {None} \cup [Files -> TreeEntry \cup {Shared}]
Labels == {"idle", "index", "prepare", "update-index", "filters", "add", "write"}

Repos == [index : {None} \cup [Files -> Entry \cup {Shared}], base : {None} \cup Whence,
          shared : SUBSET Whence, head : Whence, objects : SUBSET Blobs,
          racy : SUBSET Files, filter : SUBSET FilterKeys]
Privates == [index : PrivateIndexes, base : {None} \cup Whence, torn : BOOLEAN,
             stale : SUBSET Files, lock : BOOLEAN, git : SUBSET Whence,
             objects : SUBSET (Blobs \cup {Filtered})]
Hooks == [pc : Labels, overrides : BOOLEAN, due : Whence]
Records == [tree : [Files -> TreeEntry], due : Whence]

Types ==
    /\ work \in Whence
    /\ ignored \in SUBSET Files
    /\ repo \in Repos
    /\ private \in Privates
    /\ hook \in Hooks
    /\ trees \in Seq(Records)
    /\ known \in SUBSET Files /\ excused \in SUBSET Files /\ changed \in SUBSET Files

\* An entry that is shared has a shared index to be found in, and the index is
\* there, and whole, when a step relies on it.
Stages ==
    /\ repo.index # None => \A f \in Files : repo.index[f] = Shared => repo.base # None
    /\ private.index # None => \A f \in Files : private.index[f] = Shared => private.base # None
    /\ hook.pc \notin {"idle", "index"} => private.index # None
    /\ hook.pc = "index" => private.index = None
    /\ trees # <<>> => private.index # None
    /\ hook.pc \in {"filters", "add", "write"} =>
            private.index \in [Files -> TreeEntry] /\ private.base = None

----------------------------------------------------------------------------
(* What the operators of the model return                                  *)

LEMMA NoneIsNoIndex ==
    /\ None \notin [Files -> TreeEntry \cup {Shared}]
    /\ None \notin [Files -> TreeEntry]
    /\ None \notin [Files -> Entry \cup {Shared}]
    /\ None \notin Whence
  BY SnapshotAssumption DEF TreeEntry, Entry, Whence

LEMMA NoEntriesType == NoEntries \in Whence
  BY DEF NoEntries, Whence, Entry

LEMMA RealEntriesType == ASSUME Types, Stages PROVE RealEntries \in Whence
<1>1. CASE repo.index = None
  BY <1>1 DEF RealEntries, Types, Repos
<1>2. CASE repo.index # None
  BY <1>2 DEF RealEntries, Expand, Types, Repos, Stages, Whence, Entry
<1> QED
  BY <1>1, <1>2

LEMMA WholeType ==
  ASSUME Types, Stages, private.index # None PROVE Whole \in [Files -> TreeEntry]
  BY DEF Whole, Expand, Types, Privates, PrivateIndexes, Stages, Whence, Entry, TreeEntry

LEMMA StagedType == ASSUME Types, NEW f \in Files PROVE Staged(f) \in Repos
<1>1. (IF repo.index = None THEN NoEntries ELSE repo.index) \in [Files -> Entry \cup {Shared}]
  BY NoEntriesType DEF Types, Repos, Whence
<1>2. work[f] \in Entry
  BY DEF Types, Whence
<1>3. repo.objects \cup ({work[f]} \ {None}) \in SUBSET Blobs
  BY <1>2 DEF Types, Repos, Entry
<1> QED
  BY <1>1, <1>2, <1>3 DEF Staged, Types, Repos

LEMMA ConvertedType ==
  ASSUME Types, NEW f \in Files, work[f] # None
  PROVE  Converted(work[f]) \in Blobs \cup {Filtered}
  BY DEF Converted, Types, Whence, Entry

\* What an interrupted step may have done to the private directory.
LEMMA InterruptedCases ==
  ASSUME Types, NEW p \in Interrupted
  PROVE  \/ p = private
         \/ /\ hook.pc = "index" /\ repo.index # None
            /\ p = [private EXCEPT !.index = repo.index, !.base = repo.base, !.torn = TRUE]
         \/ p = [private EXCEPT !.git = private.git \cup repo.shared]
         \/ \E o \in SUBSET (Blobs \cup {Filtered}) :
              p = [private EXCEPT !.lock = TRUE, !.objects = @ \cup o]
         \/ p = [private EXCEPT !.lock = TRUE]
<1>1. Stored(Readable) \ RealObjects("add") \in SUBSET (Blobs \cup {Filtered})
  BY ConvertedType DEF Stored, Readable, ToAdd
<1>2. CASE hook.pc = "index" /\ repo.index # None
  BY <1>2 DEF Interrupted
<1>3. CASE hook.pc = "prepare"
  BY <1>3 DEF Interrupted
<1>4. CASE hook.pc = "add"
  BY <1>1, <1>4 DEF Interrupted
<1>5. CASE hook.pc \in {"update-index", "write"} \/ (hook.pc = "index" /\ repo.index = None)
  BY <1>5 DEF Interrupted
<1>6. CASE hook.pc \in {"idle", "filters"}
  BY <1>6 DEF Interrupted
<1> QED
  BY <1>2, <1>3, <1>4, <1>5, <1>6 DEF Types, Hooks, Labels

LEMMA InterruptedType == ASSUME Types, NEW p \in Interrupted PROVE p \in Privates
<1>1. CASE p = private
  BY <1>1 DEF Types
<1>2. CASE /\ hook.pc = "index" /\ repo.index # None
           /\ p = [private EXCEPT !.index = repo.index, !.base = repo.base, !.torn = TRUE]
  BY <1>2 DEF Types, Repos, Privates, PrivateIndexes, Entry, TreeEntry
<1>3. CASE p = [private EXCEPT !.git = private.git \cup repo.shared]
  BY <1>3 DEF Types, Repos, Privates
<1>4. CASE \E o \in SUBSET (Blobs \cup {Filtered}) :
             p = [private EXCEPT !.lock = TRUE, !.objects = @ \cup o]
  BY <1>4 DEF Types, Privates
<1>5. CASE p = [private EXCEPT !.lock = TRUE]
  BY <1>5 DEF Types, Privates
<1> QED
  BY <1>1, <1>2, <1>3, <1>4, <1>5, InterruptedCases

\* Its objects stay, and only the copy of the index replaces the index.
LEMMA InterruptedKeeps ==
  ASSUME Types, NEW p \in Interrupted
  PROVE  /\ private.objects \subseteq p.objects
         /\ p.stale = private.stale
         /\ \/ p.index = private.index /\ p.base = private.base /\ p.torn = private.torn
            \/ /\ hook.pc = "index" /\ repo.index # None
               /\ p.index = repo.index /\ p.base = repo.base /\ p.torn = TRUE
<1>1. CASE p = private
  BY <1>1
<1>2. CASE /\ hook.pc = "index" /\ repo.index # None
           /\ p = [private EXCEPT !.index = repo.index, !.base = repo.base, !.torn = TRUE]
  BY <1>2 DEF Types, Privates
<1>3. CASE p = [private EXCEPT !.git = private.git \cup repo.shared]
  BY <1>3 DEF Types, Privates
<1>4. CASE \E o \in SUBSET (Blobs \cup {Filtered}) :
             p = [private EXCEPT !.lock = TRUE, !.objects = @ \cup o]
  BY <1>4 DEF Types, Privates
<1>5. CASE p = [private EXCEPT !.lock = TRUE]
  BY <1>5 DEF Types, Privates
<1> QED
  BY <1>1, <1>2, <1>3, <1>4, <1>5, InterruptedCases

LEMMA WholeIndex ==
  ASSUME NEW index \in [Files -> TreeEntry], NEW base
  PROVE  Expand(index, base) = index
BY SnapshotAssumption DEF Expand, TreeEntry

\* What git add makes of an index that is whole, as it always is by then.
Added(files) == [private EXCEPT
    !.index = [f \in Files |-> IF f \in files THEN Converted(work[f])
                               ELSE IF f \in ToAdd THEN private.index[f] ELSE None],
    !.base = None,
    !.objects = @ \cup Stored(files)]

LEMMA WholeByThen ==
  ASSUME Stages, hook.pc \in {"filters", "add", "write"}
  PROVE  private.index \in [Files -> TreeEntry] /\ private.base = None /\ Whole = private.index
  BY WholeIndex DEF Stages, Whole

LEMMA AddDoes ==
  ASSUME Stages, Add
  PROVE  \E files \in SUBSET Readable : Unsure \subseteq files /\ private' = Added(files)
<1>1. Whole = private.index
  BY WholeByThen DEF Add
<1>2. PICK more \in SUBSET (Readable \ Unsure) :
        private' = [private EXCEPT
              !.index = [f \in Files |->
                  IF f \in Unsure \cup more THEN Converted(work[f])
                  ELSE IF f \in ToAdd THEN Whole[f] ELSE None],
              !.base = None,
              !.objects = @ \cup (Stored(Unsure \cup more) \ RealObjects("add"))]
  BY DEF Add
<1>3. Stored(Unsure \cup more) \ RealObjects("add") = Stored(Unsure \cup more)
  BY DEF RealObjects, Alternate
<1>4. private' = Added(Unsure \cup more)
  BY <1>1, <1>2, <1>3 DEF Added
<1> QED
  BY <1>4 DEF Unsure

LEMMA StoredType == ASSUME Types, NEW files \in SUBSET Readable
                    PROVE  Stored(files) \in SUBSET (Blobs \cup {Filtered})
  BY ConvertedType DEF Stored, Readable, ToAdd

----------------------------------------------------------------------------
(* Types and stages                                                        *)

LEMMA InitTypes == Init => Types /\ Stages
<1> SUFFICES ASSUME Init PROVE Types /\ Stages
  OBVIOUS
<1>1. PICK entries \in [Files -> Blobs \cup {None}], how \in {"absent", "plain", "split"} :
         repo = [index |-> CASE how = "absent" -> None
                             [] how = "plain" -> entries
                             [] how = "split" -> AllShared,
                 base |-> IF how = "split" THEN entries ELSE None,
                 shared |-> IF how = "split" THEN {entries} ELSE {},
                 head |-> IF how = "absent" THEN entries ELSE NoEntries,
                 objects |-> Contents(entries), racy |-> {}, filter |-> {}]
  BY DEF Init
<1>2. Contents(entries) \in SUBSET Blobs
  BY DEF Contents
<1>3. entries \in Whence /\ AllShared \in [Files -> Entry \cup {Shared}]
  BY DEF Whence, Entry, AllShared
<1>4. repo \in Repos
  BY <1>1, <1>2, <1>3, NoEntriesType DEF Repos, Whence, Entry
<1>5. repo.index # None => \A f \in Files : repo.index[f] = Shared => repo.base # None
  BY <1>1, <1>3, NoneIsNoIndex, SnapshotAssumption DEF Whence, Entry
<1>6. private \in Privates /\ private.index = None
  BY DEF Init, EmptyDirectory, Privates, PrivateIndexes
<1>7. hook \in Hooks /\ hook.pc = "idle"
  BY NoEntriesType DEF Init, Idle, Hooks, Labels
<1>8. trees \in Seq(Records)
  BY DEF Init
<1>9. Types
  BY <1>4, <1>6, <1>7, <1>8, SnapshotAssumption DEF Init, Types, Whence, Entry
<1> QED
  BY <1>5, <1>6, <1>7, <1>9 DEF Init, Stages

LEMMA UserTypes == Types /\ Stages /\ UserStep => Types' /\ Stages'
<1> SUFFICES ASSUME Types, Stages, UserStep PROVE Types' /\ Stages'
  OBVIOUS
<1>1. ASSUME NEW f \in Files, Stage(f) PROVE Types' /\ Stages'
  <2>1. Types'
    BY <1>1, StagedType DEF Stage, User, Types
  <2>2. repo'.index # None => \A g \in Files : repo'.index[g] = Shared => repo'.base # None
    BY <1>1, SnapshotAssumption DEF Stage, Staged, NoEntries, Types, Repos, Whence, Entry, Stages
  <2> QED
    BY <1>1, <2>1, <2>2 DEF Stage, User, Stages
<1>2. ASSUME NEW f \in Files, NEW b \in Entry, Edit(f, b) PROVE Types' /\ Stages'
  BY <1>2 DEF Edit, User, Changed, Types, Stages, Whence, Repos, Privates
<1>3. ASSUME NEW f \in Files, NEW b \in Blobs, StageThenEdit(f, b) PROVE Types' /\ Stages'
  <2>1. Staged(f) \in Repos
    BY StagedType
  <2>2. Types'
    BY <1>3, <2>1 DEF StageThenEdit, User, Changed, Types, Whence, Entry, Repos, Privates
  <2>3. repo'.index = Staged(f).index /\ repo'.base = repo.base
    BY <1>3, <2>1 DEF StageThenEdit, Staged, Types, Repos
  <2>4. repo'.index # None => \A g \in Files : repo'.index[g] = Shared => repo'.base # None
    BY <2>3, <1>3, SnapshotAssumption DEF Staged, NoEntries, Types, Repos, Whence, Entry, Stages
  <2>5. private'.index = private.index /\ private'.base = private.base
    BY <1>3 DEF StageThenEdit, Types, Privates
  <2> QED
    BY <1>3, <2>2, <2>4, <2>5 DEF StageThenEdit, User, Stages
<1>4. ASSUME NEW f \in Ignorable, Ignore(f) PROVE Types' /\ Stages'
  BY <1>4, SnapshotAssumption DEF Ignore, User, Changed, Types, Stages
<1>5. CASE Split
  <2>1. RealEntries \in Whence /\ AllShared \in [Files -> Entry \cup {Shared}]
    BY RealEntriesType DEF AllShared
  <2>2. PICK expired \in SUBSET repo.shared :
          repo' = [repo EXCEPT !.index = AllShared, !.base = RealEntries, !.racy = {},
                               !.shared = (@ \ expired) \cup {RealEntries}]
    BY <1>5 DEF Split
  <2>3. repo' \in Repos /\ repo'.base # None
    BY <2>1, <2>2, NoneIsNoIndex DEF Types, Repos
  <2> QED
    BY <1>5, <2>3 DEF Split, User, Types, Stages
<1>6. ASSUME NEW keys \in SUBSET FilterKeys, Configure(keys) PROVE Types' /\ Stages'
  BY <1>6 DEF Configure, User, Types, Stages, Repos
<1> QED
  BY <1>1, <1>2, <1>3, <1>4, <1>5, <1>6 DEF UserStep, Entry

LEMMA EndTypes == Types /\ Stages /\ Fail => Types' /\ Stages'
<1> SUFFICES ASSUME Types, Stages, Fail PROVE Types' /\ Stages'
  OBVIOUS
<1>1. PICK p \in Interrupted :
        /\ private' = p \/ private' = [p EXCEPT !.git = {}]
        /\ known' = IF p.torn /\ ~private.torn THEN {f \in Files : RealEntries[f] # None} ELSE known
        /\ excused' = IF p.torn THEN Files ELSE excused
  BY DEF Fail, Ended, Interrupted
<1>2. p \in Privates
  BY InterruptedType
<1>3. /\ private' \in Privates
      /\ private'.index = p.index /\ private'.base = p.base
  BY <1>1, <1>2 DEF Privates
<1>4. hook' = Idle
  BY DEF Fail
<1>4a. hook' \in Hooks /\ hook'.pc = "idle"
  BY <1>4, NoEntriesType DEF Idle, Hooks, Labels
<1>5. Types'
  BY <1>1, <1>3, <1>4a DEF Fail, UserKeeps, Types
<1>6. \/ p.index = private.index /\ p.base = private.base
      \/ repo.index # None /\ p.index = repo.index /\ p.base = repo.base
  <2>1. private \in Privates
    BY DEF Types
  <2>2. /\ \A g : LET q == [private EXCEPT !.git = g]
                  IN  q.index = private.index /\ q.base = private.base
        /\ \A o : LET q == [private EXCEPT !.lock = TRUE, !.objects = @ \cup o]
                  IN  q.index = private.index /\ q.base = private.base
        /\ LET q == [private EXCEPT !.lock = TRUE]
           IN  q.index = private.index /\ q.base = private.base
    BY <2>1 DEF Privates
  <2>3. CASE p = private
    BY <2>3
  <2>4. CASE repo.index # None /\ p = [private EXCEPT !.index = repo.index, !.base = repo.base, !.torn = TRUE]
    BY <2>1, <2>4 DEF Privates
  <2>5. CASE \E g : p = [private EXCEPT !.git = g]
    BY <2>2, <2>5, Zenon
  <2>6. CASE \/ \E o : p = [private EXCEPT !.lock = TRUE, !.objects = @ \cup o]
             \/ p = [private EXCEPT !.lock = TRUE]
    BY <2>2, <2>6, Zenon
  <2>7. QED
    BY <2>3, <2>4, <2>5, <2>6, InterruptedCases, Zenon
<1>7. /\ p.index # None => \A f \in Files : p.index[f] = Shared => p.base # None
      /\ trees # <<>> => p.index # None
  BY <1>6 DEF Stages
<1> QED
  BY <1>3, <1>4a, <1>5, <1>7 DEF Fail, UserKeeps, Stages

LEMMA SnapshotTypes == Types /\ Stages /\ Snapshot => Types' /\ Stages'
<1> SUFFICES ASSUME Types, Stages, Snapshot PROVE Types' /\ Stages'
  OBVIOUS
<1>1. CASE Start
  BY <1>1 DEF Start, Prepared, FirstStep, MustTake, Goto, UserKeeps, ghosts, Types, Stages, Hooks, Labels
<1>2. CASE CopyIndex
  <2>1. private' \in Privates /\ private'.index = repo.index /\ private'.base = repo.base
    BY <1>2 DEF CopyIndex, Types, Repos, Privates, PrivateIndexes, Entry, TreeEntry
  <2>2. known' \in SUBSET Files /\ excused' \in SUBSET Files
    BY <1>2 DEF CopyIndex, TakenOver, Types, Repos
  <2>3. hook' \in Hooks /\ hook'.pc = "prepare"
    BY <1>2 DEF CopyIndex, Goto, Types, Hooks, Labels
  <2>4. Types'
    BY <1>2, <2>1, <2>2, <2>3 DEF CopyIndex, UserKeeps, Types
  <2> QED
    BY <1>2, <2>1, <2>3, <2>4 DEF CopyIndex, UserKeeps, Stages
<1>3. CASE ReadTree
  <2>1. PICK entries \in Whence :
          /\ private' = [private EXCEPT !.index = entries]
          /\ known' = {f \in Files : repo.head[f] # None}
          /\ excused' = IF entries = repo.head THEN excused ELSE Files
    BY <1>3, NoEntriesType DEF ReadTree, Types, Repos
  <2>2. entries # None /\ \A f \in Files : entries[f] # Shared
    BY NoneIsNoIndex, SnapshotAssumption DEF Whence, Entry
  <2>3. /\ private' \in Privates /\ private'.index = entries
    BY <2>1 DEF Types, Privates, PrivateIndexes, Whence, Entry, TreeEntry
  <2>4. hook' \in Hooks /\ hook'.pc = "prepare"
    BY <1>3 DEF ReadTree, Goto, Types, Hooks, Labels
  <2>5. Types'
    BY <1>3, <2>1, <2>3, <2>4 DEF ReadTree, UserKeeps, Types
  <2> QED
    BY <1>3, <2>2, <2>3, <2>4, <2>5 DEF ReadTree, UserKeeps, Stages
<1>4. CASE CopyShared
  <2>1. /\ private' \in Privates
        /\ private'.index = private.index /\ private'.base = private.base
    BY <1>4 DEF CopyShared, Types, Repos, Privates
  <2>2. hook' \in Hooks /\ hook'.pc = "update-index"
    BY <1>4 DEF CopyShared, Goto, Types, Hooks, Labels
  <2> QED
    BY <1>4, <2>1, <2>2 DEF CopyShared, UserKeeps, ghosts, Types, Stages
<1>5. CASE UpdateIndex
  <2>1. Whole \in [Files -> TreeEntry]
    BY <1>5, WholeType DEF UpdateIndex, Stages
  <2>2. PICK kept \in IF private.torn THEN SUBSET Files ELSE {Files} :
          private' = [private EXCEPT
             !.index = [f \in Files |-> IF f \in kept THEN Whole[f] ELSE None],
             !.base = None, !.torn = FALSE, !.git = {}]
    BY <1>5 DEF UpdateIndex
  <2>3. [f \in Files |-> IF f \in kept THEN Whole[f] ELSE None] \in [Files -> TreeEntry]
    BY <2>1 DEF TreeEntry
  <2>4. /\ private' \in Privates
        /\ private'.index \in [Files -> TreeEntry] /\ private'.base = None
    BY <2>2, <2>3 DEF Types, Privates, PrivateIndexes
  <2>5. hook' \in Hooks /\ hook'.pc = "filters"
    BY <1>5 DEF UpdateIndex, Goto, Types, Hooks, Labels
  <2>6. Types'
    BY <1>5, <2>4, <2>5 DEF UpdateIndex, UserKeeps, ghosts, Types
  <2>7. private'.index # None /\ \A f \in Files : private'.index[f] # Shared
    BY <2>4, NoneIsNoIndex, SnapshotAssumption DEF TreeEntry
  <2> QED
    BY <1>5, <2>4, <2>5, <2>6, <2>7 DEF UpdateIndex, UserKeeps, Stages
<1>6. CASE FilterOverrides
  BY <1>6 DEF FilterOverrides, Overrides, UserKeeps, ghosts, Types, Stages, Hooks, Labels
<1>7. CASE Add
  <2>1. PICK files \in SUBSET Readable : private' = Added(files)
    BY <1>7, AddDoes
  <2>2. private.index \in [Files -> TreeEntry]
    BY <1>7 DEF Add, Stages
  <2>3. \A f \in files : f \in Files /\ Converted(work[f]) \in Blobs \cup {Filtered}
    BY ConvertedType DEF Readable, ToAdd
  <2>4. [f \in Files |-> IF f \in files THEN Converted(work[f])
                         ELSE IF f \in ToAdd THEN private.index[f] ELSE None] \in [Files -> TreeEntry]
    BY <2>2, <2>3 DEF TreeEntry
  <2>5. private.objects \cup Stored(files) \in SUBSET (Blobs \cup {Filtered})
    BY StoredType DEF Types, Privates
  <2>6. /\ private' \in Privates /\ private'.index \in [Files -> TreeEntry] /\ private'.base = None
    BY <2>1, <2>4, <2>5 DEF Added, Types, Privates, PrivateIndexes
  <2>7. known' \in SUBSET Files /\ changed' \in SUBSET Files
    BY <1>7 DEF Add, Types
  <2>8. [f \in Files |-> IF f \in known' THEN work[f] ELSE None] \in Whence
    BY DEF Types, Whence, Entry
  <2>9. hook' \in Hooks /\ hook'.pc = "write"
    BY <1>7, <2>8 DEF Add, Types, Hooks, Labels
  <2>10. Types'
    BY <1>7, <2>6, <2>7, <2>9 DEF Add, UserKeeps, Types
  <2>11. private'.index # None /\ \A f \in Files : private'.index[f] # Shared
    BY <2>6, NoneIsNoIndex, SnapshotAssumption DEF TreeEntry
  <2> QED
    BY <1>7, <2>6, <2>9, <2>10, <2>11 DEF Add, UserKeeps, Stages
<1>8. CASE WriteTree
  <2>1. [tree |-> Whole, due |-> hook.due] \in Records
    BY <1>8, WholeByThen DEF WriteTree, Types, Hooks, Records
  <2>2. trees' \in Seq(Records)
    BY <1>8, <2>1 DEF WriteTree, Types
  <2>3. hook' \in Hooks /\ hook'.pc = "idle"
    BY <1>8, NoEntriesType DEF WriteTree, Idle, Hooks, Labels
  <2> QED
    BY <1>8, <2>2, <2>3 DEF WriteTree, UserKeeps, ghosts, Types, Stages
<1>9. CASE Fail
  BY <1>9, EndTypes
<1> QED
  BY <1>1, <1>2, <1>3, <1>4, <1>5, <1>6, <1>7, <1>8, <1>9 DEF Snapshot

LEMMA NextTypes == Types /\ Stages /\ [Next]_vars => Types' /\ Stages'
<1>1. Types /\ Stages /\ UNCHANGED vars => Types' /\ Stages'
  BY DEF vars, Types, Stages
<1> QED
  BY <1>1, UserTypes, SnapshotTypes DEF Next
----------------------------------------------------------------------------
(* Objects: nothing names a blob that is in neither store                  *)

Store == private.objects \cup repo.objects
Found(index, objects) == \A f \in Files : index[f] \in {None, Shared} \cup objects

Objects ==
    /\ repo.index # None => Found(repo.index, repo.objects)
    /\ repo.base # None => Found(repo.base, repo.objects)
    /\ Found(repo.head, repo.objects)
    /\ private.index # None => Found(private.index, Store)
    /\ private.base # None => Found(private.base, Store)
    /\ \A k \in DOMAIN trees : Found(trees[k].tree, Store)

\* The stores only grow.
LEMMA FoundStill ==
  ASSUME NEW index, NEW few, NEW more, few \subseteq more, Found(index, few)
  PROVE  Found(index, more)
  BY DEF Found

LEMMA ObjectsKept ==
  ASSUME Objects, Store \subseteq Store',
         UNCHANGED <<repo, trees>>,
         private'.index = private.index, private'.base = private.base
  PROVE  Objects'
<1>1. /\ private.index # None => Found(private.index, Store')
      /\ private.base # None => Found(private.base, Store')
      /\ \A k \in DOMAIN trees : Found(trees[k].tree, Store')
  BY FoundStill DEF Objects
<1> QED
  BY <1>1 DEF Objects, Found

LEMMA RealEntriesFound == ASSUME Types, Stages, Objects PROVE Found(RealEntries, repo.objects)
<1>1. CASE repo.index = None
  BY <1>1 DEF RealEntries, Objects
<1>2. CASE repo.index # None
  BY <1>2 DEF RealEntries, Expand, Objects, Found, Stages
<1> QED
  BY <1>1, <1>2

\* The user adds to the real store what an index comes to name.
LEMMA RepoObjects ==
  ASSUME Objects, repo.objects \subseteq repo'.objects, UNCHANGED trees,
         private'.index = private.index, private'.base = private.base,
         private'.objects = private.objects, repo'.head = repo.head,
         repo'.index # None => Found(repo'.index, repo'.objects),
         repo'.base # None => Found(repo'.base, repo'.objects)
  PROVE  Objects'
<1>1. Store \subseteq Store'
  BY DEF Store
<1>2. /\ private.index # None => Found(private.index, Store')
      /\ private.base # None => Found(private.base, Store')
      /\ \A k \in DOMAIN trees : Found(trees[k].tree, Store')
      /\ Found(repo.head, repo'.objects)
  BY <1>1, FoundStill DEF Objects
<1> QED
  BY <1>2 DEF Objects, Found

LEMMA InitObjects == Init => Objects
<1> SUFFICES ASSUME Init PROVE Objects
  OBVIOUS
<1>1. PICK entries \in [Files -> Blobs \cup {None}], how \in {"absent", "plain", "split"} :
         repo = [index |-> CASE how = "absent" -> None
                             [] how = "plain" -> entries
                             [] how = "split" -> AllShared,
                 base |-> IF how = "split" THEN entries ELSE None,
                 shared |-> IF how = "split" THEN {entries} ELSE {},
                 head |-> IF how = "absent" THEN entries ELSE NoEntries,
                 objects |-> Contents(entries), racy |-> {}, filter |-> {}]
  BY DEF Init
<1>2. /\ Found(entries, Contents(entries))
      /\ Found(NoEntries, Contents(entries))
      /\ Found(AllShared, Contents(entries))
  BY DEF Found, Contents, NoEntries, AllShared
<1>3. /\ repo.index # None => Found(repo.index, repo.objects)
      /\ repo.base # None => Found(repo.base, repo.objects)
      /\ Found(repo.head, repo.objects)
  BY <1>1, <1>2
<1>4. private.index = None /\ private.base = None /\ trees = <<>>
  BY DEF Init, EmptyDirectory
<1> QED
  BY <1>3, <1>4 DEF Objects

LEMMA StagedFound ==
  ASSUME Types, Objects, NEW f \in Files
  PROVE  /\ repo.objects \subseteq Staged(f).objects
         /\ Found(Staged(f).index, Staged(f).objects)
         /\ Staged(f).base = repo.base /\ Staged(f).head = repo.head
<1> DEFINE before == IF repo.index = None THEN NoEntries ELSE repo.index
<1>1. Staged(f) = [repo EXCEPT !.index = [before EXCEPT ![f] = work[f]],
                               !.objects = @ \cup ({work[f]} \ {None}), !.racy = {}]
  BY DEF Staged
<1>2. before \in [Files -> Entry \cup {Shared}] /\ Found(before, repo.objects)
  BY NoEntriesType DEF Types, Repos, Whence, Objects, Found, NoEntries
<1> HIDE DEF before
<1>3. Found([before EXCEPT ![f] = work[f]], repo.objects \cup ({work[f]} \ {None}))
  BY <1>2 DEF Found
<1> QED
  BY <1>1, <1>3 DEF Types, Repos

LEMMA UserObjects == Types /\ Stages /\ Objects /\ UserStep => Objects'
<1> SUFFICES ASSUME Types, Stages, Objects, UserStep PROVE Objects'
  OBVIOUS
<1>1. ASSUME NEW f \in Files, Stage(f) PROVE Objects'
  <2>1. repo' = Staged(f) /\ UNCHANGED <<private, trees>>
    BY <1>1 DEF Stage, User
  <2>2. repo'.base # None => Found(repo'.base, repo'.objects)
    BY <2>1, StagedFound, FoundStill DEF Objects
  <2> QED
    BY <2>1, <2>2, StagedFound, RepoObjects
<1>2. ASSUME NEW f \in Files, NEW b \in Entry, Edit(f, b) PROVE Objects'
  <2>1. /\ repo'.index = repo.index /\ repo'.base = repo.base
        /\ repo'.head = repo.head /\ repo'.objects = repo.objects
    BY <1>2 DEF Edit, Types, Repos
  <2>2. /\ private'.index = private.index /\ private'.base = private.base
        /\ private'.objects = private.objects /\ UNCHANGED trees
    BY <1>2 DEF Edit, User, Types, Privates
  <2> QED
    BY <2>1, <2>2, RepoObjects DEF Objects
<1>3. ASSUME NEW f \in Files, NEW b \in Blobs, StageThenEdit(f, b) PROVE Objects'
  <2>1. Staged(f) \in Repos
    BY StagedType
  <2>2. /\ repo'.index = Staged(f).index /\ repo'.base = Staged(f).base
        /\ repo'.head = Staged(f).head /\ repo'.objects = Staged(f).objects
    BY <1>3, <2>1 DEF StageThenEdit, Repos
  <2>3. /\ private'.index = private.index /\ private'.base = private.base
        /\ private'.objects = private.objects /\ UNCHANGED trees
    BY <1>3 DEF StageThenEdit, User, Types, Privates
  <2>4. repo'.base # None => Found(repo'.base, repo'.objects)
    BY <2>2, StagedFound, FoundStill DEF Objects
  <2> QED
    BY <2>2, <2>3, <2>4, StagedFound, RepoObjects
<1>4. ASSUME NEW f \in Ignorable, Ignore(f) PROVE Objects'
  BY <1>4, ObjectsKept DEF Ignore, User, Store
<1>5. CASE Split
  <2>1. /\ repo'.index = AllShared /\ repo'.base = RealEntries
        /\ repo'.head = repo.head /\ repo'.objects = repo.objects
    BY <1>5 DEF Split, Types, Repos
  <2>2. UNCHANGED <<private, trees>>
    BY <1>5 DEF Split, User
  <2>3. Found(AllShared, repo.objects)
    BY DEF Found, AllShared
  <2> QED
    BY <2>1, <2>2, <2>3, RealEntriesFound, RepoObjects
<1>6. ASSUME NEW keys \in SUBSET FilterKeys, Configure(keys) PROVE Objects'
  <2>1. /\ repo'.index = repo.index /\ repo'.base = repo.base
        /\ repo'.head = repo.head /\ repo'.objects = repo.objects
        /\ UNCHANGED <<private, trees>>
    BY <1>6 DEF Configure, User, Types, Repos
  <2> QED
    BY <2>1, RepoObjects DEF Objects
<1> QED
  BY <1>1, <1>2, <1>3, <1>4, <1>5, <1>6 DEF UserStep, Entry

LEMMA EndObjects == Types /\ Stages /\ Objects /\ Fail => Objects'
<1> SUFFICES ASSUME Types, Stages, Objects, Fail PROVE Objects'
  OBVIOUS
<1>1. PICK p \in Interrupted :
        private' = p \/ private' = [p EXCEPT !.git = {}]
  BY DEF Fail, Ended, Interrupted
<1>2. p \in Privates
  BY InterruptedType
<1>3. private'.index = p.index /\ private'.base = p.base /\ private'.objects = p.objects
  BY <1>1, <1>2 DEF Privates
<1>4. /\ private.objects \subseteq p.objects
      /\ \/ p.index = private.index /\ p.base = private.base
         \/ repo.index # None /\ p.index = repo.index /\ p.base = repo.base
  BY InterruptedKeeps
<1>5. UNCHANGED <<repo, trees>>
  BY DEF Fail, UserKeeps
<1>6. Store \subseteq Store' /\ repo.objects \subseteq Store'
  BY <1>3, <1>4, <1>5 DEF Store
<1>7. \A k \in DOMAIN trees : Found(trees[k].tree, Store')
  BY <1>6, FoundStill DEF Objects
<1>8. /\ private'.index # None => Found(private'.index, Store')
      /\ private'.base # None => Found(private'.base, Store')
  <2>1. CASE p.index = private.index /\ p.base = private.base
    BY <2>1, <1>3, <1>6, FoundStill DEF Objects
  <2>2. CASE repo.index # None /\ p.index = repo.index /\ p.base = repo.base
    BY <2>2, <1>3, <1>6, FoundStill DEF Objects
  <2> QED
    BY <1>4, <2>1, <2>2
<1> QED
  BY <1>5, <1>7, <1>8 DEF Objects, Found

LEMMA SnapshotObjects == Types /\ Stages /\ Objects /\ Snapshot => Objects'
<1> SUFFICES ASSUME Types, Stages, Objects, Snapshot PROVE Objects'
  OBVIOUS
<1>1. CASE Start \/ FilterOverrides
  BY <1>1, ObjectsKept DEF Start, FilterOverrides, Prepared, UserKeeps, Store
<1>2. CASE CopyIndex
  <2>1. /\ private'.index = repo.index /\ private'.base = repo.base
        /\ private'.objects = private.objects /\ UNCHANGED <<repo, trees>>
    BY <1>2 DEF CopyIndex, UserKeeps, Types, Privates
  <2>2. repo.objects \subseteq Store /\ Store' = Store
    BY <2>1 DEF Store
  <2>3. /\ private'.index # None => Found(private'.index, Store)
        /\ private'.base # None => Found(private'.base, Store)
    BY <2>1, <2>2, FoundStill DEF Objects
  <2> QED
    BY <2>1, <2>2, <2>3 DEF Objects, Found
<1>3. CASE ReadTree
  <2>1. /\ private'.index \in {repo.head, NoEntries} /\ private'.base = private.base
        /\ private'.objects = private.objects /\ UNCHANGED <<repo, trees>>
    BY <1>3 DEF ReadTree, UserKeeps, Types, Privates
  <2>2. repo.objects \subseteq Store /\ Store' = Store
    BY <2>1 DEF Store
  <2>3. Found(repo.head, Store) /\ Found(NoEntries, Store)
    BY <2>2, FoundStill DEF Objects, Found, NoEntries
  <2> QED
    BY <2>1, <2>2, <2>3 DEF Objects, Found
<1>4. CASE CopyShared
  <2>1. /\ private'.index = private.index /\ private'.base = private.base
        /\ private'.objects = private.objects /\ UNCHANGED <<repo, trees>>
    BY <1>4 DEF CopyShared, UserKeeps, Types, Privates
  <2> QED
    BY <2>1, ObjectsKept DEF Store
<1>5. CASE UpdateIndex
  <2>1. PICK kept \in IF private.torn THEN SUBSET Files ELSE {Files} :
          private' = [private EXCEPT
             !.index = [f \in Files |-> IF f \in kept THEN Whole[f] ELSE None],
             !.base = None, !.torn = FALSE, !.git = {}]
    BY <1>5 DEF UpdateIndex
  <2>2. /\ private'.index = [f \in Files |-> IF f \in kept THEN Whole[f] ELSE None]
        /\ private'.base = None
        /\ private'.objects = private.objects /\ UNCHANGED <<repo, trees>>
    BY <1>5, <2>1 DEF UpdateIndex, UserKeeps, Types, Privates
  <2>3. Found(Whole, Store)
    BY <1>5 DEF UpdateIndex, Whole, Expand, Objects, Found, Stages
  <2>4. Found(private'.index, Store) /\ Store' = Store
    BY <2>2, <2>3 DEF Found, Store
  <2> QED
    BY <2>2, <2>4 DEF Objects, Found
<1>6. CASE Add
  <2>1. PICK files \in SUBSET Readable : private' = Added(files)
    BY <1>6, AddDoes
  <2>2. /\ private'.index = [f \in Files |-> IF f \in files THEN Converted(work[f])
                                       ELSE IF f \in ToAdd THEN private.index[f] ELSE None]
        /\ private'.base = None
        /\ private'.objects = private.objects \cup Stored(files)
        /\ UNCHANGED <<repo, trees>>
    BY <1>6, <2>1 DEF Add, Added, UserKeeps, Types, Privates
  <2>3. Store \subseteq Store'
    BY <2>2 DEF Store
  <2>4. Found(private.index, Store)
    BY <1>6 DEF Add, Stages, Objects
  <2>5. Found(private'.index, Store')
    BY <2>2, <2>3, <2>4 DEF Found, Store, Stored
  <2>6. /\ \A k \in DOMAIN trees : Found(trees[k].tree, Store')
    BY <2>3, FoundStill DEF Objects
  <2> QED
    BY <2>2, <2>5, <2>6 DEF Objects, Found
<1>7. CASE WriteTree
  <2>1. trees' = Append(trees, [tree |-> private.index, due |-> hook.due]) /\ UNCHANGED <<repo, private>>
    BY <1>7, WholeByThen DEF WriteTree, UserKeeps
  <2>2. \A k \in DOMAIN trees' : (k \in DOMAIN trees /\ trees'[k] = trees[k]) \/ trees'[k].tree = private.index
    BY <2>1 DEF Types
  <2>3. Found(private.index, Store)
    BY <1>7 DEF WriteTree, Stages, Objects
  <2>4. \A k \in DOMAIN trees' : Found(trees'[k].tree, Store)
    BY <2>2, <2>3 DEF Objects
  <2> QED
    BY <2>1, <2>4 DEF Objects, Store, Found
<1>8. CASE Fail
  BY <1>8, EndObjects
<1> QED
  BY <1>1, <1>2, <1>3, <1>4, <1>5, <1>6, <1>7, <1>8 DEF Snapshot

LEMMA NextObjects == Types /\ Stages /\ Objects /\ [Next]_vars => Objects'
<1>1. Objects /\ UNCHANGED vars => Objects'
  BY DEF vars, Objects, Store, Found
<1> QED
  BY <1>1, UserObjects, SnapshotObjects DEF Next
----------------------------------------------------------------------------
(* Exact: no file but an excused one is mistaken                           *)

Exact ==
    /\ private.stale \subseteq excused
    /\ private.torn => excused = Files
    /\ private.index # None => \A f \in Files \ excused :
            (Expand(private.index, private.base)[f] # None) <=> f \in known
    /\ hook.pc = "add" => excused = Files \/ hook.overrides \/ repo.filter = {}
    /\ hook.pc = "write" => \A f \in Files \ excused : private.index[f] = hook.due[f]
    /\ TreeIsWorkTree

LEMMA InitExact == Init => Exact
BY SnapshotAssumption DEF Init, EmptyDirectory, Idle, Exact, TreeIsWorkTree

LEMMA UserExact == Types /\ Exact /\ UserStep => Exact'
<1> SUFFICES ASSUME Types, Exact, UserStep PROVE Exact'
  OBVIOUS
<1>1. UNCHANGED <<hook, trees, known>>
  BY DEF UserStep, Stage, Edit, StageThenEdit, Ignore, Split, Configure, User
<1>2. /\ private'.stale \subseteq private.stale
      /\ UNCHANGED <<private.torn, private.index, private.base>>
  BY DEF UserStep, Stage, Edit, StageThenEdit, Ignore, Split, Configure, Types, Privates
<1>3. excused \subseteq excused' /\ excused' \subseteq Files
  BY DEF UserStep, Stage, Edit, StageThenEdit, Ignore, Split, Configure, Types
<1>4. hook.pc = "add" => repo'.filter = repo.filter \/ excused' = Files
  <2>1. ASSUME NEW f \in Files PROVE Staged(f).filter = repo.filter
    BY DEF Staged, Types, Repos
  <2>2. ASSUME NEW f \in Files, Stage(f) PROVE repo'.filter = repo.filter
    BY <2>1, <2>2 DEF Stage
  <2>3. ASSUME NEW f \in Files, NEW b, StageThenEdit(f, b) PROVE repo'.filter = repo.filter
    BY <2>1, <2>3, StagedType DEF StageThenEdit, Repos
  <2>4. ASSUME NEW f \in Files, NEW b, Edit(f, b) PROVE repo'.filter = repo.filter
    BY <2>4 DEF Edit, Types, Repos
  <2>5. ASSUME NEW f \in Ignorable, Ignore(f) PROVE repo'.filter = repo.filter
    BY <2>5 DEF Ignore
  <2>6. CASE Split
    BY <2>6 DEF Split, Types, Repos
  <2>7. ASSUME NEW keys \in SUBSET FilterKeys, Configure(keys), hook.pc = "add" PROVE excused' = Files
    BY <2>7 DEF Configure
  <2> QED
    BY <2>2, <2>3, <2>4, <2>5, <2>6, <2>7 DEF UserStep
<1>5. hook'.pc = "add" => excused' = Files \/ hook'.overrides \/ repo'.filter = {}
  BY <1>1, <1>3, <1>4 DEF Exact
<1>6. /\ private'.stale \subseteq excused'
      /\ private'.torn => excused' = Files
      /\ hook'.pc = "write" => \A f \in Files \ excused' : private'.index[f] = hook'.due[f]
      /\ TreeIsWorkTree'
  BY <1>1, <1>2, <1>3 DEF Exact, TreeIsWorkTree
<1>7. private'.index # None => \A f \in Files \ excused' :
            (Expand(private'.index, private'.base)[f] # None) <=> f \in known'
  BY <1>1, <1>2, <1>3 DEF Exact, Expand
<1> QED
  BY <1>5, <1>6, <1>7 DEF Exact, Expand

LEMMA EndExact == Types /\ Exact /\ Fail => Exact'
<1> SUFFICES ASSUME Types, Exact, Fail PROVE Exact'
  OBVIOUS
<1>1. PICK p \in Interrupted :
        /\ private' = p \/ private' = [p EXCEPT !.git = {}]
        /\ known' = IF p.torn /\ ~private.torn THEN {f \in Files : RealEntries[f] # None} ELSE known
        /\ excused' = IF p.torn THEN Files ELSE excused
  BY DEF Fail, Ended, Interrupted
<1>2. p \in Privates
  BY InterruptedType
<1>3. /\ private'.index = p.index /\ private'.base = p.base
      /\ private'.torn = p.torn /\ private'.stale = p.stale
  BY <1>1, <1>2 DEF Privates
<1>4. UNCHANGED trees /\ hook'.pc = "idle"
  BY DEF Fail, Idle
<1>4a. p.stale = private.stale /\ private.stale \subseteq Files
  BY InterruptedKeeps DEF Types, Privates
<1>5. CASE p.torn
  BY <1>1, <1>3, <1>4, <1>4a, <1>5 DEF Exact, TreeIsWorkTree
<1>6. CASE ~p.torn
  <2>1. p.index = private.index /\ p.base = private.base
    BY <1>6, InterruptedKeeps
  <2>2. UNCHANGED <<known, excused>>
    BY <1>1, <1>6
  <2>3. private'.index # None => \A f \in Files \ excused' :
            (Expand(private'.index, private'.base)[f] # None) <=> f \in known'
    BY <1>3, <2>1, <2>2 DEF Exact, Expand
  <2> QED
    BY <1>3, <1>4, <1>4a, <1>6, <2>1, <2>2, <2>3 DEF Exact, TreeIsWorkTree, Expand
<1> QED
  BY <1>5, <1>6

LEMMA AddExact == Types /\ Stages /\ Exact /\ Add => Exact'
<1> SUFFICES ASSUME Types, Stages, Exact, Add PROVE Exact'
  OBVIOUS
<1>1. PICK files \in SUBSET Readable : Unsure \subseteq files /\ private' = Added(files)
  BY AddDoes
<1>2. /\ private'.index = [f \in Files |-> IF f \in files THEN Converted(work[f])
                                     ELSE IF f \in ToAdd THEN private.index[f] ELSE None]
      /\ UNCHANGED <<private.stale, private.torn>>
  BY <1>1 DEF Added, Types, Privates
<1>3. /\ known' = {f \in Files : work[f] # None /\ (f \in known \/ f \notin ignored)}
      /\ hook'.pc = "write"
      /\ hook'.due = [f \in Files |-> IF f \in known' THEN work[f] ELSE None]
      /\ UNCHANGED <<trees, excused>>
  BY DEF Add, Types, Hooks
<1>4. private.index \in [Files -> TreeEntry] /\ private.index # None /\ Whole = private.index
  BY WholeByThen DEF Add, Stages
<1>5. ASSUME NEW f \in Files \ excused
      PROVE  private'.index[f] = hook'.due[f] /\ (private'.index[f] # None <=> f \in known')
  <2>1. Converted(work[f]) = work[f]
    BY DEF Add, Exact, Converted
  <2>2. private.index[f] # None <=> f \in known
    BY <1>4, WholeIndex DEF Exact
  <2>3. f \in ToAdd <=> f \in known'
    BY <1>3, <1>4, <2>2 DEF ToAdd
  <2>4. f \in ToAdd => f \in Readable
    BY DEF Readable, Exact
  <2>5. f \in ToAdd => private'.index[f] = work[f] /\ work[f] # None
    BY <1>1, <1>2, <1>4, <2>1, <2>4 DEF Unsure, ToAdd
  <2>6. f \notin ToAdd => private'.index[f] = None
    BY <1>1, <1>2 DEF Readable
  <2> QED
    BY <1>3, <2>3, <2>5, <2>6
<1>6. \A f \in Files : Converted(work[f]) = work[f] \/ excused = Files
  BY DEF Add, Exact, Converted
<1>7. \A f \in files : f \in Files /\ Converted(work[f]) \in TreeEntry
  BY <1>1, ConvertedType DEF Readable, ToAdd, TreeEntry
<1>8. private'.index \in [Files -> TreeEntry]
  BY <1>2, <1>4, <1>7 DEF TreeEntry
<1>9. \A f \in Files \ excused' :
            (Expand(private'.index, private'.base)[f] # None) <=> f \in known'
  BY <1>3, <1>5, <1>8, WholeIndex
<1> QED
  BY <1>2, <1>3, <1>5, <1>9 DEF Exact, TreeIsWorkTree, Expand

LEMMA SnapshotExact == Types /\ Stages /\ Exact /\ Snapshot => Exact'
<1> SUFFICES ASSUME Types, Stages, Exact, Snapshot PROVE Exact'
  OBVIOUS
<1>1. CASE Start
  <2>1. UNCHANGED <<private, repo, trees, known, excused>> /\ hook'.pc \in {"index", "prepare"}
    BY <1>1 DEF Start, Prepared, FirstStep, Goto, UserKeeps, ghosts, Types, Hooks
  <2> QED
    BY <2>1 DEF Exact, TreeIsWorkTree, Expand
<1>2. CASE CopyIndex
  <2>1. /\ private'.index = repo.index /\ private'.base = repo.base
        /\ private'.stale = repo.racy /\ private'.torn = private.torn
        /\ known' = {f \in Files : RealEntries[f] # None}
        /\ excused' = excused \cup repo.racy /\ repo.racy \subseteq Files /\ excused \subseteq Files
        /\ hook'.pc = "prepare" /\ UNCHANGED trees
    BY <1>2 DEF CopyIndex, TakenOver, Goto, Types, Privates, Hooks, Repos
  <2>2. Expand(private'.index, private'.base) = RealEntries
    BY <1>2, <2>1 DEF CopyIndex, RealEntries, Expand
  <2> QED
    BY <2>1, <2>2 DEF Exact, TreeIsWorkTree, Expand
<1>3. CASE ReadTree
  <2>1. PICK entries \in Whence :
          /\ private' = [private EXCEPT !.index = entries]
          /\ known' = {f \in Files : repo.head[f] # None}
          /\ excused' = IF entries = repo.head THEN excused ELSE Files
    BY <1>3, NoEntriesType DEF ReadTree, Types, Repos
  <2>2. /\ private'.index = entries
        /\ UNCHANGED <<private.base, private.stale, private.torn>>
        /\ excused \subseteq Files /\ private.stale \subseteq Files
        /\ hook'.pc = "prepare" /\ UNCHANGED trees
    BY <1>3, <2>1 DEF ReadTree, Goto, Types, Privates, Hooks
  <2>3. Expand(entries, private'.base) = entries
    BY WholeIndex DEF Whence, Entry, TreeEntry
  <2> QED
    BY <2>1, <2>2, <2>3 DEF Exact, TreeIsWorkTree, Expand
<1>4. CASE CopyShared
  <2>1. /\ UNCHANGED <<private.index, private.base, private.stale, private.torn, trees, known, excused>>
        /\ hook'.pc = "update-index"
    BY <1>4 DEF CopyShared, Goto, ghosts, Types, Privates, Hooks
  <2> QED
    BY <2>1 DEF Exact, TreeIsWorkTree, Expand
<1>5. CASE UpdateIndex
  <2>1. PICK kept \in IF private.torn THEN SUBSET Files ELSE {Files} :
          private' = [private EXCEPT
             !.index = [f \in Files |-> IF f \in kept THEN Whole[f] ELSE None],
             !.base = None, !.torn = FALSE, !.git = {}]
    BY <1>5 DEF UpdateIndex
  <2>2. /\ private'.index = [f \in Files |-> IF f \in kept THEN Whole[f] ELSE None]
        /\ private'.torn = FALSE /\ UNCHANGED <<private.stale, trees, known, excused>>
        /\ hook'.pc = "filters" /\ private.index # None
    BY <1>5, <2>1 DEF UpdateIndex, Goto, ghosts, Types, Privates, Hooks, Stages
  <2>3. Whole \in [Files -> TreeEntry]
    BY <2>2, WholeType
  <2>4. private'.index \in [Files -> TreeEntry]
    BY <2>2, <2>3 DEF TreeEntry
  <2>5. Expand(private'.index, private'.base) = private'.index
    BY <2>4, WholeIndex
  <2>6. \A f \in Files \ excused : kept = Files /\ (Whole[f] # None <=> f \in known)
    BY <2>1, <2>2 DEF Exact, Whole
  <2> QED
    BY <2>2, <2>5, <2>6 DEF Exact, TreeIsWorkTree, Expand
<1>6. CASE FilterOverrides
  <2>1. /\ UNCHANGED <<private, repo, trees, known, excused>>
        /\ hook'.pc = "add" /\ hook'.overrides = (repo.filter # {})
    BY <1>6 DEF FilterOverrides, Overrides, UserKeeps, ghosts, Types, Hooks
  <2> QED
    BY <2>1 DEF Exact, TreeIsWorkTree, Expand
<1>7. CASE Add
  BY <1>7, AddExact
<1>8. CASE WriteTree
  <2>1. /\ trees' = Append(trees, [tree |-> private.index, due |-> hook.due])
        /\ UNCHANGED <<private, known, excused>> /\ hook'.pc = "idle" /\ hook.pc = "write"
    BY <1>8, WholeByThen DEF WriteTree, Idle, ghosts
  <2>2. \A k \in DOMAIN trees' : \/ k \in DOMAIN trees /\ trees'[k] = trees[k]
                                 \/ trees'[k] = [tree |-> private.index, due |-> hook.due]
    BY <2>1 DEF Types
  <2>3. TreeIsWorkTree'
    BY <2>1, <2>2 DEF Exact, TreeIsWorkTree
  <2> QED
    BY <2>1, <2>3 DEF Exact, Expand
<1>9. CASE Fail
  BY <1>9, EndExact
<1> QED
  BY <1>1, <1>2, <1>3, <1>4, <1>5, <1>6, <1>7, <1>8, <1>9 DEF Snapshot

LEMMA NextExact == Types /\ Stages /\ Exact /\ [Next]_vars => Exact'
<1>1. Exact /\ UNCHANGED vars => Exact'
  BY DEF vars, Exact, TreeIsWorkTree, Expand
<1> QED
  BY <1>1, UserExact, SnapshotExact DEF Next
----------------------------------------------------------------------------
(* Steady: what has not changed is due in every tree alike                 *)

DueOf(f) == IF f \in known THEN work[f] ELSE None
Settled(f) == IF f \in known THEN work[f] # None ELSE work[f] = None \/ f \in ignored

Steady ==
    /\ trees # <<>> \/ hook.pc = "write" => \A f \in Files \ changed : Settled(f)
    /\ \A f \in Files \ changed, k \in DOMAIN trees : trees[k].due[f] = DueOf(f)
    /\ hook.pc = "write" => \A f \in Files \ changed : hook.due[f] = DueOf(f)

LEMMA InitSteady == Init => Steady
BY DEF Init, Idle, Steady

LEMMA UserSteady == Types /\ Steady /\ UserStep => Steady'
<1> SUFFICES ASSUME Types, Steady, UserStep PROVE Steady'
  OBVIOUS
<1>1. UNCHANGED <<hook, trees, known>>
  BY DEF UserStep, Stage, Edit, StageThenEdit, Ignore, Split, Configure, User
<1>2. \A f \in Files \ changed' :
         \/ f \notin changed /\ work'[f] = work[f] /\ (f \in ignored' <=> f \in ignored)
         \/ trees = <<>> /\ hook.pc # "write"
  <2>1. ASSUME NEW f \in Files, Stage(f) PROVE UNCHANGED <<work, ignored, changed>>
    BY <2>1 DEF Stage
  <2>2. ASSUME NEW f \in Files, NEW b, Edit(f, b) \/ StageThenEdit(f, b)
        PROVE  /\ \A g \in Files \ {f} : work'[g] = work[g] /\ UNCHANGED ignored
               /\ changed' = IF trees # <<>> \/ hook.pc = "write" THEN changed \cup {f} ELSE {}
    BY <2>2 DEF Edit, StageThenEdit, Changed, Types, Whence
  <2>3. ASSUME NEW f \in Ignorable, Ignore(f)
        PROVE  /\ \A g \in Files \ {f} : UNCHANGED work /\ (g \in ignored' <=> g \in ignored)
               /\ changed' = IF trees # <<>> \/ hook.pc = "write" THEN changed \cup {f} ELSE {}
    BY <2>3 DEF Ignore, Changed
  <2>4. CASE Split \/ \E keys \in SUBSET FilterKeys : Configure(keys)
    BY <2>4 DEF Split, Configure
  <2> QED
    BY <2>1, <2>2, <2>3, <2>4 DEF UserStep
<1> QED
  BY <1>1, <1>2 DEF Steady, Settled, DueOf

\* The index is taken over before the first tree.
LEMMA SteadyBefore == ASSUME trees' = <<>>, hook'.pc # "write" PROVE Steady'
BY DEF Steady

LEMMA SteadyStill ==
  ASSUME Steady, UNCHANGED <<work, ignored, trees, known, changed>>, hook'.pc # "write"
  PROVE  Steady'
BY DEF Steady, Settled, DueOf

LEMMA EndSteady == Types /\ Stages /\ Steady /\ Fail => Steady'
<1> SUFFICES ASSUME Types, Stages, Steady, Fail PROVE Steady'
  OBVIOUS
<1>1. PICK p \in Interrupted :
        known' = IF p.torn /\ ~private.torn THEN {f \in Files : RealEntries[f] # None} ELSE known
  BY DEF Fail, Ended, Interrupted
<1>2. UNCHANGED <<work, ignored, trees, changed>> /\ hook'.pc # "write"
  BY DEF Fail, UserKeeps, Idle
<1>3. CASE hook.pc = "index"
  <2>1. trees = <<>>
    BY <1>3 DEF Stages
  <2> QED
    BY <1>2, <2>1, SteadyBefore
<1>4. CASE hook.pc # "index"
  <2>1. p.torn = private.torn
    BY <1>4, InterruptedKeeps
  <2>2. UNCHANGED known
    BY <1>1, <2>1
  <2> QED
    BY <1>2, <2>2, SteadyStill
<1> QED
  BY <1>3, <1>4

LEMMA SnapshotSteady == Types /\ Stages /\ Steady /\ Snapshot => Steady'
<1> SUFFICES ASSUME Types, Stages, Steady, Snapshot PROVE Steady'
  OBVIOUS
<1>1. CASE Start \/ CopyShared \/ UpdateIndex \/ FilterOverrides
  <2>1. UNCHANGED <<work, ignored, trees, known, changed>>
    BY <1>1 DEF Start, CopyShared, UpdateIndex, FilterOverrides, UserKeeps, ghosts
  <2>2. hook'.pc # "write"
    BY <1>1 DEF Start, FirstStep, CopyShared, UpdateIndex, FilterOverrides, Goto, Types, Hooks
  <2> QED
    BY <2>1, <2>2, SteadyStill
<1>2. CASE CopyIndex \/ ReadTree
  <2>1. trees' = <<>>
    BY <1>2 DEF CopyIndex, ReadTree, Stages
  <2>2. hook'.pc # "write"
    BY <1>2 DEF CopyIndex, ReadTree, Goto, Types, Hooks
  <2> QED
    BY <2>1, <2>2, SteadyBefore
<1>3. CASE Add
  <2>1. /\ known' = {f \in Files : work[f] # None /\ (f \in known \/ f \notin ignored)}
        /\ hook'.due = [f \in Files |-> IF f \in known' THEN work[f] ELSE None]
        /\ changed' = IF trees = <<>> THEN {} ELSE changed
        /\ UNCHANGED <<work, ignored, trees>>
    BY <1>3 DEF Add, UserKeeps, Types, Hooks
  <2>2. \A f \in Files : Settled(f)'
    BY <2>1 DEF Settled
  <2>3. \A f \in Files \ changed', k \in DOMAIN trees : f \in known' <=> f \in known
    BY <2>1 DEF Steady, Settled
  <2> QED
    BY <2>1, <2>2, <2>3 DEF Steady, DueOf
<1>4. CASE WriteTree
  <2>1. /\ trees' = Append(trees, [tree |-> private.index, due |-> hook.due])
        /\ UNCHANGED <<work, ignored, known, changed>>
        /\ hook.pc = "write" /\ hook'.pc # "write"
    BY <1>4, WholeByThen DEF WriteTree, UserKeeps, Idle, ghosts
  <2>2. \A k \in DOMAIN trees' : \/ k \in DOMAIN trees /\ trees'[k] = trees[k]
                                 \/ trees'[k] = [tree |-> private.index, due |-> hook.due]
    BY <2>1 DEF Types
  <2>3. \A f \in Files \ changed, k \in DOMAIN trees' : trees'[k].due[f] = DueOf(f)
    BY <2>1, <2>2 DEF Steady
  <2> QED
    BY <2>1, <2>3 DEF Steady, Settled, DueOf
<1>5. CASE Fail
  BY <1>5, EndSteady
<1> QED
  BY <1>1, <1>2, <1>3, <1>4, <1>5 DEF Snapshot

LEMMA NextSteady == Types /\ Stages /\ Steady /\ [Next]_vars => Steady'
<1>1. Steady /\ UNCHANGED vars => Steady'
  BY DEF vars, Steady, Settled, DueOf
<1> QED
  BY <1>1, UserSteady, SnapshotSteady DEF Next

----------------------------------------------------------------------------
(* What the snapshots promise                                              *)

SnapshotInv == Types /\ Stages /\ Objects /\ Exact /\ Steady

LEMMA SnapshotInvariant == Spec => []SnapshotInv
<1>1. Init => SnapshotInv
  BY InitTypes, InitObjects, InitExact, InitSteady DEF SnapshotInv
<1>2. SnapshotInv /\ [Next]_vars => SnapshotInv'
  BY NextTypes, NextObjects, NextExact, NextSteady DEF SnapshotInv
<1> QED
  BY <1>1, <1>2, PTL DEF Spec

\* The private index is whole whenever a tree is made of it, and a tree holds
\* contents and nothing else: expandIndex and the order of Repo.Snapshot.
THEOREM TreesWellFormed == Spec => []TypeOK
<1>1. SnapshotInv => TypeOK
  <2> SUFFICES ASSUME SnapshotInv PROVE TypeOK
    OBVIOUS
  <2>1. \A k \in DOMAIN trees : trees[k] \in Records
    BY DEF SnapshotInv, Types
  <2>2. private.index \in {None} \cup [Files -> Blobs \cup {None, Shared, Filtered}]
    BY DEF SnapshotInv, Types, Privates, PrivateIndexes, TreeEntry
  <2> QED
    BY <2>1, <2>2 DEF SnapshotInv, Types, Stages, Records, Whence, Entry, TreeEntry, Trees, TypeOK
<1> QED
  BY <1>1, SnapshotInvariant, PTL

\* A snapshot of Repo.Snapshot holds what was due of every file that is not
\* excused, whatever failures, kills and steps of the user came before.
THEOREM SnapshotsFaithful == Spec => []TreeIsWorkTree
<1>1. SnapshotInv => TreeIsWorkTree
  BY DEF SnapshotInv, Exact
<1> QED
  BY <1>1, SnapshotInvariant, PTL

\* All trees of one private directory agree on what has not changed since the
\* first: the diff of a turn shows nothing that is older than the turn.
THEOREM SnapshotsComparable == Spec => []UnchangedStaysOut
<1>1. SnapshotInv => UnchangedStaysOut
  <2> SUFFICES ASSUME SnapshotInv, NEW k \in DOMAIN trees, NEW f \in Files \ (changed \cup excused)
               PROVE  trees[k].tree[f] = trees[1].tree[f]
    BY DEF UnchangedStaysOut
  <2>1. 1 \in DOMAIN trees
    BY DEF SnapshotInv, Types
  <2>2. trees[k].tree[f] = trees[k].due[f] /\ trees[1].tree[f] = trees[1].due[f]
    BY <2>1 DEF SnapshotInv, Exact, TreeIsWorkTree
  <2>3. trees[k].due[f] = trees[1].due[f]
    BY <2>1 DEF SnapshotInv, Steady
  <2> QED
    BY <2>2, <2>3
<1> QED
  BY <1>1, SnapshotInvariant, PTL

\* Every object of a returned tree is where Diff looks for it, for as long as
\* the private directory is there.
THEOREM SnapshotsReadable == Spec => []TreeReadable
<1>1. SnapshotInv => TreeReadable
  BY DEF SnapshotInv, Objects, Found, Store, Contents, TreeReadable
<1> QED
  BY <1>1, SnapshotInvariant, PTL

\* None is no shared index.
LEMMA NothingRefreshed ==
  ASSUME Types, Stages, hook.pc \in {"update-index", "add", "write"}, NEW new,
         hook.pc = "update-index" => new = {}
  PROVE  Refreshed(new) = {}
<1>1. CASE hook.pc = "update-index"
  BY <1>1 DEF Refreshed, OwnGitDir
<1>2. CASE hook.pc \in {"add", "write"}
  <2>1. private.base = None /\ None \notin repo.shared
    BY <1>2, NoneIsNoIndex DEF Stages, Types, Repos
  <2>2. RealObjects(hook.pc) = {}
    BY <1>2 DEF RealObjects, Alternate
  <2> QED
    BY <1>2, <2>1, <2>2 DEF Refreshed, OwnGitDir
<1> QED
  BY <1>1, <1>2

\* No command of Repo.Snapshot gives a real object or shared index a new time, whatever
\* interrupted the attempts before it: writeCommand hides the real store, and
\* expandIndex has made the private index whole, with a Git directory of its own,
\* before a command sees it that has the real shared indexes in sight.
THEOREM SnapshotsOnlyRead == Spec => []RealUntouched
<1>1. Init => RealUntouched
  BY DEF Init, RealUntouched
<1>2. SnapshotInv /\ RealUntouched /\ [Next]_vars => RealUntouched'
  <2> SUFFICES ASSUME Types, Stages, RealUntouched, [Next]_vars PROVE RealUntouched'
    BY DEF SnapshotInv
  <2>1. CASE UNCHANGED vars
    BY <2>1 DEF vars, RealUntouched
  <2>2. CASE UserStep
    <3>1. User
      BY <2>2, Zenon DEF UserStep, Stage, Edit, StageThenEdit, Ignore, Split, Configure
    <3>2. QED
      BY <3>1 DEF User, RealUntouched
  <2>3. CASE UpdateIndex
    BY <2>3, NothingRefreshed DEF UpdateIndex, RealUntouched
  <2>4. CASE Add
    <3>1. hook.pc = "add" /\ \E new : touched' = touched \cup Refreshed(new)
      BY <2>4, Zenon DEF Add
    <3>2. QED
      BY <3>1, NothingRefreshed DEF RealUntouched
  <2>5. CASE WriteTree
    BY <2>5, NothingRefreshed DEF WriteTree, RealUntouched
  <2>6. CASE Fail
    <3>1. touched' = {}
      BY <2>6, NothingRefreshed DEF Fail, MayRefresh, RealUntouched
    <3>2. QED
      BY <3>1 DEF RealUntouched
  <2>7. CASE Start \/ CopyIndex \/ ReadTree \/ CopyShared \/ FilterOverrides
    BY <2>7 DEF Start, CopyIndex, ReadTree, CopyShared, FilterOverrides, RealUntouched
  <2>8. QED
    BY <2>1, <2>2, <2>3, <2>4, <2>5, <2>6, <2>7 DEF Next, Snapshot
<1> QED
  BY <1>1, <1>2, SnapshotInvariant, PTL DEF Spec
================================================================================
