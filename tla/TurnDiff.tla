-------------------------------- MODULE TurnDiff -------------------------------
(***************************************************************************)
(* What a Stop makes of the two trees of a turn: gitstate.Repo.Diff runs   *)
(* Git three times and joins the three outputs by position and by name,    *)
(* diff.Prepare selects, orders, redacts and bounds the outcome.           *)
(*                                                                         *)
(* A path is its position in PathList, which holds the paths of both trees *)
(* in bytewise order; 0 is the empty path.  Git's three outputs are        *)
(* external: they are as git-diff documents them, whole or discarded.      *)
(***************************************************************************)
EXTENDS Naturals, FiniteSets, SequencesExt

CONSTANTS
    PathList,     \* each path as the sequence of its components
    Labels,       \* each path as redaction leaves it
    Exclude,      \* the exclude setting: [parts, below] per pattern
    PrivateDirs,  \* component names that exclude whatever is below them
    BuildInputs,  \* base names that are kept though they look like documents
    Documents,    \* base names of documents, lock files, generated files
    MaxBytes,     \* the maxDiffBytes setting
    MaxChanges    \* bound: differences between the trees

ASSUME DiffAssumption ==
    /\ PathList \in Seq(Seq(STRING) \ {<<>>})
    /\ Labels \in Seq(STRING) /\ Len(Labels) = Len(PathList)
    /\ \A pattern \in Exclude : pattern.parts \in Seq(STRING) \ {<<>>}
    /\ MaxBytes \in Nat /\ MaxChanges \in Nat

VARIABLES
    tree,     \* the differences between the trees, in the order Git lists them
    pc,
    changes,  \* what --name-status listed, then with the patches
    binary,   \* what --numstat listed
    result,
    faulted   \* ghost: a Git command failed or was cancelled, or exceeded its limit

vars == <<tree, pc, changes, binary, result, faulted>>

Paths == DOMAIN PathList
NoPath == 0

\* One difference.  M stands for A, D and M, which are treated alike; T is a
\* file that became a link or a submodule, or the reverse.
Differences ==
    [path : Paths, old : {NoPath}, status : {"M", "T"}, body : {"plain", "secret", "binary"}]
    \cup {d \in [path : Paths, old : Paths, status : {"R"}, body : {"plain", "secret", "binary"}] :
            d.old # d.path}

\* Each path of a tree is touched by one difference.
Turns == {t \in UNION {[1..n -> Differences] : n \in 0..MaxChanges} :
            \A i, j \in DOMAIN t :
               /\ t[i].old # t[j].path
               /\ i # j => t[i].path # t[j].path /\ (t[i].old = NoPath \/ t[i].old # t[j].old)}

----------------------------------------------------------------------------
\* Git's outputs, entry by entry

NameStatus(d) ==
    IF d.status = "R" THEN <<[status |-> "R", name |-> NoPath], [status |-> "", name |-> d.old],
                             [status |-> "", name |-> d.path]>>
    ELSE <<[status |-> d.status, name |-> NoPath], [status |-> "", name |-> d.path]>>

Numstat(d) ==
    LET lines == IF d.body = "binary" THEN "-" ELSE "n"
    IN  IF d.status = "R" THEN <<[lines |-> lines, name |-> NoPath], [lines |-> "", name |-> d.old],
                                 [lines |-> "", name |-> d.path]>>
        ELSE <<[lines |-> lines, name |-> d.path]>>

\* A change of type is printed as a deletion and a creation.
Sections(d) ==
    [k \in 1..(IF d.status = "T" THEN 2 ELSE 1) |-> [path |-> d.path, body |-> d.body]]

Output(Entry(_)) == FlattenSeq([k \in DOMAIN tree |-> Entry(tree[k])])

----------------------------------------------------------------------------
\* gitstate.Diff

\* A reader: the part it is at and what it has listed, unless it gave up.
Reader(at, listed) == [ok |-> TRUE, at |-> at, listed |-> listed]
Refused == [ok |-> FALSE, at |-> 0, listed |-> <<>>]

\* Variant: the last part of an output is taken for the empty one after it.
FitsBefore(i, parts) == i < Len(parts)

\* Whether part i is there, before the empty one that ends the output.
Fits(i, parts) == i <= Len(parts)

\* One pass of the loop of parseNames.
ReadName(parts, s) ==
    LET renamed == parts[s.at].status \in {"R", "C"}
        last == IF renamed THEN s.at + 2 ELSE s.at + 1
    IN  IF ~s.ok \/ s.at > Len(parts) THEN s
        ELSE IF ~Fits(last, parts) THEN Refused
        ELSE Reader(last + 1,
                    Append(s.listed, [path |-> parts[last].name,
                                      old |-> IF renamed THEN parts[s.at + 1].name ELSE NoPath,
                                      status |-> parts[s.at].status,
                                      binary |-> FALSE, patch |-> <<>>]))

ParseNames(parts) ==
    LET after[n \in 0..Len(parts)] ==
          IF n = 0 THEN Reader(1, <<>>) ELSE ReadName(parts, after[n - 1])
    IN  after[Len(parts)]

\* Variants: a rename is listed under the empty name, or under its old one.
NumstatEmptyName(i, parts) == parts[i].name
NumstatOldName(i, parts) ==
    IF parts[i].name = NoPath THEN parts[i + 1].name ELSE parts[i].name

\* The new name comes two parts after the empty one of a rename.
NumstatName(i, parts) ==
    IF parts[i].name = NoPath THEN parts[i + 2].name ELSE parts[i].name

\* One pass of the loop of parseNumstat.
ReadLines(parts, s) ==
    LET last == IF parts[s.at].name = NoPath THEN s.at + 2 ELSE s.at
    IN  IF ~s.ok \/ s.at > Len(parts) THEN s
        ELSE IF parts[s.at].lines = "" \/ ~Fits(last, parts) THEN Refused
        ELSE Reader(last + 1,
                    s.listed \cup {[name |-> NumstatName(s.at, parts),
                                    binary |-> parts[s.at].lines = "-"]})

ParseNumstat(parts) ==
    LET after[n \in 0..Len(parts)] ==
          IF n = 0 THEN Reader(1, {}) ELSE ReadLines(parts, after[n - 1])
    IN  after[Len(parts)]

\* sort.Slice, of changes that differ in their paths.
ByPath(cs) ==
    CHOOSE s \in [1..Cardinality(cs) -> cs] :
        \A i, j \in DOMAIN s : i < j => s[i].path < s[j].path

\* The patches take the changes in the order in which both were printed.
WithPatches(sections) ==
    [k \in DOMAIN changes |->
       IF [name |-> changes[k].path, binary |-> TRUE] \in binary
       THEN [changes[k] EXCEPT !.binary = TRUE]
       ELSE [changes[k] EXCEPT !.patch = <<sections[k]>>]]

----------------------------------------------------------------------------
\* diff.Prepare

\* path.Match, with components taken as a whole.
Glob(parts, file) ==
    Len(parts) = Len(file) /\ \A k \in DOMAIN parts : parts[k] \in {"*", file[k]}

\* Variant: a final /** covers only what is directly below.
MatchDirect(pattern, file) ==
    IF pattern.below THEN Len(file) > 1 /\ Glob(pattern.parts, Front(file))
    ELSE Glob(pattern.parts, file)

Match(pattern, file) ==
    IF pattern.below THEN \E n \in DOMAIN file : Glob(pattern.parts, SubSeq(file, 1, n))
    ELSE Glob(pattern.parts, file)

Included(p) ==
    LET file == PathList[p]
    IN  /\ \A pattern \in Exclude : ~Match(pattern, file)
        /\ ToSet(file) \cap PrivateDirs = {}
        /\ Last(file) \in BuildInputs \/ Last(file) \notin Documents

\* Variant: only the new name of a rename is looked at.
KeptByNewName(c) == Included(c.path) /\ (c.binary \/ c.patch # <<>>)

Kept(c) ==
    /\ Included(c.path)
    /\ c.old # NoPath => Included(c.old)
    /\ c.binary \/ c.patch # <<>>

Redacted(body) == IF body = "secret" THEN "redacted" ELSE body

Body(c) ==
    IF c.binary THEN [meta |-> TRUE, path |-> c.path, old |-> c.old, body |-> c.status]
    ELSE [meta |-> FALSE, path |-> c.patch[1].path, old |-> NoPath,
          body |-> Redacted(c.patch[1].body)]

\* The length of the canonical JSON, in units: a file name and a body are one each,
\* and a body that was not redacted is three.
Total(bodies, files) ==
    Cardinality(files) + Len(bodies)
        + 2 * Cardinality({k \in DOMAIN bodies : bodies[k].body \in {"secret", "binary"}})

Outcome(class, files, bodies) == [class |-> class, files |-> files, bodies |-> bodies]

\* The changes in the order of their paths, without those that are not kept.
Prepare(cs) ==
    LET kept == ByPath({c \in ToSet(cs) : Kept(c)})
        bodies == [k \in DOMAIN kept |-> Body(kept[k])]
        files == {Labels[p] : p \in (UNION {{c.path, c.old} : c \in ToSet(kept)}) \ {NoPath}}
    IN  IF files = {} THEN Outcome("empty", {}, <<>>)
        ELSE IF Total(bodies, files) > MaxBytes THEN Outcome("diff_too_large", {}, <<>>)
        ELSE Outcome("prepared", files, bodies)

----------------------------------------------------------------------------
Init ==
    /\ tree \in Turns
    /\ pc = "names"
    /\ changes = <<>> /\ binary = {}
    /\ result = Outcome("pending", {}, <<>>)
    /\ faulted = FALSE

Finish(outcome) == pc' = "done" /\ result' = outcome

\* boundedOutput: the output of any of the commands is discarded when the command
\* fails, is cancelled, or writes more than the raw limit.
Fault(class) ==
    /\ pc \in {"names", "numstat", "patch"}
    /\ Finish(Outcome(class, {}, <<>>))
    /\ faulted' = TRUE
    /\ UNCHANGED <<tree, changes, binary>>

ListNames ==
    /\ pc = "names"
    /\ LET read == ParseNames(Output(NameStatus))
       IN  IF ~read.ok
           THEN Finish(Outcome("diff", {}, <<>>)) /\ UNCHANGED changes
           ELSE /\ changes' = read.listed
                /\ pc' = IF read.listed = <<>> THEN "prepare" ELSE "numstat"
                /\ UNCHANGED result
    /\ UNCHANGED <<tree, binary, faulted>>

ListBinaries ==
    /\ pc = "numstat"
    /\ LET read == ParseNumstat(Output(Numstat))
       IN  IF ~read.ok
           THEN Finish(Outcome("diff", {}, <<>>)) /\ UNCHANGED binary
           ELSE binary' = read.listed /\ pc' = "patch" /\ UNCHANGED result
    /\ UNCHANGED <<tree, changes, faulted>>

ListPatches ==
    /\ pc = "patch"
    /\ LET sections == Output(Sections)
       IN  IF Len(sections) # Len(changes)
           THEN Finish(Outcome("diff", {}, <<>>)) /\ UNCHANGED changes
           ELSE /\ changes' = ByPath(ToSet(WithPatches(sections)))
                /\ pc' = "prepare"
                /\ UNCHANGED result
    /\ UNCHANGED <<tree, binary, faulted>>

Select ==
    /\ pc = "prepare"
    /\ Finish(Prepare(changes))
    /\ UNCHANGED <<tree, changes, binary, faulted>>

Next ==
    \/ ListNames \/ ListBinaries \/ ListPatches \/ Select
    \/ \E class \in {"diff", "diff_too_large"} : Fault(class)

Spec == Init /\ [][Next]_vars

----------------------------------------------------------------------------
\* gitstate.Change and diff.Result hold paths of the trees only, and the list of
\* binary files no name that no tree has.
TypeOK ==
    /\ pc \in {"names", "numstat", "patch", "prepare", "done"}
    /\ \A c \in ToSet(changes) : c.path \in Paths /\ c.old \in Paths \cup {NoPath}
    /\ \A e \in binary : e.name \in Paths
    /\ result.class \in {"pending", "empty", "prepared", "diff", "diff_too_large"}

\* README.md, on exclude: exact paths, a * within one component, a final /** that
\* covers everything below.
Covered(pattern, file) ==
    /\ IF pattern.below THEN Len(file) >= Len(pattern.parts) ELSE Len(file) = Len(pattern.parts)
    /\ \A k \in DOMAIN pattern.parts : pattern.parts[k] = "*" \/ pattern.parts[k] = file[k]

Private(p) ==
    \/ \E pattern \in Exclude : Covered(pattern, PathList[p])
    \/ \E k \in DOMAIN PathList[p] : PathList[p][k] \in PrivateDirs
    \/ Last(PathList[p]) \in Documents \ BuildInputs

\* The differences that may be sent.
Eligible == {d \in ToSet(tree) : ~Private(d.path) /\ (d.old # NoPath => ~Private(d.old))}

Expected(d) ==
    IF d.body = "binary" THEN [meta |-> TRUE, path |-> d.path, old |-> d.old, body |-> d.status]
    ELSE [meta |-> FALSE, path |-> d.path, old |-> NoPath,
          body |-> IF d.body = "plain" THEN "plain" ELSE "redacted"]

\* What is sent is the turn: every eligible difference once, with its own patch
\* (or, for a binary one, with its path and status alone), ordered by path, so
\* that the hash does not depend on the order in which Git listed anything.
SentIsTheTurn ==
    result.class = "prepared" =>
        /\ Len(result.bodies) = Cardinality(Eligible)
        /\ \A d \in Eligible :
             result.bodies[Cardinality({e \in Eligible : e.path <= d.path})] = Expected(d)

\* Nothing of an excluded path leaves the machine, neither its content nor its
\* name, not even through a rename across the boundary; nor does a binary body
\* or an unredacted one.
NothingPrivateLeaves ==
    /\ \A b \in ToSet(result.bodies) :
         /\ ~Private(b.path) /\ (b.old # NoPath => ~Private(b.old))
         /\ \A d \in ToSet(tree) : d.path = b.path /\ d.old # NoPath => ~Private(d.old)
         /\ b.body \notin {"secret", "binary"}
    /\ \A f \in result.files : \E d \in Eligible : f \in {Labels[p] : p \in {d.path, d.old} \ {NoPath}}

\* A turn is skipped for a reason of its own: a command that failed, a change of
\* type, a selection that is empty or, once it is redacted, too large.
SkippedForCause ==
    /\ result.class = "diff" => faulted \/ \E d \in ToSet(tree) : d.status = "T"
    /\ result.class = "empty" => Eligible = {}
    /\ result.class = "diff_too_large" =>
          \/ faulted
          \/ MaxBytes < Cardinality(Eligible)
               + Cardinality({Labels[p] : p \in (UNION {{d.path, d.old} : d \in Eligible}) \ {NoPath}})
================================================================================
