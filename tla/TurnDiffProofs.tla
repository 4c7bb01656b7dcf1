------------------------------ MODULE TurnDiffProofs -----------------------------
(***************************************************************************)
(* Facts about the selection and the listing of a turn of TurnDiff, for    *)
(* any paths, settings and number of differences in any order: what is     *)
(* sent is the turn, nothing excluded leaves, and a turn is skipped for a  *)
(* reason of its own.                                                      *)
(***************************************************************************)
EXTENDS TurnDiff, FiniteSetTheorems, TLAPS

----------------------------------------------------------------------------
(* Induction over the entries of an output.                                *)

LEMMA Precedes ==
    ASSUME NEW m \in Nat, NEW n \in Nat, m < n
    PROVE  <<m, n>> \in OpToRel(<, Nat)
BY DEF OpToRel

\* A set of numbers that holds 0 and the successor of each of its own holds them all.
LEMMA SetInduction ==
    ASSUME NEW S \in SUBSET Nat, 0 \in S, \A n \in S : n + 1 \in S
    PROVE  S = Nat
<1> DEFINE T == Nat \ S
<1>1. SUFFICES ASSUME T # {} PROVE FALSE
  OBVIOUS
<1>2. PICK x \in T : \A y \in T : ~ (<<y, x>> \in OpToRel(<, Nat))
  <2>1. T \subseteq Nat
    OBVIOUS
  <2>2. QED
    BY <1>1, <2>1, WFMin, NatLessThanWellFounded, Zenon
<1>3. x \in Nat /\ x # 0
  OBVIOUS
<1>4. x - 1 \in Nat /\ x - 1 < x /\ (x - 1) + 1 = x
  BY <1>3
<1>5. <<x - 1, x>> \in OpToRel(<, Nat)
  BY <1>3, <1>4, Precedes
<1>6. x - 1 \in S
  BY <1>2, <1>4, <1>5
<1>7. QED
  BY <1>3, <1>4, <1>6

Chained(f, n, base, step) == f[0] = base /\ \A k \in 1..n : f[k] = step[k][f[k - 1]]

\* A value that each of N steps carries on exists after every one of them.
LEMMA Chain ==
    ASSUME NEW N \in Nat, NEW T, NEW base \in T, NEW step \in [1..N -> [T -> T]]
    PROVE  \E f \in [0..N -> T] : Chained(f, N, base, step)
<1> DEFINE Good(n, f) == f[0] = base /\ \A k \in 1..n : f[k] = step[k][f[k - 1]]
           S == {n \in Nat : n <= N => \E f \in [0..n -> T] : Good(n, f)}
<1>1. 0 \in S
  <2>1. [k \in 0..0 |-> base] \in [0..0 -> T] /\ Good(0, [k \in 0..0 |-> base])
    OBVIOUS
  <2>2. QED
    BY <2>1
<1>2. ASSUME NEW n \in S PROVE n + 1 \in S
  <2>1. SUFFICES ASSUME n + 1 <= N PROVE \E f \in [0..n + 1 -> T] : Good(n + 1, f)
    OBVIOUS
  <2>2. PICK f \in [0..n -> T] : Good(n, f)
    BY <2>1
  <2> DEFINE g == [k \in 0..n + 1 |-> IF k = n + 1 THEN step[n + 1][f[n]] ELSE f[k]]
  <2>3. g \in [0..n + 1 -> T]
    BY <2>1
  <2>4. g[0] = base
    BY <2>2
  <2>5. ASSUME NEW k \in 1..n + 1 PROVE g[k] = step[k][g[k - 1]]
    <3>1. CASE k = n + 1
      BY <3>1
    <3>2. CASE k # n + 1
      <4>1. k \in 1..n /\ k \in 0..n + 1 /\ k - 1 \in 0..n + 1 /\ k - 1 # n + 1
        BY <3>2
      <4>2. g[k] = f[k] /\ g[k - 1] = f[k - 1]
        BY <3>2, <4>1
      <4>3. QED
        BY <2>2, <4>1, <4>2
    <3>3. QED
      BY <3>1, <3>2
  <2>6. QED
    BY <2>3, <2>4, <2>5
<1>3. S = Nat
  <2> HIDE DEF S
  <2>1. S \in SUBSET Nat
    BY DEF S
  <2>2. QED
    BY <1>1, <1>2, <2>1, SetInduction
<1>4. QED
  BY <1>3 DEF Chained

----------------------------------------------------------------------------
(* The outputs of Git: entries joined one after the other.                 *)

\* Entry k of an output begins behind place start[k - 1] and ends at start[k].
Placed(n, seqs, output, start) ==
    /\ start \in [0..n -> Nat] /\ start[0] = 0 /\ start[n] = Len(output)
    /\ \A k \in 1..n :
         /\ start[k] = start[k - 1] + Len(seqs[k]) /\ start[k] <= start[n]
         /\ \A j \in 1..Len(seqs[k]) : output[start[k - 1] + j] = seqs[k][j]

LEMMA Concatenation ==
    ASSUME NEW P, NEW s \in Seq(P), NEW t \in Seq(P)
    PROVE  /\ s \o t \in Seq(P) /\ Len(s \o t) = Len(s) + Len(t)
           /\ Len(s) \in Nat /\ Len(t) \in Nat
           /\ \A i \in 1..Len(s) : (s \o t)[i] = s[i]
           /\ \A j \in 1..Len(t) : (s \o t)[Len(s) + j] = t[j]
           /\ s = <<>> => s \o t = t
OBVIOUS

Joined(n, seqs, f) == f[0] = <<>> /\ \A k \in 1..n : f[k] = f[k - 1] \o seqs[k]

\* What is joined up to k is a beginning of all that is joined later.
Growing(n, f) ==
    \A k \in 0..n : Len(f[k]) <= Len(f[n]) /\ \A i \in 1..Len(f[k]) : f[n][i] = f[k][i]

LEMMA Beginnings ==
    ASSUME NEW P, NEW n \in Nat, NEW seqs \in [1..n -> Seq(P)],
           NEW f \in [0..n -> Seq(P)], Joined(n, seqs, f)
    PROVE  Growing(n, f)
<1> DEFINE Begins(k, m) == Len(f[k]) <= Len(f[m]) /\ \A i \in 1..Len(f[k]) : f[m][i] = f[k][i]
           S == {m \in Nat : m <= n => \A k \in 0..m : Begins(k, m)}
<1>1. 0 \in S
  OBVIOUS
<1>2. ASSUME NEW m \in S PROVE m + 1 \in S
  <2>1. SUFFICES ASSUME m + 1 <= n, NEW k \in 0..m + 1 PROVE Begins(k, m + 1)
    OBVIOUS
  <2>2. CASE k = m + 1
    BY <2>2
  <2>3. CASE k \in 0..m
    <3>1. m \in 0..n /\ m + 1 \in 1..n /\ (m + 1) - 1 = m /\ k \in 0..n
      BY <2>1
    <3>2. f[m + 1] = f[m] \o seqs[m + 1]
      BY <3>1 DEF Joined
    <3>3. f[m] \in Seq(P) /\ seqs[m + 1] \in Seq(P) /\ f[k] \in Seq(P)
      BY <3>1
    <3> HIDE DEF S
    <3>4. Len(f[m]) \in Nat /\ Len(f[m]) <= Len(f[m + 1]) /\ \A i \in 1..Len(f[m]) : f[m + 1][i] = f[m][i]
      <4> DEFINE begin == f[m]
                 entry == seqs[m + 1]
                 longer == f[m + 1]
      <4>1. begin \in Seq(P) /\ entry \in Seq(P) /\ longer = begin \o entry
        BY <3>2, <3>3
      <4> HIDE DEF begin, entry, longer
      <4>2. /\ Len(begin) \in Nat /\ Len(begin) <= Len(longer)
            /\ \A i \in 1..Len(begin) : longer[i] = begin[i]
        BY <4>1
      <4>3. QED
        BY <4>2 DEF begin, longer
    <3>5. Len(f[k]) <= Len(f[m]) /\ \A i \in 1..Len(f[k]) : f[m][i] = f[k][i]
      BY <2>1, <2>3 DEF S
    <3>6. Len(f[k]) \in Nat /\ Len(f[m]) \in Nat /\ Len(f[m + 1]) \in Nat
      BY <3>1
    <3>7. \A i \in 1..Len(f[k]) : i \in 1..Len(f[m])
      BY <3>5, <3>6
    <3>8. QED
      BY <3>4, <3>5, <3>6, <3>7
  <2>4. QED
    BY <2>2, <2>3
<1>3. S = Nat
  <2> HIDE DEF S
  <2>1. S \in SUBSET Nat
    BY DEF S
  <2>2. QED
    BY <1>1, <1>2, <2>1, SetInduction
<1>4. n \in S
  BY <1>3
<1>5. QED
  BY <1>4 DEF Growing

\* Joined sequences are what FlattenSeq returns.
LEMMA FlattenJoins ==
    ASSUME NEW P, NEW n \in Nat, NEW seqs \in [1..n -> Seq(P)],
           NEW f \in [0..n -> Seq(P)], Joined(n, seqs, f)
    PROVE  FlattenSeq(seqs) = f[n]
<1> DEFINE Rule(g) == g = [i \in 1..n |-> IF i = 1 THEN seqs[i] ELSE g[i - 1] \o seqs[i]]
           flatten == CHOOSE g : Rule(g)
           h == [i \in 1..n |-> f[i]]
<1>1. Len(seqs) = n
  OBVIOUS
<1>2. CASE n = 0
  <2>1. seqs = <<>>
    BY <1>2
  <2>2. QED
    BY <1>1, <1>2, <2>1 DEF FlattenSeq, Joined
<1>3. CASE n # 0
  <2>1. FlattenSeq(seqs) = flatten[n]
    BY <1>1, <1>3 DEF FlattenSeq
  <2>2. Rule(h)
    <3>1. \A i \in 1..n : f[i] = IF i = 1 THEN seqs[i] ELSE h[i - 1] \o seqs[i]
      <4>1. TAKE i \in 1..n
      <4>2. f[i] = f[i - 1] \o seqs[i] /\ seqs[i] \in Seq(P)
        BY DEF Joined
      <4>3. CASE i = 1
        <5>1. f[0] = <<>>
          BY DEF Joined
        <5>2. f[i] = <<>> \o seqs[i]
          <6>1. i - 1 = 0
            BY <4>3
          <6>2. QED
            BY <4>2, <5>1, <6>1
        <5>3. <<>> \in Seq(P) /\ <<>> \o seqs[i] = seqs[i]
          BY <4>2, Concatenation
        <5>4. QED
          BY <4>2, <4>3, <5>2, <5>3
      <4>4. CASE i # 1
        <5>1. i - 1 \in 1..n
          BY <4>4
        <5>2. QED
          BY <4>2, <4>4, <5>1
      <4>5. QED
        BY <4>3, <4>4
    <3>2. QED
      BY <3>1
  <2>3. Rule(flatten)
    BY <2>2
  <2> DEFINE S == {m \in Nat : m \in 1..n => flatten[m] = f[m]}
  <2>4. \A i \in 1..n : flatten[i] = IF i = 1 THEN seqs[i] ELSE flatten[i - 1] \o seqs[i]
    <3> HIDE DEF flatten
    <3>1. QED
      BY <2>3
  <2>5. \A i \in 1..n : f[i] = IF i = 1 THEN seqs[i] ELSE f[i - 1] \o seqs[i]
    <3>1. TAKE i \in 1..n
    <3>2. h[i] = IF i = 1 THEN seqs[i] ELSE h[i - 1] \o seqs[i]
      <4> HIDE DEF h
      <4>1. QED
        BY <2>2
    <3>3. i # 1 => i - 1 \in 1..n
      OBVIOUS
    <3>4. QED
      BY <3>2, <3>3
  <2> HIDE DEF flatten, Rule
  <2>6. 0 \in S
    OBVIOUS
  <2>7. ASSUME NEW m \in S PROVE m + 1 \in S
    <3>1. SUFFICES ASSUME m + 1 \in 1..n PROVE flatten[m + 1] = f[m + 1]
      OBVIOUS
    <3>2. CASE m = 0
      <4>1. m + 1 = 1
        BY <3>2
      <4>2. QED
        BY <2>4, <2>5, <3>1, <4>1
    <3>3. CASE m # 0
      <4>1. m \in 1..n /\ m + 1 # 1 /\ (m + 1) - 1 = m
        BY <3>1, <3>3
      <4>2. flatten[m] = f[m]
        BY <4>1
      <4>3. QED
        BY <2>4, <2>5, <3>1, <4>1, <4>2
    <3>4. QED
      BY <3>2, <3>3
  <2>8. S = Nat
    <3> HIDE DEF S
    <3>1. S \in SUBSET Nat
      BY DEF S
    <3>2. QED
      BY <2>6, <2>7, <3>1, SetInduction
  <2>9. n \in 1..n
    BY <1>3
  <2>10. flatten[n] = f[n]
    <3>1. n \in S
      BY <2>8
    <3>2. QED
      BY <2>9, <3>1
  <2>11. QED
    BY <2>1, <2>10
<1>4. QED
  BY <1>2, <1>3

\* The places of the entries in an output.
LEMMA Places ==
    ASSUME NEW P, NEW n \in Nat, NEW seqs \in [1..n -> Seq(P)]
    PROVE  /\ FlattenSeq(seqs) \in Seq(P)
           /\ \E start : Placed(n, seqs, FlattenSeq(seqs), start)
<1> DEFINE step == [k \in 1..n |-> [s \in Seq(P) |-> s \o seqs[k]]]
<1>1. step \in [1..n -> [Seq(P) -> Seq(P)]]
  OBVIOUS
<1>2. PICK f \in [0..n -> Seq(P)] : Chained(f, n, <<>>, step)
  <2> HIDE DEF step
  <2>1. <<>> \in Seq(P)
    OBVIOUS
  <2>2. QED
    BY <1>1, <2>1, Chain
<1>3. Joined(n, seqs, f)
  <2>1. ASSUME NEW k \in 1..n PROVE f[k] = f[k - 1] \o seqs[k]
    <3>1. f[k - 1] \in Seq(P)
      OBVIOUS
    <3>2. f[k] = step[k][f[k - 1]]
      BY <1>2 DEF Chained
    <3>3. QED
      BY <3>1, <3>2
  <2>2. QED
    BY <1>2, <2>1 DEF Chained, Joined
<1>4. FlattenSeq(seqs) = f[n]
  BY <1>3, FlattenJoins
<1> HIDE DEF step
<1>5. \A k \in 0..n : Len(f[k]) <= Len(f[n]) /\ \A i \in 1..Len(f[k]) : f[n][i] = f[k][i]
  <2>1. Growing(n, f)
    BY <1>3, Beginnings
  <2>2. QED
    BY <2>1, Zenon DEF Growing
<1> DEFINE start == [k \in 0..n |-> Len(f[k])]
<1>6. start \in [0..n -> Nat] /\ start[0] = 0 /\ start[n] = Len(f[n])
  BY <1>3 DEF Joined
<1>7. ASSUME NEW k \in 1..n
      PROVE  /\ start[k] = start[k - 1] + Len(seqs[k]) /\ start[k] <= start[n]
             /\ \A j \in 1..Len(seqs[k]) : f[n][start[k - 1] + j] = seqs[k][j]
  <2>1. k \in 0..n /\ k - 1 \in 0..n /\ n \in 0..n
    OBVIOUS
  <2>2. f[k] = f[k - 1] \o seqs[k] /\ f[k - 1] \in Seq(P) /\ seqs[k] \in Seq(P)
    BY <1>3, <2>1 DEF Joined
  <2>3. /\ Len(f[k]) = Len(f[k - 1]) + Len(seqs[k])
        /\ \A j \in 1..Len(seqs[k]) : f[k][Len(f[k - 1]) + j] = seqs[k][j]
        /\ Len(f[k - 1]) \in Nat /\ Len(seqs[k]) \in Nat
    BY <2>2
  <2>4. \A j \in 1..Len(seqs[k]) : Len(f[k - 1]) + j \in 1..Len(f[k])
    BY <2>3
  <2>5. QED
    BY <1>5, <2>1, <2>3, <2>4
<1>8. Placed(n, seqs, f[n], start)
  <2> HIDE DEF start
  <2>1. QED
    BY <1>6, <1>7 DEF Placed
<1>9. f[n] \in Seq(P)
  OBVIOUS
<1>10. QED
  BY <1>4, <1>8, <1>9

----------------------------------------------------------------------------
(* The turn and what is read of it.                                        *)

LEMMA PathsAreNumbers == Paths \subseteq Nat \ {NoPath}
BY DiffAssumption DEF Paths, NoPath

LEMMA DifferenceShape ==
    ASSUME NEW d \in Differences
    PROVE  /\ d.path \in Paths /\ d.old \in Paths \cup {NoPath}
           /\ d.status \in {"M", "T", "R"} /\ d.body \in {"plain", "secret", "binary"}
           /\ d.status = "R" <=> d.old # NoPath
BY PathsAreNumbers DEF Differences

LEMMA TurnShape ==
    ASSUME NEW t \in Turns
    PROVE  /\ Len(t) \in Nat /\ DOMAIN t = 1..Len(t) /\ t \in [1..Len(t) -> Differences]
           /\ \A i, j \in 1..Len(t) : t[i].path = t[j].path => i = j
<1>1. PICK n \in 0..MaxChanges : t \in [1..n -> Differences]
  BY DEF Turns
<1>2. Len(t) = n /\ n \in Nat
  BY <1>1
<1>3. DOMAIN t = 1..n
  BY <1>1
<1>4. \A i, j \in DOMAIN t : i # j => t[i].path # t[j].path
  BY DEF Turns
<1>5. QED
  BY <1>1, <1>2, <1>3, <1>4

\* Two runs of a loop that begin alike and step alike are alike.
LEMMA SameLoop ==
    ASSUME NEW N \in Nat, NEW f, NEW g, f[0] = g[0],
           \A k \in 1..N : f[k - 1] = g[k - 1] => f[k] = g[k]
    PROVE  f[N] = g[N]
<1> DEFINE S == {k \in Nat : k <= N => f[k] = g[k]}
<1>1. 0 \in S
  OBVIOUS
<1>2. ASSUME NEW k \in S PROVE k + 1 \in S
  <2>1. k + 1 <= N => k + 1 \in 1..N /\ (k + 1) - 1 = k
    OBVIOUS
  <2>2. QED
    BY <2>1
<1>3. S = Nat
  <2> HIDE DEF S
  <2>1. S \in SUBSET Nat
    BY DEF S
  <2>2. QED
    BY <1>1, <1>2, <2>1, SetInduction
<1>4. QED
  BY <1>3

LEMMA ShortSequences ==
    ASSUME NEW S, NEW a \in S, NEW b \in S, NEW c \in S
    PROVE  <<a>> \in Seq(S) /\ <<a, b>> \in Seq(S) /\ <<a, b, c>> \in Seq(S)
OBVIOUS

\* A change as --name-status lists it.
Bare(d) == [path |-> d.path, old |-> d.old, status |-> d.status, binary |-> FALSE, patch |-> <<>>]

NameParts == [status : {"", "M", "T", "R"}, name : Paths \cup {NoPath}]

LEMMA NameStatusParts ==
    ASSUME NEW d \in Differences
    PROVE  /\ NameStatus(d) \in Seq(NameParts)
           /\ Len(NameStatus(d)) = IF d.status = "R" THEN 3 ELSE 2
           /\ NameStatus(d)[1].status = d.status
           /\ d.status = "R" => NameStatus(d)[2].name = d.old /\ NameStatus(d)[3].name = d.path
           /\ d.status # "R" => NameStatus(d)[2].name = d.path
<1> DEFINE first == [status |-> d.status, name |-> NoPath]
           second == [status |-> "", name |-> d.old]
           third == [status |-> "", name |-> d.path]
<1>1. first \in NameParts /\ second \in NameParts /\ third \in NameParts
  BY DifferenceShape DEF NameParts
<1>2. first.status = d.status /\ second.name = d.old /\ third.name = d.path
  OBVIOUS
<1>3. d.status = "R" => NameStatus(d) = <<first, second, third>>
  BY DEF NameStatus
<1>4. d.status # "R" => NameStatus(d) = <<first, third>>
  BY DEF NameStatus
<1> HIDE DEF first, second, third
<1>5. CASE d.status = "R"
  <2>1. NameStatus(d) \in Seq(NameParts)
    BY <1>1, <1>3, <1>5, ShortSequences
  <2>2. Len(NameStatus(d)) = 3
    BY <1>3, <1>5
  <2>3. NameStatus(d)[1] = first /\ NameStatus(d)[2] = second /\ NameStatus(d)[3] = third
    BY <1>3, <1>5
  <2>4. QED
    BY <1>2, <1>5, <2>1, <2>2, <2>3
<1>6. CASE d.status # "R"
  <2>1. NameStatus(d) \in Seq(NameParts)
    BY <1>1, <1>4, <1>6, ShortSequences
  <2>2. Len(NameStatus(d)) = 2
    BY <1>4, <1>6
  <2>3. NameStatus(d)[1] = first /\ NameStatus(d)[2] = third
    BY <1>4, <1>6
  <2>4. QED
    BY <1>2, <1>6, <2>1, <2>2, <2>3
<1>7. QED
  BY <1>5, <1>6

\* One pass of the loop reads one entry.
LEMMA ReadsName ==
    ASSUME NEW d \in Differences, NEW parts \in Seq(NameParts), NEW b \in Nat,
           b + Len(NameStatus(d)) <= Len(parts),
           \A j \in 1..Len(NameStatus(d)) : parts[b + j] = NameStatus(d)[j],
           NEW listed
    PROVE  ReadName(parts, Reader(b + 1, listed))
             = Reader(b + Len(NameStatus(d)) + 1, Append(listed, Bare(d)))
<1> DEFINE s == Reader(b + 1, listed)
           e == NameStatus(d)
<1>1. s.ok /\ s.at = b + 1 /\ s.listed = listed
  BY DEF Reader
<1>2. /\ Len(e) = IF d.status = "R" THEN 3 ELSE 2
      /\ e[1].status = d.status
      /\ d.status = "R" => e[2].name = d.old /\ e[3].name = d.path
      /\ d.status # "R" => e[2].name = d.path
      /\ d.status \in {"M", "T", "R"} /\ (d.status = "R" <=> d.old # NoPath)
  BY NameStatusParts, DifferenceShape
<1>3. /\ Len(parts) \in Nat /\ b + Len(e) <= Len(parts)
      /\ \A j \in 1..Len(e) : parts[b + j] = e[j]
  OBVIOUS
<1> HIDE DEF s, e
<1>4. parts[b + 1].status = d.status /\ ~ (s.at > Len(parts))
  <2>1. 1 \in 1..Len(e)
    BY <1>2
  <2>2. QED
    BY <1>1, <1>2, <1>3, <2>1
<1>5. CASE d.status = "R"
  <2>1. Len(e) = 3 /\ 2 \in 1..Len(e) /\ 3 \in 1..Len(e)
    BY <1>2, <1>5
  <2>2. parts[b + 2].name = d.old /\ parts[b + 3].name = d.path
    BY <1>2, <1>3, <1>5, <2>1
  <2>3. parts[s.at].status \in {"R", "C"} /\ s.at + 2 = b + 3 /\ s.at + 1 = b + 2
    BY <1>1, <1>4, <1>5
  <2>4. Fits(b + 3, parts)
    BY <1>3, <2>1 DEF Fits
  <2>5. ReadName(parts, s) =
          Reader((b + 3) + 1, Append(s.listed, [path |-> parts[b + 3].name,
                                      old |-> parts[b + 2].name,
                                      status |-> parts[s.at].status,
                                      binary |-> FALSE, patch |-> <<>>]))
    BY <1>1, <1>4, <2>3, <2>4 DEF ReadName
  <2>6. QED
    BY <1>1, <1>4, <2>1, <2>2, <2>5 DEF Bare, s, e
<1>6. CASE d.status # "R"
  <2>1. Len(e) = 2 /\ 2 \in 1..Len(e)
    BY <1>2, <1>6
  <2>2. parts[b + 2].name = d.path
    BY <1>2, <1>3, <1>6, <2>1
  <2>3. parts[s.at].status \notin {"R", "C"} /\ s.at + 1 = b + 2
    BY <1>1, <1>2, <1>4, <1>6
  <2>4. Fits(b + 2, parts)
    BY <1>3, <2>1 DEF Fits
  <2>5. ReadName(parts, s) =
          Reader((b + 2) + 1, Append(s.listed, [path |-> parts[b + 2].name,
                                      old |-> NoPath,
                                      status |-> parts[s.at].status,
                                      binary |-> FALSE, patch |-> <<>>]))
    BY <1>1, <1>4, <2>3, <2>4 DEF ReadName
  <2>6. d.old = NoPath
    BY <1>2, <1>6
  <2>7. QED
    BY <1>1, <1>4, <2>1, <2>2, <2>5, <2>6 DEF Bare, s, e
<1>7. QED
  BY <1>5, <1>6 DEF s, e

\* Every entry takes some place.
LEMMA EntriesTakePlaces ==
    ASSUME NEW n \in Nat, NEW seqs, NEW output, NEW start, Placed(n, seqs, output, start),
           \A k \in 1..n : Len(seqs[k]) \in Nat \ {0}
    PROVE  \A k \in 0..n : start[k] >= k /\ start[n] - start[k] >= n - k
<1> DEFINE S == {m \in Nat : m <= n => \A k \in 0..m : start[m] - start[k] >= m - k}
<1>1. start \in [0..n -> Nat] /\ start[0] = 0
  BY DEF Placed
<1>2. 0 \in S
  BY <1>1
<1>3. ASSUME NEW m \in S PROVE m + 1 \in S
  <2>1. SUFFICES ASSUME m + 1 <= n, NEW k \in 0..m + 1
                 PROVE  start[m + 1] - start[k] >= (m + 1) - k
    OBVIOUS
  <2>2. m \in 0..n /\ m + 1 \in 1..n /\ (m + 1) - 1 = m /\ k \in 0..n /\ m + 1 \in 0..n
    BY <2>1
  <2>3. start[m + 1] = start[m] + Len(seqs[m + 1]) /\ Len(seqs[m + 1]) \in Nat \ {0}
    BY <2>2 DEF Placed
  <2>4. start[m] \in Nat /\ start[m + 1] \in Nat /\ start[k] \in Nat
    BY <1>1, <2>2
  <2>5. CASE k = m + 1
    BY <2>4, <2>5
  <2>6. CASE k # m + 1
    <3>1. k \in 0..m /\ k \in Nat /\ m \in Nat
      BY <2>1, <2>6
    <3>2. start[m] - start[k] >= m - k
      BY <2>1, <3>1
    <3> HIDE DEF S
    <3>3. start[m + 1] >= start[m] + 1
      BY <2>3, <2>4
    <3>4. QED
      BY <2>4, <3>1, <3>2, <3>3
  <2>7. QED
    BY <2>5, <2>6
<1>4. S = Nat
  <2> HIDE DEF S
  <2>1. S \in SUBSET Nat
    BY DEF S
  <2>2. QED
    BY <1>2, <1>3, <2>1, SetInduction
<1>5. \A m \in 0..n : \A k \in 0..m : start[m] - start[k] >= m - k
  BY <1>4
<1>6. \A k \in 0..n : start[k] \in Nat
  BY <1>1
<1>7. ASSUME NEW k \in 0..n PROVE start[k] >= k /\ start[n] - start[k] >= n - k
  <2>1. 0 \in 0..k /\ n \in 0..n
    OBVIOUS
  <2>2. start[k] - start[0] >= k - 0 /\ start[n] - start[k] >= n - k
    BY <1>5, <2>1
  <2>3. QED
    BY <1>1, <1>6, <2>2
<1>8. QED
  BY <1>7

LEMMA OneMore ==
    ASSUME NEW m \in Nat, NEW g, NEW h, DOMAIN h = 1..m + 1, DOMAIN g = 1..m,
           h = [k \in 1..m + 1 |-> h[k]], g = [k \in 1..m |-> h[k]]
    PROVE  Append(g, h[m + 1]) = h
<1> DEFINE T == {h[k] : k \in 1..m + 1}
<1>1. h \in [1..m + 1 -> T] /\ g \in [1..m -> T] /\ h[m + 1] \in T
  OBVIOUS
<1> HIDE DEF T
<1>2. g \in Seq(T) /\ Len(g) = m
  BY <1>1
<1>3. /\ DOMAIN Append(g, h[m + 1]) = 1..m + 1
      /\ Append(g, h[m + 1])[m + 1] = h[m + 1]
      /\ \A k \in 1..m : Append(g, h[m + 1])[k] = g[k]
      /\ Append(g, h[m + 1]) \in Seq(T)
  BY <1>1, <1>2
<1>4. Append(g, h[m + 1]) = [k \in 1..m + 1 |-> Append(g, h[m + 1])[k]]
  BY <1>3
<1>5. \A k \in 1..m + 1 : Append(g, h[m + 1])[k] = h[k]
  <2>1. \A k \in 1..m + 1 : k = m + 1 \/ k \in 1..m
    OBVIOUS
  <2>2. \A k \in 1..m : g[k] = h[k]
    OBVIOUS
  <2>3. QED
    BY <1>3, <2>1, <2>2
<1>6. QED
  BY <1>4, <1>5

\* parseNames lists the turn, in the order of Git.
LEMMA NamesAreRead ==
    ASSUME tree \in Turns
    PROVE  LET read == ParseNames(Output(NameStatus))
           IN  read.ok /\ read.listed = [k \in 1..Len(tree) |-> Bare(tree[k])]
<1> DEFINE n == Len(tree)
           seqs == [k \in DOMAIN tree |-> NameStatus(tree[k])]
           parts == FlattenSeq(seqs)
           N == Len(parts)
           listed(m) == [k \in 1..m |-> Bare(tree[k])]
           Rule(g) == g = [k \in 0..N |-> IF k = 0 THEN Reader(1, <<>>) ELSE ReadName(parts, g[k - 1])]
<1>1. n \in Nat /\ DOMAIN tree = 1..n /\ tree \in [1..n -> Differences]
  BY TurnShape
<1>2. seqs \in [1..n -> Seq(NameParts)] /\ \A k \in 1..n : seqs[k] = NameStatus(tree[k])
  BY <1>1, NameStatusParts
<1>3. Output(NameStatus) = parts
  BY DEF Output
<1> HIDE DEF n, seqs
<1>4. parts \in Seq(NameParts) /\ \E start : Placed(n, seqs, parts, start)
  BY <1>1, <1>2, Places
<1>5. PICK start : Placed(n, seqs, parts, start)
  BY <1>4
<1>6. \A k \in 1..n : Len(seqs[k]) \in Nat \ {0}
  <2>1. TAKE k \in 1..n
  <2>2. tree[k] \in Differences
    BY <1>1
  <2>3. QED
    BY <1>2, <2>2, NameStatusParts
<1>7. \A k \in 0..n : start[k] >= k
  BY <1>1, <1>5, <1>6, EntriesTakePlaces
<1>8. /\ start \in [0..n -> Nat] /\ start[0] = 0 /\ start[n] = N /\ N \in Nat /\ n <= N
      /\ \A k \in 1..n : /\ start[k] = start[k - 1] + Len(seqs[k]) /\ start[k] <= N
                         /\ \A j \in 1..Len(seqs[k]) : parts[start[k - 1] + j] = seqs[k][j]
  <2>1. N \in Nat
    BY <1>4
  <2>2. QED
    BY <1>1, <1>5, <1>7, <2>1 DEF Placed
<1> HIDE DEF parts, N
<1> DEFINE f == [m \in 0..N |-> IF m <= n THEN Reader(start[m] + 1, listed(m))
                                ELSE Reader(N + 1, listed(n))]
<1>9. f[0] = Reader(1, <<>>)
  <2>1. listed(0) = <<>>
    OBVIOUS
  <2>2. 0 \in 0..N /\ 0 <= n /\ start[0] + 1 = 1
    BY <1>1, <1>8
  <2>3. QED
    BY <2>1, <2>2
<1>10. ASSUME NEW m \in 1..N PROVE f[m] = ReadName(parts, f[m - 1])
  <2>1. m \in 0..N /\ m - 1 \in 0..N /\ m \in Nat /\ m - 1 \in Nat
    BY <1>8
  <2>2. CASE m <= n
    <3> DEFINE d == tree[m]
               b == start[m - 1]
    <3>1. m \in 1..n /\ m - 1 \in 0..n /\ m - 1 <= n
      BY <1>1, <2>1, <2>2
    <3>2. d \in Differences /\ b \in Nat /\ seqs[m] = NameStatus(d)
      BY <1>1, <1>2, <1>8, <3>1
    <3>3. f[m - 1] = Reader(b + 1, listed(m - 1))
      BY <2>1, <3>1
    <3>4. f[m] = Reader(start[m] + 1, listed(m))
      BY <2>1, <2>2
    <3>5. /\ start[m] = b + Len(NameStatus(d)) /\ b + Len(NameStatus(d)) <= N
          /\ \A j \in 1..Len(NameStatus(d)) : parts[b + j] = NameStatus(d)[j]
      BY <1>8, <3>1, <3>2
    <3>6. Append(listed(m - 1), Bare(d)) = listed(m)
      <4> DEFINE g == listed(m - 1)
                 h == listed(m)
      <4>1. (m - 1) + 1 = m /\ h[m] = Bare(d)
        BY <3>1
      <4>2. /\ DOMAIN h = 1..m /\ DOMAIN g = 1..m - 1
            /\ h = [k \in 1..m |-> h[k]] /\ g = [k \in 1..m - 1 |-> h[k]]
        BY <2>1
      <4> HIDE DEF g, h
      <4>3. Append(g, h[(m - 1) + 1]) = h
        BY <2>1, <4>1, <4>2, OneMore
      <4>4. QED
        BY <4>1, <4>3 DEF g, h
    <3> HIDE DEF d, b, f, listed
    <3>7. ReadName(parts, Reader(b + 1, listed(m - 1)))
            = Reader(b + Len(NameStatus(d)) + 1, Append(listed(m - 1), Bare(d)))
      BY <1>4, <3>2, <3>5, ReadsName DEF N
    <3>8. QED
      BY <3>3, <3>4, <3>5, <3>6, <3>7
  <2>3. CASE ~ (m <= n)
    <3>1. f[m] = Reader(N + 1, listed(n))
      BY <2>1, <2>3
    <3>2. f[m - 1] = Reader(N + 1, listed(n))
      <4>1. CASE m - 1 = n
        BY <1>8, <2>1, <4>1
      <4>2. CASE m - 1 # n
        <5>1. ~ (m - 1 <= n)
          BY <1>1, <2>1, <2>3, <4>2
        <5>2. QED
          BY <2>1, <5>1
      <4>3. QED
        BY <4>1, <4>2
    <3> HIDE DEF f, listed
    <3>3. ReadName(parts, Reader(N + 1, listed(n))) = Reader(N + 1, listed(n))
      <4>1. Reader(N + 1, listed(n)).at = N + 1 /\ N + 1 > Len(parts)
        BY <1>8 DEF Reader, N
      <4>2. QED
        BY <4>1 DEF ReadName
    <3>4. QED
      BY <3>1, <3>2, <3>3
  <2>4. QED
    BY <2>2, <2>3
<1> DEFINE after == CHOOSE g : Rule(g)
<1>11. ParseNames(parts) = after[N]
  BY DEF ParseNames, N
<1>12. Rule(f)
  <2>1. f = [k \in 0..N |-> f[k]]
    OBVIOUS
  <2> HIDE DEF f
  <2>2. \A k \in 0..N : f[k] = IF k = 0 THEN Reader(1, <<>>) ELSE ReadName(parts, f[k - 1])
    <3>1. \A k \in 0..N : k # 0 => k \in 1..N
      BY <1>8
    <3>2. QED
      BY <1>9, <1>10, <3>1
  <2>3. QED
    BY <2>1, <2>2
<1>13. Rule(after)
  <2> HIDE DEF f, Rule
  <2>1. QED
    BY <1>12, Zenon
<1>14. after[N] = f[N]
  <2> HIDE DEF after, f
  <2>1. after[0] = Reader(1, <<>>)
    BY <1>8, <1>13
  <2>2. \A k \in 1..N : after[k] = ReadName(parts, after[k - 1])
    <3>1. \A k \in 1..N : k \in 0..N /\ k # 0
      BY <1>8
    <3>2. QED
      BY <1>13, <3>1
  <2> HIDE DEF Rule
  <2>3. \A k \in 1..N : after[k - 1] = f[k - 1] => after[k] = f[k]
    BY <1>10, <2>2
  <2>4. QED
    BY <1>8, <1>9, <2>1, <2>3, SameLoop
<1>15. f[N] = Reader(N + 1, listed(n))
  <2>1. N \in 0..N
    BY <1>8
  <2>2. CASE N <= n
    <3>1. N = n
      BY <1>1, <1>8, <2>2
    <3>2. f[N] = Reader(start[N] + 1, listed(N))
      BY <2>1, <2>2
    <3>3. start[N] = N
      BY <1>8, <3>1
    <3>4. QED
      BY <3>1, <3>2, <3>3
  <2>3. CASE ~ (N <= n)
    BY <2>1, <2>3
  <2>4. QED
    BY <2>2, <2>3
<1>16. ParseNames(Output(NameStatus)) = Reader(N + 1, listed(n))
  <2> HIDE DEF after, f, listed
  <2>1. QED
    BY <1>3, <1>11, <1>14, <1>15
<1>17. QED
  BY <1>16 DEF Reader, n

----------------------------------------------------------------------------
(* The list of --numstat.                                                  *)

LineParts == [lines : {"", "-", "n"}, name : Paths \cup {NoPath}]

Lines(d) == [name |-> d.path, binary |-> d.body = "binary"]

LEMMA NumstatParts ==
    ASSUME NEW d \in Differences
    PROVE  /\ Numstat(d) \in Seq(LineParts)
           /\ Len(Numstat(d)) = IF d.status = "R" THEN 3 ELSE 1
           /\ Numstat(d)[1].lines = IF d.body = "binary" THEN "-" ELSE "n"
           /\ d.status = "R" => Numstat(d)[1].name = NoPath /\ Numstat(d)[3].name = d.path
           /\ d.status # "R" => Numstat(d)[1].name = d.path
<1> DEFINE lines == IF d.body = "binary" THEN "-" ELSE "n"
           first == [lines |-> lines, name |-> NoPath]
           second == [lines |-> "", name |-> d.old]
           third == [lines |-> "", name |-> d.path]
           only == [lines |-> lines, name |-> d.path]
<1>1. first \in LineParts /\ second \in LineParts /\ third \in LineParts /\ only \in LineParts
  BY DifferenceShape DEF LineParts
<1>2. /\ first.lines = lines /\ first.name = NoPath /\ third.name = d.path
      /\ only.lines = lines /\ only.name = d.path
  OBVIOUS
<1>3. lines = IF d.body = "binary" THEN "-" ELSE "n"
  OBVIOUS
<1>4. d.status = "R" => Numstat(d) = <<first, second, third>>
  BY DEF Numstat
<1>5. d.status # "R" => Numstat(d) = <<only>>
  BY DEF Numstat
<1> HIDE DEF first, second, third, only, lines
<1>6. CASE d.status = "R"
  <2>1. Numstat(d) \in Seq(LineParts)
    BY <1>1, <1>4, <1>6, ShortSequences
  <2>2. Len(Numstat(d)) = 3
    BY <1>4, <1>6
  <2>3. Numstat(d)[1] = first /\ Numstat(d)[3] = third
    BY <1>4, <1>6
  <2>4. QED
    BY <1>2, <1>3, <1>6, <2>1, <2>2, <2>3
<1>7. CASE d.status # "R"
  <2>1. Numstat(d) \in Seq(LineParts)
    BY <1>1, <1>5, <1>7, ShortSequences
  <2>2. Len(Numstat(d)) = 1
    BY <1>5, <1>7
  <2>3. Numstat(d)[1] = only
    BY <1>5, <1>7
  <2>4. QED
    BY <1>2, <1>3, <1>7, <2>1, <2>2, <2>3
<1>8. QED
  BY <1>6, <1>7

\* One pass of the loop reads one entry.
LEMMA ReadsLines ==
    ASSUME NEW d \in Differences, NEW parts \in Seq(LineParts), NEW b \in Nat,
           b + Len(Numstat(d)) <= Len(parts),
           \A j \in 1..Len(Numstat(d)) : parts[b + j] = Numstat(d)[j],
           NEW listed
    PROVE  ReadLines(parts, Reader(b + 1, listed))
             = Reader(b + Len(Numstat(d)) + 1, listed \cup {Lines(d)})
<1> DEFINE s == Reader(b + 1, listed)
           e == Numstat(d)
<1>1. s.ok /\ s.at = b + 1 /\ s.listed = listed
  BY DEF Reader
<1>2. /\ Len(e) = IF d.status = "R" THEN 3 ELSE 1
      /\ e[1].lines = IF d.body = "binary" THEN "-" ELSE "n"
      /\ d.status = "R" => e[1].name = NoPath /\ e[3].name = d.path
      /\ d.status # "R" => e[1].name = d.path
      /\ d.path # NoPath
  BY NumstatParts, DifferenceShape, PathsAreNumbers
<1>3. /\ Len(parts) \in Nat /\ b + Len(e) <= Len(parts)
      /\ \A j \in 1..Len(e) : parts[b + j] = e[j]
  OBVIOUS
<1> HIDE DEF s, e
<1>4. parts[s.at] = e[1] /\ ~ (s.at > Len(parts))
  <2>1. 1 \in 1..Len(e)
    BY <1>2
  <2>2. QED
    BY <1>1, <1>2, <1>3, <2>1
<1>5. (parts[s.at].lines = "-") = (d.body = "binary")
  BY <1>2, <1>4
<1>6. CASE d.status = "R"
  <2>1. Len(e) = 3 /\ 3 \in 1..Len(e)
    BY <1>2, <1>6
  <2>2. parts[b + 3].name = d.path
    BY <1>2, <1>3, <1>6, <2>1
  <2>3. parts[s.at].name = NoPath /\ s.at + 2 = b + 3 /\ parts[s.at].lines # ""
    <3>1. s.at + 2 = b + 3
      BY <1>1
    <3>2. e[1].name = NoPath /\ e[1].lines # ""
      BY <1>2, <1>6
    <3>3. QED
      BY <1>4, <3>1, <3>2
  <2>4. Fits(b + 3, parts) /\ NumstatName(s.at, parts) = d.path
    BY <1>3, <2>1, <2>2, <2>3 DEF Fits, NumstatName
  <2>5. ReadLines(parts, s) =
          Reader((b + 3) + 1, s.listed \cup {[name |-> NumstatName(s.at, parts),
                                              binary |-> parts[s.at].lines = "-"]})
    BY <1>1, <1>4, <2>3, <2>4 DEF ReadLines
  <2>6. QED
    BY <1>1, <1>5, <2>1, <2>4, <2>5 DEF Lines, s, e
<1>7. CASE d.status # "R"
  <2>1. Len(e) = 1
    BY <1>2, <1>7
  <2>2. parts[s.at].name = d.path /\ parts[s.at].name # NoPath /\ parts[s.at].lines # ""
    BY <1>1, <1>2, <1>4, <1>7
  <2>3. Fits(b + 1, parts) /\ NumstatName(s.at, parts) = d.path
    BY <1>3, <2>1, <2>2 DEF Fits, NumstatName
  <2>4. ReadLines(parts, s) =
          Reader((b + 1) + 1, s.listed \cup {[name |-> NumstatName(s.at, parts),
                                              binary |-> parts[s.at].lines = "-"]})
    BY <1>1, <1>4, <2>2, <2>3 DEF ReadLines
  <2>5. QED
    BY <1>1, <1>5, <2>1, <2>3, <2>4 DEF Lines, s, e
<1>8. QED
  BY <1>6, <1>7 DEF s, e

\* parseNumstat lists every path once, under its new name.
LEMMA LinesAreRead ==
    ASSUME tree \in Turns
    PROVE  LET read == ParseNumstat(Output(Numstat))
           IN  read.ok /\ read.listed = {Lines(tree[k]) : k \in 1..Len(tree)}
<1> DEFINE n == Len(tree)
           seqs == [k \in DOMAIN tree |-> Numstat(tree[k])]
           parts == FlattenSeq(seqs)
           N == Len(parts)
           listed(m) == {Lines(tree[k]) : k \in 1..m}
           Rule(g) == g = [k \in 0..N |-> IF k = 0 THEN Reader(1, {}) ELSE ReadLines(parts, g[k - 1])]
<1>1. n \in Nat /\ DOMAIN tree = 1..n /\ tree \in [1..n -> Differences]
  BY TurnShape
<1>2. seqs \in [1..n -> Seq(LineParts)] /\ \A k \in 1..n : seqs[k] = Numstat(tree[k])
  BY <1>1, NumstatParts
<1>3. Output(Numstat) = parts
  BY DEF Output
<1> HIDE DEF n, seqs
<1>4. parts \in Seq(LineParts) /\ \E start : Placed(n, seqs, parts, start)
  BY <1>1, <1>2, Places
<1>5. PICK start : Placed(n, seqs, parts, start)
  BY <1>4
<1>6. \A k \in 1..n : Len(seqs[k]) \in Nat \ {0}
  <2>1. TAKE k \in 1..n
  <2>2. tree[k] \in Differences
    BY <1>1
  <2>3. QED
    BY <1>2, <2>2, NumstatParts
<1>7. \A k \in 0..n : start[k] >= k
  BY <1>1, <1>5, <1>6, EntriesTakePlaces
<1>8. /\ start \in [0..n -> Nat] /\ start[0] = 0 /\ start[n] = N /\ N \in Nat /\ n <= N
      /\ \A k \in 1..n : /\ start[k] = start[k - 1] + Len(seqs[k]) /\ start[k] <= N
                         /\ \A j \in 1..Len(seqs[k]) : parts[start[k - 1] + j] = seqs[k][j]
  <2>1. N \in Nat
    BY <1>4
  <2>2. QED
    BY <1>1, <1>5, <1>7, <2>1 DEF Placed
<1> HIDE DEF parts, N
<1> DEFINE f == [m \in 0..N |-> IF m <= n THEN Reader(start[m] + 1, listed(m))
                                ELSE Reader(N + 1, listed(n))]
<1>9. f[0] = Reader(1, {})
  <2>1. listed(0) = {}
    OBVIOUS
  <2>2. 0 \in 0..N /\ 0 <= n /\ start[0] + 1 = 1
    BY <1>1, <1>8
  <2>3. QED
    BY <2>1, <2>2
<1>10. ASSUME NEW m \in 1..N PROVE f[m] = ReadLines(parts, f[m - 1])
  <2>1. m \in 0..N /\ m - 1 \in 0..N /\ m \in Nat /\ m - 1 \in Nat
    BY <1>8
  <2>2. CASE m <= n
    <3> DEFINE d == tree[m]
               b == start[m - 1]
    <3>1. m \in 1..n /\ m - 1 \in 0..n /\ m - 1 <= n
      BY <1>1, <2>1, <2>2
    <3>2. d \in Differences /\ b \in Nat /\ seqs[m] = Numstat(d)
      BY <1>1, <1>2, <1>8, <3>1
    <3>3. f[m - 1] = Reader(b + 1, listed(m - 1))
      BY <2>1, <3>1
    <3>4. f[m] = Reader(start[m] + 1, listed(m))
      BY <2>1, <2>2
    <3>5. /\ start[m] = b + Len(Numstat(d)) /\ b + Len(Numstat(d)) <= N
          /\ \A j \in 1..Len(Numstat(d)) : parts[b + j] = Numstat(d)[j]
      BY <1>8, <3>1, <3>2
    <3>6. listed(m - 1) \cup {Lines(d)} = listed(m)
      <4>1. 1..m = 1..m - 1 \cup {m}
        BY <2>1
      <4>2. QED
        BY <4>1
    <3> HIDE DEF d, b, f, listed
    <3>7. ReadLines(parts, Reader(b + 1, listed(m - 1)))
            = Reader(b + Len(Numstat(d)) + 1, listed(m - 1) \cup {Lines(d)})
      <4>1. b + Len(Numstat(d)) <= Len(parts)
        BY <3>5 DEF N
      <4>2. QED
        BY <1>4, <3>2, <3>5, <4>1, ReadsLines, Zenon
    <3>8. f[m] = Reader(b + Len(Numstat(d)) + 1, listed(m - 1) \cup {Lines(d)})
      BY <3>4, <3>5, <3>6
    <3>9. QED
      BY <3>3, <3>7, <3>8, Zenon
  <2>3. CASE ~ (m <= n)
    <3>1. f[m] = Reader(N + 1, listed(n))
      BY <2>1, <2>3
    <3>2. f[m - 1] = Reader(N + 1, listed(n))
      <4>1. CASE m - 1 = n
        BY <1>8, <2>1, <4>1
      <4>2. CASE m - 1 # n
        <5>1. ~ (m - 1 <= n)
          BY <1>1, <2>1, <2>3, <4>2
        <5>2. QED
          BY <2>1, <5>1
      <4>3. QED
        BY <4>1, <4>2
    <3> HIDE DEF f, listed
    <3>3. ReadLines(parts, Reader(N + 1, listed(n))) = Reader(N + 1, listed(n))
      <4>1. Reader(N + 1, listed(n)).at = N + 1 /\ N + 1 > Len(parts)
        BY <1>8 DEF Reader, N
      <4>2. QED
        BY <4>1 DEF ReadLines
    <3>4. QED
      BY <3>1, <3>2, <3>3
  <2>4. QED
    BY <2>2, <2>3
<1> DEFINE after == CHOOSE g : Rule(g)
<1>11. ParseNumstat(parts) = after[N]
  BY DEF ParseNumstat, N
<1>12. Rule(f)
  <2>1. f = [k \in 0..N |-> f[k]]
    OBVIOUS
  <2> HIDE DEF f
  <2>2. \A k \in 0..N : f[k] = IF k = 0 THEN Reader(1, {}) ELSE ReadLines(parts, f[k - 1])
    <3>1. \A k \in 0..N : k # 0 => k \in 1..N
      BY <1>8
    <3>2. QED
      BY <1>9, <1>10, <3>1
  <2>3. QED
    BY <2>1, <2>2
<1>13. Rule(after)
  <2> HIDE DEF f, Rule
  <2>1. QED
    BY <1>12, Zenon
<1>14. after[N] = f[N]
  <2> HIDE DEF after, f
  <2>1. after[0] = Reader(1, {})
    BY <1>8, <1>13
  <2>2. \A k \in 1..N : after[k] = ReadLines(parts, after[k - 1])
    <3>1. \A k \in 1..N : k \in 0..N /\ k # 0
      BY <1>8
    <3>2. QED
      BY <1>13, <3>1
  <2> HIDE DEF Rule
  <2>3. \A k \in 1..N : after[k - 1] = f[k - 1] => after[k] = f[k]
    BY <1>10, <2>2
  <2>4. QED
    BY <1>8, <1>9, <2>1, <2>3, SameLoop
<1>15. f[N] = Reader(N + 1, listed(n))
  <2>1. N \in 0..N
    BY <1>8
  <2>2. CASE N <= n
    <3>1. N = n
      BY <1>1, <1>8, <2>2
    <3>2. f[N] = Reader(start[N] + 1, listed(N))
      BY <2>1, <2>2
    <3>3. start[N] = N
      BY <1>8, <3>1
    <3>4. QED
      BY <3>1, <3>2, <3>3
  <2>3. CASE ~ (N <= n)
    BY <2>1, <2>3
  <2>4. QED
    BY <2>2, <2>3
<1>16. ParseNumstat(Output(Numstat)) = Reader(N + 1, listed(n))
  <2> HIDE DEF after, f, listed
  <2>1. QED
    BY <1>3, <1>11, <1>14, <1>15
<1>17. QED
  BY <1>16 DEF Reader, n

----------------------------------------------------------------------------
(* The patches.                                                            *)

SectionParts == [path : Paths, body : {"plain", "secret", "binary"}]

\* The patch of a difference.
Patch(d) == [path |-> d.path, body |-> d.body]

LEMMA SectionsShape ==
    ASSUME NEW d \in Differences
    PROVE  /\ Sections(d) \in Seq(SectionParts) /\ Sections(d)[1] = Patch(d)
           /\ d.status = "T" => Len(Sections(d)) = 2
           /\ d.status # "T" => Len(Sections(d)) = 1
<1>1. Patch(d) \in SectionParts
  BY DifferenceShape DEF Patch, SectionParts
<1>2. Sections(d) = [k \in 1..(IF d.status = "T" THEN 2 ELSE 1) |-> Patch(d)]
  BY DEF Sections, Patch
<1>3. CASE d.status = "T"
  <2>1. Sections(d) \in [1..2 -> SectionParts]
    BY <1>1, <1>2, <1>3
  <2>2. QED
    BY <1>2, <1>3, <2>1
<1>4. CASE d.status # "T"
  <2>1. Sections(d) \in [1..1 -> SectionParts]
    BY <1>1, <1>2, <1>4
  <2>2. QED
    BY <1>2, <1>4, <2>1
<1>5. QED
  BY <1>3, <1>4

\* There are as many patches as changes exactly if no type has changed, and then each
\* is the patch of the change at its place.
LEMMA PatchesInStep ==
    ASSUME tree \in Turns
    PROVE  LET sections == Output(Sections)
           IN  /\ Len(sections) = Len(tree) =>
                    \A k \in 1..Len(tree) : tree[k].status # "T" /\ sections[k] = Patch(tree[k])
               /\ Len(sections) # Len(tree) => \E k \in 1..Len(tree) : tree[k].status = "T"
<1> DEFINE n == Len(tree)
           seqs == [k \in DOMAIN tree |-> Sections(tree[k])]
           sections == FlattenSeq(seqs)
<1>1. n \in Nat /\ DOMAIN tree = 1..n /\ tree \in [1..n -> Differences]
  BY TurnShape
<1>2. seqs \in [1..n -> Seq(SectionParts)] /\ \A k \in 1..n : seqs[k] = Sections(tree[k])
  BY <1>1, SectionsShape
<1>3. Output(Sections) = sections
  BY DEF Output
<1> HIDE DEF n, seqs
<1>4. \E start : Placed(n, seqs, sections, start)
  BY <1>1, <1>2, Places
<1>5. PICK start : Placed(n, seqs, sections, start)
  BY <1>4
<1>6. \A k \in 1..n : /\ tree[k].status = "T" => Len(seqs[k]) = 2
                      /\ tree[k].status # "T" => Len(seqs[k]) = 1
                      /\ seqs[k][1] = Patch(tree[k])
  BY <1>1, <1>2, SectionsShape
<1>7. \A k \in 0..n : start[k] >= k /\ start[n] - start[k] >= n - k
  <2>1. \A k \in 1..n : Len(seqs[k]) \in Nat \ {0}
    BY <1>6
  <2>2. QED
    BY <1>1, <1>5, <2>1, EntriesTakePlaces
<1> HIDE DEF sections
<1>8. /\ start \in [0..n -> Nat] /\ start[0] = 0 /\ start[n] = Len(sections)
      /\ \A k \in 1..n : /\ start[k] = start[k - 1] + Len(seqs[k])
                         /\ \A j \in 1..Len(seqs[k]) : sections[start[k - 1] + j] = seqs[k][j]
  BY <1>5 DEF Placed
<1>9. ASSUME Len(sections) = n, NEW k \in 1..n
      PROVE  tree[k].status # "T" /\ sections[k] = Patch(tree[k])
  <2>1. k \in 0..n /\ k - 1 \in 0..n
    BY <1>1
  <2>2. start[k] = k /\ start[k - 1] = k - 1
    <3>1. start[k] \in Nat /\ start[k - 1] \in Nat /\ start[n] = n
      BY <1>8, <1>9, <2>1
    <3>2. /\ start[k] >= k /\ start[n] - start[k] >= n - k
          /\ start[k - 1] >= k - 1 /\ start[n] - start[k - 1] >= n - (k - 1)
      BY <1>7, <2>1
    <3>3. QED
      BY <1>1, <3>1, <3>2
  <2>3. Len(seqs[k]) \in Nat \ {0} /\ start[k] = start[k - 1] + Len(seqs[k])
    BY <1>6, <1>8
  <2>4. Len(seqs[k]) = 1
    <3> DEFINE length == Len(seqs[k])
    <3>1. k = (k - 1) + length
      BY <2>2, <2>3
    <3>2. k \in Nat /\ length \in Nat
      BY <1>1, <2>3
    <3> HIDE DEF length
    <3>3. length = 1
      BY <3>1, <3>2
    <3>4. QED
      BY <3>3 DEF length
  <2>5. sections[start[k - 1] + 1] = seqs[k][1]
    <3>1. 1 \in 1..Len(seqs[k])
      BY <2>4
    <3>2. QED
      BY <1>8, <3>1
  <2>6. start[k - 1] + 1 = k
    BY <1>1, <2>2
  <2>7. QED
    BY <1>6, <2>4, <2>5, <2>6
<1>10. ASSUME \A k \in 1..n : tree[k].status # "T" PROVE Len(sections) = n
  <2> DEFINE g == [k \in 0..n |-> k]
  <2>1. ASSUME NEW k \in 1..n, start[k - 1] = g[k - 1] PROVE start[k] = g[k]
    <3>1. Len(seqs[k]) = 1
      BY <1>6, <1>10
    <3>2. g[k - 1] = k - 1 /\ g[k] = k
      BY <1>1
    <3>3. start[k] = start[k - 1] + 1
      BY <1>8, <3>1
    <3>4. QED
      BY <1>1, <2>1, <3>2, <3>3
  <2>2. start[0] = g[0] /\ g[n] = n
    BY <1>1, <1>8
  <2> HIDE DEF g
  <2>3. start[n] = g[n]
    BY <1>1, <2>1, <2>2, SameLoop
  <2>4. QED
    BY <1>8, <2>2, <2>3
<1>11. QED
  BY <1>3, <1>9, <1>10 DEF n

\* A change as it is handed to Prepare.
Full(d) == [path |-> d.path, old |-> d.old, status |-> d.status, binary |-> d.body = "binary",
            patch |-> IF d.body = "binary" THEN <<>> ELSE <<Patch(d)>>]

AllFull == {Full(d) : d \in ToSet(tree)}

LEMMA PatchesAreDealt ==
    ASSUME tree \in Turns, NEW sections,
           \A k \in 1..Len(tree) : sections[k] = Patch(tree[k]),
           changes = [k \in 1..Len(tree) |-> Bare(tree[k])],
           binary = {Lines(tree[k]) : k \in 1..Len(tree)}
    PROVE  ToSet(WithPatches(sections)) = AllFull
<1> DEFINE n == Len(tree)
           dealt == WithPatches(sections)
<1>1. n \in Nat /\ DOMAIN tree = 1..n /\ tree \in [1..n -> Differences]
  BY TurnShape
<1>2. DOMAIN changes = 1..n /\ DOMAIN dealt = 1..n
  BY DEF WithPatches
<1>3. ASSUME NEW k \in 1..n PROVE dealt[k] = Full(tree[k])
  <2> DEFINE d == tree[k]
  <2>1. changes[k] = Bare(d)
    OBVIOUS
  <2>2. changes[k].path = d.path
    BY <2>1 DEF Bare
  <2>3. [name |-> d.path, binary |-> TRUE] \in binary <=> d.body = "binary"
    <3>1. ASSUME [name |-> d.path, binary |-> TRUE] \in binary PROVE d.body = "binary"
      <4>1. PICK j \in 1..n : Lines(tree[j]) = [name |-> d.path, binary |-> TRUE]
        BY <3>1
      <4>2. tree[j].path = d.path /\ (tree[j].body = "binary") = TRUE
        BY <4>1 DEF Lines
      <4>3. j = k
        BY <1>1, <4>2, TurnShape
      <4>4. QED
        BY <4>2, <4>3
    <3>2. ASSUME d.body = "binary" PROVE [name |-> d.path, binary |-> TRUE] \in binary
      <4>1. (d.body = "binary") = TRUE
        BY <3>2
      <4>2. Lines(d) = [name |-> d.path, binary |-> TRUE]
        BY <4>1, Zenon DEF Lines
      <4>3. Lines(d) \in binary
        OBVIOUS
      <4>4. QED
        BY <4>2, <4>3
    <3>3. QED
      BY <3>1, <3>2
  <2>4. CASE d.body = "binary"
    <3>1. dealt[k] = [changes[k] EXCEPT !.binary = TRUE]
      BY <1>2, <2>2, <2>3, <2>4 DEF WithPatches
    <3>2. dealt[k] = [path |-> d.path, old |-> d.old, status |-> d.status, binary |-> TRUE, patch |-> <<>>]
      BY <2>1, <3>1 DEF Bare
    <3>3. (d.body = "binary") = TRUE
      BY <2>4
    <3>4. QED
      BY <2>4, <3>2, <3>3, Zenon DEF Full
  <2>5. CASE d.body # "binary"
    <3>1. dealt[k] = [changes[k] EXCEPT !.patch = <<sections[k]>>]
      BY <1>2, <2>2, <2>3, <2>5 DEF WithPatches
    <3>2. dealt[k] = [path |-> d.path, old |-> d.old, status |-> d.status, binary |-> FALSE,
                      patch |-> <<Patch(d)>>]
      BY <2>1, <3>1 DEF Bare
    <3>3. (d.body = "binary") = FALSE
      BY <2>5
    <3>4. QED
      BY <2>5, <3>2, <3>3, Zenon DEF Full
  <2>6. QED
    BY <2>4, <2>5
<1>4. ToSet(dealt) = {dealt[k] : k \in 1..n} /\ ToSet(tree) = {tree[k] : k \in 1..n}
  BY <1>1, <1>2 DEF ToSet
<1> HIDE DEF dealt, n
<1>5. {dealt[k] : k \in 1..n} = {Full(tree[k]) : k \in 1..n}
  BY <1>3
<1>6. {Full(tree[k]) : k \in 1..n} = {Full(d) : d \in {tree[k] : k \in 1..n}}
  OBVIOUS
<1>7. QED
  BY <1>4, <1>5, <1>6 DEF AllFull, dealt

----------------------------------------------------------------------------
(* The order of the paths.                                                 *)

\* Changes that can be sorted by their paths in one way only.
Distinct(cs) ==
    /\ IsFiniteSet(cs)
    /\ \A c \in cs : c.path \in Nat
    /\ \A c, e \in cs : c.path = e.path => c = e

UpTo(cs, c) == {e \in cs : e.path <= c.path}

Place(cs, c) == Cardinality(UpTo(cs, c))

\* A place is a number up to the number of changes, and a later path has a later place.
LEMMA PlaceOfChange ==
    ASSUME NEW cs, Distinct(cs), NEW c \in cs
    PROVE  /\ Place(cs, c) \in 1..Cardinality(cs)
           /\ \A e \in cs : e.path < c.path => Place(cs, e) < Place(cs, c)
<1>1. IsFiniteSet(cs) /\ Cardinality(cs) \in Nat
  BY FS_CardinalityType DEF Distinct
<1>2. \A e \in cs : /\ UpTo(cs, e) \in SUBSET cs /\ e \in UpTo(cs, e) /\ IsFiniteSet(UpTo(cs, e))
                    /\ Place(cs, e) \in Nat /\ Place(cs, e) <= Cardinality(cs) /\ Place(cs, e) # 0
  <2>1. TAKE e \in cs
  <2>2. UpTo(cs, e) \in SUBSET cs /\ e \in UpTo(cs, e)
    BY DEF UpTo, Distinct
  <2>3. IsFiniteSet(UpTo(cs, e)) /\ Cardinality(UpTo(cs, e)) <= Cardinality(cs)
    BY <1>1, <2>2, FS_Subset
  <2>4. Cardinality(UpTo(cs, e)) \in Nat /\ Cardinality(UpTo(cs, e)) # 0
    BY <2>2, <2>3, FS_CardinalityType, FS_EmptySet
  <2>5. QED
    BY <2>2, <2>3, <2>4 DEF Place
<1>3. ASSUME NEW e \in cs, e.path < c.path PROVE Place(cs, e) < Place(cs, c)
  <2>1. e.path \in Nat /\ c.path \in Nat /\ \A x \in cs : x.path \in Nat
    BY DEF Distinct
  <2>2. UpTo(cs, e) \in SUBSET UpTo(cs, c)
    BY <1>3, <2>1 DEF UpTo
  <2>3. c \in UpTo(cs, c) /\ c \notin UpTo(cs, e)
    BY <1>3, <2>1 DEF UpTo
  <2>4. Cardinality(UpTo(cs, e)) <= Cardinality(UpTo(cs, c))
    BY <1>2, <2>2, FS_Subset
  <2>5. Cardinality(UpTo(cs, e)) # Cardinality(UpTo(cs, c))
    BY <1>2, <2>2, <2>3, FS_Subset
  <2>6. QED
    BY <1>2, <2>4, <2>5 DEF Place
<1>4. QED
  BY <1>1, <1>2, <1>3

\* Every place is that of one change.
LEMMA OneForEachPlace ==
    ASSUME NEW cs, Distinct(cs)
    PROVE  /\ \A c, e \in cs : Place(cs, c) = Place(cs, e) => c = e
           /\ \A i \in 1..Cardinality(cs) : \E c \in cs : Place(cs, c) = i
<1> DEFINE n == Cardinality(cs)
           place == [c \in cs |-> Place(cs, c)]
<1>1. n \in Nat /\ IsFiniteSet(cs)
  BY FS_CardinalityType DEF Distinct
<1>2. place \in [cs -> 1..n]
  BY PlaceOfChange
<1>3. ASSUME NEW c \in cs, NEW e \in cs, Place(cs, c) = Place(cs, e) PROVE c = e
  <2>1. Place(cs, c) \in Nat /\ Place(cs, e) \in Nat /\ c.path \in Nat /\ e.path \in Nat
    BY <1>1, PlaceOfChange DEF Distinct
  <2>2. ~ (c.path < e.path) /\ ~ (e.path < c.path)
    BY <1>3, <2>1, PlaceOfChange
  <2>3. c.path = e.path
    BY <2>1, <2>2
  <2>4. QED
    BY <2>3 DEF Distinct
<1>4. place \in Injection(cs, 1..n)
  BY <1>2, <1>3 DEF Injection, IsInjective
<1>5. IsFiniteSet(1..n) /\ Cardinality(1..n) = n
  BY <1>1, FS_Interval
<1>6. place \in Surjection(cs, 1..n)
  <2> HIDE DEF n, place
  <2>1. Cardinality(cs) = Cardinality(1..n)
    BY <1>5 DEF n
  <2>2. QED
    BY <1>1, <1>4, <1>5, <2>1, FS_Injection
<1>7. \A i \in 1..n : \E c \in cs : place[c] = i
  BY <1>6 DEF Surjection
<1>8. QED
  BY <1>3, <1>7

\* A sequence of the changes in order.
InOrder(cs, s) ==
    /\ s \in [1..Cardinality(cs) -> cs]
    /\ \A i, j \in DOMAIN s : i < j => s[i].path < s[j].path

LEMMA SomeOrder ==
    ASSUME NEW cs, Distinct(cs)
    PROVE  \E s : InOrder(cs, s)
<1> DEFINE n == Cardinality(cs)
           s == [i \in 1..n |-> CHOOSE c \in cs : Place(cs, c) = i]
<1>1. n \in Nat /\ \A c \in cs : c.path \in Nat /\ Place(cs, c) \in 1..n
  BY FS_CardinalityType, PlaceOfChange DEF Distinct
<1>2. \A i \in 1..n : s[i] \in cs /\ Place(cs, s[i]) = i
  <2>1. TAKE i \in 1..n
  <2>2. \E c \in cs : Place(cs, c) = i
    BY OneForEachPlace
  <2>3. QED
    BY <2>2
<1>3. s \in [1..n -> cs] /\ DOMAIN s = 1..n
  BY <1>2
<1> HIDE DEF s, n
<1>4. ASSUME NEW i \in 1..n, NEW j \in 1..n, i < j PROVE s[i].path < s[j].path
  <2>1. s[i] \in cs /\ s[j] \in cs /\ Place(cs, s[i]) = i /\ Place(cs, s[j]) = j
    BY <1>2
  <2>2. s[i].path \in Nat /\ s[j].path \in Nat
    BY <1>1, <2>1
  <2>3. s[i].path # s[j].path
    BY <1>1, <1>4, <2>1 DEF Distinct
  <2>4. ~ (s[j].path < s[i].path)
    <3>1. s[j].path < s[i].path => Place(cs, s[j]) < Place(cs, s[i])
      BY <2>1, PlaceOfChange
    <3>2. QED
      BY <1>1, <1>4, <2>1, <3>1
  <2>5. QED
    BY <2>2, <2>3, <2>4
<1>5. QED
  BY <1>3, <1>4 DEF InOrder, n

\* In order, each change is at its place.
LEMMA OrderIsPlace ==
    ASSUME NEW cs, Distinct(cs), NEW s, InOrder(cs, s)
    PROVE  \A i \in 1..Cardinality(cs) : Place(cs, s[i]) = i
<1> DEFINE n == Cardinality(cs)
<1>1. n \in Nat /\ IsFiniteSet(cs) /\ \A c \in cs : c.path \in Nat
  BY FS_CardinalityType DEF Distinct
<1>2. s \in [1..n -> cs] /\ \A i, j \in 1..n : i < j => s[i].path < s[j].path
  BY DEF InOrder
<1> HIDE DEF n
<1>3. ASSUME NEW i \in 1..n, NEW j \in 1..n, s[i] = s[j] PROVE i = j
  <2>1. s[i].path \in Nat /\ s[j].path \in Nat
    BY <1>1, <1>2
  <2>2. ~ (i < j) /\ ~ (j < i)
    BY <1>2, <1>3, <2>1
  <2>3. QED
    BY <1>1, <2>2
<1>4. \A c \in cs : \E i \in 1..n : s[i] = c
  <2>1. s \in Injection(1..n, cs)
    BY <1>2, <1>3 DEF Injection, IsInjective
  <2>2. IsFiniteSet(1..n) /\ Cardinality(1..n) = Cardinality(cs)
    BY <1>1, FS_Interval DEF n
  <2>3. s \in Surjection(1..n, cs)
    BY <1>1, <2>1, <2>2, FS_Injection
  <2>4. QED
    BY <2>3 DEF Surjection
<1>5. ASSUME NEW i \in 1..n PROVE Place(cs, s[i]) = i
  <2> DEFINE first == [j \in 1..i |-> s[j]]
             some == UpTo(cs, s[i])
  <2>1. \A j \in 1..i : j \in 1..n
    BY <1>1
  <2>2. ASSUME NEW j \in 1..i PROVE s[j] \in some
    <3>1. j \in 1..n /\ (j = i \/ j < i)
      BY <1>1, <2>1
    <3>2. s[j] \in cs /\ s[i] \in cs /\ s[j].path \in Nat /\ s[i].path \in Nat
      BY <1>1, <1>2, <3>1
    <3>3. s[j].path <= s[i].path
      BY <1>2, <3>1, <3>2
    <3>4. QED
      BY <3>2, <3>3 DEF UpTo
  <2>3. \A a, b \in 1..i : s[a] = s[b] => a = b
    BY <1>3, <2>1
  <2>4. ASSUME NEW c \in some PROVE \E j \in 1..i : s[j] = c
    <3>1. c \in cs /\ c.path <= s[i].path
      BY DEF UpTo
    <3>2. PICK j \in 1..n : s[j] = c
      BY <1>4, <3>1
    <3>3. s[j].path \in Nat /\ s[i].path \in Nat
      BY <1>1, <1>2
    <3>4. ~ (s[i].path < s[j].path)
      BY <3>1, <3>2, <3>3
    <3>5. ~ (i < j)
      BY <1>2, <3>4
    <3>6. j \in 1..i
      BY <1>1, <3>5
    <3>7. QED
      BY <3>2, <3>6
  <2> HIDE DEF some
  <2>5. first \in Bijection(1..i, some)
    BY <2>2, <2>3, <2>4 DEF Bijection, Injection, IsInjective, Surjection
  <2>6. i \in Nat
    BY <1>1
  <2>7. IsFiniteSet(1..i) /\ Cardinality(1..i) = i
    BY <2>6, FS_Interval
  <2> HIDE DEF first
  <2>8. Cardinality(some) = i
    BY <2>5, <2>7, FS_Bijection DEF ExistsBijection
  <2>9. QED
    BY <2>8 DEF some, Place
<1>6. QED
  BY <1>5 DEF n

\* What ByPath returns.
LEMMA ByPathOrders ==
    ASSUME NEW cs, Distinct(cs)
    PROVE  /\ ByPath(cs) \in [1..Cardinality(cs) -> cs]
           /\ \A c \in cs : ByPath(cs)[Place(cs, c)] = c
<1> DEFINE n == Cardinality(cs)
           s == ByPath(cs)
<1>1. s = CHOOSE t \in [1..n -> cs] : \A i, j \in DOMAIN t : i < j => t[i].path < t[j].path
  BY DEF ByPath
<1>2. \E t \in [1..n -> cs] : \A i, j \in DOMAIN t : i < j => t[i].path < t[j].path
  BY SomeOrder DEF InOrder
<1> HIDE DEF s
<1>3. InOrder(cs, s)
  BY <1>1, <1>2, Zenon DEF InOrder
<1>4. s \in [1..n -> cs]
  BY <1>3 DEF InOrder
<1>5. ASSUME NEW c \in cs PROVE s[Place(cs, c)] = c
  <2>1. Place(cs, c) \in 1..n
    BY PlaceOfChange
  <2>2. s[Place(cs, c)] \in cs /\ Place(cs, s[Place(cs, c)]) = Place(cs, c)
    BY <1>3, <1>4, <2>1, OrderIsPlace
  <2>3. QED
    BY <2>2, OneForEachPlace
<1>6. QED
  BY <1>4, <1>5 DEF s

----------------------------------------------------------------------------
(* Which paths are included.                                               *)

LEMMA PathShape ==
    ASSUME NEW p \in Paths
    PROVE  PathList[p] \in Seq(STRING) /\ Len(PathList[p]) \in Nat \ {0}
<1>1. PathList[p] \in Seq(STRING) \ {<<>>}
  BY DiffAssumption DEF Paths
<1>2. QED
  BY <1>1

\* A pattern matches as README.md says it does.
LEMMA MatchIsCovered ==
    ASSUME NEW p \in Paths, NEW pattern \in Exclude
    PROVE  Match(pattern, PathList[p]) <=> Covered(pattern, PathList[p])
<1> DEFINE file == PathList[p]
           parts == pattern.parts
<1>1. file \in Seq(STRING) /\ Len(file) \in Nat \ {0} /\ DOMAIN file = 1..Len(file)
  BY PathShape
<1>2. parts \in Seq(STRING) /\ Len(parts) \in Nat \ {0} /\ DOMAIN parts = 1..Len(parts)
  <2>1. parts \in Seq(STRING) \ {<<>>}
    BY DiffAssumption
  <2>2. QED
    BY <2>1
<1> DEFINE Agree == \A k \in DOMAIN parts : parts[k] = "*" \/ parts[k] = file[k]
<1> HIDE DEF file, parts
<1>3. Glob(parts, file) <=> Len(parts) = Len(file) /\ Agree
  BY DEF Glob
<1>4. ASSUME NEW n \in DOMAIN file
      PROVE  Glob(parts, SubSeq(file, 1, n)) <=> Len(parts) = n /\ Agree
  <2> DEFINE begin == SubSeq(file, 1, n)
  <2>1. Len(begin) = n /\ \A k \in 1..n : begin[k] = file[k]
    BY <1>1
  <2> HIDE DEF begin
  <2>2. Len(parts) = n => \A k \in DOMAIN parts : begin[k] = file[k]
    BY <1>2, <2>1
  <2>3. Glob(parts, begin) <=> Len(parts) = n /\ Agree
    BY <2>1, <2>2 DEF Glob
  <2>4. QED
    BY <2>3 DEF begin
<1>5. CASE pattern.below
  <2>1. Match(pattern, file) <=> \E n \in DOMAIN file : Glob(parts, SubSeq(file, 1, n))
    BY <1>5 DEF Match, parts
  <2>2. Match(pattern, file) <=> \E n \in DOMAIN file : Len(parts) = n /\ Agree
    BY <1>4, <2>1
  <2>3. Len(parts) \in DOMAIN file <=> Len(file) >= Len(parts)
    BY <1>1, <1>2
  <2>4. Covered(pattern, file) <=> Len(file) >= Len(parts) /\ Agree
    BY <1>5 DEF Covered, parts
  <2> HIDE DEF Agree
  <2>5. QED
    BY <2>2, <2>3, <2>4 DEF file
<1>6. CASE ~pattern.below
  <2>1. Match(pattern, file) <=> Glob(parts, file)
    BY <1>6 DEF Match, parts
  <2>2. Covered(pattern, file) <=> Len(file) = Len(parts) /\ Agree
    BY <1>6 DEF Covered, parts
  <2>3. QED
    BY <1>3, <2>1, <2>2 DEF file
<1>7. QED
  BY <1>5, <1>6

LEMMA IncludedUnlessPrivate ==
    ASSUME NEW p \in Paths
    PROVE  Included(p) <=> ~Private(p)
<1>1. (\A pattern \in Exclude : ~Match(pattern, PathList[p]))
        <=> ~ \E pattern \in Exclude : Covered(pattern, PathList[p])
  BY MatchIsCovered
<1>2. ToSet(PathList[p]) \cap PrivateDirs = {}
        <=> ~ \E k \in DOMAIN PathList[p] : PathList[p][k] \in PrivateDirs
  BY DEF ToSet
<1>3. QED
  BY <1>1, <1>2 DEF Included, Private

----------------------------------------------------------------------------
(* What Prepare makes of the changes.                                      *)

LEMMA TurnIsFinite ==
    ASSUME tree \in Turns
    PROVE  /\ IsFiniteSet(Eligible) /\ Eligible \subseteq Differences
           /\ \A d, e \in ToSet(tree) : d.path = e.path => d = e
           /\ \A d \in ToSet(tree) : d \in Differences
<1> DEFINE n == Len(tree)
<1>1. /\ n \in Nat /\ DOMAIN tree = 1..n /\ tree \in [1..n -> Differences]
      /\ \A i, j \in 1..n : tree[i].path = tree[j].path => i = j
  BY TurnShape
<1>2. ToSet(tree) = {tree[k] : k \in 1..n}
  BY <1>1 DEF ToSet
<1>3. tree \in Surjection(1..n, ToSet(tree))
  BY <1>1, <1>2 DEF Surjection
<1>4. IsFiniteSet(1..n)
  BY <1>1, FS_Interval
<1>5. IsFiniteSet(ToSet(tree))
  BY <1>3, <1>4, FS_Surjection
<1>6. Eligible \in SUBSET ToSet(tree)
  BY DEF Eligible
<1>7. IsFiniteSet(Eligible)
  BY <1>5, <1>6, FS_Subset
<1>8. \A d \in ToSet(tree) : d \in Differences
  BY <1>1, <1>2
<1>9. QED
  BY <1>1, <1>2, <1>6, <1>7, <1>8

\* A difference and its change have the same body to send.
LEMMA BodyAsExpected ==
    ASSUME NEW d \in Differences
    PROVE  /\ Full(d).path = d.path /\ Full(d).old = d.old
           /\ Body(Full(d)) = Expected(d)
           /\ Expected(d).body \notin {"secret", "binary"}
           /\ Expected(d).path = d.path /\ Expected(d).old \in {NoPath, d.old}
           /\ Full(d).binary \/ Full(d).patch # <<>>
<1>1. CASE d.body = "binary"
  <2>1. Full(d).binary
    BY <1>1 DEF Full
  <2>2. Full(d).path = d.path /\ Full(d).old = d.old /\ Full(d).status = d.status
    BY DEF Full
  <2>3. Body(Full(d)) = [meta |-> TRUE, path |-> d.path, old |-> d.old, body |-> d.status]
    BY <2>1, <2>2, Zenon DEF Body
  <2>4. Expected(d) = [meta |-> TRUE, path |-> d.path, old |-> d.old, body |-> d.status]
    BY <1>1, Zenon DEF Expected
  <2>5. d.status \notin {"secret", "binary"}
    BY DifferenceShape
  <2>6. QED
    BY <2>1, <2>2, <2>3, <2>4, <2>5
<1>2. CASE d.body # "binary"
  <2>1. ~Full(d).binary /\ Full(d).patch = <<Patch(d)>>
    BY <1>2 DEF Full
  <2>2. Full(d).path = d.path /\ Full(d).old = d.old
    BY DEF Full
  <2>3. Full(d).patch[1] = Patch(d) /\ Patch(d).path = d.path /\ Patch(d).body = d.body
    BY <2>1 DEF Patch
  <2>4. Full(d).patch # <<>>
    BY <2>1
  <2> DEFINE body == IF d.body = "plain" THEN "plain" ELSE "redacted"
  <2>5. Redacted(d.body) = body
    BY <1>2, DifferenceShape DEF Redacted
  <2>6. Body(Full(d)) = [meta |-> FALSE, path |-> d.path, old |-> NoPath, body |-> body]
    <3> HIDE DEF body
    <3>1. QED
      BY <2>1, <2>3, <2>5, Zenon DEF Body
  <2>7. Expected(d) = [meta |-> FALSE, path |-> d.path, old |-> NoPath, body |-> body]
    BY <1>2, Zenon DEF Expected
  <2>8. QED
    BY <2>2, <2>4, <2>6, <2>7
<1>3. QED
  BY <1>1, <1>2

\* The changes that are kept are those of the eligible differences.
LEMMA KeptAreEligible ==
    ASSUME tree \in Turns
    PROVE  {c \in AllFull : Kept(c)} = {Full(d) : d \in Eligible}
<1>1. ASSUME NEW d \in ToSet(tree) PROVE Kept(Full(d)) <=> d \in Eligible
  <2>1. d \in Differences
    BY TurnIsFinite
  <2>2. Full(d).path = d.path /\ Full(d).old = d.old /\ (Full(d).binary \/ Full(d).patch # <<>>)
    BY <2>1, BodyAsExpected
  <2>3. d.path \in Paths /\ (d.old # NoPath => d.old \in Paths)
    BY <2>1, DifferenceShape
  <2>4. Included(d.path) <=> ~Private(d.path)
    BY <2>3, IncludedUnlessPrivate
  <2>5. d.old # NoPath => (Included(d.old) <=> ~Private(d.old))
    BY <2>3, IncludedUnlessPrivate
  <2>6. Kept(Full(d)) <=> Included(d.path) /\ (d.old # NoPath => Included(d.old))
    BY <2>2 DEF Kept
  <2>7. QED
    BY <2>4, <2>5, <2>6 DEF Eligible
<1>2. Eligible \subseteq ToSet(tree)
  BY DEF Eligible
<1>3. QED
  BY <1>1, <1>2 DEF AllFull

\* The names that may be sent.
Names == {Labels[p] : p \in (UNION {{d.path, d.old} : d \in Eligible}) \ {NoPath}}

Position(d) == Cardinality({e \in Eligible : e.path <= d.path})

\* The result of a turn that was listed.
Faithful(r) ==
    /\ r.class \in {"empty", "diff_too_large", "prepared"}
    /\ r.class = "prepared" =>
         /\ Len(r.bodies) = Cardinality(Eligible)
         /\ \A d \in Eligible : r.bodies[Position(d)] = Expected(d)
         /\ ToSet(r.bodies) = {Expected(d) : d \in Eligible}
         /\ r.files = Names
    /\ r.class # "prepared" => r.bodies = <<>> /\ r.files = {}
    /\ r.class = "empty" => Eligible = {}
    /\ r.class = "diff_too_large" => MaxBytes < Cardinality(Eligible) + Cardinality(Names)

LEMMA EligibleInOrder ==
    ASSUME tree \in Turns
    PROVE  LET kept == {Full(d) : d \in Eligible}
           IN  /\ Distinct(kept) /\ Cardinality(kept) = Cardinality(Eligible)
               /\ \A d \in Eligible : Place(kept, Full(d)) = Position(d)
<1> DEFINE kept == {Full(d) : d \in Eligible}
           full == [d \in Eligible |-> Full(d)]
<1>1. /\ IsFiniteSet(Eligible) /\ Eligible \subseteq Differences
      /\ \A d, e \in Eligible : d.path = e.path => d = e
  BY TurnIsFinite DEF Eligible
<1>2. \A d \in Eligible : Full(d).path = d.path /\ d.path \in Nat
  BY <1>1, BodyAsExpected, DifferenceShape, PathsAreNumbers
<1>3. full \in Bijection(Eligible, kept)
  BY <1>1, <1>2 DEF Bijection, Injection, IsInjective, Surjection
<1>4. IsFiniteSet(kept) /\ Cardinality(kept) = Cardinality(Eligible)
  <2> HIDE DEF full, kept
  <2>1. QED
    BY <1>1, <1>3, FS_Bijection DEF ExistsBijection
<1>5. Distinct(kept)
  BY <1>1, <1>2, <1>4 DEF Distinct
<1>6. ASSUME NEW d \in Eligible PROVE Place(kept, Full(d)) = Position(d)
  <2> DEFINE before == {e \in Eligible : e.path <= d.path}
             first == [e \in before |-> Full(e)]
  <2>1. UpTo(kept, Full(d)) = {Full(e) : e \in before}
    BY <1>2 DEF UpTo
  <2>2. first \in Bijection(before, UpTo(kept, Full(d)))
    BY <1>1, <1>2, <2>1 DEF Bijection, Injection, IsInjective, Surjection
  <2>3. before \in SUBSET Eligible
    OBVIOUS
  <2> HIDE DEF before, first, kept
  <2>4. IsFiniteSet(before)
    BY <1>1, <2>3, FS_Subset
  <2>5. Cardinality(UpTo(kept, Full(d))) = Cardinality(before)
    BY <2>2, <2>4, FS_Bijection DEF ExistsBijection
  <2>6. QED
    BY <2>5 DEF Place, Position, before
<1>7. QED
  BY <1>4, <1>5, <1>6

LEMMA NamesAreFinite ==
    ASSUME tree \in Turns
    PROVE  Cardinality(Names) \in Nat
<1> DEFINE all == {Labels[p] : p \in Paths}
           label == [p \in Paths |-> Labels[p]]
<1>1. \A d \in Eligible : d.path \in Paths /\ d.old \in Paths \cup {NoPath}
  BY TurnIsFinite, DifferenceShape
<1>2. Names \in SUBSET all
  BY <1>1 DEF Names
<1>3. Paths = 1..Len(PathList) /\ Len(PathList) \in Nat
  BY DiffAssumption DEF Paths
<1>4. IsFiniteSet(Paths)
  BY <1>3, FS_Interval
<1>5. label \in Surjection(Paths, all)
  BY DEF Surjection
<1> HIDE DEF all, label
<1>6. IsFiniteSet(all)
  BY <1>4, <1>5, FS_Surjection
<1>7. QED
  BY <1>2, <1>6, FS_Subset, FS_CardinalityType

\* Prepare selects the eligible differences and gives up for a reason.
LEMMA PrepareIsFaithful ==
    ASSUME tree \in Turns, NEW cs, ToSet(cs) = AllFull
    PROVE  Faithful(Prepare(cs))
<1> DEFINE S == {Full(d) : d \in Eligible}
           n == Cardinality(Eligible)
           kept == ByPath(S)
           bodies == [k \in DOMAIN kept |-> Body(kept[k])]
           files == {Labels[p] : p \in (UNION {{c.path, c.old} : c \in ToSet(kept)}) \ {NoPath}}
           made == IF files = {} THEN Outcome("empty", {}, <<>>)
                   ELSE IF Total(bodies, files) > MaxBytes THEN Outcome("diff_too_large", {}, <<>>)
                   ELSE Outcome("prepared", files, bodies)
<1>1. {c \in ToSet(cs) : Kept(c)} = S
  BY KeptAreEligible
<1>2. Prepare(cs) = made
  <2> HIDE DEF S
  <2>1. QED
    BY <1>1 DEF Prepare
<1>3. /\ Distinct(S) /\ Cardinality(S) = n /\ n \in Nat
      /\ \A d \in Eligible : Place(S, Full(d)) = Position(d)
  BY EligibleInOrder, TurnIsFinite, FS_CardinalityType
<1>4. Eligible \subseteq Differences
  BY TurnIsFinite
<1> HIDE DEF S, n
<1>5. kept \in [1..n -> S] /\ \A c \in S : kept[Place(S, c)] = c
  BY <1>3, ByPathOrders
<1>6. \A c \in S : Place(S, c) \in 1..n
  BY <1>3, PlaceOfChange
<1> HIDE DEF kept
<1>7. DOMAIN kept = 1..n /\ ToSet(kept) = S
  <2>1. DOMAIN kept = 1..n
    BY <1>5
  <2>2. \A c \in S : \E k \in 1..n : kept[k] = c
    BY <1>5, <1>6
  <2>3. QED
    BY <1>5, <2>1, <2>2 DEF ToSet
<1>8. \A d \in Eligible : Full(d) \in S
  BY DEF S
<1>9. \A d \in Eligible : Position(d) \in 1..n /\ kept[Position(d)] = Full(d)
  BY <1>3, <1>5, <1>6, <1>8
<1>10. \A d \in Eligible : bodies[Position(d)] = Expected(d)
  BY <1>4, <1>7, <1>9, BodyAsExpected
<1>11. \A k \in 1..n : \E d \in Eligible : kept[k] = Full(d) /\ bodies[k] = Expected(d)
  <2>1. TAKE k \in 1..n
  <2>2. PICK d \in Eligible : kept[k] = Full(d)
    BY <1>5 DEF S
  <2>3. bodies[k] = Expected(d)
    BY <1>4, <1>7, <2>2, BodyAsExpected
  <2>4. QED
    BY <2>2, <2>3
<1>12. DOMAIN bodies = 1..n
  BY <1>7
<1>13. Len(bodies) = n
  BY <1>3, <1>12
<1>14. files = Names
  <2>1. UNION {{c.path, c.old} : c \in S} = UNION {{d.path, d.old} : d \in Eligible}
    BY <1>4, BodyAsExpected DEF S
  <2>2. QED
    BY <1>7, <2>1 DEF Names
<1> HIDE DEF bodies, files
<1>15. ToSet(bodies) = {Expected(d) : d \in Eligible}
  <2>1. ToSet(bodies) = {bodies[k] : k \in 1..n}
    BY <1>12 DEF ToSet
  <2>2. QED
    BY <1>9, <1>10, <1>11, <2>1
<1>16. Total(bodies, files) = Cardinality(files) + n
  <2>1. \A k \in 1..n : bodies[k].body \notin {"secret", "binary"}
    BY <1>4, <1>11, BodyAsExpected
  <2>2. {k \in DOMAIN bodies : bodies[k].body \in {"secret", "binary"}} = {}
    BY <1>12, <2>1
  <2>3. Cardinality({k \in DOMAIN bodies : bodies[k].body \in {"secret", "binary"}}) = 0
    BY <2>2, FS_EmptySet
  <2>4. Total(bodies, files) = Cardinality(files) + n + 2 * 0
    BY <1>13, <2>3 DEF Total
  <2>5. Cardinality(files) \in Nat
    BY <1>14, NamesAreFinite
  <2>6. QED
    BY <1>3, <2>4, <2>5
<1>17. files = {} => Eligible = {}
  <2>1. ASSUME NEW d \in Eligible PROVE Labels[d.path] \in Names
    <3>1. d.path # NoPath
      BY <1>4, DifferenceShape, PathsAreNumbers
    <3>2. QED
      BY <3>1 DEF Names
  <2>2. QED
    BY <1>14, <2>1
<1>18. \A c, f, b : /\ Outcome(c, f, b).class = c /\ Outcome(c, f, b).files = f
                    /\ Outcome(c, f, b).bodies = b
  BY DEF Outcome
<1>19. CASE files = {}
  <2>1. made = Outcome("empty", {}, <<>>)
    BY <1>19
  <2>2. QED
    BY <1>2, <1>17, <1>18, <1>19, <2>1 DEF Faithful
<1>20. CASE files # {} /\ Total(bodies, files) > MaxBytes
  <2>1. made = Outcome("diff_too_large", {}, <<>>)
    BY <1>20
  <2>2. MaxBytes < n + Cardinality(files)
    <3> DEFINE count == Cardinality(files)
    <3>1. count + n > MaxBytes
      BY <1>16, <1>20
    <3>2. count \in Nat /\ n \in Nat /\ MaxBytes \in Nat
      BY <1>3, <1>14, NamesAreFinite, DiffAssumption
    <3> HIDE DEF count
    <3>3. MaxBytes < n + count
      BY <3>1, <3>2
    <3>4. QED
      BY <3>3 DEF count
  <2>3. made.class = "diff_too_large" /\ made.bodies = <<>> /\ made.files = {}
    BY <1>18, <2>1
  <2>4. QED
    BY <1>2, <1>14, <2>2, <2>3 DEF Faithful, n
<1>21. CASE files # {} /\ ~ (Total(bodies, files) > MaxBytes)
  <2>1. made = Outcome("prepared", files, bodies)
    BY <1>21
  <2>2. made.class = "prepared" /\ made.bodies = bodies /\ made.files = Names
    BY <1>14, <1>18, <2>1
  <2> HIDE DEF made
  <2>3. QED
    BY <1>2, <1>10, <1>13, <1>15, <2>2 DEF Faithful, n
<1>22. QED
  BY <1>19, <1>20, <1>21

----------------------------------------------------------------------------
(* The invariant.                                                          *)

\* What has been read so far is the turn; what is decided has its reason.
TurnInv ==
    /\ tree \in Turns
    /\ pc \in {"names", "numstat", "patch", "prepare", "done"}
    /\ \A c \in ToSet(changes) : c.path \in Paths /\ c.old \in Paths \cup {NoPath}
    /\ \A e \in binary : e.name \in Paths
    /\ pc # "done" => result = Outcome("pending", {}, <<>>)
    /\ pc \in {"numstat", "patch"} => changes = [k \in 1..Len(tree) |-> Bare(tree[k])]
    /\ pc = "patch" => binary = {Lines(tree[k]) : k \in 1..Len(tree)}
    /\ pc = "prepare" => ToSet(changes) = AllFull
    /\ pc = "done" =>
         \/ Faithful(result)
         \/ faulted /\ result.class \in {"diff", "diff_too_large"}
                    /\ result.bodies = <<>> /\ result.files = {}
         \/ /\ \E d \in ToSet(tree) : d.status = "T"
            /\ result.class = "diff" /\ result.bodies = <<>> /\ result.files = {}

LEMMA InitTurnInv == Init => TurnInv
<1> SUFFICES ASSUME Init PROVE TurnInv
  OBVIOUS
<1>1. ToSet(<<>>) = {}
  BY DEF ToSet
<1>2. QED
  BY <1>1 DEF Init, TurnInv

LEMMA OutcomeShape ==
    ASSUME NEW c, NEW f, NEW b
    PROVE  Outcome(c, f, b).class = c /\ Outcome(c, f, b).files = f /\ Outcome(c, f, b).bodies = b
BY DEF Outcome

\* The changes listed for a turn hold paths of the turn.
LEMMA BareChanges ==
    ASSUME tree \in Turns, NEW cs, cs = [k \in 1..Len(tree) |-> Bare(tree[k])]
    PROVE  /\ \A c \in ToSet(cs) : c.path \in Paths /\ c.old \in Paths \cup {NoPath}
           /\ cs = <<>> => AllFull = {} /\ ToSet(cs) = {}
           /\ Len(cs) = Len(tree)
<1> DEFINE n == Len(tree)
<1>1. n \in Nat /\ DOMAIN tree = 1..n /\ tree \in [1..n -> Differences]
  BY TurnShape
<1>2. DOMAIN cs = 1..n /\ Len(cs) = n /\ ToSet(cs) = {Bare(tree[k]) : k \in 1..n}
  BY <1>1 DEF ToSet
<1>3. \A k \in 1..n : Bare(tree[k]).path \in Paths /\ Bare(tree[k]).old \in Paths \cup {NoPath}
  BY <1>1, DifferenceShape DEF Bare
<1>4. cs = <<>> => n = 0
  BY <1>1, <1>2
<1>5. ToSet(tree) = {tree[k] : k \in 1..n}
  BY <1>1 DEF ToSet
<1>6. n = 0 => ToSet(tree) = {} /\ ToSet(cs) = {}
  BY <1>2, <1>5
<1>7. n = 0 => AllFull = {}
  BY <1>6 DEF AllFull
<1>8. QED
  BY <1>2, <1>3, <1>4, <1>6, <1>7

LEMMA ListNamesInv ==
    ASSUME TurnInv, ListNames
    PROVE  TurnInv'
<1> DEFINE read == ParseNames(Output(NameStatus))
           listed == [k \in 1..Len(tree) |-> Bare(tree[k])]
<1>1. tree \in Turns /\ pc = "names" /\ UNCHANGED <<tree, binary, faulted>>
  BY DEF TurnInv, ListNames
<1>2. read.ok /\ read.listed = listed
  BY <1>1, NamesAreRead
<1>3. changes' = listed /\ pc' = IF listed = <<>> THEN "prepare" ELSE "numstat"
  <2> HIDE DEF listed
  <2>1. QED
    BY <1>2 DEF ListNames
<1>4. result' = Outcome("pending", {}, <<>>)
  BY <1>1, <1>2 DEF ListNames, TurnInv
<1> HIDE DEF listed, read
<1>5. /\ \A c \in ToSet(listed) : c.path \in Paths /\ c.old \in Paths \cup {NoPath}
      /\ listed = <<>> => AllFull = {} /\ ToSet(listed) = {}
  BY <1>1, BareChanges DEF listed
<1>6. \A e \in binary : e.name \in Paths
  BY DEF TurnInv
<1>7. ToSet(changes)' = ToSet(listed)
  BY <1>3 DEF ToSet
<1>8. CASE listed = <<>>
  <2>1. pc' = "prepare"
    BY <1>3, <1>8
  <2>2. AllFull' = AllFull
    BY <1>1 DEF AllFull, ToSet
  <2>3. QED
    BY <1>1, <1>4, <1>5, <1>6, <1>7, <1>8, <2>1, <2>2 DEF TurnInv
<1>9. CASE listed # <<>>
  <2>1. pc' = "numstat"
    BY <1>3, <1>9
  <2>2. changes' = [k \in 1..Len(tree') |-> Bare(tree'[k])]
    BY <1>1, <1>3 DEF listed
  <2>3. QED
    BY <1>1, <1>4, <1>5, <1>6, <1>7, <2>1, <2>2 DEF TurnInv
<1>10. QED
  BY <1>8, <1>9

LEMMA ListBinariesInv ==
    ASSUME TurnInv, ListBinaries
    PROVE  TurnInv'
<1> DEFINE read == ParseNumstat(Output(Numstat))
           listed == {Lines(tree[k]) : k \in 1..Len(tree)}
<1>1. tree \in Turns /\ pc = "numstat" /\ UNCHANGED <<tree, changes, faulted>>
  BY DEF TurnInv, ListBinaries
<1>2. read.ok /\ read.listed = listed
  BY <1>1, LinesAreRead
<1>3. binary' = listed /\ pc' = "patch" /\ UNCHANGED result
  <2> HIDE DEF listed
  <2>1. QED
    BY <1>2 DEF ListBinaries
<1>4. result' = Outcome("pending", {}, <<>>) /\ changes = [k \in 1..Len(tree) |-> Bare(tree[k])]
  BY <1>1, <1>3 DEF TurnInv
<1>5. \A e \in listed : e.name \in Paths
  <2>1. ASSUME NEW k \in 1..Len(tree) PROVE Lines(tree[k]).name \in Paths
    <3>1. tree[k] \in Differences
      BY <1>1, TurnShape
    <3>2. QED
      BY <3>1, DifferenceShape DEF Lines
  <2>2. QED
    BY <2>1
<1>6. binary' = {Lines(tree'[k]) : k \in 1..Len(tree')}
  BY <1>1, <1>3
<1>7. changes' = [k \in 1..Len(tree') |-> Bare(tree'[k])]
  BY <1>1, <1>4
<1>8. \A c \in ToSet(changes)' : c.path \in Paths /\ c.old \in Paths \cup {NoPath}
  BY <1>1 DEF TurnInv, ToSet
<1> HIDE DEF listed
<1>9. QED
  BY <1>1, <1>3, <1>4, <1>5, <1>6, <1>7, <1>8 DEF TurnInv

LEMMA ListPatchesInv ==
    ASSUME TurnInv, ListPatches
    PROVE  TurnInv'
<1> DEFINE sections == Output(Sections)
           dealt == WithPatches(sections)
<1>1. /\ tree \in Turns /\ pc = "patch" /\ UNCHANGED <<tree, binary, faulted>>
      /\ result = Outcome("pending", {}, <<>>)
      /\ changes = [k \in 1..Len(tree) |-> Bare(tree[k])]
      /\ binary = {Lines(tree[k]) : k \in 1..Len(tree)}
      /\ \A c \in ToSet(changes) : c.path \in Paths /\ c.old \in Paths \cup {NoPath}
      /\ \A e \in binary : e.name \in Paths
  BY DEF TurnInv, ListPatches
<1>2. Len(changes) = Len(tree)
  BY <1>1, BareChanges
<1>3. /\ Len(tree) \in Nat /\ DOMAIN tree = 1..Len(tree) /\ tree \in [1..Len(tree) -> Differences]
      /\ ToSet(tree) = {tree[k] : k \in 1..Len(tree)}
  BY <1>1, TurnShape DEF ToSet
<1>4. CASE Len(sections) # Len(tree)
  <2>1. pc' = "done" /\ result' = Outcome("diff", {}, <<>>) /\ UNCHANGED changes
    BY <1>2, <1>4 DEF ListPatches, Finish
  <2>2. \E d \in ToSet(tree) : d.status = "T"
    BY <1>1, <1>3, <1>4, PatchesInStep
  <2>3. (\E d \in ToSet(tree) : d.status = "T")'
    BY <1>1, <2>2 DEF ToSet
  <2>4. result'.class = "diff" /\ result'.bodies = <<>> /\ result'.files = {}
    BY <2>1, OutcomeShape
  <2>5. \A c \in ToSet(changes)' : c.path \in Paths /\ c.old \in Paths \cup {NoPath}
    BY <1>1, <2>1 DEF ToSet
  <2>6. QED
    BY <1>1, <2>1, <2>3, <2>4, <2>5 DEF TurnInv
<1>5. CASE Len(sections) = Len(tree)
  <2>1. changes' = ByPath(ToSet(dealt)) /\ pc' = "prepare" /\ UNCHANGED result
    BY <1>2, <1>5 DEF ListPatches
  <2>2. \A k \in 1..Len(tree) : sections[k] = Patch(tree[k])
    BY <1>1, <1>5, PatchesInStep
  <2> HIDE DEF sections
  <2>3. ToSet(dealt) = AllFull
    BY <1>1, <2>2, PatchesAreDealt
  <2>4. \A d \in ToSet(tree) : /\ Full(d).path = d.path /\ d.path \in Paths /\ d.path \in Nat
                               /\ Full(d).old = d.old /\ d.old \in Paths \cup {NoPath}
    BY <1>1, TurnIsFinite, BodyAsExpected, DifferenceShape, PathsAreNumbers
  <2>5. Distinct(AllFull)
    <3>1. \A d, e \in ToSet(tree) : d.path = e.path => d = e
      BY <1>1, TurnIsFinite
    <3> DEFINE full == [k \in 1..Len(tree) |-> Full(tree[k])]
    <3>2. full \in Surjection(1..Len(tree), AllFull)
      BY <1>3 DEF Surjection, AllFull
    <3>3. IsFiniteSet(1..Len(tree))
      BY <1>3, FS_Interval
    <3> HIDE DEF full
    <3>4. IsFiniteSet(AllFull)
      BY <3>2, <3>3, FS_Surjection
    <3>5. QED
      BY <2>4, <3>1, <3>4 DEF Distinct, AllFull
  <2> DEFINE s == ByPath(AllFull)
  <2>6. s \in [1..Cardinality(AllFull) -> AllFull] /\ \A c \in AllFull : s[Place(AllFull, c)] = c
    BY <2>5, ByPathOrders
  <2>7. \A c \in AllFull : Place(AllFull, c) \in 1..Cardinality(AllFull)
    BY <2>5, PlaceOfChange
  <2> HIDE DEF s, dealt
  <2>8. ToSet(s) = AllFull
    BY <2>6, <2>7 DEF ToSet
  <2>9. changes' = s
    BY <2>1, <2>3 DEF s
  <2>10. ToSet(changes)' = AllFull
    BY <2>8, <2>9 DEF ToSet
  <2>11. AllFull' = AllFull
    BY <1>1 DEF AllFull, ToSet
  <2>12. \A c \in AllFull : c.path \in Paths /\ c.old \in Paths \cup {NoPath}
    BY <2>4 DEF AllFull
  <2>13. QED
    BY <1>1, <2>1, <2>10, <2>11, <2>12 DEF TurnInv
<1>6. QED
  BY <1>4, <1>5

LEMMA SelectInv ==
    ASSUME TurnInv, Select
    PROVE  TurnInv'
<1>1. /\ tree \in Turns /\ ToSet(changes) = AllFull /\ pc' = "done" /\ result' = Prepare(changes)
      /\ UNCHANGED <<tree, changes, binary, faulted>>
  BY DEF TurnInv, Select, Finish
<1>2. Faithful(Prepare(changes))
  BY <1>1, PrepareIsFaithful
<1>3. Faithful(result')
  BY <1>1, <1>2
<1>4. Eligible' = Eligible
  BY <1>1 DEF Eligible, ToSet
<1>5. Faithful(result)'
  BY <1>1, <1>3, <1>4 DEF Faithful, Names, Position
<1>6. QED
  BY <1>1, <1>5 DEF TurnInv, ToSet

LEMMA FaultInv ==
    ASSUME TurnInv, NEW class \in {"diff", "diff_too_large"}, Fault(class)
    PROVE  TurnInv'
<1>1. /\ pc' = "done" /\ result' = Outcome(class, {}, <<>>) /\ faulted' = TRUE
      /\ UNCHANGED <<tree, changes, binary>>
  BY DEF Fault, Finish
<1>2. result'.class = class /\ result'.bodies = <<>> /\ result'.files = {}
  BY <1>1, OutcomeShape
<1>3. QED
  BY <1>1, <1>2 DEF TurnInv, ToSet

LEMMA StutterInv ==
    ASSUME TurnInv, UNCHANGED vars
    PROVE  TurnInv'
<1>1. UNCHANGED <<tree, pc, changes, binary, result, faulted>>
  BY DEF vars
<1>2. ToSet(changes)' = ToSet(changes) /\ ToSet(tree)' = ToSet(tree)
  BY <1>1 DEF ToSet
<1>3. AllFull' = AllFull /\ Eligible' = Eligible
  BY <1>1, <1>2 DEF AllFull, Eligible, ToSet
<1>4. Faithful(result)' <=> Faithful(result)
  <2>1. Faithful(result') <=> Faithful(result)
    BY <1>1
  <2>2. QED
    BY <1>1, <1>3, <2>1 DEF Faithful, Names, Position
<1>5. (\E d \in ToSet(tree) : d.status = "T")' <=> \E d \in ToSet(tree) : d.status = "T"
  BY <1>1, <1>2 DEF ToSet
<1>6. QED
  BY <1>1, <1>2, <1>3, <1>4, <1>5 DEF TurnInv

\* What a turn is taken for after each command is what Git listed, and its result is
\* faithful to it or has its reason.
THEOREM TurnInvariant == Spec => []TurnInv
<1>1. ASSUME TurnInv, [Next]_vars PROVE TurnInv'
  <2>1. CASE ListNames
    BY <1>1, <2>1, ListNamesInv
  <2>2. CASE ListBinaries
    BY <1>1, <2>2, ListBinariesInv
  <2>3. CASE ListPatches
    BY <1>1, <2>3, ListPatchesInv
  <2>4. CASE Select
    BY <1>1, <2>4, SelectInv
  <2>5. CASE \E class \in {"diff", "diff_too_large"} : Fault(class)
    BY <1>1, <2>5, FaultInv
  <2>6. CASE UNCHANGED vars
    BY <1>1, <2>6, StutterInv
  <2>7. QED
    BY <1>1, <2>1, <2>2, <2>3, <2>4, <2>5, <2>6 DEF Next
<1>2. QED
  BY <1>1, InitTurnInv, PTL DEF Spec

----------------------------------------------------------------------------
(* The properties.                                                         *)

\* Changes and the list of binary files hold paths of the two trees only.
THEOREM ListsHoldPaths == Spec => []TypeOK
<1>1. TurnInv => TypeOK
  <2> SUFFICES ASSUME TurnInv PROVE TypeOK
    OBVIOUS
  <2>1. result.class \in {"pending", "empty", "prepared", "diff", "diff_too_large"}
    <3>1. CASE pc # "done"
      BY <3>1, OutcomeShape DEF TurnInv
    <3>2. CASE pc = "done"
      BY <3>2 DEF TurnInv, Faithful
    <3>3. QED
      BY <3>1, <3>2
  <2>2. QED
    BY <2>1 DEF TurnInv, TypeOK
<1>2. QED
  BY <1>1, TurnInvariant, PTL

\* What a result is at any time.
LEMMA ResultKinds ==
    ASSUME TurnInv
    PROVE  \/ Faithful(result)
           \/ /\ result.class \in {"pending", "diff", "diff_too_large"}
              /\ result.bodies = <<>> /\ result.files = {}
BY OutcomeShape DEF TurnInv

\* What is sent is the turn: each eligible difference once, with its own patch, at the
\* place of its path.
THEOREM WholeTurnIsSent == Spec => []SentIsTheTurn
<1>1. TurnInv => SentIsTheTurn
  BY ResultKinds DEF SentIsTheTurn, Faithful, Position
<1>2. QED
  BY <1>1, TurnInvariant, PTL

\* Nothing of an excluded path leaves, through no rename either, nor does a body that
\* is binary or was not redacted.
THEOREM PrivateStays == Spec => []NothingPrivateLeaves
<1>1. ASSUME TurnInv PROVE NothingPrivateLeaves
  <2>1. tree \in Turns
    BY <1>1 DEF TurnInv
  <2>2. CASE result.class = "prepared"
    <3>1. ToSet(result.bodies) = {Expected(d) : d \in Eligible} /\ result.files = Names
      BY <1>1, <2>2, ResultKinds DEF Faithful
    <3>2. ASSUME NEW b \in ToSet(result.bodies)
          PROVE  /\ ~Private(b.path) /\ (b.old # NoPath => ~Private(b.old))
                 /\ \A d \in ToSet(tree) : d.path = b.path /\ d.old # NoPath => ~Private(d.old)
                 /\ b.body \notin {"secret", "binary"}
      <4>1. PICK d \in Eligible : b = Expected(d)
        BY <3>1
      <4>2. /\ b.path = d.path /\ b.old \in {NoPath, d.old} /\ b.body \notin {"secret", "binary"}
            /\ d \in ToSet(tree) /\ ~Private(d.path) /\ (d.old # NoPath => ~Private(d.old))
        BY <2>1, <4>1, BodyAsExpected, TurnIsFinite DEF Eligible
      <4>3. \A e \in ToSet(tree) : e.path = d.path => e = d
        BY <2>1, <4>2, TurnIsFinite
      <4>4. QED
        BY <4>2, <4>3
    <3>3. \A f \in Names : \E d \in Eligible : f \in {Labels[p] : p \in {d.path, d.old} \ {NoPath}}
      BY DEF Names
    <3>4. QED
      BY <3>1, <3>2, <3>3 DEF NothingPrivateLeaves
  <2>3. CASE result.class # "prepared"
    <3>1. result.bodies = <<>> /\ result.files = {}
      BY <1>1, <2>3, ResultKinds DEF Faithful
    <3>2. ToSet(result.bodies) = {}
      BY <3>1 DEF ToSet
    <3>3. QED
      BY <3>1, <3>2 DEF NothingPrivateLeaves
  <2>4. QED
    BY <2>2, <2>3
<1>2. QED
  BY <1>1, TurnInvariant, PTL

\* A turn is skipped for a command that failed, a change of type, a selection that is
\* empty or one that is too large when it is redacted, and for nothing else.
THEOREM SkipsHaveCauses == Spec => []SkippedForCause
<1>1. ASSUME TurnInv PROVE SkippedForCause
  <2>1. CASE pc # "done"
    BY <1>1, <2>1, OutcomeShape DEF TurnInv, SkippedForCause
  <2>2. CASE pc = "done"
    BY <1>1, <2>2 DEF TurnInv, SkippedForCause, Faithful, Names
  <2>3. QED
    BY <2>1, <2>2
<1>2. QED
  BY <1>1, TurnInvariant, PTL
================================================================================
