---------------------------- MODULE EvaluationProofs ---------------------------
(***************************************************************************)
(* Facts about the Stop of Evaluation and the notices of its session, for  *)
(* any questions, scores, hooks and classes and a configuration of any     *)
(* length:                                                                 *)
(*  - notices are shown at most once, with crashes and storage errors;     *)
(*  - a configuration is applied as it is written or not at all;           *)
(*  - a risk that is named is one of the three that come first.            *)
(***************************************************************************)
EXTENDS Evaluation, FiniteSetTheorems, TLAPS

----------------------------------------------------------------------------
(* The ledger of a session.                                                *)

\* Adding a class that MayAdd admits keeps the ledger finite and bounded.
LEMMA RoomForOne ==
    ASSUME NEW known, IsFiniteSet(known), NEW c, MayAdd(c, known)
    PROVE  /\ IsFiniteSet(Appended(c, known))
           /\ Cardinality(Appended(c, known)) <= MaxClasses
<1>1. Cardinality(known) \in Nat
  BY FS_CardinalityType
<1>2. Cardinality(Appended(c, known)) = Cardinality(known) + 1
  BY FS_AddElement DEF Appended, MayAdd
<1>3. QED
  BY <1>1, <1>2, FS_AddElement, NoticeAssumption DEF Appended, MayAdd

LEMMA InitIInv == Init => IInv
<1>1. IsFiniteSet({}) /\ Cardinality({}) = 0
  BY FS_EmptySet
<1>2. QED
  BY <1>1, NoticeAssumption DEF Init, IInv, TypeOK, Labels, LedgerBounded, Critical

\* One step per action of a hook.
LEMMA NextIInv == IInv /\ [Next]_vars => IInv'
<1> SUFFICES ASSUME IInv, [Next]_vars PROVE IInv'
  OBVIOUS
<1> USE NoticeAssumption DEF IInv, TypeOK, Labels, LedgerBounded, Critical, Goto
<1>1. CASE UNCHANGED vars
  BY <1>1 DEF vars, MayAdd
<1>2. ASSUME NEW h \in Hooks, Fail(h) PROVE IInv'
  BY <1>2 DEF Fail, MayAdd
<1>3. ASSUME NEW h \in Hooks, Lock(h) PROVE IInv'
  BY <1>3 DEF Lock, MayTake, MayAdd
<1>4. ASSUME NEW h \in Hooks, Read(h) PROVE IInv'
  BY <1>4 DEF Read, MayAdd
<1>5. ASSUME NEW h \in Hooks, Write(h) PROVE IInv'
  <2>1. view[h] = ledger /\ MayAdd(class[h], ledger) /\ ~emit[h] /\ lock = h
    BY <1>5 DEF Write
  <2>2. ledger' \in {ledger, Appended(class[h], ledger)}
    BY <1>5, <2>1 DEF Write
  <2>3. IsFiniteSet(ledger') /\ Cardinality(ledger') <= MaxClasses
    BY <2>1, <2>2, RoomForOne
  <2>4. TypeOK' /\ ledger \subseteq ledger'
    <3>1. Appended(class[h], ledger) \subseteq Classes
      BY DEF Appended
    <3>2. ledger \subseteq ledger'
      BY <2>2 DEF Appended
    <3>3. emit' \in [Hooks -> BOOLEAN] /\ pc' \in [Hooks -> Labels]
      BY <1>5 DEF Write
    <3>4. QED
      BY <1>5, <2>2, <3>1, <3>2, <3>3 DEF Write
  <2>5. emit'[h] => class[h] \in ledger' /\ class[h] \notin ledger
    BY <1>5, <2>1 DEF Write, Appended, MayAdd
  <2>6. /\ pc'[h] = "unlock"
        /\ \A g \in Hooks \ {h} :
             pc'[g] = pc[g] /\ emit'[g] = emit[g] /\ pc[g] # "write"
        /\ UNCHANGED <<lock, class, shown>>
    BY <1>5, <2>1 DEF Write
  <2>7. \A g \in Hooks \ {h} : emit[g] => class[g] \in ledger
    OBVIOUS
  <2>8. QED
    BY <2>1, <2>3, <2>4, <2>5, <2>6, <2>7 DEF MayAdd
<1>6. ASSUME NEW h \in Hooks, Unlock(h) PROVE IInv'
  BY <1>6 DEF Unlock, MayAdd
<1>7. ASSUME NEW h \in Hooks, Exit(h) PROVE IInv'
  BY <1>7 DEF Exit, MayAdd
<1>8. ASSUME NEW h \in Hooks, Crash(h) PROVE IInv'
  BY <1>8 DEF Crash, MayAdd
<1>9. QED
  BY <1>1, <1>2, <1>3, <1>4, <1>5, <1>6, <1>7, <1>8 DEF Next, Step

THEOREM NoticeInvariant == Spec => []IInv
BY InitIInv, NextIInv, PTL DEF Spec

\* A class is shown at most once in a session, and the ledger remembers it.
THEOREM NoticesShownOnce == Spec => []ShownOnce
<1>1. IInv => ShownOnce
  BY DEF IInv, ShownOnce
<1>2. QED
  BY <1>1, NoticeInvariant, PTL

\* The ledger never lists more classes than validClasses accepts.
THEOREM LedgerStaysBounded == Spec => []LedgerBounded
<1>1. IInv => LedgerBounded
  BY DEF IInv
<1>2. QED
  BY <1>1, NoticeInvariant, PTL

\* The ledger never forgets a class.
THEOREM LedgerNeverForgets == Spec => LedgerKept
<1>1. IInv /\ [Next]_vars => [ledger \subseteq ledger']_ledger
  BY DEF IInv, Next, Step, vars, Fail, Lock, Read, Write, Appended, Unlock, Exit, Crash
<1>2. QED
  BY <1>1, NoticeInvariant, PTL DEF Spec, LedgerKept

----------------------------------------------------------------------------
(* Induction over the members of a document.                               *)

LEMMA Precedes ==
    ASSUME NEW m \in Nat, NEW n \in Nat, m < n
    PROVE  <<m, n>> \in OpToRel(<, Nat)
BY DEF OpToRel

\* A set of numbers that holds 0 and the successor of each of its own holds them all.
LEMMA SetInduction ==
    ASSUME NEW S \in SUBSET Nat, 0 \in S, \A n \in S : n + 1 \in S
    PROVE  S = Nat
<1> DEFINE T == Nat \ S
<1>1. SUFFICES ASSUME T # {} PROVE FALSE
  OBVIOUS
<1>2. PICK x \in T : \A y \in T : ~ (<<y, x>> \in OpToRel(<, Nat))
  <2>1. T \subseteq Nat
    OBVIOUS
  <2>2. QED
    BY <1>1, <2>1, WFMin, NatLessThanWellFounded, Zenon
<1>3. x \in Nat /\ x # 0
  OBVIOUS
<1>4. x - 1 \in Nat /\ x - 1 < x /\ (x - 1) + 1 = x
  BY <1>3
<1>5. <<x - 1, x>> \in OpToRel(<, Nat)
  BY <1>3, <1>4, Precedes
<1>6. x - 1 \in S
  BY <1>2, <1>4, <1>5
<1>7. QED
  BY <1>3, <1>4, <1>6

Chained(f, n, base, step) == f[0] = base /\ \A k \in 1..n : f[k] = step[k][f[k - 1]]

\* A value that each of N steps carries on exists after every one of them.
LEMMA Chain ==
    ASSUME NEW N \in Nat, NEW T, NEW base \in T, NEW step \in [1..N -> [T -> T]]
    PROVE  \E f \in [0..N -> T] : Chained(f, N, base, step)
<1> DEFINE Good(n, f) == f[0] = base /\ \A k \in 1..n : f[k] = step[k][f[k - 1]]
           S == {n \in Nat : n <= N => \E f \in [0..n -> T] : Good(n, f)}
<1>1. 0 \in S
  <2>1. [k \in 0..0 |-> base] \in [0..0 -> T] /\ Good(0, [k \in 0..0 |-> base])
    OBVIOUS
  <2>2. QED
    BY <2>1
<1>2. ASSUME NEW n \in S PROVE n + 1 \in S
  <2>1. SUFFICES ASSUME n + 1 <= N PROVE \E f \in [0..n + 1 -> T] : Good(n + 1, f)
    OBVIOUS
  <2>2. PICK f \in [0..n -> T] : Good(n, f)
    BY <2>1
  <2> DEFINE g == [k \in 0..n + 1 |-> IF k = n + 1 THEN step[n + 1][f[n]] ELSE f[k]]
  <2>3. g \in [0..n + 1 -> T]
    BY <2>1
  <2>4. g[0] = base
    BY <2>2
  <2>5. ASSUME NEW k \in 1..n + 1 PROVE g[k] = step[k][g[k - 1]]
    <3>1. CASE k = n + 1
      BY <3>1
    <3>2. CASE k # n + 1
      <4>1. k \in 1..n /\ k \in 0..n + 1 /\ k - 1 \in 0..n + 1 /\ k - 1 # n + 1
        BY <3>2
      <4>2. g[k] = f[k] /\ g[k - 1] = f[k - 1]
        BY <3>2, <4>1
      <4>3. QED
        BY <2>2, <4>1, <4>2
    <3>3. QED
      BY <3>1, <3>2
  <2>6. QED
    BY <2>3, <2>4, <2>5
<1>3. S = Nat
  <2> HIDE DEF S
  <2>1. S \in SUBSET Nat
    BY DEF S
  <2>2. QED
    BY <1>1, <1>2, <2>1, SetInduction
<1>4. QED
  BY <1>3 DEF Chained

\* Some numbers up to n have a greatest one.
LEMMA GreatestOfSome ==
    ASSUME NEW n \in Nat, NEW some \in SUBSET (1..n), some # {}
    PROVE  \E last \in some : \A i \in some : i <= last
<1> DEFINE S == {m \in Nat : (\E i \in some : i <= m) => \E last \in some : last <= m /\ \A i \in some : i <= m => i <= last}
<1>1. 0 \in S
  OBVIOUS
<1>2. ASSUME NEW m \in S PROVE m + 1 \in S
  <2>1. CASE m + 1 \in some
    BY <2>1
  <2>2. CASE m + 1 \notin some
    <3>1. \A i \in some : i <= m + 1 <=> i <= m
      BY <2>2
    <3>2. QED
      BY <3>1
  <2>3. QED
    BY <2>1, <2>2
<1>3. S = Nat
  <2> HIDE DEF S
  <2>1. S \in SUBSET Nat
    BY DEF S
  <2>2. QED
    BY <1>1, <1>2, <2>1, SetInduction
<1>4. n \in S
  BY <1>3
<1>5. \A i \in some : i <= n
  OBVIOUS
<1>6. QED
  <2> HIDE DEF S
  <2>1. (\E i \in some : i <= n) => \E last \in some : last <= n /\ \A i \in some : i <= n => i <= last
    BY <1>4 DEF S
  <2>2. QED
    BY <1>5, <2>1

----------------------------------------------------------------------------
(* The settings of a configuration.                                        *)

Contents == (UNION {Values[f] : f \in Fields}) \cup {Defaults[f] : f \in Fields}

Settings == [Fields -> Contents]

LEMMA FieldNames == Fields = {"mode", "riskThreshold", "timeoutMs", "maxDiffBytes", "exclude"}
BY DEF Fields, Defaults

LEMMA DefaultsAreSettings == Defaults \in Settings
<1>1. Defaults = [f \in Fields |-> Defaults[f]]
  BY DEF Fields, Defaults
<1>2. \A f \in Fields : Defaults[f] \in Contents
  BY DEF Contents
<1>3. QED
  BY <1>1, <1>2 DEF Settings

\* What a member may be.
LEMMA MemberShape ==
    ASSUME NEW m \in Members
    PROVE  /\ m.name \in Fields \cup {"unknown"}
           /\ m.written = m.name \/ (m.written = "MODE" /\ m.name = "mode")
           /\ m.kind \in {"value", "null", "other type"}
           /\ m.kind = "value" /\ m.name \in Fields => m.value \in Values[m.name]
<1>1. \/ \E f \in Fields : \E v \in Values[f] : m = Member(f, f, "value", v)
      \/ \E v \in Values["mode"] : m = Member("mode", "MODE", "value", v)
      \/ \E f \in Fields : m = Member(f, f, "null", Defaults[f])
      \/ \E f \in Fields : m = Member(f, f, "other type", Defaults[f])
      \/ m = Member("mode", "MODE", "null", "assist")
      \/ m = Member("unknown", "unknown", "value", "")
  BY DEF Members
<1>2. "mode" \in Fields /\ "unknown" \notin Fields
  BY FieldNames
<1>3. \A f, w, k, v :
         m = Member(f, w, k, v) => m.name = f /\ m.written = w /\ m.kind = k /\ m.value = v
  BY DEF Member
<1>4. CASE \E f \in Fields : \E v \in Values[f] : m = Member(f, f, "value", v)
  <2>1. PICK f \in Fields : \E v \in Values[f] : m = Member(f, f, "value", v)
    BY <1>4
  <2>2. QED
    BY <1>3, <2>1
<1>5. CASE \E v \in Values["mode"] : m = Member("mode", "MODE", "value", v)
  BY <1>2, <1>3, <1>5
<1>6. CASE \E f \in Fields : m = Member(f, f, "null", Defaults[f])
  <2>1. m.name \in Fields /\ m.written = m.name /\ m.kind = "null"
    BY <1>3, <1>6
  <2>2. QED
    BY <2>1
<1>7. CASE \E f \in Fields : m = Member(f, f, "other type", Defaults[f])
  <2>1. m.name \in Fields /\ m.written = m.name /\ m.kind = "other type"
    BY <1>3, <1>7
  <2>2. QED
    BY <2>1
<1>8. CASE m = Member("mode", "MODE", "null", "assist")
  <2>1. m.name = "mode" /\ m.written = "MODE" /\ m.kind = "null"
    BY <1>3, <1>8
  <2>2. QED
    BY <1>2, <2>1
<1>9. CASE m = Member("unknown", "unknown", "value", "")
  BY <1>2, <1>3, <1>9
<1>10. QED
  BY <1>1, <1>4, <1>5, <1>6, <1>7, <1>8, <1>9

LEMMA AssignIsSettings ==
    ASSUME NEW s \in Settings, NEW m \in Members
    PROVE  Assign(s, m) \in Settings
<1>1. CASE m.kind = "value"
  <2>1. m.name \in Fields => m.value \in Contents
    BY <1>1, MemberShape DEF Contents
  <2>2. QED
    BY <1>1, <2>1 DEF Assign, Settings
<1>2. CASE m.kind # "value" /\ m.name = "exclude"
  <2>1. Defaults["exclude"] = "none" /\ "exclude" \in Fields
    BY FieldNames DEF Defaults
  <2>2. "none" \in Contents
    BY <2>1 DEF Contents
  <2>3. Assign(s, m) = [s EXCEPT !["exclude"] = "none"]
    BY <1>2, Zenon DEF Assign
  <2>4. QED
    BY <2>2, <2>3 DEF Settings
<1>3. CASE m.kind # "value" /\ m.name # "exclude"
  BY <1>3 DEF Assign
<1>4. QED
  BY <1>1, <1>2, <1>3

LEMMA DecodedSteps ==
    ASSUME NEW n \in Nat, NEW document \in [1..n -> Members]
    PROVE  /\ Len(document) = n
           /\ Decoded(document) \in [0..n -> Settings]
           /\ Decoded(document)[0] = Defaults
           /\ \A k \in 1..n :
                Decoded(document)[k] = Assign(Decoded(document)[k - 1], document[k])
<1> DEFINE Rule(f) == f = [k \in 0..n |-> IF k = 0 THEN Defaults ELSE Assign(f[k - 1], document[k])]
           step == [k \in 1..n |-> [s \in Settings |-> Assign(s, document[k])]]
<1>1. Len(document) = n
  OBVIOUS
<1>2. step \in [1..n -> [Settings -> Settings]]
  BY AssignIsSettings
<1>3. PICK f \in [0..n -> Settings] : f[0] = Defaults /\ \A k \in 1..n : f[k] = step[k][f[k - 1]]
  <2>1. \E f \in [0..n -> Settings] : Chained(f, n, Defaults, step)
    <3> HIDE DEF step
    <3>1. QED
      BY <1>2, DefaultsAreSettings, Chain
  <2>2. QED
    BY <2>1 DEF Chained
<1>4. \A k \in 1..n : f[k] = Assign(f[k - 1], document[k])
  <2>1. TAKE k \in 1..n
  <2>2. f[k - 1] \in Settings
    OBVIOUS
  <2>3. QED
    BY <1>3, <2>2
<1>5. Rule(f)
  BY <1>3, <1>4
<1>6. Decoded(document) = CHOOSE g : Rule(g)
  BY <1>1 DEF Decoded
<1>7. Rule(Decoded(document))
  BY <1>5, <1>6
<1> DEFINE after == Decoded(document)
           S == {k \in Nat : k <= n => after[k] \in Settings}
<1>8. /\ DOMAIN after = 0..n /\ after[0] = Defaults
      /\ \A k \in 1..n : after[k] = Assign(after[k - 1], document[k])
      /\ after = [k \in 0..n |-> after[k]]
  <2> HIDE DEF after
  <2>1. after = [k \in 0..n |-> IF k = 0 THEN Defaults ELSE Assign(after[k - 1], document[k])]
    BY <1>7 DEF after
  <2>2. QED
    BY <2>1
<1>9. S = Nat
  <2> HIDE DEF after
  <2>1. 0 \in S
    BY <1>8, DefaultsAreSettings
  <2>2. ASSUME NEW k \in S PROVE k + 1 \in S
    <3>1. SUFFICES ASSUME k + 1 <= n PROVE after[k + 1] \in Settings
      OBVIOUS
    <3>2. after[k + 1] = Assign(after[k], document[k + 1])
      <4>1. k + 1 \in 1..n /\ (k + 1) - 1 = k
        BY <3>1
      <4>2. QED
        BY <1>8, <4>1
    <3>3. after[k] \in Settings /\ document[k + 1] \in Members
      BY <3>1
    <3>4. QED
      BY <3>2, <3>3, AssignIsSettings
  <2>3. QED
    <3> HIDE DEF S
    <3>1. S \in SUBSET Nat
      BY DEF S
    <3>2. QED
      BY <2>1, <2>2, <3>1, SetInduction
<1>10. after \in [0..n -> Settings]
  <2> HIDE DEF after
  <2>1. \A k \in 0..n : after[k] \in Settings
    BY <1>9
  <2>2. QED
    BY <1>8, <2>1
<1>11. QED
  BY <1>1, <1>8, <1>10

\* What the settings are made of after k members: a field nothing names keeps its
\* default, the last member that names it decides unless it is null, and in any case
\* a field holds its default or what some member says.
Meant(document, k, settings) ==
    \A f \in Fields :
        /\ (\A i \in 1..k : document[i].name # f) => settings[f] = Defaults[f]
        /\ \A last \in 1..k :
             /\ document[last].name = f /\ document[last].kind = "value"
             /\ \A i \in last + 1..k : document[i].name # f
             => settings[f] = document[last].value
        /\ \/ settings[f] = Defaults[f]
           \/ \E i \in 1..k : /\ document[i].name = f /\ document[i].kind = "value"
                              /\ settings[f] = document[i].value

\* One more member.
LEMMA MeantStep ==
    ASSUME NEW n \in Nat, NEW document \in [1..n -> Members], NEW k \in Nat, k + 1 <= n,
           NEW settings \in Settings, Meant(document, k, settings)
    PROVE  Meant(document, k + 1, Assign(settings, document[k + 1]))
<1> DEFINE m == document[k + 1]
           next == Assign(settings, m)
<1> SUFFICES ASSUME NEW f \in Fields
             PROVE  /\ (\A i \in 1..k + 1 : document[i].name # f) => next[f] = Defaults[f]
                    /\ \A last \in 1..k + 1 :
                         /\ document[last].name = f /\ document[last].kind = "value"
                         /\ \A i \in last + 1..k + 1 : document[i].name # f
                         => next[f] = document[last].value
                    /\ \/ next[f] = Defaults[f]
                       \/ \E i \in 1..k + 1 : /\ document[i].name = f /\ document[i].kind = "value"
                                              /\ next[f] = document[i].value
  BY DEF Meant
<1>1. next[f] = IF m.name = f /\ m.kind = "value" THEN m.value
                ELSE IF f = "exclude" /\ m.name = f THEN "none" ELSE settings[f]
  <2>1. DOMAIN settings = Fields
    BY DEF Settings
  <2>2. CASE m.kind = "value"
    BY <2>1, <2>2 DEF Assign
  <2>3. CASE m.kind # "value" /\ m.name = "exclude"
    <3>1. next = [settings EXCEPT !["exclude"] = "none"]
      BY <2>3 DEF Assign
    <3>2. QED
      BY <2>1, <2>3, <3>1
  <2>4. CASE m.kind # "value" /\ m.name # "exclude"
    BY <2>4 DEF Assign
  <2>5. QED
    BY <2>2, <2>3, <2>4
<1>2. Defaults["exclude"] = "none"
  BY DEF Defaults
<1> HIDE DEF next
<1>3. k \in 0..k + 1 /\ 1..k + 1 = 1..k \cup {k + 1}
  OBVIOUS
<1>4. ASSUME \A i \in 1..k + 1 : document[i].name # f PROVE next[f] = Defaults[f]
  BY <1>1, <1>3, <1>4 DEF Meant
<1>5. ASSUME NEW last \in 1..k + 1, document[last].name = f, document[last].kind = "value",
             \A i \in last + 1..k + 1 : document[i].name # f
      PROVE  next[f] = document[last].value
  <2>1. CASE last = k + 1
    BY <1>1, <1>5, <2>1
  <2>2. CASE last \in 1..k
    <3>1. m.name # f
      BY <1>5, <2>2
    <3>2. \A i \in last + 1..k : document[i].name # f
      BY <1>5, <2>2
    <3>3. settings[f] = document[last].value
      BY <1>5, <2>2, <3>2 DEF Meant
    <3>4. QED
      BY <1>1, <3>1, <3>3
  <2>3. QED
    BY <1>3, <2>1, <2>2
<1>6. \/ next[f] = Defaults[f]
      \/ \E i \in 1..k + 1 : /\ document[i].name = f /\ document[i].kind = "value"
                             /\ next[f] = document[i].value
  <2>1. CASE m.name = f /\ m.kind = "value"
    BY <1>1, <2>1
  <2>2. CASE ~ (m.name = f /\ m.kind = "value") /\ f = "exclude" /\ m.name = f
    BY <1>1, <1>2, <2>2
  <2>3. CASE ~ (m.name = f /\ m.kind = "value") /\ ~ (f = "exclude" /\ m.name = f)
    <3>1. next[f] = settings[f]
      BY <1>1, <2>3
    <3>2. QED
      BY <1>3, <3>1 DEF Meant
  <2>4. QED
    BY <2>1, <2>2, <2>3
<1>7. QED
  BY <1>4, <1>5, <1>6

LEMMA DecodedAsMeant ==
    ASSUME NEW n \in Nat, NEW document \in [1..n -> Members]
    PROVE  Meant(document, n, Decoded(document)[n])
<1> DEFINE after == Decoded(document)
           S == {k \in Nat : k <= n => Meant(document, k, after[k])}
<1>1. /\ after \in [0..n -> Settings] /\ after[0] = Defaults
      /\ \A k \in 1..n : after[k] = Assign(after[k - 1], document[k])
  BY DecodedSteps
<1> HIDE DEF after
<1>2. 0 \in S
  <2>1. Meant(document, 0, Defaults)
    BY DEF Meant
  <2>2. QED
    BY <1>1, <2>1
<1>3. ASSUME NEW k \in S PROVE k + 1 \in S
  <2>1. SUFFICES ASSUME k + 1 <= n PROVE Meant(document, k + 1, after[k + 1])
    OBVIOUS
  <2>2. after[k + 1] = Assign(after[k], document[k + 1]) /\ after[k] \in Settings
    BY <1>1, <2>1
  <2>3. Meant(document, k, after[k])
    BY <2>1
  <2>4. QED
    BY <2>1, <2>2, <2>3, MeantStep
<1>4. S = Nat
  <2> HIDE DEF S
  <2>1. S \in SUBSET Nat
    BY DEF S
  <2>2. QED
    BY <1>2, <1>3, <2>1, SetInduction
<1>5. QED
  BY <1>4 DEF after

\* The limit of each setting.
Allowed(f, v) ==
    /\ f = "mode" => v \in {"assist", "report", "off"}
    /\ f = "riskThreshold" => 0 <= v /\ v <= 1000
    /\ f = "timeoutMs" => 1 <= v /\ v <= 60000
    /\ f = "maxDiffBytes" => 1 <= v /\ v <= 1048576
    /\ f = "exclude" => v \in {"none", "patterns"}

LEMMA ValidateByField ==
    ASSUME NEW s
    PROVE  Validate(s) <=> \A f \in Fields : Allowed(f, s[f])
<1>1. (\A f \in Fields : Allowed(f, s[f])) <=>
        /\ Allowed("mode", s["mode"]) /\ Allowed("riskThreshold", s["riskThreshold"])
        /\ Allowed("timeoutMs", s["timeoutMs"]) /\ Allowed("maxDiffBytes", s["maxDiffBytes"])
        /\ Allowed("exclude", s["exclude"])
  BY FieldNames
<1>2. Allowed("mode", s["mode"]) <=> s["mode"] \in {"assist", "report", "off"}
  BY DEF Allowed
<1>3. Allowed("riskThreshold", s["riskThreshold"])
      <=> 0 <= s["riskThreshold"] /\ s["riskThreshold"] <= 1000
  BY DEF Allowed
<1>4. Allowed("timeoutMs", s["timeoutMs"]) <=> 1 <= s["timeoutMs"] /\ s["timeoutMs"] <= 60000
  BY DEF Allowed
<1>5. Allowed("maxDiffBytes", s["maxDiffBytes"])
      <=> 1 <= s["maxDiffBytes"] /\ s["maxDiffBytes"] <= 1048576
  BY DEF Allowed
<1>6. Allowed("exclude", s["exclude"]) <=> s["exclude"] \in {"none", "patterns"}
  BY DEF Allowed
<1>7. QED
  BY <1>1, <1>2, <1>3, <1>4, <1>5, <1>6 DEF Validate

LEMMA DefaultsAreValid == \A f \in Fields : Allowed(f, Defaults[f])
<1>1. /\ Defaults["mode"] = "assist" /\ Defaults["riskThreshold"] = 850
      /\ Defaults["timeoutMs"] = 2000 /\ Defaults["maxDiffBytes"] = 65536
      /\ Defaults["exclude"] = "none"
  BY DEF Defaults
<1>2. Validate(Defaults)
  BY <1>1 DEF Validate
<1>3. QED
  BY <1>2, ValidateByField

LEMMA ValidateOne ==
    ASSUME NEW f \in Fields, NEW v
    PROVE  Validate([Defaults EXCEPT ![f] = v]) <=> Allowed(f, v)
<1> DEFINE s == [Defaults EXCEPT ![f] = v]
<1>1. \A g \in Fields : s[g] = IF g = f THEN v ELSE Defaults[g]
  BY DEF Fields
<1> HIDE DEF s
<1>2. (\A g \in Fields : Allowed(g, s[g])) <=> Allowed(f, v)
  BY <1>1, DefaultsAreValid
<1>3. Validate(s) <=> Allowed(f, v)
  BY <1>2, ValidateByField
<1>4. QED
  BY <1>3 DEF s

InForce(m) == m.kind = "value" /\ Validate([Defaults EXCEPT ![m.name] = m.value])

AsWritten(document, settings, f) ==
    LET named == {i \in DOMAIN document : document[i].name = f}
    IN  IF named = {} THEN settings[f] = Defaults[f]
        ELSE \E last \in named :
               /\ \A i \in named : i <= last
               /\ InForce(document[last])
               /\ settings[f] = document[last].value

\* A configuration that is accepted means what is written in it.
LEMMA AcceptedAsWritten ==
    ASSUME NEW document \in Documents, NEW loaded, loaded = LoadObject(document), loaded.ok,
           NEW f \in Fields
    PROVE  AsWritten(document, loaded.settings, f)
<1>1. PICK n \in Nat : document \in [1..n -> Members]
  BY EvaluationAssumption DEF Documents
<1> DEFINE settings == Decoded(document)[n]
           named == {i \in 1..n : document[i].name = f}
<1>2. Len(document) = n /\ DOMAIN document = 1..n /\ settings \in Settings
  BY <1>1, DecodedSteps
<1>3. Meant(document, n, settings)
  BY <1>1, DecodedAsMeant
<1> HIDE DEF settings
<1>4. /\ Decodes(document) /\ ~HasNull(document) /\ Validate(settings)
      /\ loaded.settings = settings
  BY <1>2 DEF LoadObject, Rejected, settings
<1>5. CASE named = {}
  <2>1. settings[f] = Defaults[f]
    BY <1>3, <1>5 DEF Meant
  <2>2. QED
    BY <1>2, <1>4, <1>5, <2>1 DEF AsWritten
<1>6. CASE named # {}
  <2>1. PICK last \in named : \A i \in named : i <= last
    BY <1>6, GreatestOfSome
  <2>2. document[last].name = f /\ \A i \in last + 1..n : document[i].name # f
    BY <2>1
  <2>3. document[last] \in Members /\ \A i \in 1..n : document[i] \in Members
    BY <1>1
  <2>4. document[last].kind # "other type"
    BY <1>2, <1>4 DEF Decodes
  <2>5. document[last].kind # "null"
    <3>1. SUFFICES ASSUME document[last].kind = "null" PROVE FALSE
      OBVIOUS
    <3>2. \A i \in last + 1..n : document[i].written # document[last].written
      <4>1. TAKE i \in last + 1..n
      <4>2. document[i] \in Members /\ document[i].name # f
        BY <2>2, <2>3
      <4>3. QED
        BY <2>2, <2>3, <4>2, MemberShape, FieldNames
    <3>3. HasNull(document)
      BY <1>2, <3>1, <3>2 DEF HasNull
    <3>4. QED
      BY <1>4, <3>3
  <2>6. document[last].kind = "value"
    BY <2>3, <2>4, <2>5, MemberShape
  <2>7. settings[f] = document[last].value
    BY <1>3, <2>2, <2>6 DEF Meant
  <2>8. InForce(document[last])
    BY <1>4, <2>2, <2>6, <2>7, ValidateByField, ValidateOne DEF InForce
  <2>9. QED
    BY <1>2, <1>4, <1>6, <2>1, <2>7, <2>8 DEF AsWritten
<1>7. QED
  BY <1>5, <1>6

\* A configuration that is refused holds something that is not accepted.
LEMMA RefusedForCause ==
    ASSUME NEW document \in Documents, ~LoadObject(document).ok
    PROVE  \E i \in DOMAIN document : document[i].name \in Fields => ~InForce(document[i])
<1>1. PICK n \in Nat : document \in [1..n -> Members]
  BY EvaluationAssumption DEF Documents
<1> DEFINE settings == Decoded(document)[n]
<1>2. Len(document) = n /\ DOMAIN document = 1..n /\ settings \in Settings
  BY <1>1, DecodedSteps
<1>3. Meant(document, n, settings)
  BY <1>1, DecodedAsMeant
<1> HIDE DEF settings
<1>4. ~Decodes(document) \/ HasNull(document) \/ ~Validate(settings)
  BY <1>2 DEF LoadObject, settings
<1>5. CASE ~Decodes(document)
  BY <1>5 DEF Decodes, InForce
<1>6. CASE HasNull(document)
  BY <1>6 DEF HasNull, InForce
<1>7. CASE ~Validate(settings)
  <2>1. PICK f \in Fields : ~Allowed(f, settings[f])
    BY <1>7, ValidateByField
  <2>2. settings[f] # Defaults[f]
    BY <2>1, DefaultsAreValid
  <2>3. PICK i \in 1..n : /\ document[i].name = f /\ document[i].kind = "value"
                          /\ settings[f] = document[i].value
    BY <1>3, <2>2 DEF Meant
  <2>4. ~InForce(document[i])
    BY <2>1, <2>3, ValidateOne DEF InForce
  <2>5. QED
    BY <1>2, <2>4
<1>8. QED
  BY <1>4, <1>5, <1>6, <1>7

----------------------------------------------------------------------------
(* The Stop of a session.                                                  *)

Given == [ok |-> TRUE, settings |-> Defaults]

IsLoaded(loaded) ==
    loaded \in {Given, Rejected} \/ \E document \in Documents : loaded = LoadObject(document)

StopInv ==
    /\ stop = [phase |-> stop.phase, file |-> stop.file, document |-> stop.document,
               loaded |-> stop.loaded, reply |-> stop.reply, verdict |-> stop.verdict]
    /\ stop.phase \in {"config", "loaded", "request", "decided", "over"}
    /\ stop.phase \in {"config", "loaded"} =>
         /\ stop.file \in Files /\ stop.document \in Documents
         /\ stop.file # "object" => stop.document = <<>>
    /\ stop.phase = "loaded" => stop.loaded = Load(stop.file, stop.document)
    /\ stop.phase = "request" => IsLoaded(stop.loaded)
    /\ stop.phase = "decided" /\ stop.loaded.ok =>
         /\ IsLoaded(stop.loaded) /\ stop.reply \in Replies
         /\ stop.verdict = Verdict(stop.loaded.settings, stop.reply)

LEMMA SessionInitInv == SessionInit => StopInv
<1> SUFFICES ASSUME SessionInit PROVE StopInv
  OBVIOUS
<1>1. PICK file \in Files, document \in Documents :
         /\ file # "object" => document = <<>>
         /\ stop = [Over EXCEPT !.phase = "config", !.file = file, !.document = document]
  BY DEF SessionInit
<1>2. stop = [phase |-> "config", file |-> file, document |-> document, loaded |-> Rejected,
              reply |-> NoReply, verdict |-> Silent]
  BY <1>1, Zenon DEF Over
<1>3. /\ stop = [phase |-> stop.phase, file |-> stop.file, document |-> stop.document,
                 loaded |-> stop.loaded, reply |-> stop.reply, verdict |-> stop.verdict]
      /\ stop.phase = "config" /\ stop.file = file /\ stop.document = document
  BY <1>2
<1>4. QED
  BY <1>1, <1>3 DEF StopInv

\* One step per action of the Stop.
LEMMA SessionNextInv == StopInv /\ [SessionNext]_session => StopInv'
<1> SUFFICES ASSUME StopInv, [SessionNext]_session PROVE StopInv'
  OBVIOUS
<1>1. CASE UNCHANGED session
  BY <1>1 DEF session, StopInv
<1>2. CASE LoadConfig
  <2>1. stop' = [phase |-> "loaded", file |-> stop.file, document |-> stop.document,
                 loaded |-> Load(stop.file, stop.document),
                 reply |-> stop.reply, verdict |-> stop.verdict]
    BY <1>2 DEF LoadConfig, StopInv
  <2>2. /\ stop.file \in Files /\ stop.document \in Documents
        /\ stop.file # "object" => stop.document = <<>>
    BY <1>2 DEF LoadConfig, StopInv
  <2>3. QED
    BY <2>1, <2>2 DEF StopInv
<1>3. ASSUME NEW key \in BOOLEAN, Proceed(key) PROVE StopInv'
  <2>1. IsLoaded(stop.loaded)
    BY <1>3 DEF Proceed, StopInv, IsLoaded, Load, Files, Given
  <2>2. \/ \E v : stop' = [phase |-> "decided", file |-> "absent", document |-> <<>>, loaded |-> Rejected,
                           reply |-> NoReply, verdict |-> v]
        \/ stop' = Over
        \/ stop' = [phase |-> "request", file |-> "absent", document |-> <<>>, loaded |-> stop.loaded,
                    reply |-> NoReply, verdict |-> Silent]
    BY <1>3, Zenon DEF Proceed, Over
  <2>3. CASE \E v : stop' = [phase |-> "decided", file |-> "absent", document |-> <<>>, loaded |-> Rejected,
                             reply |-> NoReply, verdict |-> v]
    BY <2>3 DEF StopInv, Rejected
  <2>4. CASE stop' = Over
    BY <2>4 DEF StopInv, Over
  <2>5. CASE stop' = [phase |-> "request", file |-> "absent", document |-> <<>>, loaded |-> stop.loaded,
                      reply |-> NoReply, verdict |-> Silent]
    BY <2>1, <2>5 DEF StopInv, IsLoaded
  <2>6. QED
    BY <2>2, <2>3, <2>4, <2>5
<1>4. CASE Answer
  <2>1. PICK reply \in Replies :
           stop' = [stop EXCEPT !.phase = "decided", !.reply = reply,
                                !.verdict = Verdict(stop.loaded.settings, reply)]
    BY <1>4 DEF Answer
  <2>2. stop' = [phase |-> "decided", file |-> stop.file, document |-> stop.document,
                 loaded |-> stop.loaded, reply |-> reply, verdict |-> Verdict(stop.loaded.settings, reply)]
    BY <2>1 DEF StopInv
  <2>3. IsLoaded(stop.loaded)
    BY <1>4 DEF Answer, StopInv
  <2>4. QED
    BY <2>2, <2>3 DEF StopInv, IsLoaded
<1>5. ASSUME NEW h \in Hooks, Finish(h) PROVE StopInv'
  BY <1>5 DEF Finish, StopInv, Over
<1>6. CASE Later
  BY <1>6 DEF Later, StopInv
<1>7. QED
  BY <1>1, <1>2, <1>3, <1>4, <1>5, <1>6 DEF SessionNext

THEOREM SessionInvariant == SessionSpec => []StopInv
BY SessionInitInv, SessionNextInv, PTL DEF SessionSpec

\* A setting is the last that is written for it, or its default where none is, and a
\* configuration with anything that is not accepted is refused as a whole.
THEOREM ConfiguredAsWritten == SessionSpec => []AppliedAsWritten
<1>1. StopInv => AppliedAsWritten
  <2>1. SUFFICES ASSUME StopInv, stop.phase = "loaded" PROVE AppliedAsWritten
    BY DEF AppliedAsWritten
  <2>2. /\ stop.file \in Files /\ stop.document \in Documents
        /\ stop.file # "object" => stop.document = <<>>
        /\ stop.loaded = Load(stop.file, stop.document)
    BY <2>1 DEF StopInv
  <2>3. CASE stop.loaded.ok
    <3>1. stop.file # "unusable"
      BY <2>2, <2>3 DEF Load, Rejected
    <3>2. \A f \in Fields : AsWritten(stop.document, stop.loaded.settings, f)
      <4>1. CASE stop.file = "absent"
        <5>1. stop.loaded.settings = Defaults /\ DOMAIN stop.document = {}
          BY <2>2, <4>1 DEF Load
        <5>2. QED
          BY <5>1 DEF AsWritten
      <4>2. CASE stop.file = "object"
        <5>1. stop.loaded = LoadObject(stop.document)
          BY <2>2, <4>2 DEF Load
        <5>2. QED
          BY <2>2, <2>3, <5>1, AcceptedAsWritten, Zenon
      <4>3. QED
        BY <2>2, <3>1, <4>1, <4>2 DEF Files
    <3>3. QED
      BY <2>3, <3>1, <3>2, Zenon DEF AppliedAsWritten, AsWritten, InForce
  <2>4. CASE ~stop.loaded.ok
    <3>1. CASE stop.file = "object"
      <4>1. ~LoadObject(stop.document).ok
        BY <2>2, <2>4, <3>1 DEF Load
      <4>2. \E i \in DOMAIN stop.document :
               stop.document[i].name \in Fields => ~InForce(stop.document[i])
        BY <2>2, <4>1, RefusedForCause, Zenon
      <4>3. QED
        BY <2>4, <4>2, Zenon DEF AppliedAsWritten, InForce
    <3>2. CASE stop.file = "unusable"
      BY <2>4, <3>2, Zenon DEF AppliedAsWritten
    <3>3. stop.file # "absent"
      BY <2>2, <2>4 DEF Load
    <3>4. QED
      BY <2>2, <3>1, <3>2, <3>3 DEF Files
  <2>5. QED
    BY <2>3, <2>4
<1>2. QED
  BY <1>1, SessionInvariant, PTL

----------------------------------------------------------------------------
(* The risks a verdict names.                                              *)

\* Items before q, and how many they are.
Earlier(scores, items, q) == {r \in items : Before(scores, r, q)}

Rank(scores, items, q) == Cardinality(Earlier(scores, items, q))

\* Finitely many items with a score each.
Scored(scores, items) ==
    items \subseteq Nat /\ IsFiniteSet(items) /\ \A q \in items : scores[q] \in Int

\* Questions come in a total order.
LEMMA BeforeOrder ==
    ASSUME NEW scores, NEW items, Scored(scores, items)
    PROVE  /\ \A q \in items : ~Before(scores, q, q)
           /\ \A q, r \in items : q = r \/ Before(scores, q, r) \/ Before(scores, r, q)
           /\ \A p, q, r \in items :
                Before(scores, p, q) /\ Before(scores, q, r) => Before(scores, p, r)
BY DEF Scored, Before

LEMMA RankOfItem ==
    ASSUME NEW scores, NEW items, Scored(scores, items), NEW q \in items
    PROVE  /\ Rank(scores, items, q) \in 0..Cardinality(items) - 1
           /\ \A r \in items : Before(scores, r, q) <=> Rank(scores, items, r) < Rank(scores, items, q)
<1>1. IsFiniteSet(items) /\ Cardinality(items) \in Nat
  BY FS_CardinalityType DEF Scored
<1>2. \A r \in items : IsFiniteSet(Earlier(scores, items, r)) /\ Rank(scores, items, r) \in Nat
  <2>1. TAKE r \in items
  <2>2. Earlier(scores, items, r) \in SUBSET items
    BY DEF Earlier
  <2>3. QED
    BY <1>1, <2>2, FS_Subset, FS_CardinalityType DEF Rank
<1>3. ASSUME NEW r \in items, NEW t \in items, Before(scores, r, t)
      PROVE  Rank(scores, items, r) < Rank(scores, items, t)
  <2>1. Earlier(scores, items, r) \in SUBSET Earlier(scores, items, t)
    BY <1>3, BeforeOrder DEF Earlier
  <2>2. r \in Earlier(scores, items, t) /\ r \notin Earlier(scores, items, r)
    BY <1>3, BeforeOrder DEF Earlier
  <2>3. Cardinality(Earlier(scores, items, r)) <= Cardinality(Earlier(scores, items, t))
    BY <1>2, <2>1, FS_Subset
  <2>4. Cardinality(Earlier(scores, items, r)) # Cardinality(Earlier(scores, items, t))
    BY <1>2, <2>1, <2>2, FS_Subset
  <2>5. QED
    BY <1>2, <2>3, <2>4 DEF Rank
<1>4. Rank(scores, items, q) < Cardinality(items)
  <2>1. Earlier(scores, items, q) \in SUBSET items /\ q \notin Earlier(scores, items, q)
    BY BeforeOrder DEF Earlier
  <2>2. Cardinality(Earlier(scores, items, q)) <= Cardinality(items)
    BY <1>1, <2>1, FS_Subset
  <2>3. Cardinality(Earlier(scores, items, q)) # Cardinality(items)
    BY <1>1, <2>1, FS_Subset
  <2>4. QED
    BY <1>1, <1>2, <2>2, <2>3 DEF Rank
<1>5. ASSUME NEW r \in items PROVE Before(scores, r, q) <=> Rank(scores, items, r) < Rank(scores, items, q)
  <2>1. CASE Before(scores, r, q)
    BY <1>3, <2>1
  <2>2. CASE r = q
    BY <1>2, <2>2, BeforeOrder
  <2>3. CASE Before(scores, q, r)
    <3>1. ~Before(scores, r, q)
      BY <2>3, BeforeOrder
    <3>2. Rank(scores, items, q) < Rank(scores, items, r)
      BY <1>3, <2>3
    <3>3. QED
      BY <1>2, <3>1, <3>2
  <2>4. QED
    BY <2>1, <2>2, <2>3, BeforeOrder
<1>6. QED
  BY <1>1, <1>2, <1>4, <1>5

\* The ranks of the items are the numbers below their count, each once.
LEMMA RankIsBijection ==
    ASSUME NEW scores, NEW items, Scored(scores, items)
    PROVE  /\ \A q, r \in items : Rank(scores, items, q) = Rank(scores, items, r) => q = r
           /\ \A k \in 0..Cardinality(items) - 1 : \E q \in items : Rank(scores, items, q) = k
<1> DEFINE n == Cardinality(items)
           rank == [q \in items |-> Rank(scores, items, q)]
<1>1. n \in Nat /\ IsFiniteSet(items)
  BY FS_CardinalityType DEF Scored
<1>2. rank \in [items -> 0..n - 1]
  BY RankOfItem
<1>3. ASSUME NEW q \in items, NEW r \in items, Rank(scores, items, q) = Rank(scores, items, r)
      PROVE  q = r
  <2>1. Rank(scores, items, q) \in Nat /\ Rank(scores, items, r) \in Nat
    BY <1>1, RankOfItem
  <2>2. ~Before(scores, q, r) /\ ~Before(scores, r, q)
    BY <1>3, <2>1, RankOfItem
  <2>3. QED
    BY <2>2, BeforeOrder
<1>4. rank \in Injection(items, 0..n - 1)
  <2>1. \A q, r \in items : rank[q] = rank[r] => q = r
    BY <1>3
  <2> HIDE DEF n, rank
  <2>2. DOMAIN rank = items
    BY <1>2
  <2>3. IsInjective(rank)
    BY <2>1, <2>2, Zenon DEF IsInjective
  <2>4. QED
    BY <1>2, <2>3, Zenon DEF Injection
<1>5. IsFiniteSet(0..n - 1) /\ Cardinality(0..n - 1) = n
  <2> HIDE DEF n
  <2>1. 0 \in Int /\ n - 1 \in Int /\ (n = 0 => 0 > n - 1) /\ (n # 0 => ~ (0 > n - 1))
    BY <1>1
  <2>2. (n - 1) - 0 + 1 = n
    BY <1>1
  <2>3. QED
    BY <1>1, <2>1, <2>2, FS_Interval
<1>6. rank \in Surjection(items, 0..n - 1)
  <2> HIDE DEF n, rank
  <2>1. Cardinality(items) = Cardinality(0..n - 1)
    BY <1>5 DEF n
  <2>2. QED
    BY <1>4, <1>5, <2>1, FS_Injection
<1>7. \A k \in 0..n - 1 : \E q \in items : rank[q] = k
  BY <1>6 DEF Surjection
<1>8. QED
  BY <1>3, <1>7

\* The items in order: each is at the place of its rank.
InOrder(scores, items, s) ==
    /\ s \in [1..Cardinality(items) -> items]
    /\ \A i, j \in DOMAIN s : i < j => Before(scores, s[i], s[j])

LEMMA SomeOrder ==
    ASSUME NEW scores, NEW items, Scored(scores, items)
    PROVE  \E s : InOrder(scores, items, s)
<1> DEFINE n == Cardinality(items)
           s == [i \in 1..n |-> CHOOSE q \in items : Rank(scores, items, q) = i - 1]
<1>1. n \in Nat
  BY FS_CardinalityType DEF Scored
<1>2. \A i \in 1..n : s[i] \in items /\ Rank(scores, items, s[i]) = i - 1
  <2>1. TAKE i \in 1..n
  <2>2. i - 1 \in 0..n - 1
    BY <1>1
  <2>3. \E q \in items : Rank(scores, items, q) = i - 1
    BY <2>2, RankIsBijection
  <2>4. QED
    BY <2>3
<1>3. s \in [1..n -> items] /\ DOMAIN s = 1..n
  BY <1>2
<1> HIDE DEF s
<1>4. ASSUME NEW i \in 1..n, NEW j \in 1..n, i < j PROVE Before(scores, s[i], s[j])
  <2>1. Rank(scores, items, s[i]) < Rank(scores, items, s[j])
    BY <1>1, <1>2, <1>4
  <2>2. QED
    BY <1>2, <2>1, RankOfItem
<1>5. QED
  BY <1>3, <1>4 DEF InOrder

LEMMA PlaceIsRank ==
    ASSUME NEW scores, NEW items, Scored(scores, items), NEW s, InOrder(scores, items, s)
    PROVE  \A i \in 1..Cardinality(items) : Rank(scores, items, s[i]) = i - 1
<1> DEFINE n == Cardinality(items)
<1>1. n \in Nat /\ IsFiniteSet(items)
  BY FS_CardinalityType DEF Scored
<1>2. s \in [1..n -> items] /\ \A i, j \in 1..n : i < j => Before(scores, s[i], s[j])
  BY DEF InOrder
<1> HIDE DEF n
<1>3. ASSUME NEW i \in 1..n, NEW j \in 1..n, s[i] = s[j] PROVE i = j
  <2>1. ~ (i < j) /\ ~ (j < i)
    BY <1>2, <1>3, BeforeOrder
  <2>2. QED
    BY <1>1, <2>1
<1>4. \A q \in items : \E i \in 1..n : s[i] = q
  <2>1. s \in Injection(1..n, items)
    BY <1>2, <1>3 DEF Injection, IsInjective
  <2>2. Cardinality(1..n) = Cardinality(items)
    BY <1>1, FS_Interval DEF n
  <2>3. s \in Surjection(1..n, items)
    BY <1>1, <2>1, <2>2, FS_Injection
  <2>4. QED
    BY <2>3 DEF Surjection
<1>5. ASSUME NEW i \in 1..n PROVE Rank(scores, items, s[i]) = i - 1
  <2> DEFINE first == [j \in 1..i - 1 |-> s[j]]
             rest == Earlier(scores, items, s[i])
  <2>1. \A j \in 1..i - 1 : j \in 1..n /\ j < i
    BY <1>1
  <2>2. first \in [1..i - 1 -> rest]
    BY <1>2, <2>1 DEF Earlier
  <2>3. \A a, b \in 1..i - 1 : first[a] = first[b] => a = b
    BY <1>3, <2>1
  <2>4. ASSUME NEW q \in rest PROVE \E j \in 1..i - 1 : first[j] = q
    <3>1. PICK j \in 1..n : s[j] = q
      BY <1>4 DEF Earlier
    <3>2. Before(scores, s[j], s[i])
      BY <3>1 DEF Earlier
    <3>3. ~Before(scores, s[i], s[j]) /\ s[i] # s[j]
      BY <1>2, <3>2, BeforeOrder
    <3>4. j < i
      BY <1>1, <1>2, <3>3
    <3>5. QED
      BY <1>1, <3>1, <3>4
  <2>5. first \in Bijection(1..i - 1, rest)
    BY <2>2, <2>3, <2>4 DEF Bijection, Injection, IsInjective, Surjection
  <2>6. IsFiniteSet(1..i - 1) /\ Cardinality(1..i - 1) = i - 1
    BY <1>1, FS_Interval
  <2> HIDE DEF rest, first
  <2>7. Cardinality(rest) = i - 1
    BY <2>5, <2>6, FS_Bijection DEF ExistsBijection
  <2>8. QED
    BY <2>7 DEF rest, Rank
<1>6. QED
  BY <1>5 DEF n

\* What Sorted returns for the order of the risks.
LEMMA SortedInOrder ==
    ASSUME NEW scores, NEW items, Scored(scores, items)
    PROVE  InOrder(scores, items, Sorted(scores, items))
<1>1. Sorted(scores, items) =
        CHOOSE s \in [1..Cardinality(items) -> items] :
            \A i, j \in DOMAIN s : i < j => Before(scores, s[i], s[j])
  BY DEF Sorted
<1>2. \E s \in [1..Cardinality(items) -> items] :
         \A i, j \in DOMAIN s : i < j => Before(scores, s[i], s[j])
  BY SomeOrder DEF InOrder
<1>3. QED
  BY <1>1, <1>2, Zenon DEF InOrder

\* A list of at most three is what its first places hold.
LEMMA CutShort ==
    ASSUME NEW S, NEW n \in Nat, NEW s \in [1..n -> S]
    PROVE  LET m == IF n > 3 THEN 3 ELSE n
           IN  /\ Len(Cut(s)) = m /\ DOMAIN Cut(s) = 1..m
               /\ \A i \in 1..m : Cut(s)[i] = s[i]
               /\ Cut(s) = <<>> <=> n = 0
<1> DEFINE m == IF n > 3 THEN 3 ELSE n
<1>1. s \in Seq(S) /\ Len(s) = n
  OBVIOUS
<1>2. Cut(s) = SubSeq(s, 1, m)
  BY <1>1 DEF Cut
<1>3. m \in 0..n
  OBVIOUS
<1> HIDE DEF m
<1>4. /\ Len(SubSeq(s, 1, m)) = m /\ DOMAIN SubSeq(s, 1, m) = 1..m
      /\ \A i \in 1..m : SubSeq(s, 1, m)[i] = s[i]
      /\ SubSeq(s, 1, m) \in Seq(S)
  BY <1>1, <1>3
<1>5. SubSeq(s, 1, m) = <<>> <=> m = 0
  BY <1>3, <1>4
<1>6. m = 0 <=> n = 0
  BY DEF m
<1>7. QED
  BY <1>2, <1>4, <1>5, <1>6 DEF m

\* The questions that come before q, among all of them.
Better(scores, q) ==
    {r \in Questions : scores[r] > scores[q]} \cup {r \in Questions : scores[r] = scores[q] /\ r < q}

Named(scores, threshold) ==
    {q \in Questions : scores[q] >= threshold /\ Cardinality(Better(scores, q)) < 3}

\* Three of the risks that reach the threshold, in order, and no other is before them.
LEMMA SelectWorst ==
    ASSUME NEW scores \in [Questions -> Int], NEW threshold \in Int,
           \A q \in Questions : ValidScore(scores[q])
    PROVE  LET risks == Select(scores, threshold)
           IN  /\ Len(risks) = Cardinality(Named(scores, threshold))
               /\ risks = <<>> <=> Named(scores, threshold) = {}
               /\ \A i \in DOMAIN risks : /\ risks[i] \in Named(scores, threshold)
                                          /\ Cardinality(Better(scores, risks[i])) = i - 1
<1> DEFINE items == Reached(scores, threshold)
           s == Sorted(scores, items)
           n == Cardinality(items)
           m == IF n > 3 THEN 3 ELSE n
           named == Named(scores, threshold)
<1>1. items = {q \in Questions : scores[q] >= threshold}
  BY DEF Reached
<1>2. Scored(scores, items)
  BY <1>1, EvaluationAssumption, FS_Subset DEF Scored
<1>3. n \in Nat
  BY <1>2, FS_CardinalityType DEF Scored
<1>4. InOrder(scores, items, s)
  BY <1>2, SortedInOrder
<1>5. s \in [1..n -> items]
  BY <1>4 DEF InOrder
<1>6. ASSUME NEW q \in items PROVE Better(scores, q) = Earlier(scores, items, q)
  BY <1>1, <1>6 DEF Better, Earlier, Before
<1>7. \A i \in 1..n : Cardinality(Better(scores, s[i])) = i - 1
  <2> HIDE DEF items, s
  <2>1. TAKE i \in 1..n
  <2>2. Rank(scores, items, s[i]) = i - 1
    BY <1>2, <1>4, PlaceIsRank
  <2>3. s[i] \in items
    BY <1>5
  <2>4. QED
    BY <1>6, <2>2, <2>3 DEF Rank
<1>8. Select(scores, threshold) = Cut(s)
  BY DEF Select
<1> HIDE DEF items, s, n
<1>9. /\ Len(Cut(s)) = m /\ DOMAIN Cut(s) = 1..m
      /\ \A i \in 1..m : Cut(s)[i] = s[i]
      /\ Cut(s) = <<>> <=> n = 0
  BY <1>3, <1>5, CutShort
<1>10. \A i \in 1..n : s[i] \in named <=> i <= m
  BY <1>1, <1>3, <1>5, <1>7 DEF Named
<1>11. ASSUME NEW q \in named PROVE \E i \in 1..m : s[i] = q
  <2>1. q \in items /\ Rank(scores, items, q) < 3
    BY <1>1, <1>6 DEF Named, Rank
  <2>2. Rank(scores, items, q) \in 0..n - 1
    BY <1>2, <2>1, RankOfItem DEF n
  <2> DEFINE i == Rank(scores, items, q) + 1
  <2>3. i \in 1..n /\ i <= m
    BY <1>3, <2>1, <2>2
  <2>4. Rank(scores, items, s[i]) = Rank(scores, items, q) /\ s[i] \in items
    BY <1>2, <1>3, <1>4, <1>5, <2>2, <2>3, PlaceIsRank DEF n
  <2>5. s[i] = q
    BY <1>2, <2>1, <2>4, RankIsBijection
  <2>6. QED
    BY <2>3, <2>5
<1>12. Cardinality(named) = m
  <2> DEFINE first == [i \in 1..m |-> s[i]]
  <2>1. \A i \in 1..m : i \in 1..n /\ s[i] \in named
    BY <1>3, <1>10
  <2>2. \A a, b \in 1..m : s[a] = s[b] => a = b
    BY <1>3, <1>7, <2>1
  <2> HIDE DEF m, named
  <2>3. first \in Bijection(1..m, named)
    BY <1>11, <2>1, <2>2 DEF Bijection, Injection, IsInjective, Surjection
  <2>4. m \in Nat
    BY <1>3 DEF m
  <2> HIDE DEF first
  <2>5. QED
    BY <2>3, <2>4, FS_CountingElements DEF ExistsBijection
<1>13. named = {} <=> n = 0
  BY <1>3, <1>10, <1>11
<1>14. \A i \in 1..m : s[i] \in named /\ Cardinality(Better(scores, s[i])) = i - 1
  BY <1>3, <1>7, <1>10
<1>15. QED
  BY <1>8, <1>9, <1>12, <1>13, <1>14

\* An accepted threshold is a number.
LEMMA WrittenThreshold ==
    ASSUME NEW document \in Documents, LoadObject(document).ok
    PROVE  LoadObject(document).settings.riskThreshold \in Int
<1>1. PICK n \in Nat : document \in [1..n -> Members]
  BY EvaluationAssumption DEF Documents
<1> DEFINE settings == Decoded(document)[n]
<1>2. Meant(document, n, settings) /\ Len(document) = n
  BY <1>1, DecodedAsMeant, DecodedSteps
<1> HIDE DEF settings
<1>3. LoadObject(document).settings = settings
  BY <1>2 DEF LoadObject, Rejected, settings
<1>4. "riskThreshold" \in Fields
  BY FieldNames
<1>5. Defaults["riskThreshold"] = 850
  BY DEF Defaults
<1>6. Values["riskThreshold"] \subseteq Int
  <2>1. Values["riskThreshold"] = {-1, 0, 1000, 1001}
    BY DEF Values
  <2>2. QED
    BY <2>1
<1>7. \A i \in 1..n : document[i].name = "riskThreshold" /\ document[i].kind = "value"
                      => document[i].value \in Int
  <2>1. TAKE i \in 1..n
  <2>2. document[i] \in Members
    BY <1>1
  <2>3. document[i].name = "riskThreshold" /\ document[i].kind = "value"
        => document[i].value \in Values["riskThreshold"]
    BY <1>4, <2>2, MemberShape
  <2>4. QED
    BY <1>6, <2>3
<1>8. settings["riskThreshold"] \in Int
  BY <1>2, <1>4, <1>5, <1>7 DEF Meant
<1>9. QED
  BY <1>3, <1>8

LEMMA ThresholdIsNumber ==
    ASSUME NEW loaded, IsLoaded(loaded), loaded.ok
    PROVE  loaded.settings.riskThreshold \in Int
BY WrittenThreshold DEF IsLoaded, Given, Rejected, Defaults

\* What there is to score in a reply.
LEMMA ReplyShape ==
    ASSUME NEW reply \in Replies
    PROVE  reply.answers \in [Questions -> Int]
<1>1. NoNumber \in Int /\ Scores \subseteq Int
  BY EvaluationAssumption DEF NoNumber
<1>2. CASE \E e \in Errors : reply = [error |-> e, answers |-> [q \in Questions |-> NoNumber]]
  BY <1>1, <1>2
<1>3. CASE \E a \in [Questions -> Scores \cup {NoNumber}] : reply = [error |-> "none", answers |-> a]
  <2>1. PICK a \in [Questions -> Scores \cup {NoNumber}] : reply = [error |-> "none", answers |-> a]
    BY <1>3
  <2>2. reply.answers = a
    BY <2>1
  <2>3. Scores \cup {NoNumber} \subseteq Int
    BY <1>1
  <2>4. QED
    BY <2>2, <2>3
<1>4. QED
  BY <1>2, <1>3, Zenon DEF Replies

\* A verdict names the three risks that come first of those that reach the threshold,
\* in that order, and only for a complete answer.
THEOREM WorstRisksFirst == SessionSpec => []WorstFirst
<1>1. StopInv => WorstFirst
  <2>1. SUFFICES ASSUME StopInv, stop.phase = "decided", stop.loaded.ok PROVE WorstFirst
    BY DEF WorstFirst
  <2> DEFINE reply == stop.reply
             settings == stop.loaded.settings
             scores == reply.answers
             threshold == settings.riskThreshold
             complete == reply.error = "none" /\ \A q \in Questions : ValidScore(scores[q])
             named == Named(scores, threshold)
             risks == Select(scores, threshold)
  <2>2. reply \in Replies /\ IsLoaded(stop.loaded) /\ stop.verdict = Verdict(settings, reply)
    BY <2>1 DEF StopInv
  <2>3. scores \in [Questions -> Int] /\ threshold \in Int
    BY <2>1, <2>2, ReplyShape, ThresholdIsNumber
  <2>4. Evaluate(reply) = "none" <=> complete
    BY DEF Evaluate
  <2>5. CASE complete /\ named # {}
    <3>1. /\ Len(risks) = Cardinality(named) /\ risks # <<>>
          /\ \A i \in DOMAIN risks : risks[i] \in named /\ Cardinality(Better(scores, risks[i])) = i - 1
      BY <2>3, <2>5, SelectWorst
    <3>2. stop.verdict = [kind |-> IF settings.mode = "report" THEN "report" ELSE "continuation",
                          class |-> "none", risks |-> risks]
      BY <2>2, <2>4, <2>5, <3>1 DEF Verdict
    <3>3. /\ stop.verdict.kind = IF settings.mode = "report" THEN "report" ELSE "continuation"
          /\ stop.verdict.risks = risks
      BY <3>2
    <3>4. named # {} /\ complete
      BY <2>5
    <3> HIDE DEF risks, reply
    <3>5. /\ Len(stop.verdict.risks) = Cardinality(named)
          /\ \A i \in DOMAIN stop.verdict.risks :
               /\ stop.verdict.risks[i] \in named
               /\ Cardinality(Better(scores, stop.verdict.risks[i])) = i - 1
      BY <3>1, <3>3, Zenon
    <3>6. QED
      BY <3>3, <3>4, <3>5, Zenon DEF WorstFirst, Named, Better, ValidScore, reply
  <2>6. CASE complete /\ named = {}
    <3>1. risks = <<>>
      BY <2>3, <2>6, SelectWorst
    <3>2. stop.verdict = Silent
      BY <2>2, <2>4, <2>6, <3>1 DEF Verdict
    <3>3. stop.verdict.kind = "silent" /\ stop.verdict.risks = <<>>
      BY <3>2 DEF Silent
    <3>4. QED
      BY <2>6, <3>3 DEF WorstFirst, Named, Better, ValidScore
  <2>7. CASE ~complete
    <3>1. stop.verdict = Failure(Evaluate(reply))
      BY <2>2, <2>4, <2>7 DEF Verdict
    <3>2. stop.verdict.kind = "failure" /\ stop.verdict.risks = <<>>
      BY <3>1 DEF Failure, Silent
    <3>3. QED
      BY <2>7, <3>2 DEF WorstFirst, ValidScore
  <2>8. QED
    BY <2>5, <2>6, <2>7
<1>2. QED
  BY <1>1, SessionInvariant, PTL

----------------------------------------------------------------------------
(* A session, as its ledger sees it.                                       *)

\* Whatever a Stop evaluates, its session is one of hooks that report failures: what
\* holds of the notices of any hooks holds of it.
THEOREM SessionKeepsLedger == SessionSpec => Spec
<1>1. SessionInit => Init
  BY DEF SessionInit
<1>2. [SessionNext]_session => [Next]_vars
  <2>1. ASSUME NEW h \in Hooks, Finish(h) PROVE Next \/ UNCHANGED vars
    BY <2>1 DEF Finish, Next
  <2>2. QED
    BY <2>1 DEF SessionNext, LoadConfig, Proceed, Answer, Later, session
<1>3. QED
  BY <1>1, <1>2, PTL DEF SessionSpec, Spec
================================================================================
