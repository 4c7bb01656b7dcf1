--------------------------- MODULE SmokeSummaryProofs --------------------------
(***************************************************************************)
(* Proofs about SmokeSummary: the counters and the two maps of the summary *)
(* say what the stream has shown, and so a verdict of PASS is evidence,    *)
(* for any hook calls, tool calls and names and streams of any length.     *)
(***************************************************************************)
EXTENDS SmokeSummary, FiniteSetTheorems, TLAPS

----------------------------------------------------------------------------
\* The inductive invariant

\* The hooks that have answered with success, and among the Stops those that
\* gave a notice, a continuation, the feedback, or were taken for a follow-up.
Good(event) ==
    {i \in HookIds : answer[i] # Nothing /\ answer[i].event = event /\ answer[i].ok}
Noting == {i \in Good("Stop") : answer[i].key}
Continuing == {i \in Good("Stop") : answer[i].context # "none"}
Feeding == {i \in Good("Stop") : answer[i].context = "feedback"}
Following == {i \in Good("Stop") : hooks[i].followup}

\* Each counter of hooks is the size of a set of hooks.
Counted ==
    /\ \A e \in Events : IsFiniteSet(Started(e))
    /\ counts["upsStarted"] = Cardinality(Started("UserPromptSubmit"))
    /\ counts["stopStarted"] = Cardinality(Started("Stop"))
    /\ counts["upsCompleted"] = Cardinality(Good("UserPromptSubmit"))
    /\ counts["stopCompleted"] = Cardinality(Good("Stop"))
    /\ counts["keyNotices"] = Cardinality(Noting)
    /\ counts["continuations"] = Cardinality(Continuing)
    /\ counts["jevFeedback"] = Cardinality(Feeding)
    /\ counts["followupStops"] = Cardinality(Following)

\* An answer is that of a hook that has started, and only a Stop that succeeded
\* has said anything.
Matched ==
    \A i \in HookIds :
        /\ answer[i] # Nothing <=> hooks[i] # Nothing /\ hooks[i].done
        /\ answer[i] # Nothing =>
              /\ answer[i].event = hooks[i].event
              /\ answer[i].key \/ answer[i].context # "none" => i \in Good("Stop")

\* A Stop is a follow-up when one feedback had been given as it started, by a hook
\* of its name; the code knows the name from feedbackHook.
Traced ==
    /\ \A i \in HookIds :
         /\ \A j \in earlier[i] : answer[j] # Nothing
         /\ hooks[i] # Nothing =>
              /\ i \notin earlier[i]
              /\ hooks[i].followup <=>
                   /\ hooks[i].event = "Stop"
                   /\ \E j \in HookIds : /\ Feeding \cap earlier[i] = {j}
                                         /\ hooks[i].name = hooks[j].name
    /\ \A i \in HookIds : Feeding = {i} => feedbackHook = hooks[i].name

\* Every failure has left its mark, and every mark is a failure.
Tidy ==
    /\ counts["results"] \in {0, 1}
    /\ counts["failures"] = 0 <=>
         /\ misplaced = {}
         /\ \A i \in HookIds : answer[i] # Nothing => answer[i].ok
         /\ counts["results"] = 1 => resultSuccess /\ Good("Stop") # {}
    /\ misplaced = {} =>
         /\ counts["readSuccess"] > 0 <=> Succeeded("Read")
         /\ counts["editSuccess"] > 0 <=> Succeeded("Edit")

Inv == TypeOK /\ Counted /\ Matched /\ Traced /\ Tidy

----------------------------------------------------------------------------
\* About sets and counters

\* A set that gains an element counts one more.
LEMMA Gains ==
    ASSUME NEW S, IsFiniteSet(S), NEW i, i \notin S
    PROVE  /\ IsFiniteSet(S \cup {i})
           /\ Cardinality(S \cup {i}) = Cardinality(S) + 1
BY FS_AddElement

\* What Bump does to one counter.
LEMMA Bumped ==
    ASSUME counts \in [Counters -> Nat], NEW names, Bump(names)
    PROVE  /\ counts' \in [Counters -> Nat]
           /\ \A c \in Counters :
                counts'[c] = IF c \in names THEN counts[c] + 1 ELSE counts[c]
BY DEF Bump

\* The sets of hooks that are counted are finite.
LEMMA FiniteSets ==
    ASSUME Counted, Matched
    PROVE  /\ \A e \in Events : Good(e) \subseteq Started(e) /\ IsFiniteSet(Good(e))
           /\ \A S \in {Noting, Continuing, Feeding, Following} :
                S \subseteq Good("Stop") /\ IsFiniteSet(S)
<1>1. ASSUME NEW e \in Events  PROVE Good(e) \subseteq Started(e)
  BY DEF Matched, Good, Started
<1>2. ASSUME NEW e \in Events  PROVE IsFiniteSet(Good(e))
  BY <1>1, FS_Subset DEF Counted
<1>3. ASSUME NEW S \in {Noting, Continuing, Feeding, Following}
      PROVE  S \subseteq Good("Stop")
  BY DEF Noting, Continuing, Feeding, Following
<1>4. ASSUME NEW S \in {Noting, Continuing, Feeding, Following}  PROVE IsFiniteSet(S)
  BY <1>2, <1>3, FS_Subset DEF Events
<1> QED  BY <1>1, <1>2, <1>3, <1>4

----------------------------------------------------------------------------
\* Types

LEMMA TypeStep == ASSUME TypeOK, [Next]_vars  PROVE TypeOK'
<1> USE DEF TypeOK
<1>1. CASE Reject
  BY <1>1 DEF Reject, Blank
<1>2. CASE SystemInit
  <2>1. PICK entries \in 0..MaxEntries, errors \in 0..1, ours \in BOOLEAN :
          /\ counts' = [counts EXCEPT !["inits"] = @ + 1, !["pluginEntries"] = @ + entries,
                                      !["failures"] = @ + errors]
          /\ loaded' = (loaded \/ ours)
    BY <1>2, Zenon DEF SystemInit
  <2>2. entries \in Nat /\ errors \in Nat
    BY SummaryAssumption
  <2>3. counts' \in [Counters -> Nat]
    BY <2>1, <2>2 DEF Counters
  <2> QED  BY <1>2, <2>1, <2>3 DEF SystemInit
<1>3. ASSUME NEW t \in ToolIds, NEW name \in {"Read", "Edit"}, ToolUse(t, name)
      PROVE  TypeOK'
  <2>1. counts' \in [Counters -> Nat]
    BY <1>3, Bumped, Zenon DEF ToolUse
  <2>2. tools' \in [ToolIds -> ToolCall \cup {Nothing}]
    BY <1>3 DEF ToolUse, ToolCall
  <2> QED  BY <1>3, <2>1, <2>2 DEF ToolUse
<1>4. ASSUME NEW t \in ToolIds, NEW isError \in BOOLEAN, ToolResult(t, isError)
      PROVE  TypeOK'
  <2>1. counts' \in [Counters -> Nat]
    BY <1>4, Bumped, Zenon DEF ToolResult
  <2>2. tools' \in [ToolIds -> ToolCall \cup {Nothing}]
    BY <1>4 DEF ToolResult, ToolCall
  <2> QED  BY <1>4, <2>1, <2>2 DEF ToolResult
<1>5. ASSUME NEW i \in HookIds, NEW event \in Events, NEW name \in Names,
             HookStarted(i, event, name)
      PROVE  TypeOK'
  BY <1>5, Bumped DEF HookStarted, HookCall, Follows
<1>6. ASSUME NEW i \in HookIds, NEW ok \in BOOLEAN, NEW key \in BOOLEAN,
             NEW context \in {"none", "other", "feedback"}, HookResponse(i, ok, key, context)
      PROVE  TypeOK'
  <2>1. counts' \in [Counters -> Nat]
    BY <1>6, Bumped, Zenon DEF HookResponse
  <2>2. hooks[i] \in HookCall /\ hooks[i].event \in Events /\ hooks[i].name \in Names
    BY <1>6 DEF HookResponse, HookCall
  <2>3. hooks' \in [HookIds -> HookCall \cup {Nothing}]
    BY <1>6, <2>2 DEF HookResponse, HookCall
  <2>4. answer' \in [HookIds -> Answers \cup {Nothing}]
    BY <1>6, <2>2 DEF HookResponse, Answers
  <2>5. feedbackHook' \in Names \cup {Nothing}
    BY <1>6, <2>2 DEF HookResponse
  <2> QED  BY <1>6, <2>1, <2>3, <2>4, <2>5 DEF HookResponse
<1>7. ASSUME NEW success \in BOOLEAN, Result(success)  PROVE TypeOK'
  BY <1>7, Bumped DEF Result, ghosts
<1>8. CASE UNCHANGED vars
  BY <1>8 DEF vars, summary, ghosts
<1> QED  BY <1>1, <1>2, <1>3, <1>4, <1>5, <1>6, <1>7, <1>8, Zenon DEF Next

----------------------------------------------------------------------------
\* Steps that leave the hooks alone: only the marks of failures can change

HookCounters == {"upsStarted", "stopStarted", "upsCompleted", "stopCompleted",
                 "keyNotices", "continuations", "jevFeedback", "followupStops"}

Aside ==
    /\ UNCHANGED <<hooks, answer, earlier, feedbackHook>>
    /\ \A c \in HookCounters : counts'[c] = counts[c]

LEMMA AsideKeeps ==
    ASSUME Counted, Matched, Traced, Aside
    PROVE  Counted' /\ Matched' /\ Traced'
<1>1. /\ \A e : Started(e)' = Started(e) /\ Good(e)' = Good(e)
      /\ Noting' = Noting /\ Continuing' = Continuing
      /\ Feeding' = Feeding /\ Following' = Following
  BY DEF Aside, Started, Good, Noting, Continuing, Feeding, Following
<1>2. Counted'
  BY <1>1 DEF Counted, Aside, HookCounters
<1>3. Matched'
  BY <1>1 DEF Matched, Aside
<1>4. Traced'
  BY <1>1 DEF Traced, Aside
<1> QED  BY <1>2, <1>3, <1>4

LEMMA InitInv == Init => Inv
<1> SUFFICES ASSUME Init  PROVE Inv
  OBVIOUS
<1>1. TypeOK
  BY DEF Init, Blank, TypeOK
<1>2. /\ \A i \in HookIds : hooks[i] = Nothing /\ answer[i] = Nothing /\ earlier[i] = {}
      /\ \A t \in ToolIds : tools[t] = Nothing
      /\ \A c \in Counters : counts[c] = 0
  BY DEF Init, Blank
<1>3. /\ \A e : Started(e) = {} /\ Good(e) = {}
      /\ Noting = {} /\ Continuing = {} /\ Feeding = {} /\ Following = {}
  BY <1>2 DEF Started, Good, Noting, Continuing, Feeding, Following
<1>4. Counted
  BY <1>2, <1>3, FS_EmptySet DEF Counted, Counters
<1>5. Matched
  BY <1>2 DEF Matched
<1>6. Traced
  BY <1>2, <1>3 DEF Traced
<1>7. Tidy
  BY <1>2, <1>3 DEF Tidy, Counters, Succeeded, Init
<1> QED  BY <1>1, <1>4, <1>5, <1>6, <1>7 DEF Inv

\* A refused stream leaves the state it began with.
LEMMA RejectStep == ASSUME Reject  PROVE Inv'
<1>1. TypeOK'
  BY DEF Reject, Blank, TypeOK
<1>2. /\ \A i \in HookIds : hooks'[i] = Nothing /\ answer'[i] = Nothing /\ earlier'[i] = {}
      /\ \A t \in ToolIds : tools'[t] = Nothing
      /\ \A c \in Counters : counts'[c] = 0
  BY DEF Reject, Blank
<1>3. /\ \A e : Started(e)' = {} /\ Good(e)' = {}
      /\ Noting' = {} /\ Continuing' = {} /\ Feeding' = {} /\ Following' = {}
  BY <1>2 DEF Started, Good, Noting, Continuing, Feeding, Following
<1>4. Counted'
  BY <1>2, <1>3, FS_EmptySet DEF Counted, Counters
<1>5. Matched'
  BY <1>2 DEF Matched
<1>6. Traced'
  BY <1>2, <1>3 DEF Traced
<1>7. Tidy'
  BY <1>2, <1>3 DEF Tidy, Counters, Succeeded, Reject
<1> QED  BY <1>1, <1>4, <1>5, <1>6, <1>7 DEF Inv

LEMMA SystemInitStep == ASSUME Inv, SystemInit  PROVE Counted' /\ Matched' /\ Traced' /\ Tidy'
<1> USE DEF Inv
<1>1. PICK entries \in 0..MaxEntries, errors \in 0..1 :
        /\ counts' = [counts EXCEPT !["inits"] = @ + 1, !["pluginEntries"] = @ + entries,
                                    !["failures"] = @ + errors]
        /\ misplaced' = misplaced \cup When(errors > 0, "plugin")
  BY Zenon DEF SystemInit
<1>2. /\ counts'["failures"] = counts["failures"] + errors
      /\ \A c \in Counters \ {"inits", "pluginEntries", "failures"} : counts'[c] = counts[c]
      /\ counts["failures"] \in Nat
  BY <1>1 DEF TypeOK, Counters
<1>3. errors = 0 \/ errors = 1
  BY <1>1
<1>4. Aside
  BY <1>2 DEF SystemInit, Aside, HookCounters, Counters
<1>5. misplaced' = {} <=> misplaced = {} /\ errors = 0
  BY <1>1, <1>3 DEF When
<1>6. counts'["failures"] = 0 <=> counts["failures"] = 0 /\ errors = 0
  BY <1>2, <1>3
<1>7. Good("Stop")' = Good("Stop")
  BY <1>4 DEF Good, Aside
<1>8. Tidy'
  BY <1>2, <1>5, <1>6, <1>7 DEF Tidy, SystemInit, Counters, Succeeded
<1> QED  BY <1>4, <1>8, AsideKeeps

LEMMA ToolUseStep ==
    ASSUME Inv, NEW t \in ToolIds, NEW name \in {"Read", "Edit"}, ToolUse(t, name)
    PROVE  Counted' /\ Matched' /\ Traced' /\ Tidy'
<1> USE DEF Inv
<1> DEFINE late == counts["upsCompleted"] # 1
<1>1. Bump(When(late, "failures"))
  BY DEF ToolUse
<1>2. misplaced' = misplaced \cup When(late, t)
  BY DEF ToolUse, Counted, Good
<1>3. \A c \in Counters :
        counts'[c] = IF c \in When(late, "failures") THEN counts[c] + 1 ELSE counts[c]
  BY <1>1, Bumped, Zenon DEF TypeOK
<1>4. \A c \in Counters \ {"failures"} : counts'[c] = counts[c]
  BY <1>3 DEF When
<1>5. counts'["failures"] = 0 <=> counts["failures"] = 0 /\ ~late
  BY <1>3 DEF When, Counters, TypeOK
<1>6. misplaced' = {} <=> misplaced = {} /\ ~late
  BY <1>2 DEF When
<1>7. Aside
  BY <1>4 DEF ToolUse, Aside, HookCounters, Counters
<1>8. Good("Stop")' = Good("Stop")
  BY <1>7 DEF Good, Aside
<1>9. \A n : Succeeded(n)' <=> Succeeded(n)
  <2>1. tools'[t] = [name |-> name, done |-> FALSE] /\ tools[t] = Nothing
    BY DEF ToolUse, TypeOK
  <2>2. ~tools'[t].done
    BY <2>1
  <2>3. \A u \in ToolIds \ {t} : tools'[u] = tools[u]
    BY DEF ToolUse, TypeOK
  <2> QED  BY <2>1, <2>2, <2>3 DEF Succeeded
<1>10. Tidy'
  BY <1>4, <1>5, <1>6, <1>8, <1>9 DEF Tidy, ToolUse, Counters
<1> QED  BY <1>7, <1>10, AsideKeeps

LEMMA ToolResultStep ==
    ASSUME Inv, NEW t \in ToolIds, NEW isError \in BOOLEAN, ToolResult(t, isError)
    PROVE  Counted' /\ Matched' /\ Traced' /\ Tidy'
<1> USE DEF Inv
<1> DEFINE counter == IF isError THEN "failures"
                      ELSE IF tools[t].name = "Read" THEN "readSuccess" ELSE "editSuccess"
<1>1. Bump({counter}) /\ counter \in {"failures", "readSuccess", "editSuccess"}
  BY DEF ToolResult
<1>2. /\ counts'[counter] = counts[counter] + 1
      /\ \A c \in Counters \ {counter} : counts'[c] = counts[c]
  <2>1. \A c \in Counters :
          counts'[c] = IF c \in {counter} THEN counts[c] + 1 ELSE counts[c]
    BY <1>1, Bumped, Zenon DEF TypeOK
  <2> QED  BY <1>1, <2>1 DEF Counters
<1>3. Aside
  BY <1>1, <1>2 DEF ToolResult, Aside, HookCounters, Counters
<1>4. Good("Stop")' = Good("Stop")
  BY <1>3 DEF Good, Aside
<1>5. tools[t].name \in {"Read", "Edit"} /\ ~tools[t].done
  BY DEF ToolResult, TypeOK, ToolCall
<1>6. \A n : Succeeded(n)' <=> Succeeded(n) \/ n = tools[t].name
  <2>1. /\ tools'[t] # Nothing /\ tools'[t].name = tools[t].name /\ tools'[t].done
        /\ \A u \in ToolIds \ {t} : tools'[u] = tools[u]
    <3>1. tools'[t] = [name |-> tools[t].name, done |-> TRUE]
      BY DEF ToolResult, TypeOK, ToolCall
    <3>2. tools'[t] \in ToolCall
      BY <1>5, <3>1 DEF ToolCall
    <3> QED  BY <3>1, <3>2, SummaryAssumption DEF ToolResult, TypeOK
  <2> QED  BY <1>5, <2>1 DEF Succeeded
<1>7. \A c \in {"failures", "readSuccess", "editSuccess", "results"} :
        counts[c] \in Nat /\ c \in Counters
  BY DEF TypeOK, Counters
<1>8. CASE isError
  <2>1. counts'["failures"] = counts["failures"] + 1 /\ misplaced' # {}
    BY <1>2, <1>8 DEF ToolResult, When
  <2> QED  BY <1>2, <1>3, <1>7, <1>8, <2>1, AsideKeeps DEF Tidy
<1>9. CASE ~isError
  <2>1. misplaced' = misplaced
    BY <1>9 DEF ToolResult, When
  <2>2. /\ counts'["failures"] = counts["failures"] /\ counts'["results"] = counts["results"]
        /\ counter = IF tools[t].name = "Read" THEN "readSuccess" ELSE "editSuccess"
    BY <1>1, <1>2, <1>7, <1>9
  <2>3. /\ counts'["readSuccess"] > 0 <=> counts["readSuccess"] > 0 \/ tools[t].name = "Read"
        /\ counts'["editSuccess"] > 0 <=> counts["editSuccess"] > 0 \/ tools[t].name = "Edit"
    BY <1>2, <1>5, <1>7, <2>2
  <2>4. Tidy'
    BY <1>4, <1>6, <2>1, <2>2, <2>3 DEF Tidy, ToolResult
  <2> QED  BY <1>3, <2>4, AsideKeeps
<1> QED  BY <1>8, <1>9

LEMMA ResultStep ==
    ASSUME Inv, NEW success \in BOOLEAN, Result(success)
    PROVE  Counted' /\ Matched' /\ Traced' /\ Tidy'
<1> USE DEF Inv
<1> DEFINE bad == counts["stopCompleted"] = 0 \/ ~success
<1>1. \A c \in Counters :
        counts'[c] = IF c \in {"results"} \cup When(bad, "failures")
                     THEN counts[c] + 1 ELSE counts[c]
  <2> DEFINE names == {"results"} \cup When(bad, "failures")
  <2>1. Bump(names)
    BY DEF Result
  <2>2. counts \in [Counters -> Nat]
    BY DEF TypeOK
  <2> HIDE DEF names
  <2>3. \A c \in Counters : counts'[c] = IF c \in names THEN counts[c] + 1 ELSE counts[c]
    BY <2>1, <2>2, Bumped, Zenon
  <2> QED  BY <2>3, Zenon DEF names
<1>2. \A c \in Counters \ {"results", "failures"} : counts'[c] = counts[c]
  BY <1>1 DEF When
<1>3. counts'["results"] = 1
  BY <1>1 DEF Counters, Result, Reading
<1>4. counts'["failures"] = 0 <=> counts["failures"] = 0 /\ ~bad
  BY <1>1 DEF When, Counters, TypeOK
<1>5. Aside
  BY <1>2 DEF Result, Aside, HookCounters, Counters, ghosts
<1>6. Good("Stop")' = Good("Stop")
  BY <1>5 DEF Good, Aside
<1>7. counts["stopCompleted"] = 0 <=> Good("Stop") = {}
  BY FiniteSets, FS_EmptySet DEF Counted, Events
<1>8. Tidy'
  BY <1>2, <1>3, <1>4, <1>6, <1>7 DEF Tidy, Result, Reading, ghosts, Counters, Succeeded
<1> QED  BY <1>5, <1>8, AsideKeeps

----------------------------------------------------------------------------
\* A hook starts

LEMMA HookStartedStep ==
    ASSUME Inv, NEW i \in HookIds, NEW event \in Events, NEW name \in Names,
           HookStarted(i, event, name)
    PROVE  Counted' /\ Matched' /\ Traced' /\ Tidy'
<1> USE DEF Inv
<1> DEFINE follows == Follows(event, name)
           call == [event |-> event, name |-> name, done |-> FALSE, followup |-> follows]
           counter == IF event = "Stop" THEN "stopStarted" ELSE "upsStarted"
<1>1. /\ hooks[i] = Nothing /\ answer[i] = Nothing
      /\ hooks' = [hooks EXCEPT ![i] = call]
      /\ answer' = answer /\ feedbackHook' = feedbackHook
      /\ earlier' = [earlier EXCEPT ![i] = {j \in HookIds : answer[j] # Nothing}]
      /\ Bump({counter})
  BY DEF HookStarted, Matched
<1>2. follows \in BOOLEAN
  BY DEF Follows
<1>3. /\ hooks'[i] = call /\ hooks'[i] # Nothing
      /\ \A j \in HookIds \ {i} : hooks'[j] = hooks[j] /\ earlier'[j] = earlier[j]
      /\ earlier'[i] = {j \in HookIds : answer[j] # Nothing}
  <2>1. call \in HookCall
    BY <1>2 DEF HookCall
  <2> QED  BY <1>1, <2>1, SummaryAssumption DEF TypeOK
<1>4. /\ hooks'[i].event = event /\ hooks'[i].name = name /\ ~hooks'[i].done
      /\ hooks'[i].followup = follows
  BY <1>3
<1> HIDE DEF call, follows
<1>5. /\ Started(event)' = Started(event) \cup {i} /\ i \notin Started(event)
      /\ \A e \in Events \ {event} : Started(e)' = Started(e)
  BY <1>1, <1>3, <1>4 DEF Started
<1>6. /\ \A e \in Events : Good(e)' = Good(e)
      /\ Noting' = Noting /\ Continuing' = Continuing
      /\ Feeding' = Feeding /\ Following' = Following
      /\ i \notin Feeding
  <2>1. \A e : Good(e)' = Good(e) /\ i \notin Good(e)
    BY <1>1 DEF Good
  <2> QED  BY <1>1, <1>3, <2>1 DEF Noting, Continuing, Feeding, Following
<1>7. /\ counts'[counter] = counts[counter] + 1
      /\ \A c \in Counters \ {counter} : counts'[c] = counts[c]
      /\ counter \in Counters
  <2>1. \A c \in Counters : counts'[c] = IF c \in {counter} THEN counts[c] + 1 ELSE counts[c]
    BY <1>1, Bumped, Zenon DEF TypeOK
  <2>2. counter \in Counters
    BY DEF Counters
  <2> QED  BY <2>1, <2>2
<1>8. Counted'
  <2>1. /\ IsFiniteSet(Started(event)')
        /\ Cardinality(Started(event)') = Cardinality(Started(event)) + 1
    BY <1>5, Gains DEF Counted
  <2>2. \A c \in HookCounters \ {"upsStarted", "stopStarted"} : counts'[c] = counts[c]
    BY <1>7 DEF HookCounters, Counters
  <2>3. \A e \in Events : IsFiniteSet(Started(e)')
    BY <1>5, <2>1 DEF Counted
  <2>4. /\ counts'["upsStarted"] = Cardinality(Started("UserPromptSubmit")')
        /\ counts'["stopStarted"] = Cardinality(Started("Stop")')
    BY <1>5, <1>7, <2>1 DEF Counted, Events, Counters
  <2> QED  BY <1>6, <2>2, <2>3, <2>4 DEF Counted, HookCounters, Events
<1>9. Matched'
  BY <1>1, <1>3, <1>4, <1>6 DEF Matched, Events
<1>10. Traced'
  <2>1. \A j \in HookIds : \A k \in earlier'[j] : answer'[k] # Nothing
    BY <1>1, <1>3 DEF Traced
  <2>2. \A j \in HookIds : Feeding = {j} => feedbackHook = hooks'[j].name
    BY <1>3, <1>6 DEF Traced
  <2>3. follows <=> /\ event = "Stop"
                    /\ \E j \in HookIds : /\ Feeding \cap earlier'[i] = {j}
                                          /\ name = hooks'[j].name
    <3>1. Feeding \cap earlier'[i] = Feeding
      BY <1>3 DEF Feeding, Good
    <3>2. counts["jevFeedback"] = 1 <=> \E j \in HookIds : Feeding = {j}
      <4>1. Feeding \subseteq HookIds
        BY DEF Feeding, Good
      <4> QED  BY <4>1, FiniteSets, FS_Singleton DEF Counted
    <3>3. \A j \in HookIds : Feeding = {j} => feedbackHook = hooks'[j].name
      BY <2>2
    <3> QED  BY <3>1, <3>2, <3>3 DEF follows, Follows
  <2>4. i \notin earlier'[i]
    BY <1>1, <1>3
  <2>5. ASSUME NEW j \in HookIds \ {i}, hooks'[j] # Nothing
        PROVE  /\ j \notin earlier'[j]
               /\ hooks'[j].followup <=>
                    /\ hooks'[j].event = "Stop"
                    /\ \E k \in HookIds : /\ Feeding \cap earlier'[j] = {k}
                                          /\ hooks'[j].name = hooks'[k].name
    <3>1. \A k \in HookIds : Feeding \cap earlier[j] = {k} => k # i
      BY <1>6
    <3>2. \A k \in HookIds : k # i => hooks'[k].name = hooks[k].name
      BY <1>3
    <3>3. hooks'[j] = hooks[j] /\ earlier'[j] = earlier[j]
      BY <1>3
    <3> QED  BY <2>5, <3>1, <3>2, <3>3 DEF Traced
  <2> QED  BY <1>1, <1>4, <1>6, <2>1, <2>2, <2>3, <2>4, <2>5 DEF Traced
<1>11. Tidy'
  BY <1>1, <1>6, <1>7 DEF Tidy, HookStarted, Counters, Succeeded, Events
<1> QED  BY <1>8, <1>9, <1>10, <1>11

----------------------------------------------------------------------------
\* A hook answers

LEMMA HookResponseStep ==
    ASSUME Inv, NEW i \in HookIds, NEW ok \in BOOLEAN, NEW key \in BOOLEAN,
           NEW context \in {"none", "other", "feedback"}, HookResponse(i, ok, key, context)
    PROVE  Counted' /\ Matched' /\ Traced' /\ Tidy'
<1> USE DEF Inv
<1> DEFINE stop == hooks[i].event = "Stop"
           blind == stop /\ counts["editSuccess"] = 0
           reply == [event |-> hooks[i].event, ok |-> ok, key |-> key, context |-> context]
           names == IF ~ok THEN {"failures"}
                    ELSE IF ~stop THEN {"upsCompleted"}
                    ELSE {"stopCompleted"}
                         \cup When(counts["editSuccess"] = 0, "failures")
                         \cup When(hooks[i].followup, "followupStops")
                         \cup When(key, "keyNotices")
                         \cup When(context # "none", "continuations")
                         \cup When(context = "feedback", "jevFeedback")
<1>1. /\ Reading /\ hooks[i] # Nothing /\ ~hooks[i].done /\ answer[i] = Nothing
      /\ (ok /\ stop) \/ (~key /\ context = "none")
      /\ hooks' = [hooks EXCEPT ![i].done = TRUE]
      /\ answer' = [answer EXCEPT ![i] = reply]
      /\ UNCHANGED <<rejected, tools, loaded, resultSuccess, earlier>>
  BY DEF HookResponse, Matched
<1>2. hooks[i] \in HookCall
  BY <1>1 DEF TypeOK
<1>3. /\ hooks'[i] # Nothing /\ hooks'[i].event = hooks[i].event
      /\ hooks'[i].name = hooks[i].name /\ hooks'[i].followup = hooks[i].followup
      /\ hooks'[i].done
      /\ \A j \in HookIds \ {i} : hooks'[j] = hooks[j] /\ answer'[j] = answer[j]
      /\ answer'[i] = reply /\ reply # Nothing
  <2>1. hooks'[i] = [hooks[i] EXCEPT !.done = TRUE] /\ hooks'[i] \in HookCall
    BY <1>1, <1>2 DEF TypeOK, HookCall
  <2>2. reply \in Answers
    BY <1>2 DEF HookCall, Answers
  <2> QED  BY <1>1, <1>2, <2>1, <2>2, SummaryAssumption DEF TypeOK, HookCall
<1>4. /\ answer'[i].event = hooks[i].event /\ answer'[i].ok = ok
      /\ answer'[i].key = key /\ answer'[i].context = context
      /\ stop \in BOOLEAN /\ hooks[i].event \in Events /\ hooks[i].followup \in BOOLEAN
  BY <1>2, <1>3 DEF HookCall
<1>5. \A c \in Counters : counts'[c] = IF c \in names THEN counts[c] + 1 ELSE counts[c]
  <2>1. Bump(names)
    BY Zenon DEF HookResponse
  <2>2. counts \in [Counters -> Nat]
    BY DEF TypeOK
  <2> HIDE DEF names
  <2> QED  BY <2>1, <2>2, Bumped, Zenon
<1> HIDE DEF reply
<1>6. /\ "failures" \in names <=> ~ok \/ blind
      /\ "upsCompleted" \in names <=> ok /\ ~stop
      /\ "stopCompleted" \in names <=> ok /\ stop
      /\ "followupStops" \in names <=> ok /\ stop /\ hooks[i].followup
      /\ "keyNotices" \in names <=> key
      /\ "continuations" \in names <=> context # "none"
      /\ "jevFeedback" \in names <=> context = "feedback"
      /\ \A c \in {"upsStarted", "stopStarted", "editSuccess", "readSuccess", "results",
                   "inits", "pluginEntries"} : c \notin names
  BY <1>1 DEF When
<1> HIDE DEF names
<1>7. \A e \in Events :
        /\ Started(e)' = Started(e)
        /\ Good(e)' = IF ok /\ e = hooks[i].event THEN Good(e) \cup {i} ELSE Good(e)
        /\ i \notin Good(e)
  BY <1>1, <1>3, <1>4 DEF Started, Good
<1>8. /\ Noting' = (IF key THEN Noting \cup {i} ELSE Noting)
      /\ Continuing' = (IF context # "none" THEN Continuing \cup {i} ELSE Continuing)
      /\ Feeding' = (IF context = "feedback" THEN Feeding \cup {i} ELSE Feeding)
      /\ Following' = (IF ok /\ stop /\ hooks[i].followup THEN Following \cup {i} ELSE Following)
      /\ i \notin Noting /\ i \notin Continuing /\ i \notin Feeding /\ i \notin Following
  <2>1. Good("Stop")' = IF ok /\ stop THEN Good("Stop") \cup {i} ELSE Good("Stop")
    BY <1>7 DEF Events
  <2>2. i \notin Good("Stop")
    BY <1>7 DEF Events
  <2>3. \A j \in Good("Stop") : answer'[j] = answer[j] /\ hooks'[j] = hooks[j]
    BY <1>3, <2>2 DEF Good
  <2> QED  BY <1>1, <1>3, <1>4, <2>1, <2>2, <2>3 DEF Noting, Continuing, Feeding, Following
<1>9. Counted'
  <2>1. \A e \in Events : IsFiniteSet(Started(e)')
    BY <1>7 DEF Counted
  <2>2. /\ counts'["upsStarted"] = Cardinality(Started("UserPromptSubmit")')
        /\ counts'["stopStarted"] = Cardinality(Started("Stop")')
    BY <1>5, <1>6, <1>7 DEF Counted, Counters, Events
  <2>3. counts'["upsCompleted"] = Cardinality(Good("UserPromptSubmit")')
    <3>1. "UserPromptSubmit" \in Events /\ (hooks[i].event = "UserPromptSubmit" <=> ~stop)
      BY <1>4 DEF Events
    <3>2. counts'["upsCompleted"] = IF ok /\ ~stop THEN counts["upsCompleted"] + 1
                                    ELSE counts["upsCompleted"]
      BY <1>5, <1>6 DEF Counters
    <3>3. /\ Good("UserPromptSubmit")' = IF ok /\ ~stop THEN Good("UserPromptSubmit") \cup {i}
                                         ELSE Good("UserPromptSubmit")
          /\ i \notin Good("UserPromptSubmit") /\ IsFiniteSet(Good("UserPromptSubmit"))
      BY <1>7, <3>1, FiniteSets
    <3> QED  BY <3>2, <3>3, Gains DEF Counted
  <2>4. counts'["stopCompleted"] = Cardinality(Good("Stop")')
    <3>1. counts'["stopCompleted"] = IF ok /\ stop THEN counts["stopCompleted"] + 1
                                     ELSE counts["stopCompleted"]
      BY <1>5, <1>6 DEF Counters
    <3>2. /\ Good("Stop")' = IF ok /\ stop THEN Good("Stop") \cup {i} ELSE Good("Stop")
          /\ i \notin Good("Stop") /\ IsFiniteSet(Good("Stop"))
      BY <1>7, FiniteSets DEF Events
    <3> QED  BY <3>1, <3>2, Gains DEF Counted
  <2>5. counts'["keyNotices"] = Cardinality(Noting')
    <3>1. counts'["keyNotices"] = IF key THEN counts["keyNotices"] + 1 ELSE counts["keyNotices"]
      BY <1>5, <1>6 DEF Counters
    <3> QED  BY <1>8, <3>1, Gains, FiniteSets DEF Counted
  <2>6. counts'["continuations"] = Cardinality(Continuing')
    <3>1. counts'["continuations"] = IF context # "none" THEN counts["continuations"] + 1
                                     ELSE counts["continuations"]
      BY <1>5, <1>6 DEF Counters
    <3> QED  BY <1>8, <3>1, Gains, FiniteSets DEF Counted
  <2>7. counts'["jevFeedback"] = Cardinality(Feeding')
    <3>1. counts'["jevFeedback"] = IF context = "feedback" THEN counts["jevFeedback"] + 1
                                   ELSE counts["jevFeedback"]
      BY <1>5, <1>6 DEF Counters
    <3> QED  BY <1>8, <3>1, Gains, FiniteSets DEF Counted
  <2>8. counts'["followupStops"] = Cardinality(Following')
    <3>1. counts'["followupStops"] = IF ok /\ stop /\ hooks[i].followup
                                     THEN counts["followupStops"] + 1
                                     ELSE counts["followupStops"]
      BY <1>5, <1>6 DEF Counters
    <3> QED  BY <1>8, <3>1, Gains, FiniteSets DEF Counted
  <2> QED  BY <2>1, <2>2, <2>3, <2>4, <2>5, <2>6, <2>7, <2>8 DEF Counted
<1>10. Matched'
  <2>1. key \/ context # "none" => i \in Good("Stop")'
    BY <1>1, <1>7 DEF Events
  <2>2. Good("Stop") \subseteq Good("Stop")'
    BY <1>7 DEF Events
  <2> QED  BY <1>3, <1>4, <2>1, <2>2 DEF Matched
<1>11. Traced'
  <2>1. \A j \in HookIds : i \notin earlier[j] /\ earlier'[j] = earlier[j]
    BY <1>1 DEF Traced
  <2>2. \A j \in HookIds : Feeding' \cap earlier'[j] = Feeding \cap earlier[j]
    BY <1>8, <2>1
  <2>3. \A j \in HookIds : /\ hooks'[j] # Nothing <=> hooks[j] # Nothing
                           /\ hooks[j] # Nothing => /\ hooks'[j].name = hooks[j].name
                                                    /\ hooks'[j].event = hooks[j].event
                                                    /\ hooks'[j].followup = hooks[j].followup
    BY <1>1, <1>3
  <2>4. \A j \in Feeding : hooks[j] # Nothing
    BY DEF Feeding, Good, Matched
  <2>5. ASSUME NEW j \in HookIds, hooks'[j] # Nothing
        PROVE  /\ j \notin earlier'[j]
               /\ hooks'[j].followup <=>
                    /\ hooks'[j].event = "Stop"
                    /\ \E k \in HookIds : /\ Feeding' \cap earlier'[j] = {k}
                                          /\ hooks'[j].name = hooks'[k].name
    <3>1. \A k \in HookIds : Feeding \cap earlier[j] = {k} => hooks'[k].name = hooks[k].name
      BY <2>3, <2>4
    <3> QED  BY <2>1, <2>2, <2>3, <2>5, <3>1 DEF Traced
  <2>6. \A j \in HookIds : \A k \in earlier'[j] : answer'[k] # Nothing
    <3>1. \A k : answer[k] # Nothing /\ k \in HookIds => answer'[k] # Nothing
      BY <1>3
    <3> QED  BY <2>1, <3>1 DEF Traced, TypeOK
  <2>7. \A j \in HookIds : Feeding' = {j} => feedbackHook' = hooks'[j].name
    <3>1. CASE context = "feedback"
      <4>1. feedbackHook' = hooks[i].name
        BY <1>1, <3>1 DEF HookResponse
      <4>2. \A j : Feeding' = {j} => j = i
        BY <1>8, <3>1
      <4> QED  BY <1>3, <4>1, <4>2
    <3>2. CASE context # "feedback"
      BY <1>8, <2>3, <2>4, <3>2 DEF HookResponse, Traced
    <3> QED  BY <3>1, <3>2
  <2> QED  BY <2>5, <2>6, <2>7 DEF Traced
<1>12. Tidy'
  <2>1. \A c \in {"readSuccess", "editSuccess", "results"} : counts'[c] = counts[c]
    BY <1>5, <1>6 DEF Counters
  <2>2. counts'["failures"] = 0 <=> counts["failures"] = 0 /\ ok /\ ~blind
    BY <1>5, <1>6 DEF Counters, TypeOK
  <2>3. misplaced' = {} <=> misplaced = {} /\ ~(ok /\ blind)
    <3>1. misplaced' = misplaced \cup
            When(ok /\ stop /\ ~\E t \in ToolIds \ misplaced :
                   tools[t] # Nothing /\ tools[t].name = "Edit" /\ tools[t].done, i)
      BY DEF HookResponse
    <3>2. misplaced = {} => (counts["editSuccess"] = 0 <=> ~Succeeded("Edit"))
      BY DEF Tidy, TypeOK, Counters
    <3> QED  BY <3>1, <3>2 DEF When, Succeeded
  <2>4. (\A j \in HookIds : answer'[j] # Nothing => answer'[j].ok)
          <=> (\A j \in HookIds : answer[j] # Nothing => answer[j].ok) /\ ok
    BY <1>1, <1>3, <1>4
  <2>5. \A n : Succeeded(n)' <=> Succeeded(n)
    BY <1>1 DEF Succeeded
  <2> QED  BY <1>1, <2>1, <2>2, <2>3, <2>4, <2>5 DEF Tidy, Reading
<1> QED  BY <1>9, <1>10, <1>11, <1>12

----------------------------------------------------------------------------
\* The invariant

\* The counters and the maps agree with what the stream has shown, after every
\* event of every stream (consume, main.go:79-237).
THEOREM Invariance == Spec => []Inv
<1>1. ASSUME Inv, [Next]_vars  PROVE Inv'
  <2>1. CASE Reject
    BY <2>1, RejectStep
  <2>2. CASE ~Reject
    <3>1. TypeOK'
      BY <1>1, TypeStep DEF Inv
    <3>2. CASE UNCHANGED vars
      <4>1. Aside /\ misplaced' = misplaced /\ tools' = tools /\ counts' = counts
            /\ resultSuccess' = resultSuccess
        BY <3>2 DEF vars, summary, ghosts, Aside
      <4>2. Tidy'
        BY <1>1, <4>1 DEF Inv, Tidy, Aside, Succeeded, Good
      <4> QED  BY <1>1, <3>1, <4>1, <4>2, AsideKeeps DEF Inv
    <3>3. CASE Next
      <4> QED  BY <1>1, <2>2, <3>1, <3>3, SystemInitStep, ToolUseStep, ToolResultStep,
                  HookStartedStep, HookResponseStep, ResultStep DEF Next, Inv
    <3> QED  BY <1>1, <3>2, <3>3
  <2> QED  BY <2>1, <2>2
<1> QED  BY <1>1, InitInv, PTL DEF Spec

\* Every variable of the summary keeps its type, and the two maps are there from the
\* first event on (readSummary, main.go:297).
THEOREM TypeCorrect == Spec => []TypeOK
BY Invariance, PTL DEF Inv

----------------------------------------------------------------------------
\* The verdict

\* The conditions that the verdict is made of, said of the sets of hooks.
Shown ==
    /\ misplaced = {}
    /\ counts["inits"] = 1 /\ counts["pluginEntries"] = 1 /\ loaded
    /\ counts["results"] = 1 /\ resultSuccess
    /\ \A i \in HookIds : answer[i] # Nothing => answer[i].ok
    /\ Good("Stop") # {}
    /\ Cardinality(Started("UserPromptSubmit")) = 1
    /\ Started("UserPromptSubmit") = Good("UserPromptSubmit")
    /\ Succeeded("Read") /\ Succeeded("Edit")

LEMMA CommonShown == ASSUME Inv  PROVE Common <=> Shown
<1> USE DEF Inv
<1>1. \A c \in Counters : counts[c] \in Nat
  BY DEF TypeOK
<1>2. /\ Good("UserPromptSubmit") \subseteq Started("UserPromptSubmit")
      /\ IsFiniteSet(Started("UserPromptSubmit"))
  BY FiniteSets DEF Counted, Events
<1>3. counts["upsStarted"] = 1 /\ counts["upsCompleted"] = 1 <=>
        /\ Cardinality(Started("UserPromptSubmit")) = 1
        /\ Started("UserPromptSubmit") = Good("UserPromptSubmit")
  BY <1>2, FS_Subset DEF Counted
<1>4. /\ counts["results"] \in Nat /\ counts["readSuccess"] \in Nat
      /\ counts["editSuccess"] \in Nat
  BY <1>1 DEF Counters
<1>5. Common => Shown
  BY <1>3, <1>4 DEF Common, Shown, Tidy
<1>6. Shown => Common
  BY <1>3, <1>4 DEF Common, Shown, Tidy
<1> QED  BY <1>5, <1>6

\* Under the flag withKey the verdict is PASS in these cases only: no other
\* condition of the cascade in run lets it through.
LEMMA PassIsPassed ==
    ASSUME TypeOK, NEW withKey \in BOOLEAN
    PROVE  Verdict(withKey) = "PASS" <=> ~rejected /\ Passed(withKey)
<1>1. /\ counts["failures"] \in Nat /\ counts["continuations"] \in Nat
      /\ counts["keyNotices"] \in Nat
  BY DEF TypeOK, Counters
<1>2. Passed(withKey) => /\ counts["failures"] = 0
                         /\ withKey => counts["continuations"] = 1 /\ counts["keyNotices"] = 0
                         /\ ~withKey => counts["continuations"] = 0
  BY DEF Passed, Common
<1> QED  BY <1>1, <1>2 DEF Verdict

\* With a key, a pass is a feedback and a Stop of the same name that has started
\* after it and answered; conversely nothing else is needed.
LEMMA PassedWithKey == ASSUME Inv  PROVE Passed(TRUE) <=> Orderly /\ FollowedUp
<1> USE DEF Inv
<1>1. /\ Good("Stop") \subseteq Started("Stop")
      /\ Good("UserPromptSubmit") \subseteq Started("UserPromptSubmit")
      /\ IsFiniteSet(Started("Stop")) /\ IsFiniteSet(Good("Stop"))
      /\ IsFiniteSet(Noting) /\ IsFiniteSet(Continuing) /\ IsFiniteSet(Feeding)
      /\ IsFiniteSet(Following)
      /\ Feeding \subseteq Continuing /\ Continuing \subseteq Good("Stop")
      /\ Following \subseteq Good("Stop") /\ Noting \subseteq Good("Stop")
  <2>1. Feeding \subseteq Continuing
    BY DEF Feeding, Continuing
  <2> QED  BY <2>1, FiniteSets DEF Counted, Events
<1>2. \A i \in HookIds : hooks[i] # Nothing =>
        i \in Started("Stop") \/ i \in Started("UserPromptSubmit")
  BY DEF TypeOK, HookCall, Events, Started
<1>3. \A e \in Events, i \in HookIds : i \in Good(e) => Answered(i)
  BY DEF Good, Answered
<1>4. \A e \in Events : \A i \in Started(e) : Answered(i) => i \in Good(e)
  BY DEF Started, Answered, Good, Matched
<1>5. ASSUME Passed(TRUE)  PROVE Orderly /\ FollowedUp
  <2>1. Shown
    BY <1>5, CommonShown DEF Passed
  <2>2. Started("Stop") = Good("Stop")
    BY <1>1, <1>5, FS_Subset DEF Passed, Counted
  <2>3. \A i \in HookIds : hooks[i] # Nothing => Answered(i)
    BY <1>2, <1>3, <2>1, <2>2 DEF Shown, Events
  <2>4. PICK i : Continuing = {i} /\ Feeding = {i}
    <3>1. PICK i : Continuing = {i}
      BY <1>1, <1>5, FS_Singleton DEF Passed, Counted
    <3>2. PICK j : Feeding = {j}
      BY <1>1, <1>5, FS_Singleton DEF Passed, Counted
    <3> QED  BY <1>1, <3>1, <3>2
  <2>5. PICK j \in Following : TRUE
    BY <1>1, <1>5, FS_EmptySet DEF Passed, Counted
  <2>6. j \in Started("Stop") /\ hooks[j] # Nothing /\ hooks[j].followup /\ j \in HookIds
    BY <1>1, <2>5 DEF Following, Started
  <2>7. i \in earlier[j] /\ hooks[j].name = hooks[i].name
    BY <2>4, <2>6 DEF Traced
  <2>8. Continued = {i}
    BY <1>3, <2>2, <2>4 DEF Continued, Continuing, Events, Good
  <2>9. \A k \in Started("Stop") : ~answer[k].key
    <3>1. Noting = {}
      BY <1>1, <1>5, FS_EmptySet DEF Passed, Counted
    <3> QED  BY <2>2, <3>1 DEF Noting
  <2>10. i \in Started("Stop") /\ answer[i].context = "feedback"
    BY <2>2, <2>4 DEF Feeding
  <2> QED  BY <2>1, <2>3, <2>6, <2>7, <2>8, <2>9, <2>10 DEF Orderly, Shown, FollowedUp
<1>6. ASSUME Orderly, FollowedUp  PROVE Passed(TRUE)
  <2>1. \A e \in Events : Started(e) = Good(e)
    BY <1>4, <1>6, FiniteSets DEF Orderly, Started
  <2>2. PICK i \in Started("Stop"), j \in Started("Stop") :
          /\ Continued = {i} /\ answer[i].context = "feedback"
          /\ i \in earlier[j] /\ hooks[j].name = hooks[i].name
          /\ \A k \in Started("Stop") : ~answer[k].key
    BY <1>6 DEF FollowedUp
  <2>3. i \in Good("Stop") /\ j \in Good("Stop") /\ i \in HookIds /\ j \in HookIds
    BY <2>1, <2>2 DEF Events, Started
  <2>4. Common
    <3>1. \A k \in HookIds : answer[k] # Nothing => answer[k].ok
      BY <1>6 DEF Orderly, Answered, Matched
    <3>2. Shown
      BY <1>6, <2>1, <2>3, <3>1 DEF Orderly, Shown, Events
    <3> QED  BY <3>2, CommonShown
  <2>5. Continuing = {i} /\ Feeding = {i} /\ Noting = {}
    <3>1. Continuing = Continued
      BY <1>3, <1>4, <2>1 DEF Continued, Continuing, Events, Good
    <3>2. i \in Feeding
      BY <2>2, <2>3 DEF Feeding
    <3>3. Noting = {}
      BY <2>1, <2>2 DEF Noting, Events
    <3> QED  BY <1>1, <2>2, <3>1, <3>2, <3>3
  <2>6. counts["continuations"] = 1 /\ counts["jevFeedback"] = 1 /\ counts["keyNotices"] = 0
    BY <2>5, FS_Singleton, FS_EmptySet DEF Counted
  <2>7. j \in Following
    <3>1. hooks[j] # Nothing /\ hooks[j].event = "Stop"
      BY <2>2 DEF Started
    <3>2. Feeding \cap earlier[j] = {i}
      BY <2>2, <2>5
    <3> QED  BY <2>2, <2>3, <3>1, <3>2 DEF Traced, Following
  <2>8. counts["followupStops"] > 0
    <3>1. Cardinality(Following) \in Nat /\ Cardinality(Following) # 0
      BY <1>1, <2>7, FS_CardinalityType, FS_EmptySet
    <3> QED  BY <3>1 DEF Counted
  <2>9. counts["stopCompleted"] >= 2
    <3>1. i # j
      BY <2>2, <2>3 DEF Traced, Started
    <3>2. Cardinality({i} \cup {j}) = 2 /\ IsFiniteSet({i} \cup {j})
      <4>1. IsFiniteSet({i}) /\ Cardinality({i}) = 1 /\ j \notin {i}
        BY <3>1, FS_Singleton
      <4> QED  BY <4>1, Gains
    <3>3. {i} \cup {j} \in SUBSET Good("Stop")
      BY <2>3
    <3>4. Cardinality(Good("Stop")) >= 2
      BY <1>1, <3>2, <3>3, FS_Subset, FS_CardinalityType
    <3> QED  BY <3>4 DEF Counted
  <2>10. counts["stopCompleted"] = counts["stopStarted"]
    BY <2>1 DEF Counted, Events
  <2> QED  BY <2>4, <2>6, <2>8, <2>9, <2>10 DEF Passed
<1> QED  BY <1>5, <1>6

\* Without a key, a pass is one Stop that gave the notice and no continuation.
LEMMA PassedWithoutKey == ASSUME Inv  PROVE Passed(FALSE) <=> Orderly /\ FailedOpen
<1> USE DEF Inv
<1>1. /\ Good("Stop") \subseteq Started("Stop")
      /\ Good("UserPromptSubmit") \subseteq Started("UserPromptSubmit")
      /\ IsFiniteSet(Started("Stop")) /\ IsFiniteSet(Good("Stop"))
      /\ IsFiniteSet(Noting) /\ IsFiniteSet(Continuing)
      /\ Continuing \subseteq Good("Stop") /\ Noting \subseteq Good("Stop")
  BY FiniteSets DEF Counted, Events
<1>2. \A i \in HookIds : hooks[i] # Nothing =>
        i \in Started("Stop") \/ i \in Started("UserPromptSubmit")
  BY DEF TypeOK, HookCall, Events, Started
<1>3. \A e \in Events, i \in HookIds : i \in Good(e) => Answered(i)
  BY DEF Good, Answered
<1>4. \A e \in Events : \A i \in Started(e) : Answered(i) => i \in Good(e)
  BY DEF Started, Answered, Good, Matched
<1>5. ASSUME Passed(FALSE)  PROVE Orderly /\ FailedOpen
  <2>1. Shown
    BY <1>5, CommonShown DEF Passed
  <2>2. Started("Stop") = Good("Stop")
    BY <1>1, <1>5, FS_Subset DEF Passed, Counted
  <2>3. \A i \in HookIds : hooks[i] # Nothing => Answered(i)
    BY <1>2, <1>3, <2>1, <2>2 DEF Shown, Events
  <2>4. PICK i : Started("Stop") = {i}
    BY <1>1, <1>5, FS_Singleton DEF Passed, Counted
  <2>5. PICK j : Noting = {j}
    BY <1>1, <1>5, FS_Singleton DEF Passed, Counted
  <2>6. Noting = {i} /\ i \in HookIds
    BY <1>1, <2>4, <2>5 DEF Started
  <2>7. Continuing = {}
    BY <1>1, <1>5, FS_EmptySet DEF Passed, Counted
  <2>8. answer[i].key /\ answer[i].context = "none"
    BY <2>2, <2>4, <2>6, <2>7 DEF Noting, Continuing
  <2> QED  BY <2>1, <2>3, <2>4, <2>6, <2>8 DEF Orderly, Shown, FailedOpen
<1>6. ASSUME Orderly, FailedOpen  PROVE Passed(FALSE)
  <2>1. \A e \in Events : Started(e) = Good(e)
    BY <1>4, <1>6, FiniteSets DEF Orderly, Started
  <2>2. PICK i \in HookIds :
          Started("Stop") = {i} /\ answer[i].key /\ answer[i].context = "none"
    BY <1>6 DEF FailedOpen
  <2>3. Good("Stop") = {i}
    BY <2>1, <2>2 DEF Events
  <2>4. Common
    <3>1. \A k \in HookIds : answer[k] # Nothing => answer[k].ok
      BY <1>6 DEF Orderly, Answered, Matched
    <3>2. Shown
      BY <1>6, <2>1, <2>3, <3>1 DEF Orderly, Shown, Events
    <3> QED  BY <3>2, CommonShown
  <2>5. Noting = {i} /\ Continuing = {}
    BY <2>2, <2>3 DEF Noting, Continuing
  <2> QED  BY <2>2, <2>3, <2>4, <2>5, FS_Singleton, FS_EmptySet DEF Passed, Counted
<1> QED  BY <1>5, <1>6

\* docs/hook-smoke.md: whatever the order and the identities of the events, the
\* verdict of run is PASS exactly when the stream shows the submission, the tools and
\* the Stops that the check is for (main.go:328-351).
THEOREM PassMeansEvidence == Spec => []PassIsEvidence
<1>1. ASSUME Inv  PROVE PassIsEvidence
  <2>1. ASSUME NEW withKey \in BOOLEAN
        PROVE  Verdict(withKey) = "PASS" <=>
                 ~rejected /\ Orderly /\ (IF withKey THEN FollowedUp ELSE FailedOpen)
    <3>1. Verdict(withKey) = "PASS" <=> ~rejected /\ Passed(withKey)
      BY <1>1, PassIsPassed DEF Inv
    <3>2. Passed(withKey) <=> Orderly /\ (IF withKey THEN FollowedUp ELSE FailedOpen)
      <4>1. CASE withKey
        BY <1>1, <4>1, PassedWithKey
      <4>2. CASE ~withKey
        BY <1>1, <4>2, PassedWithoutKey
      <4> QED  BY <4>1, <4>2
    <3> QED  BY <3>1, <3>2
  <2> QED  BY <2>1 DEF PassIsEvidence
<1> QED  BY <1>1, Invariance, PTL
================================================================================
