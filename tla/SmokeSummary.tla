------------------------------ MODULE SmokeSummary -----------------------------
(***************************************************************************)
(* scripts/hook-smoke-summary/main.go: reads the JSONL stream of one live  *)
(* session, keeps counters and two maps, and decides whether the session   *)
(* is evidence that the hooks work.  The stream is Claude's and may hold   *)
(* anything in any order; a message of several blocks is taken block by    *)
(* block, which is what the loop over them does.                           *)
(***************************************************************************)
EXTENDS Naturals, FiniteSets

CONSTANTS HookIds, ToolIds,  \* hook_id and tool_use id values
          Names,             \* hook_name values
          MaxInits,          \* bound: init events in one stream
          MaxEntries,        \* bound: entries of the plugin in all init events
          MaxFailures,       \* bound: failures counted
          Nothing            \* no such entry / no feedback yet

Events == {"UserPromptSubmit", "Stop"}

HookCall == [event : Events, name : Names, done : BOOLEAN, followup : BOOLEAN]
ToolCall == [name : {"Read", "Edit"}, done : BOOLEAN]
Answers == [event : Events, ok : BOOLEAN, key : BOOLEAN,
            context : {"none", "other", "feedback"}]

ASSUME SummaryAssumption ==
    /\ Nothing \notin Names /\ Nothing \notin HookCall \cup ToolCall \cup Answers
    /\ MaxEntries \in Nat

VARIABLES
    rejected,   \* the stream was refused and the summary discarded
    counts,     \* the counters that the verdict reads
    hooks,      \* the map of hook calls
    tools,      \* the map of Read and Edit calls
    feedbackHook,
    loaded, resultSuccess,
    answer,     \* ghost: what each hook answered
    earlier,    \* ghost: the hooks that had answered when each hook started
    misplaced   \* ghost: uses before the submission, Stops before an edit

summary == <<counts, hooks, tools, feedbackHook, loaded, resultSuccess>>
ghosts == <<answer, earlier, misplaced>>
vars == <<rejected, summary, ghosts>>

Counters == {"inits", "pluginEntries", "readSuccess", "editSuccess", "upsStarted",
             "upsCompleted", "stopStarted", "stopCompleted", "continuations",
             "keyNotices", "results", "failures", "followupStops", "jevFeedback"}

\* Variant: the two maps are not made.
BlankNil == [counts |-> [c \in Counters |-> 0],
             hooks |-> [i \in {} |-> Nothing],
             tools |-> [t \in {} |-> Nothing],
             answer |-> [i \in HookIds |-> Nothing],
             earlier |-> [i \in HookIds |-> {}]]

Blank == [counts |-> [c \in Counters |-> 0],
          hooks |-> [i \in HookIds |-> Nothing],
          tools |-> [t \in ToolIds |-> Nothing],
          answer |-> [i \in HookIds |-> Nothing],
          earlier |-> [i \in HookIds |-> {}]]

Init ==
    /\ rejected = FALSE
    /\ counts = Blank.counts /\ hooks = Blank.hooks /\ tools = Blank.tools
    /\ feedbackHook = Nothing
    /\ loaded = FALSE /\ resultSuccess = FALSE
    /\ answer = Blank.answer /\ earlier = Blank.earlier /\ misplaced = {}

\* consume refuses every event after the result.
Reading == ~rejected /\ counts["results"] = 0

\* Adds one to each counter of a set.  An event that fails for two reasons counts
\* one failure here and two in the code: the verdict asks only whether there is any.
Bump(names) ==
    /\ "failures" \in names => counts["failures"] < MaxFailures
    /\ counts' = [c \in Counters |-> IF c \in names THEN counts[c] + 1 ELSE counts[c]]

When(condition, name) == IF condition THEN {name} ELSE {}

\* An invalid line, a limit, a read error, or an event that a case refuses:
\* the summary is dropped as a whole.
Reject ==
    /\ ~rejected
    /\ rejected' = TRUE
    /\ counts' = Blank.counts /\ hooks' = Blank.hooks /\ tools' = Blank.tools
    /\ feedbackHook' = Nothing
    /\ loaded' = FALSE /\ resultSuccess' = FALSE
    /\ answer' = Blank.answer /\ earlier' = Blank.earlier /\ misplaced' = {}

\* "system" / "init".
SystemInit ==
    /\ Reading
    /\ counts["inits"] < MaxInits
    /\ \E entries \in 0..MaxEntries, ours \in BOOLEAN, errors \in 0..1 :
         /\ ours => entries > 0
         /\ counts["pluginEntries"] + entries <= MaxEntries
         /\ counts["failures"] + errors <= MaxFailures
         /\ counts' = [counts EXCEPT !["inits"] = @ + 1, !["pluginEntries"] = @ + entries,
                                     !["failures"] = @ + errors]
         /\ loaded' = (loaded \/ ours)
         /\ misplaced' = misplaced \cup When(errors > 0, "plugin")
    /\ UNCHANGED <<rejected, hooks, tools, feedbackHook, resultSuccess, answer, earlier>>

\* "assistant" / "tool_use" of Read or Edit by the main session.
ToolUse(t, name) ==
    /\ Reading
    /\ tools[t] = Nothing
    /\ tools' = [tools EXCEPT ![t] = [name |-> name, done |-> FALSE]]
    /\ Bump(When(counts["upsCompleted"] # 1, "failures"))
    /\ misplaced' = misplaced \cup
         When(Cardinality({i \in HookIds : /\ answer[i] # Nothing
                                           /\ answer[i].event = "UserPromptSubmit"
                                           /\ answer[i].ok}) # 1, t)
    /\ UNCHANGED <<rejected, hooks, feedbackHook, loaded, resultSuccess, answer, earlier>>

\* "user" / "tool_result"; results of other calls are passed over.
ToolResult(t, isError) ==
    /\ Reading
    /\ tools[t] # Nothing /\ ~tools[t].done
    /\ tools' = [tools EXCEPT ![t].done = TRUE]
    /\ Bump({IF isError THEN "failures"
             ELSE IF tools[t].name = "Read" THEN "readSuccess" ELSE "editSuccess"})
    /\ misplaced' = misplaced \cup When(isError, t)
    /\ UNCHANGED <<rejected, hooks, feedbackHook, loaded, resultSuccess, answer, earlier>>

\* Whether a hook that starts now is the Stop that the feedback asks for.
Follows(event, name) ==
    event = "Stop" /\ counts["jevFeedback"] = 1 /\ name = feedbackHook

HookStarted(i, event, name) ==
    /\ Reading
    /\ hooks[i] = Nothing
    /\ hooks' = [hooks EXCEPT ![i] = [event |-> event, name |-> name, done |-> FALSE,
                                      followup |-> Follows(event, name)]]
    /\ Bump({IF event = "Stop" THEN "stopStarted" ELSE "upsStarted"})
    /\ earlier' = [earlier EXCEPT ![i] = {j \in HookIds : answer[j] # Nothing}]
    /\ UNCHANGED <<rejected, tools, feedbackHook, loaded, resultSuccess, answer, misplaced>>

\* "hook_response" of a hook that has started under the same event and name and
\* has not answered.  Only what a Stop that succeeded wrote is looked at, so only
\* such a Stop is given any: a notice about the key, a continuation, one in the
\* production wording.
HookResponse(i, ok, key, context) ==
    /\ Reading
    /\ hooks[i] # Nothing /\ ~hooks[i].done
    /\ (ok /\ hooks[i].event = "Stop") \/ (~key /\ context = "none")
    /\ hooks' = [hooks EXCEPT ![i].done = TRUE]
    /\ LET stop == hooks[i].event = "Stop"
       IN  /\ Bump(IF ~ok THEN {"failures"}
                   ELSE IF ~stop THEN {"upsCompleted"}
                   ELSE {"stopCompleted"}
                        \cup When(counts["editSuccess"] = 0, "failures")
                        \cup When(hooks[i].followup, "followupStops")
                        \cup When(key, "keyNotices")
                        \cup When(context # "none", "continuations")
                        \cup When(context = "feedback", "jevFeedback"))
           /\ feedbackHook' = IF ok /\ stop /\ context = "feedback"
                              THEN hooks[i].name ELSE feedbackHook
           /\ misplaced' = misplaced \cup
                When(ok /\ stop /\ ~\E t \in ToolIds \ misplaced :
                       tools[t] # Nothing /\ tools[t].name = "Edit" /\ tools[t].done, i)
    /\ answer' = [answer EXCEPT ![i] =
                    [event |-> hooks[i].event, ok |-> ok, key |-> key, context |-> context]]
    /\ UNCHANGED <<rejected, tools, loaded, resultSuccess, earlier>>

\* "result": the last event of a stream.
Result(success) ==
    /\ Reading
    /\ Bump({"results"} \cup When(counts["stopCompleted"] = 0 \/ ~success, "failures"))
    /\ resultSuccess' = success
    /\ UNCHANGED <<rejected, hooks, tools, feedbackHook, loaded, ghosts>>

Next ==
    \/ Reject \/ SystemInit
    \/ \E t \in ToolIds :
         \/ \E name \in {"Read", "Edit"} : ToolUse(t, name)
         \/ \E isError \in BOOLEAN : ToolResult(t, isError)
    \/ \E i \in HookIds :
         \/ \E event \in Events, name \in Names : HookStarted(i, event, name)
         \/ \E ok, key \in BOOLEAN, context \in {"none", "other", "feedback"} :
              HookResponse(i, ok, key, context)
    \/ \E success \in BOOLEAN : Result(success)

Spec == Init /\ [][Next]_vars

----------------------------------------------------------------------------
\* The verdict, were the stream to end here; withKey is the flag of main

Common ==
    /\ counts["failures"] = 0
    /\ counts["inits"] = 1 /\ counts["pluginEntries"] = 1 /\ loaded
    /\ counts["readSuccess"] > 0 /\ counts["editSuccess"] > 0
    /\ counts["upsStarted"] = 1 /\ counts["upsCompleted"] = 1
    /\ counts["results"] = 1 /\ resultSuccess

\* Variant: a Stop that has not answered does not count against the verdict.
PassedWhilePending(withKey) ==
    /\ Common
    /\ IF withKey
       THEN /\ counts["continuations"] = 1 /\ counts["jevFeedback"] = 1
            /\ counts["followupStops"] > 0 /\ counts["stopCompleted"] >= 2
            /\ counts["keyNotices"] = 0
       ELSE /\ counts["continuations"] = 0
            /\ counts["stopCompleted"] = 1 /\ counts["keyNotices"] = 1

Passed(withKey) ==
    /\ Common
    /\ IF withKey
       THEN /\ counts["continuations"] = 1 /\ counts["jevFeedback"] = 1
            /\ counts["followupStops"] > 0 /\ counts["stopCompleted"] >= 2
            /\ counts["stopCompleted"] = counts["stopStarted"]
            /\ counts["keyNotices"] = 0
       ELSE /\ counts["continuations"] = 0
            /\ counts["stopStarted"] = 1 /\ counts["stopCompleted"] = 1
            /\ counts["keyNotices"] = 1

Verdict(withKey) ==
    IF rejected THEN "UNVERIFIED"
    ELSE IF counts["failures"] > 0
            \/ (withKey /\ (counts["continuations"] > 1 \/ counts["keyNotices"] > 0))
            \/ (~withKey /\ counts["continuations"] > 0) THEN "FAIL"
    ELSE IF Passed(withKey) THEN "PASS"
    ELSE IF withKey /\ counts["continuations"] = 0 THEN "NOT_EXERCISED"
    ELSE "SKIP"

----------------------------------------------------------------------------
\* What a pass is evidence of, said without the counters

TypeOK ==
    /\ rejected \in BOOLEAN /\ loaded \in BOOLEAN /\ resultSuccess \in BOOLEAN
    /\ counts \in [Counters -> Nat]
    /\ feedbackHook \in Names \cup {Nothing}
    /\ hooks \in [HookIds -> HookCall \cup {Nothing}]
    /\ tools \in [ToolIds -> ToolCall \cup {Nothing}]
    /\ answer \in [HookIds -> Answers \cup {Nothing}]
    /\ earlier \in [HookIds -> SUBSET HookIds]

Started(event) == {i \in HookIds : hooks[i] # Nothing /\ hooks[i].event = event}
Answered(i) == answer[i] # Nothing /\ answer[i].ok
Succeeded(name) ==
    \E t \in ToolIds : tools[t] # Nothing /\ tools[t].name = name /\ tools[t].done

\* Nothing failed and nothing came out of order: one submission and every Stop
\* answered, the tools were used after the submission and before the Stops.
Orderly ==
    /\ misplaced = {}
    /\ counts["inits"] = 1 /\ counts["pluginEntries"] = 1 /\ loaded
    /\ counts["results"] = 1 /\ resultSuccess
    /\ \A i \in HookIds : hooks[i] # Nothing => Answered(i)
    /\ Cardinality(Started("UserPromptSubmit")) = 1
    /\ Succeeded("Read") /\ Succeeded("Edit")

Continued == {i \in Started("Stop") : Answered(i) /\ answer[i].context # "none"}

\* docs/hook-smoke.md: one Stop response with the production feedback, followed
\* by a same-name Stop that starts after that feedback and completes, with no
\* second continuation.
FollowedUp ==
    \E i, j \in Started("Stop") :
        /\ Continued = {i} /\ answer[i].context = "feedback"
        /\ i \in earlier[j] /\ hooks[j].name = hooks[i].name
        /\ \A k \in Started("Stop") : ~answer[k].key

\* docs/hook-smoke.md: without a key, one Stop that skips with the notice.
FailedOpen ==
    \E i \in HookIds :
        Started("Stop") = {i} /\ answer[i].key /\ answer[i].context = "none"

\* The verdict is PASS exactly when the stream shows what the check is for, in
\* whatever order and under whatever identities the events arrived.
PassIsEvidence ==
    \A withKey \in BOOLEAN :
        Verdict(withKey) = "PASS" <=>
            ~rejected /\ Orderly /\ (IF withKey THEN FollowedUp ELSE FailedOpen)
================================================================================
