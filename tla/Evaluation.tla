------------------------------- MODULE Evaluation ------------------------------
(***************************************************************************)
(* What a Stop decides between its record and its output: the settings it  *)
(* loads (config.go), what it makes of the answer of the service           *)
(* (client.go), which risks it names (policy.go), and the failure it       *)
(* reports to the notice ledger of the session.  A session is one such     *)
(* Stop, whatever it reads, and then hooks that fail for any reason: an    *)
(* evaluation does not depend on the ledger.                               *)
(* A probability is a number of thousandths, and a question is the rank of *)
(* its ID among the IDs.                                                   *)
(***************************************************************************)
EXTENDS NoticeLedger, Integers, Sequences

CONSTANTS Questions,   \* the ranks of the questions: 1..8 in the code
          Scores,      \* numbers the service may answer
          Errors,      \* classes of a request or a body that is no answer
          MaxMembers   \* members of a configuration

ASSUME EvaluationAssumption ==
    /\ Questions \subseteq Nat /\ IsFiniteSet(Questions)
    /\ Scores \subseteq Int /\ MaxMembers \in Nat
    /\ Errors \cup {"config", "api_key", "api_invalid_response"} \subseteq Classes

VARIABLE stop   \* the Stop: its phase, what it has read and what it concludes

session == <<vars, stop>>

----------------------------------------------------------------------------
(* The configuration: a sequence of members, whose names JSON lets repeat   *)
(* and lets differ in case from the fields they set.                        *)

Defaults == [mode |-> "assist", riskThreshold |-> 850, timeoutMs |-> 2000,
             maxDiffBytes |-> 65536, exclude |-> "none"]

Fields == DOMAIN Defaults

\* Values of the right type, on both sides of each limit.
Values == [mode |-> {"assist", "report", "off", "other"},
           riskThreshold |-> {-1, 0, 1000, 1001},
           timeoutMs |-> {0, 1, 60000, 60001},
           maxDiffBytes |-> {0, 1, 1048576, 1048577},
           exclude |-> {"none", "patterns", "invalid pattern"}]

Member(name, written, kind, value) ==
    [name |-> name, written |-> written, kind |-> kind, value |-> value]

Members ==
    (UNION {{Member(f, f, "value", v) : v \in Values[f]} : f \in Fields})
    \cup {Member("mode", "MODE", "value", v) : v \in Values["mode"]}
    \cup {Member(f, f, "null", Defaults[f]) : f \in Fields}
    \cup {Member(f, f, "other type", Defaults[f]) : f \in Fields}
    \cup {Member("mode", "MODE", "null", "assist"), Member("unknown", "unknown", "value", "")}

Documents == UNION {[1..n -> Members] : n \in 0..MaxMembers}

\* json.Decode, member by member: null leaves a scalar alone and empties a list.
Assign(settings, m) ==
    IF m.kind = "value" THEN [settings EXCEPT ![m.name] = m.value]
    ELSE IF m.name = "exclude" THEN [settings EXCEPT !["exclude"] = "none"]
    ELSE settings

Decodes(document) ==
    \A i \in DOMAIN document :
        document[i].name \in Fields /\ document[i].kind # "other type"

\* Variant: the fields are not decoded a second time.
NeverNull(document) == FALSE

\* By name as it is written, the last member of that name counts.
HasNull(document) ==
    \E i \in DOMAIN document :
        /\ document[i].kind = "null"
        /\ \A j \in i + 1 .. Len(document) : document[j].written # document[i].written

Validate(settings) ==
    /\ settings.mode \in {"assist", "report", "off"}
    /\ 0 <= settings.riskThreshold /\ settings.riskThreshold <= 1000
    /\ 1 <= settings.timeoutMs /\ settings.timeoutMs <= 60000
    /\ 1 <= settings.maxDiffBytes /\ settings.maxDiffBytes <= 1048576
    /\ settings.exclude \in {"none", "patterns"}

Rejected == [ok |-> FALSE, settings |-> Defaults]

\* The settings after n members.
Decoded(document) ==
    LET after[n \in 0..Len(document)] ==
          IF n = 0 THEN Defaults ELSE Assign(after[n - 1], document[n])
    IN  after

LoadObject(document) ==
    LET settings == Decoded(document)[Len(document)]
    IN  IF Decodes(document) /\ ~HasNull(document) /\ Validate(settings)
        THEN [ok |-> TRUE, settings |-> settings] ELSE Rejected

\* No file, an object, or a file that cannot be opened or read, that is too long,
\* no JSON, more than one document, or no object.
Files == {"absent", "object", "unusable"}

Load(file, document) ==
    CASE file = "absent" -> [ok |-> TRUE, settings |-> Defaults]
      [] file = "object" -> LoadObject(document)
      [] file = "unusable" -> Rejected

----------------------------------------------------------------------------
(* The answer                                                              *)

NoNumber == -2000   \* no answer, another type, or no number

ValidScore(score) == 0 <= score /\ score <= 1000

\* What comes of the one request: an error, a status, a body that cannot be read to
\* its end or is too long, or one answer to each question; a body that is not one
\* JSON document is classed as one without answers.
Replies ==
    {[error |-> e, answers |-> [q \in Questions |-> NoNumber]] : e \in Errors}
    \cup {[error |-> "none", answers |-> a] : a \in [Questions -> Scores \cup {NoNumber}]}

\* The class of the failure, or none.
Evaluate(reply) ==
    IF reply.error # "none" THEN reply.error
    ELSE IF \E q \in Questions : ~ValidScore(reply.answers[q]) THEN "api_invalid_response"
    ELSE "none"

\* By probability, then by ID.
Before(scores, q, r) == scores[q] > scores[r] \/ (scores[q] = scores[r] /\ q < r)

Reached(scores, threshold) ==
    {q \in Questions : ValidScore(scores[q]) /\ scores[q] >= threshold}

Cut(risks) == SubSeq(risks, 1, IF Len(risks) > 3 THEN 3 ELSE Len(risks))

\* sort.Slice, of items that are all different.
Sorted(scores, items) ==
    CHOOSE s \in [1..Cardinality(items) -> items] :
        \A i, j \in DOMAIN s : i < j => Before(scores, s[i], s[j])

\* Variant: the list, which is in the order of the IDs, is cut before it is sorted.
SelectFirst(scores, threshold) ==
    LET reached == Reached(scores, threshold)
    IN  Sorted(scores, {q \in reached : Cardinality({r \in reached : r < q}) < 3})

Select(scores, threshold) == Cut(Sorted(scores, Reached(scores, threshold)))

----------------------------------------------------------------------------
(* Runner.Run from its configuration on.                                   *)

Silent == [kind |-> "silent", class |-> "none", risks |-> <<>>]
Failure(c) == [Silent EXCEPT !.kind = "failure", !.class = c]
NoReply == [error |-> "none", answers |-> [q \in Questions |-> NoNumber]]
Over == [phase |-> "over", file |-> "absent", document |-> <<>>, loaded |-> Rejected,
         reply |-> NoReply, verdict |-> Silent]

\* What no report has set yet does not matter.
SessionInit ==
    /\ class = [h \in Hooks |-> "config"]
    /\ Init
    /\ \E file \in Files, document \in Documents :
         /\ file # "object" => document = <<>>
         /\ stop = [Over EXCEPT !.phase = "config", !.file = file, !.document = document]

LoadConfig ==
    /\ stop.phase = "config"
    /\ stop' = [stop EXCEPT !.phase = "loaded", !.loaded = Load(stop.file, stop.document)]
    /\ UNCHANGED vars

\* A failure of the configuration or of the key, mode off, or the request.
Proceed(key) ==
    /\ stop.phase = "loaded"
    /\ stop' = CASE ~stop.loaded.ok ->
                    [Over EXCEPT !.phase = "decided", !.verdict = Failure("config")]
                 [] stop.loaded.ok /\ stop.loaded.settings.mode = "off" -> Over
                 [] stop.loaded.ok /\ stop.loaded.settings.mode # "off" /\ ~key ->
                    [Over EXCEPT !.phase = "decided", !.verdict = Failure("api_key")]
                 [] OTHER -> [Over EXCEPT !.phase = "request", !.loaded = stop.loaded]
    /\ UNCHANGED vars

Verdict(settings, reply) ==
    LET risks == Select(reply.answers, settings.riskThreshold)
    IN  IF Evaluate(reply) # "none" THEN Failure(Evaluate(reply))
        ELSE IF risks = <<>> THEN Silent
        ELSE [kind |-> IF settings.mode = "report" THEN "report" ELSE "continuation",
              class |-> "none", risks |-> risks]

Answer ==
    /\ stop.phase = "request"
    /\ \E reply \in Replies :
         stop' = [stop EXCEPT !.phase = "decided", !.reply = reply,
                              !.verdict = Verdict(stop.loaded.settings, reply)]
    /\ UNCHANGED vars

\* Runner.failure, or the output.
Finish(h) ==
    /\ stop.phase = "decided"
    /\ IF stop.verdict.kind = "failure"
       THEN Fail(h) /\ class'[h] = stop.verdict.class
       ELSE UNCHANGED vars
    /\ stop' = Over

Later == stop.phase = "over" /\ Next /\ UNCHANGED stop

SessionNext ==
    \/ LoadConfig \/ Answer \/ Later
    \/ \E key \in BOOLEAN : Proceed(key)
    \/ \E h \in Hooks : Finish(h)

SessionSpec == SessionInit /\ [][SessionNext]_session

----------------------------------------------------------------------------
\* A configuration is applied as it is written or not at all: each setting is the
\* last that is written for it, or the default where none is, and a null, an unknown
\* name, another type or a value beyond its limits is never replaced by a default.
AppliedAsWritten ==
    stop.phase = "loaded" =>
        LET document == stop.document
            Named(f) == {i \in DOMAIN document : document[i].name = f}
            InForce(m) == m.kind = "value" /\ Validate([Defaults EXCEPT ![m.name] = m.value])
        IN  IF stop.loaded.ok
            THEN /\ stop.file # "unusable"
                 /\ \A f \in Fields :
                      IF Named(f) = {} THEN stop.loaded.settings[f] = Defaults[f]
                      ELSE \E last \in Named(f) :
                             /\ \A i \in Named(f) : i <= last
                             /\ InForce(document[last])
                             /\ stop.loaded.settings[f] = document[last].value
            ELSE \/ stop.file = "unusable"
                 \/ \E i \in DOMAIN document :
                      document[i].name \in Fields => ~InForce(document[i])

\* A continuation or a report names the three questions with the highest
\* probabilities of those that reach the threshold, by rank when probabilities are
\* equal, and is given only for a complete answer; anything short of one is a
\* failure and not a smaller list.
WorstFirst ==
    stop.phase = "decided" /\ stop.loaded.ok =>
        LET score == stop.reply.answers
            Better(q) == {r \in Questions : score[r] > score[q]}
                         \cup {r \in Questions : score[r] = score[q] /\ r < q}
            named == {q \in Questions : /\ score[q] >= stop.loaded.settings.riskThreshold
                                        /\ Cardinality(Better(q)) < 3}
            complete == /\ stop.reply.error = "none"
                        /\ \A q \in Questions : 0 <= score[q] /\ score[q] <= 1000
        IN  IF complete /\ named # {}
            THEN /\ stop.verdict.kind =
                      IF stop.loaded.settings.mode = "report" THEN "report" ELSE "continuation"
                 /\ Len(stop.verdict.risks) = Cardinality(named)
                 /\ \A i \in DOMAIN stop.verdict.risks :
                      /\ stop.verdict.risks[i] \in named
                      /\ Cardinality(Better(stop.verdict.risks[i])) = i - 1
            ELSE /\ stop.verdict.risks = <<>>
                 /\ stop.verdict.kind = IF complete THEN "silent" ELSE "failure"
================================================================================
