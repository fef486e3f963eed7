---------------------------- MODULE ProviderCall ----------------------------
(***************************************************************************)
(* One bounded structured call of a provider adapter: request_json of      *)
(* llm/bounded_http.py with its deadline, byte limit and clean-up, then    *)
(* the reading of the answer by the OpenAI-compatible and the Ollama       *)
(* adapter.  The peer may answer any status, trickle, break off, or send   *)
(* any answer; time passes in every read.  The read timeout of requests    *)
(* restarts with each byte, also with those that are no byte of the body.  *)
(***************************************************************************)
EXTENDS Naturals, FiniteSets, FiniteSetsExt

CONSTANTS Total,           \* total_seconds
          Connect, Read,   \* the transport's connect and inactivity timeouts
          MaxBytes,        \* the envelope limit
          DiagnosticBytes, \* how much of a rejection is read
          Statuses,        \* the HTTP statuses the peer may send
          Usages,          \* the usage objects a peer may report
          FramingTime,     \* bound: when the last byte outside the body arrives
          Absent, Bad      \* a field that is missing, or has no valid value

ASSUME CallLimits ==
    {Total, Connect, Read, MaxBytes, DiagnosticBytes, FramingTime} \subseteq Nat /\ Statuses \subseteq Nat

\* The counts of a usage object.
Count == Nat \cup {Absent, Bad}

\* Whatever a peer reports: any counts, which may be missing, invalid or not add up.
ASSUME ReportedValues ==
    /\ Usages \subseteq [prompt : Count, completion : Count, total : Count, reasoning : Count]
    /\ Absent \notin Nat /\ Bad \notin Nat /\ Absent # Bad
    /\ \A s \in {"text", "long", "stop", "length", "filter"} : s # Absent /\ s # Bad

VARIABLES adapter, strict,  \* the adapter, and a strict schema profile
          phase,            \* post, headers, body, diagnose, close, read or done
          elapsed, size,    \* time since the start, bytes read
          framed,           \* when the last byte arrived that is none of the body
          held,             \* a response is held
          answer,           \* the decoded envelope
          outcome,          \* none, value, result or an error category
          diagnosis,        \* the reason a rejection was given
          usage             \* the usage the result or the error carries

providerVars == <<adapter, strict, phase, elapsed, size, framed, held, answer, outcome, diagnosis, usage>>

ConnectLimit == Min({Connect, Total})
ReadLimit == Min({Read, Total})

\* What an envelope says, as far as the adapters look: its choices (or message), a
\* refusal (or done not true), the content, within or beyond response_bytes, why
\* it ended, whose it is.
Envelope == [choices : 0..2, declined : BOOLEAN, content : {"text", "long", Absent, Bad},
             reason : {"stop", "length", "filter", Absent, Bad},
             model : {"asked", "alias", "other", Absent}, usage : Usages \cup {Absent, Bad}]

CallInit ==
    /\ adapter \in {"openai", "ollama"} /\ strict \in BOOLEAN
    /\ (adapter = "ollama" => ~strict)
    /\ phase = "post" /\ elapsed = 0 /\ size = 0 /\ framed = 0 /\ held = FALSE
    /\ answer = Absent /\ outcome = "none" /\ diagnosis = "none" /\ usage = Absent

Takes(d) == elapsed' = elapsed + d
FailsWith(category) == outcome' = category /\ phase' = IF held' THEN "close" ELSE "done"

-----------------------------------------------------------------------------
(* request_json                                                             *)

\* error_for_status.
ErrorForStatus(s) ==
    CASE s \in {401, 403} -> "authentication_failure"
      [] s = 404 -> "model_unavailable"
      [] s \in {408, 504} -> "timeout"
      [] s \in {429, 502, 503} -> "overloaded"
      [] OTHER -> "upstream_failure"

\* What request_json makes of a status of 300 or more.
Rejected(s) ==
    CASE s < 400 -> "configuration_failure"
      [] s \in {429, 502, 503} -> "overloaded"
      [] s \in {400, 422} -> "configuration_failure"
      [] s >= 500 /\ s # 504 -> "provider_unreachable"
      [] OTHER -> ErrorForStatus(s)

\* client.post connects and sends the request.
ConnectRequest ==
    /\ phase = "post" /\ held' = FALSE /\ UNCHANGED <<adapter, strict, size, answer, diagnosis, usage>>
    /\ \E d \in 0..ConnectLimit : Takes(d) /\ framed' = elapsed'
    /\ \/ \E c \in {"timeout", "provider_unreachable"} : FailsWith(c)
       \/ phase' = "headers" /\ UNCHANGED outcome

\* A byte arrives that the loops never see, of the headers or of the framing of the body
\* (the size of a chunk): the read timeout restarts, and no deadline is looked at.
Framing ==
    /\ phase \in {"headers", "body", "diagnose"}
    /\ \E d \in 0..ReadLimit : Takes(d) /\ elapsed' <= FramingTime /\ framed' = elapsed'
    /\ UNCHANGED <<adapter, strict, phase, size, held, answer, outcome, diagnosis, usage>>

\* client.post returns: no answer in time, a broken connection, or a status.
PostRequest ==
    /\ phase = "headers" /\ UNCHANGED <<adapter, strict, size, answer, diagnosis, usage>>
    /\ \E d \in 0..ReadLimit :
          /\ Takes(d) /\ framed' = elapsed'
          /\ \/ held' = FALSE /\ \E c \in {"timeout", "provider_unreachable"} : FailsWith(c)
             \/ /\ held' = TRUE
                /\ \E s \in Statuses :
                      \/ s < 300 /\ phase' = "body" /\ UNCHANGED outcome
                      \/ s \in {400, 422} /\ phase' = "diagnose" /\ outcome' = Rejected(s)
                      \/ s >= 300 /\ s \notin {400, 422} /\ FailsWith(Rejected(s))

\* Mutated: the deadline is not looked at.
DiagnoseUntimed ==
    /\ phase = "diagnose" /\ UNCHANGED <<adapter, strict, framed, held, answer, outcome, usage>>
    /\ \E d \in 0..ReadLimit :
          /\ Takes(d)
          /\ \/ /\ size + 1 <= DiagnosticBytes
                /\ size' = size + 1 /\ UNCHANGED <<phase, diagnosis>>
             \/ /\ size + 1 > DiagnosticBytes
                /\ phase' = "close" /\ diagnosis' = "request_configuration" /\ UNCHANGED size
             \/ /\ phase' = "close" /\ UNCHANGED size
                /\ diagnosis' \in {"request_configuration", "strict_schema_rejected"}

\* rejection_diagnostics reads byte by byte, within the deadline and its own limit;
\* an end, a break or an error decides on what it has.
Diagnose ==
    /\ phase = "diagnose" /\ UNCHANGED <<adapter, strict, framed, held, answer, outcome, usage>>
    /\ \E d \in 0..ReadLimit :
          /\ Takes(d)
          /\ \/ /\ elapsed' <= Total /\ size + 1 <= DiagnosticBytes
                /\ size' = size + 1 /\ UNCHANGED <<phase, diagnosis>>
             \/ /\ elapsed' > Total \/ size + 1 > DiagnosticBytes
                /\ phase' = "close" /\ diagnosis' = "request_configuration" /\ UNCHANGED size
             \/ /\ phase' = "close" /\ UNCHANGED size
                /\ diagnosis' \in {"request_configuration", "strict_schema_rejected"}

\* A byte of the body arrives: the deadline first, then the size.
ReadByte ==
    /\ phase = "body" /\ UNCHANGED <<adapter, strict, answer, diagnosis, usage, framed, held>>
    /\ \E d \in 0..ReadLimit :
          /\ Takes(d)
          /\ \/ elapsed' > Total /\ FailsWith("timeout") /\ UNCHANGED size
             \/ elapsed' <= Total /\ size + 1 > MaxBytes /\ FailsWith("output_limit") /\ UNCHANGED size
             \/ /\ elapsed' <= Total /\ size + 1 <= MaxBytes
                /\ size' = size + 1 /\ UNCHANGED <<phase, outcome>>

\* The body ends: late, not JSON (or with a key twice), or a value.
BodyEnds ==
    /\ phase = "body" /\ UNCHANGED <<adapter, strict, framed, held, size, diagnosis, usage>>
    /\ \E d \in 0..ReadLimit :
          /\ Takes(d)
          /\ \/ elapsed' > Total /\ FailsWith("timeout") /\ UNCHANGED answer
             \/ elapsed' <= Total /\ FailsWith("protocol_failure") /\ UNCHANGED answer
             \/ /\ elapsed' <= Total /\ size > 0 /\ outcome' = "value" /\ phase' = "close"
                /\ answer' \in Envelope

\* A read times out, or the connection breaks.
BodyBreaks ==
    /\ phase = "body" /\ UNCHANGED <<adapter, strict, framed, held, size, answer, diagnosis, usage>>
    /\ \/ Takes(ReadLimit) /\ FailsWith("timeout")
       \/ Takes(0) /\ FailsWith("provider_unreachable")

\* Mutated: a failing clean-up replaces the error.
CloseReplaces ==
    /\ phase = "close" /\ held' = FALSE
    /\ \/ UNCHANGED outcome
       \/ outcome' = "provider_unreachable"
    /\ phase' = IF outcome' = "value" THEN "read" ELSE "done"
    /\ UNCHANGED <<adapter, strict, elapsed, framed, size, answer, diagnosis, usage>>

\* The response is closed; a failing close spoils a value, never an error.
CloseResponse ==
    /\ phase = "close" /\ held' = FALSE
    /\ \/ UNCHANGED outcome
       \/ outcome = "value" /\ outcome' = "provider_unreachable"
    /\ phase' = IF outcome' = "value" THEN "read" ELSE "done"
    /\ UNCHANGED <<adapter, strict, elapsed, framed, size, answer, diagnosis, usage>>

-----------------------------------------------------------------------------
(* execute                                                                  *)

Valid(v) == IF v = Bad THEN Absent ELSE v
Reported(p, c, t) ==
    IF {p, c, t} = {Absent} THEN Absent ELSE [prompt |-> p, completion |-> c, total |-> t]

\* A usage object the OpenAI-compatible adapter does not accept.
Inconsistent(u) ==
    \/ Bad \in {u.prompt, u.completion, u.total, u.reasoning}
    \/ Absent \notin {u.prompt, u.completion, u.total} /\ u.total # u.prompt + u.completion
    \/ u.reasoning # Absent /\ (u.completion = Absent \/ u.reasoning > u.completion)

\* result_text: the verdict on a content and the reason it ended.
ResultText(content, reason) ==
    IF \/ content \notin {"text", "long"} /\ ~(content = Absent /\ reason = "length")
       \/ reason = Bad
    THEN "protocol_failure"
    ELSE IF content = "long" \/ reason = "length" THEN "output_limit"
    ELSE IF reason = "filter" THEN "protocol_failure" ELSE "result"

\* The OpenAI-compatible adapter's verdict on an envelope, with the usage it carries.
OpenAI(e) ==
    LET reason  == IF e.choices = 0 THEN Absent ELSE e.reason
        content == IF e.choices = 0 THEN Bad ELSE e.content
        counts  == IF e.usage \in {Absent, Bad} THEN Absent
                   ELSE Reported(Valid(e.usage.prompt), Valid(e.usage.completion), Valid(e.usage.total))
    IN  IF e.usage = Bad \/ (e.usage # Absent /\ Inconsistent(e.usage))
        THEN [outcome |-> "protocol_failure", usage |-> Absent]
        ELSE [outcome |-> IF \/ strict /\ (e.choices # 1 \/ e.declined \/ reason = Absent)
                             \/ e.model = "other"
                          THEN "protocol_failure" ELSE ResultText(content, reason),
              usage |-> counts]

\* The Ollama adapter's: it adds up the total itself.
Ollama(e) ==
    LET u == IF e.usage \in {Absent, Bad} THEN [prompt |-> Absent, completion |-> Absent] ELSE e.usage
        p == Valid(u.prompt)
        c == Valid(u.completion)
    IN  IF e.choices = 0 \/ e.declined \/ e.model = "other"
        THEN [outcome |-> "protocol_failure", usage |-> Absent]
        ELSE [outcome |-> ResultText(e.content, e.reason),
              usage |-> Reported(p, c, IF Absent \in {p, c} THEN Absent ELSE p + c)]

\* A result, a protocol failure and an output limit carry the usage.
Interpret ==
    /\ phase = "read" /\ phase' = "done"
    /\ LET v == IF adapter = "openai" THEN OpenAI(answer) ELSE Ollama(answer)
       IN  outcome' = v.outcome /\ usage' = v.usage
    /\ UNCHANGED <<adapter, strict, elapsed, framed, size, held, answer, diagnosis>>

CallNext ==
    \/ ConnectRequest \/ Framing \/ PostRequest \/ Diagnose \/ ReadByte \/ BodyEnds \/ BodyBreaks \/ CloseResponse \/ Interpret

\* Every read returns or times out.
CallSpec == CallInit /\ [][CallNext]_providerVars

-----------------------------------------------------------------------------
\* The state of request_json and execute: no more bytes than the limits are kept, and no
\* ended call leaves its response open.
CallTypeOK ==
    /\ phase \in {"post", "headers", "body", "diagnose", "close", "read", "done"}
    /\ held \in BOOLEAN /\ elapsed \in Nat
    /\ size <= IF diagnosis # "none" \/ phase = "diagnose" THEN DiagnosticBytes ELSE MaxBytes
    /\ (phase = "done") => (outcome \notin {"none", "value"} /\ ~held)

\* A peer that trickles the bytes of a body cannot hold a worker, not even with the body of
\* a rejection: once no other bytes arrive, the call outlives its deadline by one read at
\* most.  Headers and framing are not under the deadline (request_json,
\* rejection_diagnostics).
CallsAreBounded ==
    elapsed <= Max({framed, Total}) + ReadLimit

\* An answer that was complete only after the deadline is not used (the last check
\* of request_json).
LateIsNoAnswer == outcome = "result" => elapsed <= Total

\* The usage that a result or an error hands to the budgets is what the provider
\* reported, without invalid counts, and adds up (execute of both adapters).
UsageIsConsistent ==
    usage # Absent =>
       /\ Bad \notin {usage.prompt, usage.completion, usage.total}
       /\ \A f \in {"prompt", "completion"} : answer.usage[f] # Bad => usage[f] = answer.usage[f]
       /\ Absent \notin {usage.prompt, usage.completion, usage.total} =>
             usage.total = usage.prompt + usage.completion

\* Only a finished answer of the model that was asked becomes a result: never a
\* truncated or filtered one, never one beyond response_bytes, and under a strict
\* schema never a refusal or a choice among several (result_text, execute).
ResultsAreWhole ==
    outcome = "result" =>
       /\ answer.content = "text" /\ answer.model # "other"
       /\ answer.reason \in {"stop", Absent}
       /\ strict => (answer.choices = 1 /\ ~answer.declined /\ answer.reason = "stop")

\* Once a call has failed, cleaning up does not change why (the finally of
\* request_json): retries are decided by the cause.
CauseIsKept ==
    [][outcome \notin {"none", "value"} => outcome' = outcome]_providerVars

\* A body is cut near the deadline of the call, and what it hands on is a whole answer in time with
\* usage that adds up, or an error (request_json, execute).
AnswersAreSound == CallTypeOK /\ CallsAreBounded /\ LateIsNoAnswer /\ UsageIsConsistent /\ ResultsAreWhole
=============================================================================
