----------------------------- MODULE Conversation -----------------------------
(***************************************************************************)
(* The conversational requests: /query, which runs the graph to the end    *)
(* and answers, and /query/stream, whose events are generated while the    *)
(* client reads them (api/app.py, graph/).  A request is routed, builds    *)
(* its prompt from retrieval and from the session's history, calls the     *)
(* inference provider, persists the exchange and answers.                  *)
(*                                                                         *)
(* The provider's answer arrives line by line (llm/openai_compatible.py,   *)
(* llm/ollama_client.py); it may break off, end early or be malformed.  A  *)
(* client may go away; the event generator learns of it only where it      *)
(* yields.  The text of an answer is the number of its chunks.             *)
(***************************************************************************)
EXTENDS ConversationLog, FiniteSets

CONSTANTS Provider,    \* the adapters a process may be configured with
          Expiring,    \* Redis with a MEMORY_TTL above 0
          MaxChunks,   \* the chunks a provider sends at most
          MaxFaults    \* bound on failing parts of requests

ASSUME FiniteRequests == IsFiniteSet(Exchange) /\ Expiring \in BOOLEAN

Request == Exchange
Kind == {"query", "stream"}
Routes == {"tool", "rag", "direct"}

VARIABLES provider,  \* the configured one: "openai_compatible" or "ollama"
          pc,        \* [Request -> where it is]
          kind,      \* [Request -> "query" | "stream"]
          session,   \* [Request -> its session_id]
          route,     \* [Request -> the semantic route, or "unknown"]
          prompt,    \* [Request -> the history its prompt was built from]
          before,    \* [Request -> the exchanges acknowledged when it began]
          chunks,    \* [Request -> the chunks received so far]
          upstream,  \* [Request -> "open" | "complete" | "cut": what was sent]
          told,      \* [Request -> what the client was told last]
          open,      \* the requests holding an HTTP response
          active,    \* [Kind -> active_application_requests]
          metered,   \* [Request -> inference outcome counted]
          unsure,    \* the requests whose append timed out although it took place
          expired,   \* the acknowledged requests whose session has expired since
          faults

vars == <<log, provider, pc, kind, session, route, prompt, before, chunks, upstream, told, open, active, metered, unsure, expired, faults>>
callVars == <<chunks, upstream, open, metered>>
fixedVars == <<provider, kind, session, before, expired>>

Init ==
    /\ LogInit /\ provider \in Provider /\ pc = [r \in Request |-> "new"]
    /\ kind \in [Request -> Kind] /\ session \in [Request -> Session]
    /\ route = [r \in Request |-> "unknown"] /\ prompt = [r \in Request |-> <<>>]
    /\ before = [r \in Request |-> {}] /\ chunks = [r \in Request |-> 0]
    /\ upstream = [r \in Request |-> "open"] /\ told = [r \in Request |-> "nothing"]
    /\ open = {} /\ active = [k \in Kind |-> 0]
    /\ metered = [r \in Request |-> "none"]
    /\ unsure = {} /\ expired = {} /\ faults = 0

To(r, place) == pc' = [pc EXCEPT ![r] = place]
Fault == faults < MaxFaults /\ faults' = faults + 1

\* The request begins: the gauge goes up, the question is routed.
Begin(r) ==
    /\ pc[r] = "new" /\ To(r, "prompt")
    /\ active' = [active EXCEPT ![kind[r]] = @ + 1]
    /\ \E t \in Routes : route' = [route EXCEPT ![r] = t]
    /\ before' = [before EXCEPT ![r] = {x \in Request : told[x] = "done" /\ session[x] = session[r]}]
    /\ UNCHANGED <<log, provider, kind, session, prompt, callVars, told, unsure, expired, faults>>

\* Mutated: the error of a stream is raised where nobody handles it.
FailsSilent(r) ==
    /\ IF kind[r] = "query" THEN To(r, "failed") ELSE To(r, "lost")
    /\ told' = [told EXCEPT ![r] = "error"] /\ UNCHANGED <<route, prompt, active>>

\* A step raises: a stream yields an error event, a query answers 502 or 503.
Fails(r) ==
    /\ To(r, "failed") /\ told' = [told EXCEPT ![r] = "error"]
    /\ UNCHANGED <<route, prompt, active>>

\* The prompt is built: retrieval, then the last messages of the session; a
\* tool answers by itself.  A stream yields its metadata.
Prompt(r) ==
    /\ pc[r] = "prompt"
    /\ IF route[r] = "tool" THEN UNCHANGED prompt
       ELSE prompt' = [prompt EXCEPT ![r] = Last(log[session[r]], Limit)]
    /\ IF kind[r] = "stream" THEN To(r, "metadata") /\ told' = [told EXCEPT ![r] = "metadata"]
       ELSE To(r, IF route[r] = "tool" THEN "persist" ELSE "call") /\ UNCHANGED told
    /\ UNCHANGED <<log, route, fixedVars, callVars, active, unsure, faults>>
PromptFails(r) ==
    /\ pc[r] = "prompt" /\ Fault /\ Fails(r)
    /\ UNCHANGED <<log, fixedVars, callVars, unsure>>

\* The client has read the event; the generator goes on.
Resume(r) ==
    /\ \/ pc[r] = "metadata" /\ To(r, IF route[r] = "tool" THEN "persist" ELSE "call")
       \/ pc[r] = "chunk" /\ To(r, "lines")
    /\ UNCHANGED <<log, fixedVars, route, prompt, callVars, told, active, unsure, faults>>

(* -- the provider ------------------------------------------------------- *)

Metered(r, result) == metered' = [metered EXCEPT ![r] = result] /\ open' = open \ {r}

\* generate: one body with the whole answer, or an error: a refusal, a timeout, a
\* body that is cut or malformed.
Generate(r) ==
    /\ pc[r] = "call" /\ kind[r] = "query" /\ To(r, "persist") /\ Metered(r, "success")
    /\ upstream' = [upstream EXCEPT ![r] = "complete"]
    /\ UNCHANGED <<log, fixedVars, route, prompt, chunks, told, active, unsure, faults>>
GenerateFails(r) ==
    /\ pc[r] = "call" /\ kind[r] = "query" /\ Fault /\ Fails(r) /\ Metered(r, "error")
    /\ upstream' \in {upstream, [upstream EXCEPT ![r] = "cut"]}
    /\ UNCHANGED <<log, fixedVars, chunks, unsure>>

\* generate_stream: the request is posted; a response with a good status, or an
\* error.
Post(r) ==
    /\ pc[r] = "call" /\ kind[r] = "stream" /\ To(r, "lines") /\ open' = open \cup {r}
    /\ UNCHANGED <<log, fixedVars, route, prompt, chunks, upstream, metered, told, active, unsure, faults>>
PostFails(r) ==
    /\ pc[r] = "call" /\ kind[r] = "stream" /\ Fault /\ Fails(r) /\ Metered(r, "error")
    /\ UNCHANGED <<log, fixedVars, chunks, upstream, unsure>>

\* What an adapter makes of one line of the answer.
OpenAILine(line) ==
    CASE line = "text" -> "yield" [] line = "end" -> "complete"
      [] line \in {"blank", "usage"} -> "skip" [] OTHER -> "error"
OllamaLine(line) ==
    CASE line = "text" -> "yield" [] line \in {"blank", "end"} -> "skip" [] OTHER -> "error"
LineVerdict(line) == IF provider = "ollama" THEN OllamaLine(line) ELSE OpenAILine(line)

\* A line arrives; text is passed on.
Line(r) ==
    /\ pc[r] = "lines" /\ upstream[r] = "open"
    /\ \E line \in {"text", "blank", "usage", "end", "garbage"} :
          /\ line = "text" => chunks[r] < MaxChunks
          /\ LineVerdict(line) # "error" \/ faults < MaxFaults
          /\ upstream' = [upstream EXCEPT ![r] = IF line = "end" THEN "complete" ELSE @]
          /\ chunks' = [chunks EXCEPT ![r] = IF line = "text" THEN @ + 1 ELSE @]
          /\ CASE LineVerdict(line) = "yield" ->
                     /\ To(r, "chunk") /\ told' = [told EXCEPT ![r] = "chunk"]
                     /\ UNCHANGED <<open, metered, faults>>
               [] LineVerdict(line) = "skip" -> UNCHANGED <<pc, told, open, metered, faults>>
               [] LineVerdict(line) = "complete" -> To(r, "persist") /\ Metered(r, "success") /\ UNCHANGED <<told, faults>>
               [] OTHER -> Fails(r) /\ Metered(r, "error") /\ faults' = faults + 1
    /\ UNCHANGED <<log, fixedVars, route, prompt, active, unsure>>

\* The body ends.  The adapter for an OpenAI-compatible server has seen [DONE] by
\* then or raises; the Ollama adapter takes the end of the lines for the end of
\* the answer.
EndOfBody(r) ==
    /\ pc[r] = "lines"
    /\ IF upstream[r] = "complete" THEN UNCHANGED faults ELSE Fault
    /\ upstream' = [upstream EXCEPT ![r] = IF @ = "open" THEN "cut" ELSE @]
    /\ IF upstream[r] = "complete" \/ provider = "ollama"
       THEN To(r, "persist") /\ Metered(r, "success") /\ UNCHANGED <<route, prompt, told, active>>
       ELSE Fails(r) /\ Metered(r, "error")
    /\ UNCHANGED <<log, fixedVars, chunks, unsure>>

\* The connection breaks or the read times out.  The OpenAI-compatible adapter meters a
\* stream that ends in requests.Timeout as a success: that branch records no error.
Broken(r) ==
    /\ pc[r] = "lines" /\ upstream[r] = "open" /\ Fault
    /\ upstream' = [upstream EXCEPT ![r] = "cut"] /\ Fails(r)
    /\ Metered(r, "error") \/ (provider = "openai_compatible" /\ Metered(r, "success"))
    /\ UNCHANGED <<log, fixedVars, chunks, unsure>>

(* -- the end of a request ----------------------------------------------- *)

\* Mutated: the answer is acknowledged before it is persisted.
PersistLater(r) ==
    /\ pc[r] = "persist" /\ To(r, "done")
    /\ told' = [told EXCEPT ![r] = "done"]
    /\ LogAppend(session[r], r) \/ UNCHANGED log
    /\ UNCHANGED <<fixedVars, route, prompt, callVars, active, unsure, faults>>

\* The exchange is appended at once; only then is the answer acknowledged.
Persist(r) ==
    /\ pc[r] = "persist" /\ LogAppend(session[r], r) /\ To(r, "done")
    /\ told' = [told EXCEPT ![r] = "done"]
    /\ UNCHANGED <<fixedVars, route, prompt, callVars, active, unsure, faults>>

\* The store refuses, or its answer is lost after the append took place.
PersistFails(r) ==
    /\ pc[r] = "persist" /\ Fault /\ Fails(r)
    /\ \/ UNCHANGED <<log, unsure>>
       \/ LogAppend(session[r], r) /\ unsure' = unsure \cup {r}
    /\ UNCHANGED <<fixedVars, callVars>>

\* The client of a stream goes away: the generators are closed where they
\* yielded, and their finally clauses run.
Disconnect(r) ==
    /\ pc[r] \in {"metadata", "chunk", "done", "failed"} /\ kind[r] = "stream"
    /\ To(r, "ended")
    /\ active' = [active EXCEPT ![kind[r]] = @ - 1]
    /\ IF r \in open THEN Metered(r, "error") ELSE UNCHANGED <<open, metered>>
    /\ UNCHANGED <<log, fixedVars, route, prompt, chunks, upstream, told, unsure, faults>>

\* The generator or the handler returns.
Close(r) ==
    /\ pc[r] \in {"done", "failed"} /\ To(r, "ended")
    /\ active' = [active EXCEPT ![kind[r]] = @ - 1]
    /\ UNCHANGED <<log, fixedVars, route, prompt, callVars, told, unsure, faults>>

(* -- sessions ------------------------------------------------------------ *)

\* The key of the session expires, and with it every exchange acknowledged so far.
Expire(s) ==
    /\ Expiring /\ log[s] # <<>> /\ LogExpire(s)
    /\ expired' = expired \cup {x \in Request : session[x] = s /\ told[x] = "done"}
    /\ UNCHANGED <<provider, pc, kind, session, route, prompt, before, callVars, told, active, unsure, faults>>

Step(r) ==
    \/ Prompt(r) \/ PromptFails(r) \/ Resume(r) \/ Generate(r) \/ GenerateFails(r)
    \/ Post(r) \/ PostFails(r) \/ Line(r)
    \/ EndOfBody(r) \/ Broken(r) \/ Persist(r) \/ PersistFails(r) \/ Close(r)
Next ==
    \/ \E r \in Request : Begin(r) \/ Step(r) \/ Disconnect(r)
    \/ \E s \in Session : Expire(s)

ConversationSpec == Init /\ [][Next]_vars

\* A stream has yielded an event and waits until its client takes it, which no timeout
\* bounds outside OIDC mode (correlated_send).
Waiting(r) == kind[r] = "stream" /\ pc[r] \in {"metadata", "chunk", "done", "failed"}

\* A request that has begun goes on while it does not wait for its client: every read of
\* a provider has a timeout, and one that sends neither text nor an end sends keep-alive
\* lines only finitely long.
ServerStep(r) == ~Waiting(r) /\ Step(r)
LiveConversationSpec == ConversationSpec /\ \A r \in Request : WF_vars(ServerStep(r))

(* ---------------------------------------------------------------------- *)

Ended(r) == pc[r] = "ended"
Acknowledged(r) == told[r] = "done"
Remembered(r) == \E i \in 1..Len(log[session[r]]) : log[session[r]][i].of = r

\* Gauges, responses and meters agree with what the requests are doing:
\* nothing is open or counted as active for a request that has ended, however
\* it ended (the finally clauses of query, encode_events and the adapters).
TypeOK ==
    /\ log \in [Session -> Seq(Message)] /\ told \in [Request -> {"nothing", "metadata", "chunk", "done", "error"}]
    /\ active = [k \in Kind |-> Cardinality({r \in Request : kind[r] = k /\ pc[r] \notin {"new", "ended"}})]
    /\ open = {r \in Request : pc[r] \in {"lines", "chunk"}}
    /\ \A r \in Request : metered[r] = "success" => pc[r] \notin {"new", "prompt", "metadata", "call", "lines", "chunk"}

\* README.md: "Incomplete streams are not persisted as successful conversation
\* exchanges."  Whatever is in a history is a complete answer, or a tool's, except
\* that the Ollama adapter does not tell a body that ends early from a whole one.
OnlyCompleteAnswers ==
    \A r \in Request : Remembered(r) =>
        route[r] = "tool" \/ upstream[r] = "complete" \/ (provider = "ollama" /\ kind[r] = "stream")

\* A client is told that the answer is done only when the exchange is in the
\* history, from which only later exchanges push it out, or the expiry of its session
\* (MEMORY_TTL above 0); one that was told of an error finds nothing there, unless the
\* store lost its own answer.
AcknowledgedIsRemembered ==
    \A r \in Request :
        /\ Acknowledged(r) => Remembered(r) \/ Len(log[session[r]]) = Limit \/ r \in expired
        /\ told[r] = "error" /\ Remembered(r) => r \in unsure

\* An exchange is persisted at most once: its question and its answer occur once,
\* next to each other, and other requests of the session never come between.
PersistedOnce ==
    \A s \in Session : LET h == log[s] IN
        \A i, j \in 1..Len(h) :
            /\ h[i] = h[j] => i = j
            /\ h[i].role = "user" => i < Len(h) /\ h[i + 1] = [of |-> h[i].of, role |-> "assistant"]

\* A prompt shows what was acknowledged in the session before the request began, up to
\* the limit, unless the session has expired since it was acknowledged.
PromptShowsThePast ==
    \A r \in Request : pc[r] \in {"metadata", "call", "lines", "chunk", "persist", "done"} /\ route[r] # "tool" =>
        \A x \in before[r] :
            \/ \E i \in 1..Len(prompt[r]) : prompt[r][i].of = x
            \/ Len(prompt[r]) = Limit \/ x \in expired

\* Every request that has begun comes to its end, or waits for ever for a client that
\* neither takes an event nor goes away (query, encode_events).
EveryRequestEnds == \A r \in Request : <>[]Waiting(r) \/ (pc[r] = "prompt" ~> Ended(r))

\* The history of a session is what its clients were told: complete exchanges, each once,
\* all that were acknowledged and have neither been pushed out nor expired, and shown to
\* the requests that follow (query, encode_events).
HistoryIsTrue ==
    TypeOK /\ OnlyCompleteAnswers /\ AcknowledgedIsRemembered /\ PersistedOnce /\ PromptShowsThePast
=============================================================================
