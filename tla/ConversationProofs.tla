------------------------- MODULE ConversationProofs -------------------------
(* The conversational requests and the histories of their sessions, for any number of requests
   and sessions, any limit of the history and any failures; and one bounded call of a provider,
   for all limits and whatever the peer sends. *)
EXTENDS Conversation, ProviderCall, FiniteSetTheorems, SequenceTheorems, TLAPS

\* A proof leaf is sent to Zenon unless it names another prover.
USE ZenonT(60)

-----------------------------------------------------------------------------
(* The histories of the sessions. *)

\* What PersistedOnce says of one history.
Once(h) ==
    \A i, j \in 1..Len(h) :
        /\ h[i] = h[j] => i = j
        /\ h[i].role = "user" => i < Len(h) /\ h[i + 1] = [of |-> h[i].of, role |-> "assistant"]
Holds(h, x) == \E i \in 1..Len(h) : h[i].of = x

\* The last n messages are a suffix (Last).
LEMMA LastFacts ==
    ASSUME NEW h \in Seq(Message), NEW n \in Nat
    PROVE  \E d \in Nat :
             /\ Last(h, n) \in Seq(Message) /\ Len(Last(h, n)) = Len(h) - d /\ d <= Len(h)
             /\ \A i \in 1..Len(h) - d : Last(h, n)[i] = h[i + d]
             /\ IF Len(h) > n THEN d = Len(h) - n ELSE d = 0
<1> DEFINE d == IF Len(h) > n THEN Len(h) - n ELSE 0
<1>1. Len(h) \in Nat
  BY SMTT(60)
<1>2. d \in Nat /\ d <= Len(h) /\ (IF Len(h) > n THEN Len(h) - n + 1 ELSE 1) = d + 1
  BY SMTT(60), <1>1
<1>3. Last(h, n) = SubSeq(h, d + 1, Len(h))
  BY <1>2 DEF Last
<1> HIDE DEF d
<1>4. Last(h, n) \in Seq(Message) /\ Len(Last(h, n)) = Len(h) - d
  BY SMTT(60), <1>1, <1>2, <1>3
<1>5. \A i \in 1..Len(h) - d : Last(h, n)[i] = h[i + d]
  BY SMTT(60), <1>1, <1>2, <1>3
<1>6. IF Len(h) > n THEN d = Len(h) - n ELSE d = 0
  BY DEF d
<1> QED  BY <1>2, <1>4, <1>5, <1>6

\* A history within the limit is its own last part.
LEMMA LastIsAll ==
    ASSUME NEW h \in Seq(Message), Len(h) <= Limit
    PROVE  Len(Last(h, Limit)) = Len(h) /\ \A i \in 1..Len(h) : Last(h, Limit)[i] = h[i]
<1>1. Len(h) \in Nat /\ Limit \in Nat
  BY SMTT(60), SomeHistory
<1>2. Last(h, Limit) = SubSeq(h, 1, Len(h))
  <2>1. ~(Len(h) > Limit)
    BY SMTT(60), <1>1
  <2> QED  BY <2>1 DEF Last
<1> QED  BY SMTT(60), <1>1, <1>2

\* An exchange is two messages.
LEMMA PairFacts ==
    ASSUME NEW x \in Exchange
    PROVE  /\ Pair(x) \in Seq(Message) /\ Len(Pair(x)) = 2
           /\ Pair(x)[1] = [of |-> x, role |-> "user"] /\ Pair(x)[2] = [of |-> x, role |-> "assistant"]
<1>1. [of |-> x, role |-> "user"] \in Message /\ [of |-> x, role |-> "assistant"] \in Message
  BY SMTT(60) DEF Message
<1> QED  BY SMTT(60), <1>1 DEF Pair

\* With an exchange that is not there yet, the untrimmed history stays orderly.
LEMMA JoinedFacts ==
    ASSUME NEW h \in Seq(Message), Once(h), NEW x \in Exchange, ~Holds(h, x)
    PROVE  LET g == h \o Pair(x)
           IN  /\ g \in Seq(Message) /\ Len(g) = Len(h) + 2 /\ Once(g)
               /\ \A i \in 1..Len(h) : g[i] = h[i]
               /\ g[Len(h) + 1].of = x /\ g[Len(h) + 2].of = x
<1>1. PICK p : p = Pair(x)
  OBVIOUS
<1>2. PICK g : g = h \o p
  OBVIOUS
<1>3. PICK u : u = [of |-> x, role |-> "user"]
  OBVIOUS
<1>4. PICK a : a = [of |-> x, role |-> "assistant"]
  OBVIOUS
<1>5. p \in Seq(Message) /\ Len(p) = 2 /\ p[1] = u /\ p[2] = a
  BY <1>1, <1>3, <1>4, PairFacts
<1>6. u.of = x /\ a.of = x /\ a.role = "assistant" /\ u.role = "user" /\ u # a
  BY SMTT(60), <1>3, <1>4
<1>7. Len(h) \in Nat
  BY SMTT(60)
<1>8. g \in Seq(Message) /\ Len(g) = Len(h) + 2
  <2>1. g \in Seq(Message) /\ Len(g) = Len(h) + Len(p)
    BY <1>2, <1>5, ConcatProperties
  <2> QED  BY <1>5, <2>1
<1>9. \A i \in 1..Len(h) + 2 : g[i] = IF i <= Len(h) THEN h[i] ELSE p[i - Len(h)]
  <2>1. \A i \in 1..Len(h) + Len(p) : g[i] = IF i <= Len(h) THEN h[i] ELSE p[i - Len(h)]
    BY <1>2, <1>5, ConcatProperties
  <2> QED  BY <1>5, <2>1
<1>10. \A i \in 1..Len(h) : g[i] = h[i]
  BY SMTT(60), <1>7, <1>9
<1>11. g[Len(h) + 1] = u /\ g[Len(h) + 2] = a
  <2>1. PICK m, n : m = Len(h) + 1 /\ n = Len(h) + 2
    OBVIOUS
  <2>2. /\ m \in 1..Len(h) + 2 /\ ~(m <= Len(h)) /\ m - Len(h) = 1
        /\ n \in 1..Len(h) + 2 /\ ~(n <= Len(h)) /\ n - Len(h) = 2
    BY SMTT(60), <1>7, <2>1
  <2>3. g[m] = p[m - Len(h)] /\ g[n] = p[n - Len(h)]
    BY <1>9, <2>2
  <2> QED  BY <1>5, <2>1, <2>2, <2>3
<1>12. \A i \in 1..Len(h) : h[i].of # x
  BY DEF Holds
<1>13. ASSUME NEW i \in 1..Len(g), NEW j \in 1..Len(g), g[i] = g[j]
       PROVE  i = j
  <2>1. i \in 1..Len(h) \/ i = Len(h) + 1 \/ i = Len(h) + 2
    BY SMTT(60), <1>7, <1>8
  <2>2. j \in 1..Len(h) \/ j = Len(h) + 1 \/ j = Len(h) + 2
    BY SMTT(60), <1>7, <1>8
  <2>3. CASE i \in 1..Len(h) /\ j \in 1..Len(h)
    BY <1>10, <1>13, <2>3 DEF Once
  <2>4. CASE i \in 1..Len(h) /\ j \notin 1..Len(h)
    BY <1>6, <1>10, <1>11, <1>12, <1>13, <2>2, <2>4
  <2>5. CASE i \notin 1..Len(h) /\ j \in 1..Len(h)
    BY <1>6, <1>10, <1>11, <1>12, <1>13, <2>1, <2>5
  <2>6. CASE i = Len(h) + 1 /\ j = Len(h) + 2
    BY <1>6, <1>11, <1>13, <2>6
  <2>7. CASE i = Len(h) + 2 /\ j = Len(h) + 1
    BY <1>6, <1>11, <1>13, <2>7
  <2>8. CASE i \notin 1..Len(h) /\ j \notin 1..Len(h)
    BY <2>1, <2>2, <2>6, <2>7, <2>8
  <2> QED  BY <2>3, <2>4, <2>5, <2>8
<1>14. ASSUME NEW i \in 1..Len(g), g[i].role = "user"
       PROVE  i < Len(g) /\ g[i + 1] = [of |-> g[i].of, role |-> "assistant"]
  <2>1. i \in 1..Len(h) \/ i = Len(h) + 1 \/ i = Len(h) + 2
    BY SMTT(60), <1>7, <1>8
  <2>2. CASE i \in 1..Len(h)
    <3>1. i < Len(h) /\ h[i + 1] = [of |-> h[i].of, role |-> "assistant"]
      BY <1>10, <1>14, <2>2 DEF Once
    <3>2. i + 1 \in 1..Len(h) /\ i < Len(g)
      BY SMTT(60), <1>7, <1>8, <2>2, <3>1
    <3> QED  BY <1>10, <2>2, <3>1, <3>2
  <2>3. CASE i = Len(h) + 1
    <3>1. i < Len(g) /\ i + 1 = Len(h) + 2
      BY SMTT(60), <1>7, <1>8, <2>3
    <3> QED  BY <1>4, <1>6, <1>11, <2>3, <3>1
  <2>4. CASE i = Len(h) + 2
    BY <1>6, <1>11, <1>14, <2>4
  <2> QED  BY <2>1, <2>2, <2>3, <2>4
<1>15. Once(g)
  BY <1>13, <1>14 DEF Once
<1> QED  BY <1>1, <1>2, <1>6, <1>8, <1>10, <1>11, <1>15

\* An appended exchange shows; what it pushes out leaves a history of Limit messages; the
\* rest keeps its order (append_exchange, and the transaction of RedisMemoryStore).
LEMMA AppendedFacts ==
    ASSUME NEW h \in Seq(Message), Once(h), NEW x \in Exchange, ~Holds(h, x)
    PROVE  LET g == Appended(h, x)
           IN  /\ g \in Seq(Message) /\ Len(g) <= Limit /\ Once(g) /\ Holds(g, x)
               /\ \A i \in 1..Len(g) : g[i].of = x \/ Holds(h, g[i].of)
               /\ \A y : Holds(h, y) => Holds(g, y) \/ Len(g) = Limit
               /\ Len(h) = Limit => Len(g) = Limit
<1>1. PICK w : w = h \o Pair(x)
  OBVIOUS
<1>2. PICK g : g = Last(w, Limit)
  OBVIOUS
<1>3. g = Appended(h, x)
  BY <1>1, <1>2 DEF Appended
<1>4. /\ w \in Seq(Message) /\ Len(w) = Len(h) + 2 /\ Once(w)
      /\ \A i \in 1..Len(h) : w[i] = h[i]
      /\ w[Len(h) + 1].of = x /\ w[Len(h) + 2].of = x
  BY <1>1, JoinedFacts
<1>5. Limit \in Nat /\ Limit >= 1 /\ Len(h) \in Nat
  BY SMTT(60), SomeHistory
<1>6. PICK d \in Nat :
         /\ g \in Seq(Message) /\ Len(g) = Len(w) - d /\ d <= Len(w)
         /\ \A i \in 1..Len(w) - d : g[i] = w[i + d]
         /\ IF Len(w) > Limit THEN d = Len(w) - Limit ELSE d = 0
  BY <1>2, <1>4, <1>5, LastFacts
<1>7. Len(w) \in Nat /\ Len(g) \in Nat
  BY SMTT(60), <1>4, <1>6
<1>8. Len(g) <= Limit /\ (d # 0 => Len(g) = Limit) /\ Len(g) >= 1
  BY SMTT(60), <1>4, <1>5, <1>6, <1>7
<1>9. \A i \in 1..Len(g) : i + d \in 1..Len(w) /\ g[i] = w[i + d]
  <2> TAKE i \in 1..Len(g)
  <2>1. i + d \in 1..Len(w) /\ i \in 1..Len(w) - d
    BY SMTT(60), <1>6, <1>7
  <2> QED  BY <1>6, <2>1
<1>10. ASSUME NEW i \in 1..Len(g), NEW j \in 1..Len(g), g[i] = g[j]
       PROVE  i = j
  <2>1. i + d = j + d
    <3>1. PICK m, n : m = i + d /\ n = j + d
      OBVIOUS
    <3>2. m \in 1..Len(w) /\ n \in 1..Len(w) /\ w[m] = w[n]
      BY <1>9, <1>10, <3>1
    <3> QED  BY <1>4, <3>1, <3>2 DEF Once
  <2> QED  BY SMTT(60), <1>7, <2>1
<1>11. ASSUME NEW i \in 1..Len(g), g[i].role = "user"
       PROVE  i < Len(g) /\ g[i + 1] = [of |-> g[i].of, role |-> "assistant"]
  <2>1. i + d < Len(w) /\ w[i + d + 1] = [of |-> w[i + d].of, role |-> "assistant"]
    BY <1>4, <1>9, <1>11 DEF Once
  <2>2. i < Len(g) /\ i + 1 \in 1..Len(g) /\ i + d + 1 = (i + 1) + d
    BY SMTT(60), <1>6, <1>7, <2>1
  <2> QED  BY <1>9, <2>1, <2>2
<1>12. Once(g)
  BY <1>10, <1>11 DEF Once
<1>13. Holds(g, x)
  <2>1. Len(g) \in 1..Len(g) /\ Len(g) + d = Len(h) + 2
    BY SMTT(60), <1>4, <1>5, <1>6, <1>7, <1>8
  <2>2. g[Len(g)].of = x
    BY <1>4, <1>9, <2>1
  <2> QED  BY <2>1, <2>2 DEF Holds
<1>14. ASSUME NEW i \in 1..Len(g) PROVE g[i].of = x \/ Holds(h, g[i].of)
  <2>1. i + d \in 1..Len(h) \/ i + d = Len(h) + 1 \/ i + d = Len(h) + 2
    <3>1. i + d \in 1..Len(h) + 2
      BY <1>4, <1>9
    <3> QED  BY SMTT(60), <1>5, <3>1
  <2> QED  BY <1>4, <1>9, <2>1 DEF Holds
<1>15. ASSUME NEW y, Holds(h, y), Len(g) # Limit PROVE Holds(g, y)
  <2>1. d = 0
    BY <1>8, <1>15
  <2>2. PICK i \in 1..Len(h) : h[i].of = y
    BY <1>15 DEF Holds
  <2>3. i \in 1..Len(g) /\ i + d = i
    BY SMTT(60), <1>4, <1>5, <1>6, <1>7, <2>1
  <2> QED  BY <1>4, <1>9, <2>2, <2>3 DEF Holds
<1>16. Len(h) = Limit => Len(g) = Limit
  BY SMTT(60), <1>4, <1>5, <1>6, <1>7
<1> QED  BY <1>3, <1>6, <1>8, <1>12, <1>13, <1>14, <1>15, <1>16


-----------------------------------------------------------------------------
(* The requests. *)

Early == {"new", "prompt", "metadata", "call", "lines", "chunk"}
Places == Early \cup {"persist", "done", "failed", "ended"}

\* The state of the requests.
Shape ==
    /\ pc \in [Request -> Places] /\ kind \in [Request -> Kind] /\ session \in [Request -> Session]
    /\ told \in [Request -> {"nothing", "metadata", "chunk", "done", "error"}]
    /\ route \in [Request -> Routes \cup {"unknown"}]
    /\ upstream \in [Request -> {"open", "complete", "cut"}]
    /\ metered \in [Request -> {"none", "success", "error"}]
    /\ prompt \in [Request -> Seq(Message)] /\ before \in [Request -> SUBSET Request]

\* The histories: within the limit, in order, and each with the exchanges of its own session.
Histories ==
    /\ log \in [Session -> Seq(Message)]
    /\ \A s \in Session : /\ Len(log[s]) <= Limit /\ Once(log[s])
                          /\ \A i \in 1..Len(log[s]) : session[log[s][i].of] = s

\* What may be persisted: a tool's answer, a complete one, or what the Ollama adapter takes
\* for complete.
Complete(r) ==
    route[r] = "tool" \/ upstream[r] = "complete" \/ (provider = "ollama" /\ kind[r] = "stream")

\* What the place of a request says about it.
Placed(r) ==
    /\ pc[r] \in {"metadata", "lines", "chunk"} => kind[r] = "stream"
    /\ pc[r] \in {"persist", "done"} => Complete(r)
    /\ metered[r] = "success" => pc[r] \notin Early
    /\ told[r] = "done" => pc[r] \in {"done", "ended"}

\* What the history of its session says about a request, and its prompt.
InHistory(r) ==
    /\ Remembered(r) => /\ pc[r] \notin Early \cup {"persist"} /\ Complete(r)
                        /\ told[r] = "done" \/ r \in unsure
    /\ told[r] = "done" => Remembered(r) \/ Len(log[session[r]]) = Limit \/ r \in expired
Prompted(r) ==
    /\ \A x \in before[r] : told[x] = "done" /\ session[x] = session[r]
    /\ pc[r] \in {"metadata", "call", "lines", "chunk", "persist", "done"} /\ route[r] # "tool" =>
          \A x \in before[r] : Holds(prompt[r], x) \/ Len(prompt[r]) = Limit \/ x \in expired

\* The gauges and the open responses.
Busy(k) == {r \in Request : kind[r] = k /\ pc[r] \notin {"new", "ended"}}
Gauges ==
    /\ active = [k \in Kind |-> Cardinality(Busy(k))]
    /\ open = {r \in Request : pc[r] \in {"lines", "chunk"}}

\* The inductive invariant.
Truth ==
    Shape /\ Histories /\ Gauges /\ \A r \in Request : Placed(r) /\ InHistory(r) /\ Prompted(r)

\* Only r moves, nothing that was said is taken back, and what is fixed stays.
OnlyMoves(r) ==
    /\ Shape' /\ UNCHANGED <<provider, kind, session, expired>>
    /\ \A q \in Request \ {r} :
          /\ pc'[q] = pc[q] /\ route'[q] = route[q] /\ upstream'[q] = upstream[q]
          /\ metered'[q] = metered[q] /\ told'[q] = told[q] /\ prompt'[q] = prompt[q]
          /\ before'[q] = before[q]
    /\ told[r] = "done" => told'[r] = "done"

\* The other requests see what they saw when the histories stay.
LEMMA OthersStay ==
    ASSUME Truth, NEW r \in Request, OnlyMoves(r), UNCHANGED <<log, unsure>>,
           NEW q \in Request \ {r}
    PROVE  Placed(q)' /\ InHistory(q)' /\ Prompted(q)'
<1>1. Placed(q) /\ InHistory(q) /\ Prompted(q)
  BY DEF Truth
<1>2. /\ pc'[q] = pc[q] /\ route'[q] = route[q] /\ upstream'[q] = upstream[q]
      /\ metered'[q] = metered[q] /\ told'[q] = told[q] /\ prompt'[q] = prompt[q]
      /\ before'[q] = before[q] /\ UNCHANGED <<provider, kind, session, expired>>
  BY DEF OnlyMoves
<1>3. Remembered(q)' <=> Remembered(q)
  BY <1>2 DEF Remembered
<1>4. Complete(q)' <=> Complete(q)
  BY <1>2 DEF Complete
<1>5. \A x \in Request : told[x] = "done" => told'[x] = "done"
  BY DEF OnlyMoves
<1>6. before[q] \subseteq Request
  BY DEF Truth, Shape
<1>7. Placed(q)'
  BY <1>1, <1>2, <1>4 DEF Placed
<1>8. InHistory(q)'
  BY <1>1, <1>2, <1>3, <1>4 DEF InHistory
<1>9. Prompted(q)'
  BY <1>1, <1>2, <1>5, <1>6 DEF Prompted
<1> QED  BY <1>7, <1>8, <1>9

\* So do they when the exchange of r is appended, except for what it pushes out.
LEMMA OthersKeep ==
    ASSUME Truth, NEW r \in Request, OnlyMoves(r), ~Remembered(r), LogAppend(session[r], r),
           unsure \subseteq unsure', NEW q \in Request \ {r}
    PROVE  Placed(q)' /\ InHistory(q)' /\ Prompted(q)'
<1>1. Placed(q) /\ InHistory(q) /\ Prompted(q)
  BY DEF Truth
<1>2. /\ pc'[q] = pc[q] /\ route'[q] = route[q] /\ upstream'[q] = upstream[q]
      /\ metered'[q] = metered[q] /\ told'[q] = told[q] /\ prompt'[q] = prompt[q]
      /\ before'[q] = before[q] /\ UNCHANGED <<provider, kind, session, expired>>
  BY DEF OnlyMoves
<1>3. PICK s \in Session : s = session[r]
  BY DEF Truth, Shape
<1>4. PICK t \in Session : t = session[q]
  BY DEF Truth, Shape
<1>5. PICK h \in Seq(Message) : h = log[s] /\ Once(h) /\ ~Holds(h, r)
  BY <1>3 DEF Truth, Histories, Remembered, Holds
<1>6. log'[s] = Appended(h, r) /\ (t # s => log'[t] = log[t])
  BY <1>3, <1>4, <1>5 DEF LogAppend, Truth, Histories
<1>7. /\ \A i \in 1..Len(log'[s]) : log'[s][i].of = r \/ Holds(h, log'[s][i].of)
      /\ \A y : Holds(h, y) => Holds(log'[s], y) \/ Len(log'[s]) = Limit
      /\ Len(h) = Limit => Len(log'[s]) = Limit
  BY <1>5, <1>6, AppendedFacts DEF Request
<1>8. Remembered(q) <=> Holds(log[t], q)
  BY <1>4 DEF Remembered, Holds
<1>9. Remembered(q)' <=> Holds(log'[t], q)
  BY <1>2, <1>4 DEF Remembered, Holds
<1>10. Remembered(q)' => Remembered(q)
  BY <1>5, <1>6, <1>7, <1>8, <1>9 DEF Holds
<1>11. Remembered(q) \/ Len(log[t]) = Limit => Remembered(q)' \/ Len(log'[t]) = Limit
  BY <1>5, <1>6, <1>7, <1>8, <1>9
<1>12. Complete(q)' <=> Complete(q)
  BY <1>2 DEF Complete
<1>13. \A x \in Request : told[x] = "done" => told'[x] = "done"
  BY DEF OnlyMoves
<1>14. before[q] \subseteq Request
  BY DEF Truth, Shape
<1>15. Placed(q)'
  BY <1>1, <1>2, <1>12 DEF Placed
<1>16. InHistory(q)'
  BY <1>1, <1>2, <1>4, <1>10, <1>11, <1>12 DEF InHistory
<1>17. Prompted(q)'
  BY <1>1, <1>2, <1>13, <1>14 DEF Prompted
<1> QED  BY <1>15, <1>16, <1>17


\* The histories stay in order when an exchange that is not there is appended.
LEMMA HistoriesGrow ==
    ASSUME Truth, NEW r \in Request, ~Remembered(r), LogAppend(session[r], r), UNCHANGED session
    PROVE  /\ Histories' /\ Remembered(r)'
<1>1. PICK s \in Session : s = session[r]
  BY DEF Truth, Shape
<1>2. PICK h \in Seq(Message) : h = log[s] /\ Once(h) /\ ~Holds(h, r)
  BY <1>1 DEF Truth, Histories, Remembered, Holds
<1>3. PICK g : g = Appended(h, r)
  OBVIOUS
<1>4. log' = [log EXCEPT ![s] = g] /\ log \in [Session -> Seq(Message)]
  BY <1>1, <1>2, <1>3 DEF LogAppend, Truth, Histories
<1>5. log'[s] = g /\ \A t \in Session \ {s} : log'[t] = log[t]
  BY <1>4
<1>6. /\ g \in Seq(Message) /\ Len(g) <= Limit /\ Once(g) /\ Holds(g, r)
      /\ \A i \in 1..Len(g) : g[i].of = r \/ Holds(h, g[i].of)
  BY <1>2, <1>3, AppendedFacts DEF Request
<1>7. log' \in [Session -> Seq(Message)]
  BY <1>4, <1>6
<1>8. ASSUME NEW t \in Session
      PROVE  /\ Len(log'[t]) <= Limit /\ Once(log'[t])
             /\ \A i \in 1..Len(log'[t]) : session[log'[t][i].of] = t
  <2>1. CASE t = s
    <3>1. \A y : Holds(h, y) => session[y] = s
      BY <1>2 DEF Holds, Truth, Histories
    <3> QED  BY <1>1, <1>5, <1>6, <2>1, <3>1
  <2>2. CASE t # s
    BY <1>5, <2>2 DEF Truth, Histories
  <2> QED  BY <2>1, <2>2
<1>9. Histories'
  BY <1>7, <1>8 DEF Histories
<1>10. Remembered(r)'
  BY <1>1, <1>5, <1>6 DEF Remembered, Holds
<1> QED  BY <1>9, <1>10

\* Requests that begin or end are counted, and those that go on are not
\* (active_application_requests).
LEMMA GaugesFollow ==
    ASSUME Truth, NEW r \in Request, NEW place \in Places, pc' = [pc EXCEPT ![r] = place],
           UNCHANGED kind
    PROVE  /\ pc[r] = "new" /\ place \notin {"new", "ended"}
                 => Cardinality(Busy(kind[r])') = Cardinality(Busy(kind[r])) + 1
           /\ pc[r] \notin {"new", "ended"} /\ place = "ended"
                 => Cardinality(Busy(kind[r])') = Cardinality(Busy(kind[r])) - 1
           /\ \A k \in Kind \ {kind[r]} : Busy(k)' = Busy(k)
           /\ (pc[r] \in {"new", "ended"} <=> place \in {"new", "ended"}) => Busy(kind[r])' = Busy(kind[r])
<1>1. pc' = [q \in Request |-> IF q = r THEN place ELSE pc[q]] /\ pc \in [Request -> Places]
  BY DEF Truth, Shape
<1>2. PICK k \in Kind : k = kind[r]
  BY DEF Truth, Shape
<1>3. PICK S : S = Busy(k)
  OBVIOUS
<1>4. PICK T : T = {q \in Request : kind[q] = k /\ pc'[q] \notin {"new", "ended"}}
  OBVIOUS
<1>5. T = Busy(kind[r])' /\ S = Busy(kind[r])
  BY <1>2, <1>3, <1>4 DEF Busy
<1>6. IsFiniteSet(S)
  <2>1. S \subseteq Request
    BY <1>3 DEF Busy
  <2> QED  BY <2>1, FiniteRequests, FS_Subset DEF Request
<1>7. ASSUME pc[r] = "new", place \notin {"new", "ended"} PROVE Cardinality(T) = Cardinality(S) + 1
  <2>1. T = S \cup {r} /\ r \notin S
    BY <1>1, <1>2, <1>3, <1>4, <1>7 DEF Busy
  <2> QED  BY <1>6, <2>1, FS_AddElement
<1>8. ASSUME pc[r] \notin {"new", "ended"}, place = "ended" PROVE Cardinality(T) = Cardinality(S) - 1
  <2>1. T = S \ {r} /\ r \in S
    BY <1>1, <1>2, <1>3, <1>4, <1>8 DEF Busy
  <2> QED  BY <1>6, <2>1, FS_RemoveElement
<1>9. \A j \in Kind \ {kind[r]} : Busy(j)' = Busy(j)
  BY <1>1 DEF Busy
<1>10. ASSUME pc[r] \in {"new", "ended"} <=> place \in {"new", "ended"} PROVE T = S
  BY <1>1, <1>2, <1>3, <1>4, <1>10 DEF Busy
<1> QED  BY <1>5, <1>7, <1>8, <1>9, <1>10


Tellings == {"nothing", "metadata", "chunk", "done", "error"}

\* The open responses are those of the requests that read lines.
LEMMA OpenFollows ==
    ASSUME Truth, NEW r \in Request, NEW place, pc' = [pc EXCEPT ![r] = place],
           open' = IF place \in {"lines", "chunk"} THEN open \cup {r} ELSE open \ {r}
    PROVE  open' = {q \in Request : pc'[q] \in {"lines", "chunk"}}
<1>1. pc' = [q \in Request |-> IF q = r THEN place ELSE pc[q]]
  BY DEF Truth, Shape
<1>2. open = {q \in Request : pc[q] \in {"lines", "chunk"}}
  BY DEF Truth, Gauges
<1> QED  BY <1>1, <1>2

\* A request that goes on keeps the gauges.
LEMMA GaugesStay ==
    ASSUME Truth, NEW r \in Request, NEW place \in Places, pc' = [pc EXCEPT ![r] = place],
           UNCHANGED <<kind, active>>, pc[r] \notin {"new", "ended"}, place \notin {"new", "ended"},
           open' = IF place \in {"lines", "chunk"} THEN open \cup {r} ELSE open \ {r}
    PROVE  Gauges'
<1>1. open' = {q \in Request : pc'[q] \in {"lines", "chunk"}}
  BY OpenFollows
<1>2. \A k \in Kind : Busy(k)' = Busy(k)
  BY GaugesFollow
<1>3. active' = [k \in Kind |-> Cardinality(Busy(k)')]
  BY <1>2 DEF Truth, Gauges
<1> QED  BY <1>1, <1>3 DEF Gauges

\* What remains to be shown of a step that leaves the histories alone.
LEMMA QuietStep ==
    ASSUME Truth, NEW r \in Request, OnlyMoves(r), UNCHANGED <<log, unsure>>, Gauges',
           Placed(r)', InHistory(r)', Prompted(r)'
    PROVE  Truth'
<1>1. \A q \in Request : Placed(q)' /\ InHistory(q)' /\ Prompted(q)'
  BY OthersStay
<1>2. Histories'
  BY DEF Truth, Histories, OnlyMoves
<1> QED  BY <1>1, <1>2 DEF Truth, OnlyMoves

\* A request that has not come to persisting is in no history, and was not told that it is done.
LEMMA EarlyFacts ==
    ASSUME Truth, NEW r \in Request, pc[r] \in Early \cup {"persist"}
    PROVE  ~Remembered(r) /\ told[r] # "done" /\ r \notin before[r]
<1>1. "done" \notin Early \cup {"persist"} /\ "ended" \notin Early \cup {"persist"}
  BY DEF Early
<1>2. ~Remembered(r) /\ told[r] # "done"
  BY <1>1 DEF Truth, InHistory, Placed
<1> QED  BY <1>2 DEF Truth, Prompted

\* A request goes on, up to where its answer is persisted, or fails.
LEMMA GoesOn ==
    ASSUME Truth, NEW r \in Request, NEW place \in Places, NEW t \in Tellings \ {"done"},
           NEW up \in {"open", "complete", "cut"}, NEW m \in {"none", "success", "error"},
           pc' = [pc EXCEPT ![r] = place], told' = [told EXCEPT ![r] = t],
           upstream' = [upstream EXCEPT ![r] = up], metered' = [metered EXCEPT ![r] = m],
           UNCHANGED <<log, fixedVars, route, prompt, unsure, active>>,
           pc[r] \in Early \ {"new"}, place \notin {"new", "done", "ended"},
           pc[r] = "prompt" => place = "failed" \/ route[r] = "tool",
           place \in {"metadata", "lines", "chunk"} => kind[r] = "stream",
           place = "persist" => \/ route[r] = "tool" \/ up = "complete"
                                \/ provider = "ollama" /\ kind[r] = "stream",
           m = "success" => place \notin Early,
           open' = IF place \in {"lines", "chunk"} THEN open \cup {r} ELSE open \ {r}
    PROVE  Truth'
<1>1. ~Remembered(r) /\ told[r] # "done" /\ r \notin before[r]
  BY EarlyFacts
<1>2. UNCHANGED <<provider, kind, session, before, expired>> /\ Shape
  BY DEF fixedVars, Truth
<1>3. Shape'
  BY <1>2 DEF Shape, Tellings
<1>4. pc'[r] = place /\ told'[r] = t /\ upstream'[r] = up /\ metered'[r] = m
  BY <1>2 DEF Shape
<1>5. OnlyMoves(r)
  <2>1. \A q \in Request \ {r} : pc'[q] = pc[q] /\ told'[q] = told[q]
    BY <1>2 DEF Shape
  <2>2. \A q \in Request \ {r} : upstream'[q] = upstream[q] /\ metered'[q] = metered[q]
    BY <1>2 DEF Shape
  <2> QED  BY <1>1, <1>2, <1>3, <2>1, <2>2 DEF OnlyMoves
<1>6. pc[r] \notin {"new", "ended"}
  BY DEF Early
<1>7. Gauges'
  BY <1>2, <1>6, GaugesStay
<1>8. Placed(r)'
  BY <1>2, <1>4 DEF Placed, Complete
<1>9. ~Remembered(r)'
  BY <1>1, <1>2 DEF Remembered
<1>10. InHistory(r)'
  BY <1>4, <1>9 DEF InHistory
<1>11. Prompted(r)'
  <2>1. Prompted(r) /\ before[r] \subseteq Request
    BY <1>2 DEF Truth, Shape
  <2>2. \A x \in before[r] : told'[x] = "done" /\ session'[x] = session'[r]
    BY <1>1, <1>2, <2>1 DEF Prompted, Shape
  <2>3. ASSUME place \in {"metadata", "call", "lines", "chunk", "persist", "done"}, route[r] # "tool"
        PROVE  \A x \in before[r] : Holds(prompt[r], x) \/ Len(prompt[r]) = Limit \/ x \in expired
    <3>1. pc[r] \in {"metadata", "call", "lines", "chunk"}
      BY <2>3 DEF Early
    <3> QED  BY <2>1, <2>3, <3>1 DEF Prompted
  <2> QED  BY <1>2, <1>4, <2>2, <2>3 DEF Prompted
<1> QED  BY <1>5, <1>7, <1>8, <1>10, <1>11, QuietStep


\* A value that a step leaves alone.
LEMMA Unmoved ==
    ASSUME Truth, NEW r \in Request
    PROVE  /\ told = [told EXCEPT ![r] = told[r]] /\ upstream = [upstream EXCEPT ![r] = upstream[r]]
           /\ metered = [metered EXCEPT ![r] = metered[r]] /\ pc = [pc EXCEPT ![r] = pc[r]]
           /\ told[r] \in Tellings /\ upstream[r] \in {"open", "complete", "cut"}
           /\ metered[r] \in {"none", "success", "error"} /\ pc[r] \in Places
           /\ kind[r] \in Kind /\ session[r] \in Session
BY DEF Truth, Shape, Tellings

\* The places of a request differ, and an early one has not counted a success.
LEMMA PlaceFacts ==
    ASSUME Truth, NEW r \in Request
    PROVE  /\ {"prompt", "metadata", "call", "lines", "chunk"} \subseteq Early \ {"new"}
           /\ {"metadata", "call", "lines", "chunk", "persist", "failed", "done", "ended"} \subseteq Places
           /\ "persist" \notin Early /\ "failed" \notin Early
           /\ pc[r] \in Early => metered[r] # "success" /\ told[r] # "done"
           /\ pc[r] \in {"metadata", "lines", "chunk"} => kind[r] = "stream"
           /\ r \in open <=> pc[r] \in {"lines", "chunk"}
<1>1. Placed(r) /\ Gauges
  BY DEF Truth
<1> QED  BY <1>1 DEF Early, Places, Placed, Gauges

\* A step of an early request that leaves alone what it said, received and counted.
LEMMA Untouched ==
    ASSUME Truth, NEW r \in Request, pc[r] \in Early, UNCHANGED <<told, upstream, metered>>
    PROVE  \E t \in Tellings \ {"done"}, up \in {"open", "complete", "cut"}, m \in {"none", "error"} :
              /\ told' = [told EXCEPT ![r] = t] /\ upstream' = [upstream EXCEPT ![r] = up]
              /\ metered' = [metered EXCEPT ![r] = m]
<1>1. PICK t, up, m : t = told[r] /\ up = upstream[r] /\ m = metered[r]
  OBVIOUS
<1>2. told = [told EXCEPT ![r] = t] /\ upstream = [upstream EXCEPT ![r] = up] /\ metered = [metered EXCEPT ![r] = m]
  BY <1>1, Unmoved
<1>3. t \in Tellings \ {"done"} /\ up \in {"open", "complete", "cut"} /\ m \in {"none", "error"}
  BY <1>1, Unmoved, PlaceFacts
<1> QED  BY <1>2, <1>3

\* Building the prompt fails.
LEMMA PromptFailsKeeps ==
    ASSUME Truth, NEW r \in Request, PromptFails(r)
    PROVE  Truth'
<1>1. /\ pc[r] = "prompt" /\ pc' = [pc EXCEPT ![r] = "failed"] /\ told' = [told EXCEPT ![r] = "error"]
      /\ UNCHANGED <<route, prompt, active, log, fixedVars, unsure>>
      /\ UNCHANGED <<upstream, open, metered>>
  BY DEF PromptFails, Fails, To, callVars
<1>2. /\ upstream' = [upstream EXCEPT ![r] = upstream[r]] /\ metered' = [metered EXCEPT ![r] = metered[r]]
      /\ open' = IF "failed" \in {"lines", "chunk"} THEN open \cup {r} ELSE open \ {r}
  BY <1>1, Unmoved, PlaceFacts
<1>3. "error" \in Tellings \ {"done"} /\ "failed" \notin {"new", "done", "ended"}
  BY DEF Tellings
<1> QED  BY <1>1, <1>2, <1>3, GoesOn, Unmoved, PlaceFacts

\* The client of a stream has read an event.
LEMMA ResumeKeeps ==
    ASSUME Truth, NEW r \in Request, Resume(r)
    PROVE  Truth'
<1>1. PICK place : /\ \/ pc[r] = "metadata" /\ place = IF route[r] = "tool" THEN "persist" ELSE "call"
                      \/ pc[r] = "chunk" /\ place = "lines"
                   /\ pc' = [pc EXCEPT ![r] = place]
  BY DEF Resume, To
<1>2. UNCHANGED <<log, fixedVars, route, prompt, told, active, unsure>> /\ UNCHANGED <<upstream, open, metered>>
  BY DEF Resume, callVars
<1>3. pc[r] \in Early
  BY <1>1, PlaceFacts
<1>7. PICK t \in Tellings \ {"done"}, up \in {"open", "complete", "cut"}, m \in {"none", "error"} :
              /\ told' = [told EXCEPT ![r] = t] /\ upstream' = [upstream EXCEPT ![r] = up]
              /\ metered' = [metered EXCEPT ![r] = m]
  BY <1>2, <1>3, Untouched
<1>4. open' = IF place \in {"lines", "chunk"} THEN open \cup {r} ELSE open \ {r}
  BY <1>1, <1>2, PlaceFacts
<1>5. /\ place \in Places /\ place \notin {"new", "done", "ended"} /\ pc[r] \in Early \ {"new"}
      /\ place \in {"metadata", "lines", "chunk"} => kind[r] = "stream"
      /\ place = "persist" => route[r] = "tool"
      /\ pc[r] # "prompt"
  BY <1>1, PlaceFacts
<1> QED  BY <1>1, <1>2, <1>4, <1>5, <1>7, GoesOn

\* A query asks the provider for the whole answer.
LEMMA GenerateKeeps ==
    ASSUME Truth, NEW r \in Request, Generate(r)
    PROVE  Truth'
<1>1. /\ pc[r] = "call" /\ pc' = [pc EXCEPT ![r] = "persist"] /\ metered' = [metered EXCEPT ![r] = "success"]
      /\ open' = open \ {r} /\ upstream' = [upstream EXCEPT ![r] = "complete"]
      /\ UNCHANGED <<log, fixedVars, route, prompt, told, active, unsure>>
  BY DEF Generate, To, Metered
<1>2. told' = [told EXCEPT ![r] = told[r]] /\ told[r] \in Tellings \ {"done"}
  BY <1>1, Unmoved, PlaceFacts
<1>3. open' = IF "persist" \in {"lines", "chunk"} THEN open \cup {r} ELSE open \ {r}
  BY <1>1
<1> QED  BY <1>1, <1>2, <1>3, GoesOn, PlaceFacts

\* The provider refuses, times out or sends a broken answer to a query, or to the request of
\* a stream; or the answer of a stream breaks off.
LEMMA CallFailsKeeps ==
    ASSUME Truth, NEW r \in Request, pc[r] \in {"call", "lines"}, Fails(r),
           NEW m \in {"success", "error"}, Metered(r, m),
           NEW up \in {"open", "complete", "cut"}, upstream' = [upstream EXCEPT ![r] = up],
           UNCHANGED <<log, fixedVars, unsure>>
    PROVE  Truth'
<1>1. /\ pc' = [pc EXCEPT ![r] = "failed"] /\ metered' = [metered EXCEPT ![r] = m]
      /\ open' = open \ {r} /\ told' = [told EXCEPT ![r] = "error"] /\ UNCHANGED <<route, prompt, active>>
  BY DEF Fails, To, Metered
<1>2. open' = IF "failed" \in {"lines", "chunk"} THEN open \cup {r} ELSE open \ {r}
  BY <1>1
<1>3. "error" \in Tellings \ {"done"} /\ "failed" \notin {"new", "done", "ended"}
  BY DEF Tellings
<1> QED  BY <1>1, <1>2, <1>3, GoesOn, PlaceFacts

\* A stream posts its request.
LEMMA PostsKeep ==
    ASSUME Truth, NEW r \in Request, Post(r)
    PROVE  Truth'
<1>1. /\ pc[r] = "call" /\ kind[r] = "stream" /\ pc' = [pc EXCEPT ![r] = "lines"] /\ open' = open \cup {r}
      /\ UNCHANGED <<log, fixedVars, route, prompt, upstream, metered, told, active, unsure>>
  BY DEF Post, To
<1>2. PICK t \in Tellings \ {"done"}, up \in {"open", "complete", "cut"}, m \in {"none", "error"} :
              /\ told' = [told EXCEPT ![r] = t] /\ upstream' = [upstream EXCEPT ![r] = up]
              /\ metered' = [metered EXCEPT ![r] = m]
  BY <1>1, Untouched, PlaceFacts
<1>3. open' = IF "lines" \in {"lines", "chunk"} THEN open \cup {r} ELSE open \ {r}
  BY <1>1
<1> QED  BY <1>1, <1>2, <1>3, GoesOn, PlaceFacts


\* The provider's answer fails; a stream may meter its timeout as a success.
LEMMA GenerateFailsKeeps ==
    ASSUME Truth, NEW r \in Request, GenerateFails(r) \/ PostFails(r) \/ Broken(r)
    PROVE  Truth'
<1>1. /\ pc[r] \in {"call", "lines"} /\ Fails(r) /\ UNCHANGED <<log, fixedVars, unsure>>
      /\ upstream' = upstream \/ upstream' = [upstream EXCEPT ![r] = "cut"]
  BY DEF GenerateFails, PostFails, Broken
<1>2. PICK up \in {"open", "complete", "cut"} : upstream' = [upstream EXCEPT ![r] = up]
  BY <1>1, Unmoved
<1>3. PICK m \in {"success", "error"} : Metered(r, m)
  BY DEF GenerateFails, PostFails, Broken
<1> QED  BY <1>1, <1>2, <1>3, CallFailsKeeps

\* The lines end: the answer is complete, or taken for it, or the stream fails.
LEMMA EndOfBodyKeeps ==
    ASSUME Truth, NEW r \in Request, EndOfBody(r)
    PROVE  Truth'
<1>1. pc[r] = "lines" /\ UNCHANGED <<log, fixedVars, unsure>>
  BY DEF EndOfBody
<1>2. PICK up \in {"open", "complete", "cut"} :
         upstream' = [upstream EXCEPT ![r] = up] /\ (upstream[r] = "complete" => up = "complete")
  <2>1. upstream' = [upstream EXCEPT ![r] = IF upstream[r] = "open" THEN "cut" ELSE upstream[r]]
    BY DEF EndOfBody
  <2>2. PICK up : up = IF upstream[r] = "open" THEN "cut" ELSE upstream[r]
    OBVIOUS
  <2> QED  BY <2>1, <2>2, Unmoved
<1>3. CASE upstream[r] = "complete" \/ provider = "ollama"
  <2>1. /\ pc' = [pc EXCEPT ![r] = "persist"] /\ metered' = [metered EXCEPT ![r] = "success"]
        /\ open' = open \ {r} /\ UNCHANGED <<route, prompt, told, active>>
    BY <1>3 DEF EndOfBody, To, Metered
  <2>2. kind[r] = "stream" /\ told[r] # "done"
    BY <1>1, PlaceFacts
  <2>3. PICK t \in Tellings \ {"done"} : told' = [told EXCEPT ![r] = t]
    BY <2>1, <2>2, Unmoved
  <2>4. open' = IF "persist" \in {"lines", "chunk"} THEN open \cup {r} ELSE open \ {r}
    BY <2>1
  <2>5. up = "complete" \/ (provider = "ollama" /\ kind[r] = "stream")
    BY <1>2, <1>3, <2>2
  <2> QED  BY <1>1, <1>2, <2>1, <2>3, <2>4, <2>5, GoesOn, PlaceFacts
<1>4. CASE ~(upstream[r] = "complete" \/ provider = "ollama")
  BY <1>1, <1>2, <1>4, CallFailsKeeps DEF EndOfBody
<1> QED  BY <1>3, <1>4

\* What an adapter makes of a line.
LEMMA LineFacts ==
    ASSUME NEW line \in {"text", "blank", "usage", "end", "garbage"}
    PROVE  /\ LineVerdict(line) \in {"yield", "skip", "complete", "error"}
           /\ LineVerdict(line) = "complete" => line = "end"
BY DEF LineVerdict, OpenAILine, OllamaLine

\* A line of a stream arrives.
LEMMA LineKeeps ==
    ASSUME Truth, NEW r \in Request, Line(r)
    PROVE  Truth'
<1>1. pc[r] = "lines" /\ upstream[r] = "open" /\ UNCHANGED <<log, fixedVars, route, prompt, active, unsure>>
  BY DEF Line
<1>2. PICK line \in {"text", "blank", "usage", "end", "garbage"} :
          /\ upstream' = [upstream EXCEPT ![r] = IF line = "end" THEN "complete" ELSE @]
          /\ CASE LineVerdict(line) = "yield" ->
                     /\ To(r, "chunk") /\ told' = [told EXCEPT ![r] = "chunk"]
                     /\ UNCHANGED <<open, metered, faults>>
               [] LineVerdict(line) = "skip" -> UNCHANGED <<pc, told, open, metered, faults>>
               [] LineVerdict(line) = "complete" -> To(r, "persist") /\ Metered(r, "success") /\ UNCHANGED <<told, faults>>
               [] OTHER -> Fails(r) /\ Metered(r, "error") /\ faults' = faults + 1
  BY DEF Line
<1>3. PICK up \in {"open", "complete", "cut"} :
         upstream' = [upstream EXCEPT ![r] = up] /\ (line = "end" => up = "complete")
  <2>1. PICK up : up = IF line = "end" THEN "complete" ELSE upstream[r]
    OBVIOUS
  <2>2. upstream' = [upstream EXCEPT ![r] = up]
    BY <1>2, <2>1
  <2> QED  BY <2>1, <2>2, Unmoved
<1>4. kind[r] = "stream" /\ told[r] # "done" /\ metered[r] # "success" /\ r \in open
  BY <1>1, PlaceFacts
<1>5. PICK t \in Tellings \ {"done"} : t = told[r] /\ told = [told EXCEPT ![r] = t]
  BY <1>4, Unmoved
<1>6. PICK m \in {"none", "error"} : m = metered[r] /\ metered = [metered EXCEPT ![r] = m]
  BY <1>4, Unmoved
<1>7. CASE LineVerdict(line) = "yield"
  <2>1. /\ pc' = [pc EXCEPT ![r] = "chunk"] /\ told' = [told EXCEPT ![r] = "chunk"]
        /\ metered' = [metered EXCEPT ![r] = m] /\ open' = open
    BY <1>2, <1>6, <1>7 DEF To
  <2>2. "chunk" \in Tellings \ {"done"} /\ "chunk" \notin {"new", "done", "ended"}
    BY DEF Tellings
  <2>3. open' = IF "chunk" \in {"lines", "chunk"} THEN open \cup {r} ELSE open \ {r}
    BY <1>4, <2>1
  <2> QED  BY <1>1, <1>3, <1>4, <2>1, <2>2, <2>3, GoesOn, PlaceFacts
<1>8. CASE LineVerdict(line) = "skip"
  <2>1. /\ pc' = [pc EXCEPT ![r] = "lines"] /\ told' = [told EXCEPT ![r] = t]
        /\ metered' = [metered EXCEPT ![r] = m] /\ open' = open
    BY <1>1, <1>2, <1>5, <1>6, <1>8, Unmoved
  <2>2. open' = IF "lines" \in {"lines", "chunk"} THEN open \cup {r} ELSE open \ {r}
    BY <1>4, <2>1
  <2> QED  BY <1>1, <1>3, <1>4, <2>1, <2>2, GoesOn, PlaceFacts
<1>9. CASE LineVerdict(line) = "complete"
  <2>1. /\ pc' = [pc EXCEPT ![r] = "persist"] /\ told' = [told EXCEPT ![r] = t]
        /\ metered' = [metered EXCEPT ![r] = "success"] /\ open' = open \ {r}
    BY <1>2, <1>5, <1>9 DEF To, Metered
  <2>2. up = "complete"
    BY <1>3, <1>9, LineFacts
  <2>3. open' = IF "persist" \in {"lines", "chunk"} THEN open \cup {r} ELSE open \ {r}
    BY <2>1
  <2> QED  BY <1>1, <1>3, <2>1, <2>2, <2>3, GoesOn, PlaceFacts
<1>10. CASE LineVerdict(line) = "error"
  <2>1. Fails(r) /\ Metered(r, "error")
    BY <1>2, <1>10
  <2> QED  BY <1>1, <1>3, <2>1, CallFailsKeeps
<1> QED  BY <1>7, <1>8, <1>9, <1>10, LineFacts


\* A request begins, and remembers what was acknowledged before.
LEMMA BeginKeeps ==
    ASSUME Truth, NEW r \in Request, Begin(r)
    PROVE  Truth'
<1>1. PICK acked : acked = {x \in Request : told[x] = "done" /\ session[x] = session[r]}
  OBVIOUS
<1>2. /\ pc[r] = "new" /\ pc' = [pc EXCEPT ![r] = "prompt"] /\ active' = [active EXCEPT ![kind[r]] = @ + 1]
      /\ before' = [before EXCEPT ![r] = acked]
      /\ UNCHANGED <<log, provider, kind, session, prompt, upstream, open, metered, told, unsure, expired>>
  BY <1>1 DEF Begin, To, callVars
<1>3. PICK w \in Routes : route' = [route EXCEPT ![r] = w]
  BY DEF Begin
<1>4. Shape /\ pc[r] \in Early /\ "prompt" \in Places /\ "prompt" \in Early
  BY <1>2 DEF Truth, Early, Places
<1>5. acked \subseteq Request
  BY <1>1
<1>6. Shape'
  BY <1>2, <1>3, <1>4, <1>5 DEF Shape
<1>7. OnlyMoves(r)
  <2>1. \A q \in Request \ {r} : pc'[q] = pc[q] /\ route'[q] = route[q] /\ before'[q] = before[q]
    BY <1>2, <1>3, <1>4 DEF Shape
  <2> QED  BY <1>2, <1>6, <2>1 DEF OnlyMoves
<1>8. Gauges'
  <2>1. open' = {q \in Request : pc'[q] \in {"lines", "chunk"}}
    <3>1. open' = IF "prompt" \in {"lines", "chunk"} THEN open \cup {r} ELSE open \ {r}
      BY <1>2, PlaceFacts
    <3> QED  BY <1>2, <3>1, OpenFollows
  <2>2. PICK k \in Kind : k = kind[r]
    BY <1>4 DEF Shape
  <2>3. active = [j \in Kind |-> Cardinality(Busy(j))]
    BY DEF Truth, Gauges
  <2>4. Cardinality(Busy(k)') = Cardinality(Busy(k)) + 1 /\ \A j \in Kind \ {k} : Busy(j)' = Busy(j)
    BY <1>2, <1>4, <2>2, GaugesFollow
  <2>5. active' = [j \in Kind |-> IF j = k THEN active[k] + 1 ELSE active[j]]
    BY <1>2, <2>2, <2>3
  <2>6. \A j \in Kind : active'[j] = Cardinality(Busy(j)')
    BY <2>3, <2>4, <2>5
  <2>7. active' = [j \in Kind |-> Cardinality(Busy(j)')]
    BY <2>5, <2>6
  <2> QED  BY <2>1, <2>7 DEF Gauges
<1>9. pc'[r] = "prompt" /\ before'[r] = acked
  BY <1>2, <1>4 DEF Shape
<1>10. ~Remembered(r) /\ told[r] # "done" /\ metered[r] # "success"
  BY <1>4, EarlyFacts, PlaceFacts
<1>11. Placed(r)'
  BY <1>2, <1>9, <1>10 DEF Placed
<1>12. ~Remembered(r)'
  BY <1>2, <1>10 DEF Remembered
<1>13. InHistory(r)'
  BY <1>2, <1>10, <1>12 DEF InHistory
<1>14. Prompted(r)'
  BY <1>1, <1>2, <1>9 DEF Prompted
<1> QED  BY <1>2, <1>7, <1>8, <1>11, <1>13, <1>14, QuietStep

\* The prompt is built from the history: what was acknowledged before shows in it.
LEMMA PromptKeeps ==
    ASSUME Truth, NEW r \in Request, Prompt(r)
    PROVE  Truth'
<1>1. /\ pc[r] = "prompt" /\ UNCHANGED <<log, route, fixedVars, upstream, open, metered, active, unsure>>
  BY DEF Prompt, callVars
<1>2. Shape /\ UNCHANGED <<provider, kind, session, before, expired>> /\ pc[r] \in Early /\ kind[r] \in Kind
  BY <1>1, PlaceFacts, Unmoved DEF Truth, fixedVars
<1>3. PICK place, t :
         /\ pc' = [pc EXCEPT ![r] = place] /\ told' = [told EXCEPT ![r] = t]
         /\ \/ kind[r] = "stream" /\ place = "metadata" /\ t = "metadata"
            \/ kind[r] = "query" /\ place = "persist" /\ route[r] = "tool" /\ t = told[r]
            \/ kind[r] = "query" /\ place = "call" /\ route[r] # "tool" /\ t = told[r]
  <2>1. CASE kind[r] = "stream"
    BY <2>1 DEF Prompt, To
  <2>2. CASE kind[r] = "query"
    <3>1. /\ pc' = [pc EXCEPT ![r] = IF route[r] = "tool" THEN "persist" ELSE "call"]
          /\ told' = [told EXCEPT ![r] = told[r]]
      BY <2>2, Unmoved DEF Prompt, To
    <3>2. CASE route[r] = "tool"
      BY <2>2, <3>1, <3>2
    <3>3. CASE route[r] # "tool"
      BY <2>2, <3>1, <3>3
    <3> QED  BY <3>2, <3>3
  <2> QED  BY <1>2, <2>1, <2>2 DEF Kind
<1>4. /\ ~Remembered(r) /\ told[r] # "done" /\ r \notin before[r] /\ metered[r] # "success"
  BY <1>2, EarlyFacts, PlaceFacts
<1>5. place \in Places /\ t \in Tellings \ {"done"} /\ place \notin {"new", "ended", "lines", "chunk", "done"}
  <2>1. told[r] \in Tellings /\ "metadata" \in Tellings
    BY Unmoved DEF Tellings
  <2> QED  BY <1>3, <1>4, <2>1, PlaceFacts
<1>6. PICK past \in Seq(Message) :
         /\ prompt' = [prompt EXCEPT ![r] = past]
         /\ route[r] # "tool" => past = Last(log[session[r]], Limit)
  <2>1. PICK h \in Seq(Message) : h = log[session[r]]
    BY <1>2 DEF Truth, Histories, Shape
  <2>2. Last(h, Limit) \in Seq(Message)
    BY <2>1, LastFacts, SomeHistory
  <2>3. CASE route[r] = "tool"
    <3>1. PICK p \in Seq(Message) : p = prompt[r]
      BY <1>2 DEF Shape
    <3>2. prompt' = [prompt EXCEPT ![r] = p]
      BY <1>2, <2>3, <3>1 DEF Prompt, Shape
    <3> QED  BY <2>3, <3>2
  <2>4. CASE route[r] # "tool"
    BY <2>1, <2>2, <2>4 DEF Prompt
  <2> QED  BY <2>3, <2>4
<1>7. Shape'
  BY <1>1, <1>2, <1>3, <1>5, <1>6 DEF Shape, Tellings
<1>8. pc'[r] = place /\ told'[r] = t /\ prompt'[r] = past
  BY <1>2, <1>3, <1>6 DEF Shape
<1>9. OnlyMoves(r)
  <2>1. \A q \in Request \ {r} : pc'[q] = pc[q] /\ told'[q] = told[q] /\ prompt'[q] = prompt[q]
    BY <1>2, <1>3, <1>6 DEF Shape
  <2> QED  BY <1>1, <1>2, <1>4, <1>7, <2>1 DEF OnlyMoves
<1>10. Gauges'
  <2>1. open' = IF place \in {"lines", "chunk"} THEN open \cup {r} ELSE open \ {r}
    BY <1>1, <1>5, PlaceFacts
  <2> QED  BY <1>1, <1>2, <1>3, <1>5, <2>1, GaugesStay
<1>11. Placed(r)'
  BY <1>1, <1>2, <1>3, <1>4, <1>5, <1>8 DEF Placed, Complete
<1>12. ~Remembered(r)'
  BY <1>1, <1>2, <1>4 DEF Remembered
<1>13. InHistory(r)'
  BY <1>5, <1>8, <1>12 DEF InHistory
<1>14. Prompted(r)'
  <2>1. Prompted(r) /\ before[r] \subseteq Request
    BY <1>2 DEF Truth, Shape
  <2>2. \A x \in before[r] : told'[x] = "done" /\ session'[x] = session'[r]
    BY <1>2, <1>3, <1>4, <2>1 DEF Prompted, Shape
  <2>3. ASSUME route[r] # "tool", NEW x \in before[r]
        PROVE  Holds(past, x) \/ Len(past) = Limit \/ x \in expired
    <3>1. told[x] = "done" /\ session[x] = session[r] /\ x \in Request
      BY <2>1 DEF Prompted
    <3>2. PICK h \in Seq(Message) : h = log[session[r]] /\ Len(h) <= Limit
      BY <1>2 DEF Truth, Histories, Shape
    <3>3. Holds(h, x) \/ Len(h) = Limit \/ x \in expired
      BY <3>1, <3>2 DEF Truth, InHistory, Remembered, Holds
    <3>4. Len(past) = Len(h) /\ \A i \in 1..Len(h) : past[i] = h[i]
      BY <1>6, <2>3, <3>2, LastIsAll
    <3> QED  BY <3>3, <3>4 DEF Holds
  <2> QED  BY <1>1, <1>2, <1>8, <2>2, <2>3 DEF Prompted
<1> QED  BY <1>1, <1>9, <1>10, <1>11, <1>13, <1>14, QuietStep


\* The answer is persisted, and then acknowledged; or the store lost its own answer.
LEMMA AppendKeeps ==
    ASSUME Truth, NEW r \in Request, pc[r] = "persist", LogAppend(session[r], r),
           NEW place, NEW t, pc' = [pc EXCEPT ![r] = place], told' = [told EXCEPT ![r] = t],
           \/ place = "done" /\ t = "done" /\ unsure' = unsure
           \/ place = "failed" /\ t = "error" /\ unsure' = unsure \cup {r},
           UNCHANGED <<fixedVars, route, prompt, upstream, open, metered, active>>
    PROVE  Truth'
<1>1. Shape /\ UNCHANGED <<provider, kind, session, before, expired>>
  BY DEF Truth, fixedVars
<1>2. ~Remembered(r) /\ told[r] # "done" /\ r \notin before[r]
  BY EarlyFacts
<1>3. place \in Places /\ t \in Tellings /\ place \notin Early \cup {"persist"}
  BY DEF Places, Tellings, Early
<1>4. Shape'
  BY <1>1, <1>3 DEF Shape, Tellings
<1>5. pc'[r] = place /\ told'[r] = t
  BY <1>1 DEF Shape
<1>6. OnlyMoves(r)
  <2>1. \A q \in Request \ {r} : pc'[q] = pc[q] /\ told'[q] = told[q]
    BY <1>1 DEF Shape
  <2> QED  BY <1>1, <1>2, <1>4, <2>1 DEF OnlyMoves
<1>7. \A q \in Request \ {r} : Placed(q)' /\ InHistory(q)' /\ Prompted(q)'
  BY <1>2, <1>6, OthersKeep
<1>8. Histories' /\ Remembered(r)'
  BY <1>1, <1>2, HistoriesGrow
<1>9. Gauges'
  <2>1. open' = IF place \in {"lines", "chunk"} THEN open \cup {r} ELSE open \ {r}
    BY PlaceFacts
  <2>2. place \notin {"new", "ended"}
    OBVIOUS
  <2> QED  BY <1>1, <1>3, <2>1, <2>2, GaugesStay
<1>10. Complete(r)
  BY DEF Truth, Placed
<1>11. Complete(r)'
  BY <1>1, <1>10 DEF Complete
<1>12. Placed(r)'
  BY <1>3, <1>5, <1>11 DEF Placed, Early
<1>13. InHistory(r)'
  BY <1>3, <1>5, <1>8, <1>11 DEF InHistory
<1>14. Prompted(r)'
  <2>1. Prompted(r)
    BY DEF Truth
  <2>2. \A x \in before[r] : told'[x] = "done" /\ session'[x] = session'[r]
    BY <1>1, <1>2, <2>1 DEF Prompted, Shape
  <2>3. route[r] # "tool" =>
           \A x \in before[r] : Holds(prompt[r], x) \/ Len(prompt[r]) = Limit \/ x \in expired
    BY <2>1 DEF Prompted
  <2> QED  BY <1>1, <2>2, <2>3 DEF Prompted
<1>15. \A q \in Request : Placed(q)' /\ InHistory(q)' /\ Prompted(q)'
  BY <1>7, <1>12, <1>13, <1>14
<1> QED  BY <1>4, <1>8, <1>9, <1>15 DEF Truth

\* The store refuses: nothing is in the history, and the client learns of an error.
LEMMA RefusalKeeps ==
    ASSUME Truth, NEW r \in Request, pc[r] = "persist", Fails(r), UNCHANGED <<log, unsure>>,
           UNCHANGED <<fixedVars, upstream, open, metered>>
    PROVE  Truth'
<1>1. /\ pc' = [pc EXCEPT ![r] = "failed"] /\ told' = [told EXCEPT ![r] = "error"]
      /\ UNCHANGED <<route, prompt, active>>
  BY DEF Fails, To
<1>2. Shape /\ UNCHANGED <<provider, kind, session, before, expired>>
  BY DEF Truth, fixedVars
<1>3. ~Remembered(r) /\ told[r] # "done" /\ r \notin before[r]
  BY EarlyFacts
<1>4. Shape'
  BY <1>1, <1>2 DEF Shape, Places
<1>5. pc'[r] = "failed" /\ told'[r] = "error"
  BY <1>1, <1>2 DEF Shape
<1>6. OnlyMoves(r)
  <2>1. \A q \in Request \ {r} : pc'[q] = pc[q] /\ told'[q] = told[q]
    BY <1>1, <1>2 DEF Shape
  <2> QED  BY <1>1, <1>2, <1>3, <1>4, <2>1 DEF OnlyMoves
<1>7. Gauges'
  <2>1. open' = IF "failed" \in {"lines", "chunk"} THEN open \cup {r} ELSE open \ {r}
    BY PlaceFacts
  <2>2. "failed" \in Places /\ "failed" \notin {"new", "ended"}
    BY DEF Places
  <2> QED  BY <1>1, <1>2, <2>1, <2>2, GaugesStay
<1>8. Placed(r)'
  BY <1>5 DEF Placed, Early
<1>9. ~Remembered(r)'
  BY <1>2, <1>3 DEF Remembered
<1>10. InHistory(r)'
  BY <1>5, <1>9 DEF InHistory
<1>11. Prompted(r)'
  <2>1. Prompted(r)
    BY DEF Truth
  <2>2. \A x \in before[r] : told'[x] = "done" /\ session'[x] = session'[r]
    BY <1>1, <1>2, <1>3, <2>1 DEF Prompted, Shape
  <2> QED  BY <1>2, <1>5, <2>2 DEF Prompted
<1> QED  BY <1>6, <1>7, <1>8, <1>10, <1>11, QuietStep

\* Persisting, and its failures.
LEMMA PersistKeeps ==
    ASSUME Truth, NEW r \in Request, Persist(r) \/ PersistFails(r)
    PROVE  Truth'
<1>1. CASE Persist(r)
  BY <1>1, AppendKeeps DEF Persist, To, callVars
<1>2. CASE PersistFails(r)
  <2>1. pc[r] = "persist" /\ Fails(r) /\ UNCHANGED <<fixedVars, upstream, open, metered>>
    BY <1>2 DEF PersistFails, callVars
  <2>2. CASE UNCHANGED <<log, unsure>>
    BY <2>1, <2>2, RefusalKeeps
  <2>3. CASE LogAppend(session[r], r) /\ unsure' = unsure \cup {r}
    BY <2>1, <2>3, AppendKeeps DEF Fails, To
  <2> QED  BY <1>2, <2>2, <2>3 DEF PersistFails
<1> QED  BY <1>1, <1>2

\* A request ends, by itself or because its client went away.
LEMMA EndKeeps ==
    ASSUME Truth, NEW r \in Request, Disconnect(r) \/ Close(r)
    PROVE  Truth'
<1>1. /\ pc[r] \in {"metadata", "chunk", "done", "failed"} /\ pc' = [pc EXCEPT ![r] = "ended"]
      /\ active' = [active EXCEPT ![kind[r]] = @ - 1]
      /\ UNCHANGED <<log, fixedVars, route, prompt, upstream, told, unsure>>
  BY DEF Disconnect, Close, To, callVars
<1>2. Shape /\ UNCHANGED <<provider, kind, session, before, expired>> /\ "ended" \in Places
  BY <1>1 DEF Truth, fixedVars, Places
<1>3. open' = open \ {r}
  BY <1>1, PlaceFacts DEF Disconnect, Close, Metered, callVars
<1>4. PICK m \in {"none", "success", "error"} : metered' = [metered EXCEPT ![r] = m]
  BY Unmoved DEF Disconnect, Close, Metered, callVars
<1>5. Shape'
  BY <1>1, <1>2, <1>4 DEF Shape
<1>6. pc'[r] = "ended"
  BY <1>1, <1>2 DEF Shape
<1>7. OnlyMoves(r)
  <2>1. \A q \in Request \ {r} : pc'[q] = pc[q] /\ metered'[q] = metered[q]
    BY <1>1, <1>2, <1>4 DEF Shape
  <2> QED  BY <1>1, <1>2, <1>5, <2>1 DEF OnlyMoves
<1>8. Gauges'
  <2>1. open' = {q \in Request : pc'[q] \in {"lines", "chunk"}}
    <3>1. open' = IF "ended" \in {"lines", "chunk"} THEN open \cup {r} ELSE open \ {r}
      BY <1>3
    <3> QED  BY <1>1, <3>1, OpenFollows
  <2>2. PICK k \in Kind : k = kind[r]
    BY <1>2 DEF Shape
  <2>3. active = [j \in Kind |-> Cardinality(Busy(j))]
    BY DEF Truth, Gauges
  <2>4. pc[r] \notin {"new", "ended"}
    BY <1>1
  <2>5. Cardinality(Busy(k)') = Cardinality(Busy(k)) - 1 /\ \A j \in Kind \ {k} : Busy(j)' = Busy(j)
    BY <1>1, <1>2, <2>2, <2>4, GaugesFollow
  <2>6. active' = [j \in Kind |-> IF j = k THEN active[k] - 1 ELSE active[j]]
    BY <1>1, <2>2, <2>3
  <2>7. \A j \in Kind : active'[j] = Cardinality(Busy(j)')
    BY <2>3, <2>5, <2>6
  <2>8. active' = [j \in Kind |-> Cardinality(Busy(j)')]
    BY <2>6, <2>7
  <2> QED  BY <2>1, <2>8 DEF Gauges
<1>9. Placed(r)'
  BY <1>6 DEF Placed, Early
<1>10. (Remembered(r)' <=> Remembered(r)) /\ (Complete(r)' <=> Complete(r))
  BY <1>1, <1>2 DEF Remembered, Complete
<1>11. InHistory(r)'
  <2>1. InHistory(r)
    BY DEF Truth
  <2>2. "ended" \notin Early \cup {"persist"}
    BY DEF Early
  <2> QED  BY <1>1, <1>2, <1>6, <1>10, <2>1, <2>2 DEF InHistory
<1>12. Prompted(r)'
  <2>1. Prompted(r)
    BY DEF Truth
  <2> QED  BY <1>1, <1>2, <1>6, <2>1 DEF Prompted
<1> QED  BY <1>1, <1>7, <1>8, <1>9, <1>11, <1>12, QuietStep

\* A session expires: its history is empty, and what was acknowledged in it is noted.
LEMMA ExpireKeeps ==
    ASSUME Truth, NEW s \in Session, Expire(s)
    PROVE  Truth'
<1>1. UNCHANGED <<provider, pc, kind, session, route, prompt, before, upstream, open, metered, told, active, unsure>>
  BY DEF Expire, callVars
<1>2. expired' = expired \cup {x \in Request : session[x] = s /\ told[x] = "done"}
  BY DEF Expire
<1>3. log' = [t \in Session |-> IF t = s THEN <<>> ELSE log[t]] /\ log \in [Session -> Seq(Message)]
  BY DEF Expire, LogExpire, LogClear, Truth, Histories
<1>4. log'[s] = <<>> /\ \A t \in Session \ {s} : log'[t] = log[t]
  BY <1>3
<1>5. Len(<<>>) = 0 /\ 1..0 = {} /\ 0 <= Limit /\ <<>> \in Seq(Message)
  BY SMTT(60), SomeHistory
<1>6. Shape' /\ Gauges'
  BY <1>1 DEF Truth, Shape, Gauges, Busy
<1>7. Histories'
  <2>1. log' \in [Session -> Seq(Message)]
    BY <1>3, <1>5
  <2>2. ASSUME NEW t \in Session
        PROVE  /\ Len(log'[t]) <= Limit /\ Once(log'[t])
               /\ \A i \in 1..Len(log'[t]) : session[log'[t][i].of] = t
    <3>1. CASE t = s
      BY <1>4, <1>5, <3>1 DEF Once
    <3>2. CASE t # s
      BY <1>4, <3>2 DEF Truth, Histories
    <3> QED  BY <3>1, <3>2
  <2> QED  BY <1>1, <2>1, <2>2 DEF Histories
<1>8. ASSUME NEW r \in Request PROVE Placed(r)' /\ InHistory(r)' /\ Prompted(r)'
  <2>1. Placed(r) /\ InHistory(r) /\ Prompted(r)
    BY DEF Truth
  <2>2. session[r] \in Session
    BY DEF Truth, Shape
  <2>3. Placed(r)' /\ (Complete(r)' <=> Complete(r))
    BY <1>1, <2>1 DEF Placed, Complete
  <2>4. InHistory(r)'
    <3>1. CASE session[r] = s
      <4>1. ~Remembered(r)'
        BY <1>1, <1>4, <1>5, <3>1 DEF Remembered
      <4> QED  BY <1>1, <1>2, <3>1, <4>1 DEF InHistory
    <3>2. CASE session[r] # s
      <4>1. log'[session[r]] = log[session[r]]
        BY <1>4, <2>2, <3>2
      <4>2. Remembered(r)' <=> Remembered(r)
        BY <1>1, <4>1 DEF Remembered
      <4> QED  BY <1>1, <1>2, <2>1, <2>3, <4>1, <4>2 DEF InHistory
    <3> QED  BY <3>1, <3>2
  <2>5. Prompted(r)'
    BY <1>1, <1>2, <2>1 DEF Prompted
  <2> QED  BY <2>3, <2>4, <2>5
<1> QED  BY <1>6, <1>7, <1>8 DEF Truth

\* Every step of the requests.
LEMMA ConversationKeeps ==
    ASSUME Truth, [Next]_vars
    PROVE  Truth'
<1>1. CASE UNCHANGED vars
  BY <1>1 DEF vars, Truth, Shape, Histories, Gauges, Busy, Placed, Complete, InHistory, Remembered, Prompted
<1>2. ASSUME NEW r \in Request, Step(r) PROVE Truth'
  BY <1>2, PromptKeeps, PromptFailsKeeps, ResumeKeeps, GenerateKeeps, GenerateFailsKeeps, PostsKeep, LineKeeps,
     EndOfBodyKeeps, PersistKeeps, EndKeeps DEF Step
<1> QED  BY <1>1, <1>2, BeginKeeps, EndKeeps, ExpireKeeps DEF Next

\* No request has begun.
LEMMA ConversationStarts ==
    ASSUME Init
    PROVE  Truth
<1>1. Shape
  <2>1. "new" \in Places
    BY DEF Places, Early
  <2>2. <<>> \in Seq(Message)
    BY SMTT(60)
  <2> QED  BY <2>1, <2>2 DEF Init, Shape
<1>2. log = [s \in Session |-> <<>>]
  BY DEF Init, LogInit
<1>3. Len(<<>>) = 0 /\ 1..0 = {} /\ 0 <= Limit /\ <<>> \in Seq(Message)
  BY SMTT(60), SomeHistory
<1>4. Histories
  BY <1>2, <1>3 DEF Histories, Once
<1>5. \A r \in Request : pc[r] = "new" /\ told[r] = "nothing" /\ metered[r] = "none" /\ before[r] = {}
  BY DEF Init
<1>6. \A k \in Kind : Busy(k) = {}
  BY <1>5 DEF Busy
<1>7. Cardinality({}) = 0
  BY FS_EmptySet
<1>8. Gauges
  BY <1>5, <1>6, <1>7 DEF Init, Gauges
<1>9. \A r \in Request : ~Remembered(r)
  BY <1>1, <1>2, <1>3 DEF Remembered, Shape
<1>10. \A r \in Request : Placed(r) /\ InHistory(r) /\ Prompted(r)
  BY <1>5, <1>9 DEF Placed, InHistory, Prompted
<1> QED  BY <1>1, <1>4, <1>8, <1>10 DEF Truth

\* For any number of requests and sessions, every limit of the history and every failure: a
\* history holds complete exchanges, each once, its question next to its answer; it holds all
\* that were acknowledged and neither pushed out nor expired (MEMORY_TTL), and none that
\* failed, unless the store lost its own answer; a prompt shows what was acknowledged before;
\* and nothing stays open or counted for a request that has ended (query, encode_events,
\* RedisMemoryStore).
THEOREM HistoriesAreTrue == ConversationSpec => []HistoryIsTrue
<1>1. Init => Truth
  BY ConversationStarts
<1>2. Truth /\ [Next]_vars => Truth'
  BY ConversationKeeps
<1>3. Truth => HistoryIsTrue
  <2> SUFFICES ASSUME Truth PROVE HistoryIsTrue
    OBVIOUS
  <2>1. TypeOK
    BY DEF Truth, Shape, Histories, Gauges, Busy, Placed, Early, TypeOK
  <2>2. OnlyCompleteAnswers
    BY DEF Truth, InHistory, Complete, OnlyCompleteAnswers
  <2>3. AcknowledgedIsRemembered
    BY DEF Truth, InHistory, Acknowledged, AcknowledgedIsRemembered
  <2>4. PersistedOnce
    BY DEF Truth, Histories, Once, PersistedOnce
  <2>5. PromptShowsThePast
    BY DEF Truth, Prompted, Holds, PromptShowsThePast
  <2> QED  BY <2>1, <2>2, <2>3, <2>4, <2>5 DEF HistoryIsTrue
<1> QED  BY <1>1, <1>2, <1>3, PTL DEF ConversationSpec

-----------------------------------------------------------------------------
(* One bounded call of a provider. *)

\* The larger of two numbers (FiniteSetsExt).
LEMMA MaxOfTwo ==
    ASSUME NEW a \in Nat, NEW b \in Nat
    PROVE  Max({a, b}) \in Nat /\ a <= Max({a, b}) /\ b <= Max({a, b})
<1>1. \E x \in {a, b} : \A y \in {a, b} : x >= y
  <2>1. CASE a >= b
    BY SMTT(60), <2>1
  <2>2. CASE ~(a >= b)
    BY SMTT(60), <2>2
  <2> QED  BY <2>1, <2>2
<1>2. Max({a, b}) \in {a, b} /\ \A y \in {a, b} : Max({a, b}) >= y
  BY <1>1 DEF Max
<1> QED  BY SMTT(60), <1>2

\* The smaller of two numbers is one of them (FiniteSetsExt).
LEMMA MinOfTwo ==
    ASSUME NEW a \in Nat, NEW b \in Nat
    PROVE  Min({a, b}) \in Nat
<1>1. \E x \in {a, b} : \A y \in {a, b} : x =< y
  <2>1. CASE a <= b
    BY SMTT(60), <2>1
  <2>2. CASE ~(a <= b)
    BY SMTT(60), <2>2
  <2> QED  BY <2>1, <2>2
<1>2. Min({a, b}) \in {a, b}
  BY <1>1 DEF Min
<1> QED  BY <1>2

\* The latest a call can be while it still reads.
Latest == Max({framed, Total})

\* The limits of request_json are numbers.
LEMMA LimitFacts ==
    /\ Total \in Nat /\ MaxBytes \in Nat /\ DiagnosticBytes \in Nat
    /\ ConnectLimit \in Nat /\ ReadLimit \in Nat
<1>1. Total \in Nat /\ Connect \in Nat /\ Read \in Nat /\ MaxBytes \in Nat /\ DiagnosticBytes \in Nat
  BY CallLimits
<1>2. ConnectLimit \in Nat /\ ReadLimit \in Nat
  BY <1>1, MinOfTwo DEF ConnectLimit, ReadLimit
<1> QED  BY <1>1, <1>2

\* The last byte outside the body and the deadline fit in the latest time.
LEMMA LatestFacts ==
    ASSUME framed \in Nat
    PROVE  Latest \in Nat /\ framed <= Latest /\ Total <= Latest
BY LimitFacts, MaxOfTwo DEF Latest

\* Bytes outside the body move the latest time with them.
LEMMA LatestMoves ==
    ASSUME elapsed' \in Nat, framed' = elapsed'
    PROVE  elapsed' <= Latest' /\ elapsed' <= Latest' + ReadLimit
<1>1. PICK t \in Nat : t = elapsed'
  OBVIOUS
<1>2. PICK l : l = Latest'
  OBVIOUS
<1>3. l = Max({t, Total})
  BY <1>1, <1>2 DEF Latest
<1>4. l \in Nat /\ t <= l
  BY <1>1, <1>3, LimitFacts, MaxOfTwo
<1>5. t <= l + ReadLimit
  BY SMTT(60), <1>1, <1>4, LimitFacts
<1> QED  BY <1>1, <1>2, <1>4, <1>5

Categories == {"authentication_failure", "model_unavailable", "timeout", "overloaded",
               "upstream_failure", "configuration_failure", "provider_unreachable",
               "output_limit", "protocol_failure"}

\* How far the call has come, and what that says of what it holds, read and knows.
Progress ==
    /\ elapsed \in Nat /\ framed \in Nat /\ size \in Nat /\ held \in BOOLEAN
    /\ adapter \in {"openai", "ollama"} /\ (adapter = "ollama" => ~strict)
    /\ \/ phase \in {"post", "headers"} /\ size = 0 /\ ~held /\ outcome = "none" /\ diagnosis = "none"
       \/ /\ phase = "body" /\ held /\ outcome = "none" /\ diagnosis = "none"
          /\ elapsed <= Latest /\ size <= MaxBytes
       \/ /\ phase = "diagnose" /\ held /\ outcome \in Categories /\ elapsed <= Latest
          /\ size <= DiagnosticBytes /\ diagnosis = "none"
       \/ phase = "close" /\ held /\ outcome \in Categories \cup {"value"}
       \/ phase = "read" /\ ~held /\ outcome = "value"
       \/ phase = "done" /\ ~held /\ outcome \in Categories \cup {"result"}
    /\ phase # "done" => usage = Absent
    /\ outcome = "value" => answer \in Envelope /\ elapsed <= Total
    /\ size <= IF diagnosis # "none" \/ phase = "diagnose" THEN DiagnosticBytes ELSE MaxBytes
    /\ elapsed <= Latest + ReadLimit

\* The inductive invariant.
Sound == Progress /\ LateIsNoAnswer /\ UsageIsConsistent /\ ResultsAreWhole

\* A call that has no result carries no verdict and no usage yet.
LEMMA NoResult ==
    Progress /\ outcome # "result" /\ usage = Absent => Sound
BY DEF Sound, LateIsNoAnswer, UsageIsConsistent, ResultsAreWhole

\* A rejected status becomes an error (request_json, error_for_status).
LEMMA RejectedIsError ==
    ASSUME NEW s \in Nat
    PROVE  Rejected(s) \in Categories /\ ErrorForStatus(s) \in Categories
<1>1. ErrorForStatus(s) \in Categories
  BY SMTT(60) DEF ErrorForStatus, Categories
<1> QED  BY SMTT(60), <1>1 DEF Rejected, Categories

\* No category is a result, a value or nothing.
LEMMA CategoriesFail ==
    /\ Categories \cap {"none", "value", "result"} = {}
    /\ "timeout" \in Categories /\ "provider_unreachable" \in Categories
    /\ "output_limit" \in Categories /\ "protocol_failure" \in Categories
BY DEF Categories

\* Nothing was sent yet.
LEMMA CallStarts ==
    ASSUME CallInit
    PROVE  Sound
<1>1. elapsed = 0 /\ framed = 0 /\ 0 \in Nat
  BY DEF CallInit
<1>2. Latest \in Nat
  BY <1>1, LatestFacts
<1>3. 0 <= MaxBytes /\ 0 <= DiagnosticBytes /\ 0 <= Latest + ReadLimit
  BY SMTT(60), <1>2, LimitFacts
<1>4. Progress
  BY <1>1, <1>3 DEF CallInit, Progress
<1> QED  BY <1>4, NoResult DEF CallInit

\* Connecting fails the call, or goes on to the headers.
LEMMA ConnectKeeps ==
    ASSUME Sound, ConnectRequest
    PROVE  Sound'
<1>1. /\ phase = "post" /\ Progress /\ held' = FALSE
      /\ UNCHANGED <<adapter, strict, size, answer, diagnosis, usage>>
  BY DEF ConnectRequest, Sound
<1>2. elapsed \in Nat /\ size = 0 /\ outcome = "none" /\ diagnosis = "none" /\ usage = Absent
  BY <1>1 DEF Progress
<1>3. PICK d \in 0..ConnectLimit : Takes(d) /\ framed' = elapsed'
  BY DEF ConnectRequest
<1>4. elapsed' \in Nat
  BY SMTT(60), <1>2, <1>3, LimitFacts DEF Takes
<1>5. elapsed' <= Latest' /\ elapsed' <= Latest' + ReadLimit
  BY <1>3, <1>4, LatestMoves
<1>6. \/ phase' = "done" /\ outcome' \in Categories
      \/ phase' = "headers" /\ outcome' = "none"
  BY <1>1, <1>2, CategoriesFail DEF ConnectRequest, FailsWith
<1>7. 0 <= MaxBytes /\ 0 <= DiagnosticBytes /\ 0 \in Nat
  BY SMTT(60), LimitFacts
<1>8. outcome' \notin {"value", "result"} /\ usage' = Absent
  BY <1>1, <1>2, <1>6, CategoriesFail
<1>9. Progress'
  BY <1>1, <1>2, <1>3, <1>4, <1>5, <1>6, <1>7, <1>8 DEF Progress
<1> QED  BY <1>8, <1>9 DEF Sound, LateIsNoAnswer, UsageIsConsistent, ResultsAreWhole

\* Headers and framing take their time, whatever the deadline.
LEMMA FramingKeeps ==
    ASSUME Sound, Framing
    PROVE  Sound'
<1>1. /\ phase \in {"headers", "body", "diagnose"} /\ Progress
      /\ UNCHANGED <<adapter, strict, phase, size, held, answer, outcome, diagnosis, usage>>
  BY DEF Framing, Sound
<1>2. PICK d \in 0..ReadLimit : Takes(d) /\ framed' = elapsed'
  BY DEF Framing
<1>3. elapsed' \in Nat
  BY SMTT(60), <1>1, <1>2, LimitFacts DEF Takes, Progress
<1>4. elapsed' <= Latest' /\ elapsed' <= Latest' + ReadLimit
  BY <1>2, <1>3, LatestMoves
<1>5. outcome \notin {"value", "result"} /\ usage = Absent
  BY <1>1, CategoriesFail DEF Progress
<1>6. Progress'
  BY <1>1, <1>2, <1>3, <1>4, <1>5 DEF Progress
<1> QED  BY <1>1, <1>5, <1>6 DEF Sound, LateIsNoAnswer, UsageIsConsistent, ResultsAreWhole

\* The headers are in: a response is held, or the call has failed.
LEMMA PostKeeps ==
    ASSUME Sound, PostRequest
    PROVE  Sound'
<1>1. /\ phase = "headers" /\ Progress
      /\ UNCHANGED <<adapter, strict, size, answer, diagnosis, usage>>
  BY DEF PostRequest, Sound
<1>2. elapsed \in Nat /\ size = 0 /\ outcome = "none" /\ diagnosis = "none" /\ usage = Absent
  BY <1>1 DEF Progress
<1>3. PICK d \in 0..ReadLimit :
          /\ Takes(d) /\ framed' = elapsed'
          /\ \/ held' = FALSE /\ \E c \in {"timeout", "provider_unreachable"} : FailsWith(c)
             \/ /\ held' = TRUE
                /\ \E s \in Statuses :
                      \/ s < 300 /\ phase' = "body" /\ UNCHANGED outcome
                      \/ s \in {400, 422} /\ phase' = "diagnose" /\ outcome' = Rejected(s)
                      \/ s >= 300 /\ s \notin {400, 422} /\ FailsWith(Rejected(s))
  BY DEF PostRequest
<1>4. elapsed' \in Nat /\ framed' = elapsed' /\ elapsed' <= Latest' /\ elapsed' <= Latest' + ReadLimit
  <2>1. elapsed' \in Nat
    BY SMTT(60), <1>2, <1>3, LimitFacts DEF Takes
  <2> QED  BY <1>3, <2>1, LatestMoves
<1>5. \A s \in Statuses : Rejected(s) \in Categories
  BY RejectedIsError, CallLimits
<1>6. \/ held' = FALSE /\ phase' = "done" /\ outcome' \in Categories
      \/ held' = TRUE /\ phase' = "body" /\ outcome' = "none"
      \/ held' = TRUE /\ phase' \in {"diagnose", "close"} /\ outcome' \in Categories
  BY <1>2, <1>3, <1>5, CategoriesFail DEF FailsWith
<1>7. 0 <= MaxBytes /\ 0 <= DiagnosticBytes /\ 0 \in Nat
  BY SMTT(60), LimitFacts
<1>8. outcome' \notin {"value", "result"}
  BY <1>6, CategoriesFail
<1>9. Progress'
  BY <1>1, <1>2, <1>4, <1>6, <1>7, <1>8 DEF Progress
<1>10. usage' = Absent
  BY <1>1, <1>2
<1> QED  BY <1>8, <1>9, <1>10 DEF Sound, LateIsNoAnswer, UsageIsConsistent, ResultsAreWhole

\* A read while the call may still go on takes no more than its timeout.
LEMMA ReadTakes ==
    ASSUME Progress, elapsed <= Latest, NEW d \in 0..ReadLimit, Takes(d), UNCHANGED framed
    PROVE  /\ elapsed' \in Nat /\ Latest' = Latest /\ framed' \in Nat
           /\ elapsed' <= Latest + ReadLimit /\ (elapsed' <= Total => elapsed' <= Latest)
<1>1. framed \in Nat /\ elapsed \in Nat
  BY DEF Progress
<1>2. Latest' = Latest
  BY DEF Latest
<1>3. Latest \in Nat /\ Total <= Latest
  BY <1>1, LatestFacts
<1>4. PICK l \in Nat : l = Latest
  BY <1>3
<1>5. elapsed' \in Nat /\ elapsed' <= l + ReadLimit /\ (elapsed' <= Total => elapsed' <= l)
  BY SMTT(60), <1>1, <1>3, <1>4, LimitFacts DEF Takes
<1> QED  BY <1>1, <1>2, <1>4, <1>5

\* Reading a rejection keeps its category, within the deadline and the limit.
LEMMA DiagnoseKeeps ==
    ASSUME Sound, Diagnose
    PROVE  Sound'
<1>1. /\ phase = "diagnose" /\ Progress
      /\ UNCHANGED <<adapter, strict, framed, held, answer, outcome, usage>>
  BY DEF Diagnose, Sound
<1>2. /\ held /\ outcome \in Categories /\ elapsed <= Latest /\ size \in Nat /\ size <= DiagnosticBytes
      /\ diagnosis = "none" /\ usage = Absent
  BY <1>1, CategoriesFail DEF Progress
<1>3. PICK d \in 0..ReadLimit :
          /\ Takes(d)
          /\ \/ /\ elapsed' <= Total /\ size + 1 <= DiagnosticBytes
                /\ size' = size + 1 /\ UNCHANGED <<phase, diagnosis>>
             \/ /\ elapsed' > Total \/ size + 1 > DiagnosticBytes
                /\ phase' = "close" /\ diagnosis' = "request_configuration" /\ UNCHANGED size
             \/ /\ phase' = "close" /\ UNCHANGED size
                /\ diagnosis' \in {"request_configuration", "strict_schema_rejected"}
  BY DEF Diagnose
<1>4. /\ elapsed' \in Nat /\ Latest' = Latest /\ framed' \in Nat
      /\ elapsed' <= Latest + ReadLimit /\ (elapsed' <= Total => elapsed' <= Latest)
  BY <1>1, <1>2, <1>3, ReadTakes
<1>5. size + 1 \in Nat
  BY SMTT(60), <1>2
<1>6. \/ /\ phase' = "diagnose" /\ diagnosis' = "none" /\ elapsed' <= Latest
         /\ size' \in Nat /\ size' <= DiagnosticBytes
      \/ phase' = "close" /\ diagnosis' # "none" /\ size' \in Nat /\ size' <= DiagnosticBytes
  BY <1>1, <1>2, <1>3, <1>4, <1>5
<1>7. outcome' \in Categories /\ outcome' \notin {"value", "result"} /\ usage' = Absent
  BY <1>1, <1>2, CategoriesFail
<1>8. Progress'
  BY <1>1, <1>2, <1>4, <1>6, <1>7 DEF Progress
<1> QED  BY <1>7, <1>8 DEF Sound, LateIsNoAnswer, UsageIsConsistent, ResultsAreWhole

\* A byte is kept within the deadline and the limit, or the call fails.
LEMMA ReadByteKeeps ==
    ASSUME Sound, ReadByte
    PROVE  Sound'
<1>1. /\ phase = "body" /\ Progress
      /\ UNCHANGED <<adapter, strict, answer, diagnosis, usage, framed, held>>
  BY DEF ReadByte, Sound
<1>2. /\ held /\ outcome = "none" /\ elapsed <= Latest /\ size \in Nat /\ size <= MaxBytes
      /\ diagnosis = "none" /\ usage = Absent
  BY <1>1, CategoriesFail DEF Progress
<1>3. PICK d \in 0..ReadLimit :
          /\ Takes(d)
          /\ \/ elapsed' > Total /\ FailsWith("timeout") /\ UNCHANGED size
             \/ elapsed' <= Total /\ size + 1 > MaxBytes /\ FailsWith("output_limit") /\ UNCHANGED size
             \/ /\ elapsed' <= Total /\ size + 1 <= MaxBytes
                /\ size' = size + 1 /\ UNCHANGED <<phase, outcome>>
  BY DEF ReadByte
<1>4. /\ elapsed' \in Nat /\ Latest' = Latest /\ framed' \in Nat
      /\ elapsed' <= Latest + ReadLimit /\ (elapsed' <= Total => elapsed' <= Latest)
  BY <1>1, <1>2, <1>3, ReadTakes
<1>5. size + 1 \in Nat
  BY SMTT(60), <1>2
<1>6. \/ phase' = "body" /\ outcome' = "none" /\ elapsed' <= Latest
      \/ phase' = "close" /\ outcome' \in Categories
  BY <1>1, <1>2, <1>3, <1>4, CategoriesFail DEF FailsWith
<1>7. size' \in Nat /\ size' <= MaxBytes
  BY <1>2, <1>3, <1>5
<1>8. outcome' \notin {"value", "result"} /\ usage' = Absent
  BY <1>1, <1>2, <1>6, CategoriesFail
<1>9. Progress'
  BY <1>1, <1>2, <1>4, <1>6, <1>7, <1>8 DEF Progress
<1> QED  BY <1>8, <1>9 DEF Sound, LateIsNoAnswer, UsageIsConsistent, ResultsAreWhole

\* Only a body that was whole before the deadline becomes a value.
LEMMA BodyEndsKeeps ==
    ASSUME Sound, BodyEnds
    PROVE  Sound'
<1>1. /\ phase = "body" /\ Progress
      /\ UNCHANGED <<adapter, strict, framed, held, size, diagnosis, usage>>
  BY DEF BodyEnds, Sound
<1>2. /\ held /\ outcome = "none" /\ elapsed <= Latest /\ size \in Nat /\ size <= MaxBytes
      /\ diagnosis = "none" /\ usage = Absent
  BY <1>1, CategoriesFail DEF Progress
<1>3. PICK d \in 0..ReadLimit :
          /\ Takes(d)
          /\ \/ elapsed' > Total /\ FailsWith("timeout") /\ UNCHANGED answer
             \/ elapsed' <= Total /\ FailsWith("protocol_failure") /\ UNCHANGED answer
             \/ /\ elapsed' <= Total /\ size > 0 /\ outcome' = "value" /\ phase' = "close"
                /\ answer' \in Envelope
  BY DEF BodyEnds
<1>4. elapsed' \in Nat /\ Latest' = Latest /\ framed' \in Nat /\ elapsed' <= Latest + ReadLimit
  BY <1>1, <1>2, <1>3, ReadTakes
<1>5. phase' = "close" /\ outcome' \in Categories \cup {"value"}
  BY <1>1, <1>2, <1>3, CategoriesFail DEF FailsWith
<1>6. outcome' = "value" => answer' \in Envelope /\ elapsed' <= Total
  BY <1>3, CategoriesFail DEF FailsWith
<1>7. outcome' # "result" /\ usage' = Absent
  BY <1>1, <1>2, <1>5, CategoriesFail
<1>8. Progress'
  BY <1>1, <1>2, <1>4, <1>5, <1>6, <1>7 DEF Progress
<1> QED  BY <1>7, <1>8 DEF Sound, LateIsNoAnswer, UsageIsConsistent, ResultsAreWhole

\* A connection that breaks, or a read that times out, fails the call.
LEMMA BodyBreaksKeeps ==
    ASSUME Sound, BodyBreaks
    PROVE  Sound'
<1>1. /\ phase = "body" /\ Progress
      /\ UNCHANGED <<adapter, strict, framed, held, size, answer, diagnosis, usage>>
  BY DEF BodyBreaks, Sound
<1>2. /\ held /\ elapsed <= Latest /\ size \in Nat /\ size <= MaxBytes
      /\ diagnosis = "none" /\ usage = Absent
  BY <1>1, CategoriesFail DEF Progress
<1>3. PICK d \in {0, ReadLimit} : Takes(d) /\ \E c \in {"timeout", "provider_unreachable"} : FailsWith(c)
  BY DEF BodyBreaks
<1>4. d \in 0..ReadLimit
  BY SMTT(60), LimitFacts
<1>5. elapsed' \in Nat /\ Latest' = Latest /\ framed' \in Nat /\ elapsed' <= Latest + ReadLimit
  BY <1>1, <1>2, <1>3, <1>4, ReadTakes
<1>6. phase' = "close" /\ outcome' \in Categories
  BY <1>1, <1>2, <1>3, CategoriesFail DEF FailsWith
<1>7. outcome' \notin {"value", "result"} /\ usage' = Absent
  BY <1>1, <1>2, <1>6, CategoriesFail
<1>8. Progress'
  BY <1>1, <1>2, <1>5, <1>6, <1>7 DEF Progress
<1> QED  BY <1>7, <1>8 DEF Sound, LateIsNoAnswer, UsageIsConsistent, ResultsAreWhole

\* Closing the response spoils a value or keeps what there is.
LEMMA CloseKeeps ==
    ASSUME Sound, CloseResponse
    PROVE  Sound'
<1>1. /\ phase = "close" /\ Progress /\ held' = FALSE
      /\ phase' = IF outcome' = "value" THEN "read" ELSE "done"
      /\ outcome' = outcome \/ (outcome = "value" /\ outcome' = "provider_unreachable")
      /\ UNCHANGED <<adapter, strict, elapsed, framed, size, answer, diagnosis, usage>>
  BY DEF CloseResponse, Sound
<1>2. outcome \in Categories \cup {"value"} /\ usage = Absent
  BY <1>1 DEF Progress
<1>3. \/ phase' = "read" /\ outcome' = "value" /\ outcome = "value"
      \/ phase' = "done" /\ outcome' \in Categories
  BY <1>1, <1>2, CategoriesFail
<1>4. outcome' # "result" /\ usage' = Absent
  BY <1>1, <1>2, <1>3, CategoriesFail
<1>5. outcome' = "value" => outcome = "value"
  BY <1>3, CategoriesFail
<1>6. Progress'
  BY <1>1, <1>3, <1>4, <1>5 DEF Progress, Latest
<1> QED  BY <1>4, <1>6 DEF Sound, LateIsNoAnswer, UsageIsConsistent, ResultsAreWhole

\* What UsageIsConsistent and ResultsAreWhole say of a usage and an outcome, for the envelope e.
Consistent(u, e) ==
    u # Absent =>
       /\ Bad \notin {u.prompt, u.completion, u.total}
       /\ \A f \in {"prompt", "completion"} : e.usage[f] # Bad => u[f] = e.usage[f]
       /\ Absent \notin {u.prompt, u.completion, u.total} => u.total = u.prompt + u.completion
Whole(e) ==
    /\ e.content = "text" /\ e.model # "other" /\ e.reason \in {"stop", Absent}
    /\ strict => (e.choices = 1 /\ ~e.declined /\ e.reason = "stop")
Verdicts == {"protocol_failure", "output_limit", "result"}

\* The fields of an envelope and of a usage object.
LEMMA EnvelopeFields ==
    ASSUME NEW e \in Envelope
    PROVE  /\ e.content \in {"text", "long", Absent, Bad}
           /\ e.reason \in {"stop", "length", "filter", Absent, Bad}
           /\ e.usage \in Usages \cup {Absent, Bad}
           /\ e.usage \in Usages => /\ e.usage.prompt \in Count /\ e.usage.completion \in Count
                                    /\ e.usage.total \in Count /\ e.usage.reasoning \in Count
<1>1. /\ e.content \in {"text", "long", Absent, Bad} /\ e.usage \in Usages \cup {Absent, Bad}
      /\ e.reason \in {"stop", "length", "filter", Absent, Bad}
  BY SMTT(60) DEF Envelope
<1>2. \A u \in Usages : u \in [prompt : Count, completion : Count, total : Count, reasoning : Count]
  BY ReportedValues
<1>3. \A u \in Usages : u.prompt \in Count /\ u.completion \in Count /\ u.total \in Count /\ u.reasoning \in Count
  BY SMTT(60), <1>2
<1> QED  BY <1>1, <1>3

\* Only a text that ended by itself is a result (result_text).
LEMMA TextIsWhole ==
    ASSUME NEW content, NEW reason \in {"stop", "length", "filter", Absent, Bad}
    PROVE  /\ ResultText(content, reason) \in Verdicts
           /\ ResultText(content, reason) = "result" => content = "text" /\ reason \in {"stop", Absent}
<1>1. ResultText(content, reason) \in Verdicts
  BY DEF ResultText, Verdicts
<1>2. ASSUME ResultText(content, reason) = "result" PROVE content = "text" /\ reason \in {"stop", Absent}
  BY <1>2 DEF ResultText
<1> QED  BY <1>1, <1>2

\* A count that is no valid number is dropped (_usage).
LEMMA ValidCounts ==
    ASSUME NEW v \in Count
    PROVE  Valid(v) \in Nat \cup {Absent} /\ Valid(v) # Bad /\ (v # Bad => Valid(v) = v)
BY ReportedValues DEF Valid, Count

\* The OpenAI-compatible adapter (execute).
LEMMA OpenAIVerdict ==
    ASSUME NEW e \in Envelope
    PROVE  LET v == OpenAI(e)
           IN  /\ v.outcome \in Verdicts /\ (v.outcome = "result" => Whole(e))
               /\ Consistent(v.usage, e)
<1> DEFINE reason  == IF e.choices = 0 THEN Absent ELSE e.reason
           content == IF e.choices = 0 THEN Bad ELSE e.content
           counts  == IF e.usage \in {Absent, Bad} THEN Absent
                      ELSE Reported(Valid(e.usage.prompt), Valid(e.usage.completion), Valid(e.usage.total))
           refused == \/ strict /\ (e.choices # 1 \/ e.declined \/ reason = Absent)
                      \/ e.model = "other"
           verdict == IF refused THEN "protocol_failure" ELSE ResultText(content, reason)
<1>1. CASE e.usage = Bad \/ (e.usage # Absent /\ Inconsistent(e.usage))
  <2>1. OpenAI(e) = [outcome |-> "protocol_failure", usage |-> Absent]
    BY <1>1 DEF OpenAI
  <2>2. OpenAI(e).outcome = "protocol_failure" /\ OpenAI(e).usage = Absent
    BY SMTT(60), <2>1
  <2> QED  BY <2>2 DEF Consistent, Verdicts
<1>2. CASE ~(e.usage = Bad \/ (e.usage # Absent /\ Inconsistent(e.usage)))
  <2>1. OpenAI(e) = [outcome |-> verdict, usage |-> counts]
    BY <1>2 DEF OpenAI
  <2>2. OpenAI(e).outcome = verdict /\ OpenAI(e).usage = counts
    <3> HIDE DEF verdict, counts
    <3> QED  BY SMTT(60), <2>1
  <2>3. reason \in {"stop", "length", "filter", Absent, Bad}
    BY EnvelopeFields
  <2>4. verdict \in Verdicts
    <3>1. ResultText(content, reason) \in Verdicts
      BY <2>3, TextIsWhole
    <3> QED  BY <3>1 DEF Verdicts
  <2>5. ASSUME verdict = "result" PROVE Whole(e)
    <3>1. ~refused /\ ResultText(content, reason) = "result"
      BY <2>5
    <3>2. content = "text" /\ reason \in {"stop", Absent}
      <4> HIDE DEF content, reason
      <4> QED  BY <2>3, <3>1, TextIsWhole
    <3>3. e.choices # 0
      BY <3>2, ReportedValues
    <3> QED  BY <3>1, <3>2, <3>3 DEF Whole
  <2>6. ASSUME counts # Absent PROVE Consistent(counts, e)
    <3> DEFINE u == e.usage
    <3>1. u \in Usages /\ ~Inconsistent(u)
      BY <1>2, <2>6, EnvelopeFields
    <3>2. /\ u.prompt \in Count /\ u.completion \in Count /\ u.total \in Count
          /\ Bad \notin {u.prompt, u.completion, u.total}
      BY <3>1, EnvelopeFields DEF Inconsistent
    <3>3. Valid(u.prompt) = u.prompt /\ Valid(u.completion) = u.completion /\ Valid(u.total) = u.total
      BY <3>2, ValidCounts
    <3>4. counts = Reported(u.prompt, u.completion, u.total)
      BY <2>6, <3>3
    <3>5. /\ counts.prompt = u.prompt /\ counts.completion = u.completion /\ counts.total = u.total
          /\ counts["prompt"] = u.prompt /\ counts["completion"] = u.completion
      <4>1. counts = [prompt |-> u.prompt, completion |-> u.completion, total |-> u.total]
        BY <2>6, <3>4 DEF Reported
      <4> HIDE DEF counts, u
      <4> QED  BY SMTT(60), <4>1
    <3>6. u["prompt"] = u.prompt /\ u["completion"] = u.completion
      BY SMTT(60)
    <3>7. Absent \notin {u.prompt, u.completion, u.total} => u.total = u.prompt + u.completion
      BY <3>1 DEF Inconsistent
    <3> HIDE DEF counts
    <3> QED  BY <3>2, <3>5, <3>6, <3>7 DEF Consistent
  <2>7. Consistent(counts, e)
    <3> HIDE DEF counts
    <3> QED  BY <2>6 DEF Consistent
  <2> QED  BY <2>2, <2>4, <2>5, <2>7
<1> QED  BY <1>1, <1>2

\* The Ollama adapter (execute).
LEMMA OllamaVerdict ==
    ASSUME NEW e \in Envelope, ~strict
    PROVE  LET v == Ollama(e)
           IN  /\ v.outcome \in Verdicts /\ (v.outcome = "result" => Whole(e))
               /\ Consistent(v.usage, e)
<1> DEFINE u == IF e.usage \in {Absent, Bad} THEN [prompt |-> Absent, completion |-> Absent] ELSE e.usage
           p == Valid(u.prompt)
           c == Valid(u.completion)
           t == IF Absent \in {p, c} THEN Absent ELSE p + c
           counts == Reported(p, c, t)
<1>1. CASE e.choices = 0 \/ e.declined \/ e.model = "other"
  <2>1. Ollama(e) = [outcome |-> "protocol_failure", usage |-> Absent]
    BY <1>1 DEF Ollama
  <2>2. Ollama(e).outcome = "protocol_failure" /\ Ollama(e).usage = Absent
    BY SMTT(60), <2>1
  <2> QED  BY <2>2 DEF Consistent, Verdicts
<1>2. CASE ~(e.choices = 0 \/ e.declined \/ e.model = "other")
  <2>1. Ollama(e) = [outcome |-> ResultText(e.content, e.reason), usage |-> counts]
    BY <1>2 DEF Ollama
  <2>2. Ollama(e).outcome = ResultText(e.content, e.reason) /\ Ollama(e).usage = counts
    <3> HIDE DEF counts
    <3> QED  BY SMTT(60), <2>1
  <2>3. /\ ResultText(e.content, e.reason) \in Verdicts
        /\ ResultText(e.content, e.reason) = "result" => Whole(e)
    <3>1. e.reason \in {"stop", "length", "filter", Absent, Bad}
      BY EnvelopeFields
    <3>2. /\ ResultText(e.content, e.reason) \in Verdicts
          /\ ResultText(e.content, e.reason) = "result" => e.content = "text" /\ e.reason \in {"stop", Absent}
      BY <3>1, TextIsWhole
    <3> QED  BY <1>2, <3>2 DEF Whole
  <2>4. ASSUME counts # Absent PROVE Consistent(counts, e)
    <3>1. e.usage \in Usages
      <4> SUFFICES ASSUME e.usage \in {Absent, Bad} PROVE FALSE
        BY EnvelopeFields
      <4>1. u = [prompt |-> Absent, completion |-> Absent]
        OBVIOUS
      <4>2. u.prompt = Absent /\ u.completion = Absent
        <5> HIDE DEF u
        <5> QED  BY SMTT(60), <4>1
      <4>3. p = Absent /\ c = Absent
        BY <4>2, ReportedValues DEF Valid
      <4>4. t = Absent
        BY <4>3
      <4>5. {p, c, t} = {Absent}
        BY <4>3, <4>4
      <4> QED  BY <2>4, <4>5 DEF Reported
    <3>2. u = e.usage
      <4>1. CASE e.usage \in {Absent, Bad}
        <5>1. u = [prompt |-> Absent, completion |-> Absent]
          BY <4>1
        <5>2. u.prompt = Absent /\ u.completion = Absent
          <6> HIDE DEF u
          <6> QED  BY SMTT(60), <5>1
        <5>3. p = Absent /\ c = Absent
          BY <5>2, ReportedValues DEF Valid
        <5>4. {p, c, t} = {Absent}
          BY <5>3
        <5> QED  BY <2>4, <5>4 DEF Reported
      <4> QED  BY <4>1
    <3>3. u.prompt \in Count /\ u.completion \in Count
      <4> HIDE DEF u
      <4> QED  BY <3>1, <3>2, EnvelopeFields
    <3>4. /\ p \in Nat \cup {Absent} /\ p # Bad /\ (u.prompt # Bad => p = u.prompt)
          /\ c \in Nat \cup {Absent} /\ c # Bad /\ (u.completion # Bad => c = u.completion)
      <4> HIDE DEF u
      <4> QED  BY <3>3, ValidCounts
    <3>5. t # Bad /\ (Absent \notin {p, c, t} => t = p + c)
      <4>1. CASE Absent \in {p, c}
        BY <4>1, ReportedValues
      <4>2. CASE Absent \notin {p, c}
        <5>1. t = p + c
          BY <4>2
        <5>2. p \in Nat /\ c \in Nat
          BY <3>4, <4>2
        <5>3. p + c \in Nat
          <6> HIDE DEF p, c
          <6> QED  BY SMTT(60), <5>2
        <5> QED  BY <5>1, <5>3, ReportedValues
      <4> QED  BY <4>1, <4>2
    <3>6. /\ counts.prompt = p /\ counts.completion = c /\ counts.total = t
          /\ counts["prompt"] = p /\ counts["completion"] = c
      <4>1. counts = [prompt |-> p, completion |-> c, total |-> t]
        BY <2>4 DEF Reported
      <4> HIDE DEF counts, p, c, t
      <4> QED  BY SMTT(60), <4>1
    <3>7. u["prompt"] = u.prompt /\ u["completion"] = u.completion
      <4> HIDE DEF u
      <4> QED  BY SMTT(60)
    <3> HIDE DEF counts, p, c, t, u
    <3> QED  BY <3>2, <3>4, <3>5, <3>6, <3>7 DEF Consistent
  <2>5. Consistent(counts, e)
    <3> HIDE DEF counts
    <3> QED  BY <2>4 DEF Consistent
  <2> QED  BY <2>2, <2>3, <2>5
<1> QED  BY <1>1, <1>2

\* The answer is read: the call ends with a result or an error, and the usage of either.
LEMMA InterpretKeeps ==
    ASSUME Sound, Interpret
    PROVE  Sound'
<1>1. /\ phase = "read" /\ phase' = "done" /\ Progress
      /\ UNCHANGED <<adapter, strict, elapsed, framed, size, held, answer, diagnosis>>
  BY DEF Interpret, Sound
<1>2. /\ outcome = "value" /\ answer \in Envelope /\ elapsed <= Total /\ ~held
      /\ adapter \in {"openai", "ollama"} /\ (adapter = "ollama" => ~strict)
  BY <1>1 DEF Progress
<1>3. PICK v : /\ v = IF adapter = "openai" THEN OpenAI(answer) ELSE Ollama(answer)
               /\ outcome' = v.outcome /\ usage' = v.usage
  BY DEF Interpret
<1>4. v.outcome \in Verdicts /\ (v.outcome = "result" => Whole(answer)) /\ Consistent(v.usage, answer)
  BY <1>2, <1>3, OpenAIVerdict, OllamaVerdict
<1>5. LateIsNoAnswer'
  BY <1>1, <1>2 DEF LateIsNoAnswer
<1>6. UsageIsConsistent'
  BY <1>1, <1>3, <1>4 DEF UsageIsConsistent, Consistent
<1>7. ResultsAreWhole'
  BY <1>1, <1>3, <1>4 DEF ResultsAreWhole, Whole
<1>8. outcome' \in Categories \cup {"result"} /\ outcome' # "value"
  BY <1>3, <1>4, CategoriesFail DEF Verdicts
<1>9. Progress'
  BY <1>1, <1>2, <1>8 DEF Progress, Latest
<1> QED  BY <1>5, <1>6, <1>7, <1>9 DEF Sound

\* Every step of a call.
LEMMA CallKeeps ==
    ASSUME Sound, [CallNext]_providerVars
    PROVE  Sound'
<1>1. CASE UNCHANGED providerVars
  BY <1>1 DEF providerVars, Sound, Progress, Latest, LateIsNoAnswer, UsageIsConsistent, ResultsAreWhole
<1> QED  BY <1>1, ConnectKeeps, FramingKeeps, PostKeeps, DiagnoseKeeps, ReadByteKeeps, BodyEndsKeeps, BodyBreaksKeeps, CloseKeeps,
            InterpretKeeps DEF CallNext

\* No step changes why a call failed.
LEMMA CauseStays ==
    ASSUME Sound, CallNext, outcome \notin {"none", "value"}
    PROVE  outcome' = outcome
<1>1. phase \notin {"post", "headers", "body", "read"}
  BY DEF Sound, Progress
<1> QED  BY <1>1 DEF CallNext, ConnectRequest, Framing, PostRequest, Diagnose, ReadByte, BodyEnds, BodyBreaks, CloseResponse, Interpret

\* The call is always in a sound state.
LEMMA CallIsSound == CallSpec => []Sound
<1>1. CallInit => Sound
  BY CallStarts
<1>2. Sound /\ [CallNext]_providerVars => Sound'
  BY CallKeeps
<1> QED  BY <1>1, <1>2, PTL DEF CallSpec

\* Whatever the peer does, for all limits: a body is cut within one read of the deadline, or of
\* the last byte of headers and framing, which no deadline bounds; a call keeps no more bytes
\* than allowed and ends with its response closed; what it hands on is a whole
\* answer in time of the model that was asked, or an error, and usage that is the provider's
\* and adds up (request_json, rejection_diagnostics, result_text, execute).
THEOREM CallsAreSound == CallSpec => []AnswersAreSound
<1>1. Sound => AnswersAreSound
  <2> SUFFICES ASSUME Sound PROVE AnswersAreSound
    OBVIOUS
  <2>1. CallTypeOK
    BY CategoriesFail DEF Sound, Progress, CallTypeOK
  <2>2. CallsAreBounded
    BY DEF Sound, Progress, CallsAreBounded, Latest
  <2> QED  BY <2>1, <2>2 DEF Sound, AnswersAreSound
<1> QED  BY <1>1, CallIsSound, PTL

\* Once a call has failed, diagnosing and cleaning up do not change why (the finally of
\* request_json).
THEOREM FailuresKeepTheirCause == CallSpec => CauseIsKept
<1> DEFINE A == outcome \notin {"none", "value"} => outcome' = outcome
<1>1. Sound /\ [CallNext]_providerVars => [A]_providerVars
  BY CauseStays
<1>2. CallSpec => [][A]_providerVars
  <2> HIDE DEF A
  <2> QED  BY <1>1, CallIsSound, PTL DEF CallSpec
<1> QED  BY <1>2 DEF CauseIsKept
=============================================================================
