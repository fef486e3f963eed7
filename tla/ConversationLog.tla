--------------------------- MODULE ConversationLog ---------------------------
(***************************************************************************)
(* What a conversation memory store promises (memory/memory_store.py): per *)
(* session a log of messages, to which an exchange, the question and its   *)
(* answer, is added at once, and of which the last Limit messages are      *)
(* kept.  RedisMemoryStore is this specification: one transaction appends, *)
(* trims and renews the expiry of the session; FileMemory implements it.   *)
(***************************************************************************)
EXTENDS Naturals, Sequences

CONSTANTS Session, Exchange,
          Limit     \* MEMORY_HISTORY, the messages kept per session

ASSUME SomeHistory == Limit \in Nat \ {0}

VARIABLE log        \* [Session -> sequence of messages, oldest first]

Message == [of : Exchange, role : {"user", "assistant"}]
Pair(x) == <<[of |-> x, role |-> "user"], [of |-> x, role |-> "assistant"]>>

\* A Redis range -n..-1, and the slice [-n:].
Last(h, n) == SubSeq(h, IF Len(h) > n THEN Len(h) - n + 1 ELSE 1, Len(h))
Appended(h, x) == Last(h \o Pair(x), Limit)

LogInit == log = [s \in Session |-> <<>>]
LogAppend(s, x) == log' = [log EXCEPT ![s] = Appended(@, x)]
LogClear(S) == log' = [s \in Session |-> IF s \in S THEN <<>> ELSE log[s]]
\* The key of a session expires MEMORY_TTL seconds after the last exchange.
LogExpire(s) == LogClear({s})
LogNext ==
    \/ \E s \in Session, x \in Exchange : LogAppend(s, x)
    \/ \E S \in SUBSET Session : LogClear(S)
=============================================================================
