----------------------------- MODULE FileMemory -----------------------------
(***************************************************************************)
(* FileMemoryStore (memory/memory_store.py): one JSON file with the        *)
(* messages of all sessions, read, changed and replaced under a thread     *)
(* lock and a file lock.  Workers append an exchange, read a history or    *)
(* clear; a write may fail and a process may die at any point, which frees *)
(* its lock.                                                               *)
(***************************************************************************)
EXTENDS Naturals, Sequences, FiniteSets

CONSTANTS FileSession, FileCall,
          FileLimit,   \* history_limit
          Nobody,      \* the lock is free
          MaxFailures, \* bound on failed writes and deaths
          MaxClears    \* bound on clear_session and clear_all calls

ASSUME FileHistory == FileLimit \in Nat \ {0}
ASSUME SomeoneElse == Nobody \notin FileCall

VARIABLES messages,  \* the messages in the file, oldest first
          locked,    \* the worker holding the locks, or Nobody
          at,        \* [FileCall -> where its worker is]
          scope,     \* [FileCall -> the sessions the call is about]
          call,      \* [FileCall -> the operation]
          data,      \* [FileCall -> what the worker read and changed]
          history,   \* [FileCall -> what get_history returned]
          failures, clears

fileVars == <<messages, locked, at, scope, call, data, history, failures, clears>>

\* A message of the file.
FileMessage == [session : FileSession, of : FileCall, role : {"user", "assistant"}]

\* The items of f at the places S, in their order: a comprehension over enumerate(f).
Kept[f \in Seq(FileMessage)] ==
    [S \in SUBSET Nat |->
        LET kept[n \in 0..Len(f)] ==
                IF n = 0 THEN <<>> ELSE IF n \in S THEN Append(kept[n - 1], f[n]) ELSE kept[n - 1]
        IN  kept[Len(f)]]

PlacesOf(f, s) == {i \in 1..Len(f) : f[i].session = s}
Of(f, s) == Kept[f][PlacesOf(f, s)]
Bare(h) == [i \in 1..Len(h) |-> [of |-> h[i].of, role |-> h[i].role]]

\* The store as a log per session.
histories == [s \in FileSession |-> Bare(Of(messages, s))]
Log == INSTANCE ConversationLog WITH log <- histories, Session <- FileSession, Exchange <- FileCall,
                                     Limit <- FileLimit

FileInit ==
    /\ messages = <<>> /\ locked = Nobody /\ failures = 0 /\ clears = 0
    /\ at = [x \in FileCall |-> "idle"] /\ scope = [x \in FileCall |-> {}]
    /\ call = [x \in FileCall |-> "append"]
    /\ data = [x \in FileCall |-> <<>>] /\ history = [x \in FileCall |-> <<>>]

\* A call takes both locks; every operation holds them throughout.
FileBegin(x) ==
    /\ at[x] = "idle" /\ locked = Nobody /\ locked' = x
    /\ \E c \in {"append", "read", "clear", "clear_all"} :
          /\ c \in {"clear", "clear_all"} => clears < MaxClears
          /\ call' = [call EXCEPT ![x] = c]
          /\ clears' = clears + (IF c \in {"clear", "clear_all"} THEN 1 ELSE 0)
          /\ IF c = "clear_all" THEN scope' = [scope EXCEPT ![x] = FileSession]
             ELSE \E s \in FileSession : scope' = [scope EXCEPT ![x] = {s}]
    /\ at' = [at EXCEPT ![x] = "read"]
    /\ UNCHANGED <<messages, data, history, failures>>

In(s, h) == [i \in 1..Len(h) |-> [session |-> s, of |-> h[i].of, role |-> h[i].role]]

\* Mutated: the whole file is trimmed, not the session.
AppendedTrimsAll(f, s, x) ==
    Log!Last(f \o In(s, Log!Pair(x)), FileLimit)

\* The messages of the session that are not among its last ones are removed
\* (indexes[:-history_limit]).
Trimmed[f \in Seq(FileMessage)] ==
    [s \in FileSession |->
        Kept[f][{i \in 1..Len(f) : f[i].session = s =>
                    Cardinality({j \in i..Len(f) : f[j].session = s}) <= FileLimit}]]

\* The two messages go to the end of the file.
AppendedFile(f, s, x) == Trimmed[f \o In(s, Log!Pair(x))][s]
Remaining(f, S) == Kept[f][{i \in 1..Len(f) : f[i].session \notin S}]

\* What a writer makes of the messages it read.
Changed(x) ==
    IF call[x] = "append" THEN AppendedFile(messages, CHOOSE s \in scope[x] : TRUE, x)
    ELSE Remaining(messages, scope[x])

Free(x) == locked' = IF locked = x THEN Nobody ELSE locked

\* The file is read; a reader returns its session's last messages, a writer
\* computes the new contents and writes them to a temporary file.
Read(x) ==
    /\ at[x] = "read"
    /\ IF call[x] = "read"
       THEN /\ \E s \in scope[x] : history' = [history EXCEPT ![x] = Log!Last(Of(messages, s), FileLimit)]
            /\ at' = [at EXCEPT ![x] = "ended"] /\ Free(x) /\ UNCHANGED data
       ELSE /\ data' = [data EXCEPT ![x] = Changed(x)]
            /\ at' = [at EXCEPT ![x] = "write"] /\ UNCHANGED <<history, locked>>
    /\ UNCHANGED <<messages, scope, call, failures, clears>>

\* Mutated: the file is written in place, message by message.
ReplaceInPlace(x) ==
    /\ at[x] = "write"
    /\ \E n \in 0..Len(data[x]) :
          /\ messages' = SubSeq(data[x], 1, n)
          /\ IF n = Len(data[x]) THEN at' = [at EXCEPT ![x] = "ended"] /\ Free(x)
             ELSE UNCHANGED <<at, locked>>
    /\ UNCHANGED <<scope, call, data, history, failures, clears>>

\* os.replace swaps the new contents in.
Replace(x) ==
    /\ at[x] = "write" /\ messages' = data[x]
    /\ at' = [at EXCEPT ![x] = "ended"] /\ Free(x)
    /\ UNCHANGED <<scope, call, data, history, failures, clears>>

\* The write fails and raises, or the process dies: the file keeps its
\* contents, and both locks are let go.
Fail(x) ==
    /\ at[x] \in {"read", "write"} /\ failures < MaxFailures /\ failures' = failures + 1
    /\ at' = [at EXCEPT ![x] = "failed"] /\ Free(x)
    /\ UNCHANGED <<messages, scope, call, data, history, clears>>

FileStep(x) == Read(x) \/ Replace(x) \/ Fail(x)
FileNext == \E x \in FileCall : FileBegin(x) \/ FileStep(x)

\* A call that got the locks goes on; a waiting one takes them once they
\* stay free, which they do after finitely many other calls.
MemorySpec == FileInit /\ [][FileNext]_fileVars /\ \A x \in FileCall : WF_fileVars(FileStep(x)) /\ WF_fileVars(FileBegin(x))

(* ---------------------------------------------------------------------- *)

\* One worker at a time is between its read and its replacement.
FileTypeOK ==
    /\ at \in [FileCall -> {"idle", "read", "write", "ended", "failed"}]
    /\ locked \in FileCall \cup {Nobody} /\ scope \in [FileCall -> SUBSET FileSession]
    /\ \A x \in FileCall : at[x] \in {"read", "write"} => locked = x

\* The file store starts empty and every step of it is, session by session, an append of a whole
\* exchange with trimming, a clearing, or nothing: no update is lost and no
\* session touches another (append_exchange, clear_session, clear_all).
ImplementsLog == Log!LogInit /\ [][Log!LogNext]_histories

\* With an even limit a reader never gets half an exchange: questions and
\* their answers stay adjacent whatever was trimmed in between (get_history).
WholeExchanges ==
    \A x \in FileCall : LET h == history[x] IN
        FileLimit % 2 = 0 => /\ Len(h) % 2 = 0
                             /\ \A i \in 1..Len(h) : i % 2 = 1 => h[i].of = h[i + 1].of /\ h[i + 1].role = "assistant"

\* An exchange whose append succeeded stays in its session's log until it is
\* trimmed by later ones or cleared; one that failed never shows up.
AppendsShow ==
    /\ \A x \in FileCall : at[x] = "failed" => \A i \in 1..Len(messages) : messages[i].of # x
    /\ \A x \in FileCall : at[x] = "ended" /\ call[x] = "append" /\ clears = 0 =>
          \E s \in scope[x] : LET h == Of(messages, s) IN
             (\E i \in 1..Len(h) : h[i].of = x) \/ Len(h) >= FileLimit

\* One call at a time is inside the locks of the file, readers get whole exchanges, and an
\* appended one stays until trimmed or cleared, while a failed one never shows
\* (FileMemoryStore).
FileInv == FileTypeOK /\ WholeExchanges /\ AppendsShow

\* No call waits for the lock for ever, whoever failed or died before it.
CallsEnd == \A x \in FileCall : <>(at[x] \in {"ended", "failed"})
=============================================================================
