-------------------------- MODULE PublicationHistory --------------------------
(***************************************************************************)
(* What the publication authority promises: publications form one linear   *)
(* history.  A new generation extends the history it was planned on, and   *)
(* a rollback appends an earlier generation again; nothing is rewritten.   *)
(***************************************************************************)
EXTENDS Naturals, Sequences

CONSTANTS Version, NoGeneration

VARIABLE log    \* the generations activated so far, in order

Newest == IF log = << >> THEN NoGeneration ELSE log[Len(log)]
Pointer == [generation |-> Newest, epoch |-> Len(log)]

Publish == \E vs \in SUBSET Version :
              log' = Append(log, [versions |-> vs, base |-> Pointer])
Restore == \E i \in DOMAIN log : log' = Append(log, log[i])

HistorySpec == log = << >> /\ [][Publish \/ Restore]_log
=============================================================================
