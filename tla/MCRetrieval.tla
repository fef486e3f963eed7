---------------------------- MODULE MCRetrieval ----------------------------
(* The second version drops one chunk, keeps one and adds one.             *)
EXTENDS Retrieval

CONSTANTS v1, v2, kept, old, new

MCVersion == {v1, v2}
MCChunk == {kept, old, new}
MCCorpus == [v \in {v1, v2} |-> IF v = v1 THEN {kept, old} ELSE {kept, new}]
=============================================================================
