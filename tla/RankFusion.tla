----------------------------- MODULE RankFusion -----------------------------
(***************************************************************************)
(* Reciprocal rank fusion: the chat path's hybrid_retrieve, with its       *)
(* rounding and relevance cut, and fuse_rankings of the document path      *)
(* (rag/retriever.py, rag/bm25.py, rag/hybrid_retriever.py).  A ranking is *)
(* the records a search found, best first, of which the first "hits" score *)
(* above zero.  A record may occur twice: an edited document leaves its    *)
(* old chunk under the same source and chunk number.  Scores are counted   *)
(* in units of 10^-9.                                                      *)
(***************************************************************************)
EXTENDS Naturals, Sequences, SequencesExt, FiniteSetsExt, Folds, TLC

CONSTANTS Key,        \* numbers that order as str(record_identity) does
          Questions,  \* the pairs [dense, sparse] of rankings
          TopK

VARIABLES dense, sparse,
          hybrid,   \* what hybrid_retrieve returned
          fused,    \* what fuse_rankings returned
          done

vars == <<dense, sparse, hybrid, fused, done>>

RrfK == 60
Billion == 1000000000

Hits(r) == SubSeq(r.keys, 1, r.hits)

\* The first occurrence of every element.
First(s) == SelectSeq([i \in DOMAIN s |-> i], LAMBDA i : \A j \in 1..(i - 1) : s[j] # s[i])
Unique(s) == LET f == First(s) IN [i \in DOMAIN f |-> s[f[i]]]

\* retrieve: matches above zero, each record once.
Retrieve(r) == Unique(Hits(r))

\* What a ranking adds to a record's score: every occurrence counts.
Gain(s, k) == MapThenSumSet(LAMBDA i : Billion \div (RrfK + i), {i \in DOMAIN s : s[i] = k})

\* round(score, 5).
Round5(n) == (n + 5000) \div 10000

\* Mutated: the cut is at half of the best score.
RelevantToHalf(s, score) ==
    IF s = <<>> THEN s ELSE SelectSeq(s, LAMBDA k : 10 * score[k] >= 5 * score[Head(s)])

\* Records within 80 % of the best one.
Relevant(s, score) ==
    IF s = <<>> THEN s ELSE SelectSeq(s, LAMBDA k : 10 * score[k] >= 8 * score[Head(s)])

\* Sorted by score, best first; equal scores keep their order.
ByScore(s, score) ==
    LET at == SortSeq([i \in DOMAIN s |-> i],
                      LAMBDA i, j : \/ score[s[i]] > score[s[j]]
                                    \/ score[s[i]] = score[s[j]] /\ i < j)
    IN  [i \in DOMAIN s |-> s[at[i]]]

\* Both rankings are added up, in the order the records were first met.
HybridRetrieve(d, s) ==
    LET keys  == Unique(d \o s)
        score == [k \in Key |-> Round5(Gain(d, k) + Gain(s, k))]
        kept  == Relevant(ByScore(keys, score), score)
    IN  SubSeq(kept, 1, Min({TopK, Len(kept)}))

\* Only a record's first place in a ranking counts.
FuseGain(s, k) ==
    IF k \in ToSet(s) THEN Billion \div (RrfK + Min({i \in DOMAIN s : s[i] = k})) ELSE 0

\* Ties are broken by the record's identity.
FuseRankings(d, s) ==
    LET score == [k \in Key |-> FuseGain(d, k) + FuseGain(s, k)]
    IN  SortSeq(Unique(d \o s), LAMBDA a, b : score[a] > score[b] \/ (score[a] = score[b] /\ a < b))

Init ==
    /\ \E q \in Questions : dense = q.dense /\ sparse = q.sparse
    /\ hybrid = <<>> /\ fused = <<>> /\ done = FALSE

\* hybrid_retrieve and fuse_rankings on the same two searches.
Answer ==
    /\ ~done /\ done' = TRUE
    /\ hybrid' = HybridRetrieve(Retrieve(dense), Hits(sparse))
    /\ fused' = FuseRankings(Hits(dense), Hits(sparse))
    /\ UNCHANGED <<dense, sparse>>

FusionSpec == Init /\ [][Answer]_vars

-----------------------------------------------------------------------------
Dense == ToSet(Hits(dense))
Sparse == ToSet(Hits(sparse))
Both == Dense \cap Sparse
NoRepeats == Len(Unique(Hits(dense))) = Len(Hits(dense)) /\ Len(Unique(Hits(sparse))) = Len(Hits(sparse))

\* hybrid_retrieve returns at most top_k records, each once and each found by a
\* search; fuse_rankings returns every record found, each once.
TypeOK ==
    done => /\ Len(hybrid) <= TopK /\ IsInjective(hybrid) /\ ToSet(hybrid) \subseteq Dense \cup Sparse
            /\ IsInjective(fused) /\ ToSet(fused) = Dense \cup Sparse

\* As soon as one record is found by both searches, hybrid_retrieve returns exactly
\* the records found by both: the 80 % cut removes all others and none of these,
\* whatever their ranks.
AgreementDecides ==
    (done /\ NoRepeats /\ Both # {}) => ToSet(hybrid) = Both

\* When the searches agree on nothing the cut removes nothing before top_k: the
\* best of each search is returned.
DisagreementKeepsBoth ==
    (done /\ NoRepeats /\ Both = {}) =>
       /\ Len(hybrid) = Min({TopK, Cardinality(Dense \cup Sparse)})
       /\ Dense # {} => Head(Hits(dense)) \in ToSet(hybrid)
       /\ Sparse # {} => Head(Hits(sparse)) \in ToSet(hybrid)

\* fuse_rankings puts no record found by one search before one found by both, even
\* when a ranking lists a record twice.
AgreementFirst ==
    done => \A i, j \in DOMAIN fused : (i < j /\ fused[j] \in Both) => fused[i] \in Both

\* hybrid_retrieve may reverse two records against their exact scores (ranks 4 and
\* 2 against 3 and 3), but only where these differ by less than its five digits.
RoundingOnlyTies ==
    LET exact(k) == Gain(Retrieve(dense), k) + Gain(Hits(sparse), k)
    IN  done => \A i, j \in DOMAIN hybrid : i < j => exact(hybrid[i]) + 10000 > exact(hybrid[j])
=============================================================================
