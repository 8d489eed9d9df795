----------------------------- MODULE RankFusion -----------------------------
(***************************************************************************)
(* Reciprocal rank fusion of two ranked lists and the gate that admits the *)
(* fused candidates as evidence.  Scores are kept as fractions with a      *)
(* common denominator; the 210 sums that two ranks up to 20 can give are   *)
(* pairwise different both as fractions and as floats, and the threshold   *)
(* is the float of 1/61 + 1/64, so the comparisons agree with the code's.  *)
(*                                                                         *)
(* Source: src/verbaops/retrieval/rrf.py, service.py and profile.py        *)
(* (PRODUCTION_RETRIEVAL_PROFILE, which uses no reranker).                 *)
(***************************************************************************)
EXTENDS Naturals, Sequences, SequencesExt

K == 60

\* Nothing for a candidate that the list does not hold.
RankIn(list, c) == IF Contains(list, c) THEN CHOOSE i \in 1 .. Len(list) : list[i] = c ELSE 0

\* A fraction as <<numerator, denominator>>.
Contribution(rank) == IF rank = 0 THEN <<0, 1>> ELSE <<1, K + rank>>
Plus(p, q) == <<p[1] * q[2] + q[1] * p[2], p[2] * q[2]>>
Exceeds(p, q) == p[1] * q[2] > q[1] * p[2]

\* Faulty variant: the later list replaces what the earlier one contributed.
Score_Replaces(dense, lexical, c) ==
    IF Contains(lexical, c) THEN Contribution(RankIn(lexical, c))
    ELSE Contribution(RankIn(dense, c))

Score(dense, lexical, c) ==
    Plus(Contribution(RankIn(dense, c)), Contribution(RankIn(lexical, c)))

\* Best score first, the smaller id among equals.
Precedes(dense, lexical, c, d) ==
    \/ Exceeds(Score(dense, lexical, c), Score(dense, lexical, d))
    \/ c < d /\ ~Exceeds(Score(dense, lexical, d), Score(dense, lexical, c))

Candidates(dense, lexical) == ToSet(dense) \cup ToSet(lexical)

Ordered(dense, lexical) ==
    CHOOSE order \in SetToSeqs(Candidates(dense, lexical)) :
        \A i, j \in DOMAIN order :
            i < j => Precedes(dense, lexical, order[i], order[j])

Shortened(list, limit) == SubSeq(list, 1, IF Len(list) < limit THEN Len(list) ELSE limit)

\* reciprocal_rank_fusion
Fuse(dense, lexical, limit) == Shortened(Ordered(dense, lexical), limit)

Threshold == Plus(Contribution(1), Contribution(4))

\* The candidates admitted as evidence, K1 first: all or none of the best.
Select(dense, lexical, fusedLimit, finalLimit) ==
    LET ranked == Fuse(dense, lexical, fusedLimit)
    IN  IF ranked # <<>> /\ ~Exceeds(Threshold, Score(dense, lexical, Head(ranked)))
        THEN Shortened(ranked, finalLimit)
        ELSE <<>>

-----------------------------------------------------------------------------
\* The rank a list without c counts for: behind all that it holds.
Place(list, c) == IF Contains(list, c) THEN RankIn(list, c) ELSE Len(list) + 1

\* Reference for the fusion: a candidate that no list places behind another,
\* and one places before it, comes first.
Dominates(dense, lexical, c, d) ==
    /\ Place(dense, c) <= Place(dense, d)
    /\ Place(lexical, c) <= Place(lexical, d)
    /\ c # d

\* Reference for the gate: both searches agree on the best candidate.
Agreed(dense, lexical, c) ==
    /\ Contains(dense, c) /\ Contains(lexical, c)
    /\ RankIn(dense, c) * RankIn(lexical, c) <= 4
=============================================================================
