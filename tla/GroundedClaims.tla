--------------------------- MODULE GroundedClaims ---------------------------
(***************************************************************************)
(* The answers of the extractive candidates P4 and P5: a list of claims,   *)
(* each a handle, an excerpt of the evidence and a text out of the         *)
(* excerpt.  What agent/p4_grounding.py accepts of it is reported in a     *)
(* diagnosis that three programs check again: the trace store of either    *)
(* candidate before it writes and after it reads, and the scorer.          *)
(*                                                                         *)
(* A handle, an excerpt or a text is what the checks find out about it; a  *)
(* "marked" text is of the excerpt and has in it, as the document had, a   *)
(* handle that is not of the evidence.                                     *)
(***************************************************************************)
EXTENDS Sequences, SequencesExt

Claim == {c \in [handle : {"supplied", "unknown"}, excerpt : {"blank", "source", "foreign"},
                 text : {"blank", "within", "marked", "beyond"}] :
              c.excerpt = "blank" => c.text \in {"blank", "beyond"}}

\* Two claims are enough for one to be accepted and the other not.
Response ==
    [form : {"blank", "not_json", "bad_schema"}, claims : {<<>>}]
    \cup [form : {"claims"}, claims : BoundedSeq(Claim, 2)]

\* The excerpt is compared with the source only if there is a source.
Checked(c) ==
    [handle  |-> c.handle = "supplied",
     excerpt |-> IF c.handle # "supplied" THEN "none"
                 ELSE IF c.excerpt = "foreign" THEN "no" ELSE "yes"]

\* The order of the reasons, as all three programs have it.
ReasonFor(c, check) ==
    IF ~check.handle              THEN "invalid_handle"
    ELSE IF c.excerpt = "blank"   THEN "empty_excerpt"
    ELSE IF check.excerpt # "yes" THEN "excerpt_mismatch"
    ELSE IF c.text = "blank"      THEN "empty_claim"
    ELSE IF c.text = "beyond"     THEN "claim_not_substring"
    ELSE "none"

\* validate_p4_claims
ValidatedClaim(c) == ReasonFor(c, Checked(c))

\* The claims that are accepted, by their places; they are rendered in this order.
Taken(claims) == {i \in DOMAIN claims : ValidatedClaim(claims[i]) = "none"}

Parsed(r) == r.form = "claims"

\* What becomes of a response: the citation finalizer has the last word.
Outcome(r) ==
    IF ~Parsed(r) THEN "malformed"
    ELSE IF Taken(r.claims) = {} THEN "all_rejected"
    ELSE IF \E i \in Taken(r.claims) : r.claims[i].text = "marked" THEN "refused"
    ELSE "validated"

\* finalize_p4_response: the reason of the fallback, if it comes to that.
FallbackReason(r) ==
    CASE ~Parsed(r)                  -> r.form
      [] Outcome(r) = "validated"    -> "none"
      [] Outcome(r) = "all_rejected" -> "all_claims_rejected"
      [] Outcome(r) = "refused"      -> "citation_finalizer_rejected_claims"

Finalized(r) ==
    [parsed |-> IF Parsed(r) THEN "yes" ELSE "no",
     failure |-> IF Parsed(r) THEN "none" ELSE r.form,
     claims |-> r.claims,
     checks |-> [i \in DOMAIN r.claims |-> Checked(r.claims[i])],
     reasons |-> [i \in DOMAIN r.claims |-> ValidatedClaim(r.claims[i])],
     rendered |-> Taken(r.claims), fallback |-> FallbackReason(r)]

NotApplicable ==
    [parsed |-> "none", failure |-> "none", claims |-> <<>>,
     checks |-> <<>>, reasons |-> <<>>, rendered |-> {}, fallback |-> "none"]

-----------------------------------------------------------------------------
\* The mode of the turn that the diagnosis is about.
Modes == [active : BOOLEAN, entered : BOOLEAN]

\* P4: the diagnosis says why the mode ended as it did.
ModeReason(mode, r) ==
    IF mode.entered                     THEN "terminal_tool_answer_bypassed_validator"
    ELSE IF ~mode.active                THEN "no_selected_knowledge_evidence"
    ELSE IF ~Parsed(r)                  THEN "malformed_or_invalid_structured_knowledge_output"
    ELSE IF Outcome(r) = "all_rejected" THEN "all_claims_rejected_safe_fallback"
    ELSE "terminal_knowledge_answer_validated"

P4Report(mode, r) ==
    [mode |-> mode, why |-> ModeReason(mode, r),
     response |-> IF mode.active THEN Finalized(r) ELSE NotApplicable]

\* P5: parsing and the schema are told apart instead.
P5Report(mode, r) ==
    LET f == IF mode.active THEN Finalized(r) ELSE NotApplicable
    IN  [mode |-> mode,
         json |-> IF f.failure = "bad_schema" THEN "yes" ELSE f.parsed,
         jsonFailure |-> IF f.failure = "bad_schema" THEN "none" ELSE f.failure,
         schema |-> IF f.failure = "bad_schema" THEN "no"
                    ELSE IF f.parsed = "yes" THEN "yes" ELSE "none",
         response |-> f]

-----------------------------------------------------------------------------
\* The claims of a diagnosis agree with its checks, reasons and rendering.
ClaimsConsistent(f) ==
    /\ DOMAIN f.checks = DOMAIN f.claims /\ DOMAIN f.reasons = DOMAIN f.claims
    /\ \A i \in DOMAIN f.claims : f.reasons[i] = ReasonFor(f.claims[i], f.checks[i])
    /\ f.rendered = {i \in DOMAIN f.claims : f.reasons[i] = "none"}

Silent(f) == f.claims = <<>> /\ f.rendered = {}

\* _sanitize_diagnostics of the P4 store.
P4Accepts(d) ==
    LET f == d.response
    IN  /\ ClaimsConsistent(f)
        /\ d.mode.active =>
               /\ ~d.mode.entered /\ f.parsed # "none"
               /\ (f.parsed = "yes") = (f.failure = "none")
               /\ CASE f.parsed = "no" ->
                           /\ d.why = "malformed_or_invalid_structured_knowledge_output"
                           /\ Silent(f) /\ f.fallback = f.failure
                    [] f.parsed = "yes" /\ f.rendered = {} ->
                           /\ d.why = "all_claims_rejected_safe_fallback"
                           /\ f.fallback = "all_claims_rejected"
                    [] OTHER -> d.why = "terminal_knowledge_answer_validated"
        /\ ~d.mode.active =>
               /\ f = NotApplicable
               /\ d.why = IF d.mode.entered THEN "terminal_tool_answer_bypassed_validator"
                          ELSE "no_selected_knowledge_evidence"

\* _validate_p5_diagnostics of the P5 store.
P5Accepts(d) ==
    LET f == d.response
    IN  /\ ~(d.mode.active /\ d.mode.entered)
        /\ ClaimsConsistent(f)
        /\ ~d.mode.active =>
               f = NotApplicable /\ d.json = "none" /\ d.jsonFailure = "none" /\ d.schema = "none"
        /\ d.mode.active =>
               /\ d.json # "none"
               /\ d.json = "yes" =>
                      /\ d.jsonFailure = "none" /\ d.schema # "none"
                      /\ d.schema = "no" => Silent(f) /\ f.fallback = "bad_schema"
                      /\ d.schema = "yes" /\ f.rendered = {} =>
                             f.fallback \in {"all_claims_rejected",
                                             "citation_finalizer_rejected_claims"}
               /\ d.json = "no" =>
                      /\ d.jsonFailure \in {"not_json", "blank"} /\ d.schema = "none"
                      /\ Silent(f) /\ f.fallback = d.jsonFailure

\* _p5_diagnostics_for_shared_scorer: P5 in the words of P4.
Shared(d) ==
    [mode |-> d.mode,
     why |-> IF d.mode.entered        THEN "terminal_tool_answer_bypassed_validator"
             ELSE IF ~d.mode.active   THEN "no_selected_knowledge_evidence"
             ELSE IF d.schema # "yes" THEN "malformed_or_invalid_structured_knowledge_output"
             ELSE IF \A i \in DOMAIN d.response.reasons : d.response.reasons[i] # "none"
                  THEN "all_claims_rejected_safe_fallback"
             ELSE "terminal_knowledge_answer_validated",
     response |-> [d.response EXCEPT
         !.parsed = IF d.schema = "no" THEN "no" ELSE d.json,
         !.failure = IF d.schema = "no" THEN "bad_schema" ELSE d.jsonFailure]]

\* _accumulate_p4_trace_counts, before it counts.
ScorerAccepts(d) ==
    LET f == d.response
    IN  /\ ~(d.mode.active /\ d.mode.entered)
        /\ d.why = IF d.mode.entered         THEN "terminal_tool_answer_bypassed_validator"
                   ELSE IF ~d.mode.active    THEN "no_selected_knowledge_evidence"
                   ELSE IF f.parsed = "no"   THEN "malformed_or_invalid_structured_knowledge_output"
                   ELSE IF f.parsed = "yes" /\ \A i \in DOMAIN f.reasons : f.reasons[i] # "none"
                        THEN "all_claims_rejected_safe_fallback"
                   ELSE "terminal_knowledge_answer_validated"
        /\ ~d.mode.active => f = NotApplicable
        /\ d.mode.active =>
               /\ f.parsed # "none"
               /\ DOMAIN f.checks = DOMAIN f.claims /\ DOMAIN f.reasons = DOMAIN f.claims

-----------------------------------------------------------------------------
\* What a turn of the agent says of its answer, and the responses that it may stand for.
Outcomes == {"malformed", "all_rejected", "validated", "refused"}
Diagnoses == {[mode |-> mode, outcome |-> outcome] : mode \in Modes, outcome \in Outcomes}

Behind(outcome) == {r \in Response : Outcome(r) = outcome}

\* The diagnoses that the store of a candidate takes, and those that the scorer counts,
\* whatever the claims in them.
P4Storable == {d \in Diagnoses : \A r \in Behind(d.outcome) : P4Accepts(P4Report(d.mode, r))}
P5Storable == {d \in Diagnoses : \A r \in Behind(d.outcome) : P5Accepts(P5Report(d.mode, r))}
P4Scorable == {d \in Diagnoses : \A r \in Behind(d.outcome) : ScorerAccepts(P4Report(d.mode, r))}
P5Scorable ==
    {d \in Diagnoses : \A r \in Behind(d.outcome) : ScorerAccepts(Shared(P5Report(d.mode, r)))}

\* Whatever a model answers, the two candidates are told apart by how they asked for
\* it and by nothing else: P5's diagnosis, put into the words of P4, is the one P4
\* would have written; an answer is let out just when the diagnosis has no fallback;
\* and every claim of it has a supplied handle and an excerpt of that source.
CandidatesAgree ==
    \A r \in Response :
        /\ Shared(P5Report([active |-> TRUE, entered |-> FALSE], r))
               = P4Report([active |-> TRUE, entered |-> FALSE], r)
        /\ (Outcome(r) = "validated") = (Finalized(r).fallback = "none")
        /\ \A i \in Finalized(r).rendered :
               /\ r.claims[i].handle = "supplied" /\ r.claims[i].excerpt = "source"
               /\ r.claims[i].text # "beyond"
=============================================================================
