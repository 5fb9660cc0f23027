-------------------------- MODULE SignalArbitration --------------------------
(***************************************************************************)
(* The deterministic arbitration of the signals of one company             *)
(* (services/signal_arbitration).  A signal is a record of what the rules  *)
(* tell apart: its status and validation, its stance, its score in         *)
(* hundredths, the day it takes effect, the links that support it, the     *)
(* grade of the evidence of its hypothesis and its uncertainty.  A set of  *)
(* signals goes in; the calibrations, the conflicts and the decision come  *)
(* out.  Identifiers are natural numbers, in the order of the strings.     *)
(***************************************************************************)
EXTENDS Integers, FiniteSets, Sequences, SequencesExt

CONSTANT None   \* an absent cutoff, grade, uncertainty or primary signal

SignalStatus == {"candidate", "approved", "rejected", "expired"}
Validation == {"validated", "partially_validated", "pending_validation",
               "unvalidated", "invalidated"}
Stance == {"positive", "negative", "mixed", "monitor"}
Grade == {"strong", "moderate", "weak", "insufficient"}

(* Positions of a value in the orders that rank signals: smaller is better *)
ValidationRank == [v \in Validation |->
    CASE v = "validated" -> 0 [] v = "partially_validated" -> 1
      [] v = "pending_validation" -> 2 [] v = "unvalidated" -> 3
      [] OTHER -> 4]
StatusRank == [s \in SignalStatus |->
    CASE s = "approved" -> 0 [] s = "candidate" -> 1
      [] s = "rejected" -> 2 [] OTHER -> 3]
GradeRank == [g \in Grade \cup {None} |->
    CASE g = "strong" -> 0 [] g = "moderate" -> 1 [] g = "weak" -> 2
      [] g = "insufficient" -> 3 [] OTHER -> 4]
FreshnessRank == [fresh |-> 0, aging |-> 1, stale |-> 2, unknown |-> 3]

Abs(n) == IF n < 0 THEN -n ELSE n
Least(a, b) == IF a < b THEN a ELSE b

-----------------------------------------------------------------------------
(* Calibration.                                                            *)

(* The first rule that takes a signal out before ranking, or None.         *)
ExclusionReason(s, asOf) ==
    IF s.status \in {"rejected", "expired"} THEN s.status
    ELSE IF s.validation = "invalidated" THEN "invalidated"
    ELSE IF asOf # None /\ s.effective > asOf THEN "future_effective_at_as_of_time"
    ELSE None

Candidates(signals, asOf) == {s \in signals : ExclusionReason(s, asOf) = None}

FreshnessState(s, asOf) ==
    IF asOf = None \/ asOf < s.effective THEN "unknown"
    ELSE IF asOf - s.effective <= 1 THEN "fresh"
    ELSE IF asOf - s.effective <= 5 THEN "aging" ELSE "stale"

(* The score is clamped to the unit interval before it counts as strength. *)
AbsoluteStrength(s) == Least(Abs(s.score), 100)
UncertaintyScore(s) == IF s.uncertainty = None THEN 100 ELSE s.uncertainty

Calibration(s, asOf) ==
    [signal |-> s.id, strength |-> AbsoluteStrength(s),
     uncertainty |-> UncertaintyScore(s),
     freshness |-> FreshnessState(s, asOf), lineageComplete |-> s.lineage]

-----------------------------------------------------------------------------
(* Conflicts.                                                              *)

StancesOppose(s, t) == {s.stance, t.stance} = {"positive", "negative"}
WellSupported(s) == s.grade \in {"strong", "moderate"}

ScoreSupportMismatch(s) ==
    /\ AbsoluteStrength(s) >= 50
    /\ s.grade \in {"weak", "insufficient"}

FreshnessMismatch(s, t, asOf) ==
    LET fs == FreshnessState(s, asOf)  ft == FreshnessState(t, asOf)
    IN  /\ asOf # None
        /\ fs # ft /\ "unknown" \notin {fs, ft}
        /\ s.family = t.family \/ StancesOppose(s, t)

(* What the rules say of one pair of candidates.                           *)
PairConflicts(s, t, asOf) ==
    {k \in {"directional_disagreement", "freshness_mismatch",
            "duplicate_support_overlap", "maturity_mismatch"} :
        CASE k = "directional_disagreement" -> StancesOppose(s, t)
          [] k = "freshness_mismatch" -> FreshnessMismatch(s, t, asOf)
          [] k = "duplicate_support_overlap" -> s.support \cap t.support # {}
          [] OTHER -> s.status # t.status \/ s.validation # t.validation}

Conflict(kind, ids, blocking) == [kind |-> kind, signals |-> ids, blocking |-> blocking]

SignalConflicts(signals, asOf) ==
    LET C == Candidates(signals, asOf)
    IN  {Conflict("score_support_mismatch", {s.id}, FALSE) :
            s \in {c \in C : ScoreSupportMismatch(c)}}
        \cup UNION {{Conflict(k, {p[1].id, p[2].id},
                              /\ k = "directional_disagreement"
                              /\ WellSupported(p[1]) /\ WellSupported(p[2])) :
                        k \in PairConflicts(p[1], p[2], asOf)} :
                    p \in {q \in C \X C : q[1].id < q[2].id}}

-----------------------------------------------------------------------------
(* The decision.                                                           *)

(* Lexicographic order on sequences of integers of the same length.        *)
LexLess(a, b) ==
    \E i \in 1..Len(a) : a[i] < b[i] /\ \A j \in 1..(i - 1) : a[j] = b[j]

SortKey(s, asOf) ==
    <<ValidationRank[s.validation], StatusRank[s.status], GradeRank[s.grade],
      UncertaintyScore(s), FreshnessRank[FreshnessState(s, asOf)],
      -AbsoluteStrength(s), -s.effective, s.id>>

RankedCandidates(signals, asOf) ==
    SetToSortSeq(Candidates(signals, asOf),
                 LAMBDA s, t : LexLess(SortKey(s, asOf), SortKey(t, asOf)))

(* A candidate that repeats the view and the support of one ranked higher. *)
SuppressedDuplicates(ranked) ==
    {ranked[i].id : i \in {k \in 1..Len(ranked) :
        /\ ranked[k].support # {}
        /\ \E j \in 1..(k - 1) : /\ ranked[j].stance = ranked[k].stance
                                 /\ ranked[j].support = ranked[k].support}}

(* The top of the ranking, unless a well supported candidate opposes it.   *)
SelectedPrimary(prioritized, conflicts) ==
    IF prioritized = <<>> THEN None
    ELSE IF \E c \in conflicts : /\ c.kind = "directional_disagreement"
                                 /\ c.blocking /\ prioritized[1].id \in c.signals
         THEN None ELSE prioritized[1].id

(* Why a ranked candidate is not the primary signal.                       *)
WhyNotSelected(s, primary, suppressed, prioritized, conflicts) ==
    IF s.id = primary THEN None
    ELSE IF s.id \in suppressed THEN "duplicate_support"
    ELSE IF primary = None /\ prioritized # <<>> /\ (\E c \in conflicts : c.blocking)
         THEN "blocking_disagreement" ELSE "lower_rank"

ArbitrationDecision(signals, asOf) ==
    LET ranked == RankedCandidates(signals, asOf)
        conflicts == SignalConflicts(signals, asOf)
        suppressed == SuppressedDuplicates(ranked)
        prioritized == SelectSeq(ranked, LAMBDA s : s.id \notin suppressed)
        primary == SelectedPrimary(prioritized, conflicts)
    IN  [candidates |-> [i \in 1..Len(ranked) |-> ranked[i].id],
         excluded |-> {<<s.id, ExclusionReason(s, asOf)>> :
                        s \in signals \ Candidates(signals, asOf)},
         prioritized |-> [i \in 1..Len(prioritized) |-> prioritized[i].id],
         suppressed |-> suppressed,
         primary |-> primary,
         explanations |-> [i \in 1..Len(ranked) |->
             WhyNotSelected(ranked[i], primary, suppressed, prioritized, conflicts)]]

(* The workflow asks for attention unless a primary was chosen in peace.   *)
ArbitrationStatus(decision, conflicts) ==
    IF decision.primary = None \/ conflicts # {} \/ decision.candidates = <<>>
    THEN "attention_required" ELSE "succeeded"

-----------------------------------------------------------------------------
(* What a later workflow sees of the stored bundles.                       *)

(* load_latest_signal_bundle: the latest of those visible at the cutoff.   *)
VisibleBundles(bundles, asOf) ==
    {b \in bundles : /\ asOf = None \/ b.created <= asOf
                     /\ b.asOf = None \/ asOf = None \/ b.asOf <= asOf}
BundleTime(b) == IF b.asOf = None THEN b.created ELSE b.asOf
LatestBundle(bundles, asOf) ==
    LET V == VisibleBundles(bundles, asOf)
    IN  IF V = {} THEN None
        ELSE CHOOSE b \in V : \A c \in V \ {b} :
            LexLess(<<BundleTime(c), c.created, c.id>>, <<BundleTime(b), b.created, b.id>>)

(* _apply_signal_cutoff of the arbitration: what existed by then, even if  *)
(* it only takes effect later.                                             *)
ArbitrationInputs(signals, asOf) == {s \in signals : asOf = None \/ s.created <= asOf}
=============================================================================
