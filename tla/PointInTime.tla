----------------------------- MODULE PointInTime -----------------------------
(***************************************************************************)
(* Which information a signal stands for and since when it may be used:    *)
(* the market calendar and the availability rules (services/timing), and   *)
(* the artifacts that carry them from a published document over research   *)
(* (services/research_orchestrator) and features (services/feature_store)  *)
(* to signals (services/signal_generation), for one company.               *)
(*                                                                         *)
(* A day has seven instants: the two ends of the night, the pre-market,    *)
(* the open of the regular session, an instant within it, its close and    *)
(* the after-hours.  Instants are further apart than the second that the   *)
(* code adds to a publication time before it looks for the next open.      *)
(***************************************************************************)
EXTENDS Integers, FiniteSets, FiniteSetsExt

CONSTANTS
    NumDays, Weekend,  \* the days, counted from 0, and those without a session
    Document,
    Published,     \* when each document was published, None if undated
    Clock,         \* the instants at which the pipelines run
    Cutoff,        \* the as_of_time values they are given, None for no cutoff
    None

Day == 0..(NumDays - 1)
Time == 0..(7 * NumDays - 1)
DayOf(t) == t \div 7
Instant(t) == t % 7
OpenOf(d) == 7 * d + 2
CloseOf(d) == 7 * d + 4
SessionKind == {"closed", "pre_market", "regular", "after_hours"}

ASSUME CalendarAssumption ==
    /\ NumDays \in Nat \ {0} /\ Weekend \subseteq Day
    /\ None \notin Int
    /\ Published \in [Document -> Time \cup {None}]
    /\ Clock \subseteq Time /\ Clock # {} /\ Cutoff \subseteq Time \cup {None}
    \* the days end with a session that every document is published before
    /\ NumDays - 1 \notin Weekend
    /\ \A d \in Document : Published[d] # None => Published[d] < OpenOf(NumDays - 1)

-----------------------------------------------------------------------------
(* The calendar and the availability rules.                                *)

(* classify_us_equities_session                                            *)
Session(t) ==
    IF DayOf(t) \in Weekend \/ Instant(t) \in {0, 6} THEN "closed"
    ELSE IF Instant(t) = 1 THEN "pre_market"
    ELSE IF Instant(t) = 5 THEN "after_hours"
    ELSE "regular"

(* next_us_equities_open, one second after t.                              *)
NextOpenAfter(t) == Min({OpenOf(d) : d \in {e \in Day \ Weekend : OpenOf(e) > t}})

\* Mutant: a document published during a session counts for that session.
AvailableInItsSession(t) ==
    IF Session(t) \in {"pre_market", "regular"} THEN OpenOf(DayOf(t)) ELSE NextOpenAfter(t)

(* resolve_publication_window: public_document_daily_equity                *)
DocumentAvailable(t) ==
    IF Session(t) = "pre_market" THEN OpenOf(DayOf(t)) ELSE NextOpenAfter(t)

\* Mutant: an artifact without dated inputs is left without a window.
DerivedWithoutFallback(inputs, fallback) ==
    IF inputs # {} /\ Max(inputs) <= fallback
    THEN [from |-> Max(inputs), compatible |-> FALSE]
    ELSE [from |-> IF inputs = {} THEN None ELSE fallback, compatible |-> TRUE]

(* _derive_availability: as late as the latest input, unless the artifact  *)
(* itself is older than that or has no dated input: then, with an anomaly  *)
(* that blocks nothing, as early as the artifact.                          *)
Derived(inputs, fallback) ==
    IF inputs # {} /\ Max(inputs) <= fallback
    THEN [from |-> Max(inputs), compatible |-> FALSE]
    ELSE [from |-> fallback, compatible |-> TRUE]

-----------------------------------------------------------------------------
(* The artifacts.                                                          *)

(* content: the documents whose extractions the numbers were computed from. *)
(* compatible, replayed: was a window the fallback, with a TimingAnomaly on *)
(* record, and was there a cutoff, anywhere on the way?  cutoff is the one  *)
(* that the signal itself was generated under.                              *)
FeatureSet == [available : Time, created : Time, content : SUBSET Document,
               compatible : BOOLEAN, replayed : BOOLEAN]
Signal == [features : SUBSET Day, content : SUBSET Document, cutoff : Cutoff,
           compatible : BOOLEAN, replayed : BOOLEAN]

ASSUME FilesAreNotNone == None \notin FeatureSet \cup Signal

VARIABLES
    now,        \* the clock of the pipelines
    parsed,     \* when each document was ingested and parsed, or None
    brief,      \* when the research of the company was written last, or None
    features,   \* features/, by the day of the research they came from
    signals     \* signals/, by effective_at

pipelineVars == <<now, parsed, brief, features, signals>>

TypeOK ==
    /\ now \in Time
    /\ parsed \in [Document -> Time \cup {None}]
    /\ brief \in Time \cup {None}
    /\ features \in [Day -> FeatureSet \cup {None}]
    /\ signals \in [Time -> Signal \cup {None}]

Init ==
    /\ now = Min(Clock)
    /\ parsed = [d \in Document |-> None]
    /\ brief = None
    /\ features = [d \in Day |-> None]
    /\ signals = [t \in Time |-> None]

Tick ==
    /\ \E t \in Clock : t > now /\ (\A u \in Clock : u > now => t <= u) /\ now' = t
    /\ UNCHANGED <<parsed, brief, features, signals>>

(* A document is ingested and parsed once, after it was published.         *)
Ingest(d) ==
    /\ parsed[d] = None
    /\ Published[d] # None => Published[d] <= now
    /\ parsed' = [parsed EXCEPT ![d] = now]
    /\ UNCHANGED <<now, brief, features, signals>>

(* run_research_workflow: the research of a company keeps its id as long   *)
(* as its thesis does, so that every run replaces the last one.            *)
Research ==
    /\ \E d \in Document : parsed[d] # None
    /\ brief' = now
    /\ UNCHANGED <<now, parsed, features, signals>>

Known(t, cutoff) == t # None /\ (cutoff # None => t <= cutoff)

(* What a feature mapping run reads: extractions by their creation, the    *)
(* windows of documents by their start, and not by their creation.         *)
Content(cutoff) == {d \in Document : Known(parsed[d], cutoff)}
Windows(cutoff) ==
    {w \in {DocumentAvailable(Published[d]) :
              d \in {e \in Document : parsed[e] # None /\ Published[e] # None}} :
       Known(w, cutoff)}

(* run_feature_mapping_workflow: the features of one day of research are    *)
(* written over those of an earlier run.                                   *)
MapFeatures(cutoff) ==
    LET content == Content(cutoff)
        window == Derived(Windows(cutoff), Max({brief} \cup {parsed[d] : d \in content}))
    IN  /\ Known(brief, cutoff)
        /\ features' = [features EXCEPT ![DayOf(brief)] =
             [available |-> window.from, created |-> now, content |-> content,
              compatible |-> window.compatible, replayed |-> cutoff # None]]
        /\ UNCHANGED <<now, parsed, brief, signals>>

\* Mutant: the availability of a feature is compared, and not its creation.
UsableByAvailability(cutoff) ==
    {d \in Day : features[d] # None /\ Known(features[d].available, cutoff)}

(* _apply_feature_cutoff                                                   *)
Usable(cutoff) ==
    {d \in Day : /\ features[d] # None
                 /\ Known(features[d].created, cutoff)
                 /\ Known(features[d].available, cutoff)}

(* run_signal_generation_workflow reads the features of every day.  Each   *)
(* of its inputs, known by name, comes from one of these days, which one   *)
(* the order of their file names decides.                                  *)
GenerateSignal(cutoff) ==
    LET usable == Usable(cutoff)
        effective == Derived({features[d].available : d \in usable},
                             Max({features[d].available : d \in usable})).from
    IN  /\ usable # {}
        /\ \E from \in SUBSET usable \ {{}} :
             signals' = [signals EXCEPT ![effective] =
               [features |-> usable,
                content |-> UNION {features[d].content : d \in from},
                cutoff |-> cutoff,
                compatible |-> \E d \in usable : features[d].compatible,
                replayed |-> cutoff # None \/ \E d \in usable : features[d].replayed]]
        /\ UNCHANGED <<now, parsed, brief, features>>

PipelineStep ==
    \/ Tick \/ Research
    \/ \E d \in Document : Ingest(d)
    \/ \E cutoff \in Cutoff : MapFeatures(cutoff) \/ GenerateSignal(cutoff)

PipelineSpec == Init /\ [][PipelineStep]_pipelineVars

-----------------------------------------------------------------------------
(* Properties.                                                             *)

(* A signal that was generated as of some time is one that could have been *)
(* generated at that time: it is effective by then, and every document it  *)
(* draws on had been parsed by then, whichever runs, with or without a     *)
(* cutoff of their own, computed the features in between.                  *)
CutoffsAreHonoured ==
    \A t \in Time : signals[t] # None /\ signals[t].cutoff # None =>
        /\ t <= signals[t].cutoff
        /\ \A d \in signals[t].content : parsed[d] <= signals[t].cutoff
=============================================================================
