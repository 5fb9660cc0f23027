----------------------- MODULE ResearchToBacktestProofs -----------------------
(***************************************************************************)
(* Proofs about PointInTime and ResearchToBacktest, for every calendar,    *)
(* any documents and publication times, any runs of the pipelines with any *)
(* cutoffs, and the backtest that reads their signals.                     *)
(***************************************************************************)
EXTENDS ResearchToBacktest, FiniteSetTheorems, WellFoundedInduction, TLAPS

-----------------------------------------------------------------------------
(* Sets of times.                                                          *)

LEMMA LeastExists ==
    ASSUME NEW S, S \subseteq Nat, S # {}
    PROVE  \E n \in S : \A m \in S : m >= n
<1> DEFINE R == OpToRel(<, Nat)
<1>1. \A m, n \in Nat : m < n => <<m, n>> \in R
  BY DEF OpToRel
<1>2. IsWellFoundedOn(R, Nat)
  BY NatLessThanWellFounded
<1> HIDE DEF R
<1>3. PICK n \in S : \A m \in S : ~(<<m, n>> \in R)
  BY <1>2, WFMin
<1>4. ASSUME NEW m \in S
      PROVE  m >= n
  <2>1. m \in Nat /\ n \in Nat
    OBVIOUS
  <2>2. ~(m < n)
    BY <1>1, <1>3, <2>1
  <2>3. QED
    BY <2>1, <2>2
<1>5. QED
  BY <1>4

LEMMA TimesAreNatural ==
    /\ NumDays \in Nat \ {0} /\ 7 * NumDays \in Nat
    /\ \A t \in Time : t \in Nat /\ t < 7 * NumDays
    /\ \A d \in Day : d \in Nat /\ d < NumDays /\ OpenOf(d) \in Time /\ CloseOf(d) \in Time
    /\ \A t \in Time : DayOf(t) \in Day
    /\ None \notin Time
<1>1. NumDays \in Nat \ {0} /\ None \notin Int
  BY CalendarAssumption
<1>2. QED
  BY <1>1 DEF Time, Day, OpenOf, CloseOf, DayOf

LEMMA MaxTime ==
    ASSUME NEW S, S \subseteq Time, S # {}
    PROVE  Max(S) \in S /\ \A x \in S : x <= Max(S)
<1> DEFINE K == 7 * NumDays
           T == {K - x : x \in S}
<1>1. K \in Nat /\ \A x \in S : x \in Nat /\ x < K
  BY TimesAreNatural
<1> HIDE DEF K
<1>2. T \subseteq Nat /\ T # {}
  BY <1>1
<1>3. PICK n \in T : \A m \in T : m >= n
  <2> HIDE DEF T
  <2>1. QED
    BY <1>2, LeastExists
<1>4. PICK x \in S : n = K - x
  OBVIOUS
<1>5. \A y \in S : x >= y
  BY <1>1, <1>3, <1>4
<1>6. \A y \in S : Max(S) >= y /\ Max(S) \in S
  BY <1>5 DEF Max
<1>7. QED
  BY <1>1, <1>6

LEMMA MinTime ==
    ASSUME NEW S, S \subseteq Time, S # {}
    PROVE  Min(S) \in S /\ \A x \in S : Min(S) <= x
<1>1. S \subseteq Nat
  BY TimesAreNatural
<1>2. QED
  BY <1>1, LeastExists DEF Min

(* A document becomes available at the open of a session after its         *)
(* publication.                                                            *)
LEMMA AvailableAtAnOpen ==
    ASSUME NEW t \in Time, t < OpenOf(NumDays - 1)
    PROVE  \E D \in Day \ Weekend : DocumentAvailable(t) = OpenOf(D) /\ OpenOf(D) > t
<1> DEFINE S == {OpenOf(d) : d \in {e \in Day \ Weekend : OpenOf(e) > t}}
<1>1. CASE Session(t) = "pre_market"
  <2>1. Instant(t) = 1 /\ DayOf(t) \notin Weekend
    BY <1>1 DEF Session
  <2>2. t = 7 * DayOf(t) + Instant(t) /\ DayOf(t) \in Day
    BY TimesAreNatural DEF DayOf, Instant
  <2>3. OpenOf(DayOf(t)) > t
    BY <2>1, <2>2 DEF OpenOf, Day
  <2>4. QED
    BY <1>1, <2>1, <2>2, <2>3 DEF DocumentAvailable
<1>2. CASE Session(t) # "pre_market"
  <2>1. NumDays - 1 \in Day \ Weekend
    BY CalendarAssumption DEF Day
  <2>2. S \subseteq Time /\ S # {}
    BY <2>1, TimesAreNatural
  <2>3. Min(S) \in S
    <3> HIDE DEF S
    <3>1. QED
      BY <2>2, MinTime
  <2>4. DocumentAvailable(t) = Min(S)
    BY <1>2 DEF DocumentAvailable, NextOpenAfter
  <2>5. QED
    BY <2>3, <2>4
<1>3. QED
  BY <1>1, <1>2

LEMMA AvailableTyped ==
    ASSUME NEW d \in Document, Published[d] # None
    PROVE  /\ Published[d] \in Time /\ DocumentAvailable(Published[d]) \in Time
           /\ \E D \in Day \ Weekend : /\ DocumentAvailable(Published[d]) = OpenOf(D)
                                       /\ OpenOf(D) > Published[d]
BY CalendarAssumption, TimesAreNatural, AvailableAtAnOpen

(* A window is as late as its latest dated input, unless it is a fallback. *)
LEMMA DerivedFacts ==
    ASSUME NEW inputs, inputs \subseteq Time, NEW fallback \in Time
    PROVE  LET w == Derived(inputs, fallback)
           IN  /\ w.from \in Time /\ w.compatible \in BOOLEAN
               /\ w.from <= fallback
               /\ ~w.compatible => \A x \in inputs : x <= w.from
<1>1. inputs # {} => Max(inputs) \in inputs /\ \A x \in inputs : x <= Max(inputs)
  BY MaxTime
<1>2. QED
  BY <1>1, TimesAreNatural DEF Derived

-----------------------------------------------------------------------------
(* The inductive invariant of the pipelines.                               *)

(* Nothing was written later than now.                                     *)
ClockInv ==
    /\ \A d \in Document : parsed[d] # None => parsed[d] <= now
    /\ brief # None => brief <= now

(* Unless a fallback or a cutoff was involved, what was computed from a    *)
(* dated document is not available before the document is.                 *)
NotBefore(time, content) ==
    \A d \in content : Published[d] # None => DocumentAvailable(Published[d]) <= time

FeaturesInv ==
    \A D \in Day : features[D] # None =>
        /\ \A d \in features[D].content : parsed[d] # None /\ parsed[d] <= features[D].created
        /\ ~features[D].compatible /\ ~features[D].replayed =>
               NotBefore(features[D].available, features[D].content)

SignalsInv ==
    \A t \in Time : signals[t] # None =>
        /\ signals[t].cutoff # None =>
               /\ t <= signals[t].cutoff
               /\ \A d \in signals[t].content :
                      parsed[d] # None /\ parsed[d] <= signals[t].cutoff
        /\ ~signals[t].compatible /\ ~signals[t].replayed => NotBefore(t, signals[t].content)

PipelineInv == TypeOK /\ ClockInv /\ FeaturesInv /\ SignalsInv

LEMMA InitPipeline == Init => PipelineInv
<1> SUFFICES ASSUME Init PROVE PipelineInv
  OBVIOUS
<1>1. Min(Clock) \in Time
  BY CalendarAssumption, MinTime
<1>2. QED
  BY <1>1, CalendarAssumption DEF Init, PipelineInv, TypeOK, ClockInv, FeaturesInv, SignalsInv

LEMMA IngestKeeps ==
    ASSUME PipelineInv, NEW d \in Document, Ingest(d)
    PROVE  PipelineInv'
<1>1. TypeOK'
  BY DEF PipelineInv, TypeOK, Ingest
<1>2. \A e \in Document : parsed[e] # None => parsed'[e] = parsed[e]
  BY DEF PipelineInv, TypeOK, Ingest
<1>3. ClockInv'
  BY TimesAreNatural DEF PipelineInv, TypeOK, ClockInv, Ingest
<1>4. FeaturesInv'
  <2>1. \A D \in Day : features[D] # None => features[D].content \subseteq Document
    BY DEF PipelineInv, TypeOK, FeatureSet
  <2>2. QED
    BY <1>2, <2>1 DEF PipelineInv, FeaturesInv, NotBefore, Ingest
<1>5. SignalsInv'
  <2>1. \A t \in Time : signals[t] # None => signals[t].content \subseteq Document
    BY DEF PipelineInv, TypeOK, Signal
  <2>2. QED
    BY <1>2, <2>1 DEF PipelineInv, SignalsInv, NotBefore, Ingest
<1>6. QED
  BY <1>1, <1>3, <1>4, <1>5 DEF PipelineInv

LEMMA ClockAndResearchKeep ==
    ASSUME PipelineInv, Tick \/ Research
    PROVE  PipelineInv'
<1>1. now' \in Time /\ now <= now' /\ now \in Time
  BY CalendarAssumption, TimesAreNatural DEF PipelineInv, TypeOK, Tick, Research
<1>2. TypeOK'
  BY <1>1 DEF PipelineInv, TypeOK, Tick, Research
<1>3. ClockInv'
  BY <1>1, TimesAreNatural DEF PipelineInv, TypeOK, ClockInv, Tick, Research
<1>4. FeaturesInv' /\ SignalsInv'
  BY DEF PipelineInv, FeaturesInv, SignalsInv, NotBefore, Tick, Research
<1>5. QED
  BY <1>2, <1>3, <1>4 DEF PipelineInv

(* Features of a run without a cutoff know of every window they draw on.   *)
LEMMA MapFeaturesKeeps ==
    ASSUME PipelineInv, NEW cutoff \in Cutoff, MapFeatures(cutoff)
    PROVE  PipelineInv'
<1> DEFINE content == Content(cutoff)
           windows == Windows(cutoff)
           fallback == Max({brief} \cup {parsed[d] : d \in content})
           window == Derived(windows, fallback)
           f == [available |-> window.from, created |-> now, content |-> content,
                 compatible |-> window.compatible, replayed |-> cutoff # None]
<1>1. /\ brief # None /\ brief \in Time /\ DayOf(brief) \in Day
      /\ features' = [features EXCEPT ![DayOf(brief)] = f]
      /\ UNCHANGED <<now, parsed, brief, signals>>
  BY TimesAreNatural DEF MapFeatures, Known, PipelineInv, TypeOK
<1>2. /\ content \subseteq Document
      /\ \A d \in content : parsed[d] # None /\ parsed[d] \in Time /\ parsed[d] <= now
  BY DEF Content, Known, PipelineInv, TypeOK, ClockInv
<1>3. windows \subseteq Time
  BY AvailableTyped DEF Windows
<1>4. fallback \in Time
  BY <1>1, <1>2, MaxTime
<1>5. /\ window.from \in Time /\ window.compatible \in BOOLEAN
      /\ ~window.compatible => \A x \in windows : x <= window.from
  <2> HIDE DEF windows, fallback
  <2>1. QED
    BY <1>3, <1>4, DerivedFacts
<1>6. cutoff = None => \A d \in content : Published[d] # None =>
          DocumentAvailable(Published[d]) \in windows
  BY <1>2, AvailableTyped, TimesAreNatural DEF Windows, Known
<1>7. now \in Time
  BY DEF PipelineInv, TypeOK
<1> HIDE DEF content, windows, window
<1>8. f \in FeatureSet
  BY <1>2, <1>5, <1>7 DEF FeatureSet
<1>9. /\ f.content = content /\ f.created = now /\ f.available = window.from
      /\ f.compatible = window.compatible /\ f.replayed = (cutoff # None)
  OBVIOUS
<1>10. ~f.compatible /\ ~f.replayed => NotBefore(f.available, f.content)
  BY <1>5, <1>6, <1>9 DEF NotBefore
<1> HIDE DEF f
<1>11. TypeOK'
  BY <1>1, <1>8 DEF PipelineInv, TypeOK
<1>12. ClockInv' /\ SignalsInv'
  BY <1>1 DEF PipelineInv, ClockInv, SignalsInv, NotBefore
<1>13. FeaturesInv'
  <2> SUFFICES ASSUME NEW D \in Day, features'[D] # None
               PROVE  /\ \A d \in features'[D].content :
                             parsed[d] # None /\ parsed[d] <= features'[D].created
                      /\ ~features'[D].compatible /\ ~features'[D].replayed =>
                             NotBefore(features'[D].available, features'[D].content)
    BY <1>1 DEF FeaturesInv, NotBefore
  <2>1. CASE D = DayOf(brief)
    <3>1. features'[D] = f
      BY <1>1, <2>1 DEF PipelineInv, TypeOK
    <3>2. QED
      BY <1>2, <1>9, <1>10, <3>1
  <2>2. CASE D # DayOf(brief)
    <3>1. features'[D] = features[D]
      BY <1>1, <2>2 DEF PipelineInv, TypeOK
    <3>2. QED
      BY <3>1 DEF PipelineInv, FeaturesInv
  <2>3. QED
    BY <2>1, <2>2
<1>14. QED
  BY <1>11, <1>12, <1>13 DEF PipelineInv

(* A signal takes effect when the latest of its features is available.     *)
LEMMA GenerateSignalKeeps ==
    ASSUME PipelineInv, NEW cutoff \in Cutoff, GenerateSignal(cutoff)
    PROVE  PipelineInv'
<1> DEFINE usable == Usable(cutoff)
           times == {features[d].available : d \in usable}
           effective == Derived(times, Max(times)).from
<1>1. PICK from \in SUBSET usable \ {{}} :
          signals' = [signals EXCEPT ![effective] =
               [features |-> usable,
                content |-> UNION {features[d].content : d \in from},
                cutoff |-> cutoff,
                compatible |-> \E d \in usable : features[d].compatible,
                replayed |-> cutoff # None \/ \E d \in usable : features[d].replayed]]
  BY DEF GenerateSignal
<1> DEFINE content == UNION {features[d].content : d \in from}
           compatible == \E d \in usable : features[d].compatible
           replayed == cutoff # None \/ \E d \in usable : features[d].replayed
           s == [features |-> usable, content |-> content, cutoff |-> cutoff,
                 compatible |-> compatible, replayed |-> replayed]
<1>2. usable # {} /\ UNCHANGED <<now, parsed, brief, features>>
  BY DEF GenerateSignal
<1>3. /\ usable \subseteq Day /\ from \subseteq usable
      /\ \A d \in usable : features[d] # None /\ features[d] \in FeatureSet
  BY DEF Usable, PipelineInv, TypeOK
<1>4. \A d \in usable : /\ features[d].available \in Time /\ features[d].created \in Time
                        /\ features[d].content \subseteq Document
  BY <1>3 DEF FeatureSet
<1>5. \A d \in usable : cutoff # None =>
          features[d].created <= cutoff /\ features[d].available <= cutoff
  BY DEF Usable, Known
<1>6. times \subseteq Time /\ times # {}
  BY <1>2, <1>4
<1>7. /\ effective = Max(times) /\ effective \in times /\ effective \in Time
      /\ \A d \in usable : features[d].available <= effective
  <2>1. \A d \in usable : features[d].available \in times
    OBVIOUS
  <2>2. Max(times) \in times /\ \A x \in times : x <= Max(times)
    <3> HIDE DEF times
    <3>1. QED
      BY <1>6, MaxTime
  <2>3. Max(times) <= Max(times)
    BY <1>6, <2>2, TimesAreNatural
  <2> HIDE DEF times
  <2>4. effective = Max(times)
    BY <1>6, <2>3 DEF Derived
  <2>5. QED
    BY <1>6, <2>1, <2>2, <2>4
<1>8. content \subseteq Document /\ \A d \in content : \E D \in from : d \in features[D].content
  BY <1>3, <1>4
<1>9. cutoff # None => effective <= cutoff
  BY <1>5, <1>7
<1>10. cutoff # None => \A d \in content : parsed[d] # None /\ parsed[d] <= cutoff
  <2> SUFFICES ASSUME cutoff # None, NEW d \in content
               PROVE  parsed[d] # None /\ parsed[d] <= cutoff
    OBVIOUS
  <2>1. PICK D \in from : d \in features[D].content
    BY <1>8
  <2>2. parsed[d] # None /\ parsed[d] <= features[D].created
    BY <1>3, <2>1 DEF PipelineInv, FeaturesInv
  <2>3. parsed[d] \in Time /\ features[D].created \in Time /\ cutoff \in Time
    BY <1>3, <1>4, <1>8, <2>1, <2>2, CalendarAssumption DEF PipelineInv, TypeOK
  <2>4. features[D].created <= cutoff
    BY <1>3, <1>5
  <2>5. QED
    BY <2>2, <2>3, <2>4, TimesAreNatural
<1>11. ~compatible /\ ~replayed => NotBefore(effective, content)
  <2> SUFFICES ASSUME ~compatible, ~replayed, NEW d \in content, Published[d] # None
               PROVE  DocumentAvailable(Published[d]) <= effective
    BY DEF NotBefore
  <2>1. PICK D \in from : d \in features[D].content
    BY <1>8
  <2>2. D \in usable /\ ~features[D].compatible /\ ~features[D].replayed
    BY <1>3
  <2>3. DocumentAvailable(Published[d]) <= features[D].available
    BY <1>3, <2>1, <2>2 DEF PipelineInv, FeaturesInv, NotBefore
  <2>4. DocumentAvailable(Published[d]) \in Time /\ features[D].available \in Time
        /\ features[D].available <= effective
    BY <1>4, <1>7, <1>8, <2>2, AvailableTyped
  <2>5. QED
    BY <1>7, <2>3, <2>4, TimesAreNatural
<1>12. compatible \in BOOLEAN /\ replayed \in BOOLEAN
  BY Zenon
<1> HIDE DEF usable, effective, content, compatible, replayed
<1>13. /\ s \in Signal /\ s.cutoff = cutoff /\ s.content = content
       /\ s.compatible = compatible /\ s.replayed = replayed
  BY <1>3, <1>8, <1>12 DEF Signal
<1>14. signals' = [signals EXCEPT ![effective] = s]
  BY <1>1 DEF content, compatible, replayed
<1> HIDE DEF s
<1>15. TypeOK'
  BY <1>2, <1>7, <1>13, <1>14 DEF PipelineInv, TypeOK
<1>16. ClockInv' /\ FeaturesInv'
  BY <1>2 DEF PipelineInv, ClockInv, FeaturesInv, NotBefore
<1>17. SignalsInv'
  <2> SUFFICES ASSUME NEW t \in Time, signals'[t] # None
               PROVE  /\ signals'[t].cutoff # None =>
                             /\ t <= signals'[t].cutoff
                             /\ \A d \in signals'[t].content :
                                    parsed[d] # None /\ parsed[d] <= signals'[t].cutoff
                      /\ ~signals'[t].compatible /\ ~signals'[t].replayed =>
                             NotBefore(t, signals'[t].content)
    BY <1>2 DEF SignalsInv, NotBefore
  <2>1. CASE t = effective
    <3>1. signals'[t] = s
      BY <1>14, <2>1 DEF PipelineInv, TypeOK
    <3>2. QED
      BY <1>9, <1>10, <1>11, <1>13, <2>1, <3>1
  <2>2. CASE t # effective
    <3>1. signals'[t] = signals[t]
      BY <1>14, <2>2 DEF PipelineInv, TypeOK
    <3>2. QED
      BY <3>1 DEF PipelineInv, SignalsInv
  <2>3. QED
    BY <2>1, <2>2
<1>18. QED
  BY <1>15, <1>16, <1>17 DEF PipelineInv

LEMMA PipelineKeeps == PipelineInv /\ PipelineStep => PipelineInv'
BY IngestKeeps, ClockAndResearchKeep, MapFeaturesKeeps, GenerateSignalKeeps DEF PipelineStep

-----------------------------------------------------------------------------
(* The sessions in their order.                                            *)

(* A finite set of numbers has an element of every rank: one with b - 1    *)
(* smaller ones.                                                           *)
Below(S, d) == {e \in S : e < d}
Ranked(S, b) == \E d \in S : Cardinality(Below(S, d)) = b - 1

LEMMA NextRank ==
    ASSUME NEW S, S \subseteq Nat, IsFiniteSet(S),
           NEW b \in Nat \ {0}, b + 1 <= Cardinality(S), Ranked(S, b)
    PROVE  Ranked(S, b + 1)
<1>1. PICK d \in S : Cardinality(Below(S, d)) = b - 1
  BY DEF Ranked
<1> DEFINE A == Below(S, d) \cup {d}
<1>2. IsFiniteSet(Below(S, d)) /\ Below(S, d) \subseteq S /\ d \notin Below(S, d)
  BY FS_Subset DEF Below
<1>3. Cardinality(A) = b /\ IsFiniteSet(A) /\ A \subseteq S
  BY <1>1, <1>2, FS_AddElement
<1>4. S \ A # {}
  BY <1>3
<1>5. PICK x \in S \ A : \A y \in S \ A : y >= x
  <2> HIDE DEF A
  <2>1. QED
    BY <1>4, LeastExists
<1>6. x \in Nat /\ d \in Nat /\ x > d
  BY <1>5 DEF Below
<1>7. Below(S, x) = A
  <2>1. ASSUME NEW e \in A
        PROVE  e \in S /\ e < x
    <3>1. e \in S /\ (e < d \/ e = d)
      BY <1>3 DEF Below
    <3>2. e \in Nat
      BY <3>1
    <3>3. QED
      BY <1>6, <3>1, <3>2
  <2>2. ASSUME NEW e \in S, e < x
        PROVE  e \in A
    <3>1. e \in Nat /\ ~ (e >= x)
      BY <1>6, <2>2
    <3>2. QED
      BY <1>5, <3>1
  <2>3. QED
    BY <2>1, <2>2 DEF Below
<1>8. QED
  BY <1>3, <1>5, <1>7 DEF Ranked

LEMMA EveryRank ==
    ASSUME NEW S, S \subseteq Nat, IsFiniteSet(S), NEW b \in 1..Cardinality(S)
    PROVE  Ranked(S, b)
<1> DEFINE Bad == {c \in 1..Cardinality(S) : ~ Ranked(S, c)}
<1>1. Cardinality(S) \in Nat
  BY FS_CardinalityType
<1>2. SUFFICES ASSUME Bad # {} PROVE FALSE
  OBVIOUS
<1>3. PICK c \in Bad : \A x \in Bad : x >= c
  <2>1. Bad \subseteq Nat
    BY <1>1
  <2> HIDE DEF Bad
  <2>2. QED
    BY <1>2, <2>1, LeastExists
<1>4. c \in Nat \ {0} /\ c <= Cardinality(S) /\ ~ Ranked(S, c)
  BY <1>1
<1>5. CASE c = 1
  <2>1. S # {}
    BY <1>4, FS_EmptySet
  <2>2. PICK d \in S : \A e \in S : e >= d
    BY <2>1, LeastExists
  <2>3. \A e \in S : ~ (e < d)
    <3>1. \A e \in S : e \in Nat /\ d \in Nat /\ e >= d
      BY <2>2
    <3>2. QED
      BY <3>1
  <2>4. Below(S, d) = {}
    BY <2>3 DEF Below
  <2>5. QED
    BY <1>4, <1>5, <2>4, FS_EmptySet DEF Ranked
<1>6. CASE c # 1
  <2>1. c - 1 \in Nat \ {0} /\ c - 1 <= Cardinality(S) /\ ~ (c - 1 >= c)
    BY <1>1, <1>4, <1>6
  <2>2. Ranked(S, c - 1)
    BY <1>1, <1>3, <2>1
  <2>3. (c - 1) + 1 = c
    BY <1>4
  <2>4. Ranked(S, (c - 1) + 1)
    BY <1>4, <2>1, <2>2, <2>3, NextRank
  <2>5. QED
    BY <1>4, <2>3, <2>4
<1>7. QED
  BY <1>5, <1>6

LEMMA SessionsAreDays ==
    ASSUME NEW b \in 1..Cardinality(Sessions)
    PROVE  SessionOf[b] \in Sessions
<1>1. Sessions \subseteq Nat /\ IsFiniteSet(Sessions)
  <2>1. NumDays - 1 \in Int
    BY TimesAreNatural
  <2>2. IsFiniteSet(Day)
    BY <2>1, FS_Interval DEF Day
  <2>3. QED
    BY <2>2, TimesAreNatural, FS_Subset DEF Sessions
<1>2. Ranked(Sessions, b)
  BY <1>1, EveryRank
<1>3. PICK d \in Sessions : Cardinality({e \in Sessions : e < d}) = b - 1
  BY <1>2 DEF Ranked, Below
<1>4. SessionOf[b] = CHOOSE x \in Sessions : Cardinality({e \in Sessions : e < x}) = b - 1
  BY DEF SessionOf
<1>5. QED
  BY <1>3, <1>4

-----------------------------------------------------------------------------
(* The inductive invariant of the backtest.                                *)

(* It runs on the signals on file, which it only read once, and no         *)
(* decision uses one before it is available.                               *)
GivenInv ==
    /\ \A s \in given : /\ s.effective \in Time /\ signals[s.effective] # None
                        /\ s.available = s.effective
    /\ \A s, o \in given : s.effective = o.effective => s = o
    /\ decision = [b \in 1..Cardinality(Sessions) |-> decision[b]]
    /\ given = {} => \A b \in 1..Cardinality(Sessions) : decision[b] = None
    /\ \A b \in 1..Cardinality(Sessions) :
          decision[b] # None /\ decision[b].signal # None =>
              /\ decision[b].signal \in given
              /\ decision[b].signal.effective <= CloseOf(SessionOf[b])

IInv == PipelineInv /\ GivenInv

(* A selected signal is one of the run's and available.                    *)
LEMMA SelectedIsAvailable ==
    ASSUME GivenInv, NEW time \in Time, Backtest!SelectSignal(time) # None
    PROVE  /\ Backtest!SelectSignal(time) \in given
           /\ Backtest!SelectSignal(time).effective <= time
<1> DEFINE E == {s \in given : Backtest!Eligible(s, time)}
           T == {s.effective : s \in E}
<1>1. /\ \A s \in E : s.effective \in Time /\ s.available = s.effective
      /\ \A s, o \in E : s.effective = o.effective => s = o
      /\ E \subseteq given
  BY DEF GivenInv
<1>2. E # {} /\ Backtest!SelectSignal(time) =
               CHOOSE s \in E : \A other \in E \ {s} : Backtest!Preferred(s, other)
  BY DEF Backtest!SelectSignal
<1>3. Max(T) \in T /\ \A x \in T : x <= Max(T)
  <2>1. T \subseteq Time /\ T # {}
    BY <1>1, <1>2
  <2> HIDE DEF T
  <2>2. QED
    BY <2>1, MaxTime
<1>4. PICK s \in E : s.effective = Max(T)
  BY <1>3
<1>5. \A other \in E \ {s} : Backtest!Preferred(s, other)
  <2> SUFFICES ASSUME NEW other \in E \ {s}
               PROVE  Backtest!Preferred(s, other)
    OBVIOUS
  <2>1. other.effective # s.effective /\ other.effective <= s.effective
    BY <1>1, <1>3, <1>4
  <2>2. other.effective \in Nat /\ s.effective \in Nat
    BY <1>1, TimesAreNatural
  <2>3. s.effective > other.effective
    BY <2>1, <2>2
  <2>4. QED
    BY <2>3 DEF Backtest!Preferred
<1>6. \A x \in E : x.effective <= time
  <2> SUFFICES ASSUME NEW x \in E PROVE x.effective <= time
    OBVIOUS
  <2>1. x.available + 0 <= time
    BY DEF Backtest!Eligible
  <2>2. x.available = x.effective
    BY <1>1
  <2>3. x.effective \in Nat
    BY <1>1, TimesAreNatural
  <2>4. QED
    BY <2>1, <2>2, <2>3
<1> HIDE DEF E
<1>7. Backtest!SelectSignal(time) \in E
  BY <1>2, <1>5
<1>8. QED
  BY <1>1, <1>6, <1>7

LEMMA RunBacktestKeeps ==
    ASSUME IInv, RunBacktest
    PROVE  GivenInv'
<1>1. UNCHANGED <<now, parsed, brief, features, signals, decision>>
  BY DEF RunBacktest, pipelineVars, backtestVars
<1>2. given = {} /\ given' = {Loaded(t) : t \in {u \in Time : signals[u] # None}}
  BY DEF RunBacktest
<1>3. /\ \A t : Loaded(t).effective = t /\ Loaded(t).available = t
  BY DEF Loaded
<1>4. /\ \A s \in given' : /\ s.effective \in Time /\ signals[s.effective] # None
                          /\ s.available = s.effective
      /\ \A s, o \in given' : s.effective = o.effective => s = o
  BY <1>2, <1>3
<1>5. QED
  BY <1>1, <1>2, <1>4 DEF IInv, GivenInv

LEMMA BacktestStepKeeps ==
    ASSUME IInv, given # {}, Backtest!Next, UNCHANGED pipelineVars
    PROVE  GivenInv'
<1> DEFINE Bars == 1..Cardinality(Sessions)
<1>1. UNCHANGED <<now, parsed, brief, features, signals, given>>
  BY DEF pipelineVars, Backtest!Next, Backtest!Fill, Backtest!OpenWithoutFill,
         Backtest!Decide, Backtest!Report, Backtest!Raise
<1>3. CASE decision' = decision
  BY <1>1, <1>3 DEF IInv, GivenInv
<1>4. ASSUME NEW price, Backtest!Decide(price)
      PROVE  GivenInv'
  <2>1. /\ decision' = [b \in Bars |-> decision'[b]]
        /\ \A b \in Bars \ {bar} : decision'[b] = decision[b]
    BY <1>4 DEF IInv, GivenInv, Backtest!Decide
  <2>2. bar \in Bars =>
            decision'[bar].signal = Backtest!SelectSignal(CloseOf(SessionOf[bar]))
    <3>1. [b \in 1..Cardinality(Sessions) |-> decision[b]] = decision
      BY DEF IInv, GivenInv
    <3>2. QED
      BY <1>4, <3>1 DEF Backtest!Decide
  <2>3. ASSUME NEW b \in Bars, decision'[b] # None, decision'[b].signal # None
        PROVE  decision'[b].signal \in given
               /\ decision'[b].signal.effective <= CloseOf(SessionOf[b])
    <3>1. CASE b = bar
      <4>1. CloseOf(SessionOf[b]) \in Time
        BY SessionsAreDays, TimesAreNatural DEF Sessions
      <4>2. QED
        BY <2>2, <2>3, <3>1, <4>1, SelectedIsAvailable DEF IInv
    <3>2. CASE b # bar
      <4>1. decision'[b] = decision[b]
        BY <2>1, <3>2 DEF IInv, GivenInv
      <4>2. QED
        BY <2>3, <4>1 DEF IInv, GivenInv
    <3>3. QED
      BY <3>1, <3>2
  <2>4. QED
    BY <1>1, <2>1, <2>3 DEF IInv, GivenInv
<1>5. QED
  BY <1>3, <1>4 DEF Backtest!Next, Backtest!Fill, Backtest!OpenWithoutFill,
       Backtest!Report, Backtest!Raise, Backtest!log

LEMMA Initially == ResearchInit => IInv
<1> SUFFICES ASSUME ResearchInit PROVE IInv
  OBVIOUS
<1>1. PipelineInv
  BY InitPipeline DEF ResearchInit
<1>2. given = {} /\ decision = [b \in 1..Cardinality(Sessions) |-> None]
  BY DEF ResearchInit, Backtest!Init, Backtest!Bar
<1>3. QED
  BY <1>1, <1>2 DEF IInv, GivenInv

LEMMA StepKeeps == IInv /\ [ResearchNext]_vars => IInv'
<1> SUFFICES ASSUME IInv, [ResearchNext]_vars PROVE IInv'
  OBVIOUS
<1>1. CASE given = {} /\ PipelineStep /\ UNCHANGED <<given, backtestVars>>
  <2>1. PipelineInv'
    BY <1>1, PipelineKeeps DEF IInv
  <2>2. UNCHANGED <<given, decision>> /\ given = {}
    BY <1>1 DEF backtestVars
  <2>3. GivenInv'
    BY <2>2 DEF IInv, GivenInv
  <2>4. QED
    BY <2>1, <2>3 DEF IInv
<1>2. ASSUME UNCHANGED pipelineVars
      PROVE  PipelineInv'
  BY <1>2 DEF IInv, PipelineInv, TypeOK, ClockInv, FeaturesInv, SignalsInv, NotBefore,
              pipelineVars
<1>3. CASE RunBacktest
  BY <1>2, <1>3, RunBacktestKeeps DEF IInv, RunBacktest
<1>4. CASE given # {} /\ Backtest!Next /\ UNCHANGED pipelineVars
  BY <1>2, <1>4, BacktestStepKeeps DEF IInv
<1>5. CASE UNCHANGED vars
  <2>1. UNCHANGED pipelineVars /\ UNCHANGED <<signals, given, decision>>
    BY <1>5 DEF vars, pipelineVars, backtestVars
  <2>2. GivenInv'
    BY <2>1 DEF IInv, GivenInv, pipelineVars
  <2>3. QED
    BY <1>2, <2>1, <2>2 DEF IInv
<1>6. QED
  BY <1>1, <1>3, <1>4, <1>5 DEF ResearchNext

LEMMA Invariance == Spec => []IInv
<1>1. QED
  BY Initially, StepKeeps, PTL DEF Spec

-----------------------------------------------------------------------------
(* The theorems.                                                           *)

(* The pipelines write well-formed features and signals: in particular,    *)
(* every window that _derive_availability gives them is a time.            *)
THEOREM TypeCorrect == Spec => []TypeOK
<1>1. IInv => TypeOK
  BY DEF IInv, PipelineInv
<1>2. QED
  BY <1>1, Invariance, PTL

(* A signal that was generated as of a time is effective by then, and      *)
(* every document it draws on had been parsed by then.                     *)
THEOREM CutoffsHonoured == Spec => []CutoffsAreHonoured
<1>1. IInv => CutoffsAreHonoured
  BY DEF IInv, PipelineInv, SignalsInv, CutoffsAreHonoured
<1>2. QED
  BY <1>1, Invariance, PTL

(* No decision of a backtest is influenced by a document that was          *)
(* published after the session it is taken in had opened, unless a window  *)
(* on the way was a fallback, or there was a replay.                       *)
THEOREM NoDecisionLooksAhead == Spec => []NoLookAhead
<1>1. IInv => NoLookAhead
  <2> SUFFICES ASSUME IInv, NEW b \in 1..Cardinality(Sessions), NEW d \in Document,
                      Influences(b, d), ~ UsedSignal(b).compatible,
                      ~ UsedSignal(b).replayed, Published[d] # None
               PROVE  Published[d] < OpenOf(SessionOf[b])
    BY DEF NoLookAhead, DecisionKnows
  <2> DEFINE t == decision[b].signal.effective
  <2>1. t \in Time /\ signals[t] # None /\ t <= CloseOf(SessionOf[b])
        /\ d \in signals[t].content
    BY DEF IInv, GivenInv, Influences
  <2>2. DocumentAvailable(Published[d]) <= t
    BY <2>1 DEF IInv, PipelineInv, SignalsInv, NotBefore, UsedSignal
  <2>3. PICK D \in Day \ Weekend : /\ DocumentAvailable(Published[d]) = OpenOf(D)
                                   /\ OpenOf(D) > Published[d]
    BY AvailableTyped
  <2>4. /\ D \in Nat /\ SessionOf[b] \in Nat /\ Published[d] \in Nat /\ t \in Nat
    BY <2>1, TimesAreNatural, SessionsAreDays, AvailableTyped DEF Sessions
  <2>5. D <= SessionOf[b]
    BY <2>1, <2>2, <2>3, <2>4 DEF OpenOf, CloseOf
  <2>6. QED
    BY <2>3, <2>4, <2>5 DEF OpenOf
<1>2. QED
  BY <1>1, Invariance, PTL
=============================================================================
