-------------------------- MODULE DailyResearchProofs --------------------------
(***************************************************************************)
(* A daily run with the work of its executors, the operators and the files *)
(* of earlier days is still a run of the workflow, whatever the fixtures   *)
(* are: so what is proved of the workflow holds of it. And what it files   *)
(* can be traced to its evidence. For that the executors are proved to     *)
(* plan their writes in an order in which each rests on what is on file by *)
(* then, so that a run may end after any of them. And a plan that is       *)
(* complete leaves what its step vouches for, which no later part and no   *)
(* rejection takes away.                                                   *)
(***************************************************************************)
EXTENDS DailyResearch, DailyWorkflowProofs, FiniteSetTheorems, WellFoundedInduction

(* Every step of the composition is one step of the loop of                *)
(* run_daily_workflow or leaves all that the loop works on alone.          *)
LEMMA ChainStep == [ChainNext]_allVars => [Next]_vars
<1> SUFFICES ASSUME [ChainNext]_allVars PROVE [Next]_vars
  OBVIOUS
<1>1. CASE ChainAdvance
  <2>1. CASE \/ StartWork \/ WriteNext \/ WorkWriteRaises \/ StartSignals
    BY <2>1 DEF StartWork, WriteNext, WorkWriteRaises, StartSignals
  <2>2. CASE WorkReturns \/ WorkRaises
    BY <2>2 DEF WorkReturns, WorkRaises, Next, Advance
  <2> QED
    BY <1>1, <2>1, <2>2 DEF ChainAdvance, Other, Next, Advance
<1>2. CASE DieAmidWork
  BY <1>2 DEF DieAmidWork, Next
<1>3. CASE \E b \in shelf.research_briefs : OperatorRejects(b.id)
  BY <1>3 DEF OperatorRejects
<1>4. CASE UNCHANGED allVars
  BY <1>4 DEF allVars
<1> QED
  BY <1>1, <1>2, <1>3, <1>4 DEF ChainNext

(* The composition implements the workflow.                                *)
THEOREM ChainFollowsTheWorkflow == ChainSpec => Spec
<1>1. ChainInit => Init
  BY DEF ChainInit
<1> QED
  BY <1>1, ChainStep, PTL DEF ChainSpec, Spec

(* Whatever fixtures a run works on, whichever write of an executor fails   *)
(* and whatever the operators decide meanwhile: steps start in order, the   *)
(* verdict is explained, outputs are linked, monitoring tells no lie and no *)
(* step exceeds its attempts.                                               *)
THEOREM ChainKeepsThePromises ==
    ChainSpec => [](/\ TypeOK /\ StepsStartInOrder /\ VerdictExplained
                    /\ AttentionCarriesARequirement /\ OutputsAreLinked
                    /\ MonitoringAgrees /\ FailsOnlyAfterItsAttempts)
BY ChainFollowsTheWorkflow, TypeCorrect, StepsAlwaysStartInOrder, VerdictsAreExplained,
   AttentionIsExplained, OutputsAreAlwaysLinked, MonitoringAlwaysAgrees, AttemptsAreBounded,
   PTL
-----------------------------------------------------------------------------
(* What is on file.                                                        *)

(* What a file of a category rests on, given the facts that are known: the *)
(* categories and identifiers of the files there are.                      *)
DocumentFacts(d) == {<<c, d>> : c \in {"documents", "source_references", "raw", "parsed_text"}}

(* The file of each category that anything is asked of, and what is asked: *)
(* facts it rests on, what its identifier says and the range of its values *)
(* (with what the weights need to keep a signal from pointing down).       *)
DocumentOK(known, d) == <<"raw", d.id>> \in known /\ <<"source_references", d.id>> \in known
SpanOK(known, s) == s.document = s.id[1][1] /\ DocumentFacts(s.document) \subseteq known
ExtractOK(category, a) ==
    /\ a.document = a.span[1][1]
    /\ category = "guidance_changes" => a.class \in DOMAIN GUIDANCE_SCORE_MAP
LinkOK(known, l) ==
    /\ l.document = l.span[1][1] /\ DocumentFacts(l.document) \subseteq known
    /\ <<"evidence_spans", l.span>> \in known
HypothesisOK(known, h) ==
    /\ Cardinality(Documents(h.links)) \in Nat /\ Cardinality(Documents(h.links)) >= 2
    /\ \A l \in h.links : LinkOK(known, l)
AssessmentOK(a) == a.grade = a.id[2]
CounterOK(c) ==
    Cardinality(c.kinds) \in Nat /\ c.missing_evidence \in Nat /\ c.causal_gaps \in Nat
BriefOK(known, b) ==
    /\ <<"hypotheses", b.hypothesis>> \in known /\ <<"counter_hypotheses", b.counter>> \in known
    /\ <<"evidence_assessments", b.assessment>> \in known
    /\ b.assessment[2] \in {"strong", "moderate"} /\ b.created \in {1, Today}
    /\ {"id", "company", "hypothesis", "counter", "assessment", "created"} \subseteq DOMAIN b
    /\ b.hypothesis = b.id[1]
InRange(name, value) ==
    /\ value \in Int
    /\ name = "support_grade_score" => value >= 66
    /\ name = "support_document_count" => value >= 2
    /\ name = "guidance_change_score" => value >= -2
    /\ name = "tone_balance_score" => value >= -3
    /\ name = "counterargument_pressure_score" => value <= 6
FeatureOK(known, f) ==
    /\ <<"research_briefs", f.brief>> \in known /\ <<"hypotheses", f.hypothesis>> \in known
    /\ f.id[2] = f.name /\ f.name \in FeatureName /\ InRange(f.name, f.value)
SignalOK(known, s) ==
    /\ \A i \in s.features : <<"features", i>> \in known
    /\ <<"hypotheses", s.hypothesis>> \in known
    /\ \A n \in FeatureName : <<"signal_scores", <<s.id, n>> >> \in known
    /\ {i[2] : i \in s.features} = FeatureName
    /\ s.stance # "negative"

Rests(known, category, x) ==
    /\ category = "raw" => TextIsRead(x)
    /\ category = "documents" => DocumentOK(known, x)
    /\ category = "evidence_spans" => SpanOK(known, x)
    /\ category \in Categories => ExtractOK(category, x)
    /\ category = "hypotheses" => HypothesisOK(known, x)
    /\ category = "evidence_assessments" => AssessmentOK(x)
    /\ category = "counter_hypotheses" => CounterOK(x)
    /\ category = "research_briefs" => BriefOK(known, x)
    /\ category = "features" => FeatureOK(known, x)
    /\ category = "signals" => SignalOK(known, x)

(* What is counted, or put in an order, is finite.                         *)
Counted == Categories \cup {"documents"}

(* A write is due when what it files rests on what is known; a gate has no *)
(* identifier of its own.                                                  *)
WriteOK(known, w) ==
    /\ w.category \in AllCategories
    /\ w.category \in Counted => IsFiniteSet(w.items)
    /\ \A x \in w.items : Rests(known, w.category, x)
FactsOf(w) == IF w.category = "gates" THEN {} ELSE {<<w.category, x.id>> : x \in w.items}

(* The facts of all files, and that every file rests on them.              *)
FactsIn(fs) == UNION {FactsOf(Write(c, fs[c])) : c \in AllCategories}
FilesOK(fs) ==
    /\ fs = [c \in AllCategories |-> fs[c]]
    /\ \A c \in AllCategories : WriteOK(FactsIn(fs), Write(c, fs[c]))

(* A nonempty set of naturals has a least element.                         *)
LEMMA LeastNatural ==
    ASSUME NEW S, S \subseteq Nat, S # {}
    PROVE  \E n \in S : \A m \in S : n <= m
<1> DEFINE R == OpToRel(<, Nat)
<1>1. \A m, n \in Nat : m < n => <<m, n>> \in R
  BY DEF OpToRel
<1>2. IsWellFoundedOn(R, Nat)
  BY NatLessThanWellFounded
<1> HIDE DEF R
<1>3. PICK n \in S : \A m \in S : ~(<<m, n>> \in R)
  BY <1>2, WFMin
<1>4. ASSUME NEW m \in S
      PROVE  n <= m
  <2>1. m \in Nat /\ n \in Nat
    OBVIOUS
  <2>2. ~(m < n)
    BY <1>1, <1>3, <2>1
  <2>3. QED
    BY <2>1, <2>2
<1>5. QED
  BY <1>4

-----------------------------------------------------------------------------
(* Sequences.                                                              *)

(* What a sequence after another one is.                                   *)
LEMMA Concatenated ==
    ASSUME NEW a, IsSequence(a), NEW b, IsSequence(b)
    PROVE  /\ IsSequence(a \o b) /\ Len(a) \in Nat /\ Len(b) \in Nat /\ Len(a \o b) = Len(a) + Len(b)
           /\ DOMAIN a = 1..Len(a) /\ DOMAIN b = 1..Len(b) /\ DOMAIN (a \o b) = 1..(Len(a) + Len(b))
           /\ \A i \in 1..Len(a) : (a \o b)[i] = a[i]
           /\ \A i \in 1..Len(b) : (a \o b)[Len(a) + i] = b[i]
<1> DEFINE S == ToSet(a) \cup ToSet(b)
<1>1. a \in Seq(S) /\ b \in Seq(S)
  BY DEF IsSequence
<1> HIDE DEF S
<1>2. /\ a \o b \in Seq(S) /\ Len(a) \in Nat /\ Len(b) \in Nat /\ Len(a \o b) = Len(a) + Len(b)
      /\ DOMAIN a = 1..Len(a) /\ DOMAIN b = 1..Len(b) /\ DOMAIN (a \o b) = 1..(Len(a) + Len(b))
      /\ \A i \in 1..Len(a) : (a \o b)[i] = a[i]
      /\ \A i \in 1..Len(b) : (a \o b)[Len(a) + i] = b[i]
  BY <1>1
<1>3. PICK c : c = a \o b
  OBVIOUS
<1>4. c \in Seq(ToSet(c))
  <2>1. c \in Seq(S)
    BY <1>2, <1>3
  <2>2. \A i \in 1..Len(c) : c[i] \in ToSet(c)
    BY <2>1 DEF ToSet
  <2>3. QED
    BY <2>1, <2>2
<1>5. QED
  BY <1>2, <1>3, <1>4 DEF IsSequence

(* The same, in a form that is opaque to the provers.                      *)
Joins(a, b, c) ==
    /\ IsSequence(c) /\ Len(a) \in Nat /\ Len(b) \in Nat /\ Len(c) = Len(a) + Len(b)
    /\ DOMAIN a = 1..Len(a) /\ DOMAIN b = 1..Len(b) /\ DOMAIN c = 1..(Len(a) + Len(b))
    /\ \A i \in 1..Len(a) : c[i] = a[i]
    /\ \A i \in 1..Len(b) : c[Len(a) + i] = b[i]

(* Any two sequences are joined by \o.                                     *)
LEMMA Joined == ASSUME NEW a, IsSequence(a), NEW b, IsSequence(b) PROVE Joins(a, b, a \o b)
<1>1. PICK c : c = a \o b
  OBVIOUS
<1>2. Joins(a, b, c)
  BY <1>1, Concatenated DEF Joins
<1>3. QED
  BY <1>1, <1>2

(* A sequence is a function on the first naturals.                         *)
LEMMA SequenceIs ==
    ASSUME NEW s, IsSequence(s)
    PROVE  /\ Len(s) \in Nat /\ DOMAIN s = 1..Len(s) /\ s = [i \in 1..Len(s) |-> s[i]]
           /\ Len(s) = 0 => s = <<>>
BY DEF IsSequence

(* A function on the first naturals is a sequence.                         *)
LEMMA SequenceOf ==
    ASSUME NEW n \in Nat, NEW s, s = [i \in 1..n |-> s[i]]
    PROVE  IsSequence(s) /\ Len(s) = n /\ DOMAIN s = 1..n
<1>1. DOMAIN s = 1..n
  OBVIOUS
<1>2. \A i \in 1..n : s[i] \in ToSet(s)
  BY <1>1 DEF ToSet
<1>3. s \in [1..n -> ToSet(s)]
  BY <1>2
<1>4. s \in Seq(ToSet(s))
  BY <1>3
<1>5. QED
  BY <1>1, <1>4 DEF IsSequence

(* A sequence without its first element.                                   *)
LEMMA TailIs ==
    ASSUME NEW a, IsSequence(a), a # <<>>
    PROVE  /\ IsSequence(Tail(a)) /\ 1 \in DOMAIN a /\ Head(a) = a[1] /\ DOMAIN a = 1..Len(a)
           /\ Len(a) \in Nat /\ DOMAIN Tail(a) = 1..(Len(a) - 1)
           /\ \A i \in DOMAIN Tail(a) : Tail(a)[i] = a[i + 1] /\ i + 1 \in DOMAIN a
<1>1. PICK b : b = Tail(a)
  OBVIOUS
<1>2. /\ Len(a) \in Nat /\ Len(a) >= 1 /\ DOMAIN a = 1..Len(a) /\ Head(a) = a[1]
      /\ b \in Seq(ToSet(a)) /\ Len(b) = Len(a) - 1 /\ DOMAIN b = 1..Len(b)
      /\ \A i \in 1..Len(b) : b[i] = a[i + 1]
  BY <1>1 DEF IsSequence
<1>3. IsSequence(b)
  <2>1. \A i \in 1..Len(b) : b[i] \in ToSet(b)
    BY <1>2 DEF ToSet
  <2>2. QED
    BY <1>2, <2>1 DEF IsSequence
<1>4. /\ 1 \in DOMAIN a /\ DOMAIN b = 1..(Len(a) - 1)
      /\ \A i \in DOMAIN b : b[i] = a[i + 1] /\ i + 1 \in DOMAIN a
  BY <1>2
<1>5. QED
  BY <1>1, <1>2, <1>3, <1>4

(* An element of one is at some place of it.                               *)
LEMMA PlaceOf == ASSUME NEW s, NEW x \in ToSet(s) PROVE \E i \in DOMAIN s : s[i] = x
BY DEF ToSet

(* FlattenSeq as the function that it is defined by.                       *)
Cat(a, b) == a \o b
Unrolled(s, n, g) == g = [i \in 1..n |-> IF i = 1 THEN s[i] ELSE Cat(g[i - 1], s[i])]

(* One more element can be gathered.                                       *)
LEMMA UnrolledStep ==
    ASSUME NEW s, NEW n \in Nat, n # 0, NEW h, Unrolled(s, n - 1, h)
    PROVE  \E g : Unrolled(s, n, g)
<1> DEFINE g == [i \in 1..n |-> IF i = n THEN (IF n = 1 THEN s[n] ELSE Cat(h[n - 1], s[n])) ELSE h[i]]
<1>1. \A i \in 1..(n - 1) : h[i] = IF i = 1 THEN s[i] ELSE Cat(h[i - 1], s[i])
  BY DEF Unrolled
<1>2. \A i \in 1..n : g[i] = IF i = 1 THEN s[i] ELSE Cat(g[i - 1], s[i])
  <2> SUFFICES ASSUME NEW i \in 1..n PROVE g[i] = IF i = 1 THEN s[i] ELSE Cat(g[i - 1], s[i])
    OBVIOUS
  <2>1. CASE i = 1
    <3>1. CASE n = 1
      BY <2>1, <3>1
    <3>2. CASE n # 1
      <4>1. 1 \in 1..(n - 1) /\ 1 \in 1..n
        BY <3>2
      <4>2. g[1] = h[1] /\ h[1] = s[1]
        BY <1>1, <3>2, <4>1
      <4>3. QED
        BY <2>1, <4>2
    <3>3. QED
      BY <3>1, <3>2
  <2>2. CASE i # 1
    <3>1. i - 1 \in 1..(n - 1) /\ i - 1 \in 1..n /\ i - 1 # n
      BY <2>2
    <3>2. g[i - 1] = h[i - 1]
      BY <3>1
    <3>3. CASE i = n
      <4>1. g[i] = Cat(h[i - 1], s[i])
        BY <2>2, <3>3
      <4> HIDE DEF g
      <4>2. QED
        BY <2>2, <3>2, <4>1
    <3>4. CASE i # n
      <4>1. g[i] = h[i] /\ i \in 1..(n - 1)
        BY <3>4
      <4>2. h[i] = Cat(h[i - 1], s[i])
        BY <1>1, <2>2, <4>1
      <4> HIDE DEF g
      <4>3. QED
        BY <2>2, <3>2, <4>1, <4>2
    <3>5. QED
      BY <3>3, <3>4
  <2>3. QED
    BY <2>1, <2>2
<1>3. g = [i \in 1..n |-> g[i]]
  OBVIOUS
<1> HIDE DEF g
<1>4. Unrolled(s, n, g)
  BY <1>2, <1>3 DEF Unrolled
<1>5. QED
  BY <1>4

(* That function exists for every length.                                  *)
LEMMA UnrolledExists ==
    ASSUME NEW s, NEW n \in Nat
    PROVE  \E g : Unrolled(s, n, g)
<1> DEFINE B == {m \in Nat : ~ \E g : Unrolled(s, m, g)}
<1>1. SUFFICES ASSUME B # {} PROVE FALSE
  OBVIOUS
<1>2. PICK m \in B : \A k \in B : m <= k
  <2>1. B \subseteq Nat
    OBVIOUS
  <2> HIDE DEF B
  <2>2. QED
    BY <1>1, <2>1, LeastNatural
<1>3. m # 0
  <2> DEFINE g == [i \in 1..0 |-> IF i = 1 THEN s[i] ELSE Cat({}, s[i])]
  <2>1. Unrolled(s, 0, g)
    <3>1. \A i \in 1..0 : FALSE
      OBVIOUS
    <3>2. g = [i \in 1..0 |-> g[i]] /\ \A i \in 1..0 : g[i] = IF i = 1 THEN s[i] ELSE Cat(g[i - 1], s[i])
      BY <3>1
    <3> HIDE DEF g
    <3>3. QED
      BY <3>2 DEF Unrolled
  <2>2. QED
    BY <2>1
<1>4. m - 1 \in Nat /\ ~ (m <= m - 1)
  BY <1>3
<1>5. m - 1 \notin B
  BY <1>2, <1>4
<1>6. PICK h : Unrolled(s, m - 1, h)
  BY <1>4, <1>5
<1>7. \E g : Unrolled(s, m, g)
  BY <1>3, <1>6, UnrolledStep
<1>8. QED
  BY <1>7

(* Every place of t holds an element of one of the first n sequences of s, *)
(* behind all that comes before it there.                                  *)
Behind(s, t, i, j, l) == \A p \in 1..(j - 1) : \E m \in 1..(l - 1) : t[m] = s[i][p]
Gathers(s, n, t) ==
    /\ IsSequence(t)
    /\ \A l \in DOMAIN t : \E i \in 1..n : \E j \in DOMAIN s[i] :
          t[l] = s[i][j] /\ Behind(s, t, i, j, l)

(* The first sequence holds its own elements.                              *)
LEMMA GathersOne == ASSUME NEW s, IsSequence(s[1]) PROVE Gathers(s, 1, s[1])
<1> DEFINE t == s[1]
<1>1. ASSUME NEW l \in DOMAIN t
      PROVE  \E i \in 1..1 : \E j \in DOMAIN s[i] : t[l] = s[i][j] /\ Behind(s, t, i, j, l)
  <2>1. Behind(s, t, 1, l, l)
    BY DEF Behind
  <2>2. 1 \in 1..1
    OBVIOUS
  <2>3. QED
    BY <2>1, <2>2
<1>2. QED
  BY <1>1 DEF Gathers

(* One more sequence adds elements of its own only.                        *)
LEMMA GathersMore ==
    ASSUME NEW s, NEW n \in Nat \ {0}, NEW t, Gathers(s, n, t), IsSequence(s[n + 1])
    PROVE  Gathers(s, n + 1, Cat(t, s[n + 1]))
<1> DEFINE N == n + 1
<1>1. PICK b, c : b = s[N] /\ c = t \o b
  OBVIOUS
<1>2. IsSequence(t) /\ IsSequence(b)
  BY <1>1 DEF Gathers
<1>3. /\ IsSequence(c) /\ Len(t) \in Nat /\ Len(b) \in Nat
      /\ DOMAIN t = 1..Len(t) /\ DOMAIN b = 1..Len(b) /\ DOMAIN c = 1..(Len(t) + Len(b))
      /\ \A i \in 1..Len(t) : c[i] = t[i]
      /\ \A i \in 1..Len(b) : c[Len(t) + i] = b[i]
  <2>1. Joins(t, b, t \o b)
    BY <1>2, Joined
  <2>2. Joins(t, b, c)
    BY <1>1, <2>1
  <2>3. QED
    BY <2>2 DEF Joins
<1>4. ASSUME NEW l \in DOMAIN c
      PROVE  \E i \in 1..N : \E j \in DOMAIN s[i] : c[l] = s[i][j] /\ Behind(s, c, i, j, l)
  <2>1. CASE l \in 1..Len(t)
    <3>1. PICK i \in 1..n : \E j \in DOMAIN s[i] : t[l] = s[i][j] /\ Behind(s, t, i, j, l)
      BY <1>3, <2>1 DEF Gathers
    <3>2. PICK j \in DOMAIN s[i] : t[l] = s[i][j] /\ Behind(s, t, i, j, l)
      BY <3>1
    <3>3. ASSUME NEW p \in 1..(j - 1)
          PROVE  \E m \in 1..(l - 1) : c[m] = s[i][p]
      <4>1. PICK m \in 1..(l - 1) : t[m] = s[i][p]
        BY <3>2 DEF Behind
      <4>2. m \in 1..Len(t)
        BY <1>3, <2>1
      <4>3. c[m] = t[m]
        BY <1>3, <4>2
      <4>4. QED
        BY <4>1, <4>3
    <3>4. c[l] = s[i][j] /\ i \in 1..N
      BY <1>3, <2>1, <3>2
    <3>5. Behind(s, c, i, j, l)
      BY <3>3 DEF Behind
    <3>6. QED
      BY <3>4, <3>5
  <2>2. CASE l \notin 1..Len(t)
    <3>1. PICK j : j = l - Len(t)
      OBVIOUS
    <3>2. j \in 1..Len(b) /\ l = Len(t) + j /\ l \in Int
      BY <1>3, <2>2, <3>1
    <3>3. c[l] = b[j]
      BY <1>3, <3>2
    <3>4. ASSUME NEW p \in 1..(j - 1)
          PROVE  \E m \in 1..(l - 1) : c[m] = b[p]
      <4>1. Len(t) + p \in 1..(l - 1) /\ p \in 1..Len(b)
        BY <1>3, <3>2
      <4>2. QED
        BY <1>3, <4>1
    <3>5. Behind(s, c, N, j, l)
      BY <1>1, <3>4 DEF Behind
    <3>6. N \in 1..N /\ j \in DOMAIN s[N] /\ c[l] = s[N][j]
      BY <1>1, <1>3, <3>2, <3>3
    <3>7. QED
      BY <3>5, <3>6
  <2>3. QED
    BY <2>1, <2>2
<1>5. Gathers(s, N, c)
  BY <1>3, <1>4 DEF Gathers
<1>6. QED
  BY <1>1, <1>5 DEF Cat

(* So it is for each of the first n.                                       *)
LEMMA UnrolledGathers ==
    ASSUME NEW s, NEW n \in Nat, \A i \in 1..n : IsSequence(s[i]), NEW g, Unrolled(s, n, g)
    PROVE  \A i \in 1..n : Gathers(s, i, g[i])
<1> DEFINE B == {i \in 1..n : ~ Gathers(s, i, g[i])}
<1>1. SUFFICES ASSUME B # {} PROVE FALSE
  OBVIOUS
<1>2. PICK m \in B : \A k \in B : m <= k
  <2>1. B \subseteq Nat
    OBVIOUS
  <2> HIDE DEF B
  <2>2. QED
    BY <1>1, <2>1, LeastNatural
<1>3. m \in 1..n /\ ~ Gathers(s, m, g[m])
  OBVIOUS
<1>4. \A i \in 1..n : g[i] = IF i = 1 THEN s[i] ELSE Cat(g[i - 1], s[i])
  BY DEF Unrolled
<1>5. CASE m = 1
  <2>1. g[1] = s[1]
    BY <1>3, <1>4, <1>5
  <2>2. QED
    BY <1>3, <1>5, <2>1, GathersOne
<1>6. CASE m # 1
  <2>1. PICK k \in Nat \ {0} : m = k + 1 /\ k = m - 1
    <3>1. m - 1 \in Nat \ {0} /\ m = (m - 1) + 1
      BY <1>3, <1>6
    <3>2. QED
      BY <3>1
  <2>2. k \in 1..n /\ ~ (m <= k)
    BY <1>3, <2>1
  <2>3. k \notin B
    BY <1>2, <2>2
  <2>4. Gathers(s, k, g[k])
    BY <2>2, <2>3
  <2>5. g[m] = Cat(g[k], s[m])
    BY <1>3, <1>4, <1>6, <2>1
  <2>6. Gathers(s, k + 1, Cat(g[k], s[k + 1]))
    BY <1>3, <2>1, <2>4, GathersMore
  <2>7. QED
    BY <1>3, <2>1, <2>5, <2>6
<1>7. QED
  BY <1>5, <1>6

(* Flattening keeps the order of each of the sequences.                    *)
LEMMA FlattenGathers ==
    ASSUME NEW s, IsSequence(s), \A i \in DOMAIN s : IsSequence(s[i])
    PROVE  Gathers(s, Len(s), FlattenSeq(s))
<1>1. Len(s) \in Nat /\ DOMAIN s = 1..Len(s) /\ (Len(s) = 0 => s = <<>>)
  BY SequenceIs
<1>2. CASE Len(s) = 0
  <2>1. FlattenSeq(s) = s
    BY <1>2 DEF FlattenSeq
  <2>2. DOMAIN s = {}
    BY <1>1, <1>2
  <2>3. QED
    BY <2>1, <2>2 DEF Gathers
<1>3. CASE Len(s) # 0
  <2>1. PICK g : g = CHOOSE h : Unrolled(s, Len(s), h)
    OBVIOUS
  <2>2. Unrolled(s, Len(s), g)
    BY <1>1, <2>1, UnrolledExists
  <2>3. FlattenSeq(s) = g[Len(s)]
    BY <1>3, <2>1, SMTT(40) DEF FlattenSeq, Unrolled, Cat
  <2>4. Len(s) \in 1..Len(s)
    BY <1>1, <1>3
  <2>5. QED
    BY <1>1, <2>2, <2>3, <2>4, UnrolledGathers
<1>4. QED
  BY <1>2, <1>3

(* What is in the flattened sequence was in one of its parts.              *)
LEMMA FlattenElements ==
    ASSUME NEW s, IsSequence(s), \A i \in DOMAIN s : IsSequence(s[i])
    PROVE  /\ IsSequence(FlattenSeq(s))
           /\ \A l \in DOMAIN FlattenSeq(s) : \E i \in DOMAIN s : FlattenSeq(s)[l] \in ToSet(s[i])
           /\ \A x \in ToSet(FlattenSeq(s)) : \E i \in DOMAIN s : x \in ToSet(s[i])
<1>1. PICK t : t = FlattenSeq(s)
  OBVIOUS
<1>2. Gathers(s, Len(s), t) /\ DOMAIN s = 1..Len(s)
  BY <1>1, FlattenGathers, SequenceIs
<1>3. ASSUME NEW l \in DOMAIN t
      PROVE  \E i \in DOMAIN s : t[l] \in ToSet(s[i])
  <2>1. PICK i \in DOMAIN s : \E j \in DOMAIN s[i] : t[l] = s[i][j]
    BY <1>2 DEF Gathers
  <2>2. QED
    BY <2>1 DEF ToSet
<1>4. \A x \in ToSet(t) : \E i \in DOMAIN s : x \in ToSet(s[i])
  BY <1>3, PlaceOf
<1>5. QED
  BY <1>1, <1>2, <1>3, <1>4 DEF Gathers

-----------------------------------------------------------------------------
(* Plans of writes.                                                        *)

(* More facts do no harm.                                                  *)
LEMMA RestsOnMore ==
    ASSUME NEW known, NEW more, known \subseteq more, NEW category, NEW x,
           Rests(known, category, x)
    PROVE  Rests(more, category, x)
<1>1. DocumentOK(known, x) => DocumentOK(more, x)
  BY DEF DocumentOK
<1>2. SpanOK(known, x) => SpanOK(more, x)
  BY DEF SpanOK
<1>3. HypothesisOK(known, x) => HypothesisOK(more, x)
  <2>1. \A l : LinkOK(known, l) => LinkOK(more, l)
    BY DEF LinkOK
  <2>2. QED
    BY <2>1 DEF HypothesisOK
<1>4. BriefOK(known, x) => BriefOK(more, x)
  BY DEF BriefOK
<1>5. FeatureOK(known, x) => FeatureOK(more, x)
  BY DEF FeatureOK
<1>6. SignalOK(known, x) => SignalOK(more, x)
  BY DEF SignalOK
<1>7. QED
  BY <1>1, <1>2, <1>3, <1>4, <1>5, <1>6 DEF Rests

(* A write stays due when more is known.                                   *)
LEMMA DueOnMore ==
    ASSUME NEW known, NEW more, known \subseteq more, NEW w, WriteOK(known, w)
    PROVE  WriteOK(more, w)
BY RestsOnMore DEF WriteOK

(* Each write of a plan is due once those before it are done.              *)
Done(writes, i, known) == \A j \in 1..(i - 1) : FactsOf(writes[j]) \subseteq known
PlanSound(known, writes) ==
    /\ IsSequence(writes)
    /\ \A i \in DOMAIN writes : \A facts :
          known \subseteq facts /\ Done(writes, i, facts) => WriteOK(facts, writes[i])

(* A plan stays sound when more is known.                                  *)
LEMMA SoundOnMore ==
    ASSUME NEW known, NEW more, known \subseteq more, NEW writes, PlanSound(known, writes)
    PROVE  PlanSound(more, writes)
BY DEF PlanSound

(* The plan without a write is sound.                                      *)
LEMMA SoundNothing == \A known : PlanSound(known, <<>>)
<1>1. IsSequence(<<>>) /\ DOMAIN <<>> = {}
  BY DEF IsSequence
<1>2. QED
  BY <1>1 DEF PlanSound

(* Tuples are sequences. *)
LEMMA TupleIs ==
    /\ \A a : IsSequence(<<a>>)
    /\ \A a, b : IsSequence(<<a, b>>)
    /\ \A a, b, c, d : IsSequence(<<a, b, c, d>>)
    /\ \A a, b, c, d, e : IsSequence(<<a, b, c, d, e>>)
    /\ \A a, b, c, d, e, f, g : IsSequence(<<a, b, c, d, e, f, g>>)
<1>1. ASSUME NEW a PROVE IsSequence(<<a>>)
  BY DEF IsSequence, ToSet
<1>2. ASSUME NEW a, NEW b PROVE IsSequence(<<a, b>>)
  BY DEF IsSequence, ToSet
<1>3. ASSUME NEW a, NEW b, NEW c, NEW d PROVE IsSequence(<<a, b, c, d>>)
  BY DEF IsSequence, ToSet
<1>4. ASSUME NEW a, NEW b, NEW c, NEW d, NEW e PROVE IsSequence(<<a, b, c, d, e>>)
  BY DEF IsSequence, ToSet
<1>5. ASSUME NEW a, NEW b, NEW c, NEW d, NEW e, NEW f, NEW g
      PROVE  IsSequence(<<a, b, c, d, e, f, g>>)
  BY DEF IsSequence, ToSet
<1>6. QED
  BY <1>1, <1>2, <1>3, <1>4, <1>5

(* A plan of one write that is due.                                        *)
LEMMA SoundOne ==
    ASSUME NEW known, NEW w, WriteOK(known, w)
    PROVE  PlanSound(known, <<w>>)
<1>1. PICK t : t = <<w>>
  OBVIOUS
<1>2. IsSequence(t) /\ DOMAIN t = {1} /\ t[1] = w
  BY <1>1, TupleIs
<1>3. PlanSound(known, t)
  BY <1>2, DueOnMore DEF PlanSound
<1>4. QED
  BY <1>1, <1>3

(* A plan of two writes, the second after the first.                       *)
LEMMA SoundTwo ==
    ASSUME NEW known, NEW v, NEW w, WriteOK(known, v), WriteOK(known \cup FactsOf(v), w)
    PROVE  PlanSound(known, <<v, w>>)
<1>1. PICK t : t = <<v, w>>
  OBVIOUS
<1>2. IsSequence(t) /\ DOMAIN t = 1..2 /\ t[1] = v /\ t[2] = w
  BY <1>1, TupleIs
<1>3. ASSUME NEW i \in 1..2, NEW facts, known \subseteq facts, Done(t, i, facts)
      PROVE  WriteOK(facts, t[i])
  <2>1. CASE i = 1
    BY <1>2, <1>3, <2>1, DueOnMore
  <2>2. CASE i = 2
    <3>1. 1 \in 1..(i - 1)
      BY <2>2
    <3>2. known \cup FactsOf(v) \subseteq facts
      BY <1>2, <1>3, <3>1 DEF Done
    <3>3. QED
      BY <1>2, <2>2, <3>2, DueOnMore
  <2>3. QED
    BY <2>1, <2>2
<1>4. PlanSound(known, t)
  BY <1>2, <1>3 DEF PlanSound
<1>5. QED
  BY <1>1, <1>4

(* Of longer tuples: what the later writes rest on beyond what is known.   *)
LEMMA SoundFour ==
    ASSUME NEW known, NEW a, NEW b, NEW c, NEW d,
           WriteOK(known, a), WriteOK(known, b), WriteOK(known \cup FactsOf(a), c), WriteOK(known, d)
    PROVE  PlanSound(known, <<a, b, c, d>>)
<1>1. PICK t : t = <<a, b, c, d>>
  OBVIOUS
<1>2. IsSequence(t) /\ DOMAIN t = 1..4 /\ t[1] = a /\ t[2] = b /\ t[3] = c /\ t[4] = d
  BY <1>1, TupleIs
<1>3. ASSUME NEW i \in 1..4, NEW facts, known \subseteq facts, Done(t, i, facts)
      PROVE  WriteOK(facts, t[i])
  <2>1. CASE i = 3
    <3>1. 1 \in 1..(i - 1)
      BY <2>1
    <3>2. known \cup FactsOf(a) \subseteq facts
      BY <1>2, <1>3, <3>1 DEF Done
    <3>3. QED
      BY <1>2, <2>1, <3>2, DueOnMore
  <2>2. CASE i \in {1, 2, 4}
    BY <1>2, <1>3, <2>2, DueOnMore
  <2>3. QED
    BY <2>1, <2>2
<1>4. PlanSound(known, t)
  BY <1>2, <1>3 DEF PlanSound
<1>5. QED
  BY <1>1, <1>4

(* Five writes in a row.                                                   *)
LEMMA SoundFive ==
    ASSUME NEW known, NEW a, NEW b, NEW c, NEW d, NEW e,
           WriteOK(known, a), WriteOK(known, b), WriteOK(known, c),
           WriteOK(known \cup (FactsOf(a) \cup FactsOf(b) \cup FactsOf(c)), d), WriteOK(known, e)
    PROVE  PlanSound(known, <<a, b, c, d, e>>)
<1>1. PICK t : t = <<a, b, c, d, e>>
  OBVIOUS
<1>2. /\ IsSequence(t) /\ DOMAIN t = 1..5
      /\ t[1] = a /\ t[2] = b /\ t[3] = c /\ t[4] = d /\ t[5] = e
  BY <1>1, TupleIs
<1>3. ASSUME NEW i \in 1..5, NEW facts, known \subseteq facts, Done(t, i, facts)
      PROVE  WriteOK(facts, t[i])
  <2>1. CASE i = 4
    <3>1. {1, 2, 3} \subseteq 1..(i - 1)
      BY <2>1
    <3>2. known \cup (FactsOf(a) \cup FactsOf(b) \cup FactsOf(c)) \subseteq facts
      BY <1>2, <1>3, <3>1 DEF Done
    <3>3. QED
      BY <1>2, <2>1, <3>2, DueOnMore
  <2>2. CASE i \in {1, 2, 3, 5}
    BY <1>2, <1>3, <2>2, DueOnMore
  <2>3. QED
    BY <2>1, <2>2
<1>4. PlanSound(known, t)
  BY <1>2, <1>3 DEF PlanSound
<1>5. QED
  BY <1>1, <1>4

(* Seven writes in a row.                                                  *)
LEMMA SoundSeven ==
    ASSUME NEW known, NEW a, NEW b, NEW c, NEW d, NEW e, NEW f, NEW g,
           WriteOK(known, a), WriteOK(known, b), WriteOK(known \cup FactsOf(a), c),
           WriteOK(known, d), WriteOK(known, e), WriteOK(known, f), WriteOK(known, g)
    PROVE  PlanSound(known, <<a, b, c, d, e, f, g>>)
<1>1. PICK t : t = <<a, b, c, d, e, f, g>>
  OBVIOUS
<1>2. /\ IsSequence(t) /\ DOMAIN t = 1..7
      /\ t[1] = a /\ t[2] = b /\ t[3] = c /\ t[4] = d /\ t[5] = e /\ t[6] = f /\ t[7] = g
  BY <1>1, TupleIs
<1>3. ASSUME NEW i \in 1..7, NEW facts, known \subseteq facts, Done(t, i, facts)
      PROVE  WriteOK(facts, t[i])
  <2>1. CASE i = 3
    <3>1. 1 \in 1..(i - 1)
      BY <2>1
    <3>2. known \cup FactsOf(a) \subseteq facts
      BY <1>2, <1>3, <3>1 DEF Done
    <3>3. QED
      BY <1>2, <2>1, <3>2, DueOnMore
  <2>2. CASE i \in {1, 2, 4, 5, 6, 7}
    BY <1>2, <1>3, <2>2, DueOnMore
  <2>3. QED
    BY <2>1, <2>2
<1>4. PlanSound(known, t)
  BY <1>2, <1>3 DEF PlanSound
<1>5. QED
  BY <1>1, <1>4

(* A plan after another one: the facts of the first are known by then.     *)
LEMMA SoundThen ==
    ASSUME NEW known, NEW a, NEW b, PlanSound(known, a), PlanSound(known, b)
    PROVE  PlanSound(known, a \o b)
<1>1. PICK c : c = a \o b
  OBVIOUS
<1>2. /\ IsSequence(c) /\ Len(a) \in Nat /\ Len(b) \in Nat
      /\ DOMAIN a = 1..Len(a) /\ DOMAIN b = 1..Len(b) /\ DOMAIN c = 1..(Len(a) + Len(b))
      /\ \A i \in 1..Len(a) : c[i] = a[i]
      /\ \A i \in 1..Len(b) : c[Len(a) + i] = b[i]
  <2>1. Joins(a, b, a \o b)
    BY Joined DEF PlanSound
  <2>2. Joins(a, b, c)
    BY <1>1, <2>1
  <2>3. QED
    BY <2>2 DEF Joins
<1>3. ASSUME NEW i \in DOMAIN c, NEW facts, known \subseteq facts, Done(c, i, facts)
      PROVE  WriteOK(facts, c[i])
  <2>1. CASE i \in 1..Len(a)
    <3>1. \A j \in 1..(i - 1) : j \in 1..Len(a)
      BY <1>2, <2>1
    <3>2. Done(a, i, facts)
      BY <1>2, <1>3, <3>1 DEF Done
    <3>3. QED
      BY <1>2, <1>3, <2>1, <3>2 DEF PlanSound
  <2>2. CASE i \notin 1..Len(a)
    <3>1. PICK m : m = i - Len(a)
      OBVIOUS
    <3>2. m \in 1..Len(b) /\ i = Len(a) + m
      BY <1>2, <2>2, <3>1
    <3>3. \A j \in 1..(m - 1) : j \in 1..Len(b) /\ Len(a) + j \in 1..(i - 1)
      BY <1>2, <3>2
    <3>4. Done(b, m, facts)
      BY <1>2, <1>3, <3>3 DEF Done
    <3>5. QED
      BY <1>2, <1>3, <3>2, <3>4 DEF PlanSound
  <2>3. QED
    BY <2>1, <2>2
<1>4. PlanSound(known, c)
  BY <1>2, <1>3 DEF PlanSound
<1>5. QED
  BY <1>1, <1>4

(* A plan after one write, whose facts are known by then.                  *)
LEMMA SoundAfter ==
    ASSUME NEW known, NEW w, NEW b, WriteOK(known, w), PlanSound(known \cup FactsOf(w), b)
    PROVE  PlanSound(known, <<w>> \o b)
<1>1. PICK a, c : a = <<w>> /\ c = a \o b
  OBVIOUS
<1>2. IsSequence(a) /\ Len(a) = 1 /\ a[1] = w
  BY <1>1, TupleIs
<1>3. /\ IsSequence(c) /\ Len(b) \in Nat
      /\ DOMAIN b = 1..Len(b) /\ DOMAIN c = 1..(1 + Len(b))
      /\ c[1] = w
      /\ \A i \in 1..Len(b) : c[1 + i] = b[i]
  <2>1. Joins(a, b, a \o b)
    BY <1>2, Joined DEF PlanSound
  <2>2. Joins(a, b, c)
    BY <1>1, <2>1
  <2>3. 1 \in 1..1
    OBVIOUS
  <2>4. QED
    BY <1>2, <2>2, <2>3 DEF Joins
<1>4. ASSUME NEW i \in DOMAIN c, NEW facts, known \subseteq facts, Done(c, i, facts)
      PROVE  WriteOK(facts, c[i])
  <2>1. CASE i = 1
    BY <1>3, <1>4, <2>1, DueOnMore
  <2>2. CASE i # 1
    <3>1. PICK m : m = i - 1
      OBVIOUS
    <3>2. m \in 1..Len(b) /\ i = 1 + m /\ 1 \in 1..(i - 1)
      BY <1>3, <2>2, <3>1
    <3>3. \A j \in 1..(m - 1) : j \in 1..Len(b) /\ 1 + j \in 1..(i - 1)
      BY <1>3, <3>2
    <3>4. Done(b, m, facts)
      BY <1>3, <1>4, <3>3 DEF Done
    <3>5. known \cup FactsOf(w) \subseteq facts
      BY <1>3, <1>4, <3>2 DEF Done
    <3>6. QED
      BY <1>3, <3>2, <3>4, <3>5 DEF PlanSound
  <2>3. QED
    BY <2>1, <2>2
<1>5. PlanSound(known, c)
  BY <1>3, <1>4 DEF PlanSound
<1>6. QED
  BY <1>1, <1>5

(* The first write of a plan is due, and the rest is a plan after it.      *)
LEMMA SoundStep ==
    ASSUME NEW known, NEW a, PlanSound(known, a), a # <<>>,
           NEW more, known \subseteq more, FactsOf(Head(a)) \subseteq more
    PROVE  WriteOK(known, Head(a)) /\ PlanSound(more, Tail(a))
<1>1. PICK b, w : b = Tail(a) /\ w = Head(a)
  OBVIOUS
<1>2. IsSequence(a)
  BY DEF PlanSound
<1>3. /\ Len(a) \in Nat /\ 1 \in DOMAIN a /\ DOMAIN a = 1..Len(a) /\ w = a[1]
      /\ IsSequence(b) /\ DOMAIN b = 1..(Len(a) - 1)
      /\ \A i \in DOMAIN b : b[i] = a[i + 1] /\ i + 1 \in DOMAIN a
  BY <1>1, <1>2, TailIs
<1>5. WriteOK(known, w)
  <2>1. 1 \in DOMAIN a /\ Done(a, 1, known)
    BY <1>3 DEF Done
  <2>2. QED
    BY <1>3, <2>1 DEF PlanSound
<1>6. ASSUME NEW i \in DOMAIN b, NEW facts, more \subseteq facts, Done(b, i, facts)
      PROVE  WriteOK(facts, b[i])
  <2>1. PICK k : k = i + 1
    OBVIOUS
  <2>2. k \in DOMAIN a /\ b[i] = a[k] /\ i = k - 1
    BY <1>3, <2>1
  <2>3. ASSUME NEW j \in 1..(k - 1)
        PROVE  FactsOf(a[j]) \subseteq facts
    <3>1. CASE j = 1
      BY <1>1, <1>3, <1>6, <3>1
    <3>2. CASE j # 1
      <4>1. PICK m : m = j - 1
        OBVIOUS
      <4>2. m \in 1..(i - 1) /\ m \in DOMAIN b /\ j = m + 1
        BY <1>3, <2>2, <3>2, <4>1
      <4>3. QED
        BY <1>3, <1>6, <4>2 DEF Done
    <3>3. QED
      BY <3>1, <3>2
  <2>4. known \subseteq facts /\ Done(a, k, facts)
    BY <1>6, <2>3 DEF Done
  <2>5. QED
    BY <2>2, <2>4 DEF PlanSound
<1>7. PlanSound(more, b)
  BY <1>3, <1>6 DEF PlanSound
<1>8. QED
  BY <1>1, <1>5, <1>7

(* Sound plans in turn are a sound plan.                                   *)
LEMMA SoundFlattened ==
    ASSUME NEW known, NEW s, IsSequence(s), \A i \in DOMAIN s : PlanSound(known, s[i])
    PROVE  PlanSound(known, FlattenSeq(s))
<1>1. PICK t : t = FlattenSeq(s)
  OBVIOUS
<1>2. Gathers(s, Len(s), t) /\ DOMAIN s = 1..Len(s)
  BY <1>1, FlattenGathers, SequenceIs DEF PlanSound
<1>3. ASSUME NEW l \in DOMAIN t, NEW facts, known \subseteq facts, Done(t, l, facts)
      PROVE  WriteOK(facts, t[l])
  <2>1. PICK i \in DOMAIN s : \E j \in DOMAIN s[i] : t[l] = s[i][j] /\ Behind(s, t, i, j, l)
    BY <1>2 DEF Gathers
  <2>2. PICK j \in DOMAIN s[i] : t[l] = s[i][j] /\ Behind(s, t, i, j, l)
    BY <2>1
  <2>3. Done(s[i], j, facts)
    BY <1>3, <2>2 DEF Done, Behind
  <2>4. QED
    BY <1>3, <2>2, <2>3 DEF PlanSound
<1>4. PlanSound(known, t)
  BY <1>2, <1>3 DEF PlanSound, Gathers
<1>5. QED
  BY <1>1, <1>4

-----------------------------------------------------------------------------
(* The files.                                                              *)

(* The facts are the categories and the identifiers of what is filed.      *)
LEMMA FactsAre ==
    ASSUME NEW fs, NEW f
    PROVE  f \in FactsIn(fs) <=>
             \E c \in AllCategories \ {"gates"} : \E x \in fs[c] : f = <<c, x.id>>
<1>1. ASSUME NEW c
      PROVE  f \in FactsOf(Write(c, fs[c])) <=> c # "gates" /\ \E x \in fs[c] : f = <<c, x.id>>
  BY DEF FactsOf, Write
<1>2. f \in FactsIn(fs) <=> \E c \in AllCategories : f \in FactsOf(Write(c, fs[c]))
  BY DEF FactsIn
<1>3. QED
  BY <1>1, <1>2, Zenon

(* A fact is filed. *)
LEMMA Filed ==
    ASSUME NEW fs, NEW c \in AllCategories \ {"gates"}, NEW i, <<c, i>> \in FactsIn(fs)
    PROVE  \E x \in fs[c] : x.id = i
<1>1. PICK d \in AllCategories \ {"gates"} : \E x \in fs[d] : <<c, i>> = <<d, x.id>>
  BY FactsAre
<1>2. QED
  BY <1>1

(* What is filed rests on what is filed.                                   *)
LEMMA FilesDue ==
    ASSUME NEW fs, FilesOK(fs), NEW c \in AllCategories
    PROVE  /\ c \in Counted => IsFiniteSet(fs[c])
           /\ \A x \in fs[c] : Rests(FactsIn(fs), c, x)
BY DEF FilesOK, WriteOK, Write

(* A write changes the files of its own category.                          *)
LEMMA PutIs ==
    ASSUME NEW fs, fs = [c \in AllCategories |-> fs[c]], NEW w, w.category \in AllCategories
    PROVE  /\ Put(fs, w) = [c \in AllCategories |-> Put(fs, w)[c]]
           /\ \A c \in AllCategories :
                Put(fs, w)[c] = IF c = w.category THEN Replacing(c, fs[c], w.items) ELSE fs[c]
BY DEF Put

(* A write that is due keeps the files in order, and no fact is lost.      *)
LEMMA PutKeeps ==
    ASSUME NEW fs, FilesOK(fs), NEW w, WriteOK(FactsIn(fs), w)
    PROVE  /\ FilesOK(Put(fs, w))
           /\ FactsIn(fs) \subseteq FactsIn(Put(fs, w)) /\ FactsOf(w) \subseteq FactsIn(Put(fs, w))
<1>1. PICK g : g = Put(fs, w)
  OBVIOUS
<1>2. w.category \in AllCategories /\ fs = [c \in AllCategories |-> fs[c]]
  BY DEF WriteOK, FilesOK
<1>3. /\ g = [c \in AllCategories |-> g[c]]
      /\ \A c \in AllCategories :
           g[c] = IF c = w.category THEN Replacing(c, fs[c], w.items) ELSE fs[c]
  BY <1>1, <1>2, PutIs
<1>4. ASSUME NEW c \in AllCategories \ {"gates"}, NEW x \in fs[c]
      PROVE  <<c, x.id>> \in FactsIn(g)
  <2>1. CASE x \in g[c]
    BY <2>1, FactsAre
  <2>2. CASE x \notin g[c]
    <3>1. c = w.category
      BY <1>3, <2>2
    <3>2. PICK b \in w.items : x.id = b.id
      BY <1>3, <2>2, <3>1 DEF Replacing, Key
    <3>3. b \in g[c]
      BY <1>3, <3>1 DEF Replacing
    <3>4. <<c, b.id>> \in FactsIn(g)
      BY <3>3, FactsAre
    <3>5. QED
      BY <3>2, <3>4
  <2>3. QED
    BY <2>1, <2>2
<1>5. FactsIn(fs) \subseteq FactsIn(g)
  <2> SUFFICES ASSUME NEW f \in FactsIn(fs) PROVE f \in FactsIn(g)
    OBVIOUS
  <2>1. PICK c \in AllCategories \ {"gates"} : \E x \in fs[c] : f = <<c, x.id>>
    BY FactsAre
  <2>2. QED
    BY <1>4, <2>1
<1>6. FactsOf(w) \subseteq FactsIn(g)
  <2> SUFFICES ASSUME NEW f \in FactsOf(w) PROVE f \in FactsIn(g)
    OBVIOUS
  <2>1. w.category # "gates" /\ \E x \in w.items : f = <<w.category, x.id>>
    BY DEF FactsOf
  <2>2. w.items \subseteq g[w.category]
    BY <1>2, <1>3 DEF Replacing
  <2>3. QED
    BY <1>2, <2>1, <2>2, FactsAre
<1>7. ASSUME NEW c \in AllCategories
      PROVE  WriteOK(FactsIn(g), Write(c, g[c]))
  <2>1. g[c] \subseteq fs[c] \cup (IF c = w.category THEN w.items ELSE {})
    BY <1>3 DEF Replacing
  <2>2. WriteOK(FactsIn(g), w)
    BY <1>5, DueOnMore
  <2>3. /\ c \in Counted => IsFiniteSet(fs[c])
        /\ \A x \in fs[c] : Rests(FactsIn(fs), c, x)
    BY FilesDue
  <2>4. \A x \in fs[c] : Rests(FactsIn(g), c, x)
    BY <1>5, <2>3, RestsOnMore
  <2>5. \A x \in g[c] : Rests(FactsIn(g), c, x)
    BY <2>1, <2>2, <2>4 DEF WriteOK
  <2>6. ASSUME c \in Counted
        PROVE  IsFiniteSet(g[c])
    <3>1. IsFiniteSet(IF c = w.category THEN w.items ELSE {})
      BY <2>2, <2>6, FS_EmptySet DEF WriteOK
    <3>2. IsFiniteSet(fs[c] \cup (IF c = w.category THEN w.items ELSE {}))
      BY <2>3, <2>6, <3>1, FS_Union
    <3>3. QED
      BY <2>1, <3>2, FS_Subset
  <2>7. QED
    BY <2>5, <2>6 DEF WriteOK, Write
<1>8. FilesOK(g)
  BY <1>3, <1>7 DEF FilesOK
<1>9. QED
  BY <1>1, <1>5, <1>6, <1>8

(* The shelf after each of some writes.                                    *)
Shelves(fs, writes, n, g) ==
    g = [i \in 0..n |-> IF i = 0 THEN fs ELSE Put(g[i - 1], writes[i])]

(* One more write can be done.                                             *)
LEMMA ShelvesStep ==
    ASSUME NEW fs, NEW writes, NEW n \in Nat, n # 0, NEW h, Shelves(fs, writes, n - 1, h)
    PROVE  \E g : Shelves(fs, writes, n, g)
<1> DEFINE g == [i \in 0..n |-> IF i = n THEN Put(h[n - 1], writes[n]) ELSE h[i]]
<1>1. \A i \in 0..(n - 1) : h[i] = IF i = 0 THEN fs ELSE Put(h[i - 1], writes[i])
  BY DEF Shelves
<1>2. ASSUME NEW i \in 0..n
      PROVE  g[i] = IF i = 0 THEN fs ELSE Put(g[i - 1], writes[i])
  <2>1. i # 0 => i - 1 \in 0..n /\ i - 1 # n
    OBVIOUS
  <2>2. i # 0 => g[i - 1] = h[i - 1]
    BY <2>1
  <2>3. CASE i = n
    <3>1. g[i] = Put(h[i - 1], writes[i])
      BY <2>3
    <3> HIDE DEF g
    <3>2. QED
      BY <2>2, <2>3, <3>1
  <2>4. CASE i # n
    <3>1. g[i] = h[i] /\ i \in 0..(n - 1)
      BY <2>4
    <3> HIDE DEF g
    <3>2. QED
      BY <1>1, <2>2, <3>1
  <2>5. QED
    BY <2>3, <2>4
<1>3. g = [i \in 0..n |-> g[i]]
  OBVIOUS
<1> HIDE DEF g
<1>4. Shelves(fs, writes, n, g)
  BY <1>2, <1>3 DEF Shelves
<1>5. QED
  BY <1>4

(* So all of them can.                                                     *)
LEMMA ShelvesExist ==
    ASSUME NEW fs, NEW writes, NEW n \in Nat
    PROVE  \E g : Shelves(fs, writes, n, g)
<1> DEFINE B == {m \in Nat : ~ \E g : Shelves(fs, writes, m, g)}
<1>1. SUFFICES ASSUME B # {} PROVE FALSE
  OBVIOUS
<1>2. PICK m \in B : \A k \in B : m <= k
  <2>1. B \subseteq Nat
    OBVIOUS
  <2> HIDE DEF B
  <2>2. QED
    BY <1>1, <2>1, LeastNatural
<1>3. m # 0
  <2> DEFINE g == [i \in 0..0 |-> fs]
  <2>1. \A i \in 0..0 : i = 0 /\ g[i] = fs
    OBVIOUS
  <2>2. g = [i \in 0..0 |-> g[i]]
    OBVIOUS
  <2> HIDE DEF g
  <2>3. Shelves(fs, writes, 0, g)
    BY <2>1, <2>2 DEF Shelves
  <2>4. QED
    BY <2>3
<1>4. m - 1 \in Nat /\ ~ (m <= m - 1)
  BY <1>3
<1>5. m - 1 \notin B
  BY <1>2, <1>4
<1>6. PICK h : Shelves(fs, writes, m - 1, h)
  BY <1>4, <1>5
<1>7. QED
  BY <1>3, <1>6, ShelvesStep

(* A sound plan keeps the files in order to its end.                       *)
LEMMA ShelvesKeep ==
    ASSUME NEW fs, FilesOK(fs), NEW writes, PlanSound(FactsIn(fs), writes),
           NEW g, Shelves(fs, writes, Len(writes), g), Len(writes) \in Nat, DOMAIN writes = 1..Len(writes)
    PROVE  \A i \in 0..Len(writes) :
              /\ FilesOK(g[i]) /\ FactsIn(fs) \subseteq FactsIn(g[i])
              /\ \A j \in 1..i : FactsOf(writes[j]) \subseteq FactsIn(g[i])
<1> DEFINE Kept(i) == /\ FilesOK(g[i]) /\ FactsIn(fs) \subseteq FactsIn(g[i])
                      /\ \A j \in 1..i : FactsOf(writes[j]) \subseteq FactsIn(g[i])
<1> DEFINE B == {i \in 0..Len(writes) : ~ Kept(i)}
<1>1. SUFFICES ASSUME B # {} PROVE FALSE
  OBVIOUS
<1>2. PICK m \in B : \A k \in B : m <= k
  <2>1. B \subseteq Nat
    OBVIOUS
  <2> HIDE DEF B
  <2>2. QED
    BY <1>1, <2>1, LeastNatural
<1>3. m \in 0..Len(writes) /\ ~ Kept(m)
  OBVIOUS
<1>4. \A i \in 0..Len(writes) : g[i] = IF i = 0 THEN fs ELSE Put(g[i - 1], writes[i])
  BY DEF Shelves
<1>5. CASE m = 0
  <2>1. g[0] = fs
    BY <1>3, <1>4, <1>5
  <2>2. QED
    BY <1>3, <1>5, <2>1
<1>6. CASE m # 0
  <2>1. PICK k \in Nat : k = m - 1 /\ m = k + 1
    BY <1>3, <1>6
  <2>2. k \in 0..Len(writes) /\ ~ (m <= k)
    BY <1>3, <2>1
  <2>3. k \notin B
    BY <1>2, <2>2
  <2>4. Kept(k)
    BY <2>2, <2>3
  <2>5. PICK w : w = writes[m]
    OBVIOUS
  <2>6. g[m] = Put(g[k], w)
    BY <1>3, <1>4, <1>6, <2>1, <2>5
  <2>7. WriteOK(FactsIn(g[k]), w)
    <3>1. Done(writes, m, FactsIn(g[k]))
      BY <2>1, <2>4 DEF Done
    <3>2. m \in DOMAIN writes
      BY <1>3, <1>6
    <3>3. QED
      BY <2>4, <2>5, <3>1, <3>2 DEF PlanSound
  <2>8. /\ FilesOK(g[m]) /\ FactsIn(g[k]) \subseteq FactsIn(g[m])
        /\ FactsOf(w) \subseteq FactsIn(g[m])
    BY <2>4, <2>6, <2>7, PutKeeps
  <2>9. \A j \in 1..m : j \in 1..k \/ j = m
    BY <2>1
  <2>10. Kept(m)
    BY <2>4, <2>5, <2>8, <2>9
  <2>11. QED
    BY <1>3, <2>10
<1>7. QED
  BY <1>5, <1>6

(* The files after a sound plan are in order.                              *)
LEMMA PutAllKeeps ==
    ASSUME NEW fs, FilesOK(fs), NEW writes, PlanSound(FactsIn(fs), writes)
    PROVE  FilesOK(PutAll(fs, writes))
<1>1. Len(writes) \in Nat /\ DOMAIN writes = 1..Len(writes)
  BY SequenceIs DEF PlanSound
<1>2. PICK g : g = CHOOSE h : Shelves(fs, writes, Len(writes), h)
  OBVIOUS
<1>3. Shelves(fs, writes, Len(writes), g)
  BY <1>1, <1>2, ShelvesExist
<1>4. PutAll(fs, writes) = g[Len(writes)]
  BY <1>2 DEF PutAll, Shelves
<1>5. Len(writes) \in 0..Len(writes)
  BY <1>1
<1>6. FilesOK(g[Len(writes)])
  BY <1>1, <1>3, <1>5, ShelvesKeep
<1>7. QED
  BY <1>4, <1>6

-----------------------------------------------------------------------------
(* Gates, outcomes and plans in turn.                                      *)

(* What nothing else is asked of.                                          *)
Plain == {"gates", "outcomes", "source_references", "companies", "price_series_metadata",
          "parsed_text", "segments", "feature_values", "signal_scores"}

(* Those can be filed at any time.                                         *)
LEMMA PlainDue ==
    ASSUME NEW known, NEW c \in Plain, NEW items
    PROVE  WriteOK(known, Write(c, items))
<1>1. /\ c \in AllCategories /\ c \notin Counted /\ c \notin Categories
      /\ c \notin {"raw", "documents", "evidence_spans", "hypotheses", "evidence_assessments",
                   "counter_hypotheses", "research_briefs", "features", "signals"}
  BY DEF Plain, AllCategories, Counted, Categories
<1>2. \A x : Rests(known, c, x)
  BY <1>1 DEF Rests
<1>3. QED
  BY <1>1, <1>2 DEF WriteOK, Write

(* So can the outcome of an item.                                          *)
LEMMA OutcomeDue ==
    ASSUME NEW known, NEW workflow, NEW item, NEW status
    PROVE  WriteOK(known, Outcome(workflow, item, status))
<1>1. "outcomes" \in Plain
  BY DEF Plain
<1>2. QED
  BY <1>1, PlainDue DEF Outcome

(* Whatever a gate decides, a gated plan is sound when its branches are.   *)
LEMMA GatedSound ==
    ASSUME NEW known, NEW gate, NEW writes, NEW outcome, NEW failure,
           PlanSound(known, writes), PlanSound(known, outcome), WriteOK(known, failure)
    PROVE  PlanSound(known, Gated(gate, writes, outcome, failure).writes)
<1>1. PICK w : w = Write("gates", {gate})
  OBVIOUS
<1>2. \A facts : WriteOK(facts, w)
  <2>1. "gates" \in Plain
    BY DEF Plain
  <2>2. QED
    BY <1>1, <2>1, PlainDue
<1>3. CASE Refused(gate)
  <2>1. PlanSound(known, <<w, failure>>)
    BY <1>2, DueOnMore, SoundTwo
  <2>2. Gated(gate, writes, outcome, failure).writes = <<w, failure>>
    BY <1>1, <1>3 DEF Gated, Plan
  <2>3. QED
    BY <2>1, <2>2
<1>4. CASE ~Refused(gate)
  <2>1. PlanSound(known \cup FactsOf(w), writes)
    BY SoundOnMore
  <2>2. PICK a : a = <<w>> \o writes
    OBVIOUS
  <2>3. PlanSound(known, a)
    BY <1>2, <2>1, <2>2, SoundAfter
  <2>4. PlanSound(known, a \o outcome)
    BY <2>3, SoundThen
  <2>5. Gated(gate, writes, outcome, failure).writes = a \o outcome
    BY <1>1, <1>4, <2>2 DEF Gated, Plan
  <2>6. QED
    BY <2>4, <2>5
<1>5. QED
  BY <1>3, <1>4

(* Sound plans one after another, the first that raises ending them.       *)
LEMMA InTurnSound ==
    ASSUME NEW known, NEW plans, IsSequence(plans),
           \A i \in DOMAIN plans : PlanSound(known, plans[i].writes)
    PROVE  PlanSound(known, InTurn(plans).writes)
<1>1. Len(plans) \in Nat /\ DOMAIN plans = 1..Len(plans)
  BY SequenceIs
<1>2. PICK raising : raising = {i \in DOMAIN plans : plans[i].raises}
  OBVIOUS
<1>3. PICK last : last = IF raising = {} THEN Len(plans) ELSE Min(raising)
  OBVIOUS
<1>4. last \in Nat /\ last <= Len(plans)
  <2>1. CASE raising = {}
    BY <1>1, <1>3, <2>1
  <2>2. CASE raising # {}
    <3>1. raising \subseteq 1..Len(plans) /\ raising \subseteq Nat
      BY <1>1, <1>2
    <3>2. \E n \in raising : \A m \in raising : n <= m
      BY <2>2, <3>1, LeastNatural
    <3>3. Min(raising) \in raising
      BY <3>2 DEF Min
    <3>4. last = Min(raising)
      BY <1>3, <2>2
    <3>5. last \in 1..Len(plans)
      BY <3>1, <3>3, <3>4
    <3>6. QED
      BY <1>1, <3>5
  <2>3. QED
    BY <2>1, <2>2
<1>5. PICK s : s = [i \in 1..last |-> plans[i].writes]
  OBVIOUS
<1>6. IsSequence(s) /\ DOMAIN s = 1..last
  <2>1. s = [i \in 1..last |-> s[i]]
    BY <1>5
  <2>2. QED
    BY <1>4, <2>1, SequenceOf
<1>7. \A i \in DOMAIN s : PlanSound(known, s[i])
  BY <1>1, <1>4, <1>5
<1>8. PlanSound(known, FlattenSeq(s))
  BY <1>6, <1>7, SoundFlattened
<1>9. InTurn(plans).writes = FlattenSeq(s)
  BY <1>2, <1>3, <1>5 DEF InTurn, Plan
<1>10. QED
  BY <1>8, <1>9

(* Plans one for each item of a sequence.                                  *)
LEMMA PlansAre ==
    ASSUME NEW items, IsSequence(items), NEW plans, plans = [i \in DOMAIN items |-> plans[i]]
    PROVE  /\ IsSequence(plans) /\ DOMAIN plans = DOMAIN items
           /\ \A i \in DOMAIN items : items[i] \in ToSet(items)
<1>1. Len(items) \in Nat /\ DOMAIN items = 1..Len(items)
  BY SequenceIs
<1>2. plans = [i \in 1..Len(items) |-> plans[i]]
  BY <1>1
<1>3. QED
  BY <1>1, <1>2, SequenceOf DEF ToSet

-----------------------------------------------------------------------------
(* Step 1.                                                                 *)

(* Ingesting a fixture files its raw text and source before its document.  *)
LEMMA IngestSound ==
    ASSUME NEW known, NEW f, TextIsRead(f)
    PROVE  PlanSound(known, ingest_fixture(f).writes)
<1>1. PICK raw, source, companies, documents, prices :
        /\ raw = Write("raw", {[id |-> f.name, kind |-> f.kind, text |-> f.text]})
        /\ source = Write("source_references", {_build_source_reference(f)})
        /\ companies = Write("companies", _normalize_company(f))
        /\ documents = Write("documents", _document_model(f))
        /\ prices = Write("price_series_metadata", PriceSeries(f))
  OBVIOUS
<1>2. {"source_references", "companies", "price_series_metadata"} \subseteq Plain
  BY DEF Plain
<1>3. /\ \A facts : WriteOK(facts, source) /\ WriteOK(facts, companies) /\ WriteOK(facts, prices)
  BY <1>1, <1>2, PlainDue
<1>4. WriteOK(known, raw)
  <2>1. \A x \in raw.items : TextIsRead(x)
    BY <1>1 DEF Write, TextIsRead
  <2>2. \A x \in raw.items : Rests(known, "raw", x)
    BY <2>1 DEF Rests, Categories
  <2>3. raw.category = "raw" /\ "raw" \notin Counted /\ "raw" \in AllCategories
    BY <1>1 DEF Write, Counted, AllCategories, Categories
  <2>4. QED
    BY <2>2, <2>3 DEF WriteOK
<1>5. PICK facts : facts = known \cup FactsOf(raw)
  OBVIOUS
<1>6. WriteOK(facts \cup FactsOf(source), documents)
  <2>1. <<"raw", f.name>> \in FactsOf(raw)
    BY <1>1 DEF FactsOf, Write
  <2>2. <<"source_references", f.name>> \in FactsOf(source)
    BY <1>1 DEF FactsOf, Write, _build_source_reference
  <2>3. IsFiniteSet(_document_model(f)) /\ \A d \in _document_model(f) : d.id = f.name
    <3>1. CASE f.kind \notin DocumentKind
      BY <3>1, FS_EmptySet DEF _document_model
    <3>2. CASE f.kind \in DocumentKind
      <4>1. PICK d : _document_model(f) = {d}
        BY <3>2, Zenon DEF _document_model
      <4>2. \A x \in _document_model(f) : x.id = f.name
        BY <3>2 DEF _document_model
      <4>3. QED
        BY <4>1, <4>2, FS_Singleton
    <3>3. QED
      BY <3>1, <3>2
  <2>4. documents.category = "documents" /\ documents.items = _document_model(f)
    BY <1>1 DEF Write
  <2>5. \A d \in documents.items : DocumentOK(facts \cup FactsOf(source), d)
    BY <1>5, <2>1, <2>2, <2>3, <2>4 DEF DocumentOK
  <2>6. \A d \in documents.items : Rests(facts \cup FactsOf(source), "documents", d)
    BY <2>5 DEF Rests, Categories
  <2>7. QED
    BY <2>3, <2>4, <2>6 DEF WriteOK, AllCategories
<1>7. PlanSound(facts, _persist_normalized_artifacts(f))
  <2>1. PlanSound(facts, <<source, companies, documents, prices>>)
    BY <1>3, <1>6, SoundFour
  <2>2. QED
    BY <1>1, <2>1 DEF _persist_normalized_artifacts
<1>8. PICK gate, done, failed :
        /\ gate = validate_ingestion_normalization(
                      _build_source_reference(f), _document_model(f), _normalize_company(f))
        /\ done = <<Outcome("fixture_ingestion", f.name, "succeeded")>>
        /\ failed = Outcome("fixture_ingestion", f.name, "failed")
  OBVIOUS
<1>9. PICK writes : writes = Gated(gate, _persist_normalized_artifacts(f), done, failed).writes
  OBVIOUS
<1>10. PlanSound(facts, writes)
  BY <1>7, <1>8, <1>9, OutcomeDue, SoundOne, GatedSound
<1>11. PlanSound(known, <<raw>> \o writes)
  BY <1>4, <1>5, <1>10, SoundAfter
<1>12. ingest_fixture(f).writes = <<raw>> \o writes
  <2>1. PICK rest : rest = Gated(gate, _persist_normalized_artifacts(f), done, failed)
    OBVIOUS
  <2>2. "writes" \in DOMAIN rest
    BY <2>1 DEF Gated, Plan
  <2>3. ingest_fixture(f) = [rest EXCEPT !.writes = <<raw>> \o @]
    BY <1>1, <1>8, <2>1 DEF ingest_fixture
  <2>4. QED
    BY <1>9, <2>1, <2>2, <2>3
<1>13. QED
  BY <1>11, <1>12

(* So does ingesting all of them, one after another.                       *)
LEMMA NormalizationSound ==
    ASSUME NEW known, NEW fixtures, IsSequence(fixtures), \A f \in ToSet(fixtures) : TextIsRead(f)
    PROVE  PlanSound(known, run_fixture_ingestion_pipeline(fixtures).writes)
<1>1. CASE fixtures = <<>>
  BY <1>1, SoundNothing DEF run_fixture_ingestion_pipeline, Plan
<1>2. CASE fixtures # <<>>
  <2>1. PICK plans : plans = [i \in DOMAIN fixtures |-> ingest_fixture(fixtures[i])]
    OBVIOUS
  <2>2. IsSequence(plans) /\ DOMAIN plans = DOMAIN fixtures
        /\ \A i \in DOMAIN fixtures : fixtures[i] \in ToSet(fixtures)
    <3>1. plans = [i \in DOMAIN fixtures |-> plans[i]]
      BY <2>1
    <3>2. QED
      BY <3>1, PlansAre
  <2>3. \A i \in DOMAIN plans : PlanSound(known, plans[i].writes)
    BY <2>1, <2>2, IngestSound
  <2>4. PlanSound(known, InTurn(plans).writes)
    BY <2>2, <2>3, InTurnSound
  <2>5. QED
    BY <1>2, <2>1, <2>4 DEF run_fixture_ingestion_pipeline
<1>3. QED
  BY <1>1, <1>2

-----------------------------------------------------------------------------
(* Text, segments and spans.                                               *)

(* Items that are kept or left out one by one.                             *)
LEMMA ThoseAre ==
    ASSUME NEW items, IsSequence(items), NEW marks, marks = [i \in DOMAIN items |-> marks[i]],
           \A i \in DOMAIN items : marks[i] = <<items[i]>> \/ marks[i] = <<>>
    PROVE  /\ IsSequence(FlattenSeq(marks))
           /\ \A l \in DOMAIN FlattenSeq(marks) : \E i \in DOMAIN items : FlattenSeq(marks)[l] = items[i]
<1>1. IsSequence(marks) /\ DOMAIN marks = DOMAIN items
  BY PlansAre
<1>2. ASSUME NEW x PROVE IsSequence(<<x>>) /\ ToSet(<<x>>) = {x}
  <2>1. PICK s : s = <<x>>
    OBVIOUS
  <2>2. DOMAIN s = {1} /\ s[1] = x
    BY <2>1
  <2>3. ToSet(s) = {x}
    BY <2>2 DEF ToSet
  <2>4. QED
    BY <2>1, <2>3, TupleIs
<1>3. IsSequence(<<>>) /\ ToSet(<<>>) = {}
  BY DEF IsSequence, ToSet
<1>4. ASSUME NEW i \in DOMAIN marks
      PROVE  IsSequence(marks[i]) /\ ToSet(marks[i]) \subseteq {items[i]}
  BY <1>1, <1>2, <1>3
<1>5. PICK t : t = FlattenSeq(marks)
  OBVIOUS
<1>6. /\ IsSequence(t)
      /\ \A l \in DOMAIN t : \E i \in DOMAIN marks : t[l] \in ToSet(marks[i])
  BY <1>1, <1>4, <1>5, FlattenElements
<1>7. \A l \in DOMAIN t : \E i \in DOMAIN items : t[l] = items[i]
  BY <1>1, <1>4, <1>6
<1>8. QED
  BY <1>5, <1>6, <1>7

(* Parts of a text whose sentences are in order.                           *)
Read(parts) == IsSequence(parts) /\ \A i \in DOMAIN parts : IsSequence(parts[i].says)

(* Leaving out what is empty keeps the order.                              *)
LEMMA FilledAre == ASSUME NEW parts, Read(parts) PROVE Read(Filled(parts))
<1>1. PICK marks : marks = [i \in DOMAIN parts |-> Only(parts[i].says # <<>>, parts[i])]
  OBVIOUS
<1>2. PICK t : t = FlattenSeq(marks)
  OBVIOUS
<1>3. /\ marks = [i \in DOMAIN parts |-> marks[i]]
      /\ \A i \in DOMAIN parts : marks[i] = <<parts[i]>> \/ marks[i] = <<>>
  BY <1>1 DEF Only
<1>4. /\ IsSequence(t)
      /\ \A l \in DOMAIN t : \E i \in DOMAIN parts : t[l] = parts[i]
  BY <1>2, <1>3, ThoseAre DEF Read
<1>5. Filled(parts) = t
  BY <1>1, <1>2 DEF Filled, Those
<1>6. Read(t)
  BY <1>4 DEF Read
<1>7. QED
  BY <1>5, <1>6

(* The sentences of all parts, in order.                                   *)
LEMMA SaysAre == ASSUME NEW parts, Read(parts) PROVE IsSequence(Says(parts)) /\ Len(Says(parts)) \in Nat
<1>1. PICK s : s = [i \in DOMAIN parts |-> parts[i].says]
  OBVIOUS
<1>2. IsSequence(s) /\ \A i \in DOMAIN s : IsSequence(s[i])
  <2>1. s = [i \in DOMAIN parts |-> s[i]]
    BY <1>1
  <2>2. QED
    BY <1>1, <2>1, PlansAre DEF Read
<1>3. PICK t : t = FlattenSeq(s)
  OBVIOUS
<1>4. IsSequence(t) /\ Len(t) \in Nat
  BY <1>2, <1>3, FlattenElements, SequenceIs
<1>5. Says(parts) = t
  BY <1>1, <1>3 DEF Says
<1>6. QED
  BY <1>4, <1>5

(* Where a part begins is a natural number.                                *)
LEMMA AheadIs ==
    ASSUME NEW parts, Read(parts), NEW i \in 1..(Len(parts) + 1)
    PROVE  Ahead(parts, i) \in Nat
<1>1. Len(parts) \in Nat /\ DOMAIN parts = 1..Len(parts) /\ parts \in Seq(ToSet(parts))
  BY SequenceIs DEF Read, IsSequence
<1>2. PICK s : s = SubSeq(parts, 1, i - 1)
  OBVIOUS
<1>3. s = [j \in 1..(i - 1) |-> parts[j]]
  BY <1>1, <1>2
<1>4. IsSequence(s) /\ DOMAIN s = 1..(i - 1)
  <2>1. s = [j \in 1..(i - 1) |-> s[j]] /\ i - 1 \in Nat
    BY <1>3
  <2>2. QED
    BY <2>1, SequenceOf
<1>5. Read(s)
  BY <1>1, <1>3, <1>4 DEF Read
<1>6. QED
  BY <1>2, <1>5, SaysAre DEF Ahead

(* What is read of a raw text has such parts.                              *)
LEMMA BodyIs ==
    ASSUME NEW d, NEW raw, TextIsRead(raw), raw.kind = d.kind
    PROVE  Read(BodyOf(d, raw)) /\ IsSequence(HeadlineOf(d, raw))
<1>1. PICK text : text = raw.text
  OBVIOUS
<1>2. Len(text) \in Nat /\ DOMAIN text = 1..Len(text) /\ text \in Seq(ToSet(text))
      /\ (text = <<>> <=> Len(text) = 0)
  BY <1>1, SequenceIs DEF TextIsRead, IsSequence
<1>3. Read(text)
  <2>1. \A i \in DOMAIN text : text[i] \in ToSet(text)
    BY DEF ToSet
  <2>2. QED
    BY <1>1, <2>1 DEF TextIsRead, Read
<1>4. ASSUME d.kind = "news_item"
      PROVE  Read(Tail(text)) /\ IsSequence(text[1].says)
  <2>1. text # <<>>
    BY <1>1, <1>4 DEF TextIsRead
  <2>2. PICK t : t = Tail(text)
    OBVIOUS
  <2>3. /\ IsSequence(t) /\ 1 \in DOMAIN text
        /\ \A i \in DOMAIN t : t[i] = text[i + 1] /\ i + 1 \in DOMAIN text
    BY <1>3, <2>1, <2>2, TailIs DEF Read
  <2>4. Read(t)
    BY <1>3, <2>3 DEF Read
  <2>5. QED
    BY <1>3, <2>2, <2>3, <2>4 DEF Read
<1>5. Read(BodyOf(d, raw))
  BY <1>1, <1>3, <1>4, FilledAre DEF BodyOf
<1>6. IsSequence(HeadlineOf(d, raw))
  <2>1. IsSequence(<<>>)
    BY DEF IsSequence
  <2>2. QED
    BY <1>1, <1>4, <2>1 DEF HeadlineOf
<1>7. QED
  BY <1>5, <1>6

(* Spans of offsets, and segments of a document.                           *)
Spanned(spans) ==
    IsSequence(spans) /\ \A i \in DOMAIN spans : spans[i].start \in Int /\ spans[i].stop \in Int
SegmentOf(d, s) == s.id[1] = d.id /\ s.start \in Int /\ s.stop \in Int
SegmentsOf(d, s) == IsSequence(s) /\ \A i \in DOMAIN s : SegmentOf(d, s[i])

(* Each paragraph has its offsets.                                         *)
LEMMA ParagraphSpans ==
    ASSUME NEW parts, Read(parts), NEW from \in Nat
    PROVE  Spanned(_paragraph_spans(parts, from))
<1>1. PICK s : s = _paragraph_spans(parts, from)
  OBVIOUS
<1>2. Len(parts) \in Nat /\ DOMAIN parts = 1..Len(parts)
  BY SequenceIs DEF Read
<1>3. s = [i \in DOMAIN parts |-> s[i]]
      /\ \A i \in DOMAIN parts : /\ s[i].start = from + Ahead(parts, i)
                                 /\ s[i].stop = from + Ahead(parts, i + 1)
  BY <1>1 DEF _paragraph_spans
<1>4. ASSUME NEW i \in DOMAIN parts
      PROVE  s[i].start \in Int /\ s[i].stop \in Int
  <2>1. i \in 1..(Len(parts) + 1) /\ i + 1 \in 1..(Len(parts) + 1)
    BY <1>2
  <2>2. PICK k : k = i + 1
    OBVIOUS
  <2>3. Ahead(parts, i) \in Nat /\ Ahead(parts, k) \in Nat
    BY <2>1, <2>2, AheadIs
  <2>4. QED
    BY <1>3, <2>2, <2>3
<1>5. Spanned(s)
  BY <1>3, <1>4, PlansAre DEF Spanned, Read
<1>6. QED
  BY <1>1, <1>5

(* So has the turn of each speaker.                                        *)
LEMMA TurnSpans ==
    ASSUME NEW parts, Read(parts)
    PROVE  Spanned(_speaker_turn_spans(parts))
<1>1. Len(parts) \in Nat /\ DOMAIN parts = 1..Len(parts)
  BY SequenceIs DEF Read
<1>2. PICK places : places = [i \in DOMAIN parts |-> i]
  OBVIOUS
<1>3. PICK marks : marks = [i \in DOMAIN places |-> Only(parts[places[i]].speaker # None, places[i])]
  OBVIOUS
<1>4. PICK headers : headers = FlattenSeq(marks)
  OBVIOUS
<1>5. IsSequence(places) /\ DOMAIN places = 1..Len(parts) /\ \A i \in DOMAIN places : places[i] = i
  <2>1. places = [i \in 1..Len(parts) |-> places[i]]
    BY <1>1, <1>2
  <2>2. QED
    BY <1>1, <1>2, <2>1, SequenceOf
<1>6. IsSequence(headers) /\ \A l \in DOMAIN headers : headers[l] \in 1..Len(parts)
  <2>1. marks = [i \in DOMAIN places |-> marks[i]]
        /\ \A i \in DOMAIN places : marks[i] = <<places[i]>> \/ marks[i] = <<>>
    BY <1>3 DEF Only
  <2>2. /\ IsSequence(headers)
        /\ \A l \in DOMAIN headers : \E i \in DOMAIN places : headers[l] = places[i]
    BY <1>4, <1>5, <2>1, ThoseAre
  <2>3. QED
    BY <1>5, <2>2
<1>7. Len(headers) \in Nat /\ DOMAIN headers = 1..Len(headers)
  BY <1>6, SequenceIs
<1>8. PICK stop : stop = [j \in DOMAIN headers |->
                             IF j = Len(headers) THEN Len(parts) + 1 ELSE headers[j + 1]]
  OBVIOUS
<1>9. PICK s : s = _speaker_turn_spans(parts)
  OBVIOUS
<1>10. s = [j \in DOMAIN headers |->
               [start |-> Ahead(parts, headers[j]), stop |-> Ahead(parts, stop[j])]]
  BY <1>2, <1>3, <1>4, <1>8, <1>9 DEF _speaker_turn_spans, Those
<1>11. ASSUME NEW j \in DOMAIN headers
       PROVE  s[j].start \in Int /\ s[j].stop \in Int
  <2>1. headers[j] \in 1..(Len(parts) + 1)
    BY <1>1, <1>6
  <2>2. stop[j] \in 1..(Len(parts) + 1)
    <3>1. CASE j = Len(headers)
      BY <1>1, <1>8, <3>1
    <3>2. CASE j # Len(headers)
      <4>1. PICK k : k = j + 1
        OBVIOUS
      <4>2. k \in DOMAIN headers /\ stop[j] = headers[k]
        BY <1>7, <1>8, <3>2, <4>1
      <4>3. QED
        BY <1>1, <1>6, <4>2
    <3>3. QED
      BY <3>1, <3>2
  <2>3. PICK a, b : a = headers[j] /\ b = stop[j]
    OBVIOUS
  <2>4. Ahead(parts, a) \in Nat /\ Ahead(parts, b) \in Nat
    BY <2>1, <2>2, <2>3, AheadIs
  <2>5. QED
    BY <1>10, <2>3, <2>4
<1>12. s = [j \in DOMAIN headers |-> s[j]]
  BY <1>10
<1>13. Spanned(s)
  BY <1>6, <1>11, <1>12, PlansAre DEF Spanned
<1>14. QED
  BY <1>9, <1>13

(* A segment that is made belongs to its document.                         *)
LEMMA SegmentIs ==
    ASSUME NEW d, NEW kind, NEW index, NEW parent, NEW span, span.start \in Int, span.stop \in Int
    PROVE  SegmentOf(d, _make_segment(d, kind, index, parent, span))
BY DEF SegmentOf, _make_segment

(* So do the children of a segment.                                        *)
LEMMA ChildrenAre ==
    ASSUME NEW d, NEW kind, NEW spans, Spanned(spans), NEW first, NEW parent
    PROVE  SegmentsOf(d, Children(d, kind, spans, first, parent))
<1>1. PICK s : s = Children(d, kind, spans, first, parent)
  OBVIOUS
<1>2. /\ s = [i \in DOMAIN spans |-> s[i]]
      /\ \A i \in DOMAIN spans : s[i] = _make_segment(d, kind, first + i - 1, parent.id, spans[i])
  BY <1>1 DEF Children
<1>3. \A i \in DOMAIN spans : SegmentOf(d, s[i])
  BY <1>2, SegmentIs DEF Spanned
<1>4. SegmentsOf(d, s)
  BY <1>2, <1>3, PlansAre DEF SegmentsOf, Spanned
<1>5. QED
  BY <1>1, <1>4

(* More segments after some.                                               *)
LEMMA SegmentsThen ==
    ASSUME NEW d, NEW a, SegmentsOf(d, a), NEW b, SegmentsOf(d, b)
    PROVE  SegmentsOf(d, a \o b)
<1>1. PICK c : c = a \o b
  OBVIOUS
<1>2. Joins(a, b, c)
  <2>1. Joins(a, b, a \o b)
    BY Joined DEF SegmentsOf
  <2>2. QED
    BY <1>1, <2>1
<1>3. ASSUME NEW i \in DOMAIN c
      PROVE  SegmentOf(d, c[i])
  <2>1. CASE i \in 1..Len(a)
    BY <1>2, <2>1 DEF Joins, SegmentsOf
  <2>2. CASE i \notin 1..Len(a)
    <3>1. PICK m : m = i - Len(a)
      OBVIOUS
    <3>2. m \in 1..Len(b) /\ i = Len(a) + m
      BY <1>2, <2>2, <3>1 DEF Joins
    <3>3. c[i] = b[m]
      BY <1>2, <3>2 DEF Joins
    <3>4. QED
      BY <1>2, <3>2, <3>3 DEF Joins, SegmentsOf
  <2>3. QED
    BY <2>1, <2>2
<1>4. SegmentsOf(d, c)
  BY <1>2, <1>3 DEF Joins, SegmentsOf
<1>5. QED
  BY <1>1, <1>4

(* One or two segments.                                                    *)
LEMMA SegmentsFew ==
    ASSUME NEW d, NEW a, SegmentOf(d, a), NEW b, SegmentOf(d, b)
    PROVE  SegmentsOf(d, <<a>>) /\ SegmentsOf(d, <<a, b>>)
<1>1. PICK s, t : s = <<a>> /\ t = <<a, b>>
  OBVIOUS
<1>2. /\ IsSequence(s) /\ DOMAIN s = 1..1 /\ s[1] = a
      /\ IsSequence(t) /\ DOMAIN t = 1..2 /\ t[1] = a /\ t[2] = b
  BY <1>1, TupleIs
<1>3. SegmentsOf(d, s) /\ SegmentsOf(d, t)
  BY <1>2 DEF SegmentsOf
<1>4. QED
  BY <1>1, <1>3

(* All that a document is segmented into belongs to it.                    *)
LEMMA SegmentsAre ==
    ASSUME NEW d, NEW text, Len(text.canonical_text) \in Nat, text.headline \in Nat,
           NEW parts, Read(parts)
    PROVE  SegmentsOf(d, segment_document(d, text, parts))
<1>1. PICK whole, top, rest :
        /\ whole = [start |-> 0, stop |-> Len(text.canonical_text)]
        /\ top = [start |-> 0, stop |-> text.headline]
        /\ rest = [start |-> text.headline, stop |-> Len(text.canonical_text)]
  OBVIOUS
<1>2. /\ whole.start \in Int /\ whole.stop \in Int /\ top.start \in Int /\ top.stop \in Int
      /\ rest.start \in Int /\ rest.stop \in Int
  BY <1>1
<1>3. PICK section, headline, body :
        /\ section = _make_segment(d, "section", 0, None, whole)
        /\ headline = _make_segment(d, "headline", 0, None, top)
        /\ body = _make_segment(d, "body", 1, None, rest)
  OBVIOUS
<1>4. SegmentOf(d, section) /\ SegmentOf(d, headline) /\ SegmentOf(d, body)
  BY <1>2, <1>3, SegmentIs
<1>5. SegmentsOf(d, <<section>>) /\ SegmentsOf(d, <<headline, body>>)
  BY <1>4, SegmentsFew
<1>6. SegmentsOf(d, _segment_filing(d, text, parts))
  <2>1. Spanned(_paragraph_spans(parts, 0))
    BY ParagraphSpans
  <2>2. PICK c : c = Children(d, "paragraph", _paragraph_spans(parts, 0), 1, section)
    OBVIOUS
  <2>3. SegmentsOf(d, <<section>> \o c)
    BY <1>5, <2>1, <2>2, ChildrenAre, SegmentsThen
  <2>4. _segment_filing(d, text, parts) = <<section>> \o c
    BY <1>1, <1>3, <2>2 DEF _segment_filing
  <2>5. QED
    BY <2>3, <2>4
<1>7. SegmentsOf(d, _segment_transcript(d, text, parts))
  <2>1. Spanned(_speaker_turn_spans(parts))
    BY TurnSpans
  <2>2. PICK c : c = Children(d, "speaker_turn", _speaker_turn_spans(parts), 1, section)
    OBVIOUS
  <2>3. SegmentsOf(d, <<section>> \o c)
    BY <1>5, <2>1, <2>2, ChildrenAre, SegmentsThen
  <2>4. _segment_transcript(d, text, parts) = <<section>> \o c
    BY <1>1, <1>3, <2>2 DEF _segment_transcript
  <2>5. QED
    BY <2>3, <2>4
<1>8. SegmentsOf(d, _segment_news(d, text, parts))
  <2>1. Spanned(_paragraph_spans(parts, text.headline))
    BY ParagraphSpans
  <2>2. PICK c : c = Children(d, "paragraph", _paragraph_spans(parts, text.headline), 2, body)
    OBVIOUS
  <2>3. SegmentsOf(d, <<headline, body>> \o c)
    BY <1>5, <2>1, <2>2, ChildrenAre, SegmentsThen
  <2>4. _segment_news(d, text, parts) = <<headline, body>> \o c
    BY <1>1, <1>3, <2>2 DEF _segment_news
  <2>5. QED
    BY <2>3, <2>4
<1>9. QED
  BY <1>6, <1>7, <1>8 DEF segment_document

(* So do the segments that have no children.                               *)
LEMMA LeavesAre ==
    ASSUME NEW d, NEW segments, SegmentsOf(d, segments)
    PROVE  SegmentsOf(d, _leaf_segments(segments))
<1>1. PICK parents : parents = {segments[i].parent : i \in DOMAIN segments}
  OBVIOUS
<1>2. PICK marks : marks = [i \in DOMAIN segments |->
          Only(segments[i].id \notin parents /\ segments[i].kind # "section", segments[i])]
  OBVIOUS
<1>3. PICK t : t = FlattenSeq(marks)
  OBVIOUS
<1>4. /\ marks = [i \in DOMAIN segments |-> marks[i]]
      /\ \A i \in DOMAIN segments : marks[i] = <<segments[i]>> \/ marks[i] = <<>>
  BY <1>2 DEF Only
<1>5. /\ IsSequence(t)
      /\ \A l \in DOMAIN t : \E i \in DOMAIN segments : t[l] = segments[i]
  BY <1>3, <1>4, ThoseAre DEF SegmentsOf
<1>6. _leaf_segments(segments) = t
  BY <1>1, <1>2, <1>3 DEF _leaf_segments, Those
<1>7. SegmentsOf(d, t)
  BY <1>5 DEF SegmentsOf
<1>8. QED
  BY <1>6, <1>7

(* The spans of a document know where they come from.                      *)
SpanOf(d, s) == s.id[1][1] = d.id /\ s.document = d.id

(* So do the spans that are extracted from those.                          *)
LEMMA SpansAre ==
    ASSUME NEW d, NEW text, NEW leaves, SegmentsOf(d, leaves)
    PROVE  /\ IsSequence(SpansOf(d, text, leaves))
           /\ \A x \in ToSet(SpansOf(d, text, leaves)) : SpanOf(d, x)
<1>1. PICK rows : rows = [i \in DOMAIN leaves |->
          [j \in 1..(leaves[i].stop - leaves[i].start) |->
              _build_evidence_span(d, leaves[i], leaves[i].start + j,
                                   text.canonical_text[leaves[i].start + j])]]
  OBVIOUS
<1>2. PICK t : t = FlattenSeq(rows)
  OBVIOUS
<1>3. IsSequence(rows) /\ DOMAIN rows = DOMAIN leaves
  <2>1. rows = [i \in DOMAIN leaves |-> rows[i]]
    BY <1>1
  <2>2. QED
    BY <2>1, PlansAre DEF SegmentsOf
<1>4. ASSUME NEW i \in DOMAIN leaves
      PROVE  IsSequence(rows[i]) /\ \A x \in ToSet(rows[i]) : SpanOf(d, x)
  <2>1. SegmentOf(d, leaves[i])
    BY DEF SegmentsOf
  <2>2. PICK row, k : row = rows[i] /\ k = leaves[i].stop - leaves[i].start
    OBVIOUS
  <2>3. k \in Int
    BY <2>1, <2>2 DEF SegmentOf
  <2>4. /\ row = [j \in 1..k |-> row[j]]
        /\ \A j \in 1..k : row[j] = _build_evidence_span(d, leaves[i], leaves[i].start + j,
                                                        text.canonical_text[leaves[i].start + j])
    BY <1>1, <2>2
  <2>5. PICK n \in Nat : 1..n = 1..k
    <3>1. CASE k \in Nat
      BY <3>1
    <3>2. CASE k \notin Nat
      <4>1. 1..k = 1..0
        BY <2>3, <3>2
      <4>2. QED
        BY <4>1
    <3>3. QED
      BY <3>1, <3>2
  <2>6. IsSequence(row) /\ DOMAIN row = 1..k
    <3>1. row = [j \in 1..n |-> row[j]]
      BY <2>4, <2>5
    <3>2. QED
      BY <2>5, <3>1, SequenceOf
  <2>7. ASSUME NEW j \in 1..k PROVE SpanOf(d, row[j])
    BY <2>1, <2>4 DEF SpanOf, SegmentOf, _build_evidence_span
  <2>8. \A x \in ToSet(row) : SpanOf(d, x)
    BY <2>6, <2>7, PlaceOf
  <2>9. QED
    BY <2>2, <2>6, <2>8
<1>5. IsSequence(t) /\ \A x \in ToSet(t) : \E i \in DOMAIN rows : x \in ToSet(rows[i])
  BY <1>2, <1>3, <1>4, FlattenElements
<1>6. \A x \in ToSet(t) : SpanOf(d, x)
  BY <1>3, <1>4, <1>5
<1>7. SpansOf(d, text, leaves) = t
  BY <1>1, <1>2 DEF SpansOf
<1>8. QED
  BY <1>5, <1>6, <1>7

-----------------------------------------------------------------------------
(* Finite sets.                                                            *)

(* An image of a finite set is finite.                                     *)
LEMMA FiniteImage ==
    ASSUME NEW S, IsFiniteSet(S), NEW f, f = [x \in S |-> f[x]]
    PROVE  IsFiniteSet({f[x] : x \in S})
<1>1. PICK T : T = {f[x] : x \in S}
  OBVIOUS
<1>2. f \in [S -> T] /\ \A t \in T : \E x \in S : f[x] = t
  BY <1>1
<1>3. f \in Surjection(S, T)
  BY <1>2 DEF Surjection
<1>4. QED
  BY <1>1, <1>3, FS_Surjection

(* A sequence has finitely many elements.                                  *)
LEMMA SequenceIsFinite == ASSUME NEW s, IsSequence(s) PROVE IsFiniteSet(ToSet(s))
<1>1. Len(s) \in Nat /\ DOMAIN s = 1..Len(s) /\ s = [i \in 1..Len(s) |-> s[i]]
  BY SequenceIs
<1>2. IsFiniteSet(1..Len(s))
  BY <1>1, FS_Interval
<1>3. IsFiniteSet({s[i] : i \in 1..Len(s)})
  BY <1>1, <1>2, FiniteImage
<1>4. QED
  BY <1>1, <1>3 DEF ToSet

-----------------------------------------------------------------------------
(* What is extracted.                                                      *)

(* What is extracted in a category.                                        *)
ExtractsOf(category, S) == IsFiniteSet(S) /\ \A a \in S : ExtractOK(category, a)

(* It can be filed.                                                        *)
LEMMA ExtractDue ==
    ASSUME NEW known, NEW c \in Categories, NEW S, ExtractsOf(c, S)
    PROVE  WriteOK(known, Write(c, S))
<1>1. /\ c \in AllCategories /\ c \notin {"raw", "documents", "evidence_spans", "hypotheses",
             "evidence_assessments", "counter_hypotheses", "research_briefs", "features", "signals"}
  BY DEF Categories, AllCategories
<1>2. \A x \in S : Rests(known, c, x)
  BY <1>1 DEF Rests, ExtractsOf
<1>3. QED
  BY <1>1, <1>2 DEF WriteOK, Write, ExtractsOf

(* What is extracted from a span names the document of the span.           *)
LEMMA ExtractedIs ==
    ASSUME NEW d, NEW s, SpanOf(d, s), NEW class
    PROVE  LET a == Extracted(d, s, class) IN a.document = a.span[1][1] /\ a.class = class
BY DEF Extracted, SpanOf

(* The first of the cues that is in a sentence names one of the classes.   *)
LEMMA FirstClassIs ==
    ASSUME NEW classes, IsSequence(classes), NEW sentence, NEW otherwise
    PROVE  \/ FirstClass(classes, sentence, otherwise) = otherwise
           \/ \E i \in DOMAIN classes : FirstClass(classes, sentence, otherwise) = classes[i][1]
<1>1. PICK marks : marks = [i \in DOMAIN classes |-> Only(classes[i][2] \cap sentence # {}, classes[i])]
  OBVIOUS
<1>2. PICK hits : hits = FlattenSeq(marks)
  OBVIOUS
<1>3. /\ marks = [i \in DOMAIN classes |-> marks[i]]
      /\ \A i \in DOMAIN classes : marks[i] = <<classes[i]>> \/ marks[i] = <<>>
  BY <1>1 DEF Only
<1>4. IsSequence(hits) /\ \A l \in DOMAIN hits : \E i \in DOMAIN classes : hits[l] = classes[i]
  BY <1>2, <1>3, ThoseAre
<1>5. FirstClass(classes, sentence, otherwise) = IF hits = <<>> THEN otherwise ELSE hits[1][1]
  BY <1>1, <1>2 DEF FirstClass, Those
<1>6. CASE hits # <<>>
  <2>1. 1 \in DOMAIN hits
    BY <1>4, <1>6, TailIs
  <2>2. QED
    BY <1>4, <1>5, <1>6, <2>1
<1>7. QED
  BY <1>5, <1>6

(* A direction that is found is one that has a score.                      *)
LEMMA GuidanceClass ==
    ASSUME NEW sentence, _guidance_direction_and_topic(sentence) # None
    PROVE  _guidance_direction_and_topic(sentence) \in DOMAIN GUIDANCE_SCORE_MAP
<1>1. PICK cues : cues = GuidanceCues
  OBVIOUS
<1>2. /\ IsSequence(cues) /\ DOMAIN cues = 1..5
      /\ \A i \in DOMAIN cues : cues[i][1] \in {"maintained", "raised", "lowered", "withdrew", "initiated"}
  BY <1>1, TupleIs DEF GuidanceCues
<1>3. _guidance_direction_and_topic(sentence) = FirstClass(cues, sentence, None)
  BY <1>1 DEF _guidance_direction_and_topic
<1>4. \E i \in DOMAIN cues : _guidance_direction_and_topic(sentence) = cues[i][1]
  BY <1>2, <1>3, FirstClassIs
<1>5. DOMAIN GUIDANCE_SCORE_MAP = {"maintained", "raised", "lowered", "withdrew", "initiated"}
  BY DEF GUIDANCE_SCORE_MAP
<1>6. QED
  BY <1>2, <1>4, <1>5

(* What is extracted from spans of one document, by the class of each.     *)
ExtractsBy(d, S, class) == {Extracted(d, s, class[s]) : s \in S}

(* What is extracted, one artifact for each of some spans.                 *)
LEMMA ExtractsAre ==
    ASSUME NEW category, NEW d, NEW S, IsFiniteSet(S), \A s \in S : SpanOf(d, s), NEW class,
           category = "guidance_changes" => \A s \in S : class[s] \in DOMAIN GUIDANCE_SCORE_MAP
    PROVE  ExtractsOf(category, ExtractsBy(d, S, class))
<1>1. PICK f : f = [s \in S |-> Extracted(d, s, class[s])]
  OBVIOUS
<1>2. f = [s \in S |-> f[s]] /\ \A s \in S : f[s] = Extracted(d, s, class[s])
  BY <1>1
<1>3. IsFiniteSet({f[s] : s \in S})
  BY <1>2, FiniteImage
<1>4. {f[s] : s \in S} = ExtractsBy(d, S, class)
  BY <1>2 DEF ExtractsBy
<1>5. \A s \in S : ExtractOK(category, Extracted(d, s, class[s]))
  BY ExtractedIs DEF ExtractOK
<1>6. QED
  BY <1>3, <1>4, <1>5 DEF ExtractsOf, ExtractsBy

(* A sentence has finitely many marks of tone.                             *)
LEMMA MarkersAreFinite == ASSUME NEW sentence PROVE IsFiniteSet(MarkersOf(sentence))
<1>1. DOMAIN ToneCues = 1..4
  BY DEF ToneCues
<1>2. PICK S : S = {j \in DOMAIN ToneCues : ToneCues[j][2] \cap sentence # {}}
  OBVIOUS
<1>3. IsFiniteSet(S)
  <2>1. IsFiniteSet(1..4)
    <3>1. 1 \in Int /\ 4 \in Int
      OBVIOUS
    <3>2. QED
      BY <3>1, FS_Interval
  <2>2. S \in SUBSET (1..4)
    BY <1>1, <1>2
  <2>3. QED
    BY <2>1, <2>2, FS_Subset
<1>4. PICK f : f = [i \in S |-> ToneCues[i][1]]
  OBVIOUS
<1>5. f = [i \in S |-> f[i]] /\ {f[i] : i \in S} = MarkersOf(sentence)
  BY <1>2, <1>4 DEF MarkersOf
<1>6. QED
  BY <1>3, <1>5, FiniteImage

(* What is extracted from the spans of a document, category by category.   *)
LEMMA ExtractionIs ==
    ASSUME NEW d, NEW spans, IsFiniteSet(spans), \A s \in spans : SpanOf(d, s)
    PROVE  \A c \in Categories : ExtractsOf(c, extract_evidence_objects(d, spans)[c])
<1>1. PICK e : e = extract_evidence_objects(d, spans)
  OBVIOUS
<1>2. ExtractsOf("claims", e.claims)
  <2>1. PICK S : S = {x \in spans : _classify_claim_type(x.text) # None}
    OBVIOUS
  <2>2. PICK class : class = [s \in S |-> _classify_claim_type(s.text)]
    OBVIOUS
  <2>3. IsFiniteSet(S) /\ \A s \in S : SpanOf(d, s)
    BY <2>1, FS_Subset
  <2>4. ExtractsOf("claims", ExtractsBy(d, S, class))
    BY <2>3, ExtractsAre
  <2>5. e.claims = ExtractsBy(d, S, class)
    BY <1>1, <2>1, <2>2 DEF extract_evidence_objects, ExtractedBy, ExtractsBy
  <2>6. QED
    BY <2>4, <2>5
<1>3. ExtractsOf("risk_factors", e.risk_factors)
  <2>1. PICK S : S = {x \in spans : _classify_risk_category(x.text) # None}
    OBVIOUS
  <2>2. PICK class : class = [s \in S |-> _classify_risk_category(s.text)]
    OBVIOUS
  <2>3. IsFiniteSet(S) /\ \A s \in S : SpanOf(d, s)
    BY <2>1, FS_Subset
  <2>4. ExtractsOf("risk_factors", ExtractsBy(d, S, class))
    BY <2>3, ExtractsAre
  <2>5. e.risk_factors = ExtractsBy(d, S, class)
    BY <1>1, <2>1, <2>2 DEF extract_evidence_objects, ExtractedBy, ExtractsBy
  <2>6. QED
    BY <2>4, <2>5
<1>4. ExtractsOf("guidance_changes", e.guidance_changes)
  <2>1. PICK S : S = {x \in spans : _guidance_direction_and_topic(x.text) # None}
    OBVIOUS
  <2>2. PICK class : class = [s \in S |-> _guidance_direction_and_topic(s.text)]
    OBVIOUS
  <2>3. IsFiniteSet(S) /\ \A s \in S : SpanOf(d, s)
    BY <2>1, FS_Subset
  <2>4. \A s \in S : class[s] \in DOMAIN GUIDANCE_SCORE_MAP
    BY <2>1, <2>2, GuidanceClass
  <2>5. ExtractsOf("guidance_changes", ExtractsBy(d, S, class))
    BY <2>3, <2>4, ExtractsAre
  <2>6. e.guidance_changes = ExtractsBy(d, S, class)
    BY <1>1, <2>1, <2>2 DEF extract_evidence_objects, ExtractedBy, ExtractsBy
  <2>7. QED
    BY <2>5, <2>6
<1>5. ExtractsOf("tone_markers", e.tone_markers)
  <2>1. PICK of : of = [s \in spans |-> {Extracted(d, s, m) : m \in MarkersOf(s.text)}]
    OBVIOUS
  <2>2. of = [s \in spans |-> of[s]] /\ e.tone_markers = UNION {of[s] : s \in spans}
    BY <1>1, <2>1 DEF extract_evidence_objects
  <2>3. ASSUME NEW s \in spans
        PROVE  ExtractsOf("tone_markers", of[s])
    <3>1. PICK f, M : M = MarkersOf(s.text) /\ f = [m \in M |-> Extracted(d, s, m)]
      OBVIOUS
    <3>2. f = [m \in M |-> f[m]] /\ {f[m] : m \in M} = of[s]
      BY <2>1, <3>1
    <3>3. IsFiniteSet(of[s])
      BY <3>1, <3>2, MarkersAreFinite, FiniteImage
    <3>4. \A a \in of[s] : ExtractOK("tone_markers", a)
      BY <2>1, ExtractedIs DEF ExtractOK
    <3>5. QED
      BY <3>3, <3>4 DEF ExtractsOf
  <2>4. IsFiniteSet({of[s] : s \in spans})
    BY <2>2, FiniteImage
  <2>5. IsFiniteSet(UNION {of[s] : s \in spans})
    BY <2>3, <2>4, FS_UNION DEF ExtractsOf
  <2>6. QED
    BY <2>2, <2>3, <2>5 DEF ExtractsOf
<1>6. QED
  BY <1>1, <1>2, <1>3, <1>4, <1>5 DEF Categories

-----------------------------------------------------------------------------
(* Step 2.                                                                 *)

(* The evidence of a parsed text is filed after the text and the spans.    *)
LEMMA BundleSound ==
    ASSUME NEW known, NEW d, NEW text, text.id = d.id, NEW segments,
           NEW spans, IsSequence(spans), \A x \in ToSet(spans) : SpanOf(d, x),
           {<<c, d.id>> : c \in {"documents", "source_references", "raw"}} \subseteq known
    PROVE  PlanSound(known, SpansPlan(d, text, segments, spans).writes)
<1>1. PICK extracted : extracted = extract_evidence_objects(d, ToSet(spans))
  OBVIOUS
<1>2. PICK bundle : bundle = build_document_evidence_bundle(d, text, segments, spans, extracted)
  OBVIOUS
<1>3. bundle.text = text /\ bundle.segments = segments /\ bundle.spans = spans
  BY <1>2 DEF build_document_evidence_bundle
<1>4. PICK a, b, c, e1, e2, e3, e4 :
        /\ a = Write("parsed_text", {bundle.text})
        /\ b = Write("segments", ToSet(bundle.segments))
        /\ c = Write("evidence_spans", ToSet(bundle.spans))
        /\ e1 = Write("claims", extracted.claims)
        /\ e2 = Write("risk_factors", extracted.risk_factors)
        /\ e3 = Write("guidance_changes", extracted.guidance_changes)
        /\ e4 = Write("tone_markers", extracted.tone_markers)
  OBVIOUS
<1>5. WriteOK(known, a) /\ WriteOK(known, b)
  <2>1. {"parsed_text", "segments"} \subseteq Plain
    BY DEF Plain
  <2>2. QED
    BY <1>4, <2>1, PlainDue
<1>6. WriteOK(known \cup FactsOf(a), c)
  <2>1. <<"parsed_text", d.id>> \in FactsOf(a)
    BY <1>3, <1>4 DEF FactsOf, Write
  <2>2. DocumentFacts(d.id) \subseteq known \cup FactsOf(a)
    BY <2>1 DEF DocumentFacts
  <2>3. \A x \in c.items : SpanOK(known \cup FactsOf(a), x)
    BY <1>3, <1>4, <2>2 DEF SpanOK, SpanOf, Write
  <2>4. \A x \in c.items : Rests(known \cup FactsOf(a), "evidence_spans", x)
    BY <2>3 DEF Rests, Categories
  <2>5. c.category = "evidence_spans" /\ "evidence_spans" \in AllCategories
        /\ "evidence_spans" \notin Counted
    BY <1>4 DEF Write, AllCategories, Counted, Categories
  <2>6. QED
    BY <2>4, <2>5 DEF WriteOK
<1>7. WriteOK(known, e1) /\ WriteOK(known, e2) /\ WriteOK(known, e3) /\ WriteOK(known, e4)
  <2>1. \A category \in Categories : ExtractsOf(category, extracted[category])
    BY <1>1, SequenceIsFinite, ExtractionIs
  <2>2. {"claims", "risk_factors", "guidance_changes", "tone_markers"} \subseteq Categories
    BY DEF Categories
  <2>3. QED
    BY <1>4, <2>1, <2>2, ExtractDue
<1>8. PICK writes : writes = _persist_bundle(bundle, extracted)
  OBVIOUS
<1>9. PlanSound(known, writes)
  <2>1. PlanSound(known, <<a, b, c, e1, e2, e3, e4>>)
    BY <1>5, <1>6, <1>7, SoundSeven
  <2>2. writes = <<a, b, c, e1, e2, e3, e4>>
    BY <1>4, <1>8 DEF _persist_bundle
  <2>3. QED
    BY <2>1, <2>2
<1>10. PICK gate, done, failed :
         /\ gate = validate_evidence_bundle(bundle)
         /\ done = <<Outcome("evidence_extraction", bundle.id, "succeeded")>>
         /\ failed = Outcome("evidence_extraction", bundle.id, "failed")
  OBVIOUS
<1>11. PlanSound(known, Gated(gate, writes, done, failed).writes)
  BY <1>9, <1>10, OutcomeDue, SoundOne, GatedSound
<1>12. SpansPlan(d, text, segments, spans) = Gated(gate, writes, done, failed)
  BY <1>1, <1>2, <1>8, <1>10 DEF SpansPlan, BundlePlan
<1>13. QED
  BY <1>11, <1>12

(* A text that can be read, and one that is blank.                         *)
LEMMA TextSound ==
    ASSUME NEW known, NEW d, NEW raw, TextIsRead(raw), raw.kind = d.kind,
           {<<c, d.id>> : c \in {"documents", "source_references", "raw"}} \subseteq known
    PROVE  PlanSound(known, TextPlan(d, raw, build_parsed_document_text(d, raw)).writes)
<1>1. PICK text, parts : text = build_parsed_document_text(d, raw) /\ parts = BodyOf(d, raw)
  OBVIOUS
<1>2. CASE Blank(d, raw)
  <2>1. PlanSound(known, <<Outcome("evidence_extraction", d.id, "failed")>>)
    BY OutcomeDue, SoundOne
  <2>2. QED
    BY <1>2, <2>1 DEF TextPlan, Plan
<1>3. CASE ~Blank(d, raw)
  <2>1. PICK headline, says : headline = HeadlineOf(d, raw) /\ says = Says(parts)
    OBVIOUS
  <2>2. IsSequence(headline) /\ Read(parts) /\ IsSequence(says)
    BY <1>1, <2>1, BodyIs, SaysAre
  <2>3. PICK all : all = headline \o says
    OBVIOUS
  <2>4. Len(all) \in Nat /\ Len(headline) \in Nat
    <3>1. Joins(headline, says, headline \o says)
      BY <2>2, Joined
    <3>2. Joins(headline, says, all)
      BY <2>3, <3>1
    <3>3. QED
      BY <3>2 DEF Joins
  <2>5. text.id = d.id /\ text.canonical_text = all /\ text.headline = Len(headline)
    BY <1>1, <2>1, <2>3 DEF build_parsed_document_text
  <2>6. PICK segments : segments = segment_document(d, text, parts)
    OBVIOUS
  <2>7. SegmentsOf(d, segments)
    BY <2>2, <2>4, <2>5, <2>6, SegmentsAre
  <2>8. PICK spans : spans = SpansOf(d, text, _leaf_segments(segments))
    OBVIOUS
  <2>9. IsSequence(spans) /\ \A x \in ToSet(spans) : SpanOf(d, x)
    BY <2>7, <2>8, LeavesAre, SpansAre
  <2>10. PlanSound(known, SpansPlan(d, text, segments, spans).writes)
    BY <2>5, <2>9, BundleSound
  <2>11. TextPlan(d, raw, text) = SpansPlan(d, text, segments, spans)
    BY <1>1, <1>3, <2>6, <2>8 DEF TextPlan, SegmentsPlan
  <2>12. QED
    BY <1>1, <2>10, <2>11
<1>4. QED
  BY <1>2, <1>3

(* A document on file, whatever becomes of it.                             *)
LEMMA DocumentSound ==
    ASSUME NEW fs, FilesOK(fs), NEW d \in fs["documents"]
    PROVE  PlanSound(FactsIn(fs), extract_document_evidence(fs, d).writes)
<1>1. PICK known, failed : known = FactsIn(fs)
                           /\ failed = Outcome("evidence_extraction", d.id, "failed")
  OBVIOUS
<1>2. PICK sources, raws :
        /\ sources = {s \in fs.source_references : s.id = d.source}
        /\ raws = {r \in fs.raw : r.id = d.source /\ r.kind = d.kind}
  OBVIOUS
<1>3. PICK gate, raw : /\ gate = CHOOSE g \in {validate_parsing_inputs(d, s) : s \in sources} : TRUE
                       /\ raw = CHOOSE r \in raws : TRUE
  OBVIOUS
<1>4. CASE sources = {} \/ raws = {}
  <2>1. PlanSound(known, <<failed>>)
    BY <1>1, OutcomeDue, SoundOne
  <2>2. extract_document_evidence(fs, d) = Plan(<<failed>>, TRUE)
    BY <1>1, <1>2, <1>4 DEF extract_document_evidence
  <2>3. QED
    BY <1>1, <2>1, <2>2 DEF Plan
<1>5. CASE ~(sources = {} \/ raws = {})
  <2>1. raw \in fs.raw /\ raw.kind = d.kind
    BY <1>2, <1>3, <1>5
  <2>2. TextIsRead(raw) /\ DocumentOK(known, d)
    <3>1. "raw" \in AllCategories /\ "documents" \in AllCategories
      BY DEF AllCategories
    <3>2. Rests(known, "raw", raw) /\ Rests(known, "documents", d)
      BY <1>1, <2>1, <3>1, FilesDue
    <3>3. QED
      BY <3>2 DEF Rests
  <2>3. <<"documents", d.id>> \in known
    <3>1. "documents" \in AllCategories \ {"gates"}
      BY DEF AllCategories
    <3>2. QED
      BY <1>1, <3>1, FactsAre
  <2>4. {<<c, d.id>> : c \in {"documents", "source_references", "raw"}} \subseteq known
    BY <2>2, <2>3 DEF DocumentOK
  <2>5. PICK p, q : /\ p = Gated(gate, <<>>, <<>>, failed)
                    /\ q = TextPlan(d, raw, build_parsed_document_text(d, raw))
    OBVIOUS
  <2>6. PlanSound(known, p.writes) /\ PlanSound(known, q.writes)
    BY <1>1, <2>1, <2>2, <2>4, <2>5, SoundNothing, OutcomeDue, GatedSound, TextSound
  <2>7. PICK plans : plans = <<p, q>>
    OBVIOUS
  <2>8. IsSequence(plans) /\ \A i \in DOMAIN plans : PlanSound(known, plans[i].writes)
    BY <2>6, <2>7, TupleIs
  <2>9. PlanSound(known, InTurn(plans).writes)
    BY <2>8, InTurnSound
  <2>10. extract_document_evidence(fs, d) = InTurn(plans)
    BY <1>1, <1>2, <1>3, <1>5, <2>5, <2>7 DEF extract_document_evidence
  <2>11. QED
    BY <1>1, <2>9, <2>10
<1>6. QED
  BY <1>4, <1>5

(* A finite set put in some order.                                         *)
LEMMA OrderedIs ==
    ASSUME NEW S, IsFiniteSet(S)
    PROVE  IsSequence(SetToSeq(S)) /\ \A i \in DOMAIN SetToSeq(S) : SetToSeq(S)[i] \in S
<1>1. PICK s, n : s = SetToSeq(S) /\ n = Cardinality(S)
  OBVIOUS
<1>2. n \in Nat /\ ExistsBijection(1..n, S)
  BY <1>1, FS_CardinalityType
<1>3. \E f \in [1..n -> S] : IsInjective(f)
  <2>1. PICK f \in Bijection(1..n, S) : TRUE
    BY <1>2 DEF ExistsBijection
  <2>2. f \in [1..n -> S] /\ IsInjective(f)
    BY <2>1 DEF Bijection, Injection
  <2>3. QED
    BY <2>2
<1>4. s \in [1..n -> S]
  BY <1>1, <1>3 DEF SetToSeq
<1>5. s = [i \in 1..n |-> s[i]]
  BY <1>4
<1>6. IsSequence(s) /\ DOMAIN s = 1..n
  BY <1>2, <1>5, SequenceOf
<1>7. QED
  BY <1>1, <1>4, <1>6

(* The documents that are found are on file.                               *)
ListedIn(s, S) == IsSequence(s) /\ \A i \in DOMAIN s : s[i] \in S

(* Two lists of things that are there.                                     *)
LEMMA ListedThen ==
    ASSUME NEW S, NEW a, ListedIn(a, S), NEW b, ListedIn(b, S)
    PROVE  ListedIn(a \o b, S)
<1>1. PICK c : c = a \o b
  OBVIOUS
<1>2. Joins(a, b, c)
  <2>1. Joins(a, b, a \o b)
    BY Joined DEF ListedIn
  <2>2. QED
    BY <1>1, <2>1
<1>3. ASSUME NEW i \in DOMAIN c
      PROVE  c[i] \in S
  <2>1. CASE i \in 1..Len(a)
    BY <1>2, <2>1 DEF Joins, ListedIn
  <2>2. CASE i \notin 1..Len(a)
    <3>1. PICK m : m = i - Len(a)
      OBVIOUS
    <3>2. m \in 1..Len(b) /\ i = Len(a) + m
      BY <1>2, <2>2, <3>1 DEF Joins
    <3>3. c[i] = b[m]
      BY <1>2, <3>2 DEF Joins
    <3>4. QED
      BY <1>2, <3>2, <3>3 DEF Joins, ListedIn
  <2>3. QED
    BY <2>1, <2>2
<1>4. ListedIn(c, S)
  BY <1>2, <1>3 DEF Joins, ListedIn
<1>5. QED
  BY <1>1, <1>4

(* Every document that is looked for is one of those on file.              *)
LEMMA FoundAre ==
    ASSUME NEW S, IsFiniteSet(S)
    PROVE  ListedIn(discover_parseable_document_paths(S), S)
<1>1. ASSUME NEW kind
      PROVE  ListedIn(InDirectory(S, kind), S)
  <2>1. PICK D : D = {d \in S : d.kind = kind}
    OBVIOUS
  <2>2. IsFiniteSet(D) /\ D \subseteq S
    BY <2>1, FS_Subset
  <2>3. PICK s : s = SetToSeq(D)
    OBVIOUS
  <2>4. IsSequence(s) /\ \A i \in DOMAIN s : s[i] \in D
    BY <2>2, <2>3, OrderedIs
  <2>5. InDirectory(S, kind) = s
    BY <2>1, <2>3 DEF InDirectory
  <2>6. QED
    BY <2>2, <2>4, <2>5 DEF ListedIn
<1>2. PICK a, b, c : /\ a = InDirectory(S, "earnings_call")
                     /\ b = InDirectory(S, "filing")
                     /\ c = InDirectory(S, "news_item")
  OBVIOUS
<1>3. ListedIn(a, S) /\ ListedIn(b, S) /\ ListedIn(c, S)
  BY <1>1, <1>2
<1>4. PICK ab : ab = a \o b
  OBVIOUS
<1>5. ListedIn(ab, S)
  BY <1>3, <1>4, ListedThen
<1>6. ListedIn(ab \o c, S)
  BY <1>3, <1>5, ListedThen
<1>7. discover_parseable_document_paths(S) = ab \o c
  BY <1>2, <1>4 DEF discover_parseable_document_paths
<1>8. QED
  BY <1>6, <1>7

(* Step 2: the plan that extracts the evidence of every document is sound. *)
LEMMA ExtractionSound ==
    ASSUME NEW fs, FilesOK(fs)
    PROVE  PlanSound(FactsIn(fs), run_evidence_extraction_pipeline(fs).writes)
<1>1. PICK known : known = FactsIn(fs)
  OBVIOUS
<1>2. CASE fs.documents = {}
  BY <1>2, SoundNothing DEF run_evidence_extraction_pipeline, Plan
<1>3. CASE fs.documents # {}
  <2>1. IsFiniteSet(fs["documents"])
    <3>1. "documents" \in AllCategories /\ "documents" \in Counted
      BY DEF AllCategories, Counted
    <3>2. QED
      BY <3>1, FilesDue
  <2>2. PICK found : found = discover_parseable_document_paths(fs.documents)
    OBVIOUS
  <2>3. IsSequence(found) /\ \A i \in DOMAIN found : found[i] \in fs["documents"]
    BY <2>1, <2>2, FoundAre DEF ListedIn
  <2>4. PICK plans : plans = [i \in DOMAIN found |-> extract_document_evidence(fs, found[i])]
    OBVIOUS
  <2>5. IsSequence(plans) /\ DOMAIN plans = DOMAIN found
    <3>1. plans = [i \in DOMAIN found |-> plans[i]]
      BY <2>4
    <3>2. QED
      BY <2>3, <3>1, PlansAre
  <2>6. \A i \in DOMAIN plans : PlanSound(known, plans[i].writes)
    BY <1>1, <2>3, <2>4, <2>5, DocumentSound
  <2>7. PlanSound(known, InTurn(plans).writes)
    BY <2>5, <2>6, InTurnSound
  <2>8. run_evidence_extraction_pipeline(fs) = InTurn(plans)
    BY <1>3, <2>2, <2>4 DEF run_evidence_extraction_pipeline
  <2>9. QED
    BY <1>1, <2>7, <2>8
<1>4. QED
  BY <1>2, <1>3

-----------------------------------------------------------------------------
(* Step 3.                                                                 *)

(* Links and their documents can be counted.                               *)
LEMMA DocumentsAreFinite ==
    ASSUME NEW found, IsFiniteSet(found)
    PROVE  Cardinality(found) \in Nat /\ Cardinality(Documents(found)) \in Nat
<1>1. PICK f : f = [l \in found |-> l.document]
  OBVIOUS
<1>2. f = [l \in found |-> f[l]] /\ {f[l] : l \in found} = Documents(found)
  BY <1>1 DEF Documents
<1>3. IsFiniteSet(Documents(found))
  BY <1>2, FiniteImage
<1>4. QED
  BY <1>3, FS_CardinalityType

(* A link leads to a span on file, and that to its document.               *)
LEMMA LinkIsOK ==
    ASSUME NEW fs, FilesOK(fs), NEW c \in Categories, NEW a \in fs[c], NEW role,
           NEW s \in fs["evidence_spans"], s.id = a.span
    PROVE  LinkOK(FactsIn(fs), _build_link(a, role))
<1>1. PICK known, l : known = FactsIn(fs) /\ l = _build_link(a, role)
  OBVIOUS
<1>2. l.document = a.document /\ l.span = a.span
  BY <1>1 DEF _build_link
<1>3. a.document = a.span[1][1]
  <2>1. c \in AllCategories
    BY DEF Categories, AllCategories
  <2>2. Rests(known, c, a)
    BY <1>1, <2>1, FilesDue
  <2>3. QED
    BY <2>2 DEF Rests, ExtractOK
<1>4. "evidence_spans" \in AllCategories \ {"gates"}
  BY DEF AllCategories
<1>5. s.document = s.id[1][1] /\ DocumentFacts(s.document) \subseteq known
  <2>1. Rests(known, "evidence_spans", s)
    BY <1>1, <1>4, FilesDue
  <2>2. QED
    BY <2>1 DEF Rests, SpanOK
<1>6. <<"evidence_spans", s.id>> \in known
  BY <1>1, <1>4, FactsAre
<1>7. LinkOK(known, l)
  BY <1>2, <1>3, <1>5, <1>6 DEF LinkOK
<1>8. QED
  BY <1>1, <1>7

(* The links to supporting evidence are finitely many and all lead there.  *)
LEMMA SupportIs ==
    ASSUME NEW fs, FilesOK(fs), NEW firm, NEW in, in = load_research_artifacts(fs, firm)
    PROVE  /\ IsFiniteSet(_build_supporting_evidence_links(in))
           /\ \A l \in _build_supporting_evidence_links(in) : LinkOK(FactsIn(fs), l)
<1>1. PICK claims, changes :
        /\ claims = Linkable(in.evidence.claims, in.spans)
        /\ changes = {g \in Linkable(in.evidence.guidance_changes, in.spans) :
                         \A c \in claims : c.span # g.span}
  OBVIOUS
<1>2. /\ in.evidence.claims \subseteq fs["claims"]
      /\ in.evidence.guidance_changes \subseteq fs["guidance_changes"]
      /\ in.spans \subseteq fs["evidence_spans"]
  BY DEF load_research_artifacts, EvidenceOf, Categories
<1>3. /\ claims \subseteq fs["claims"] /\ changes \subseteq fs["guidance_changes"]
      /\ \A a \in claims \cup changes : \E s \in fs["evidence_spans"] : s.id = a.span
  BY <1>1, <1>2 DEF Linkable
<1>4. "claims" \in Categories /\ "guidance_changes" \in Categories
      /\ Categories \subseteq AllCategories /\ Categories \subseteq Counted
  BY DEF Categories, AllCategories, Counted
<1>5. IsFiniteSet(claims \cup changes)
  <2>1. IsFiniteSet(fs["claims"]) /\ IsFiniteSet(fs["guidance_changes"])
    BY <1>4, FilesDue
  <2>2. IsFiniteSet(claims) /\ IsFiniteSet(changes)
    BY <1>3, <2>1, FS_Subset
  <2>3. QED
    BY <2>2, FS_Union
<1>6. PICK f : f = [a \in claims \cup changes |-> _build_link(a, "support")]
  OBVIOUS
<1>7. f = [a \in claims \cup changes |-> f[a]]
      /\ {f[a] : a \in claims \cup changes} = _build_supporting_evidence_links(in)
  BY <1>1, <1>6 DEF _build_supporting_evidence_links
<1>8. IsFiniteSet(_build_supporting_evidence_links(in))
  BY <1>5, <1>7, FiniteImage
<1>9. ASSUME NEW a \in claims \cup changes
      PROVE  LinkOK(FactsIn(fs), f[a])
  <2>1. \E c \in Categories : a \in fs[c]
    BY <1>3, <1>4
  <2>2. \E s \in fs["evidence_spans"] : s.id = a.span
    BY <1>3
  <2>3. LinkOK(FactsIn(fs), _build_link(a, "support"))
    BY <2>1, <2>2, LinkIsOK
  <2>4. QED
    BY <1>6, <2>3
<1>10. QED
  BY <1>7, <1>8, <1>9

(* One file of a category with little asked of it.                         *)
LEMMA OneDue ==
    ASSUME NEW known, NEW c \in AllCategories, c \notin Counted, NEW x, Rests(known, c, x)
    PROVE  WriteOK(known, Write(c, {x}))
BY DEF WriteOK, Write

(* Whatever the links support, the slice is filed in order.                *)
LEMMA LinksSound ==
    ASSUME NEW known, NEW in, NEW found, IsFiniteSet(found), \A l \in found : LinkOK(known, l),
           NEW now \in {1, Today}
    PROVE  PlanSound(known, LinksPlan(in, found, now).writes)
<1>1. PICK hypothesis : hypothesis = generate_hypothesis(in, found, now)
  OBVIOUS
<1>2. PICK assessment : assessment = build_evidence_assessment(in, hypothesis, found, now)
  OBVIOUS
<1>3. {"hypotheses", "evidence_assessments", "counter_hypotheses", "research_briefs"}
        \subseteq AllCategories
      /\ {"hypotheses", "evidence_assessments", "counter_hypotheses", "research_briefs"}
            \cap (Counted \cup Categories) = {}
  BY DEF AllCategories, Counted, Categories
<1>4. /\ assessment.id[2] = assessment.grade /\ assessment.grade = GradeOf(in, found)
  BY <1>2 DEF build_evidence_assessment
<1>5. PICK a : a = Write("evidence_assessments", {assessment})
  OBVIOUS
<1>6. WriteOK(known, a)
  <2>1. Rests(known, "evidence_assessments", assessment)
    BY <1>3, <1>4 DEF Rests, AssessmentOK
  <2>2. QED
    BY <1>3, <1>5, <2>1, OneDue
<1>7. CASE ~Supported(found) \/ assessment.grade = "insufficient"
  <2>1. PlanSound(known, <<a, ResearchOutcome(assessment.company, "attention_required")>>)
    BY <1>6, OutcomeDue, SoundTwo DEF ResearchOutcome
  <2>2. LinksPlan(in, found, now).writes
          = <<a, ResearchOutcome(assessment.company, "attention_required")>>
    BY <1>1, <1>2, <1>5, <1>7 DEF LinksPlan, ResearchPlan, _persist_partial_workflow, Plan
  <2>3. QED
    BY <2>1, <2>2
<1>8. CASE ~(~Supported(found) \/ assessment.grade = "insufficient")
  <2>1. PICK n, m : n = Cardinality(found) /\ m = Cardinality(Documents(found))
    OBVIOUS
  <2>2. n \in Nat /\ m \in Nat
    BY <2>1, DocumentsAreFinite
  <2>3. n >= 2 /\ m >= 2
    BY <1>8, <2>1, <2>2 DEF Supported
  <2>4. assessment.grade \in {"strong", "moderate"}
    BY <1>4, <2>1, <2>2, <2>3 DEF GradeOf
  <2>5. PICK id : hypothesis =
            [id |-> id, company |-> in.company, links |-> found, assessment |-> None,
             review |-> "pending", validation |-> "unvalidated", created |-> now,
             prov |-> WithSource]
    BY <1>1, <1>8 DEF generate_hypothesis
  <2>6. PICK h : h = [hypothesis EXCEPT !.assessment = assessment.id]
    OBVIOUS
  <2>7. h.id = hypothesis.id /\ h.links = found
    BY <2>5, <2>6
  <2>8. PICK counter : counter = generate_counter_hypothesis(in, hypothesis, now)
    OBVIOUS
  <2>9. PICK brief : brief = build_research_brief(hypothesis, counter, assessment, now)
    OBVIOUS
  <2>10. PICK wh, wc, wb, done :
           /\ wh = Write("hypotheses", {h}) /\ wc = Write("counter_hypotheses", {counter})
           /\ wb = Write("research_briefs", {brief})
           /\ done = ResearchOutcome(brief.company, "succeeded")
    OBVIOUS
  <2>11. WriteOK(known, wh)
    <3>1. HypothesisOK(known, h)
      BY <2>1, <2>2, <2>3, <2>7 DEF HypothesisOK
    <3>2. Rests(known, "hypotheses", h)
      BY <1>3, <3>1 DEF Rests
    <3>3. QED
      BY <1>3, <2>10, <3>2, OneDue
  <2>12. WriteOK(known, wc)
    <3>1. CounterOK(counter)
      <4>1. PICK kinds : kinds = counter.kinds
        OBVIOUS
      <4>2. kinds \subseteq {"missing_evidence", "assumption_risk", "causal_gap"}
                              \cup {"contradictory_evidence"}
        BY <2>8, <4>1 DEF generate_counter_hypothesis
      <4>3. IsFiniteSet({"missing_evidence", "assumption_risk", "causal_gap"}
                          \cup {"contradictory_evidence"})
        <5>1. IsFiniteSet({"missing_evidence"} \cup {"assumption_risk"} \cup {"causal_gap"}
                          \cup {"contradictory_evidence"})
          BY FS_Singleton, FS_Union
        <5>2. {"missing_evidence"} \cup {"assumption_risk"} \cup {"causal_gap"}
                = {"missing_evidence", "assumption_risk", "causal_gap"}
          OBVIOUS
        <5>3. QED
          BY <5>1, <5>2
      <4>4. Cardinality(kinds) \in Nat
        BY <4>2, <4>3, FS_Subset, FS_CardinalityType
      <4>5. counter.missing_evidence = 2 /\ counter.causal_gaps = 2
        BY <2>8 DEF generate_counter_hypothesis
      <4>6. QED
        BY <4>1, <4>4, <4>5 DEF CounterOK
    <3>2. Rests(known, "counter_hypotheses", counter)
      BY <1>3, <3>1 DEF Rests
    <3>3. QED
      BY <1>3, <2>10, <3>2, OneDue
  <2>13. PICK facts : facts = known \cup (FactsOf(wh) \cup FactsOf(a) \cup FactsOf(wc))
    OBVIOUS
  <2>14. WriteOK(facts, wb)
    <3>1. /\ brief.hypothesis = hypothesis.id /\ brief.counter = counter.id
          /\ brief.assessment = assessment.id /\ brief.created = now
          /\ {"id", "company", "hypothesis", "counter", "assessment", "created"} \subseteq DOMAIN brief
          /\ brief.hypothesis = brief.id[1]
      BY <2>9 DEF build_research_brief
    <3>2. /\ <<"hypotheses", h.id>> \in FactsOf(wh)
          /\ <<"counter_hypotheses", counter.id>> \in FactsOf(wc)
          /\ <<"evidence_assessments", assessment.id>> \in FactsOf(a)
      BY <1>5, <2>10 DEF FactsOf, Write
    <3>3. BriefOK(facts, brief)
      BY <1>4, <2>4, <2>7, <2>13, <3>1, <3>2 DEF BriefOK
    <3>4. Rests(facts, "research_briefs", brief)
      BY <1>3, <3>3 DEF Rests
    <3>5. QED
      BY <1>3, <2>10, <3>4, OneDue
  <2>15. WriteOK(known, done)
    BY <2>10, OutcomeDue DEF ResearchOutcome
  <2>16. PlanSound(known, <<wh, a, wc, wb, done>>)
    BY <1>6, <2>11, <2>12, <2>13, <2>14, <2>15, SoundFive
  <2>17. LinksPlan(in, found, now).writes = <<wh, a, wc, wb, done>>
    <3>1. LinksPlan(in, found, now) = CompletedPlan(in, hypothesis, assessment, now)
      BY <1>1, <1>2, <1>8 DEF LinksPlan, ResearchPlan
    <3>2. CompletedPlan(in, hypothesis, assessment, now)
            = Plan(_persist_completed_workflow(h, assessment, counter, brief), FALSE)
      BY <2>6, <2>8, <2>9 DEF CompletedPlan
    <3>3. QED
      BY <1>5, <2>10, <3>1, <3>2 DEF Plan, _persist_completed_workflow
  <2>18. QED
    BY <2>16, <2>17
<1>9. QED
  BY <1>7, <1>8

(* Step 3: the plan that builds the research slice is sound.               *)
LEMMA ResearchSound ==
    ASSUME NEW fs, FilesOK(fs), NEW firm, NEW now \in {1, Today}
    PROVE  PlanSound(FactsIn(fs), run_research_workflow(fs, firm, now).writes)
<1>1. PICK companies : companies = Resolved(ResearchCompanies(fs), firm)
  OBVIOUS
<1>2. CASE companies = {}
  <2>1. PlanSound(FactsIn(fs), <<ResearchOutcome("unresolved", "failed")>>)
    BY OutcomeDue, SoundOne DEF ResearchOutcome
  <2>2. QED
    BY <1>1, <1>2, <2>1 DEF run_research_workflow, Plan
<1>3. CASE companies # {}
  <2>1. PICK c : c = CHOOSE x \in companies : TRUE
    OBVIOUS
  <2>2. PICK in : in = load_research_artifacts(fs, c)
    OBVIOUS
  <2>3. PICK found : found = _build_supporting_evidence_links(in)
    OBVIOUS
  <2>4. PlanSound(FactsIn(fs), LinksPlan(in, found, now).writes)
    BY <2>2, <2>3, SupportIs, LinksSound
  <2>5. run_research_workflow(fs, firm, now) = LinksPlan(in, found, now)
    BY <1>1, <1>3, <2>1, <2>2, <2>3 DEF run_research_workflow
  <2>6. QED
    BY <2>4, <2>5
<1>4. QED
  BY <1>2, <1>3

-----------------------------------------------------------------------------
(* Step 4: features.                                                       *)

(* The latest brief is one that is on file.                                *)
LEMMA LatestIs ==
    ASSUME NEW fs, FilesOK(fs), NEW firm, Of(fs.research_briefs, firm) # {}
    PROVE  Latest(Of(fs.research_briefs, firm)) \in fs["research_briefs"]
<1>1. PICK S : S = Of(fs.research_briefs, firm)
  OBVIOUS
<1>2. S \subseteq fs["research_briefs"] /\ S # {}
  BY <1>1 DEF Of
<1>3. \A b \in S : b.created \in {1, 2}
  <2>1. "research_briefs" \in AllCategories
    BY DEF AllCategories
  <2>2. \A b \in S : Rests(FactsIn(fs), "research_briefs", b)
    BY <1>2, <2>1, FilesDue
  <2>3. QED
    BY <2>2 DEF Rests, BriefOK, Today
<1>4. \E a \in S : \A b \in S : b.created <= a.created
  <2>1. CASE \E a \in S : a.created = 2
    BY <1>3, <2>1
  <2>2. CASE ~ \E a \in S : a.created = 2
    BY <1>2, <1>3, <2>2
  <2>3. QED
    BY <2>1, <2>2
<1>5. Latest(S) \in S
  BY <1>2, <1>4 DEF Latest
<1>6. QED
  BY <1>1, <1>2, <1>5

(* The score of the latest guidance is in its range.                       *)
LEMMA GuidanceScore ==
    ASSUME NEW changes, \A g \in changes : g.class \in DOMAIN GUIDANCE_SCORE_MAP
    PROVE  _guidance_change_score(changes) \in Int /\ _guidance_change_score(changes) >= -2
<1>1. PICK S : S = {GUIDANCE_SCORE_MAP[g.class] : g \in changes}
  OBVIOUS
<1>2. \A x \in S : x \in Int /\ (x = 2 \/ x = 1 \/ x + 2 = 0)
  <2>1. \A k \in DOMAIN GUIDANCE_SCORE_MAP :
           LET x == GUIDANCE_SCORE_MAP[k] IN x \in Int /\ (x = 2 \/ x = 1 \/ x + 2 = 0)
    BY DEF GUIDANCE_SCORE_MAP
  <2>2. QED
    BY <1>1, <2>1
<1>3. CASE changes = {}
  BY <1>3 DEF _guidance_change_score
<1>4. CASE changes # {}
  <2>1. S # {}
    BY <1>1, <1>4
  <2>2. \E x \in S : \A y \in S : x >= y
    <3>1. CASE 2 \in S
      BY <1>2, <3>1
    <3>2. CASE 2 \notin S /\ 1 \in S
      BY <1>2, <3>2
    <3>3. CASE 2 \notin S /\ 1 \notin S
      BY <1>2, <2>1, <3>3
    <3>4. QED
      BY <3>1, <3>2, <3>3
  <2>3. Max(S) \in S
    BY <2>2 DEF Max
  <2>4. _guidance_change_score(changes) = Max(S)
    BY <1>1, <1>4 DEF _guidance_change_score
  <2>5. QED
    BY <1>2, <2>3, <2>4
<1>5. QED
  BY <1>3, <1>4

(* The evidence of a company is what is on file.                           *)
LEMMA EvidenceIs ==
    ASSUME NEW fs, FilesOK(fs), NEW firm
    PROVE  /\ IsFiniteSet(EvidenceOf(fs, firm).risk_factors)
           /\ IsFiniteSet(EvidenceOf(fs, firm).tone_markers)
           /\ \A g \in EvidenceOf(fs, firm).guidance_changes : g.class \in DOMAIN GUIDANCE_SCORE_MAP
<1>1. PICK e : e = EvidenceOf(fs, firm)
  OBVIOUS
<1>2. /\ {"risk_factors", "tone_markers", "guidance_changes"} \subseteq Categories
      /\ Categories \subseteq AllCategories /\ Categories \subseteq Counted
  BY DEF Categories, AllCategories, Counted
<1>3. \A c \in Categories : e[c] \subseteq fs[c]
  BY <1>1 DEF EvidenceOf
<1>4. \A c \in Categories : IsFiniteSet(e[c])
  <2>1. \A c \in Categories : IsFiniteSet(fs[c])
    BY <1>2, FilesDue
  <2>2. QED
    BY <1>3, <2>1, FS_Subset
<1>5. \A g \in e["guidance_changes"] : g.class \in DOMAIN GUIDANCE_SCORE_MAP
  <2>1. \A g \in e["guidance_changes"] : Rests(FactsIn(fs), "guidance_changes", g)
    BY <1>2, <1>3, FilesDue
  <2>2. QED
    BY <1>2, <2>1 DEF Rests, ExtractOK
<1>6. QED
  BY <1>1, <1>2, <1>4, <1>5

(* Each value of a feature is in its range.                                *)
LEMMA ValuesAre ==
    ASSUME NEW known, NEW fs, FilesOK(fs), NEW slice, NEW firm,
           slice.assessment.grade \in {"strong", "moderate"},
           HypothesisOK(known, slice.hypothesis), CounterOK(slice.counter)
    PROVE  \A n \in FeatureName : InRange(n, FeatureValues(slice, EvidenceOf(fs, firm))[n])
<1>1. PICK e, values : e = EvidenceOf(fs, firm) /\ values = FeatureValues(slice, e)
  OBVIOUS
<1>2. values.support_grade_score \in Int /\ values.support_grade_score >= 66
  <2>1. values.support_grade_score = SUPPORT_GRADE_MAP[slice.assessment.grade]
    BY <1>1 DEF FeatureValues
  <2>2. SUPPORT_GRADE_MAP["strong"] = 100 /\ SUPPORT_GRADE_MAP["moderate"] = 66
    BY DEF SUPPORT_GRADE_MAP
  <2>3. QED
    BY <2>1, <2>2
<1>3. values.support_document_count \in Int /\ values.support_document_count >= 2
  BY <1>1 DEF FeatureValues, HypothesisOK
<1>4. values.guidance_change_score \in Int /\ values.guidance_change_score >= -2
  <2>1. values.guidance_change_score = _guidance_change_score(e.guidance_changes)
    BY <1>1 DEF FeatureValues
  <2>2. QED
    BY <1>1, <2>1, EvidenceIs, GuidanceScore
<1>5. values.risk_factor_count \in Int
  BY <1>1, EvidenceIs, FS_CardinalityType DEF FeatureValues
<1>6. values.tone_balance_score \in Int /\ values.tone_balance_score >= -3
  <2>1. PICK up, down :
          /\ up = {m \in e.tone_markers : m.class \in {"confidence", "improvement"}}
          /\ down = {m \in e.tone_markers : m.class \in {"caution", "uncertainty"}}
    OBVIOUS
  <2>2. IsFiniteSet(up) /\ IsFiniteSet(down)
    BY <1>1, <2>1, EvidenceIs, FS_Subset
  <2>3. PICK n : n = Cardinality(up) - Cardinality(down)
    OBVIOUS
  <2>4. n \in Int
    <3>1. Cardinality(up) \in Nat /\ Cardinality(down) \in Nat
      BY <2>2, FS_CardinalityType
    <3>2. QED
      BY <2>3, <3>1
  <2>5. values.tone_balance_score = Clamp(n, -3, 3)
    BY <1>1, <2>1, <2>3 DEF FeatureValues, _tone_balance_score
  <2>6. Clamp(n, -3, 3) \in Int /\ -3 <= Clamp(n, -3, 3)
    BY <2>4 DEF Clamp
  <2>7. PICK k : k = Clamp(n, -3, 3)
    OBVIOUS
  <2>8. QED
    BY <2>5, <2>6, <2>7
<1>7. values.counterargument_pressure_score \in Int /\ values.counterargument_pressure_score <= 6
  <2>1. PICK n : n = Cardinality(slice.counter.kinds) + slice.counter.missing_evidence
                     + slice.counter.causal_gaps
    OBVIOUS
  <2>2. n \in Int
    BY <2>1 DEF CounterOK
  <2>3. values.counterargument_pressure_score = Clamp(n, 0, 6)
    BY <1>1, <2>1 DEF FeatureValues, _counterargument_pressure_score
  <2>4. QED
    BY <2>2, <2>3 DEF Clamp
<1>8. ASSUME NEW n \in FeatureName
      PROVE  InRange(n, values[n])
  <2>1. CASE n = "support_grade_score"
    BY <1>2, <2>1 DEF InRange
  <2>2. CASE n = "support_document_count"
    BY <1>3, <2>2 DEF InRange
  <2>3. CASE n = "guidance_change_score"
    BY <1>4, <2>3 DEF InRange
  <2>4. CASE n = "risk_factor_count"
    BY <1>5, <2>4 DEF InRange
  <2>5. CASE n = "tone_balance_score"
    BY <1>6, <2>5 DEF InRange
  <2>6. CASE n = "counterargument_pressure_score"
    BY <1>7, <2>6 DEF InRange
  <2>7. QED
    BY <2>1, <2>2, <2>3, <2>4, <2>5, <2>6 DEF FeatureName
<1>9. QED
  BY <1>1, <1>8

(* Each feature of a slice on file rests on it.                            *)
LEMMA FeaturesAre ==
    ASSUME NEW fs, FilesOK(fs), NEW firm, NEW brief \in fs["research_briefs"],
           ~Dangling(fs, brief), NEW slice, slice = SliceOf(fs, firm, brief), brief # None
    PROVE  \A f \in FeaturesOf(slice, FeatureValues(slice, EvidenceOf(fs, firm))) :
              FeatureOK(FactsIn(fs), f)
<1>1. PICK known, values : /\ known = FactsIn(fs)
                           /\ values = FeatureValues(slice, EvidenceOf(fs, firm))
  OBVIOUS
<1>2. {"research_briefs", "hypotheses", "counter_hypotheses", "evidence_assessments"}
         \subseteq AllCategories \ {"gates"}
  BY DEF AllCategories
<1>3. PICK h, c, a : /\ h = slice.hypothesis /\ c = slice.counter /\ a = slice.assessment
  OBVIOUS
<1>4. /\ h \in ById(fs.hypotheses, brief.hypothesis)
      /\ c \in ById(fs.counter_hypotheses, brief.counter)
      /\ a \in ById(fs.evidence_assessments, brief.assessment)
  BY <1>3 DEF SliceOf, Dangling, The
<1>5. /\ h \in fs["hypotheses"] /\ h.id = brief.hypothesis
      /\ c \in fs["counter_hypotheses"]
      /\ a \in fs["evidence_assessments"] /\ a.id = brief.assessment
  BY <1>4 DEF ById
<1>6. HypothesisOK(known, h) /\ CounterOK(c) /\ AssessmentOK(a) /\ BriefOK(known, brief)
  <2>1. /\ Rests(known, "hypotheses", h) /\ Rests(known, "counter_hypotheses", c)
        /\ Rests(known, "evidence_assessments", a) /\ Rests(known, "research_briefs", brief)
    BY <1>1, <1>2, <1>5, FilesDue
  <2>2. QED
    BY <2>1 DEF Rests
<1>7. a.grade \in {"strong", "moderate"}
  BY <1>5, <1>6 DEF AssessmentOK, BriefOK
<1>8. \A n \in FeatureName : InRange(n, values[n])
  BY <1>1, <1>3, <1>6, <1>7, ValuesAre
<1>9. <<"research_briefs", brief.id>> \in known /\ <<"hypotheses", h.id>> \in known
  BY <1>1, <1>2, <1>5, FactsAre
<1>10. slice.brief = brief
  BY DEF SliceOf
<1>11. ASSUME NEW f \in FeaturesOf(slice, values)
       PROVE  FeatureOK(known, f)
  <2>1. PICK n \in FeatureName :
          /\ f.id = <<slice.company, n, slice.brief.created>> /\ f.name = n /\ f.value = values[n]
          /\ f.hypothesis = slice.hypothesis.id /\ f.brief = slice.brief.id
    BY DEF FeaturesOf
  <2>2. QED
    BY <1>3, <1>8, <1>9, <1>10, <2>1 DEF FeatureOK
<1>12. QED
  BY <1>1, <1>11

(* The features are filed with their values.                               *)
LEMMA OutputSound ==
    ASSUME NEW known, NEW firm, NEW features, \A f \in features : FeatureOK(known, f)
    PROVE  PlanSound(known, OutputPlan(firm, features).writes)
<1>1. PICK v, w, done, failed, gate :
        /\ v = Write("feature_values", {[id |-> <<f.id, f.brief>>, name |-> f.name] : f \in features})
        /\ w = Write("features", features)
        /\ done = <<FeatureOutcome(firm, features)>>
        /\ failed = Outcome("feature_mapping", firm, "failed")
        /\ gate = validate_feature_output(firm, FeatureViews(features))
  OBVIOUS
<1>2. WriteOK(known, v)
  <2>1. "feature_values" \in Plain
    BY DEF Plain
  <2>2. QED
    BY <1>1, <2>1, PlainDue
<1>3. WriteOK(known, w)
  <2>1. "features" \in AllCategories /\ "features" \notin Counted /\ "features" \notin Categories
    BY DEF AllCategories, Counted, Categories
  <2>2. \A f \in features : Rests(known, "features", f)
    BY <2>1 DEF Rests
  <2>3. QED
    BY <1>1, <2>1, <2>2 DEF WriteOK, Write
<1>4. PICK writes : writes = <<v, w>>
  OBVIOUS
<1>5. PlanSound(known, writes)
  BY <1>2, <1>3, <1>4, DueOnMore, SoundTwo
<1>6. PlanSound(known, done) /\ WriteOK(known, failed)
  BY <1>1, OutcomeDue, SoundOne DEF FeatureOutcome
<1>7. PlanSound(known, Gated(gate, writes, done, failed).writes)
  BY <1>5, <1>6, GatedSound
<1>8. OutputPlan(firm, features) = Gated(gate, writes, done, failed)
  BY <1>1, <1>4 DEF OutputPlan
<1>9. QED
  BY <1>7, <1>8

(* Step 4: the plan that maps the latest brief to features is sound.       *)
LEMMA MappingSound ==
    ASSUME NEW fs, FilesOK(fs), NEW firm
    PROVE  PlanSound(FactsIn(fs), run_feature_mapping_workflow(fs, firm).writes)
<1>1. PICK known, companies : /\ known = FactsIn(fs)
                              /\ companies = Resolved(ResearchedCompanies(fs), firm)
  OBVIOUS
<1>2. CASE companies = {}
  <2>1. PlanSound(known, <<Outcome("feature_mapping", "unresolved", "failed")>>)
    BY OutcomeDue, SoundOne
  <2>2. QED
    BY <1>1, <1>2, <2>1 DEF run_feature_mapping_workflow, Plan
<1>3. CASE companies # {}
  <2>1. PICK c, brief : c = The(companies) /\ brief = Latest(Of(fs.research_briefs, c))
    OBVIOUS
  <2>2. run_feature_mapping_workflow(fs, firm) = FeaturePlanOf(fs, c, brief)
    <3>1. brief = Latest(Of(fs.research_briefs, The(companies)))
      BY <2>1
    <3>2. QED
      BY <1>1, <1>3, <2>1, <3>1 DEF run_feature_mapping_workflow
  <2>3. CASE Of(fs.evidence_assessments, c) = {} \/ (brief # None /\ Dangling(fs, brief))
    <3>1. PlanSound(known, <<Outcome("feature_mapping", c, "failed")>>)
      BY OutcomeDue, SoundOne
    <3>2. FeaturePlanOf(fs, c, brief) = Plan(<<Outcome("feature_mapping", c, "failed")>>, TRUE)
      BY <2>3 DEF FeaturePlanOf
    <3>3. QED
      BY <1>1, <2>2, <3>1, <3>2 DEF Plan
  <2>4. CASE ~(Of(fs.evidence_assessments, c) = {} \/ (brief # None /\ Dangling(fs, brief)))
    <3>1. PICK slice, gate : /\ slice = SliceOf(fs, c, brief)
                             /\ gate = validate_feature_mapping_inputs(slice)
      OBVIOUS
    <3>2. PICK evidence, values : /\ evidence = EvidenceOf(fs, c)
                                  /\ values = FeatureValues(slice, evidence)
      OBVIOUS
    <3>3. PICK features : features = IF Refused(gate) THEN {} ELSE build_feature_candidates(slice, evidence)
      OBVIOUS
    <3>4. slice.company = c /\ slice.brief = brief
      BY <3>1 DEF SliceOf
    <3>5. ASSUME NEW f \in features PROVE FeatureOK(known, f)
      <4>1. f \in FeaturesOf(slice, values) /\ brief # None
        BY <3>2, <3>3, <3>4 DEF build_feature_candidates
      <4>2. brief \in fs["research_briefs"]
        <5>1. Of(fs.research_briefs, c) # {}
          BY <2>1, <4>1 DEF Latest
        <5>2. QED
          BY <2>1, <5>1, LatestIs
      <4>3. ~Dangling(fs, brief)
        BY <2>4, <4>1
      <4>4. QED
        BY <1>1, <3>1, <3>2, <4>1, <4>2, <4>3, FeaturesAre
    <3>6. PICK p, q : /\ p = Gated(gate, <<>>, <<>>, Outcome("feature_mapping", c, "failed"))
                      /\ q = OutputPlan(c, features)
      OBVIOUS
    <3>7. PlanSound(known, p.writes) /\ PlanSound(known, q.writes)
      BY <3>5, <3>6, SoundNothing, OutcomeDue, GatedSound, OutputSound
    <3>8. PICK plans : plans = <<p, q>>
      OBVIOUS
    <3>9. IsSequence(plans) /\ \A i \in DOMAIN plans : PlanSound(known, plans[i].writes)
      BY <3>7, <3>8, TupleIs
    <3>10. PlanSound(known, InTurn(plans).writes)
      BY <3>9, InTurnSound
    <3>11. SlicePlan(fs, slice) = InTurn(plans)
      BY <3>1, <3>2, <3>3, <3>4, <3>6, <3>8 DEF SlicePlan
    <3>12. FeaturePlanOf(fs, c, brief) = SlicePlan(fs, slice)
      BY <2>4, <3>1 DEF FeaturePlanOf
    <3>13. QED
      BY <1>1, <2>2, <3>10, <3>11, <3>12
  <2>5. QED
    BY <2>3, <2>4
<1>4. QED
  BY <1>2, <1>3

-----------------------------------------------------------------------------
(* Step 4: the signal.                                                     *)

(* The values a signal is made of are those of features on file.           *)
LEMMA ValuesInRange ==
    ASSUME NEW known, NEW features, \A f \in features : FeatureOK(known, f),
           NEW value \in LastOfName(features)
    PROVE  \A n \in FeatureName : InRange(n, value[n])
<1>1. PICK last \in [FeatureName -> {BriefDay(f) : f \in features}] :
        /\ \A n \in FeatureName : \E f \in Named(features, n) : BriefDay(f) = last[n]
        /\ value = [n \in FeatureName |-> ValueOn(features, n, last[n])]
  BY DEF LastOfName
<1>2. ASSUME NEW n \in FeatureName
      PROVE  InRange(n, value[n])
  <2>1. PICK S : S = {f \in Named(features, n) : BriefDay(f) = last[n]}
    OBVIOUS
  <2>2. PICK f : f = The(S)
    OBVIOUS
  <2>3. f \in S
    BY <1>1, <2>1, <2>2 DEF The
  <2>4. f \in features /\ f.name = n
    BY <2>1, <2>3 DEF Named
  <2>5. value[n] = f.value
    BY <1>1, <2>1, <2>2 DEF ValueOn
  <2>6. QED
    BY <2>4, <2>5 DEF FeatureOK
<1>3. QED
  BY <1>2

(* The weights cannot outvote the support that a brief requires.           *)
LEMMA NeverNegative ==
    ASSUME NEW value, \A n \in FeatureName : InRange(n, value[n])
    PROVE  _stance_from_score(PrimaryScore(value)) # "negative"
<1>1. PICK grade, documents, guidance, risks, tone, pressure :
        /\ grade = value["support_grade_score"] /\ documents = value["support_document_count"]
        /\ guidance = value["guidance_change_score"] /\ risks = value["risk_factor_count"]
        /\ tone = value["tone_balance_score"] /\ pressure = value["counterargument_pressure_score"]
  OBVIOUS
<1>2. /\ InRange("support_grade_score", grade) /\ InRange("support_document_count", documents)
      /\ InRange("guidance_change_score", guidance) /\ InRange("risk_factor_count", risks)
      /\ InRange("tone_balance_score", tone) /\ InRange("counterargument_pressure_score", pressure)
  BY <1>1 DEF FeatureName
<1>3. /\ grade \in Int /\ grade >= 66 /\ documents \in Int /\ documents >= 2
      /\ guidance \in Int /\ guidance >= -2 /\ risks \in Int
      /\ tone \in Int /\ tone >= -3 /\ pressure \in Int /\ pressure <= 6
  BY <1>2 DEF InRange
<1>4. PICK a, b : a = Clamp(documents, 0, 3) /\ b = Clamp(risks, 0, 3)
  OBVIOUS
<1>5. a \in Int /\ a >= 2 /\ b \in Int /\ b <= 3
  BY <1>3, <1>4 DEF Clamp
<1>6. PICK score : score = PrimaryScore(value)
  OBVIOUS
<1>7. score = 9 * grade + 200 * a + 300 * guidance + 100 * tone - 100 * b - 50 * pressure
  BY <1>1, <1>4, <1>6 DEF PrimaryScore
<1>8. score \in Int /\ score > -750
  BY <1>3, <1>5, <1>7
<1>9. ~(score <= -750)
  BY <1>8
<1>10. QED
  BY <1>6, <1>9 DEF _stance_from_score

(* The hypothesis of a signal is that of a feature, which is on file.      *)
LEMMA HypothesisIsFiled ==
    ASSUME NEW fs, FilesOK(fs), NEW firm, NEW features,
           features \subseteq fs["features"], features # {}
    PROVE  <<"hypotheses", HypothesisOf(fs, firm, features)>> \in FactsIn(fs)
<1>1. PICK known, brief : known = FactsIn(fs) /\ brief = Latest(Of(fs.research_briefs, firm))
  OBVIOUS
<1>2. {"features", "research_briefs"} \subseteq AllCategories
  BY DEF AllCategories
<1>3. CASE Of(fs.research_briefs, firm) = {}
  <2>1. The(features) \in fs["features"]
    BY DEF The
  <2>2. Rests(known, "features", The(features))
    BY <1>1, <1>2, <2>1, FilesDue
  <2>3. <<"hypotheses", The(features).hypothesis>> \in known
    BY <2>2 DEF Rests, FeatureOK
  <2>4. HypothesisOf(fs, firm, features) = The(features).hypothesis
    BY <1>1, <1>3 DEF HypothesisOf
  <2>5. QED
    BY <1>1, <2>3, <2>4
<1>4. CASE Of(fs.research_briefs, firm) # {}
  <2>2. brief \in fs["research_briefs"]
    BY <1>1, <1>4, LatestIs
  <2>3. Rests(known, "research_briefs", brief)
    BY <1>1, <1>2, <2>2, FilesDue
  <2>4. <<"hypotheses", brief.hypothesis>> \in known
    BY <2>3 DEF Rests, BriefOK
  <2>5. HypothesisOf(fs, firm, features) = brief.hypothesis
    BY <1>1, <1>4 DEF HypothesisOf
  <2>6. QED
    BY <1>1, <2>4, <2>5
<1>5. QED
  BY <1>3, <1>4

(* A signal is filed after its scores.                                     *)
LEMMA SignalSound ==
    ASSUME NEW known, NEW signal, NEW features, NEW scores, scores = ScoresOf(signal, features),
           \A f \in features : FeatureOK(known, f) /\ <<"features", f.id>> \in known,
           {f.name : f \in features} = FeatureName, signal.features = {f.id : f \in features},
           <<"hypotheses", signal.hypothesis>> \in known, signal.stance # "negative"
    PROVE  PlanSound(known, SignalPlan(signal, features, scores).writes)
<1>1. PICK v, w : v = Write("signal_scores", scores) /\ w = Write("signals", {signal})
  OBVIOUS
<1>2. WriteOK(known, v)
  <2>1. "signal_scores" \in Plain
    BY DEF Plain
  <2>2. QED
    BY <1>1, <2>1, PlainDue
<1>3. PICK facts : facts = known \cup FactsOf(v)
  OBVIOUS
<1>4. WriteOK(facts, w)
  <2>1. \A n \in FeatureName : <<"signal_scores", <<signal.id, n>> >> \in facts
    <3> SUFFICES ASSUME NEW n \in FeatureName
                 PROVE  <<"signal_scores", <<signal.id, n>> >> \in facts
      OBVIOUS
    <3>1. PICK x : x = [id |-> <<signal.id, n>>, signal |-> signal.id,
                        source |-> {f.id : f \in Named(features, n)}]
      OBVIOUS
    <3>2. x \in scores /\ x.id = <<signal.id, n>>
      BY <3>1 DEF ScoresOf
    <3>3. <<"signal_scores", <<signal.id, n>> >> \in FactsOf(v)
      BY <1>1, <3>2 DEF FactsOf, Write
    <3>4. QED
      BY <1>3, <3>3
  <2>2. \A i \in signal.features : <<"features", i>> \in facts
    BY <1>3
  <2>3. {i[2] : i \in signal.features} = FeatureName
    <3>1. \A f \in features : f.id[2] = f.name
      BY DEF FeatureOK
    <3>2. ASSUME NEW n
          PROVE  n \in {i[2] : i \in signal.features} <=> n \in {f.name : f \in features}
      BY <3>1
    <3>3. QED
      BY <3>2
  <2>4. SignalOK(facts, signal)
    BY <1>3, <2>1, <2>2, <2>3 DEF SignalOK
  <2>5. "signals" \in AllCategories /\ "signals" \notin Counted /\ "signals" \notin Categories
    BY DEF AllCategories, Counted, Categories
  <2>6. Rests(facts, "signals", signal)
    BY <2>4, <2>5 DEF Rests
  <2>7. QED
    BY <1>1, <2>5, <2>6, OneDue
<1>5. PICK writes : writes = <<v, w>>
  OBVIOUS
<1>6. PlanSound(known, writes)
  BY <1>2, <1>3, <1>4, <1>5, SoundTwo
<1>7. PICK gate, done, failed :
        /\ gate = validate_signal_generation(signal.company, FeatureViews(features),
                      <<SignalView(signal, features)>>,
                      LET s == InSomeOrder(scores) IN [i \in DOMAIN s |-> ScoreView(s[i])])
        /\ done = <<Outcome("signal_generation", signal.company, "succeeded")>>
        /\ failed = Outcome("signal_generation", signal.company, "failed")
  OBVIOUS
<1>8. PlanSound(known, Gated(gate, writes, done, failed).writes)
  BY <1>6, <1>7, OutcomeDue, SoundOne, GatedSound
<1>9. SignalPlan(signal, features, scores) = Gated(gate, writes, done, failed)
  BY <1>1, <1>5, <1>7 DEF SignalPlan
<1>10. QED
  BY <1>8, <1>9

(* Step 4: every plan that may generate a signal is sound.                 *)
LEMMA GenerationSound ==
    ASSUME NEW fs, FilesOK(fs), NEW firm,
           NEW plan \in run_signal_generation_workflow(fs, firm)
    PROVE  PlanSound(FactsIn(fs), plan.writes)
<1>1. PICK known, features : known = FactsIn(fs) /\ features = Of(fs.features, firm)
  OBVIOUS
<1>2. features \subseteq fs["features"]
  BY <1>1 DEF Of
<1>3. \A f \in features : FeatureOK(known, f) /\ <<"features", f.id>> \in known
  <2>1. "features" \in AllCategories \ {"gates"}
    BY DEF AllCategories
  <2>2. \A f \in features : Rests(known, "features", f)
    BY <1>1, <1>2, <2>1, FilesDue
  <2>3. \A f \in features : <<"features", f.id>> \in known
    BY <1>1, <1>2, <2>1, FactsAre
  <2>4. QED
    BY <2>2, <2>3 DEF Rests
<1>4. CASE features = {}
  <2>1. plan = Plan(<<Outcome("signal_generation", firm, "failed")>>, TRUE)
    BY <1>1, <1>4 DEF run_signal_generation_workflow
  <2>2. QED
    BY <2>1, OutcomeDue, SoundOne DEF Plan
<1>5. CASE features # {} /\ {f.name : f \in features} # FeatureName
  <2>1. plan = NoSignalPlan(firm, features)
    BY <1>1, <1>5 DEF run_signal_generation_workflow
  <2>2. PICK gate, done, failed :
          /\ gate = validate_signal_generation(firm, FeatureViews(features), <<>>, <<>>)
          /\ done = <<Outcome("signal_generation", firm, "attention_required")>>
          /\ failed = Outcome("signal_generation", firm, "failed")
    OBVIOUS
  <2>3. PlanSound(known, Gated(gate, <<>>, done, failed).writes)
    BY <2>2, SoundNothing, OutcomeDue, SoundOne, GatedSound
  <2>4. QED
    BY <1>1, <2>1, <2>2, <2>3 DEF NoSignalPlan
<1>6. CASE features # {} /\ {f.name : f \in features} = FeatureName
  <2>1. PICK value \in LastOfName(features) :
          LET s == CandidateSignal(firm, features, value, EffectiveAt(fs, firm),
                                   HypothesisOf(fs, firm, features))
          IN  plan = SignalPlan(s, features, ScoresOf(s, features))
    BY <1>1, <1>6 DEF run_signal_generation_workflow
  <2>2. PICK s : s = CandidateSignal(firm, features, value, EffectiveAt(fs, firm),
                                     HypothesisOf(fs, firm, features))
    OBVIOUS
  <2>3. /\ s.features = {f.id : f \in features}
        /\ s.hypothesis = HypothesisOf(fs, firm, features)
        /\ s.stance = _stance_from_score(PrimaryScore(value))
    BY <2>2 DEF CandidateSignal
  <2>4. s.stance # "negative"
    BY <1>3, <2>3, ValuesInRange, NeverNegative
  <2>5. <<"hypotheses", s.hypothesis>> \in known
    BY <1>1, <1>2, <1>6, <2>3, HypothesisIsFiled
  <2>6. PICK scores : scores = ScoresOf(s, features)
    OBVIOUS
  <2>7. PlanSound(known, SignalPlan(s, features, scores).writes)
    BY <1>3, <1>6, <2>3, <2>4, <2>5, <2>6, SignalSound
  <2>8. QED
    BY <1>1, <2>1, <2>2, <2>6, <2>7
<1>7. QED
  BY <1>4, <1>5, <1>6

(* There is such a plan.                                                   *)
LEMMA GenerationExists ==
    ASSUME NEW fs, NEW firm
    PROVE  run_signal_generation_workflow(fs, firm) # {}
<1>1. PICK features : features = Of(fs.features, firm)
  OBVIOUS
<1>2. CASE features = {} \/ {f.name : f \in features} # FeatureName
  BY <1>1, <1>2 DEF run_signal_generation_workflow
<1>3. CASE features # {} /\ {f.name : f \in features} = FeatureName
  <2>1. PICK p : p = [n \in FeatureName |-> BriefDay(The(Named(features, n)))]
    OBVIOUS
  <2>2. ASSUME NEW n \in FeatureName
        PROVE  The(Named(features, n)) \in Named(features, n)
    BY <1>3 DEF The, Named
  <2>3. /\ p \in [FeatureName -> {BriefDay(f) : f \in features}]
        /\ \A n \in FeatureName : \E f \in Named(features, n) : BriefDay(f) = p[n]
    BY <2>1, <2>2 DEF Named
  <2>4. PICK value : value = [n \in FeatureName |-> ValueOn(features, n, p[n])]
    OBVIOUS
  <2>5. value \in LastOfName(features)
    BY <2>3, <2>4, Zenon DEF LastOfName
  <2>6. PICK s : s = CandidateSignal(firm, features, value, EffectiveAt(fs, firm),
                                     HypothesisOf(fs, firm, features))
    OBVIOUS
  <2>7. SignalPlan(s, features, ScoresOf(s, features)) \in run_signal_generation_workflow(fs, firm)
    BY <1>1, <1>3, <2>5, <2>6, Zenon DEF run_signal_generation_workflow
  <2>8. QED
    BY <2>7
<1>4. QED
  BY <1>2, <1>3

-----------------------------------------------------------------------------
(* The chain.                                                              *)

(* Without files nothing rests on anything.                                *)
LEMMA NoFilesOK == FilesOK(NoFiles)
<1>1. NoFiles = [c \in AllCategories |-> NoFiles[c]] /\ \A c \in AllCategories : NoFiles[c] = {}
  BY DEF NoFiles
<1>2. \A c \in AllCategories : WriteOK(FactsIn(NoFiles), Write(c, NoFiles[c]))
  BY <1>1, FS_EmptySet DEF WriteOK, Write
<1>3. QED
  BY <1>1, <1>2 DEF FilesOK

(* Each stage of an earlier day leaves its files in order, and so all do.  *)
LEMMA PastOK == ASSUME NEW old \in Yesterday PROVE FilesOK(FilesOf(old))
<1>1. ASSUME NEW fs, FilesOK(fs) PROVE FilesOK(Signalled(fs))
  <2>1. PICK c : c = The(Resolved(ResearchedCompanies(fs), None))
    OBVIOUS
  <2>2. PICK plan : plan = The(run_signal_generation_workflow(fs, c))
    OBVIOUS
  <2>3. plan \in run_signal_generation_workflow(fs, c)
    BY <2>2, GenerationExists DEF The
  <2>4. FilesOK(PutAll(fs, plan.writes))
    BY <1>1, <2>3, GenerationSound, PutAllKeeps
  <2>5. QED
    BY <2>1, <2>2, <2>4 DEF Signalled
<1>2. ASSUME NEW fs, FilesOK(fs) PROVE FilesOK(Mapped(fs))
  <2>1. PICK left : left = PutAll(fs, run_feature_mapping_workflow(fs, None).writes)
    OBVIOUS
  <2>2. FilesOK(left) /\ FilesOK(Signalled(left))
    BY <1>1, <1>2, <2>1, MappingSound, PutAllKeeps
  <2>3. QED
    BY <2>1, <2>2 DEF Mapped, After
<1>3. ASSUME NEW fs, FilesOK(fs) PROVE FilesOK(Researched(fs))
  <2>1. PICK left : left = PutAll(fs, run_research_workflow(fs, None, 1).writes)
    OBVIOUS
  <2>2. FilesOK(left) /\ FilesOK(Mapped(left))
    BY <1>2, <1>3, <2>1, ResearchSound, PutAllKeeps
  <2>3. QED
    BY <2>1, <2>2 DEF Researched, After
<1>4. ASSUME NEW fs, FilesOK(fs) PROVE FilesOK(Parsed(fs))
  <2>1. PICK left : left = PutAll(fs, run_evidence_extraction_pipeline(fs).writes)
    OBVIOUS
  <2>2. FilesOK(left) /\ FilesOK(Researched(left))
    BY <1>3, <1>4, <2>1, ExtractionSound, PutAllKeeps
  <2>3. QED
    BY <2>1, <2>2 DEF Parsed, After
<1>5. CASE old = <<>>
  BY <1>5, NoFilesOK DEF FilesOf
<1>6. CASE old # <<>>
  <2>1. PICK left : left = PutAll(NoFiles, run_fixture_ingestion_pipeline(old).writes)
    OBVIOUS
  <2>2. FilesOK(left) /\ FilesOK(Parsed(left))
    <3>1. IsSequence(old) /\ \A f \in ToSet(old) : TextIsRead(f)
      BY FixtureAssumption
    <3>2. PlanSound(FactsIn(NoFiles), run_fixture_ingestion_pipeline(old).writes)
      BY <3>1, NormalizationSound
    <3>3. QED
      BY <1>4, <2>1, <3>2, NoFilesOK, PutAllKeeps
  <2>3. QED
    BY <1>6, <2>1, <2>2 DEF FilesOf, After
<1>7. QED
  BY <1>5, <1>6

(* Every file rests on files, and what is left of the plan will.           *)
ChainInv ==
    /\ FilesOK(shelf)
    /\ work = [part |-> work.part, writes |-> work.writes, raises |-> work.raises]
    /\ PlanSound(FactsIn(shelf), work.writes)
    /\ refresh \in Refresh

(* The plan that a step of the workflow starts with is sound.              *)
LEMMA PlannedSound ==
    ASSUME NEW s, FilesOK(shelf), refresh \in Refresh
    PROVE  PlanSound(FactsIn(shelf), PlanOf(s).writes)
<1>1. CASE s = 1
  <2>1. CASE refresh = None
    BY <1>1, <2>1, SoundNothing DEF PlanOf, execute_fixture_refresh_and_normalization, Plan
  <2>2. CASE refresh # None
    <3>1. IsSequence(refresh) /\ \A f \in ToSet(refresh) : TextIsRead(f)
      BY <2>2, FixtureAssumption
    <3>2. PlanSound(FactsIn(shelf), run_fixture_ingestion_pipeline(refresh).writes)
      BY <3>1, NormalizationSound
    <3>3. QED
      BY <1>1, <2>2, <3>2 DEF PlanOf, execute_fixture_refresh_and_normalization
  <2>3. QED
    BY <2>1, <2>2
<1>2. CASE s = 2
  BY <1>2, ExtractionSound DEF PlanOf
<1>3. CASE s = 3
  BY <1>3, ResearchSound DEF PlanOf
<1>4. CASE s \notin {1, 2, 3}
  BY <1>4, MappingSound DEF PlanOf
<1>5. QED
  BY <1>1, <1>2, <1>3, <1>4

(* So is the plan of no work.                                              *)
LEMMA NoWorkSound == \A known : PlanSound(known, NoWork.writes)
BY SoundNothing DEF NoWork

(* It holds of what an earlier day left.                                   *)
LEMMA ChainInvInit == ChainInit => ChainInv
<1> SUFFICES ASSUME ChainInit PROVE ChainInv
  OBVIOUS
<1>1. FilesOK(shelf) /\ refresh \in Refresh /\ work = NoWork
  BY PastOK DEF ChainInit
<1>2. work = [part |-> work.part, writes |-> work.writes, raises |-> work.raises]
  BY <1>1 DEF NoWork
<1>3. QED
  BY <1>1, <1>2, NoWorkSound DEF ChainInv

(* Two sets of records name the same things.                               *)
SameIds(s, t) == (\A x \in s : \E y \in t : x.id = y.id) /\ (\A y \in t : \E x \in s : x.id = y.id)

(* What files say is in the identifiers alone.                             *)
LEMMA SameFacts ==
    ASSUME NEW fs, NEW gs, \A c \in AllCategories : SameIds(fs[c], gs[c])
    PROVE  FactsIn(gs) = FactsIn(fs)
<1>1. ASSUME NEW f, f \in FactsIn(gs)
      PROVE  f \in FactsIn(fs)
  <2>1. PICK c \in AllCategories \ {"gates"} : \E x \in gs[c] : f = <<c, x.id>>
    BY <1>1, FactsAre
  <2>2. \E y \in fs[c] : f = <<c, y.id>>
    BY <2>1 DEF SameIds
  <2>3. QED
    BY <2>2, FactsAre
<1>2. ASSUME NEW f, f \in FactsIn(fs)
      PROVE  f \in FactsIn(gs)
  <2>1. PICK c \in AllCategories \ {"gates"} : \E x \in fs[c] : f = <<c, x.id>>
    BY <1>2, FactsAre
  <2>2. \E y \in gs[c] : f = <<c, y.id>>
    BY <2>1 DEF SameIds
  <2>3. QED
    BY <2>2, FactsAre
<1>3. QED
  BY <1>1, <1>2

(* A rejection changes no fact and nothing that a brief rests on.          *)
LEMMA RejectionKeeps ==
    ASSUME NEW fs, FilesOK(fs), NEW id, NEW g,
           g = [fs EXCEPT !.research_briefs =
                   {IF b.id = id THEN [b EXCEPT !.review = "rejected"] ELSE b : b \in @}]
    PROVE  FilesOK(g) /\ FactsIn(g) = FactsIn(fs)
<1>1. PICK old, new : old = fs["research_briefs"] /\ new = g["research_briefs"]
  OBVIOUS
<1>2. "research_briefs" \in AllCategories /\ "research_briefs" \notin Counted
      /\ "research_briefs" # "gates" /\ "research_briefs" \notin Categories
  BY DEF AllCategories, Counted, Categories
<1>3. fs = [c \in AllCategories |-> fs[c]]
  BY DEF FilesOK
<1>4. /\ g = [c \in AllCategories |-> g[c]]
      /\ \A c \in AllCategories : c # "research_briefs" => g[c] = fs[c]
      /\ new = {IF b.id = id THEN [b EXCEPT !.review = "rejected"] ELSE b : b \in old}
  BY <1>1, <1>2, <1>3
<1>5. PICK known : known = FactsIn(fs)
  OBVIOUS
<1>6. ASSUME NEW b \in old, NEW x, x = IF b.id = id THEN [b EXCEPT !.review = "rejected"] ELSE b
      PROVE  x.id = b.id /\ BriefOK(known, x)
  <2>1. BriefOK(known, b)
    <3>1. Rests(known, "research_briefs", b)
      BY <1>1, <1>2, <1>5, FilesDue
    <3>2. QED
      BY <3>1 DEF Rests
  <2>2. /\ x.id = b.id /\ x.hypothesis = b.hypothesis /\ x.counter = b.counter
        /\ x.assessment = b.assessment /\ x.created = b.created /\ DOMAIN x = DOMAIN b
    BY <1>6, <2>1 DEF BriefOK
  <2>3. QED
    BY <2>1, <2>2 DEF BriefOK
<1>7. ASSUME NEW x \in new
      PROVE  BriefOK(known, x) /\ \E b \in old : x.id = b.id
  <2>1. PICK b \in old : x = IF b.id = id THEN [b EXCEPT !.review = "rejected"] ELSE b
    BY <1>4
  <2>2. QED
    BY <1>6, <2>1
<1>8. ASSUME NEW b \in old
      PROVE  \E x \in new : x.id = b.id
  <2>1. PICK x : x = IF b.id = id THEN [b EXCEPT !.review = "rejected"] ELSE b
    OBVIOUS
  <2>2. x \in new
    BY <1>4, <2>1
  <2>3. QED
    BY <1>6, <2>1, <2>2
<1>9. ASSUME NEW c \in AllCategories
      PROVE  SameIds(fs[c], g[c])
  BY <1>1, <1>4, <1>7, <1>8, ZenonT(40) DEF SameIds
<1>10. FactsIn(g) = known
  BY <1>5, <1>9, SameFacts
<1>11. ASSUME NEW c \in AllCategories
       PROVE  WriteOK(known, Write(c, g[c]))
  <2>1. CASE c = "research_briefs"
    <3>1. \A x \in new : Rests(known, c, x)
      BY <1>2, <1>7, <2>1 DEF Rests
    <3>2. QED
      BY <1>1, <1>2, <2>1, <3>1 DEF WriteOK, Write
  <2>2. CASE c # "research_briefs"
    BY <1>4, <1>5, <2>2 DEF FilesOK
  <2>3. QED
    BY <2>1, <2>2
<1>12. FilesOK(g)
  BY <1>4, <1>10, <1>11 DEF FilesOK
<1>13. QED
  BY <1>5, <1>10, <1>12

(* Each step keeps it: a write, a failed one, a crash, a rejection.        *)
LEMMA ChainInvStep == ChainInv /\ [ChainNext]_allVars => ChainInv'
<1> SUFFICES ASSUME ChainInv, [ChainNext]_allVars PROVE ChainInv'
  OBVIOUS
<1> USE DEF ChainInv
<1>1. CASE shelf' = shelf /\ work' = NoWork /\ refresh' = refresh
  <2>1. work' = [part |-> work'.part, writes |-> work'.writes, raises |-> work'.raises]
    BY <1>1 DEF NoWork
  <2>2. PlanSound(FactsIn(shelf'), work'.writes)
    BY <1>1, NoWorkSound
  <2>3. QED
    BY <1>1, <2>1, <2>2
<1>2. CASE UNCHANGED chain
  BY <1>2 DEF chain
<1>3. ASSUME NEW part, NEW plan, PlanSound(FactsIn(shelf), plan.writes),
             work' = [part |-> part, writes |-> plan.writes, raises |-> plan.raises],
             UNCHANGED <<shelf, refresh>>
      PROVE  ChainInv'
  BY <1>3
<1>4. CASE StartWork
  <2>1. PICK plan : plan = PlanOf(step)
    OBVIOUS
  <2>2. work' = [part |-> FirstPart(step), writes |-> plan.writes, raises |-> plan.raises]
        /\ UNCHANGED <<shelf, refresh>>
    BY <1>4, <2>1 DEF StartWork
  <2>3. PlanSound(FactsIn(shelf), plan.writes)
    BY <2>1, PlannedSound
  <2>4. QED
    BY <1>3, <2>2, <2>3
<1>5. CASE StartSignals
  <2>1. PICK plan \in run_signal_generation_workflow(shelf, CompanyOf(step)) :
          /\ work' = [part |-> "signals", writes |-> plan.writes, raises |-> plan.raises]
          /\ UNCHANGED <<shelf, refresh>>
    BY <1>5 DEF StartSignals
  <2>2. PlanSound(FactsIn(shelf), plan.writes)
    BY GenerationSound
  <2>3. QED
    BY <1>3, <2>1, <2>2
<1>6. CASE WriteNext
  <2>1. PICK w, rest, next : w = Head(work.writes) /\ rest = Tail(work.writes) /\ next = Put(shelf, w)
    OBVIOUS
  <2>2. work.writes # <<>> /\ shelf' = next /\ refresh' = refresh
        /\ work' = [work EXCEPT !.writes = Tail(@)]
    BY <1>6, <2>1 DEF WriteNext
  <2>3. work' = [part |-> work'.part, writes |-> work'.writes, raises |-> work'.raises]
        /\ work'.writes = rest
    BY <2>1, <2>2
  <2>4. WriteOK(FactsIn(shelf), w)
    <3>1. PICK more : more = FactsIn(shelf) \cup FactsOf(w)
      OBVIOUS
    <3>2. FactsIn(shelf) \subseteq more /\ FactsOf(Head(work.writes)) \subseteq more
      BY <2>1, <3>1
    <3>3. QED
      BY <2>1, <2>2, <3>2, SoundStep
  <2>5. /\ FilesOK(next) /\ FactsIn(shelf) \subseteq FactsIn(next)
        /\ FactsOf(w) \subseteq FactsIn(next)
    BY <2>1, <2>4, PutKeeps
  <2>6. PlanSound(FactsIn(next), rest)
    BY <2>1, <2>2, <2>5, SoundStep
  <2>7. QED
    BY <2>2, <2>3, <2>5, <2>6
<1>7. CASE WorkWriteRaises
  <2>1. PICK failure : failure = FailureOf(work.writes)
    OBVIOUS
  <2>2. PICK writes : writes = IF InHandler(work.writes, work.raises) THEN <<>> ELSE <<failure>>
    OBVIOUS
  <2>3. work' = [work EXCEPT !.raises = TRUE, !.writes = writes] /\ UNCHANGED <<shelf, refresh>>
    BY <1>7, <2>1, <2>2 DEF WorkWriteRaises
  <2>4. work' = [part |-> work'.part, writes |-> work'.writes, raises |-> work'.raises]
        /\ work'.writes = writes
    BY <2>3
  <2>5. WriteOK(FactsIn(shelf), failure)
    <3>1. "outcomes" \in Plain
      BY DEF Plain
    <3>2. QED
      BY <2>1, <3>1, PlainDue DEF FailureOf
  <2>6. PlanSound(FactsIn(shelf), writes)
    BY <2>2, <2>5, SoundNothing, SoundOne
  <2>7. QED
    BY <2>3, <2>4, <2>6
<1>8. CASE WorkReturns \/ WorkRaises \/ DieAmidWork
  <2>1. shelf' = shelf /\ work' = NoWork /\ refresh' = refresh
    BY <1>8 DEF WorkReturns, WorkRaises, DieAmidWork
  <2>2. QED
    BY <1>1, <2>1
<1>9. CASE \E b \in shelf.research_briefs : OperatorRejects(b.id)
  <2>1. PICK id : OperatorRejects(id)
    BY <1>9
  <2>2. /\ shelf' = [shelf EXCEPT !.research_briefs =
               {IF b.id = id THEN [b EXCEPT !.review = "rejected"] ELSE b : b \in @}]
        /\ UNCHANGED <<refresh, work>>
    BY <2>1 DEF OperatorRejects
  <2>3. FilesOK(shelf') /\ FactsIn(shelf') = FactsIn(shelf)
    BY <2>2, RejectionKeeps, SMTT(40)
  <2>4. QED
    BY <2>2, <2>3
<1>10. CASE UNCHANGED allVars
  BY <1>2, <1>10 DEF allVars
<1>11. CASE ChainAdvance
  <2>1. \/ UNCHANGED chain \/ StartWork \/ StartSignals \/ WriteNext \/ WorkWriteRaises
        \/ WorkReturns \/ WorkRaises
    BY <1>11 DEF ChainAdvance, Other
  <2>2. QED
    BY <1>2, <1>4, <1>5, <1>6, <1>7, <1>8, <2>1
<1>12. QED
  BY <1>8, <1>9, <1>10, <1>11 DEF ChainNext

(* What rests on files is traced to them.                                  *)
LEMMA FilesTrace == FilesOK(shelf) => SignalsTraceToEvidence
<1> SUFFICES ASSUME FilesOK(shelf) PROVE SignalsTraceToEvidence
  OBVIOUS
<1>1. PICK known : known = FactsIn(shelf)
  OBVIOUS
<1>2. {"documents", "source_references", "raw", "parsed_text", "evidence_spans", "hypotheses",
       "evidence_assessments", "counter_hypotheses", "research_briefs", "features",
       "signal_scores", "signals"} \subseteq AllCategories \ {"gates"}
  BY DEF AllCategories
<1>3. \A c \in AllCategories : \A x \in shelf[c] : Rests(known, c, x)
  BY <1>1, FilesDue
<1>4. ASSUME NEW c \in AllCategories \ {"gates"}, NEW i, <<c, i>> \in known
      PROVE  i \in Ids(c) /\ \E x \in shelf[c] : x.id = i
  <2>1. PICK x \in shelf[c] : x.id = i
    BY <1>1, <1>4, Filed
  <2>2. QED
    BY <2>1 DEF Ids
<1>5. ASSUME NEW l, LinkOK(known, l)
      PROVE  LinkHolds(l)
  <2>1. \A c \in {"documents", "source_references", "raw", "parsed_text"} : <<c, l.document>> \in known
    BY <1>5 DEF LinkOK, DocumentFacts
  <2>2. \A c \in {"documents", "source_references", "raw", "parsed_text"} : l.document \in Ids(c)
    BY <1>2, <1>4, <2>1
  <2>3. PICK s \in shelf["evidence_spans"] : s.id = l.span
    BY <1>2, <1>4, <1>5 DEF LinkOK
  <2>4. s.document = s.id[1][1]
    BY <1>2, <1>3 DEF Rests, SpanOK
  <2>5. s.document = l.document
    BY <1>5, <2>3, <2>4 DEF LinkOK
  <2>6. QED
    BY <2>2, <2>3, <2>5 DEF LinkHolds
<1>6. ASSUME NEW b \in shelf.research_briefs
      PROVE  /\ ~Dangling(shelf, b)
             /\ \A h \in ById(shelf.hypotheses, b.hypothesis) :
                  Cardinality(Documents(h.links)) >= 2 /\ \A l \in h.links : LinkHolds(l)
             /\ \A a \in ById(shelf.evidence_assessments, b.assessment) :
                  a.grade \in {"strong", "moderate"}
  <2>1. BriefOK(known, b)
    <3>1. b \in shelf["research_briefs"] /\ "research_briefs" \in AllCategories
      BY <1>2
    <3>2. QED
      BY <1>3, <3>1 DEF Rests
  <2>2. ~Dangling(shelf, b)
    BY <1>2, <1>4, <2>1 DEF BriefOK, Dangling, ById
  <2>3. ASSUME NEW h \in ById(shelf.hypotheses, b.hypothesis)
        PROVE  Cardinality(Documents(h.links)) >= 2 /\ \A l \in h.links : LinkHolds(l)
    <3>1. h \in shelf["hypotheses"] /\ "hypotheses" \in AllCategories
      BY <1>2 DEF ById
    <3>2. HypothesisOK(known, h)
      BY <1>3, <3>1 DEF Rests
    <3>3. QED
      BY <1>5, <3>2 DEF HypothesisOK
  <2>4. ASSUME NEW a \in ById(shelf.evidence_assessments, b.assessment)
        PROVE  a.grade \in {"strong", "moderate"}
    <3>1. a \in shelf["evidence_assessments"] /\ "evidence_assessments" \in AllCategories
          /\ a.id = b.assessment
      BY <1>2 DEF ById
    <3>2. AssessmentOK(a)
      BY <1>3, <3>1 DEF Rests
    <3>3. QED
      BY <2>1, <3>1, <3>2 DEF AssessmentOK, BriefOK
  <2>5. QED
    BY <2>2, <2>3, <2>4
<1>7. ASSUME NEW f \in shelf.features
      PROVE  FeatureOK(known, f)
  <2>1. f \in shelf["features"] /\ "features" \in AllCategories
    BY <1>2
  <2>2. QED
    BY <1>3, <2>1 DEF Rests
<1>8. \A f \in shelf.features : f.brief \in Ids("research_briefs")
  BY <1>2, <1>4, <1>7 DEF FeatureOK
<1>9. ASSUME NEW s \in shelf.signals
      PROVE  /\ s.features \subseteq Ids("features") /\ s.hypothesis \in Ids("hypotheses")
             /\ {f.name : f \in {g \in shelf.features : g.id \in s.features}} = FeatureName
             /\ \A n \in FeatureName : <<s.id, n>> \in Ids("signal_scores")
             /\ s.stance # "negative"
  <2>1. SignalOK(known, s)
    <3>1. s \in shelf["signals"] /\ "signals" \in AllCategories
      BY <1>2
    <3>2. QED
      BY <1>3, <3>1 DEF Rests
  <2>2. s.features \subseteq Ids("features") /\ s.hypothesis \in Ids("hypotheses")
    BY <1>2, <1>4, <2>1 DEF SignalOK
  <2>3. \A n \in FeatureName : <<s.id, n>> \in Ids("signal_scores")
    BY <1>2, <1>4, <2>1 DEF SignalOK
  <2>4. PICK cited : cited = {g \in shelf.features : g.id \in s.features}
    OBVIOUS
  <2>5. ASSUME NEW f \in cited PROVE f.name \in FeatureName
    BY <1>7, <2>4 DEF FeatureOK
  <2>6. ASSUME NEW n \in FeatureName PROVE \E f \in cited : f.name = n
    <3>1. PICK i \in s.features : i[2] = n
      BY <2>1 DEF SignalOK
    <3>2. PICK f \in shelf["features"] : f.id = i
      BY <1>2, <1>4, <2>1, <3>1 DEF SignalOK
    <3>3. f.name = n
      BY <1>7, <3>1, <3>2 DEF FeatureOK
    <3>4. QED
      BY <2>4, <3>1, <3>2, <3>3
  <2>7. {f.name : f \in cited} = FeatureName
    BY <2>5, <2>6
  <2>8. s.stance # "negative"
    BY <2>1 DEF SignalOK
  <2>9. QED
    BY <2>2, <2>3, <2>4, <2>7, <2>8
<1>10. QED
  BY <1>6, <1>8, <1>9 DEF SignalsTraceToEvidence

(* Whatever fixtures are ingested today or were the day before, whichever  *)
(* write of an executor fails, whenever the process dies and whatever the  *)
(* operators reject meanwhile: a brief on file leads to a hypothesis, a    *)
(* critique and an assessment on file, the hypothesis to evidence of two   *)
(* documents of which every part is, a feature to a brief, and a signal to *)
(* its hypothesis, one feature of each name and their scores; no signal    *)
(* points down.                                                            *)
THEOREM SignalsAreTraced == ChainSpec => []SignalsTraceToEvidence
<1>1. ChainInv => SignalsTraceToEvidence
  BY FilesTrace DEF ChainInv
<1>2. QED
  BY <1>1, ChainInvInit, ChainInvStep, PTL DEF ChainSpec

-----------------------------------------------------------------------------
(* What sequences contain.                                                 *)

(* A concatenation contains what its parts do.                             *)
LEMMA ConcatHas ==
    ASSUME NEW a, IsSequence(a), NEW b, IsSequence(b)
    PROVE  IsSequence(a \o b) /\ ToSet(a \o b) = ToSet(a) \cup ToSet(b)
<1>1. PICK c : c = a \o b
  OBVIOUS
<1>2. Joins(a, b, c)
  BY <1>1, Joined
<1>3. /\ IsSequence(c) /\ Len(a) \in Nat /\ Len(b) \in Nat
      /\ DOMAIN a = 1..Len(a) /\ DOMAIN b = 1..Len(b) /\ DOMAIN c = 1..(Len(a) + Len(b))
      /\ \A i \in 1..Len(a) : c[i] = a[i]
      /\ \A i \in 1..Len(b) : c[Len(a) + i] = b[i]
  BY <1>2 DEF Joins
<1>4. \A x \in ToSet(a) : x \in ToSet(c)
  <2>1. \A i \in 1..Len(a) : i \in DOMAIN c
    BY <1>3
  <2>2. QED
    BY <1>3, <2>1 DEF ToSet
<1>5. \A x \in ToSet(b) : x \in ToSet(c)
  <2>1. \A i \in 1..Len(b) : Len(a) + i \in DOMAIN c
    BY <1>3
  <2>2. QED
    BY <1>3, <2>1 DEF ToSet
<1>6. ASSUME NEW x \in ToSet(c)
      PROVE  x \in ToSet(a) \cup ToSet(b)
  <2>1. PICK i \in DOMAIN c : c[i] = x
    BY PlaceOf
  <2>2. CASE i \in 1..Len(a)
    BY <1>3, <2>1, <2>2 DEF ToSet
  <2>3. CASE i \notin 1..Len(a)
    <3>1. PICK j : j = i - Len(a)
      OBVIOUS
    <3>2. j \in 1..Len(b) /\ i = Len(a) + j
      BY <1>3, <2>3, <3>1
    <3>3. b[j] = x
      BY <1>3, <2>1, <3>2
    <3>4. QED
      BY <1>3, <3>2, <3>3 DEF ToSet
  <2>4. QED
    BY <2>2, <2>3
<1>7. ToSet(c) = ToSet(a) \cup ToSet(b)
  BY <1>4, <1>5, <1>6
<1>8. QED
  BY <1>1, <1>3, <1>7

(* A tuple contains what it lists.                                         *)
LEMMA TupleHas ==
    /\ ToSet(<<>>) = {}
    /\ \A a : ToSet(<<a>>) = {a}
    /\ \A a, b : ToSet(<<a, b>>) = {a, b}
    /\ \A a, b, c, d : ToSet(<<a, b, c, d>>) = {a, b, c, d}
    /\ \A a, b, c, d, e : ToSet(<<a, b, c, d, e>>) = {a, b, c, d, e}
    /\ \A a, b, c, d, e, f, g : ToSet(<<a, b, c, d, e, f, g>>) = {a, b, c, d, e, f, g}
<1>1. ToSet(<<>>) = {}
  BY DEF ToSet
<1>2. ASSUME NEW a PROVE ToSet(<<a>>) = {a}
  BY DEF ToSet
<1>3. ASSUME NEW a, NEW b PROVE ToSet(<<a, b>>) = {a, b}
  BY DEF ToSet
<1>4. ASSUME NEW a, NEW b, NEW c, NEW d PROVE ToSet(<<a, b, c, d>>) = {a, b, c, d}
  BY DEF ToSet
<1>5. ASSUME NEW a, NEW b, NEW c, NEW d, NEW e PROVE ToSet(<<a, b, c, d, e>>) = {a, b, c, d, e}
  BY DEF ToSet
<1>6. ASSUME NEW a, NEW b, NEW c, NEW d, NEW e, NEW f, NEW g
      PROVE  ToSet(<<a, b, c, d, e, f, g>>) = {a, b, c, d, e, f, g}
  BY DEF ToSet
<1>7. QED
  BY <1>1, <1>2, <1>3, <1>4, <1>5, <1>6

(* A sequence contains its head and what its tail does.                    *)
LEMMA HeadHas ==
    ASSUME NEW a, IsSequence(a), a # <<>>
    PROVE  ToSet(a) = {Head(a)} \cup ToSet(Tail(a))
<1>1. PICK t : t = Tail(a)
  OBVIOUS
<1>2. /\ 1 \in DOMAIN a /\ Head(a) = a[1] /\ DOMAIN a = 1..Len(a)
      /\ Len(a) \in Nat /\ DOMAIN t = 1..(Len(a) - 1)
      /\ \A i \in DOMAIN t : t[i] = a[i + 1] /\ i + 1 \in DOMAIN a
  BY <1>1, TailIs
<1>3. \A x \in ToSet(t) : x \in ToSet(a)
  BY <1>2 DEF ToSet
<1>4. Head(a) \in ToSet(a)
  BY <1>2 DEF ToSet
<1>5. ASSUME NEW x \in ToSet(a)
      PROVE  x = Head(a) \/ x \in ToSet(t)
  <2>1. PICK i \in DOMAIN a : a[i] = x
    BY PlaceOf
  <2>2. CASE i = 1
    BY <1>2, <2>1, <2>2
  <2>3. CASE i # 1
    <3>1. i - 1 \in DOMAIN t /\ (i - 1) + 1 = i
      BY <1>2, <2>3
    <3>2. t[i - 1] = x
      BY <1>2, <2>1, <3>1
    <3>3. QED
      BY <3>1, <3>2 DEF ToSet
  <2>4. QED
    BY <2>2, <2>3
<1>6. QED
  BY <1>1, <1>3, <1>4, <1>5

(* Nothing of the parts is lost.                                           *)
LEMMA UnrolledHas ==
    ASSUME NEW s, NEW n \in Nat, \A i \in 1..n : IsSequence(s[i]), NEW g, Unrolled(s, n, g)
    PROVE  \A i \in 1..n : IsSequence(g[i]) /\ \A j \in 1..i : ToSet(s[j]) \subseteq ToSet(g[i])
<1> DEFINE P(i) == IsSequence(g[i]) /\ \A j \in 1..i : ToSet(s[j]) \subseteq ToSet(g[i])
<1> DEFINE B == {i \in 1..n : ~ P(i)}
<1>1. SUFFICES ASSUME B # {} PROVE FALSE
  OBVIOUS
<1>2. PICK m \in B : \A k \in B : m <= k
  <2>1. B \subseteq Nat
    OBVIOUS
  <2> HIDE DEF B
  <2>2. QED
    BY <1>1, <2>1, LeastNatural
<1>3. m \in 1..n /\ ~ P(m)
  OBVIOUS
<1>4. \A i \in 1..n : g[i] = IF i = 1 THEN s[i] ELSE Cat(g[i - 1], s[i])
  BY DEF Unrolled
<1>5. CASE m = 1
  <2>1. g[1] = s[1]
    BY <1>3, <1>4, <1>5
  <2>2. \A j \in 1..1 : j = 1
    OBVIOUS
  <2>3. QED
    BY <1>3, <1>5, <2>1, <2>2
<1>6. CASE m # 1
  <2>1. PICK k : k = m - 1
    OBVIOUS
  <2>2. k \in 1..n /\ ~ (m <= k) /\ \A j \in 1..m : j \in 1..k \/ j = m
    BY <1>3, <1>6, <2>1
  <2>3. k \notin B
    BY <1>2, <2>2
  <2>4. P(k)
    BY <2>2, <2>3
  <2>5. g[m] = g[k] \o s[m]
    BY <1>3, <1>4, <1>6, <2>1 DEF Cat
  <2>6. IsSequence(g[m]) /\ ToSet(g[m]) = ToSet(g[k]) \cup ToSet(s[m])
    BY <1>3, <2>4, <2>5, ConcatHas
  <2>7. P(m)
    BY <2>2, <2>4, <2>6
  <2>8. QED
    BY <1>3, <2>7
<1>7. QED
  BY <1>5, <1>6

(* A flattened sequence contains what its parts do.                        *)
LEMMA FlattenHas ==
    ASSUME NEW s, IsSequence(s), \A i \in DOMAIN s : IsSequence(s[i])
    PROVE  /\ IsSequence(FlattenSeq(s))
           /\ \A x : x \in ToSet(FlattenSeq(s)) <=> \E i \in DOMAIN s : x \in ToSet(s[i])
<1>1. Len(s) \in Nat /\ DOMAIN s = 1..Len(s) /\ (Len(s) = 0 => s = <<>>)
  BY SequenceIs
<1>2. ASSUME NEW i \in DOMAIN s PROVE ToSet(s[i]) \subseteq ToSet(FlattenSeq(s))
  <2>1. Len(s) # 0 /\ Len(s) \in 1..Len(s)
    BY <1>1
  <2>2. PICK g : g = CHOOSE h : Unrolled(s, Len(s), h)
    OBVIOUS
  <2>3. Unrolled(s, Len(s), g)
    BY <1>1, <2>2, UnrolledExists
  <2>4. FlattenSeq(s) = g[Len(s)]
    BY <2>1, <2>2, SMTT(40) DEF FlattenSeq, Unrolled, Cat
  <2>5. QED
    BY <1>1, <2>1, <2>3, <2>4, UnrolledHas
<1>3. QED
  BY <1>2, FlattenElements

(* An ordering of a finite set leaves nothing out.                         *)
LEMMA OrderedHas ==
    ASSUME NEW S, IsFiniteSet(S)
    PROVE  IsSequence(SetToSeq(S)) /\ ToSet(SetToSeq(S)) = S
<1>1. PICK s, n : s = SetToSeq(S) /\ n = Cardinality(S)
  OBVIOUS
<1>2. n \in Nat /\ ExistsBijection(1..n, S)
  BY <1>1, FS_CardinalityType
<1>3. \E f \in [1..n -> S] : IsInjective(f)
  <2>1. PICK f \in Bijection(1..n, S) : TRUE
    BY <1>2 DEF ExistsBijection
  <2>2. f \in [1..n -> S] /\ IsInjective(f)
    BY <2>1 DEF Bijection, Injection
  <2>3. QED
    BY <2>2
<1>4. s \in [1..n -> S] /\ IsInjective(s)
  BY <1>1, <1>3 DEF SetToSeq
<1>5. s \in Injection(1..n, S)
  BY <1>4 DEF Injection
<1>6. Cardinality(1..n) = n
  BY <1>2, FS_Interval
<1>7. s \in Surjection(1..n, S)
  BY <1>1, <1>5, <1>6, FS_Injection
<1>8. \A x \in S : \E i \in 1..n : s[i] = x
  BY <1>7 DEF Surjection
<1>9. DOMAIN s = 1..n
  BY <1>4
<1>10. ToSet(s) = S
  BY <1>4, <1>8, <1>9 DEF ToSet
<1>11. QED
  BY <1>1, <1>10, OrderedIs

(* Every document of a kind that is read from a directory is found.        *)
LEMMA FoundHas ==
    ASSUME NEW S, IsFiniteSet(S), \A d \in S : d.kind \in DocumentKind
    PROVE  /\ IsSequence(discover_parseable_document_paths(S))
           /\ ToSet(discover_parseable_document_paths(S)) = S
<1>1. ASSUME NEW kind
      PROVE  IsSequence(InDirectory(S, kind)) /\ ToSet(InDirectory(S, kind)) = {d \in S : d.kind = kind}
  <2>1. PICK D : D = {d \in S : d.kind = kind}
    OBVIOUS
  <2>2. IsFiniteSet(D)
    BY <2>1, FS_Subset
  <2>3. IsSequence(SetToSeq(D)) /\ ToSet(SetToSeq(D)) = D
    BY <2>2, OrderedHas
  <2>4. QED
    BY <2>1, <2>3 DEF InDirectory
<1>2. PICK a, b, c : /\ a = InDirectory(S, "earnings_call")
                     /\ b = InDirectory(S, "filing")
                     /\ c = InDirectory(S, "news_item")
  OBVIOUS
<1>3. IsSequence(a) /\ IsSequence(b) /\ IsSequence(c)
  BY <1>1, <1>2
<1>4. PICK ab : ab = a \o b
  OBVIOUS
<1>5. IsSequence(ab) /\ ToSet(ab) = ToSet(a) \cup ToSet(b)
  BY <1>3, <1>4, ConcatHas
<1>6. IsSequence(ab \o c) /\ ToSet(ab \o c) = ToSet(ab) \cup ToSet(c)
  BY <1>3, <1>5, ConcatHas
<1>7. discover_parseable_document_paths(S) = ab \o c
  BY <1>2, <1>4 DEF discover_parseable_document_paths
<1>8. ToSet(a) \cup ToSet(b) \cup ToSet(c) = S
  <2>1. /\ ToSet(a) = {d \in S : d.kind = "earnings_call"}
        /\ ToSet(b) = {d \in S : d.kind = "filing"}
        /\ ToSet(c) = {d \in S : d.kind = "news_item"}
    BY <1>1, <1>2
  <2>2. \A d \in S : d.kind \in {"earnings_call", "filing", "news_item"}
    BY DEF DocumentKind
  <2>3. QED
    BY <2>1, <2>2
<1>9. QED
  BY <1>5, <1>6, <1>7, <1>8

(* The writes of a plan that a gate decides on.                            *)
LEMMA GatedRefused ==
    ASSUME NEW gate, Refused(gate), NEW writes, NEW outcome, NEW failure,
           NEW plan, plan = Gated(gate, writes, outcome, failure), NEW g, g = Write("gates", {gate})
    PROVE  IsSequence(plan.writes) /\ ToSet(plan.writes) = {g, failure} /\ plan.raises
<1>1. plan = Plan(<<g, failure>>, TRUE)
  BY DEF Gated
<1>2. plan.writes = <<g, failure>> /\ plan.raises
  BY <1>1 DEF Plan
<1>3. IsSequence(<<g, failure>>) /\ ToSet(<<g, failure>>) = {g, failure}
  BY TupleIs, TupleHas
<1>4. QED
  BY <1>2, <1>3

(* A plan behind a gate that lets it through.                              *)
LEMMA GatedPassed ==
    ASSUME NEW gate, ~ Refused(gate), NEW writes, IsSequence(writes),
           NEW outcome, IsSequence(outcome), NEW failure,
           NEW plan, plan = Gated(gate, writes, outcome, failure), NEW g, g = Write("gates", {gate})
    PROVE  /\ IsSequence(plan.writes) /\ ~ plan.raises
           /\ \A w : w \in ToSet(plan.writes) <=> w = g \/ w \in ToSet(writes) \/ w \in ToSet(outcome)
<1>1. PICK a, h : a = h \o writes /\ h = <<g>>
  OBVIOUS
<1>2. plan = Plan(a \o outcome, FALSE)
  BY <1>1 DEF Gated
<1>3. plan.writes = a \o outcome /\ ~ plan.raises
  BY <1>2 DEF Plan
<1>4. IsSequence(h) /\ ToSet(h) = {g}
  BY <1>1, TupleIs, TupleHas
<1>5. IsSequence(a) /\ ToSet(a) = ToSet(h) \cup ToSet(writes)
  BY <1>1, <1>4, ConcatHas
<1>6. IsSequence(a \o outcome) /\ ToSet(a \o outcome) = ToSet(a) \cup ToSet(outcome)
  BY <1>5, ConcatHas
<1>7. QED
  BY <1>3, <1>4, <1>5, <1>6

(* Plans in turn write what the plans write, and when none raises all of it. *)
LEMMA InTurnHas ==
    ASSUME NEW plans, IsSequence(plans), \A i \in DOMAIN plans : IsSequence(plans[i].writes),
           NEW plan, plan = InTurn(plans)
    PROVE  /\ IsSequence(plan.writes)
           /\ \A w \in ToSet(plan.writes) : \E i \in DOMAIN plans : w \in ToSet(plans[i].writes)
           /\ ~ plan.raises => \A i \in DOMAIN plans :
                ~ plans[i].raises /\ ToSet(plans[i].writes) \subseteq ToSet(plan.writes)
<1>1. Len(plans) \in Nat /\ DOMAIN plans = 1..Len(plans)
  BY SequenceIs
<1>2. PICK raising : raising = {i \in DOMAIN plans : plans[i].raises}
  OBVIOUS
<1>3. PICK last : last = IF raising = {} THEN Len(plans) ELSE Min(raising)
  OBVIOUS
<1>4. last \in Nat /\ last <= Len(plans)
  <2>1. CASE raising = {}
    BY <1>1, <1>3, <2>1
  <2>2. CASE raising # {}
    <3>1. raising \subseteq 1..Len(plans) /\ raising \subseteq Nat
      BY <1>1, <1>2
    <3>2. \E n \in raising : \A m \in raising : n <= m
      BY <2>2, <3>1, LeastNatural
    <3>3. Min(raising) \in raising
      BY <3>2 DEF Min
    <3>4. last = Min(raising)
      BY <1>3, <2>2
    <3>5. last \in 1..Len(plans)
      BY <3>1, <3>3, <3>4
    <3>6. QED
      BY <1>1, <3>5
  <2>3. QED
    BY <2>1, <2>2
<1>5. PICK s : s = [i \in 1..last |-> plans[i].writes]
  OBVIOUS
<1>6. IsSequence(s) /\ DOMAIN s = 1..last
  <2>1. s = [i \in 1..last |-> s[i]]
    BY <1>5
  <2>2. QED
    BY <1>4, <2>1, SequenceOf
<1>7. \A i \in DOMAIN s : i \in DOMAIN plans /\ s[i] = plans[i].writes /\ IsSequence(s[i])
  BY <1>1, <1>4, <1>5
<1>8. /\ IsSequence(FlattenSeq(s))
      /\ \A x : x \in ToSet(FlattenSeq(s)) <=> \E i \in DOMAIN s : x \in ToSet(s[i])
  BY <1>6, <1>7, FlattenHas
<1>9. plan.writes = FlattenSeq(s) /\ (plan.raises <=> raising # {})
  BY <1>2, <1>3, <1>5 DEF InTurn, Plan
<1>10. ASSUME ~ plan.raises, NEW i \in DOMAIN plans
       PROVE  ~ plans[i].raises /\ ToSet(plans[i].writes) \subseteq ToSet(plan.writes)
  <2>1. raising = {} /\ last = Len(plans)
    BY <1>3, <1>9, <1>10
  <2>2. ~ plans[i].raises
    BY <1>2, <2>1
  <2>3. i \in DOMAIN s
    BY <1>1, <1>6, <2>1
  <2>4. QED
    BY <1>7, <1>8, <1>9, <2>2, <2>3
<1>11. QED
  BY <1>7, <1>8, <1>9, <1>10

-----------------------------------------------------------------------------
(* What the gates say.                                                     *)

(* A gate refuses what a blocking violation is found in.                   *)
LEMMA VerdictBlocks ==
    ASSUME NEW gate, NEW issues, NEW violations,
           \/ gate.decision = quality_decision_for_findings(issues, violations, TRUE)
           \/ gate.decision = quality_decision_for_findings(issues, violations, FALSE),
           NEW v \in ToSet(violations), v.blocking
    PROVE  Refused(gate)
<1>1. \E i \in DOMAIN violations : violations[i].blocking
  BY PlaceOf
<1>2. gate.decision \in {"refuse", "quarantine"}
  BY <1>1 DEF quality_decision_for_findings
<1>3. QED
  BY <1>2 DEF Refused

(* A gate refuses or it does not.                                          *)
LEMMA RefusedIs == \A gate : Refused(gate) \in BOOLEAN
BY DEF Refused

(* A check of one item says one thing or nothing.                          *)
LEMMA OnlyIs ==
    ASSUME NEW s, NEW item, s = <<item>> \/ s = <<>>
    PROVE  IsSequence(s)
<1>1. IsSequence(<<>>)
  BY DEF IsSequence
<1>2. IsSequence(<<item>>)
  BY TupleIs
<1>3. QED
  BY <1>1, <1>2

(* Every violation is a blocking one.                                      *)
LEMMA BlockingIs == \A c, t, r : Violation(c, t, r).blocking
BY DEF Violation

(* Nothing has one order.                                                  *)
LEMMA NothingOrdered == InSomeOrder({}) = <<>>
<1>1. InSomeOrder({}) = <<>>
  BY DEF InSomeOrder, FoldSet, MapThenFoldSet
<1>2. QED
  BY <1>1

(* A sequence of one sequence for each item.                               *)
LEMMA InTurnOfItems ==
    ASSUME NEW items, IsSequence(items), NEW parts, parts = [i \in DOMAIN items |-> parts[i]],
           \A i \in DOMAIN items : IsSequence(parts[i])
    PROVE  /\ IsSequence(FlattenSeq(parts))
           /\ \A i \in DOMAIN items : ToSet(parts[i]) \subseteq ToSet(FlattenSeq(parts))
<1>1. IsSequence(parts) /\ DOMAIN parts = DOMAIN items
  BY PlansAre
<1>2. QED
  BY <1>1, FlattenHas

(* The verdict on a bundle is kept under the document's name, and a bundle *)
(* without a span is refused.                                              *)
LEMMA BundleGate ==
    ASSUME NEW b, NEW gate, gate = validate_evidence_bundle(b)
    PROVE  gate.name = "evidence_bundle" /\ gate.target = b.id
BY DEF validate_evidence_bundle, _finalize_gate_result

(* A bundle without a span is refused.                                     *)
LEMMA SpansRequired ==
    ASSUME NEW b, IsSequence(b.segments), b.spans = <<>>, b.artifacts = <<>>
    PROVE  Refused(validate_evidence_bundle(b))
<1>1. PICK gate : gate = validate_evidence_bundle(b)
  OBVIOUS
<1>2. PICK violations :
        /\ violations = EvidenceViolations(b)
        /\ gate.decision = quality_decision_for_findings({}, violations, TRUE)
  BY <1>1 DEF validate_evidence_bundle, _finalize_gate_result
<1>3. PICK artifacts : artifacts = <<b.text>> \o b.segments \o b.spans \o b.artifacts
  OBVIOUS
<1>4. IsSequence(artifacts) /\ artifacts # <<>>
  <2>1. IsSequence(<<b.text>>) /\ IsSequence(<<>>) /\ ToSet(<<b.text>>) = {b.text} /\ ToSet(<<>>) = {}
    BY TupleIs, TupleHas DEF IsSequence
  <2>2. PICK p : p = <<b.text>> \o b.segments
    OBVIOUS
  <2>3. IsSequence(p) /\ b.text \in ToSet(p)
    BY <2>1, <2>2, ConcatHas
  <2>4. PICK q : q = p \o <<>>
    OBVIOUS
  <2>5. IsSequence(q) /\ b.text \in ToSet(q)
    BY <2>1, <2>3, <2>4, ConcatHas
  <2>6. IsSequence(q \o <<>>) /\ b.text \in ToSet(q \o <<>>)
    BY <2>1, <2>5, ConcatHas
  <2>7. artifacts = q \o <<>>
    BY <1>3, <2>2, <2>4
  <2>8. QED
    BY <2>1, <2>6, <2>7
<1>5. PICK cases : cases = evaluate_provenance_completeness(b.id, artifacts).failures
  OBVIOUS
<1>6. IsSequence(cases)
  <2>1. PICK parts : parts = [i \in DOMAIN artifacts |->
              Only(_provenance_failures(artifacts[i]) # {},
                   Failure("missing_provenance", artifacts[i].id, "high", TRUE))]
    OBVIOUS
  <2>2. parts = [i \in DOMAIN artifacts |-> parts[i]]
    BY <2>1
  <2>5. ASSUME NEW i \in DOMAIN artifacts PROVE IsSequence(parts[i])
    <3>1. PICK item : parts[i] = <<item>> \/ parts[i] = <<>>
      BY <2>1 DEF Only
    <3>2. QED
      BY <3>1, OnlyIs
  <2>3. IsSequence(FlattenSeq(parts))
    BY <1>4, <2>2, <2>5, InTurnOfItems
  <2>4. cases = FlattenSeq(parts)
    BY <1>4, <1>5, <2>1 DEF evaluate_provenance_completeness, Artifacts, FailuresOf
  <2>6. QED
    BY <2>3, <2>4
<1>7. PICK last : last = _violations_from_failure_cases(cases, refusal_reason_from_failure_case)
  OBVIOUS
<1>8. IsSequence(last)
  <2>1. last = [i \in DOMAIN cases |-> last[i]]
    BY <1>7 DEF _violations_from_failure_cases
  <2>2. QED
    BY <1>6, <2>1, PlansAre
<1>9. PICK x, y, z :
        /\ x = Only(~b.passed, Violation("passing_integrity_evaluation", b.id, "structurally_invalid_output"))
        /\ y = Only(b.segments = <<>> \/ b.spans = <<>>,
                    Violation("segments_and_spans", b.id, "structurally_invalid_output"))
        /\ z = Only(requires_company_link(b.kind) /\ b.company = {},
                    Violation("bundle_company_link", b.id, "missing_entity_linkage"))
  OBVIOUS
<1>10. IsSequence(x) /\ IsSequence(y) /\ IsSequence(z)
  <2>1. PICK u, v, w : (x = <<u>> \/ x = <<>>) /\ (y = <<v>> \/ y = <<>>) /\ (z = <<w>> \/ z = <<>>)
    BY <1>9 DEF Only
  <2>2. QED
    BY <2>1, OnlyIs
<1>11. Violation("segments_and_spans", b.id, "structurally_invalid_output") \in ToSet(y)
  <2>1. y = <<Violation("segments_and_spans", b.id, "structurally_invalid_output")>>
    BY <1>9 DEF Only
  <2>2. QED
    BY <2>1, TupleHas
<1>12. violations = x \o y \o z \o last
  BY <1>2, <1>3, <1>5, <1>7, <1>9 DEF EvidenceViolations
<1>13. Violation("segments_and_spans", b.id, "structurally_invalid_output") \in ToSet(violations)
  <2>1. PICK xy, xyz : xy = x \o y /\ xyz = xy \o z
    OBVIOUS
  <2>2. IsSequence(xy) /\ ToSet(xy) = ToSet(x) \cup ToSet(y)
    BY <1>10, <2>1, ConcatHas
  <2>3. IsSequence(xyz) /\ ToSet(xyz) = ToSet(xy) \cup ToSet(z)
    BY <1>10, <2>1, <2>2, ConcatHas
  <2>4. ToSet(xyz \o last) = ToSet(xyz) \cup ToSet(last)
    BY <1>8, <2>3, ConcatHas
  <2>5. violations = xyz \o last
    BY <1>12, <2>1
  <2>6. QED
    BY <1>11, <2>2, <2>3, <2>4, <2>5
<1>14. Refused(gate)
  BY <1>2, <1>13, VerdictBlocks, BlockingIs
<1>15. QED
  BY <1>1, <1>14

(* The gate of the parsing is about its document.                          *)
LEMMA ParsingGate ==
    ASSUME NEW d, NEW source, NEW gate, gate = validate_parsing_inputs(d, source)
    PROVE  gate.name = "parsing_inputs" /\ gate.target = d.id
BY DEF validate_parsing_inputs, _finalize_gate_result

IngestGate(f) ==
    validate_ingestion_normalization(
        _build_source_reference(f), _document_model(f), _normalize_company(f))

(* The gate of the ingestion is about its fixture.                         *)
LEMMA IngestionGate ==
    ASSUME NEW f, NEW gate, gate = IngestGate(f)
    PROVE  gate.name = "ingestion_normalization" /\ gate.target = f.name
<1>1. /\ gate.name = "ingestion_normalization"
      /\ gate.target = IF _document_model(f) = {} THEN _build_source_reference(f).id
                       ELSE (CHOOSE d \in _document_model(f) : TRUE).id
  BY DEF IngestGate, validate_ingestion_normalization, _finalize_gate_result
<1>2. _build_source_reference(f).id = f.name
  BY DEF _build_source_reference
<1>3. \A d \in _document_model(f) : d.id = f.name
  BY DEF _document_model
<1>4. _document_model(f) # {} => (CHOOSE d \in _document_model(f) : TRUE).id = f.name
  BY <1>3
<1>5. QED
  BY <1>1, <1>2, <1>4

(* Three sequences in a row.                                               *)
LEMMA ConcatThree ==
    ASSUME NEW a, IsSequence(a), NEW b, IsSequence(b), NEW c, IsSequence(c)
    PROVE  IsSequence(a \o b \o c) /\ ToSet(a \o b \o c) = ToSet(a) \cup ToSet(b) \cup ToSet(c)
<1>1. PICK ab : ab = a \o b
  OBVIOUS
<1>2. IsSequence(ab) /\ ToSet(ab) = ToSet(a) \cup ToSet(b)
  BY <1>1, ConcatHas
<1>3. IsSequence(ab \o c) /\ ToSet(ab \o c) = ToSet(ab) \cup ToSet(c)
  BY <1>2, ConcatHas
<1>4. QED
  BY <1>1, <1>2, <1>3

(* Three checks in a row: what the last says is said.                      *)
LEMMA OnlyThree ==
    ASSUME NEW x, NEW y, NEW z, NEW u, NEW v, NEW w,
           x = <<u>> \/ x = <<>>, y = <<v>> \/ y = <<>>, z = <<w>> \/ z = <<>>
    PROVE  IsSequence(x \o y \o z) /\ (z = <<w>> => w \in ToSet(x \o y \o z))
<1>1. IsSequence(x) /\ IsSequence(y) /\ IsSequence(z)
  BY OnlyIs
<1>2. IsSequence(x \o y \o z) /\ ToSet(x \o y \o z) = ToSet(x) \cup ToSet(y) \cup ToSet(z)
  BY <1>1, ConcatThree
<1>3. z = <<w>> => w \in ToSet(z)
  BY TupleHas
<1>4. QED
  BY <1>2, <1>3

(* The slice gate does not let pass a rejected artifact ...                *)
LEMMA SliceSays ==
    ASSUME NEW a, NEW firm
    PROVE  /\ IsSequence(SliceViolations(a, firm))
           /\ review_state_invalid(a) => \E v \in ToSet(SliceViolations(a, firm)) : v.blocking
<1>1. PICK v : v = Violation("slice_review_state", a.id, "invalid_review_state")
  OBVIOUS
<1>2. PICK x, y, z :
        /\ x = Unproven(a, "slice_provenance")
        /\ y = Only(a.company # firm, Violation("slice_company", a.id, "missing_entity_linkage"))
        /\ z = Only(review_state_invalid(a), v)
  OBVIOUS
<1>3. SliceViolations(a, firm) = x \o y \o z
  BY <1>1, <1>2 DEF SliceViolations
<1>4. PICK u, w : (x = <<u>> \/ x = <<>>) /\ (y = <<w>> \/ y = <<>>)
  BY <1>2 DEF Unproven, Only
<1>5. (z = <<v>> \/ z = <<>>) /\ (review_state_invalid(a) => z = <<v>>)
  BY <1>2 DEF Only
<1>6. IsSequence(x \o y \o z) /\ (z = <<v>> => v \in ToSet(x \o y \o z))
  BY <1>4, <1>5, OnlyThree
<1>7. v.blocking
  BY <1>1, BlockingIs
<1>8. QED
  BY <1>3, <1>5, <1>6, <1>7

(* ... nor a rejected critique.                                            *)
LEMMA CounterSays ==
    ASSUME NEW a, NEW h
    PROVE  /\ IsSequence(CounterViolations(a, h))
           /\ review_state_invalid(a) => \E v \in ToSet(CounterViolations(a, h)) : v.blocking
<1>1. PICK v : v = Violation("counter_hypothesis_review_state", a.id, "invalid_review_state")
  OBVIOUS
<1>2. PICK x, y, z :
        /\ x = Unproven(a, "counter_hypothesis_provenance")
        /\ y = Only(h # None /\ a.hypothesis # h.id,
                    Violation("counter_hypothesis_link", a.id, "missing_entity_linkage"))
        /\ z = Only(review_state_invalid(a), v)
  OBVIOUS
<1>3. CounterViolations(a, h) = x \o y \o z
  BY <1>1, <1>2 DEF CounterViolations
<1>4. PICK u, w : (x = <<u>> \/ x = <<>>) /\ (y = <<w>> \/ y = <<>>)
  BY <1>2 DEF Unproven, Only
<1>5. (z = <<v>> \/ z = <<>>) /\ (review_state_invalid(a) => z = <<v>>)
  BY <1>2 DEF Only
<1>6. IsSequence(x \o y \o z) /\ (z = <<v>> => v \in ToSet(x \o y \o z))
  BY <1>4, <1>5, OnlyThree
<1>7. v.blocking
  BY <1>1, BlockingIs
<1>8. QED
  BY <1>3, <1>5, <1>6, <1>7

(* The name of the gate of the feature mapping ...                         *)
LEMMA SliceGate ==
    ASSUME NEW in, NEW gate, gate = validate_feature_mapping_inputs(in)
    PROVE  gate.name = "feature_mapping_inputs"
BY DEF validate_feature_mapping_inputs, _finalize_gate_result

(* A slice that the gate lets through is complete and nothing of it is     *)
(* rejected.                                                               *)
LEMMA SliceRequired ==
    ASSUME NEW in, ~ Refused(validate_feature_mapping_inputs(in))
    PROVE  /\ None \notin {in.hypothesis, in.counter, in.brief}
           /\ \A a \in {in.assessment, in.hypothesis, in.counter, in.brief} : ~ review_state_invalid(a)
<1>1. PICK gate : gate = validate_feature_mapping_inputs(in)
  OBVIOUS
<1>2. PICK violations :
        /\ violations = FeatureInputViolations(in)
        /\ gate.decision = quality_decision_for_findings({}, violations, FALSE)
  BY <1>1 DEF validate_feature_mapping_inputs, _finalize_gate_result
<1>3. \A v \in ToSet(violations) : ~ v.blocking
  BY <1>1, <1>2, VerdictBlocks
<1>4. PICK found : found = <<in.assessment>> \o Only(in.hypothesis # None, in.hypothesis)
                           \o Only(in.brief # None, in.brief)
  OBVIOUS
<1>5. /\ IsSequence(found) /\ in.assessment \in ToSet(found)
      /\ in.hypothesis # None => in.hypothesis \in ToSet(found)
      /\ in.brief # None => in.brief \in ToSet(found)
  <2>1. PICK p, q, r : /\ p = <<in.assessment>> /\ q = Only(in.hypothesis # None, in.hypothesis)
                       /\ r = Only(in.brief # None, in.brief)
    OBVIOUS
  <2>2. q = <<in.hypothesis>> \/ q = <<>>
    BY <2>1 DEF Only
  <2>3. r = <<in.brief>> \/ r = <<>>
    BY <2>1 DEF Only
  <2>4. IsSequence(p) /\ IsSequence(q) /\ IsSequence(r)
    BY <2>1, <2>2, <2>3, OnlyIs
  <2>5. IsSequence(p \o q \o r) /\ ToSet(p \o q \o r) = ToSet(p) \cup ToSet(q) \cup ToSet(r)
    BY <2>4, ConcatThree
  <2>6. in.assessment \in ToSet(p)
    BY <2>1, TupleHas
  <2>7. in.hypothesis # None => in.hypothesis \in ToSet(q)
    BY <2>1, TupleHas DEF Only
  <2>8. in.brief # None => in.brief \in ToSet(r)
    BY <2>1, TupleHas DEF Only
  <2>9. QED
    BY <1>4, <2>1, <2>5, <2>6, <2>7, <2>8
<1>6. PICK parts : parts = [i \in DOMAIN found |-> SliceViolations(found[i], in.company)]
  OBVIOUS
<1>7. /\ IsSequence(FlattenSeq(parts))
      /\ \A i \in DOMAIN found : ToSet(parts[i]) \subseteq ToSet(FlattenSeq(parts))
  <2>1. parts = [i \in DOMAIN found |-> parts[i]]
    BY <1>6
  <2>2. \A i \in DOMAIN found : IsSequence(parts[i])
    BY <1>6, SliceSays
  <2>3. QED
    BY <1>5, <2>1, <2>2, InTurnOfItems
<1>8. PICK v : v = Violation("completed_research_slice", in.company, "missing_required_artifact")
  OBVIOUS
<1>9. PICK x, z : /\ x = Only(None \in {in.hypothesis, in.counter, in.brief}, v)
                  /\ z = IF in.counter = None THEN <<>> ELSE CounterViolations(in.counter, in.hypothesis)
  OBVIOUS
<1>10. violations = x \o FlattenSeq(parts) \o z
  BY <1>2, <1>4, <1>6, <1>8, <1>9 DEF FeatureInputViolations, FailuresOf
<1>11. ToSet(violations) = ToSet(x) \cup ToSet(FlattenSeq(parts)) \cup ToSet(z)
  <2>1. IsSequence(x)
    <3>1. x = <<v>> \/ x = <<>>
      BY <1>9 DEF Only
    <3>2. QED
      BY <3>1, OnlyIs
  <2>2. IsSequence(z)
    <3>1. IsSequence(<<>>)
      BY DEF IsSequence
    <3>2. QED
      BY <1>9, <3>1, CounterSays
  <2>3. QED
    BY <1>7, <1>10, <2>1, <2>2, ConcatThree
<1>12. None \notin {in.hypothesis, in.counter, in.brief}
  <2>1. ASSUME None \in {in.hypothesis, in.counter, in.brief} PROVE FALSE
    <3>1. x = <<v>>
      BY <1>9, <2>1 DEF Only
    <3>2. v \in ToSet(violations) /\ v.blocking
      BY <1>8, <1>11, <3>1, TupleHas, BlockingIs
    <3>3. QED
      BY <1>3, <3>2
  <2>2. QED
    BY <2>1
<1>13. ASSUME NEW a \in ToSet(found) PROVE ~ review_state_invalid(a)
  <2>1. PICK i \in DOMAIN found : found[i] = a
    BY PlaceOf
  <2>2. parts[i] = SliceViolations(a, in.company)
    BY <1>6, <2>1
  <2>3. ToSet(parts[i]) \subseteq ToSet(violations)
    BY <1>7, <1>11
  <2>4. QED
    BY <1>3, <2>2, <2>3, SliceSays
<1>14. ~ review_state_invalid(in.counter)
  <2>1. z = CounterViolations(in.counter, in.hypothesis)
    BY <1>9, <1>12
  <2>2. QED
    BY <1>3, <1>11, <2>1, CounterSays
<1>15. QED
  BY <1>5, <1>12, <1>13, <1>14

(* The names of the gates of the outputs of step 4.                        *)
LEMMA OutputGates ==
    /\ \A firm, views : validate_feature_output(firm, views).name = "feature_output"
    /\ \A firm, views, signals, scores :
         validate_signal_generation(firm, views, signals, scores).name = "signal_generation_output"
<1>1. ASSUME NEW firm, NEW views PROVE validate_feature_output(firm, views).name = "feature_output"
  BY DEF validate_feature_output, _finalize_gate_result
<1>2. ASSUME NEW firm, NEW views, NEW signals, NEW scores
      PROVE  validate_signal_generation(firm, views, signals, scores).name = "signal_generation_output"
  BY DEF validate_signal_generation, _finalize_gate_result
<1>3. QED
  BY <1>1, <1>2

-----------------------------------------------------------------------------
(* What a plan owes: a file of a category under a key that fits what the   *)
(* plan promised, which is written or still among the writes left.         *)

Fits(c, y, x) ==
    /\ c = "gates" => ~ Refused(x)
    /\ c = "outcomes" => x.status = y
    /\ c \in {"evidence_assessments", "signals"} => x = y
    /\ c = "research_briefs" =>
         x.company = y.company /\ x.created = y.created /\ x.assessment = y.assessment
    /\ c = "features" => x.brief = y.brief /\ x.company = y.company

HasKey(S, c, k) == \E x \in S : Key(c, x) = k
AllFit(S, c, k, y) == \A x \in S : Key(c, x) = k => Fits(c, y, x)

Owed(fs, writes, c, k, y) ==
    /\ \A w \in ToSet(writes) : w.category = c => AllFit(w.items, c, k, y)
    /\ \/ \E w \in ToSet(writes) : w.category = c /\ HasKey(w.items, c, k)
       \/ HasKey(fs[c], c, k) /\ AllFit(fs[c], c, k, y)

(* What fits is filed as it was, or replaced by what fits.                 *)
LEMMA PutFits ==
    ASSUME NEW fs, fs = [c \in AllCategories |-> fs[c]], NEW w, w.category \in AllCategories,
           NEW c \in AllCategories, NEW k, NEW y,
           w.category = c => AllFit(w.items, c, k, y)
    PROVE  /\ w.category = c /\ HasKey(w.items, c, k) =>
                HasKey(Put(fs, w)[c], c, k) /\ AllFit(Put(fs, w)[c], c, k, y)
           /\ HasKey(fs[c], c, k) /\ AllFit(fs[c], c, k, y) =>
                HasKey(Put(fs, w)[c], c, k) /\ AllFit(Put(fs, w)[c], c, k, y)
<1>1. PICK S, T : S = fs[c] /\ T = Put(fs, w)[c]
  OBVIOUS
<1>2. T = IF c = w.category THEN Replacing(c, S, w.items) ELSE S
  BY <1>1, PutIs
<1>3. CASE c # w.category
  BY <1>1, <1>2, <1>3
<1>4. CASE c = w.category
  <2>1. T = {a \in S : \A b \in w.items : Key(c, a) # Key(c, b)} \cup w.items
    BY <1>2, <1>4 DEF Replacing
  <2>2. AllFit(w.items, c, k, y)
    BY <1>4
  <2>3. ASSUME HasKey(w.items, c, k)
        PROVE  HasKey(T, c, k) /\ AllFit(T, c, k, y)
    <3>1. PICK b \in w.items : Key(c, b) = k
      BY <2>3 DEF HasKey
    <3>2. HasKey(T, c, k)
      BY <2>1, <3>1 DEF HasKey
    <3>3. \A x \in T : Key(c, x) = k => x \in w.items
      BY <2>1, <3>1
    <3>4. QED
      BY <2>2, <3>2, <3>3 DEF AllFit
  <2>4. ASSUME HasKey(S, c, k), AllFit(S, c, k, y), ~ HasKey(w.items, c, k)
        PROVE  HasKey(T, c, k) /\ AllFit(T, c, k, y)
    <3>1. PICK a \in S : Key(c, a) = k
      BY <2>4 DEF HasKey
    <3>2. \A b \in w.items : Key(c, b) # k
      BY <2>4 DEF HasKey
    <3>3. a \in T
      BY <2>1, <3>1, <3>2
    <3>4. \A x \in T : x \in S \/ x \in w.items
      BY <2>1
    <3>5. AllFit(T, c, k, y)
      BY <2>2, <2>4, <3>4 DEF AllFit
    <3>6. QED
      BY <3>1, <3>3, <3>5 DEF HasKey
  <2>5. QED
    BY <1>1, <1>4, <2>3, <2>4
<1>5. QED
  BY <1>3, <1>4

(* A plan keeps what it owes.                                              *)
LEMMA OwedWrite ==
    ASSUME NEW fs, fs = [c \in AllCategories |-> fs[c]], NEW writes, IsSequence(writes),
           writes # <<>>, Head(writes).category \in AllCategories,
           NEW c \in AllCategories, NEW k, NEW y, Owed(fs, writes, c, k, y)
    PROVE  Owed(Put(fs, Head(writes)), Tail(writes), c, k, y)
<1>1. PICK w, t : w = Head(writes) /\ t = Tail(writes)
  OBVIOUS
<1>2. ToSet(writes) = {w} \cup ToSet(t)
  BY <1>1, HeadHas
<1>3. w.category = c => AllFit(w.items, c, k, y)
  BY <1>2 DEF Owed
<1>4. /\ w.category = c /\ HasKey(w.items, c, k) =>
           HasKey(Put(fs, w)[c], c, k) /\ AllFit(Put(fs, w)[c], c, k, y)
      /\ HasKey(fs[c], c, k) /\ AllFit(fs[c], c, k, y) =>
           HasKey(Put(fs, w)[c], c, k) /\ AllFit(Put(fs, w)[c], c, k, y)
  BY <1>1, <1>3, PutFits
<1>5. Owed(Put(fs, w), t, c, k, y)
  BY <1>2, <1>4 DEF Owed
<1>6. QED
  BY <1>1, <1>5

(* What is on file as it was owed.                                         *)
Kept(fs, c, k, y) == HasKey(fs[c], c, k) /\ AllFit(fs[c], c, k, y)

(* A plan at its end owes nothing: it is on file.                          *)
LEMMA OwedIsKept ==
    ASSUME NEW fs, NEW c, NEW k, NEW y, Owed(fs, <<>>, c, k, y)
    PROVE  Kept(fs, c, k, y)
BY TupleHas DEF Owed, Kept

(* It stays when what is written is filed under other keys.                *)
LEMMA KeptElse ==
    ASSUME NEW fs, fs = [c \in AllCategories |-> fs[c]], NEW w, w.category \in AllCategories,
           NEW c \in AllCategories, NEW k, NEW y, Kept(fs, c, k, y),
           w.category = c => \A x \in w.items : Key(c, x) # k
    PROVE  Kept(Put(fs, w), c, k, y)
<1>1. w.category = c => AllFit(w.items, c, k, y)
  BY DEF AllFit
<1>2. QED
  BY <1>1, PutFits DEF Kept

(* A plan that writes a file owes it when nothing else of the plan is      *)
(* filed under its key.                                                    *)
LEMMA OwedFrom ==
    ASSUME NEW fs, NEW writes, NEW c, NEW k, NEW y,
           NEW w \in ToSet(writes), w.category = c, HasKey(w.items, c, k),
           \A v \in ToSet(writes) : v.category = c => AllFit(v.items, c, k, y)
    PROVE  Owed(fs, writes, c, k, y)
BY DEF Owed

-----------------------------------------------------------------------------
(* A rejection.                                                            *)

SameBrief(a, b) ==
    /\ a.id = b.id /\ a.company = b.company /\ a.hypothesis = b.hypothesis
    /\ a.created = b.created /\ a.assessment = b.assessment

SameFiles(fs, gs) ==
    /\ gs = [c \in AllCategories |-> gs[c]]
    /\ \A c \in AllCategories : c # "research_briefs" => gs[c] = fs[c]
    /\ \A a \in fs["research_briefs"] : \E b \in gs["research_briefs"] : SameBrief(a, b)
    /\ \A b \in gs["research_briefs"] : \E a \in fs["research_briefs"] : SameBrief(a, b)

(* A rejection changes the review of a brief and nothing else.             *)
LEMMA RejectionIs ==
    ASSUME NEW fs, FilesOK(fs), NEW id, NEW g,
           g = [fs EXCEPT !.research_briefs =
                   {IF b.id = id THEN [b EXCEPT !.review = "rejected"] ELSE b : b \in @}]
    PROVE  SameFiles(fs, g)
<1>1. PICK old, new : old = fs["research_briefs"] /\ new = g["research_briefs"]
  OBVIOUS
<1>2. "research_briefs" \in AllCategories
  BY DEF AllCategories
<1>3. fs = [c \in AllCategories |-> fs[c]]
  BY DEF FilesOK
<1>4. /\ g = [c \in AllCategories |-> g[c]]
      /\ \A c \in AllCategories : c # "research_briefs" => g[c] = fs[c]
      /\ new = {IF b.id = id THEN [b EXCEPT !.review = "rejected"] ELSE b : b \in old}
  BY <1>1, <1>2, <1>3
<1>5. ASSUME NEW b \in old, NEW x, x = IF b.id = id THEN [b EXCEPT !.review = "rejected"] ELSE b
      PROVE  SameBrief(b, x)
  <2>1. BriefOK(FactsIn(fs), b)
    <3>1. Rests(FactsIn(fs), "research_briefs", b)
      BY <1>1, <1>2, FilesDue
    <3>2. QED
      BY <3>1 DEF Rests
  <2>2. {"id", "company", "hypothesis", "assessment", "created"} \subseteq DOMAIN b
    BY <2>1 DEF BriefOK
  <2>3. QED
    BY <1>5, <2>2 DEF SameBrief
<1>6. \A b \in old : \E x \in new : SameBrief(b, x)
  BY <1>4, <1>5
<1>7. \A x \in new : \E b \in old : SameBrief(b, x)
  BY <1>4, <1>5
<1>8. QED
  BY <1>1, <1>4, <1>6, <1>7 DEF SameFiles

(* So what is on file stays on file as it was owed.                        *)
LEMMA SameKept ==
    ASSUME NEW fs, NEW gs, SameFiles(fs, gs), NEW c \in AllCategories, NEW k, NEW y
    PROVE  /\ HasKey(fs[c], c, k) => HasKey(gs[c], c, k)
           /\ AllFit(fs[c], c, k, y) => AllFit(gs[c], c, k, y)
<1>1. CASE c # "research_briefs"
  <2>1. gs[c] = fs[c]
    BY <1>1 DEF SameFiles
  <2>2. QED
    BY <2>1
<1>2. CASE c = "research_briefs"
  <2>1. PICK S, T : S = fs["research_briefs"] /\ T = gs["research_briefs"]
    OBVIOUS
  <2>2. /\ \A a \in S : \E b \in T : SameBrief(a, b)
        /\ \A b \in T : \E a \in S : SameBrief(a, b)
    BY <2>1 DEF SameFiles
  <2>3. HasKey(S, c, k) => HasKey(T, c, k)
    BY <1>2, <2>2 DEF HasKey, Key, SameBrief
  <2>4. ASSUME AllFit(S, c, k, y), NEW b \in T, Key(c, b) = k PROVE Fits(c, y, b)
    <3>1. PICK a \in S : SameBrief(a, b)
      BY <2>2
    <3>2. Key(c, a) = k
      BY <1>2, <2>4, <3>1 DEF Key, SameBrief
    <3>3. Fits(c, y, a)
      BY <2>4, <3>2 DEF AllFit
    <3>4. QED
      BY <1>2, <3>1, <3>3 DEF Fits, SameBrief
  <2>5. AllFit(S, c, k, y) => AllFit(T, c, k, y)
    BY <2>4 DEF AllFit
  <2>6. QED
    BY <1>2, <2>1, <2>3, <2>5
<1>3. QED
  BY <1>1, <1>2

(* And what is owed is still owed.                                         *)
LEMMA SameOwed ==
    ASSUME NEW fs, NEW gs, SameFiles(fs, gs), NEW writes, NEW c \in AllCategories, NEW k, NEW y
    PROVE  /\ Owed(fs, writes, c, k, y) => Owed(gs, writes, c, k, y)
           /\ Kept(fs, c, k, y) => Kept(gs, c, k, y)
BY SameKept DEF Owed, Kept

-----------------------------------------------------------------------------
(* What each part of the work may write.                                   *)

Part == {"ingest", "parse", "research", "features", "signals"}
Area(part) ==
    CASE part = "ingest" -> {"raw", "gates", "source_references", "companies", "documents",
                             "price_series_metadata", "outcomes"}
      [] part = "parse" -> {"gates", "parsed_text", "segments", "evidence_spans", "outcomes"}
                           \cup Categories
      [] part = "research" -> {"hypotheses", "evidence_assessments", "counter_hypotheses",
                               "research_briefs", "outcomes"}
      [] part = "features" -> {"gates", "feature_values", "features", "outcomes"}
      [] OTHER -> {"gates", "signal_scores", "signals", "outcomes"}
GateNames(part) ==
    CASE part = "ingest" -> {"ingestion_normalization"}
      [] part = "parse" -> {"parsing_inputs", "evidence_bundle"}
      [] part = "research" -> {}
      [] part = "features" -> {"feature_mapping_inputs", "feature_output"}
      [] OTHER -> {"signal_generation_output"}
Workflow(part) ==
    CASE part = "ingest" -> "fixture_ingestion"
      [] part = "parse" -> "evidence_extraction"
      [] part = "research" -> "research_workflow"
      [] part = "features" -> "feature_mapping"
      [] OTHER -> "signal_generation"

InScope(part, w) ==
    /\ w.category \in Area(part)
    /\ w.category = "gates" => \A g \in w.items : g.name \in GateNames(part)
    /\ w.category = "outcomes" => \A o \in w.items : o.id[1] = Workflow(part)
PlanInScope(part, writes) == IsSequence(writes) /\ \A w \in ToSet(writes) : InScope(part, w)

(* Every part files outcomes, and all in known categories.                 *)
LEMMA AreaIs == \A part \in Part : Area(part) \subseteq AllCategories /\ "outcomes" \in Area(part)
BY DEF Part, Area, AllCategories, Categories

(* A part may file its outcome ...                                         *)
LEMMA OutcomeInScope ==
    ASSUME NEW part \in Part, NEW item, NEW status, NEW w, w = Outcome(Workflow(part), item, status)
    PROVE  InScope(part, w)
<1>1. w.category = "outcomes" /\ \A o \in w.items : o.id[1] = Workflow(part)
  BY DEF Outcome, Write
<1>2. QED
  BY <1>1, AreaIs DEF InScope

(* ... its gates ...                                                       *)
LEMMA GateInScope ==
    ASSUME NEW part \in Part, NEW gate, gate.name \in GateNames(part), "gates" \in Area(part)
    PROVE  InScope(part, Write("gates", {gate}))
<1>1. PICK w : w = Write("gates", {gate})
  OBVIOUS
<1>2. w.category = "gates" /\ \A g \in w.items : g = gate
  BY <1>1 DEF Write
<1>3. QED
  BY <1>1, <1>2 DEF InScope

(* ... the other categories of its area ...                                *)
LEMMA PlainInScope ==
    ASSUME NEW part \in Part, NEW c \in Area(part) \ {"gates", "outcomes"}, NEW items
    PROVE  InScope(part, Write(c, items))
<1>1. PICK w : w = Write(c, items)
  OBVIOUS
<1>2. w.category = c
  BY <1>1 DEF Write
<1>3. QED
  BY <1>1, <1>2 DEF InScope

(* ... and a failure where it would have filed its outcome.                *)
LEMMA FailureInScope ==
    ASSUME NEW part \in Part, NEW writes, PlanInScope(part, writes)
    PROVE  InScope(part, FailureOf(writes))
<1>1. PICK next : /\ next \subseteq {i \in DOMAIN writes : writes[i].category = "outcomes"}
                  /\ FailureOf(writes) = Write("outcomes", {[id |-> o.id, status |-> "failed"] :
                                             o \in UNION {writes[i].items : i \in next}})
  BY DEF FailureOf
<1>2. ASSUME NEW o \in UNION {writes[i].items : i \in next} PROVE o.id[1] = Workflow(part)
  <2>1. PICK i \in next : o \in writes[i].items
    OBVIOUS
  <2>2. writes[i] \in ToSet(writes) /\ writes[i].category = "outcomes"
    BY <1>1 DEF ToSet
  <2>3. InScope(part, writes[i])
    BY <2>2 DEF PlanInScope
  <2>4. QED
    BY <2>1, <2>2, <2>3 DEF InScope
<1>3. PICK w : w = FailureOf(writes)
  OBVIOUS
<1>4. w.category = "outcomes" /\ \A x \in w.items : x.id[1] = Workflow(part)
  BY <1>1, <1>2, <1>3 DEF Write
<1>5. QED
  BY <1>3, <1>4, AreaIs DEF InScope

-----------------------------------------------------------------------------
(* Step 1.                                                                 *)

(* A gate is about a fixture, and a document that is filed is one that its *)
(* gate let through.                                                       *)
IngestWrite(fixtures, w) ==
    /\ InScope("ingest", w)
    /\ w.category = "gates" => \A g \in w.items : \E f \in fixtures : g = IngestGate(f)
    /\ w.category = "documents" => \A d \in w.items :
         d.kind \in DocumentKind /\ \E f \in fixtures : d.id = f.name /\ ~ Refused(IngestGate(f))

(* The plan for one fixture.                                               *)
LEMMA IngestOne ==
    ASSUME NEW f, NEW plan, plan = ingest_fixture(f)
    PROVE  /\ IsSequence(plan.writes) /\ \A w \in ToSet(plan.writes) : IngestWrite({f}, w)
           /\ ~ plan.raises =>
                ~ Refused(IngestGate(f)) /\ Write("gates", {IngestGate(f)}) \in ToSet(plan.writes)
<1>1. PICK raw, source, companies, documents, prices :
        /\ raw = Write("raw", {[id |-> f.name, kind |-> f.kind, text |-> f.text]})
        /\ source = Write("source_references", {_build_source_reference(f)})
        /\ companies = Write("companies", _normalize_company(f))
        /\ documents = Write("documents", _document_model(f))
        /\ prices = Write("price_series_metadata", PriceSeries(f))
  OBVIOUS
<1>2. PICK gate, verdict_, done, failed :
        /\ gate = IngestGate(f)
        /\ verdict_ = Write("gates", {gate})
        /\ done = Outcome("fixture_ingestion", f.name, "succeeded")
        /\ failed = Outcome("fixture_ingestion", f.name, "failed")
  OBVIOUS
<1>3. PICK first, filed, after :
        first = <<raw>> /\ filed = <<source, companies, documents, prices>> /\ after = <<done>>
  OBVIOUS
<1>4. /\ IsSequence(first) /\ ToSet(first) = {raw}
      /\ IsSequence(filed) /\ ToSet(filed) = {source, companies, documents, prices}
      /\ IsSequence(after) /\ ToSet(after) = {done}
  BY <1>3, TupleIs, TupleHas
<1>5. PICK rest : rest = Gated(gate, filed, after, failed)
  OBVIOUS
<1>6. plan.writes = first \o rest.writes /\ plan.raises = rest.raises
  <2>1. {"writes", "raises"} \subseteq DOMAIN rest
    BY <1>5 DEF Gated, Plan
  <2>2. plan = [rest EXCEPT !.writes = <<raw>> \o @]
    BY <1>1, <1>2, <1>3, <1>5 DEF ingest_fixture, _persist_normalized_artifacts, IngestGate
  <2>3. QED
    BY <1>3, <2>1, <2>2
<1>7. "ingest" \in Part /\ "gates" \in Area("ingest") /\ Workflow("ingest") = "fixture_ingestion"
      /\ {"raw", "source_references", "companies", "documents", "price_series_metadata"}
            \subseteq Area("ingest") \ {"gates", "outcomes"}
      /\ GateNames("ingest") = {"ingestion_normalization"}
  BY DEF Part, Area, Workflow, GateNames
<1>8. ASSUME NEW w \in {raw, source, companies, prices} PROVE IngestWrite({f}, w)
  <2>1. InScope("ingest", w)
    BY <1>1, <1>7, PlainInScope
  <2>2. w.category \notin {"gates", "documents"}
    BY <1>1 DEF Write
  <2>3. QED
    BY <2>1, <2>2 DEF IngestWrite
<1>9. ASSUME NEW w \in {done, failed} PROVE IngestWrite({f}, w)
  <2>1. InScope("ingest", w)
    BY <1>2, <1>7, OutcomeInScope
  <2>2. w.category \notin {"gates", "documents"}
    BY <1>2 DEF Write, Outcome
  <2>3. QED
    BY <2>1, <2>2 DEF IngestWrite
<1>10. IngestWrite({f}, verdict_)
  <2>1. InScope("ingest", verdict_)
    BY <1>2, <1>7, GateInScope, IngestionGate
  <2>2. verdict_.category = "gates" /\ \A g \in verdict_.items : g = gate
    BY <1>2 DEF Write
  <2>3. QED
    BY <1>2, <2>1, <2>2 DEF IngestWrite
<1>11. ASSUME ~ Refused(gate) PROVE IngestWrite({f}, documents)
  <2>1. InScope("ingest", documents)
    BY <1>1, <1>7, PlainInScope
  <2>2. documents.category = "documents" /\ documents.items = _document_model(f)
    BY <1>1 DEF Write
  <2>3. \A d \in _document_model(f) : d.id = f.name /\ d.kind \in DocumentKind
    BY DEF _document_model
  <2>4. QED
    BY <1>2, <1>11, <2>1, <2>2, <2>3 DEF IngestWrite
<1>12. CASE Refused(gate)
  <2>1. IsSequence(rest.writes) /\ ToSet(rest.writes) = {verdict_, failed} /\ rest.raises
    BY <1>2, <1>5, <1>12, GatedRefused
  <2>2. IsSequence(plan.writes) /\ ToSet(plan.writes) = ToSet(first) \cup ToSet(rest.writes)
    BY <1>4, <1>6, <2>1, ConcatHas
  <2>3. QED
    BY <1>4, <1>6, <1>8, <1>9, <1>10, <2>1, <2>2
<1>13. CASE ~ Refused(gate)
  <2>0. IsSequence(filed) /\ IsSequence(after) /\ verdict_ = Write("gates", {gate})
    BY <1>2, <1>4
  <2>1. /\ IsSequence(rest.writes) /\ ~ rest.raises
        /\ \A w : w \in ToSet(rest.writes) <=> w = verdict_ \/ w \in ToSet(filed) \/ w \in ToSet(after)
    BY <1>5, <1>13, <2>0, GatedPassed
  <2>2. IsSequence(plan.writes) /\ ToSet(plan.writes) = ToSet(first) \cup ToSet(rest.writes)
    BY <1>4, <1>6, <2>1, ConcatHas
  <2>3. \A w \in ToSet(plan.writes) : IngestWrite({f}, w)
    BY <1>4, <1>8, <1>9, <1>10, <1>11, <1>13, <2>1, <2>2
  <2>4. QED
    BY <1>2, <1>13, <2>1, <2>2, <2>3
<1>14. QED
  BY <1>12, <1>13

(* What may be written for one fixture may be written for many.            *)
LEMMA IngestMore ==
    ASSUME NEW fixtures, NEW f \in fixtures, NEW w, IngestWrite({f}, w)
    PROVE  IngestWrite(fixtures, w)
BY DEF IngestWrite

(* The plan for all fixtures.                                              *)
LEMMA IngestHas ==
    ASSUME NEW fixtures, IsSequence(fixtures), NEW plan, plan = run_fixture_ingestion_pipeline(fixtures)
    PROVE  /\ IsSequence(plan.writes) /\ \A w \in ToSet(plan.writes) : IngestWrite(ToSet(fixtures), w)
           /\ ~ plan.raises => \A f \in ToSet(fixtures) :
                ~ Refused(IngestGate(f)) /\ Write("gates", {IngestGate(f)}) \in ToSet(plan.writes)
<1>1. CASE fixtures = <<>>
  <2>1. plan.writes = <<>> /\ plan.raises
    BY <1>1 DEF run_fixture_ingestion_pipeline, Plan
  <2>2. QED
    BY <1>1, <2>1, TupleHas
<1>2. CASE fixtures # <<>>
  <2>1. PICK plans : plans = [i \in DOMAIN fixtures |-> ingest_fixture(fixtures[i])]
    OBVIOUS
  <2>2. IsSequence(plans) /\ DOMAIN plans = DOMAIN fixtures
        /\ \A i \in DOMAIN fixtures : fixtures[i] \in ToSet(fixtures)
    BY <2>1, PlansAre
  <2>3. plan = InTurn(plans)
    BY <1>2, <2>1 DEF run_fixture_ingestion_pipeline
  <2>4. ASSUME NEW i \in DOMAIN plans
        PROVE  /\ IsSequence(plans[i].writes)
               /\ \A w \in ToSet(plans[i].writes) : IngestWrite(ToSet(fixtures), w)
               /\ ~ plans[i].raises =>
                    /\ ~ Refused(IngestGate(fixtures[i]))
                    /\ Write("gates", {IngestGate(fixtures[i])}) \in ToSet(plans[i].writes)
    <3>1. plans[i] = ingest_fixture(fixtures[i])
      BY <2>1, <2>2
    <3>2. \A w \in ToSet(plans[i].writes) : IngestWrite({fixtures[i]}, w)
      BY <3>1, IngestOne
    <3>3. QED
      BY <2>2, <3>1, <3>2, IngestOne, IngestMore
  <2>5. /\ IsSequence(plan.writes)
        /\ \A w \in ToSet(plan.writes) : \E i \in DOMAIN plans : w \in ToSet(plans[i].writes)
        /\ ~ plan.raises => \A i \in DOMAIN plans :
             ~ plans[i].raises /\ ToSet(plans[i].writes) \subseteq ToSet(plan.writes)
    BY <2>2, <2>3, <2>4, InTurnHas
  <2>6. ASSUME ~ plan.raises, NEW f \in ToSet(fixtures)
        PROVE  ~ Refused(IngestGate(f)) /\ Write("gates", {IngestGate(f)}) \in ToSet(plan.writes)
    <3>1. PICK i \in DOMAIN fixtures : fixtures[i] = f
      BY PlaceOf
    <3>2. QED
      BY <2>2, <2>4, <2>5, <2>6, <3>1
  <2>7. QED
    BY <2>4, <2>5, <2>6
<1>3. QED
  BY <1>1, <1>2

-----------------------------------------------------------------------------
(* Step 2.                                                                 *)

(* A plan that does not raise files no refusal and no failure.             *)
Passing(w) ==
    /\ w.category = "gates" => \A g \in w.items : ~ Refused(g)
    /\ w.category = "outcomes" => \A o \in w.items : o.status = "succeeded"
AllPass(writes) == \A w \in ToSet(writes) : Passing(w)
Files(writes, c, k) == \E w \in ToSet(writes) : w.category = c /\ HasKey(w.items, c, k)

ParsedOut(writes, d) ==
    /\ Files(writes, "gates", <<"evidence_bundle", d.id>>)
    /\ Files(writes, "outcomes", <<"evidence_extraction", d.id>>)
    /\ \E k : k[1][1] = d.id /\ Files(writes, "evidence_spans", k)

(* A plan that writes more files no less ...                               *)
LEMMA FilesMore ==
    ASSUME NEW few, NEW many, ToSet(few) \subseteq ToSet(many), NEW c, NEW k, Files(few, c, k)
    PROVE  Files(many, c, k)
BY DEF Files

(* ... of a document either.                                               *)
LEMMA ParsedMore ==
    ASSUME NEW few, NEW many, ToSet(few) \subseteq ToSet(many), NEW d, ParsedOut(few, d)
    PROVE  ParsedOut(many, d)
BY FilesMore DEF ParsedOut

(* What the record of a gate is.                                           *)
LEMMA GatePasses ==
    ASSUME NEW gate, NEW name, NEW target, gate.name = name, gate.target = target,
           NEW w, w = Write("gates", {gate})
    PROVE  /\ w.category = "gates" /\ HasKey(w.items, "gates", <<name, target>>)
           /\ ~ Refused(gate) => Passing(w)
<1>1. w.category = "gates" /\ w.items = {gate}
  BY DEF Write
<1>2. Key("gates", gate) = <<name, target>>
  BY DEF Key, GateKeyed
<1>3. QED
  BY <1>1, <1>2 DEF HasKey, Passing

(* What the record of an outcome is.                                       *)
LEMMA OutcomeIs ==
    ASSUME NEW workflow, NEW item, NEW status, NEW w, w = Outcome(workflow, item, status)
    PROVE  /\ w.category = "outcomes" /\ HasKey(w.items, "outcomes", <<workflow, item>>)
           /\ AllFit(w.items, "outcomes", <<workflow, item>>, status)
           /\ \A o \in w.items : o.id = <<workflow, item>> /\ o.status = status
<1>1. PICK o : o = [id |-> <<workflow, item>>, status |-> status]
  OBVIOUS
<1>2. w.category = "outcomes" /\ w.items = {o}
  BY <1>1 DEF Outcome, Write
<1>3. o.id = <<workflow, item>> /\ o.status = status
  BY <1>1
<1>4. HasKey({o}, "outcomes", <<workflow, item>>)
  BY <1>3 DEF HasKey, Key
<1>5. AllFit({o}, "outcomes", <<workflow, item>>, status)
  BY <1>3 DEF AllFit, Fits
<1>6. QED
  BY <1>2, <1>3, <1>4, <1>5

(* Other files are no refusals.                                            *)
LEMMA PlainPasses ==
    ASSUME NEW c, c \notin {"gates", "outcomes"}, NEW items, NEW w, w = Write(c, items)
    PROVE  Passing(w)
<1>1. w.category = c
  BY DEF Write
<1>2. QED
  BY <1>1 DEF Passing

(* Of no spans nothing is extracted.                                       *)
LEMMA NothingExtracted ==
    ASSUME NEW d, NEW extracted, extracted = extract_evidence_objects(d, {})
    PROVE  AllExtracted(extracted) = {}
BY DEF extract_evidence_objects, ExtractedBy, AllExtracted

(* The plan for the spans of a document.                                   *)
LEMMA BundleHas ==
    ASSUME NEW d, NEW text, NEW segments, IsSequence(segments),
           NEW spans, IsSequence(spans), \A x \in ToSet(spans) : SpanOf(d, x),
           NEW plan, plan = SpansPlan(d, text, segments, spans)
    PROVE  /\ PlanInScope("parse", plan.writes)
           /\ ~ plan.raises => AllPass(plan.writes) /\ ParsedOut(plan.writes, d)
<1>1. PICK extracted : extracted = extract_evidence_objects(d, ToSet(spans))
  OBVIOUS
<1>2. PICK bundle : bundle = build_document_evidence_bundle(d, text, segments, spans, extracted)
  OBVIOUS
<1>3. /\ bundle.id = d.id /\ bundle.segments = segments /\ bundle.spans = spans
      /\ bundle.artifacts = InSomeOrder(AllExtracted(extracted))
  BY <1>2 DEF build_document_evidence_bundle
<1>4. PICK a, b, c, e1, e2, e3, e4 :
        /\ a = Write("parsed_text", {bundle.text})
        /\ b = Write("segments", ToSet(bundle.segments))
        /\ c = Write("evidence_spans", ToSet(bundle.spans))
        /\ e1 = Write("claims", extracted.claims)
        /\ e2 = Write("risk_factors", extracted.risk_factors)
        /\ e3 = Write("guidance_changes", extracted.guidance_changes)
        /\ e4 = Write("tone_markers", extracted.tone_markers)
  OBVIOUS
<1>5. PICK gate, g, done, failed :
         /\ gate = validate_evidence_bundle(bundle)
         /\ g = Write("gates", {gate})
         /\ done = Outcome("evidence_extraction", d.id, "succeeded")
         /\ failed = Outcome("evidence_extraction", d.id, "failed")
  OBVIOUS
<1>6. PICK filed, after : filed = <<a, b, c, e1, e2, e3, e4>> /\ after = <<done>>
  OBVIOUS
<1>7. /\ IsSequence(filed) /\ ToSet(filed) = {a, b, c, e1, e2, e3, e4}
      /\ IsSequence(after) /\ ToSet(after) = {done}
  BY <1>6, TupleIs, TupleHas
<1>8. plan = Gated(gate, filed, after, failed)
  BY <1>1, <1>2, <1>3, <1>4, <1>5, <1>6 DEF SpansPlan, BundlePlan, _persist_bundle
<1>9. /\ "parse" \in Part /\ "gates" \in Area("parse") /\ Workflow("parse") = "evidence_extraction"
      /\ {"parsed_text", "segments", "evidence_spans", "claims", "risk_factors", "guidance_changes",
          "tone_markers"} \subseteq Area("parse") \ {"gates", "outcomes"}
      /\ "evidence_bundle" \in GateNames("parse")
  BY DEF Part, Area, Workflow, GateNames, Categories
<1>10. ASSUME NEW w \in {a, b, c, e1, e2, e3, e4} PROVE InScope("parse", w) /\ Passing(w)
  BY <1>4, <1>9, PlainInScope, PlainPasses
<1>11. gate.name = "evidence_bundle" /\ gate.target = d.id
  BY <1>3, <1>5, BundleGate
<1>12. InScope("parse", g) /\ InScope("parse", done) /\ InScope("parse", failed)
  BY <1>5, <1>9, <1>11, GateInScope, OutcomeInScope
<1>13. CASE Refused(gate)
  <2>1. IsSequence(plan.writes) /\ ToSet(plan.writes) = {g, failed} /\ plan.raises
    BY <1>5, <1>8, <1>13, GatedRefused
  <2>2. QED
    BY <1>12, <2>1 DEF PlanInScope
<1>14. CASE ~ Refused(gate)
  <2>1. IsSequence(filed) /\ IsSequence(after) /\ g = Write("gates", {gate})
    BY <1>5, <1>7
  <2>2. /\ IsSequence(plan.writes) /\ ~ plan.raises
        /\ \A w : w \in ToSet(plan.writes) <=> w = g \/ w \in ToSet(filed) \/ w \in ToSet(after)
    BY <1>8, <1>14, <2>1, GatedPassed
  <2>3. \A w : w \in ToSet(plan.writes) <=> w \in {g, done, a, b, c, e1, e2, e3, e4}
    BY <1>7, <2>2
  <2>4. PlanInScope("parse", plan.writes)
    BY <1>10, <1>12, <2>2, <2>3 DEF PlanInScope
  <2>5. Passing(g) /\ g.category = "gates" /\ HasKey(g.items, "gates", <<"evidence_bundle", d.id>>)
    BY <1>5, <1>11, <1>14, GatePasses
  <2>6. /\ done.category = "outcomes" /\ HasKey(done.items, "outcomes", <<"evidence_extraction", d.id>>)
        /\ \A o \in done.items : o.status = "succeeded"
    BY <1>5, OutcomeIs
  <2>7. AllPass(plan.writes)
    <3>1. Passing(done)
      BY <2>6 DEF Passing
    <3>2. QED
      BY <1>10, <2>3, <2>5, <3>1 DEF AllPass
  <2>8. spans # <<>>
    <3>1. SUFFICES ASSUME spans = <<>> PROVE FALSE
      OBVIOUS
    <3>2. ToSet(spans) = {}
      BY <3>1, TupleHas
    <3>3. AllExtracted(extracted) = {}
      BY <1>1, <3>2, NothingExtracted
    <3>4. bundle.artifacts = <<>>
      BY <1>3, <3>3, NothingOrdered
    <3>5. Refused(validate_evidence_bundle(bundle))
      BY <1>3, <3>1, <3>4, SpansRequired
    <3>6. QED
      BY <1>5, <1>14, <3>5
  <2>9. PICK x \in ToSet(spans) : TRUE
    BY <2>8, HeadHas
  <2>10. c.category = "evidence_spans" /\ x \in c.items /\ Key("evidence_spans", x) = x.id
    BY <1>3, <1>4, <2>9 DEF Write, Key
  <2>11. x.id[1][1] = d.id /\ HasKey(c.items, "evidence_spans", x.id)
    BY <2>9, <2>10 DEF SpanOf, HasKey
  <2>12. Files(plan.writes, "evidence_spans", x.id)
    BY <2>3, <2>10, <2>11 DEF Files
  <2>13. Files(plan.writes, "gates", <<"evidence_bundle", d.id>>)
         /\ Files(plan.writes, "outcomes", <<"evidence_extraction", d.id>>)
    BY <2>3, <2>5, <2>6 DEF Files
  <2>14. QED
    BY <2>4, <2>7, <2>11, <2>12, <2>13 DEF ParsedOut
<1>15. QED
  BY <1>13, <1>14

(* The plan for its text.                                                  *)
LEMMA TextHas ==
    ASSUME NEW d, NEW raw, TextIsRead(raw), raw.kind = d.kind,
           NEW plan, plan = TextPlan(d, raw, build_parsed_document_text(d, raw))
    PROVE  /\ PlanInScope("parse", plan.writes)
           /\ ~ plan.raises => AllPass(plan.writes) /\ ParsedOut(plan.writes, d)
<1>1. PICK text, parts : text = build_parsed_document_text(d, raw) /\ parts = BodyOf(d, raw)
  OBVIOUS
<1>2. CASE Blank(d, raw)
  <2>1. PICK failed : failed = Outcome("evidence_extraction", d.id, "failed")
    OBVIOUS
  <2>2. "parse" \in Part /\ Workflow("parse") = "evidence_extraction"
    BY DEF Part, Workflow
  <2>3. InScope("parse", failed)
    BY <2>1, <2>2, OutcomeInScope
  <2>4. plan.writes = <<failed>> /\ plan.raises
    BY <1>1, <1>2, <2>1 DEF TextPlan, Plan
  <2>5. IsSequence(<<failed>>) /\ ToSet(<<failed>>) = {failed}
    BY TupleIs, TupleHas
  <2>6. QED
    BY <2>3, <2>4, <2>5 DEF PlanInScope
<1>3. CASE ~Blank(d, raw)
  <2>1. PICK headline, says : headline = HeadlineOf(d, raw) /\ says = Says(parts)
    OBVIOUS
  <2>2. IsSequence(headline) /\ Read(parts) /\ IsSequence(says)
    BY <1>1, <2>1, BodyIs, SaysAre
  <2>3. PICK all : all = headline \o says
    OBVIOUS
  <2>4. Len(all) \in Nat /\ Len(headline) \in Nat
    <3>1. Joins(headline, says, headline \o says)
      BY <2>2, Joined
    <3>2. Joins(headline, says, all)
      BY <2>3, <3>1
    <3>3. QED
      BY <3>2 DEF Joins
  <2>5. text.id = d.id /\ text.canonical_text = all /\ text.headline = Len(headline)
    BY <1>1, <2>1, <2>3 DEF build_parsed_document_text
  <2>6. PICK segments : segments = segment_document(d, text, parts)
    OBVIOUS
  <2>7. SegmentsOf(d, segments)
    BY <2>2, <2>4, <2>5, <2>6, SegmentsAre
  <2>8. PICK spans : spans = SpansOf(d, text, _leaf_segments(segments))
    OBVIOUS
  <2>9. IsSequence(spans) /\ \A x \in ToSet(spans) : SpanOf(d, x)
    BY <2>7, <2>8, LeavesAre, SpansAre
  <2>10. IsSequence(segments)
    BY <2>7 DEF SegmentsOf
  <2>11. plan = SpansPlan(d, text, segments, spans)
    BY <1>1, <1>3, <2>6, <2>8 DEF TextPlan, SegmentsPlan
  <2>12. QED
    BY <2>9, <2>10, <2>11, BundleHas
<1>4. QED
  BY <1>2, <1>3

(* Two plans one after the other.                                          *)
LEMMA TwoInTurn ==
    ASSUME NEW p, NEW q, IsSequence(p.writes), IsSequence(q.writes), NEW plan, plan = InTurn(<<p, q>>)
    PROVE  /\ IsSequence(plan.writes)
           /\ \A w \in ToSet(plan.writes) : w \in ToSet(p.writes) \/ w \in ToSet(q.writes)
           /\ ~ plan.raises => /\ ~ p.raises /\ ToSet(p.writes) \subseteq ToSet(plan.writes)
                               /\ ~ q.raises /\ ToSet(q.writes) \subseteq ToSet(plan.writes)
<1>1. PICK plans : plans = <<p, q>>
  OBVIOUS
<1>2. IsSequence(plans) /\ DOMAIN plans = {1, 2} /\ plans[1] = p /\ plans[2] = q
  <2>1. IsSequence(plans)
    BY <1>1, TupleIs
  <2>2. QED
    BY <1>1, <2>1
<1>3. \A i \in DOMAIN plans : IsSequence(plans[i].writes)
  BY <1>2
<1>4. plan = InTurn(plans)
  BY <1>1
<1>5. /\ IsSequence(plan.writes)
      /\ \A w \in ToSet(plan.writes) : \E i \in DOMAIN plans : w \in ToSet(plans[i].writes)
      /\ ~ plan.raises => \A i \in DOMAIN plans :
           ~ plans[i].raises /\ ToSet(plans[i].writes) \subseteq ToSet(plan.writes)
  BY <1>2, <1>3, <1>4, InTurnHas
<1>6. QED
  BY <1>2, <1>5

(* The plan for a document.                                                *)
LEMMA DocumentHas ==
    ASSUME NEW fs, FilesOK(fs), NEW d \in fs["documents"],
           NEW plan, plan = extract_document_evidence(fs, d)
    PROVE  /\ PlanInScope("parse", plan.writes)
           /\ ~ plan.raises => /\ AllPass(plan.writes) /\ ParsedOut(plan.writes, d)
                               /\ Files(plan.writes, "gates", <<"parsing_inputs", d.id>>)
<1>1. PICK failed : failed = Outcome("evidence_extraction", d.id, "failed")
  OBVIOUS
<1>2. PICK sources, raws :
        /\ sources = {s \in fs.source_references : s.id = d.source}
        /\ raws = {r \in fs.raw : r.id = d.source /\ r.kind = d.kind}
  OBVIOUS
<1>3. PICK gates, gate, raw : /\ gates = {validate_parsing_inputs(d, s) : s \in sources}
                              /\ gate = CHOOSE g \in gates : TRUE
                              /\ raw = CHOOSE r \in raws : TRUE
  OBVIOUS
<1>4. "parse" \in Part /\ "gates" \in Area("parse") /\ Workflow("parse") = "evidence_extraction"
      /\ "parsing_inputs" \in GateNames("parse")
  BY DEF Part, Workflow, GateNames, Area
<1>5. InScope("parse", failed)
  BY <1>1, <1>4, OutcomeInScope
<1>6. CASE sources = {} \/ raws = {}
  <2>1. plan = Plan(<<failed>>, TRUE)
    BY <1>1, <1>2, <1>6 DEF extract_document_evidence
  <2>2. plan.writes = <<failed>> /\ plan.raises
    BY <2>1 DEF Plan
  <2>3. IsSequence(<<failed>>) /\ ToSet(<<failed>>) = {failed}
    BY TupleIs, TupleHas
  <2>4. QED
    BY <1>5, <2>2, <2>3 DEF PlanInScope
<1>7. CASE ~(sources = {} \/ raws = {})
  <2>1. raw \in fs.raw /\ raw.kind = d.kind
    BY <1>2, <1>3, <1>7
  <2>2. TextIsRead(raw)
    <3>1. "raw" \in AllCategories
      BY DEF AllCategories
    <3>2. Rests(FactsIn(fs), "raw", raw)
      BY <2>1, <3>1, FilesDue
    <3>3. QED
      BY <3>2 DEF Rests
  <2>3. gate.name = "parsing_inputs" /\ gate.target = d.id
    <3>1. gate \in gates
      BY <1>2, <1>3, <1>7
    <3>2. PICK s \in sources : gate = validate_parsing_inputs(d, s)
      BY <1>3, <3>1
    <3>3. QED
      BY <3>2, ParsingGate
  <2>4. PICK p, q, g : /\ p = Gated(gate, <<>>, <<>>, failed)
                       /\ q = TextPlan(d, raw, build_parsed_document_text(d, raw))
                       /\ g = Write("gates", {gate})
    OBVIOUS
  <2>5. /\ PlanInScope("parse", q.writes)
        /\ ~ q.raises => AllPass(q.writes) /\ ParsedOut(q.writes, d)
    BY <2>1, <2>2, <2>4, TextHas
  <2>6. InScope("parse", g)
    BY <1>4, <2>3, <2>4, GateInScope
  <2>7. /\ PlanInScope("parse", p.writes)
        /\ ~ p.raises => ~ Refused(gate) /\ ToSet(p.writes) = {g}
    <3>1. CASE Refused(gate)
      <4>1. IsSequence(p.writes) /\ ToSet(p.writes) = {g, failed} /\ p.raises
        BY <2>4, <3>1, GatedRefused
      <4>2. QED
        BY <1>5, <2>6, <4>1 DEF PlanInScope
    <3>2. CASE ~ Refused(gate)
      <4>1. PICK none : none = <<>>
        OBVIOUS
      <4>2. IsSequence(none) /\ ToSet(none) = {}
        BY <4>1, SequenceOf, TupleHas DEF IsSequence
      <4>3. p = Gated(gate, none, none, failed)
        BY <2>4, <4>1
      <4>4. /\ IsSequence(p.writes) /\ ~ p.raises
            /\ \A w : w \in ToSet(p.writes) <=> w = g \/ w \in ToSet(none) \/ w \in ToSet(none)
        BY <2>4, <3>2, <4>2, <4>3, GatedPassed
      <4>5. QED
        BY <2>6, <3>2, <4>2, <4>4 DEF PlanInScope
    <3>3. QED
      BY <3>1, <3>2
  <2>8. plan = InTurn(<<p, q>>)
    BY <1>1, <1>2, <1>3, <1>7, <2>4 DEF extract_document_evidence
  <2>9. IsSequence(p.writes) /\ IsSequence(q.writes)
    BY <2>5, <2>7 DEF PlanInScope
  <2>10. /\ IsSequence(plan.writes)
         /\ \A w \in ToSet(plan.writes) : w \in ToSet(p.writes) \/ w \in ToSet(q.writes)
         /\ ~ plan.raises => /\ ~ p.raises /\ ToSet(p.writes) \subseteq ToSet(plan.writes)
                             /\ ~ q.raises /\ ToSet(q.writes) \subseteq ToSet(plan.writes)
    BY <2>8, <2>9, TwoInTurn
  <2>11. PlanInScope("parse", plan.writes)
    BY <2>5, <2>7, <2>10 DEF PlanInScope
  <2>12. ASSUME ~ plan.raises
         PROVE  /\ AllPass(plan.writes) /\ ParsedOut(plan.writes, d)
                /\ Files(plan.writes, "gates", <<"parsing_inputs", d.id>>)
    <3>1. g.category = "gates" /\ HasKey(g.items, "gates", <<"parsing_inputs", d.id>>) /\ Passing(g)
      BY <2>3, <2>4, <2>7, <2>10, <2>12, GatePasses
    <3>2. g \in ToSet(plan.writes)
      BY <2>7, <2>10, <2>12
    <3>3. \A w \in ToSet(plan.writes) : w = g \/ w \in ToSet(q.writes)
      BY <2>7, <2>10, <2>12
    <3>4. AllPass(q.writes) /\ ParsedOut(q.writes, d)
      BY <2>5, <2>10, <2>12
    <3>5. AllPass(plan.writes)
      BY <3>1, <3>3, <3>4 DEF AllPass
    <3>6. ParsedOut(plan.writes, d)
      BY <2>10, <2>12, <3>4, ParsedMore
    <3>7. QED
      BY <3>1, <3>2, <3>5, <3>6 DEF Files
  <2>13. QED
    BY <2>11, <2>12
<1>8. QED
  BY <1>6, <1>7

(* What the extraction owes for a document.                                *)
Extracts(fs, writes, d) ==
    /\ Owed(fs, writes, "gates", <<"parsing_inputs", d.id>>, None)
    /\ Owed(fs, writes, "gates", <<"evidence_bundle", d.id>>, None)
    /\ Owed(fs, writes, "outcomes", <<"evidence_extraction", d.id>>, "succeeded")
    /\ \E k : k[1][1] = d.id /\ Owed(fs, writes, "evidence_spans", k, None)

(* A plan without a refusal or failure owes what it files.                 *)
LEMMA OwedOfPassing ==
    ASSUME NEW fs, NEW writes, AllPass(writes), NEW c \in {"gates", "outcomes", "evidence_spans"},
           NEW k, NEW y, c = "outcomes" => y = "succeeded", Files(writes, c, k)
    PROVE  Owed(fs, writes, c, k, y)
<1>1. ASSUME NEW w \in ToSet(writes), w.category = c PROVE AllFit(w.items, c, k, y)
  BY <1>1 DEF AllPass, Passing, AllFit, Fits
<1>2. QED
  BY <1>1 DEF Files, Owed

(* The plan of the extraction owes as much for every document on file.     *)
LEMMA ExtractionHas ==
    ASSUME NEW fs, FilesOK(fs), \A d \in fs["documents"] : d.kind \in DocumentKind,
           NEW plan, plan = run_evidence_extraction_pipeline(fs)
    PROVE  /\ PlanInScope("parse", plan.writes)
           /\ ~ plan.raises => \A d \in fs["documents"] : Extracts(fs, plan.writes, d)
<1>1. CASE fs["documents"] = {}
  <2>1. plan.writes = <<>> /\ plan.raises
    BY <1>1 DEF run_evidence_extraction_pipeline, Plan
  <2>2. IsSequence(<<>>) /\ ToSet(<<>>) = {}
    BY TupleHas DEF IsSequence
  <2>3. QED
    BY <2>1, <2>2 DEF PlanInScope
<1>2. CASE fs["documents"] # {}
  <2>1. PICK docs : docs = fs["documents"]
    OBVIOUS
  <2>2. IsFiniteSet(docs)
    <3>1. "documents" \in AllCategories /\ "documents" \in Counted
      BY DEF AllCategories, Counted
    <3>2. QED
      BY <2>1, <3>1, FilesDue
  <2>3. PICK found : found = discover_parseable_document_paths(docs)
    OBVIOUS
  <2>4. IsSequence(found) /\ ToSet(found) = docs
    BY <2>1, <2>2, <2>3, FoundHas
  <2>5. PICK plans : plans = [i \in DOMAIN found |-> extract_document_evidence(fs, found[i])]
    OBVIOUS
  <2>6. IsSequence(plans) /\ DOMAIN plans = DOMAIN found
        /\ \A i \in DOMAIN found : found[i] \in docs
    BY <2>4, <2>5, PlansAre
  <2>7. plan = InTurn(plans)
    BY <1>2, <2>1, <2>3, <2>5 DEF run_evidence_extraction_pipeline
  <2>8. ASSUME NEW i \in DOMAIN plans
        PROVE  /\ PlanInScope("parse", plans[i].writes)
               /\ ~ plans[i].raises =>
                    /\ AllPass(plans[i].writes) /\ ParsedOut(plans[i].writes, found[i])
                    /\ Files(plans[i].writes, "gates", <<"parsing_inputs", found[i].id>>)
    <3>1. plans[i] = extract_document_evidence(fs, found[i]) /\ found[i] \in fs["documents"]
      BY <2>1, <2>5, <2>6
    <3>2. QED
      BY <3>1, DocumentHas
  <2>9. \A i \in DOMAIN plans : IsSequence(plans[i].writes)
    BY <2>8 DEF PlanInScope
  <2>10. /\ IsSequence(plan.writes)
         /\ \A w \in ToSet(plan.writes) : \E i \in DOMAIN plans : w \in ToSet(plans[i].writes)
         /\ ~ plan.raises => \A i \in DOMAIN plans :
              ~ plans[i].raises /\ ToSet(plans[i].writes) \subseteq ToSet(plan.writes)
    BY <2>6, <2>7, <2>9, InTurnHas
  <2>11. PlanInScope("parse", plan.writes)
    BY <2>8, <2>10 DEF PlanInScope
  <2>12. ASSUME ~ plan.raises, NEW d \in docs PROVE Extracts(fs, plan.writes, d)
    <3>1. AllPass(plan.writes)
      BY <2>8, <2>10, <2>12 DEF AllPass
    <3>2. PICK i \in DOMAIN found : found[i] = d
      BY <2>4, PlaceOf
    <3>3. PICK own : own = plans[i].writes
      OBVIOUS
    <3>4. ParsedOut(own, d) /\ Files(own, "gates", <<"parsing_inputs", d.id>>)
          /\ ToSet(own) \subseteq ToSet(plan.writes)
      BY <2>6, <2>8, <2>10, <2>12, <3>2, <3>3
    <3>5. ParsedOut(plan.writes, d) /\ Files(plan.writes, "gates", <<"parsing_inputs", d.id>>)
      BY <3>4, ParsedMore, FilesMore
    <3>6. PICK k : k[1][1] = d.id /\ Files(plan.writes, "evidence_spans", k)
      BY <3>5 DEF ParsedOut
    <3>7. Files(plan.writes, "gates", <<"evidence_bundle", d.id>>)
          /\ Files(plan.writes, "outcomes", <<"evidence_extraction", d.id>>)
      BY <3>5 DEF ParsedOut
    <3>8. Owed(fs, plan.writes, "evidence_spans", k, None)
      BY <3>1, <3>6, OwedOfPassing
    <3>9. Owed(fs, plan.writes, "gates", <<"evidence_bundle", d.id>>, None)
      BY <3>1, <3>7, OwedOfPassing
    <3>10. Owed(fs, plan.writes, "gates", <<"parsing_inputs", d.id>>, None)
      BY <3>1, <3>5, OwedOfPassing
    <3>11. Owed(fs, plan.writes, "outcomes", <<"evidence_extraction", d.id>>, "succeeded")
      BY <3>1, <3>7, OwedOfPassing
    <3>12. QED
      BY <3>6, <3>8, <3>9, <3>10, <3>11 DEF Extracts
  <2>13. QED
    BY <2>1, <2>11, <2>12
<1>3. QED
  BY <1>1, <1>2

-----------------------------------------------------------------------------
(* Step 3.                                                                 *)

HypothesisId(firm, evidence) ==
    <<firm, _build_title(Classes(evidence.claims), evidence.guidance_changes),
      _build_thesis(Classes(evidence.claims), evidence.guidance_changes)>>
BriefId(fs, firm) ==
    <<HypothesisId(firm, EvidenceOf(fs, firm)), HypothesisId(firm, EvidenceOf(fs, firm))>>

(* A brief of a plan is of its company and its day, and known by the       *)
(* evidence.                                                               *)
BriefsOf(w, firm, now, id) ==
    w.category = "research_briefs" =>
        \A b \in w.items : b.company = firm /\ b.created = now /\ b.id = id

ResearchWrites(writes, firm, now, id) ==
    /\ PlanInScope("research", writes)
    /\ \A w \in ToSet(writes) : BriefsOf(w, firm, now, id)

(* What the research owes: an assessment of the day, and either a brief    *)
(* with it or a call for attention.                                        *)
Researches(fs, writes, firm, now) ==
    \E a : /\ a.company = firm /\ a.created = now
           /\ Owed(fs, writes, "evidence_assessments", a.id, a)
           /\ IF a.grade \in {"strong", "moderate"}
              THEN \E b : /\ b.company = firm /\ b.created = now /\ b.assessment = a.id
                          /\ Owed(fs, writes, "research_briefs", b.id, b)
              ELSE Owed(fs, writes, "outcomes", <<"research_workflow", firm>>, "attention_required")

(* A write of one file.                                                    *)
LEMMA OneItem ==
    ASSUME NEW c, c # "gates", NEW x, NEW w, w = Write(c, {x})
    PROVE  /\ w.category = c /\ w.items = {x} /\ HasKey(w.items, c, x.id)
           /\ c \in {"evidence_assessments", "signals", "research_briefs"} => AllFit(w.items, c, x.id, x)
<1>1. w.category = c /\ w.items = {x}
  BY DEF Write
<1>2. HasKey({x}, c, x.id)
  BY DEF HasKey, Key
<1>3. c \in {"evidence_assessments", "signals", "research_briefs"} => AllFit({x}, c, x.id, x)
  BY DEF AllFit, Fits
<1>4. QED
  BY <1>1, <1>2, <1>3

(* Whatever the links support, the research owes its result.               *)
LEMMA LinksHas ==
    ASSUME NEW in, NEW found, IsFiniteSet(found), NEW now, NEW fs,
           NEW plan, plan = LinksPlan(in, found, now), NEW id, id = HypothesisId(in.company, in.evidence)
    PROVE  /\ ResearchWrites(plan.writes, in.company, now, <<id, id>>)
           /\ Researches(fs, plan.writes, in.company, now)
<1>1. PICK hypothesis : hypothesis = generate_hypothesis(in, found, now)
  OBVIOUS
<1>2. PICK assessment : assessment = build_evidence_assessment(in, hypothesis, found, now)
  OBVIOUS
<1>3. /\ assessment.company = in.company /\ assessment.created = now
      /\ assessment.grade = GradeOf(in, found)
  BY <1>2 DEF build_evidence_assessment
<1>4. PICK wa : wa = Write("evidence_assessments", {assessment})
  OBVIOUS
<1>5. /\ wa.category = "evidence_assessments" /\ HasKey(wa.items, "evidence_assessments", assessment.id)
      /\ AllFit(wa.items, "evidence_assessments", assessment.id, assessment)
  BY <1>4, OneItem
<1>6. /\ "research" \in Part /\ Workflow("research") = "research_workflow"
      /\ {"hypotheses", "evidence_assessments", "counter_hypotheses", "research_briefs"}
           \subseteq Area("research") \ {"gates", "outcomes"}
  BY DEF Part, Workflow, Area
<1>7. InScope("research", wa)
  BY <1>4, <1>6, PlainInScope
<1>8. PICK n, m : n = Cardinality(found) /\ m = Cardinality(Documents(found))
  OBVIOUS
<1>9. n \in Nat /\ m \in Nat
  BY <1>8, DocumentsAreFinite
<1>10. CASE ~Supported(found) \/ assessment.grade = "insufficient"
  <2>1. PICK done : done = ResearchOutcome(assessment.company, "attention_required")
    OBVIOUS
  <2>2. plan.writes = <<wa, done>>
    BY <1>1, <1>2, <1>4, <1>10, <2>1 DEF LinksPlan, ResearchPlan, _persist_partial_workflow, Plan
  <2>3. IsSequence(plan.writes) /\ ToSet(plan.writes) = {wa, done}
    BY <2>2, TupleIs, TupleHas
  <2>4. /\ done.category = "outcomes" /\ HasKey(done.items, "outcomes", <<"research_workflow", in.company>>)
        /\ AllFit(done.items, "outcomes", <<"research_workflow", in.company>>, "attention_required")
    BY <1>3, <2>1, OutcomeIs DEF ResearchOutcome
  <2>5. InScope("research", done)
    BY <1>6, <2>1, OutcomeInScope DEF ResearchOutcome
  <2>6. ResearchWrites(plan.writes, in.company, now, <<id, id>>)
    BY <1>5, <1>7, <2>3, <2>4, <2>5 DEF ResearchWrites, PlanInScope, BriefsOf
  <2>7. assessment.grade \notin {"strong", "moderate"}
    BY <1>3, <1>8, <1>9, <1>10 DEF GradeOf, Supported
  <2>8. Owed(fs, plan.writes, "evidence_assessments", assessment.id, assessment)
    BY <1>5, <2>3, <2>4, OwedFrom
  <2>9. Owed(fs, plan.writes, "outcomes", <<"research_workflow", in.company>>, "attention_required")
    BY <1>5, <2>3, <2>4, OwedFrom
  <2>10. QED
    BY <1>3, <2>6, <2>7, <2>8, <2>9 DEF Researches
<1>11. CASE ~(~Supported(found) \/ assessment.grade = "insufficient")
  <2>1. n >= 2 /\ m >= 2
    BY <1>8, <1>9, <1>11 DEF Supported
  <2>2. assessment.grade \in {"strong", "moderate"}
    BY <1>3, <1>8, <1>9, <1>11, <2>1 DEF GradeOf
  <2>3. hypothesis =
            [id |-> id, company |-> in.company, links |-> found, assessment |-> None,
             review |-> "pending", validation |-> "unvalidated", created |-> now,
             prov |-> WithSource]
    BY <1>1, <1>11 DEF generate_hypothesis, HypothesisId
  <2>4. PICK h : h = [hypothesis EXCEPT !.assessment = assessment.id]
    OBVIOUS
  <2>5. hypothesis.id = id /\ hypothesis.company = in.company
    BY <2>3
  <2>6. PICK counter : counter = generate_counter_hypothesis(in, hypothesis, now)
    OBVIOUS
  <2>7. counter.id = id
    BY <2>5, <2>6 DEF generate_counter_hypothesis
  <2>8. PICK brief : brief = build_research_brief(hypothesis, counter, assessment, now)
    OBVIOUS
  <2>9. /\ brief.company = in.company /\ brief.created = now /\ brief.assessment = assessment.id
        /\ brief.id = <<id, id>>
    BY <2>5, <2>7, <2>8 DEF build_research_brief
  <2>10. PICK wh, wc, wb, done :
           /\ wh = Write("hypotheses", {h}) /\ wc = Write("counter_hypotheses", {counter})
           /\ wb = Write("research_briefs", {brief})
           /\ done = ResearchOutcome(brief.company, "succeeded")
    OBVIOUS
  <2>11. plan.writes = <<wh, wa, wc, wb, done>>
    <3>1. plan = CompletedPlan(in, hypothesis, assessment, now)
      BY <1>1, <1>2, <1>11 DEF LinksPlan, ResearchPlan
    <3>2. CompletedPlan(in, hypothesis, assessment, now)
            = Plan(_persist_completed_workflow(h, assessment, counter, brief), FALSE)
      BY <2>4, <2>6, <2>8 DEF CompletedPlan
    <3>3. QED
      BY <1>4, <2>10, <3>1, <3>2 DEF Plan, _persist_completed_workflow
  <2>12. IsSequence(plan.writes) /\ ToSet(plan.writes) = {wh, wa, wc, wb, done}
    BY <2>11, TupleIs, TupleHas
  <2>13. /\ wb.category = "research_briefs" /\ wb.items = {brief}
         /\ HasKey(wb.items, "research_briefs", brief.id)
         /\ AllFit(wb.items, "research_briefs", brief.id, brief)
    BY <2>10, OneItem
  <2>14. wh.category = "hypotheses" /\ wc.category = "counter_hypotheses" /\ done.category = "outcomes"
    <3>1. wh.category = "hypotheses" /\ wc.category = "counter_hypotheses"
      BY <2>10 DEF Write
    <3>2. done = Outcome("research_workflow", brief.company, "succeeded")
      BY <2>10 DEF ResearchOutcome
    <3>3. done.category = "outcomes"
      BY <3>2 DEF Outcome, Write
    <3>4. QED
      BY <3>1, <3>3
  <2>15. /\ InScope("research", wh) /\ InScope("research", wc) /\ InScope("research", wb)
         /\ InScope("research", done)
    BY <1>6, <2>10, PlainInScope, OutcomeInScope DEF ResearchOutcome
  <2>16. ResearchWrites(plan.writes, in.company, now, <<id, id>>)
    BY <1>5, <1>7, <2>9, <2>12, <2>13, <2>14, <2>15 DEF ResearchWrites, PlanInScope, BriefsOf
  <2>17. Owed(fs, plan.writes, "evidence_assessments", assessment.id, assessment)
    BY <1>5, <2>12, <2>13, <2>14, OwedFrom
  <2>18. Owed(fs, plan.writes, "research_briefs", brief.id, brief)
    BY <1>5, <2>12, <2>13, <2>14, OwedFrom
  <2>19. QED
    BY <1>3, <2>2, <2>9, <2>16, <2>17, <2>18 DEF Researches
<1>12. QED
  BY <1>10, <1>11

(* The plan of the research, for the company that is resolved.             *)
LEMMA ResearchHas ==
    ASSUME NEW fs, FilesOK(fs), NEW firm, NEW now,
           NEW plan, plan = run_research_workflow(fs, firm, now),
           NEW found, found = Resolved(ResearchCompanies(fs), firm), NEW c, c = The(found)
    PROVE  /\ ResearchWrites(plan.writes, c, now, BriefId(fs, c))
           /\ ~ plan.raises => found # {} /\ Researches(fs, plan.writes, c, now)
<1>1. CASE found = {}
  <2>1. PICK failed : failed = ResearchOutcome("unresolved", "failed")
    OBVIOUS
  <2>2. plan.writes = <<failed>> /\ plan.raises
    BY <1>1, <2>1 DEF run_research_workflow, Plan
  <2>3. IsSequence(<<failed>>) /\ ToSet(<<failed>>) = {failed}
    BY TupleIs, TupleHas
  <2>4. "research" \in Part /\ Workflow("research") = "research_workflow"
    BY DEF Part, Workflow
  <2>5. InScope("research", failed) /\ failed.category = "outcomes"
    <3>1. failed = Outcome("research_workflow", "unresolved", "failed")
      BY <2>1 DEF ResearchOutcome
    <3>2. failed.category = "outcomes"
      BY <3>1 DEF Outcome, Write
    <3>3. QED
      BY <2>4, <3>1, <3>2, OutcomeInScope
  <2>6. QED
    BY <2>2, <2>3, <2>5 DEF ResearchWrites, PlanInScope, BriefsOf
<1>2. CASE found # {}
  <2>1. c = CHOOSE x \in found : TRUE
    BY DEF The
  <2>2. PICK in : in = load_research_artifacts(fs, c)
    OBVIOUS
  <2>3. PICK links_ : links_ = _build_supporting_evidence_links(in)
    OBVIOUS
  <2>4. plan = LinksPlan(in, links_, now)
    BY <1>2, <2>1, <2>2, <2>3 DEF run_research_workflow
  <2>5. IsFiniteSet(links_)
    BY <2>2, <2>3, SupportIs
  <2>6. in.company = c /\ in.evidence = EvidenceOf(fs, c)
    BY <2>2 DEF load_research_artifacts
  <2>7. PICK id : id = HypothesisId(in.company, in.evidence)
    OBVIOUS
  <2>8. /\ ResearchWrites(plan.writes, in.company, now, <<id, id>>)
        /\ Researches(fs, plan.writes, in.company, now)
    BY <2>4, <2>5, <2>7, LinksHas
  <2>9. <<id, id>> = BriefId(fs, c)
    BY <2>6, <2>7 DEF BriefId
  <2>10. QED
    BY <1>2, <2>6, <2>8, <2>9
<1>3. QED
  BY <1>1, <1>2

-----------------------------------------------------------------------------
(* Step 4.                                                                 *)

FeatureKey(c, n, brief) == <<c, n, brief.created>>
(* What the mapping owes: every feature of the brief.                      *)
Maps(fs, writes, c, brief) ==
    \A n \in FeatureName :
        Owed(fs, writes, "features", FeatureKey(c, n, brief), [brief |-> brief.id, company |-> c])

(* The plan for the features of a company.                                 *)
LEMMA OutputHas ==
    ASSUME NEW firm, NEW features, NEW plan, plan = OutputPlan(firm, features)
    PROVE  /\ PlanInScope("features", plan.writes)
           /\ \A w \in ToSet(plan.writes) : w.category = "features" => w.items = features
           /\ ~ plan.raises => Write("features", features) \in ToSet(plan.writes)
<1>1. PICK v, w, done, failed, gate, g :
        /\ v = Write("feature_values", {[id |-> <<f.id, f.brief>>, name |-> f.name] : f \in features})
        /\ w = Write("features", features)
        /\ done = FeatureOutcome(firm, features)
        /\ failed = Outcome("feature_mapping", firm, "failed")
        /\ gate = validate_feature_output(firm, FeatureViews(features))
        /\ g = Write("gates", {gate})
  OBVIOUS
<1>2. PICK filed, after : filed = <<v, w>> /\ after = <<done>>
  OBVIOUS
<1>3. IsSequence(filed) /\ ToSet(filed) = {v, w} /\ IsSequence(after) /\ ToSet(after) = {done}
  BY <1>2, TupleIs, TupleHas
<1>4. plan = Gated(gate, filed, after, failed)
  BY <1>1, <1>2 DEF OutputPlan
<1>5. /\ "features" \in Part /\ Workflow("features") = "feature_mapping" /\ "gates" \in Area("features")
      /\ {"feature_values", "features"} \subseteq Area("features") \ {"gates", "outcomes"}
      /\ "feature_output" \in GateNames("features")
  BY DEF Part, Workflow, Area, GateNames
<1>6. InScope("features", v) /\ InScope("features", w)
  BY <1>1, <1>5, PlainInScope
<1>7. gate.name \in GateNames("features")
  BY <1>1, <1>5, OutputGates
<1>8. InScope("features", g)
  BY <1>1, <1>5, <1>7, GateInScope
<1>9. InScope("features", done)
  <2>1. PICK status : done = Outcome("feature_mapping", firm, status)
    BY <1>1 DEF FeatureOutcome
  <2>2. QED
    BY <1>5, <2>1, OutcomeInScope
<1>10. InScope("features", failed)
  BY <1>1, <1>5, OutcomeInScope
<1>11. /\ v.category = "feature_values" /\ w.category = "features" /\ w.items = features
       /\ g.category = "gates" /\ done.category = "outcomes" /\ failed.category = "outcomes"
  BY <1>1 DEF Write, FeatureOutcome, Outcome
<1>12. CASE Refused(gate)
  <2>1. IsSequence(plan.writes) /\ ToSet(plan.writes) = {g, failed} /\ plan.raises
    BY <1>1, <1>4, <1>12, GatedRefused
  <2>2. QED
    BY <1>8, <1>10, <1>11, <2>1 DEF PlanInScope
<1>13. CASE ~ Refused(gate)
  <2>1. IsSequence(filed) /\ IsSequence(after) /\ g = Write("gates", {gate})
    BY <1>1, <1>3
  <2>2. /\ IsSequence(plan.writes) /\ ~ plan.raises
        /\ \A x : x \in ToSet(plan.writes) <=> x = g \/ x \in ToSet(filed) \/ x \in ToSet(after)
    BY <1>4, <1>13, <2>1, GatedPassed
  <2>3. \A x : x \in ToSet(plan.writes) <=> x \in {g, v, w, done}
    BY <1>3, <2>2
  <2>4. QED
    BY <1>1, <1>6, <1>8, <1>9, <1>11, <2>2, <2>3 DEF PlanInScope
<1>14. QED
  BY <1>12, <1>13

(* A gate with nothing behind it.                                          *)
LEMMA GateAlone ==
    ASSUME NEW gate, NEW failed, NEW g, g = Write("gates", {gate}),
           NEW plan, plan = Gated(gate, <<>>, <<>>, failed)
    PROVE  /\ IsSequence(plan.writes) /\ \A w \in ToSet(plan.writes) : w \in {g, failed}
           /\ ~ plan.raises => ~ Refused(gate)
<1>1. CASE Refused(gate)
  BY <1>1, GatedRefused
<1>2. CASE ~ Refused(gate)
  <2>1. PICK none : none = <<>>
    OBVIOUS
  <2>2. IsSequence(none) /\ ToSet(none) = {}
    BY <2>1, SequenceOf, TupleHas DEF IsSequence
  <2>3. plan = Gated(gate, none, none, failed)
    BY <2>1
  <2>4. /\ IsSequence(plan.writes) /\ ~ plan.raises
        /\ \A w : w \in ToSet(plan.writes) <=> w = g \/ w \in ToSet(none) \/ w \in ToSet(none)
    <3>1. ~ Refused(gate) /\ IsSequence(none) /\ plan = Gated(gate, none, none, failed)
      BY <1>2, <2>2, <2>3
    <3>2. QED
      BY <3>1, GatedPassed
  <2>5. QED
    BY <1>2, <2>2, <2>4
<1>3. QED
  BY <1>1, <1>2

(* The features of a brief, under its day.                                 *)
LEMMA FeaturesHave ==
    ASSUME NEW slice, NEW values, NEW c, slice.company = c, NEW brief, slice.brief = brief,
           NEW features, features = FeaturesOf(slice, values)
    PROVE  /\ \A n \in FeatureName : HasKey(features, "features", FeatureKey(c, n, brief))
           /\ \A f \in features : f.brief = brief.id /\ f.company = c
<1>1. ASSUME NEW n \in FeatureName PROVE HasKey(features, "features", FeatureKey(c, n, brief))
  <2>1. PICK f : /\ f.id = <<slice.company, n, slice.brief.created>>
                 /\ f = [id |-> <<slice.company, n, slice.brief.created>>, name |-> n,
                         company |-> slice.company, value |-> values[n],
                         hypothesis |-> slice.hypothesis.id, brief |-> slice.brief.id,
                         assessment |-> slice.assessment.id,
                         links |-> {l.id : l \in slice.hypothesis.links},
                         documents |-> Documents(slice.hypothesis.links)]
    OBVIOUS
  <2>2. Key("features", f) = FeatureKey(c, n, brief)
    BY <2>1 DEF Key, FeatureKey
  <2>3. f \in features
    BY <2>1 DEF FeaturesOf
  <2>4. QED
    BY <2>2, <2>3 DEF HasKey
<1>2. \A f \in features : f.brief = brief.id /\ f.company = c
  BY DEF FeaturesOf
<1>3. QED
  BY <1>1, <1>2

(* A plan that writes the features of a brief owes them.                   *)
LEMMA MapsFrom ==
    ASSUME NEW fs, NEW writes, NEW c, NEW brief, NEW features,
           \A n \in FeatureName : HasKey(features, "features", FeatureKey(c, n, brief)),
           \A f \in features : f.brief = brief.id /\ f.company = c,
           NEW w \in ToSet(writes), w.category = "features", w.items = features,
           \A v \in ToSet(writes) : v.category = "features" => v.items = features
    PROVE  Maps(fs, writes, c, brief)
<1>1. PICK y : y = [brief |-> brief.id, company |-> c]
  OBVIOUS
<1>2. y.brief = brief.id /\ y.company = c
  BY <1>1
<1>3. ASSUME NEW n \in FeatureName PROVE Owed(fs, writes, "features", FeatureKey(c, n, brief), y)
  <2>1. PICK k : k = FeatureKey(c, n, brief)
    OBVIOUS
  <2>2. AllFit(features, "features", k, y)
    BY <1>2 DEF AllFit, Fits
  <2>3. HasKey(w.items, "features", k)
    BY <2>1
  <2>4. \A v \in ToSet(writes) : v.category = "features" => AllFit(v.items, "features", k, y)
    BY <2>2
  <2>5. Owed(fs, writes, "features", k, y)
    BY <2>3, <2>4, OwedFrom
  <2>6. QED
    BY <2>1, <2>5
<1>4. QED
  BY <1>1, <1>3 DEF Maps

(* The assessment that a brief on file leads to is not weak.               *)
LEMMA GradeIsEnough ==
    ASSUME NEW fs, FilesOK(fs), NEW brief \in fs["research_briefs"], ~ Dangling(fs, brief),
           NEW slice, NEW firm, slice = SliceOf(fs, firm, brief), brief # None
    PROVE  slice.assessment.grade \in {"strong", "moderate"}
<1>1. PICK a : a = slice.assessment
  OBVIOUS
<1>2. a \in ById(fs.evidence_assessments, brief.assessment)
  BY <1>1 DEF SliceOf, Dangling, The
<1>3. a \in fs["evidence_assessments"] /\ a.id = brief.assessment
  BY <1>2 DEF ById
<1>4. {"research_briefs", "evidence_assessments"} \subseteq AllCategories
  BY DEF AllCategories
<1>5. Rests(FactsIn(fs), "evidence_assessments", a) /\ Rests(FactsIn(fs), "research_briefs", brief)
  BY <1>3, <1>4, FilesDue
<1>6. AssessmentOK(a) /\ BriefOK(FactsIn(fs), brief)
  BY <1>5 DEF Rests
<1>7. QED
  BY <1>1, <1>3, <1>6 DEF AssessmentOK, BriefOK

(* Features are built from a slice that nothing blocks.                    *)
LEMMA CandidatesAre ==
    ASSUME NEW slice, NEW evidence, slice.assessment.grade \in {"strong", "moderate"},
           None \notin {slice.hypothesis, slice.counter, slice.brief},
           \A a \in {slice.assessment, slice.hypothesis, slice.counter, slice.brief} :
              ~ review_state_invalid(a)
    PROVE  build_feature_candidates(slice, evidence) = FeaturesOf(slice, FeatureValues(slice, evidence))
BY DEF build_feature_candidates, _artifact_blocked

(* The plan of the mapping owes the features of the latest brief.          *)
LEMMA MappingHas ==
    ASSUME NEW fs, FilesOK(fs), NEW firm, NEW plan, plan = run_feature_mapping_workflow(fs, firm),
           NEW found, found = Resolved(ResearchedCompanies(fs), firm), NEW c, c = The(found),
           NEW brief, brief = Latest(Of(fs.research_briefs, c))
    PROVE  /\ PlanInScope("features", plan.writes)
           /\ ~ plan.raises => /\ found # {} /\ Of(fs.research_briefs, c) # {}
                               /\ Maps(fs, plan.writes, c, brief)
<1>1. /\ "features" \in Part /\ Workflow("features") = "feature_mapping" /\ "gates" \in Area("features")
      /\ "feature_mapping_inputs" \in GateNames("features")
  BY DEF Part, Workflow, Area, GateNames
<1>2. ASSUME NEW item, NEW w, w = Outcome("feature_mapping", item, "failed"), plan = Plan(<<w>>, TRUE)
      PROVE  PlanInScope("features", plan.writes) /\ plan.raises
  <2>1. InScope("features", w)
    BY <1>1, <1>2, OutcomeInScope
  <2>2. plan.writes = <<w>> /\ plan.raises
    BY <1>2 DEF Plan
  <2>3. IsSequence(<<w>>) /\ ToSet(<<w>>) = {w}
    BY TupleIs, TupleHas
  <2>4. QED
    BY <2>1, <2>2, <2>3 DEF PlanInScope
<1>3. CASE found = {}
  <2>1. plan = Plan(<<Outcome("feature_mapping", "unresolved", "failed")>>, TRUE)
    BY <1>3 DEF run_feature_mapping_workflow
  <2>2. PICK w : w = Outcome("feature_mapping", "unresolved", "failed")
    OBVIOUS
  <2>3. plan = Plan(<<w>>, TRUE)
    BY <2>1, <2>2
  <2>4. QED
    BY <1>2, <2>2, <2>3
<1>4. CASE found # {}
  <2>1. plan = FeaturePlanOf(fs, c, brief)
    <3>1. brief = Latest(Of(fs.research_briefs, The(found)))
      OBVIOUS
    <3>2. QED
      BY <1>4, <3>1 DEF run_feature_mapping_workflow
  <2>2. CASE Of(fs.evidence_assessments, c) = {} \/ (brief # None /\ Dangling(fs, brief))
    <3>1. PICK w : w = Outcome("feature_mapping", c, "failed")
      OBVIOUS
    <3>2. plan = Plan(<<w>>, TRUE)
      BY <2>1, <2>2, <3>1 DEF FeaturePlanOf
    <3>3. QED
      BY <1>2, <3>1, <3>2
  <2>3. CASE ~(Of(fs.evidence_assessments, c) = {} \/ (brief # None /\ Dangling(fs, brief)))
    <3>1. PICK slice, gate, g, failed :
            /\ slice = SliceOf(fs, c, brief)
            /\ gate = validate_feature_mapping_inputs(slice)
            /\ g = Write("gates", {gate}) /\ failed = Outcome("feature_mapping", c, "failed")
      OBVIOUS
    <3>2. PICK evidence, values : /\ evidence = EvidenceOf(fs, c)
                                  /\ values = FeatureValues(slice, evidence)
      OBVIOUS
    <3>3. PICK features : features = IF Refused(gate) THEN {} ELSE build_feature_candidates(slice, evidence)
      OBVIOUS
    <3>4. slice.company = c /\ slice.brief = brief
      BY <3>1 DEF SliceOf
    <3>5. PICK p, q : p = Gated(gate, <<>>, <<>>, failed) /\ q = OutputPlan(c, features)
      OBVIOUS
    <3>6. plan = InTurn(<<p, q>>)
      <4>1. SlicePlan(fs, slice) = InTurn(<<p, q>>)
        BY <3>1, <3>2, <3>3, <3>4, <3>5 DEF SlicePlan
      <4>2. FeaturePlanOf(fs, c, brief) = SlicePlan(fs, slice)
        BY <2>3, <3>1 DEF FeaturePlanOf
      <4>3. QED
        BY <2>1, <4>1, <4>2
    <3>7. /\ IsSequence(p.writes) /\ \A w \in ToSet(p.writes) : w \in {g, failed}
          /\ ~ p.raises => ~ Refused(gate)
      BY <3>1, <3>5, GateAlone
    <3>8. /\ PlanInScope("features", q.writes)
          /\ \A w \in ToSet(q.writes) : w.category = "features" => w.items = features
          /\ ~ q.raises => Write("features", features) \in ToSet(q.writes)
      BY <3>5, OutputHas
    <3>9. IsSequence(p.writes) /\ IsSequence(q.writes)
      BY <3>7, <3>8 DEF PlanInScope
    <3>10. /\ IsSequence(plan.writes)
           /\ \A w \in ToSet(plan.writes) : w \in ToSet(p.writes) \/ w \in ToSet(q.writes)
           /\ ~ plan.raises => /\ ~ p.raises /\ ToSet(p.writes) \subseteq ToSet(plan.writes)
                               /\ ~ q.raises /\ ToSet(q.writes) \subseteq ToSet(plan.writes)
      BY <3>6, <3>9, TwoInTurn
    <3>11. InScope("features", failed)
      BY <1>1, <3>1, OutcomeInScope
    <3>12. InScope("features", g)
      <4>1. gate.name \in GateNames("features")
        BY <1>1, <3>1, SliceGate
      <4>2. QED
        BY <1>1, <3>1, <4>1, GateInScope
    <3>13. PlanInScope("features", plan.writes)
      BY <3>7, <3>8, <3>10, <3>11, <3>12 DEF PlanInScope
    <3>14. ASSUME ~ plan.raises
           PROVE  Of(fs.research_briefs, c) # {} /\ Maps(fs, plan.writes, c, brief)
      <4>1. ~ Refused(gate)
        BY <3>7, <3>10, <3>14
      <4>2. ~ Refused(validate_feature_mapping_inputs(slice))
        BY <3>1, <4>1
      <4>3. /\ None \notin {slice.hypothesis, slice.counter, slice.brief}
            /\ \A a \in {slice.assessment, slice.hypothesis, slice.counter, slice.brief} :
                  ~ review_state_invalid(a)
        BY <4>2, SliceRequired
      <4>4. brief # None
        BY <3>4, <4>3
      <4>5. Of(fs.research_briefs, c) # {}
        BY <4>4 DEF Latest
      <4>6. brief \in fs["research_briefs"]
        BY <4>5, LatestIs
      <4>7. slice.assessment.grade \in {"strong", "moderate"}
        <5>1. ~ Dangling(fs, brief)
          BY <2>3, <4>4
        <5>2. QED
          BY <3>1, <4>4, <4>6, <5>1, GradeIsEnough
      <4>8. features = FeaturesOf(slice, values)
        BY <3>2, <3>3, <4>1, <4>3, <4>7, CandidatesAre
      <4>9. /\ \A n \in FeatureName : HasKey(features, "features", FeatureKey(c, n, brief))
            /\ \A f \in features : f.brief = brief.id /\ f.company = c
        BY <3>4, <4>8, FeaturesHave
      <4>10. PICK w \in ToSet(plan.writes) : w = Write("features", features)
        BY <3>8, <3>10, <3>14
      <4>11. w.category = "features" /\ w.items = features
        BY <4>10 DEF Write
      <4>12. g.category = "gates" /\ failed.category = "outcomes"
        BY <3>1 DEF Write, Outcome
      <4>13. \A v \in ToSet(plan.writes) : v.category = "features" => v.items = features
        BY <3>7, <3>8, <3>10, <4>12
      <4>14. Maps(fs, plan.writes, c, brief)
        <5>1. w \in ToSet(plan.writes) /\ w.category = "features" /\ w.items = features
          BY <4>10, <4>11
        <5>2. PICK all : all = plan.writes
          OBVIOUS
        <5>3. /\ w \in ToSet(all) /\ w.category = "features" /\ w.items = features
              /\ \A v \in ToSet(all) : v.category = "features" => v.items = features
          BY <4>13, <5>1, <5>2
        <5>4. Maps(fs, all, c, brief)
          BY <4>9, <5>3, MapsFrom
        <5>5. QED
          BY <5>2, <5>4
      <4>15. QED
        BY <4>5, <4>14
    <3>15. QED
      BY <1>4, <3>13, <3>14
  <2>4. QED
    BY <2>2, <2>3
<1>5. QED
  BY <1>3, <1>4

-----------------------------------------------------------------------------
(* What the generation owes: a signal of the brief's hypothesis on every   *)
(* feature of the company.                                                 *)
Generates(fs, writes, c, brief, ids) ==
    \E s : /\ s.company = c /\ s.hypothesis = brief.hypothesis /\ s.features = ids
           /\ Owed(fs, writes, "signals", s.id, s)

(* The plan for a candidate signal owes it.                                *)
LEMMA SignalHas ==
    ASSUME NEW fs, NEW signal, NEW features, NEW scores, NEW plan,
           plan = SignalPlan(signal, features, scores)
    PROVE  /\ PlanInScope("signals", plan.writes)
           /\ ~ plan.raises => Owed(fs, plan.writes, "signals", signal.id, signal)
<1>1. PICK v, w, done, failed, gate, g :
        /\ v = Write("signal_scores", scores) /\ w = Write("signals", {signal})
        /\ gate = validate_signal_generation(signal.company, FeatureViews(features),
                      <<SignalView(signal, features)>>,
                      LET s == InSomeOrder(scores) IN [i \in DOMAIN s |-> ScoreView(s[i])])
        /\ done = Outcome("signal_generation", signal.company, "succeeded")
        /\ failed = Outcome("signal_generation", signal.company, "failed")
        /\ g = Write("gates", {gate})
  OBVIOUS
<1>2. PICK filed, after : filed = <<v, w>> /\ after = <<done>>
  OBVIOUS
<1>3. IsSequence(filed) /\ ToSet(filed) = {v, w} /\ IsSequence(after) /\ ToSet(after) = {done}
  BY <1>2, TupleIs, TupleHas
<1>4. plan = Gated(gate, filed, after, failed)
  BY <1>1, <1>2 DEF SignalPlan
<1>5. /\ "signals" \in Part /\ Workflow("signals") = "signal_generation" /\ "gates" \in Area("signals")
      /\ {"signal_scores", "signals"} \subseteq Area("signals") \ {"gates", "outcomes"}
      /\ "signal_generation_output" \in GateNames("signals")
  BY DEF Part, Workflow, Area, GateNames
<1>6. InScope("signals", v) /\ InScope("signals", w)
  BY <1>1, <1>5, PlainInScope
<1>7. gate.name \in GateNames("signals")
  BY <1>1, <1>5, OutputGates
<1>8. InScope("signals", g) /\ InScope("signals", done) /\ InScope("signals", failed)
  BY <1>1, <1>5, <1>7, GateInScope, OutcomeInScope
<1>9. /\ v.category = "signal_scores" /\ g.category = "gates" /\ done.category = "outcomes"
      /\ w.category = "signals" /\ w.items = {signal}
  BY <1>1 DEF Write, Outcome
<1>10. CASE Refused(gate)
  <2>1. IsSequence(plan.writes) /\ ToSet(plan.writes) = {g, failed} /\ plan.raises
    BY <1>1, <1>4, <1>10, GatedRefused
  <2>2. QED
    BY <1>8, <2>1 DEF PlanInScope
<1>11. CASE ~ Refused(gate)
  <2>1. IsSequence(filed) /\ IsSequence(after) /\ g = Write("gates", {gate})
    BY <1>1, <1>3
  <2>2. /\ IsSequence(plan.writes) /\ ~ plan.raises
        /\ \A x : x \in ToSet(plan.writes) <=> x = g \/ x \in ToSet(filed) \/ x \in ToSet(after)
    BY <1>4, <1>11, <2>1, GatedPassed
  <2>3. \A x : x \in ToSet(plan.writes) <=> x \in {g, v, w, done}
    BY <1>3, <2>2
  <2>4. /\ HasKey(w.items, "signals", signal.id)
        /\ AllFit(w.items, "signals", signal.id, signal)
    BY <1>1, OneItem
  <2>5. Owed(fs, plan.writes, "signals", signal.id, signal)
    BY <1>9, <2>3, <2>4, OwedFrom
  <2>6. QED
    BY <1>6, <1>8, <2>2, <2>3, <2>5 DEF PlanInScope
<1>12. QED
  BY <1>10, <1>11

(* The plan of the generation, whatever the order of the directory.        *)
LEMMA GenerationHas ==
    ASSUME NEW fs, FilesOK(fs), NEW c, NEW plan \in run_signal_generation_workflow(fs, c),
           NEW features, features = Of(fs.features, c),
           NEW brief, brief = Latest(Of(fs.research_briefs, c))
    PROVE  /\ PlanInScope("signals", plan.writes)
           /\ /\ ~ plan.raises /\ {f.name : f \in features} = FeatureName
              /\ Of(fs.research_briefs, c) # {}
              => Generates(fs, plan.writes, c, brief, {f.id : f \in features})
<1>1. "signals" \in Part /\ Workflow("signals") = "signal_generation" /\ "gates" \in Area("signals")
      /\ "signal_generation_output" \in GateNames("signals")
  BY DEF Part, Workflow, Area, GateNames
<1>2. CASE features = {}
  <2>1. PICK failed : failed = Outcome("signal_generation", c, "failed")
    OBVIOUS
  <2>2. plan = Plan(<<failed>>, TRUE)
    BY <1>2, <2>1 DEF run_signal_generation_workflow
  <2>3. plan.writes = <<failed>> /\ plan.raises
    BY <2>2 DEF Plan
  <2>4. InScope("signals", failed)
    BY <1>1, <2>1, OutcomeInScope
  <2>5. IsSequence(<<failed>>) /\ ToSet(<<failed>>) = {failed}
    BY TupleIs, TupleHas
  <2>6. QED
    BY <2>3, <2>4, <2>5 DEF PlanInScope
<1>3. CASE features # {} /\ {f.name : f \in features} # FeatureName
  <2>1. plan = NoSignalPlan(c, features)
    BY <1>3 DEF run_signal_generation_workflow
  <2>2. PICK gate, done, failed, g :
          /\ gate = validate_signal_generation(c, FeatureViews(features), <<>>, <<>>)
          /\ done = Outcome("signal_generation", c, "attention_required")
          /\ failed = Outcome("signal_generation", c, "failed")
          /\ g = Write("gates", {gate})
    OBVIOUS
  <2>3. PICK none, after : none = <<>> /\ after = <<done>>
    OBVIOUS
  <2>4. IsSequence(none) /\ ToSet(none) = {} /\ IsSequence(after) /\ ToSet(after) = {done}
    BY <2>3, TupleIs, TupleHas, SequenceOf DEF IsSequence
  <2>5. plan = Gated(gate, none, after, failed)
    BY <2>1, <2>2, <2>3 DEF NoSignalPlan
  <2>6. gate.name \in GateNames("signals")
    BY <1>1, <2>2, OutputGates
  <2>7. InScope("signals", g) /\ InScope("signals", done) /\ InScope("signals", failed)
    BY <1>1, <2>2, <2>6, GateInScope, OutcomeInScope
  <2>8. CASE Refused(gate)
    <3>1. IsSequence(plan.writes) /\ ToSet(plan.writes) = {g, failed} /\ plan.raises
      <4>1. Refused(gate) /\ plan = Gated(gate, none, after, failed) /\ g = Write("gates", {gate})
        BY <2>2, <2>5, <2>8
      <4>2. QED
        BY <4>1, GatedRefused
    <3>2. QED
      BY <1>3, <2>7, <3>1 DEF PlanInScope
  <2>9. CASE ~ Refused(gate)
    <3>1. IsSequence(none) /\ IsSequence(after) /\ g = Write("gates", {gate})
      BY <2>2, <2>4
    <3>2. /\ IsSequence(plan.writes) /\ ~ plan.raises
          /\ \A x : x \in ToSet(plan.writes) <=> x = g \/ x \in ToSet(none) \/ x \in ToSet(after)
      BY <2>5, <2>9, <3>1, GatedPassed
    <3>3. QED
      BY <1>3, <2>4, <2>7, <3>2 DEF PlanInScope
  <2>10. QED
    BY <2>8, <2>9
<1>4. CASE features # {} /\ {f.name : f \in features} = FeatureName
  <2>1. PICK value \in LastOfName(features) :
          LET s == CandidateSignal(c, features, value, EffectiveAt(fs, c),
                                   HypothesisOf(fs, c, features))
          IN  plan = SignalPlan(s, features, ScoresOf(s, features))
    BY <1>4 DEF run_signal_generation_workflow
  <2>2. PICK s : s = CandidateSignal(c, features, value, EffectiveAt(fs, c),
                                     HypothesisOf(fs, c, features))
    OBVIOUS
  <2>3. PICK scores : scores = ScoresOf(s, features)
    OBVIOUS
  <2>4. plan = SignalPlan(s, features, scores)
    BY <2>1, <2>2, <2>3
  <2>5. /\ PlanInScope("signals", plan.writes)
        /\ ~ plan.raises => Owed(fs, plan.writes, "signals", s.id, s)
    BY <2>4, SignalHas
  <2>6. /\ s.company = c /\ s.features = {f.id : f \in features}
        /\ s.hypothesis = HypothesisOf(fs, c, features)
    BY <2>2 DEF CandidateSignal
  <2>7. Of(fs.research_briefs, c) # {} => HypothesisOf(fs, c, features) = brief.hypothesis
    BY DEF HypothesisOf
  <2>8. QED
    BY <2>5, <2>6, <2>7 DEF Generates
<1>5. QED
  BY <1>2, <1>3, <1>4

-----------------------------------------------------------------------------
(* What a write leaves alone.                                              *)

(* A write changes one category, and adds what it says.                    *)
LEMMA PutHas ==
    ASSUME NEW fs, fs = [c \in AllCategories |-> fs[c]], NEW w, w.category \in AllCategories,
           NEW c \in AllCategories
    PROVE  /\ w.category # c => Put(fs, w)[c] = fs[c]
           /\ \A x \in Put(fs, w)[c] : x \in fs[c] \/ (w.category = c /\ x \in w.items)
<1>1. PICK S, T : S = fs[c] /\ T = Put(fs, w)[c]
  OBVIOUS
<1>2. T = IF c = w.category THEN Replacing(c, S, w.items) ELSE S
  BY <1>1, PutIs
<1>3. CASE c # w.category
  BY <1>1, <1>2, <1>3
<1>4. CASE c = w.category
  <2>1. \A x \in T : x \in S \/ x \in w.items
    BY <1>2, <1>4 DEF Replacing
  <2>2. QED
    BY <1>1, <1>4, <2>1
<1>5. QED
  BY <1>3, <1>4

(* Without writes left, owed is on file.                                   *)
LEMMA OwedNothing ==
    ASSUME NEW fs, NEW c, NEW k, NEW y
    PROVE  Owed(fs, <<>>, c, k, y) <=> Kept(fs, c, k, y)
BY TupleHas DEF Owed, Kept

Outside(part, c, k) ==
    \/ c \notin Area(part)
    \/ c = "gates" /\ k[1] \notin GateNames(part)
    \/ c = "outcomes" /\ k[1] # Workflow(part)

(* A part does not touch what is filed outside its area.                   *)
LEMMA OwedElse ==
    ASSUME NEW fs, fs = [c \in AllCategories |-> fs[c]], NEW part \in Part, NEW w, InScope(part, w),
           NEW c \in AllCategories, NEW k, NEW y, Outside(part, c, k),
           Owed(fs, <<>>, c, k, y)
    PROVE  Owed(Put(fs, w), <<>>, c, k, y)
<1>1. w.category \in AllCategories
  BY AreaIs DEF InScope
<1>2. ASSUME w.category = c, NEW x \in w.items PROVE Key(c, x) # k
  <2>1. c \in Area(part)
    BY <1>2 DEF InScope
  <2>2. CASE c = "gates" /\ k[1] \notin GateNames(part)
    <3>1. x.name \in GateNames(part)
      BY <1>2, <2>2 DEF InScope
    <3>2. Key(c, x) = <<x.name, x.target>>
      BY <2>2 DEF Key, GateKeyed
    <3>3. QED
      BY <2>2, <3>1, <3>2
  <2>3. CASE c = "outcomes" /\ k[1] # Workflow(part)
    <3>1. x.id[1] = Workflow(part)
      BY <1>2, <2>3 DEF InScope
    <3>2. Key(c, x) = x.id
      BY <2>3 DEF Key
    <3>3. QED
      BY <2>3, <3>1, <3>2
  <2>4. QED
    BY <2>1, <2>2, <2>3 DEF Outside
<1>3. Kept(fs, c, k, y)
  BY OwedNothing
<1>4. Kept(Put(fs, w), c, k, y)
  BY <1>1, <1>2, <1>3, KeptElse
<1>5. QED
  BY <1>4, OwedNothing

-----------------------------------------------------------------------------
(* What the files say of the evidence of a company.                        *)

SameEvidence(fs, gs) == \A c \in Categories : gs[c] = fs[c]

(* Companies and identifiers come from the evidence alone.                 *)
LEMMA EvidenceSame ==
    ASSUME NEW fs, NEW gs, SameEvidence(fs, gs)
    PROVE  /\ \A firm : BriefId(gs, firm) = BriefId(fs, firm)
           /\ ResearchCompanies(gs) = ResearchCompanies(fs)
<1>1. \A firm : EvidenceOf(gs, firm) = EvidenceOf(fs, firm)
  BY DEF SameEvidence, EvidenceOf
<1>2. ResearchCompanies(gs) = ResearchCompanies(fs)
  BY DEF SameEvidence, ResearchCompanies
<1>3. QED
  BY <1>1, <1>2 DEF BriefId

-----------------------------------------------------------------------------
(* The shelf: the documents are of kinds that are read, a document that a  *)
(* gate refused is one that this run may replace, and the briefs of one    *)
(* company and day are one.                                                *)

KindsOK(fs) == \A d \in fs["documents"] : d.kind \in DocumentKind
RefusedOK(fs, names) ==
    \A g \in fs["gates"] : \A d \in fs["documents"] :
        g.name = "ingestion_normalization" /\ g.target = d.id /\ Refused(g) => g.target \in names
YesterdaysOK(fs) ==
    \A a, b \in fs["research_briefs"] : a.created = 1 /\ b.created = 1 => a.id = b.id
TodaysOK(fs) ==
    \A b \in fs["research_briefs"] : b.created = Today => b.id = BriefId(fs, b.company)
NoneToday(fs) == \A b \in fs["research_briefs"] : b.created # Today

(* The latest brief is a brief, and none is later.                         *)
LEMMA LatestLast ==
    ASSUME NEW fs, FilesOK(fs), NEW firm, NEW S, S = Of(fs.research_briefs, firm), S # {},
           NEW last, last = Latest(S)
    PROVE  last \in S /\ \A b \in S : b.created \in {1, 2} /\ b.created <= last.created
<1>1. S \subseteq fs["research_briefs"]
  BY DEF Of
<1>2. \A b \in S : b.created \in {1, 2}
  <2>1. "research_briefs" \in AllCategories
    BY DEF AllCategories
  <2>2. \A b \in S : Rests(FactsIn(fs), "research_briefs", b)
    BY <1>1, <2>1, FilesDue
  <2>3. QED
    BY <2>2 DEF Rests, BriefOK, Today
<1>3. \E a \in S : \A b \in S : b.created <= a.created
  <2>1. CASE \E a \in S : a.created = 2
    BY <1>2, <2>1
  <2>2. CASE ~ \E a \in S : a.created = 2
    BY <1>2, <2>2
  <2>3. QED
    BY <2>1, <2>2
<1>4. last \in S /\ \A b \in S : b.created <= last.created
  BY <1>3 DEF Latest
<1>5. QED
  BY <1>2, <1>4

(* A rejection does not change which brief is the latest.                  *)
LEMMA LatestSame ==
    ASSUME NEW fs, FilesOK(fs), NEW gs, FilesOK(gs), SameFiles(fs, gs), YesterdaysOK(fs), TodaysOK(fs),
           NEW firm, NEW S, S = Of(fs.research_briefs, firm), S # {},
           NEW T, T = Of(gs.research_briefs, firm)
    PROVE  /\ T # {} /\ Latest(T).id = Latest(S).id /\ Latest(T).created = Latest(S).created
           /\ Latest(T).hypothesis = Latest(S).hypothesis
<1>1. /\ \A a \in S : \E b \in T : SameBrief(a, b)
      /\ \A b \in T : \E a \in S : SameBrief(a, b)
  <2>1. /\ \A a \in fs["research_briefs"] : \E b \in gs["research_briefs"] : SameBrief(a, b)
        /\ \A b \in gs["research_briefs"] : \E a \in fs["research_briefs"] : SameBrief(a, b)
    BY DEF SameFiles
  <2>2. ASSUME NEW a \in S PROVE \E b \in T : SameBrief(a, b)
    <3>1. a \in fs["research_briefs"] /\ a.company = firm
      BY DEF Of
    <3>2. PICK b \in gs["research_briefs"] : SameBrief(a, b)
      BY <2>1, <3>1
    <3>3. b \in T
      BY <3>1, <3>2 DEF SameBrief, Of
    <3>4. QED
      BY <3>2, <3>3
  <2>3. ASSUME NEW b \in T PROVE \E a \in S : SameBrief(a, b)
    <3>1. b \in gs["research_briefs"] /\ b.company = firm
      BY DEF Of
    <3>2. PICK a \in fs["research_briefs"] : SameBrief(a, b)
      BY <2>1, <3>1
    <3>3. a \in S
      BY <3>1, <3>2 DEF SameBrief, Of
    <3>4. QED
      BY <3>2, <3>3
  <2>4. QED
    BY <2>2, <2>3
<1>2. T # {}
  BY <1>1
<1>3. PICK a, b : a = Latest(S) /\ b = Latest(T)
  OBVIOUS
<1>4. a \in S /\ \A x \in S : x.created \in {1, 2} /\ x.created <= a.created
  BY <1>3, LatestLast
<1>5. b \in T /\ \A x \in T : x.created \in {1, 2} /\ x.created <= b.created
  BY <1>2, <1>3, LatestLast
<1>6. PICK x \in S : SameBrief(x, b)
  BY <1>1, <1>5
<1>7. PICK y \in T : SameBrief(a, y)
  BY <1>1, <1>4
<1>8. x.created = a.created
  <2>1. x.created <= a.created /\ x.created = b.created /\ y.created <= b.created
        /\ y.created = a.created
    BY <1>4, <1>5, <1>6, <1>7 DEF SameBrief
  <2>2. x.created \in {1, 2} /\ a.created \in {1, 2}
    BY <1>4
  <2>3. QED
    BY <2>1, <2>2
<1>9. x.id = a.id
  <2>1. x \in fs["research_briefs"] /\ a \in fs["research_briefs"] /\ x.company = firm /\ a.company = firm
    BY <1>4 DEF Of
  <2>2. CASE a.created = 1
    BY <1>8, <2>1, <2>2 DEF YesterdaysOK
  <2>3. CASE a.created = 2
    <3>1. x.id = BriefId(fs, x.company) /\ a.id = BriefId(fs, a.company)
      BY <1>8, <2>1, <2>3 DEF TodaysOK, Today
    <3>2. QED
      BY <2>1, <3>1
  <2>4. QED
    BY <1>4, <2>2, <2>3
<1>10. x.hypothesis = a.hypothesis
  <2>1. "research_briefs" \in AllCategories
    BY DEF AllCategories
  <2>2. x \in fs["research_briefs"] /\ a \in fs["research_briefs"]
    BY <1>4 DEF Of
  <2>3. Rests(FactsIn(fs), "research_briefs", x) /\ Rests(FactsIn(fs), "research_briefs", a)
    BY <2>1, <2>2, FilesDue
  <2>4. QED
    BY <1>9, <2>3 DEF Rests, BriefOK
<1>11. QED
  BY <1>2, <1>3, <1>6, <1>8, <1>9, <1>10 DEF SameBrief

-----------------------------------------------------------------------------
(* What each part owes, and keeps once it is done.                         *)

LatestBrief(fs, c) == Latest(Of(fs.research_briefs, c))

Ingests(fs, writes, fixtures) ==
    \A f \in fixtures : Owed(fs, writes, "gates", <<"ingestion_normalization", f.name>>, None)
ExtractsAll(fs, writes) == \A d \in fs["documents"] : Extracts(fs, writes, d)
MapsLatest(fs, writes, c) ==
    Of(fs.research_briefs, c) # {} /\ Maps(fs, writes, c, LatestBrief(fs, c))
GeneratesLatest(fs, writes, c) ==
    /\ MapsLatest(fs, <<>>, c)
    /\ \E ids : /\ Generates(fs, writes, c, LatestBrief(fs, c), ids)
                /\ \A n \in FeatureName : FeatureKey(c, n, LatestBrief(fs, c)) \in ids

Categorized ==
    {"gates", "outcomes", "evidence_spans", "evidence_assessments", "research_briefs", "features",
     "signals", "documents"}
(* The categories in which something is owed.                              *)
LEMMA CategorizedAre == Categorized \subseteq AllCategories
BY DEF Categorized, AllCategories

(* A part that writes on.                                                  *)
Heads(fs, part, writes) ==
    /\ fs = [c \in AllCategories |-> fs[c]] /\ IsSequence(writes) /\ writes # <<>>
    /\ part \in Part /\ InScope(part, Head(writes))

(* A write that is done is one less owed.                                  *)
LEMMA HeadIsFiled ==
    ASSUME NEW fs, NEW part, NEW writes, Heads(fs, part, writes)
    PROVE  /\ Head(writes).category \in AllCategories
           /\ \A c \in Categorized : \A k, y :
                Owed(fs, writes, c, k, y) => Owed(Put(fs, Head(writes)), Tail(writes), c, k, y)
           /\ \A c \in Categorized : c \notin Area(part) => Put(fs, Head(writes))[c] = fs[c]
<1>1. Head(writes).category \in AllCategories /\ Head(writes).category \in Area(part)
  BY AreaIs DEF Heads, InScope
<1>2. ASSUME NEW c \in Categorized, NEW k, NEW y, Owed(fs, writes, c, k, y)
      PROVE  Owed(Put(fs, Head(writes)), Tail(writes), c, k, y)
  BY <1>1, <1>2, CategorizedAre, OwedWrite DEF Heads
<1>3. ASSUME NEW c \in Categorized, c \notin Area(part) PROVE Put(fs, Head(writes))[c] = fs[c]
  BY <1>1, <1>3, CategorizedAre, PutHas DEF Heads
<1>4. QED
  BY <1>1, <1>2, <1>3

(* The ingestion.                                                          *)
LEMMA IngestsOn ==
    ASSUME NEW fs, NEW writes, Heads(fs, "ingest", writes), NEW fixtures, Ingests(fs, writes, fixtures),
           NEW gs, NEW rest, gs = Put(fs, Head(writes)), rest = Tail(writes)
    PROVE  Ingests(gs, rest, fixtures)
<1>1. "gates" \in Categorized
  BY DEF Categorized
<1>2. QED
  BY <1>1, HeadIsFiled DEF Ingests

(* The extraction: it files no documents.                                  *)
LEMMA ExtractsOn ==
    ASSUME NEW fs, NEW writes, Heads(fs, "parse", writes), ExtractsAll(fs, writes),
           NEW gs, NEW rest, gs = Put(fs, Head(writes)), rest = Tail(writes)
    PROVE  ExtractsAll(gs, rest)
<1>1. {"gates", "outcomes", "evidence_spans", "documents"} \subseteq Categorized
      /\ "documents" \notin Area("parse")
  BY DEF Categorized, Area, Categories
<1>2. gs["documents"] = fs["documents"]
  BY <1>1, HeadIsFiled
<1>3. ASSUME NEW d \in fs["documents"] PROVE Extracts(gs, rest, d)
  <2>1. Extracts(fs, writes, d)
    BY DEF ExtractsAll
  <2>2. \A c \in {"gates", "outcomes", "evidence_spans"} : \A k, y :
            Owed(fs, writes, c, k, y) => Owed(gs, rest, c, k, y)
    BY <1>1, HeadIsFiled
  <2>3. QED
    BY <2>1, <2>2 DEF Extracts
<1>4. QED
  BY <1>2, <1>3 DEF ExtractsAll

(* The research.                                                           *)
LEMMA ResearchesOn ==
    ASSUME NEW fs, NEW writes, Heads(fs, "research", writes), NEW c, Researches(fs, writes, c, Today),
           NEW gs, NEW rest, gs = Put(fs, Head(writes)), rest = Tail(writes)
    PROVE  Researches(gs, rest, c, Today)
<1>1. {"outcomes", "evidence_assessments", "research_briefs"} \subseteq Categorized
  BY DEF Categorized
<1>2. \A x \in {"outcomes", "evidence_assessments", "research_briefs"} : \A k, y :
          Owed(fs, writes, x, k, y) => Owed(gs, rest, x, k, y)
  BY <1>1, HeadIsFiled
<1>3. QED
  BY <1>2 DEF Researches

(* The mapping: it files no briefs.                                        *)
LEMMA MapsOn ==
    ASSUME NEW fs, NEW writes, Heads(fs, "features", writes), NEW c, MapsLatest(fs, writes, c),
           NEW gs, NEW rest, gs = Put(fs, Head(writes)), rest = Tail(writes)
    PROVE  MapsLatest(gs, rest, c)
<1>1. {"features", "research_briefs"} \subseteq Categorized /\ "research_briefs" \notin Area("features")
  BY DEF Categorized, Area
<1>2. gs["research_briefs"] = fs["research_briefs"]
  BY <1>1, HeadIsFiled
<1>3. LatestBrief(gs, c) = LatestBrief(fs, c) /\ Of(gs.research_briefs, c) = Of(fs.research_briefs, c)
  BY <1>2 DEF LatestBrief
<1>4. \A k, y : Owed(fs, writes, "features", k, y) => Owed(gs, rest, "features", k, y)
  BY <1>1, HeadIsFiled
<1>5. PICK brief : brief = LatestBrief(fs, c)
  OBVIOUS
<1>6. Maps(gs, rest, c, brief)
  BY <1>4, <1>5 DEF MapsLatest, Maps
<1>7. QED
  BY <1>3, <1>5, <1>6 DEF MapsLatest

(* The generation: it files neither briefs nor features.                   *)
LEMMA GeneratesOn ==
    ASSUME NEW fs, NEW writes, Heads(fs, "signals", writes), NEW c, GeneratesLatest(fs, writes, c),
           NEW gs, NEW rest, gs = Put(fs, Head(writes)), rest = Tail(writes)
    PROVE  GeneratesLatest(gs, rest, c)
<1>1. {"features", "research_briefs", "signals"} \subseteq Categorized
      /\ {"research_briefs", "features"} \cap Area("signals") = {}
  BY DEF Categorized, Area
<1>2. gs["research_briefs"] = fs["research_briefs"] /\ gs["features"] = fs["features"]
  BY <1>1, HeadIsFiled
<1>3. LatestBrief(gs, c) = LatestBrief(fs, c) /\ Of(gs.research_briefs, c) = Of(fs.research_briefs, c)
  BY <1>2 DEF LatestBrief
<1>4. \A k, y : Owed(fs, writes, "signals", k, y) => Owed(gs, rest, "signals", k, y)
  BY <1>1, HeadIsFiled
<1>5. PICK brief : brief = LatestBrief(fs, c)
  OBVIOUS
<1>6. Maps(gs, <<>>, c, brief)
  <2>1. \A k, y : Owed(fs, <<>>, "features", k, y) => Owed(gs, <<>>, "features", k, y)
    BY <1>2, OwedNothing DEF Kept
  <2>2. Maps(fs, <<>>, c, brief)
    BY <1>5 DEF GeneratesLatest, MapsLatest
  <2>3. QED
    BY <2>1, <2>2 DEF Maps
<1>7. PICK ids : /\ Generates(fs, writes, c, brief, ids)
                 /\ \A n \in FeatureName : FeatureKey(c, n, brief) \in ids
  BY <1>5 DEF GeneratesLatest
<1>8. Generates(gs, rest, c, brief, ids)
  BY <1>4, <1>7 DEF Generates
<1>9. MapsLatest(gs, <<>>, c)
  <2>1. Of(gs.research_briefs, c) # {}
    BY <1>3 DEF GeneratesLatest, MapsLatest
  <2>2. QED
    BY <1>3, <1>5, <1>6, <2>1 DEF MapsLatest
<1>10. QED
  BY <1>3, <1>5, <1>7, <1>8, <1>9 DEF GeneratesLatest

-----------------------------------------------------------------------------
(* The work of a later part.                                               *)

(* What the ingestion owed.                                                *)
LEMMA IngestsElse ==
    ASSUME NEW fs, fs = [c \in AllCategories |-> fs[c]], NEW fixtures, Ingests(fs, <<>>, fixtures),
           NEW part \in {"parse", "research", "features", "signals"}, NEW w, InScope(part, w)
    PROVE  Ingests(Put(fs, w), <<>>, fixtures)
<1>1. part \in Part /\ "gates" \in AllCategories /\ "ingestion_normalization" \notin GateNames(part)
  BY DEF Part, AllCategories, GateNames
<1>2. ASSUME NEW f \in fixtures
      PROVE  Owed(Put(fs, w), <<>>, "gates", <<"ingestion_normalization", f.name>>, None)
  <2>1. PICK k : k = <<"ingestion_normalization", f.name>>
    OBVIOUS
  <2>2. Outside(part, "gates", k)
    BY <1>1, <2>1 DEF Outside
  <2>3. Owed(fs, <<>>, "gates", k, None)
    BY <2>1 DEF Ingests
  <2>4. Owed(Put(fs, w), <<>>, "gates", k, None)
    BY <1>1, <2>2, <2>3, OwedElse
  <2>5. QED
    BY <2>1, <2>4
<1>3. QED
  BY <1>2 DEF Ingests

(* What the extraction owed.                                               *)
LEMMA ExtractsElse ==
    ASSUME NEW fs, fs = [c \in AllCategories |-> fs[c]], ExtractsAll(fs, <<>>),
           NEW part \in {"research", "features", "signals"}, NEW w, InScope(part, w)
    PROVE  ExtractsAll(Put(fs, w), <<>>)
<1>1. /\ part \in Part /\ {"gates", "outcomes", "evidence_spans", "documents"} \subseteq AllCategories
      /\ {"parsing_inputs", "evidence_bundle"} \cap GateNames(part) = {}
      /\ Workflow(part) # "evidence_extraction"
      /\ {"evidence_spans", "documents"} \cap Area(part) = {}
  BY DEF Part, AllCategories, GateNames, Workflow, Area
<1>2. Put(fs, w)["documents"] = fs["documents"]
  <2>1. w.category \in AllCategories /\ w.category # "documents"
    BY <1>1, AreaIs DEF InScope
  <2>2. QED
    BY <1>1, <2>1, PutHas
<1>3. ASSUME NEW d \in fs["documents"] PROVE Extracts(Put(fs, w), <<>>, d)
  <2>1. Extracts(fs, <<>>, d)
    BY DEF ExtractsAll
  <2>2. PICK a, b, o : /\ a = <<"parsing_inputs", d.id>> /\ b = <<"evidence_bundle", d.id>>
                       /\ o = <<"evidence_extraction", d.id>>
    OBVIOUS
  <2>3. PICK k : k[1][1] = d.id /\ Owed(fs, <<>>, "evidence_spans", k, None)
    BY <2>1 DEF Extracts
  <2>4. /\ Outside(part, "gates", a) /\ Outside(part, "gates", b)
        /\ Outside(part, "outcomes", o) /\ Outside(part, "evidence_spans", k)
    BY <1>1, <2>2 DEF Outside
  <2>5. Owed(Put(fs, w), <<>>, "gates", a, None)
    <3>1. Owed(fs, <<>>, "gates", a, None)
      BY <2>1, <2>2 DEF Extracts
    <3>2. QED
      BY <1>1, <2>4, <3>1, OwedElse
  <2>6. Owed(Put(fs, w), <<>>, "gates", b, None)
    <3>1. Owed(fs, <<>>, "gates", b, None)
      BY <2>1, <2>2 DEF Extracts
    <3>2. QED
      BY <1>1, <2>4, <3>1, OwedElse
  <2>7. Owed(Put(fs, w), <<>>, "outcomes", o, "succeeded")
    <3>1. Owed(fs, <<>>, "outcomes", o, "succeeded")
      BY <2>1, <2>2 DEF Extracts
    <3>2. QED
      BY <1>1, <2>4, <3>1, OwedElse
  <2>8. Owed(Put(fs, w), <<>>, "evidence_spans", k, None)
    BY <1>1, <2>3, <2>4, OwedElse
  <2>9. QED
    BY <2>2, <2>3, <2>5, <2>6, <2>7, <2>8 DEF Extracts
<1>4. QED
  BY <1>2, <1>3 DEF ExtractsAll

(* What the research owed.                                                 *)
LEMMA ResearchesElse ==
    ASSUME NEW fs, fs = [c \in AllCategories |-> fs[c]], NEW firm, Researches(fs, <<>>, firm, Today),
           NEW part \in {"features", "signals"}, NEW w, InScope(part, w)
    PROVE  Researches(Put(fs, w), <<>>, firm, Today)
<1>1. /\ part \in Part
      /\ {"outcomes", "evidence_assessments", "research_briefs"} \subseteq AllCategories
      /\ Workflow(part) # "research_workflow"
      /\ {"evidence_assessments", "research_briefs"} \cap Area(part) = {}
  BY DEF Part, AllCategories, Workflow, Area
<1>2. \A c \in {"evidence_assessments", "research_briefs"} : \A k, y :
          Owed(fs, <<>>, c, k, y) => Owed(Put(fs, w), <<>>, c, k, y)
  <2>1. \A c \in {"evidence_assessments", "research_briefs"} : \A k : Outside(part, c, k)
    BY <1>1 DEF Outside
  <2>2. QED
    BY <1>1, <2>1, OwedElse
<1>3. PICK o : o = <<"research_workflow", firm>>
  OBVIOUS
<1>4. \A y : Owed(fs, <<>>, "outcomes", o, y) => Owed(Put(fs, w), <<>>, "outcomes", o, y)
  <2>1. Outside(part, "outcomes", o)
    BY <1>1, <1>3 DEF Outside
  <2>2. QED
    BY <1>1, <2>1, OwedElse
<1>5. QED
  BY <1>2, <1>3, <1>4 DEF Researches

-----------------------------------------------------------------------------
(* A rejection takes nothing of this back.                                 *)

(* Other categories are the same.                                          *)
LEMMA PlainSame ==
    ASSUME NEW fs, NEW gs, SameFiles(fs, gs)
    PROVE  /\ \A c \in AllCategories \ {"research_briefs"} : gs[c] = fs[c]
           /\ SameEvidence(fs, gs)
BY DEF SameFiles, SameEvidence, Categories, AllCategories

(* Not of the ingestion,                                                   *)
LEMMA IngestsSame ==
    ASSUME NEW fs, NEW gs, SameFiles(fs, gs), NEW writes, NEW fixtures, Ingests(fs, writes, fixtures)
    PROVE  Ingests(gs, writes, fixtures)
<1>1. "gates" \in AllCategories
  BY DEF AllCategories
<1>2. QED
  BY <1>1, SameOwed DEF Ingests

(* of the extraction,                                                      *)
LEMMA ExtractsSame ==
    ASSUME NEW fs, NEW gs, SameFiles(fs, gs), NEW writes, ExtractsAll(fs, writes)
    PROVE  ExtractsAll(gs, writes)
<1>1. {"gates", "outcomes", "evidence_spans"} \subseteq AllCategories
      /\ "documents" \in AllCategories \ {"research_briefs"}
  BY DEF AllCategories
<1>2. gs["documents"] = fs["documents"]
  BY <1>1, PlainSame
<1>3. \A c \in {"gates", "outcomes", "evidence_spans"} : \A k, y :
          Owed(fs, writes, c, k, y) => Owed(gs, writes, c, k, y)
  BY <1>1, SameOwed
<1>4. ASSUME NEW d \in fs["documents"] PROVE Extracts(gs, writes, d)
  <2>1. Extracts(fs, writes, d)
    BY DEF ExtractsAll
  <2>2. QED
    BY <1>3, <2>1 DEF Extracts
<1>5. QED
  BY <1>2, <1>4 DEF ExtractsAll

(* of the research,                                                        *)
LEMMA ResearchesSame ==
    ASSUME NEW fs, NEW gs, SameFiles(fs, gs), NEW writes, NEW c, Researches(fs, writes, c, Today)
    PROVE  Researches(gs, writes, c, Today)
<1>1. {"outcomes", "evidence_assessments", "research_briefs"} \subseteq AllCategories
  BY DEF AllCategories
<1>2. \A x \in {"outcomes", "evidence_assessments", "research_briefs"} : \A k, y :
          Owed(fs, writes, x, k, y) => Owed(gs, writes, x, k, y)
  BY <1>1, SameOwed
<1>3. QED
  BY <1>2 DEF Researches

(* of the mapping                                                          *)
LEMMA MapsSame ==
    ASSUME NEW fs, NEW gs, SameFiles(fs, gs), FilesOK(fs), FilesOK(gs), YesterdaysOK(fs), TodaysOK(fs),
           NEW writes, NEW c, MapsLatest(fs, writes, c)
    PROVE  MapsLatest(gs, writes, c)
<1>1. "features" \in AllCategories
  BY DEF AllCategories
<1>2. PICK S, T : S = Of(fs.research_briefs, c) /\ T = Of(gs.research_briefs, c)
  OBVIOUS
<1>3. S # {}
  BY <1>2 DEF MapsLatest
<1>4. T # {} /\ Latest(T).id = Latest(S).id /\ Latest(T).created = Latest(S).created
  BY <1>2, <1>3, LatestSame
<1>5. PICK a, b : a = Latest(S) /\ b = Latest(T)
  OBVIOUS
<1>6. Maps(fs, writes, c, a)
  BY <1>2, <1>5 DEF MapsLatest, LatestBrief
<1>7. Maps(gs, writes, c, b)
  <2>1. \A k, y : Owed(fs, writes, "features", k, y) => Owed(gs, writes, "features", k, y)
    BY <1>1, SameOwed
  <2>2. b.id = a.id /\ b.created = a.created
    BY <1>4, <1>5
  <2>3. ASSUME NEW n \in FeatureName
        PROVE  Owed(gs, writes, "features", FeatureKey(c, n, b), [brief |-> b.id, company |-> c])
    <3>1. FeatureKey(c, n, b) = FeatureKey(c, n, a)
          /\ [brief |-> b.id, company |-> c] = [brief |-> a.id, company |-> c]
      BY <2>2 DEF FeatureKey
    <3>2. Owed(fs, writes, "features", FeatureKey(c, n, a), [brief |-> a.id, company |-> c])
      BY <1>6 DEF Maps
    <3>3. QED
      BY <2>1, <3>1, <3>2
  <2>4. QED
    BY <2>3 DEF Maps
<1>8. QED
  BY <1>2, <1>4, <1>5, <1>7 DEF MapsLatest, LatestBrief

(* or of the generation.                                                   *)
LEMMA GeneratesSame ==
    ASSUME NEW fs, NEW gs, SameFiles(fs, gs), FilesOK(fs), FilesOK(gs), YesterdaysOK(fs), TodaysOK(fs),
           NEW writes, NEW c, GeneratesLatest(fs, writes, c)
    PROVE  GeneratesLatest(gs, writes, c)
<1>1. "signals" \in AllCategories
  BY DEF AllCategories
<1>2. MapsLatest(fs, <<>>, c)
  BY DEF GeneratesLatest
<1>3. MapsLatest(gs, <<>>, c)
  BY <1>2, MapsSame
<1>4. PICK S, T : S = Of(fs.research_briefs, c) /\ T = Of(gs.research_briefs, c)
  OBVIOUS
<1>5. S # {}
  BY <1>2, <1>4 DEF MapsLatest
<1>6. /\ Latest(T).id = Latest(S).id /\ Latest(T).created = Latest(S).created
      /\ Latest(T).hypothesis = Latest(S).hypothesis
  BY <1>4, <1>5, LatestSame
<1>7. PICK a, b : a = LatestBrief(fs, c) /\ b = LatestBrief(gs, c)
  OBVIOUS
<1>8. b.created = a.created /\ b.hypothesis = a.hypothesis
  BY <1>4, <1>6, <1>7 DEF LatestBrief
<1>9. PICK ids : Generates(fs, writes, c, a, ids) /\ \A n \in FeatureName : FeatureKey(c, n, a) \in ids
  BY <1>7 DEF GeneratesLatest
<1>10. \A k, y : Owed(fs, writes, "signals", k, y) => Owed(gs, writes, "signals", k, y)
  BY <1>1, SameOwed
<1>11. Generates(gs, writes, c, b, ids)
  BY <1>8, <1>9, <1>10 DEF Generates
<1>12. \A n \in FeatureName : FeatureKey(c, n, b) \in ids
  BY <1>8, <1>9 DEF FeatureKey
<1>13. QED
  BY <1>3, <1>7, <1>11, <1>12 DEF GeneratesLatest

(* The companies are the same.                                             *)
LEMMA CompaniesSame ==
    ASSUME NEW fs, NEW gs, SameFiles(fs, gs)
    PROVE  /\ ResearchCompanies(gs) = ResearchCompanies(fs)
           /\ ResearchedCompanies(gs) = ResearchedCompanies(fs)
<1>1. ResearchCompanies(gs) = ResearchCompanies(fs)
  BY PlainSame, EvidenceSame
<1>2. gs["evidence_assessments"] = fs["evidence_assessments"]
  <2>1. "evidence_assessments" \in AllCategories \ {"research_briefs"}
    BY DEF AllCategories
  <2>2. QED
    BY <2>1, PlainSame
<1>3. ASSUME NEW x
      PROVE  x \in ResearchedCompanies(gs) <=> x \in ResearchedCompanies(fs)
  <2>1. /\ \A a \in fs["research_briefs"] : \E b \in gs["research_briefs"] : a.company = b.company
        /\ \A b \in gs["research_briefs"] : \E a \in fs["research_briefs"] : a.company = b.company
    BY DEF SameFiles, SameBrief
  <2>2. QED
    BY <1>2, <2>1 DEF ResearchedCompanies
<1>4. ResearchedCompanies(gs) = ResearchedCompanies(fs)
  BY <1>3
<1>5. QED
  BY <1>1, <1>4

-----------------------------------------------------------------------------
(* The shelf stays in order.                                               *)

ShelfOK(fs, names) == KindsOK(fs) /\ RefusedOK(fs, names) /\ YesterdaysOK(fs) /\ TodaysOK(fs)

(* A rejection keeps the shelf in order ...                                *)
LEMMA ShelfSame ==
    ASSUME NEW fs, NEW gs, SameFiles(fs, gs), NEW names, ShelfOK(fs, names)
    PROVE  ShelfOK(gs, names) /\ (NoneToday(fs) => NoneToday(gs))
<1>1. gs["documents"] = fs["documents"] /\ gs["gates"] = fs["gates"]
  <2>1. {"documents", "gates"} \subseteq AllCategories \ {"research_briefs"}
    BY DEF AllCategories
  <2>2. QED
    BY <2>1, PlainSame
<1>2. KindsOK(gs) /\ RefusedOK(gs, names)
  BY <1>1 DEF ShelfOK, KindsOK, RefusedOK
<1>3. \A b \in gs["research_briefs"] : \E a \in fs["research_briefs"] : SameBrief(a, b)
  BY DEF SameFiles
<1>4. YesterdaysOK(gs)
  BY <1>3 DEF ShelfOK, YesterdaysOK, SameBrief
<1>5. TodaysOK(gs)
  <2>1. \A firm : BriefId(gs, firm) = BriefId(fs, firm)
    BY PlainSame, EvidenceSame
  <2>2. QED
    BY <1>3, <2>1 DEF ShelfOK, TodaysOK, SameBrief
<1>6. NoneToday(fs) => NoneToday(gs)
  BY <1>3 DEF NoneToday, SameBrief
<1>7. QED
  BY <1>2, <1>4, <1>5, <1>6 DEF ShelfOK

(* What a part may write to keep it so.                                    *)
Orderly(fs, part, fixtures, w) ==
    /\ InScope(part, w)
    /\ part = "ingest" => IngestWrite(fixtures, w)
    /\ part = "parse" => NoneToday(fs)
    /\ part = "research" => \E firm : BriefsOf(w, firm, Today, BriefId(fs, firm))

(* ... and so does such a write.                                           *)
LEMMA ShelfPut ==
    ASSUME NEW fs, fs = [c \in AllCategories |-> fs[c]], NEW fixtures,
           NEW names, names = {f.name : f \in fixtures}, ShelfOK(fs, names),
           NEW part \in Part, NEW w, Orderly(fs, part, fixtures, w),
           NEW gs, gs = Put(fs, w)
    PROVE  ShelfOK(gs, names) /\ (NoneToday(fs) /\ part # "research" => NoneToday(gs))
<1>1. w.category \in AllCategories
  BY AreaIs DEF Orderly, InScope
<1>2. \A c \in AllCategories :
        /\ w.category # c => gs[c] = fs[c]
        /\ \A x \in gs[c] : x \in fs[c] \/ (w.category = c /\ x \in w.items)
  BY <1>1, PutHas
<1>3. {"documents", "gates", "research_briefs"} \subseteq AllCategories /\ Categories \subseteq AllCategories
  BY DEF AllCategories, Categories
<1>4. \A d \in gs["documents"] : d \in fs["documents"] \/ (w.category = "documents" /\ d \in w.items)
  BY <1>2, <1>3
<1>5. \A g \in gs["gates"] : g \in fs["gates"] \/ (w.category = "gates" /\ g \in w.items)
  BY <1>2, <1>3
<1>6. \A b \in gs["research_briefs"] :
        b \in fs["research_briefs"] \/ (w.category = "research_briefs" /\ b \in w.items)
  BY <1>2, <1>3
<1>7. ASSUME w.category = "documents", NEW d \in w.items
      PROVE  d.kind \in DocumentKind /\ d.id \in names
  <2>1. part = "ingest"
    BY <1>7 DEF Orderly, InScope, Part, Area, Categories
  <2>2. IngestWrite(fixtures, w)
    BY <2>1 DEF Orderly
  <2>3. QED
    BY <1>7, <2>2 DEF IngestWrite
<1>8. ASSUME w.category = "gates", NEW g \in w.items, g.name = "ingestion_normalization"
      PROVE  g.target \in names
  <2>1. part = "ingest"
    <3>1. g.name \in GateNames(part)
      BY <1>8 DEF Orderly, InScope
    <3>2. QED
      BY <1>8, <3>1 DEF Part, GateNames
  <2>2. IngestWrite(fixtures, w)
    BY <2>1 DEF Orderly
  <2>3. PICK f \in fixtures : g = IngestGate(f)
    BY <1>8, <2>2 DEF IngestWrite
  <2>4. g.target = f.name
    BY <2>3, IngestionGate
  <2>5. QED
    BY <2>4
<1>9. ASSUME w.category = "research_briefs", NEW b \in w.items
      PROVE  part = "research" /\ b.created = Today /\ b.id = BriefId(fs, b.company)
  <2>1. part = "research"
    BY <1>9 DEF Orderly, InScope, Part, Area, Categories
  <2>2. PICK firm : BriefsOf(w, firm, Today, BriefId(fs, firm))
    BY <2>1 DEF Orderly
  <2>3. b.company = firm /\ b.created = Today /\ b.id = BriefId(fs, firm)
    BY <1>9, <2>2 DEF BriefsOf
  <2>4. QED
    BY <2>1, <2>3
<1>10. KindsOK(gs)
  BY <1>4, <1>7 DEF ShelfOK, KindsOK
<1>11. RefusedOK(gs, names)
  <2>1. ASSUME NEW g \in gs["gates"], NEW d \in gs["documents"], g.name = "ingestion_normalization",
               g.target = d.id, Refused(g)
        PROVE  g.target \in names
    BY <1>4, <1>5, <1>7, <1>8, <2>1 DEF ShelfOK, RefusedOK
  <2>2. QED
    BY <2>1 DEF RefusedOK
<1>12. YesterdaysOK(gs)
  <2>1. \A b \in gs["research_briefs"] : b.created = 1 => b \in fs["research_briefs"]
    BY <1>6, <1>9 DEF Today
  <2>2. QED
    BY <2>1 DEF ShelfOK, YesterdaysOK
<1>13. part \notin {"parse"} => \A firm : BriefId(gs, firm) = BriefId(fs, firm)
  <2>1. SUFFICES ASSUME part # "parse" PROVE \A firm : BriefId(gs, firm) = BriefId(fs, firm)
    OBVIOUS
  <2>2. w.category \notin Categories
    BY <2>1 DEF Orderly, InScope, Part, Area, Categories
  <2>3. SameEvidence(fs, gs)
    BY <1>2, <1>3, <2>2 DEF SameEvidence
  <2>4. QED
    BY <2>3, EvidenceSame
<1>14. NoneToday(fs) /\ part # "research" => NoneToday(gs)
  BY <1>6, <1>9 DEF NoneToday
<1>15. TodaysOK(gs)
  <2>1. CASE part = "parse"
    <3>1. NoneToday(gs)
      BY <1>14, <2>1 DEF Orderly
    <3>2. QED
      BY <3>1 DEF NoneToday, TodaysOK
  <2>2. CASE part # "parse"
    <3>1. ASSUME NEW b \in gs["research_briefs"], b.created = Today PROVE b.id = BriefId(gs, b.company)
      BY <1>6, <1>9, <1>13, <2>2, <3>1 DEF ShelfOK, TodaysOK
    <3>2. QED
      BY <3>1 DEF TodaysOK
  <2>3. QED
    BY <2>1, <2>2
<1>16. QED
  BY <1>10, <1>11, <1>12, <1>14, <1>15 DEF ShelfOK

-----------------------------------------------------------------------------
(* The shelf of an earlier day.                                            *)

(* What is on file after some writes was there or was written.             *)
LEMMA PutAllHas ==
    ASSUME NEW fs, fs = [c \in AllCategories |-> fs[c]], NEW writes, IsSequence(writes),
           \A w \in ToSet(writes) : w.category \in AllCategories,
           NEW last, last = PutAll(fs, writes)
    PROVE  \A c \in AllCategories : \A x \in last[c] :
              x \in fs[c] \/ \E w \in ToSet(writes) : w.category = c /\ x \in w.items
<1>1. Len(writes) \in Nat /\ DOMAIN writes = 1..Len(writes)
  BY SequenceIs
<1>2. PICK g : g = CHOOSE h : Shelves(fs, writes, Len(writes), h)
  OBVIOUS
<1>3. Shelves(fs, writes, Len(writes), g)
  BY <1>1, <1>2, ShelvesExist
<1>4. last = g[Len(writes)]
  BY <1>2 DEF PutAll, Shelves
<1> DEFINE Had(i) ==
        /\ g[i] = [c \in AllCategories |-> g[i][c]]
        /\ \A c \in AllCategories : \A x \in g[i][c] :
              x \in fs[c] \/ \E w \in ToSet(writes) : w.category = c /\ x \in w.items
<1> DEFINE B == {i \in 0..Len(writes) : ~ Had(i)}
<1>5. B = {}
  <2>1. SUFFICES ASSUME B # {} PROVE FALSE
    OBVIOUS
  <2>2. PICK m \in B : \A k \in B : m <= k
    <3>1. B \subseteq Nat
      OBVIOUS
    <3> HIDE DEF B
    <3>2. QED
      BY <2>1, <3>1, LeastNatural
  <2>3. m \in 0..Len(writes) /\ ~ Had(m)
    OBVIOUS
  <2>4. \A i \in 0..Len(writes) : g[i] = IF i = 0 THEN fs ELSE Put(g[i - 1], writes[i])
    BY <1>3 DEF Shelves
  <2>5. CASE m = 0
    <3>1. g[m] = fs
      BY <2>3, <2>4, <2>5
    <3>2. QED
      BY <2>3, <3>1
  <2>6. CASE m # 0
    <3>1. PICK k \in Nat : k = m - 1 /\ m = k + 1
      BY <1>1, <2>3, <2>6
    <3>2. k \in 0..Len(writes) /\ ~ (m <= k)
      BY <1>1, <2>3, <3>1
    <3>3. k \notin B
      BY <2>2, <3>2
    <3>4. Had(k)
      BY <3>2, <3>3
    <3>5. PICK w : w = writes[m]
      OBVIOUS
    <3>6. PICK before, after : before = g[k] /\ after = g[m]
      OBVIOUS
    <3>7. after = Put(before, w)
      BY <2>3, <2>4, <2>6, <3>1, <3>5, <3>6
    <3>8. w \in ToSet(writes)
      BY <1>1, <2>3, <2>6, <3>5 DEF ToSet
    <3>9. before = [c \in AllCategories |-> before[c]]
      BY <3>4, <3>6
    <3>10. after = [c \in AllCategories |-> after[c]]
      BY <3>7, <3>8, <3>9, PutIs
    <3>11. \A c \in AllCategories : \A x \in after[c] : x \in before[c] \/ (w.category = c /\ x \in w.items)
      BY <3>7, <3>8, <3>9, PutHas
    <3>12. Had(m)
      BY <3>4, <3>6, <3>8, <3>10, <3>11
    <3>13. QED
      BY <2>3, <3>12
  <2>7. QED
    BY <2>5, <2>6
<1>6. Len(writes) \in 0..Len(writes)
  BY <1>1
<1>7. Had(Len(writes))
  BY <1>5, <1>6
<1>8. QED
  BY <1>4, <1>7

(* The documents and the gates of the ingestion are those of the fixtures. *)
Normalized(fs, fixtures) ==
    /\ \A d \in fs["documents"] :
         d.kind \in DocumentKind /\ \E f \in fixtures : d.id = f.name /\ ~ Refused(IngestGate(f))
    /\ \A g \in fs["gates"] :
         g.name = "ingestion_normalization" => \E f \in fixtures : g = IngestGate(f)
Briefless(fs) == fs["research_briefs"] = {}
OneBrief(fs) == \E id : \A b \in fs["research_briefs"] : b.created = 1 /\ b.id = id

(* The writes of a plan in its scope.                                      *)
LEMMA ScopeIs ==
    ASSUME NEW part \in Part, NEW writes, PlanInScope(part, writes)
    PROVE  /\ IsSequence(writes) /\ \A w \in ToSet(writes) : w.category \in AllCategories
           /\ \A w \in ToSet(writes) : InScope(part, w)
  BY AreaIs DEF PlanInScope, InScope

(* The later parts leave documents and their gates alone.                  *)
LEMMA NormalizedStays ==
    ASSUME NEW fs, FilesOK(fs), NEW fixtures, Normalized(fs, fixtures),
           NEW part \in {"parse", "research", "features", "signals"}, NEW writes, PlanInScope(part, writes),
           NEW last, last = PutAll(fs, writes)
    PROVE  /\ Normalized(last, fixtures)
           /\ part # "research" /\ Briefless(fs) => Briefless(last)
           /\ part # "research" /\ OneBrief(fs) => OneBrief(last)
<1>1. fs = [c \in AllCategories |-> fs[c]] /\ part \in Part
  BY DEF FilesOK, Part
<1>2. /\ IsSequence(writes) /\ \A w \in ToSet(writes) : w.category \in AllCategories
      /\ \A w \in ToSet(writes) : InScope(part, w)
  BY <1>1, ScopeIs
<1>3. \A c \in AllCategories : \A x \in last[c] :
              x \in fs[c] \/ \E w \in ToSet(writes) : w.category = c /\ x \in w.items
  BY <1>1, <1>2, PutAllHas
<1>4. {"documents", "gates", "research_briefs"} \subseteq AllCategories
  BY DEF AllCategories
<1>5. "documents" \notin Area(part) /\ (part # "research" => "research_briefs" \notin Area(part))
      /\ "ingestion_normalization" \notin GateNames(part)
  BY DEF Area, GateNames, Categories
<1>6. last["documents"] \subseteq fs["documents"]
  BY <1>2, <1>3, <1>4, <1>5 DEF InScope
<1>7. \A g \in last["gates"] : g \in fs["gates"] \/ g.name # "ingestion_normalization"
  BY <1>2, <1>3, <1>4, <1>5 DEF InScope
<1>8. part # "research" => last["research_briefs"] \subseteq fs["research_briefs"]
  BY <1>2, <1>3, <1>4, <1>5 DEF InScope
<1>9. Normalized(last, fixtures)
  BY <1>6, <1>7 DEF Normalized
<1>10. QED
  BY <1>8, <1>9 DEF Briefless, OneBrief

(* The research of a day files one brief.                                  *)
LEMMA BriefsOfADay ==
    ASSUME NEW fs, FilesOK(fs), Briefless(fs), NEW writes, NEW firm, NEW id,
           ResearchWrites(writes, firm, 1, id), NEW last, last = PutAll(fs, writes)
    PROVE  OneBrief(last)
<1>1. fs = [c \in AllCategories |-> fs[c]] /\ "research" \in Part /\ PlanInScope("research", writes)
      /\ "research_briefs" \in AllCategories
  BY DEF FilesOK, Part, ResearchWrites, AllCategories
<1>2. IsSequence(writes) /\ \A w \in ToSet(writes) : w.category \in AllCategories
  BY <1>1, ScopeIs
<1>3. \A c \in AllCategories : \A x \in last[c] :
              x \in fs[c] \/ \E w \in ToSet(writes) : w.category = c /\ x \in w.items
  BY <1>1, <1>2, PutAllHas
<1>4. \A b \in last["research_briefs"] : b.created = 1 /\ b.id = id
  BY <1>1, <1>3 DEF Briefless, ResearchWrites, BriefsOf
<1>5. QED
  BY <1>4 DEF OneBrief

(* What an earlier day leaves is in order.                                 *)
LEMMA NormalizedShelf ==
    ASSUME NEW fs, NEW fixtures, Normalized(fs, fixtures), OneBrief(fs) \/ Briefless(fs),
           \A f, g \in fixtures : f.name = g.name => f = g, NEW names
    PROVE  ShelfOK(fs, names) /\ NoneToday(fs)
<1>1. KindsOK(fs)
  BY DEF Normalized, KindsOK
<1>2. RefusedOK(fs, names)
  <2> SUFFICES ASSUME NEW g \in fs["gates"], NEW d \in fs["documents"],
                      g.name = "ingestion_normalization", g.target = d.id, Refused(g)
               PROVE  FALSE
    BY DEF RefusedOK
  <2>1. PICK f \in fixtures : g = IngestGate(f)
    BY DEF Normalized
  <2>2. PICK f2 \in fixtures : d.id = f2.name /\ ~ Refused(IngestGate(f2))
    BY DEF Normalized
  <2>3. g.target = f.name
    BY <2>1, IngestionGate
  <2>4. QED
    BY <2>1, <2>2, <2>3
<1>3. YesterdaysOK(fs) /\ NoneToday(fs) /\ TodaysOK(fs)
  BY DEF OneBrief, Briefless, YesterdaysOK, NoneToday, TodaysOK, Today
<1>4. QED
  BY <1>1, <1>2, <1>3 DEF ShelfOK

(* So the shelf a run starts with is in order.                             *)
LEMMA PastShelf ==
    ASSUME NEW old \in Yesterday, NEW names
    PROVE  ShelfOK(FilesOf(old), names) /\ NoneToday(FilesOf(old))
<1>1. PICK fixtures : fixtures = ToSet(old)
  OBVIOUS
<1> DEFINE Left(fs) == FilesOK(fs) /\ Normalized(fs, fixtures) /\ (OneBrief(fs) \/ Briefless(fs))
<1> DEFINE Bare(fs) == FilesOK(fs) /\ Normalized(fs, fixtures) /\ Briefless(fs)
<1>2. ASSUME NEW fs, Left(fs) PROVE Left(Signalled(fs))
  <2>1. PICK c : c = The(Resolved(ResearchedCompanies(fs), None))
    OBVIOUS
  <2>2. PICK plan : plan = The(run_signal_generation_workflow(fs, c))
    OBVIOUS
  <2>3. plan \in run_signal_generation_workflow(fs, c)
    BY <2>2, GenerationExists DEF The
  <2>4. PICK left : left = PutAll(fs, plan.writes)
    OBVIOUS
  <2>5. FilesOK(left)
    BY <1>2, <2>3, <2>4, GenerationSound, PutAllKeeps
  <2>6. PlanInScope("signals", plan.writes)
    BY <1>2, <2>3, GenerationHas
  <2>7. Normalized(left, fixtures) /\ (OneBrief(left) \/ Briefless(left))
    BY <1>2, <2>4, <2>6, NormalizedStays
  <2>8. left = Signalled(fs)
    BY <2>1, <2>2, <2>4 DEF Signalled
  <2>9. QED
    BY <2>5, <2>7, <2>8
<1>3. ASSUME NEW fs, Left(fs) PROVE Left(Mapped(fs))
  <2>1. PICK plan : plan = run_feature_mapping_workflow(fs, None)
    OBVIOUS
  <2>2. PICK left : left = PutAll(fs, plan.writes)
    OBVIOUS
  <2>3. FilesOK(left)
    BY <1>3, <2>1, <2>2, MappingSound, PutAllKeeps
  <2>4. PlanInScope("features", plan.writes)
    BY <1>3, <2>1, MappingHas
  <2>5. Normalized(left, fixtures) /\ (OneBrief(left) \/ Briefless(left))
    BY <1>3, <2>2, <2>4, NormalizedStays
  <2>6. Left(left) /\ Left(Signalled(left))
    BY <1>2, <2>3, <2>5
  <2>7. Mapped(fs) = left \/ Mapped(fs) = Signalled(left)
    BY <2>1, <2>2 DEF Mapped, After
  <2> HIDE DEF Left
  <2>8. QED
    BY <2>6, <2>7
<1>4. ASSUME NEW fs, Bare(fs) PROVE Left(Researched(fs))
  <2>1. PICK plan : plan = run_research_workflow(fs, None, 1)
    OBVIOUS
  <2>2. PICK left : left = PutAll(fs, plan.writes)
    OBVIOUS
  <2>3. FilesOK(left)
    BY <1>4, <2>1, <2>2, ResearchSound, PutAllKeeps
  <2>4. PICK c : c = The(Resolved(ResearchCompanies(fs), None))
    OBVIOUS
  <2>5. ResearchWrites(plan.writes, c, 1, BriefId(fs, c))
    BY <1>4, <2>1, <2>4, ResearchHas
  <2>6. PlanInScope("research", plan.writes)
    BY <2>5 DEF ResearchWrites
  <2>7. Normalized(left, fixtures)
    BY <1>4, <2>2, <2>6, NormalizedStays
  <2>8. OneBrief(left)
    BY <1>4, <2>2, <2>5, BriefsOfADay
  <2>9. Left(left) /\ Left(Mapped(left))
    BY <1>3, <2>3, <2>7, <2>8
  <2>10. Researched(fs) = left \/ Researched(fs) = Mapped(left)
    BY <2>1, <2>2 DEF Researched, After
  <2> HIDE DEF Left
  <2>11. QED
    BY <2>9, <2>10
<1>5. ASSUME NEW fs, Bare(fs) PROVE Left(Parsed(fs))
  <2>1. PICK plan : plan = run_evidence_extraction_pipeline(fs)
    OBVIOUS
  <2>2. PICK left : left = PutAll(fs, plan.writes)
    OBVIOUS
  <2>3. FilesOK(left)
    BY <1>5, <2>1, <2>2, ExtractionSound, PutAllKeeps
  <2>4. PlanInScope("parse", plan.writes)
    <3>1. \A d \in fs["documents"] : d.kind \in DocumentKind
      BY <1>5 DEF Normalized
    <3>2. QED
      BY <1>5, <2>1, <3>1, ExtractionHas
  <2>5. Normalized(left, fixtures) /\ Briefless(left)
    BY <1>5, <2>2, <2>4, NormalizedStays
  <2>6. Left(left) /\ Left(Researched(left))
    BY <1>4, <2>3, <2>5
  <2>7. Parsed(fs) = left \/ Parsed(fs) = Researched(left)
    BY <2>1, <2>2 DEF Parsed, After
  <2> HIDE DEF Left
  <2>8. QED
    BY <2>6, <2>7
<1>6. NoFiles = [c \in AllCategories |-> NoFiles[c]] /\ \A c \in AllCategories : NoFiles[c] = {}
  BY DEF NoFiles
<1>7. {"documents", "gates", "research_briefs"} \subseteq AllCategories
  BY DEF AllCategories
<1>8. CASE old = <<>>
  <2>1. FilesOf(old) = NoFiles
    BY <1>8 DEF FilesOf
  <2>2. Left(NoFiles)
    BY <1>6, <1>7, NoFilesOK DEF Normalized, Briefless
  <2> HIDE DEF Left
  <2>3. QED
    <3>1. Left(FilesOf(old))
      BY <2>1, <2>2
    <3>2. \A f, g \in fixtures : f.name = g.name => f = g
      BY <1>1, FixtureAssumption
    <3>3. QED
      BY <3>1, <3>2, NormalizedShelf DEF Left
<1>9. CASE old # <<>>
  <2>1. PICK plan : plan = run_fixture_ingestion_pipeline(old)
    OBVIOUS
  <2>2. PICK left : left = PutAll(NoFiles, plan.writes)
    OBVIOUS
  <2>3. /\ IsSequence(old) /\ \A f \in ToSet(old) : TextIsRead(f)
        /\ \A f, g \in fixtures : f.name = g.name => f = g
    BY <1>1, FixtureAssumption
  <2>4. FilesOK(left)
    BY <2>1, <2>2, <2>3, NormalizationSound, NoFilesOK, PutAllKeeps
  <2>5. IsSequence(plan.writes) /\ \A w \in ToSet(plan.writes) : IngestWrite(fixtures, w)
    BY <1>1, <2>1, <2>3, IngestHas
  <2>6. "ingest" \in Part
    BY DEF Part
  <2>7. \A w \in ToSet(plan.writes) : InScope("ingest", w)
    BY <2>5 DEF IngestWrite
  <2>8. \A w \in ToSet(plan.writes) : w.category \in AllCategories
    BY <2>6, <2>7, AreaIs DEF InScope
  <2>9. \A c \in AllCategories : \A x \in left[c] :
              x \in NoFiles[c] \/ \E w \in ToSet(plan.writes) : w.category = c /\ x \in w.items
    BY <1>6, <2>2, <2>5, <2>8, PutAllHas
  <2>10. \A c \in AllCategories : \A x \in left[c] :
              \E w \in ToSet(plan.writes) : w.category = c /\ x \in w.items
    BY <1>6, <2>9
  <2>11. Normalized(left, fixtures)
    BY <1>7, <2>5, <2>10, SMTT(30) DEF Normalized, IngestWrite
  <2>12. Briefless(left)
    <3>1. "research_briefs" \notin Area("ingest")
      BY DEF Area
    <3>2. QED
      BY <1>7, <2>7, <2>10, <3>1 DEF Briefless, InScope
  <2>13. Left(left) /\ Left(Parsed(left))
    BY <1>5, <2>4, <2>11, <2>12
  <2>14. FilesOf(old) = left \/ FilesOf(old) = Parsed(left)
    BY <1>9, <2>1, <2>2 DEF FilesOf, After
  <2> HIDE DEF Left
  <2>15. Left(FilesOf(old))
    BY <2>13, <2>14
  <2>16. QED
    BY <2>3, <2>15, NormalizedShelf DEF Left
<1>10. QED
  BY <1>8, <1>9

-----------------------------------------------------------------------------
(* The steps that are done: a later one is at work, the records of this    *)
(* one are being written, or the run has concluded with it.                *)
GoneBy(s) == step > s /\ Written(s) /\ Status(s) \in StepVerdict
Recording(s) ==
    step = s /\ (pc \in {"record_step", "record_execution"} \/ (pc = "advance" /\ verdict = None))
Reached(s) ==
    \/ GoneBy(s) \/ Recording(s)
    \/ step = s /\ Concluded /\ Status(s) = "succeeded"

(* A run concludes with its last step or with one that failed.             *)
EndInv == Concluded => step = NumSteps \/ step \in failures

(* Nothing has concluded at first.                                         *)
LEMMA EndInvInit == Init => EndInv
BY NoneAssumption DEF Init, EndInv, Concluded, Verdict, WorkflowStatus

(* The run has not concluded before its loop is over.                      *)
LEMMA LoopHas ==
    ASSUME IInv, pc \in Loop \cup Preparing
    PROVE  ~ Concluded /\ TypeOK /\ step \in Nat
<1>1. execStatus \in {"running", None} /\ TypeOK
  BY DEF IInv, PhaseInv, LoopInv, PreparingInv
<1>2. QED
  BY <1>1, NoneAssumption DEF Concluded, Verdict, WorkflowStatus, TypeOK, Steps

(* The loop ends in no other way.                                          *)
LEMMA EndInvStep == IInv /\ EndInv /\ [Next]_vars => EndInv'
<1> SUFFICES ASSUME IInv, EndInv, [Next]_vars PROVE EndInv'
  OBVIOUS
<1> USE DEF locals, files, monitoring
<1>1. CASE UNCHANGED <<execStatus, step, failures>>
  BY <1>1 DEF EndInv, Concluded
<1>2. CASE WriteExecution
  BY <1>2, NoneAssumption DEF WriteExecution, EndInv, Concluded, Verdict
<1>3. CASE WriteQueuedStep \/ GiveUp \/ NextStep
  <2>1. pc \in Loop \cup Preparing /\ execStatus' = execStatus
    BY <1>3 DEF WriteQueuedStep, GiveUp, NextStep, Loop, Preparing, Trying
  <2>2. QED
    BY <2>1, LoopHas DEF EndInv, Concluded
<1>4. CASE FinishExecution
  <2>1. pc = "advance" /\ (Stops \/ step = NumSteps) /\ step' = step /\ failures' = failures
    BY <1>4 DEF FinishExecution
  <2>2. EndedInv
    BY <2>1 DEF IInv, PhaseInv
  <2>3. Stops => step \in failures
    BY <2>2, NoneAssumption DEF Stops, EndedInv, WorkflowStatus
  <2>4. QED
    BY <2>1, <2>3 DEF EndInv
<1>5. CASE UNCHANGED vars
  BY <1>1, <1>5 DEF vars
<1>6. CASE \/ RecordStartEvent \/ BeginStep \/ ExecutorReturns \/ ExecutorRaises \/ RecordStep
           \/ RecordExecution \/ WriteRaises \/ Retry \/ RecordFailure \/ RecordTerminalEvent
           \/ RecordAlerts \/ RecordRunSummary \/ Die
  <2>1. UNCHANGED <<execStatus, step, failures>>
    BY <1>6 DEF RecordStartEvent, BeginStep, ExecutorReturns, ExecutorRaises, RecordStep,
       RecordExecution, WriteRaises, Retry, RecordFailure, RecordTerminalEvent,
       RecordAlerts, RecordRunSummary, Die
  <2>2. QED
    BY <1>1, <2>1
<1>7. QED
  BY <1>2, <1>3, <1>4, <1>5, <1>6 DEF Next, Advance

(* While an executor is at work the steps before it are done.              *)
LEMMA ReachedAtWork ==
    ASSUME IInv, pc = "execute", NEW s, Reached(s)
    PROVE  s < step
<1>1. ~ Concluded
  BY LoopHas DEF Loop, Trying
<1>2. QED
  BY <1>1 DEF Reached, GoneBy, Recording

(* A step is only done once its executor has returned.                     *)
LEMMA ReachedStep ==
    ASSUME IInv, [Next]_vars, NEW s \in Steps, Reached(s)'
    PROVE  Reached(s) \/ (pc = "execute" /\ pc' = "record_step" /\ step = s)
<1> USE DEF locals, files, monitoring
<1>1. TypeOK /\ s \in Nat /\ step \in Nat
  BY DEF IInv, TypeOK, Steps
<1>2. CASE UNCHANGED <<stepFile, execStatus, step>> /\ ~ Recording(s)'
  BY <1>2 DEF Reached, GoneBy, Recording, Concluded, Written, Status
<1>3. CASE WriteExecution \/ WriteQueuedStep \/ RecordStartEvent
  <2>1. pc \in Preparing /\ pc' \in {"write_steps", "start_event", "begin"}
    BY <1>3 DEF WriteExecution, WriteQueuedStep, RecordStartEvent, Preparing
  <2>2. PreparingInv
    BY <2>1 DEF IInv, PhaseInv
  <2>3. stepFile'[s] \in {None, Queued}
    BY <1>1, <1>3, <2>2 DEF WriteExecution, WriteQueuedStep, RecordStartEvent, PreparingInv, TypeOK
  <2>4. ~ GoneBy(s)'
    BY <2>3 DEF GoneBy, Written, Status, StepVerdict, Queued
  <2>5. ~ Concluded'
    BY <1>3, <2>2, NoneAssumption DEF WriteExecution, WriteQueuedStep, RecordStartEvent, PreparingInv,
       Concluded, Verdict, WorkflowStatus
  <2>6. ~ Recording(s)'
    BY <2>1 DEF Recording
  <2>7. QED
    BY <2>4, <2>5, <2>6 DEF Reached
<1>4. CASE BeginStep \/ Retry \/ GiveUp
  <2>1. pc \in Loop /\ pc' \in {"execute", "record_failure"} /\ step' = step /\ execStatus' = execStatus
        /\ \E r : stepFile' = [stepFile EXCEPT ![step] = r]
    BY <1>4 DEF BeginStep, Retry, GiveUp, Loop, Trying
  <2>2. ~ Concluded' /\ ~ Recording(s)'
    BY <2>1, LoopHas DEF Concluded, Recording
  <2>3. GoneBy(s)'
    BY <2>2 DEF Reached
  <2>4. s # step
    BY <1>1, <2>1, <2>3 DEF GoneBy
  <2>5. stepFile'[s] = stepFile[s]
    BY <2>1, <2>4, <1>1 DEF TypeOK
  <2>6. GoneBy(s)
    BY <2>1, <2>3, <2>5 DEF GoneBy, Written, Status
  <2>7. QED
    BY <2>6 DEF Reached
<1>5. CASE RecordStep
  <2>1. pc = "record_step" /\ pc' = "record_execution" /\ step' = step /\ execStatus' = execStatus
        /\ stepFile' = [stepFile EXCEPT ![step] = current]
    BY <1>5 DEF RecordStep
  <2>2. ~ Concluded'
    BY <2>1, LoopHas DEF Concluded, Loop, Trying
  <2>3. s = step \/ GoneBy(s)'
    BY <2>1, <2>2 DEF Reached, Recording
  <2>4. CASE s = step
    BY <2>1, <2>4 DEF Reached, Recording
  <2>5. CASE s # step
    <3>1. stepFile'[s] = stepFile[s]
      BY <1>1, <2>1, <2>5 DEF TypeOK
    <3>2. GoneBy(s)
      BY <2>1, <2>3, <2>5, <3>1 DEF GoneBy, Written, Status
    <3>3. QED
      BY <3>2 DEF Reached
  <2>6. QED
    BY <2>4, <2>5
<1>6. CASE ExecutorReturns
  <2>1. pc = "execute" /\ pc' = "record_step" /\ UNCHANGED <<stepFile, execStatus, step>>
    BY <1>6 DEF ExecutorReturns
  <2>2. CASE step = s
    BY <2>1, <2>2
  <2>3. CASE step # s
    <3>1. ~ Recording(s)'
      BY <2>1, <2>3 DEF Recording
    <3>2. QED
      BY <1>2, <2>1, <3>1
  <2>4. QED
    BY <2>2, <2>3
<1>7. CASE ExecutorRaises \/ WriteRaises \/ Die
  <2>1. pc' \in {"handle", "dead"} /\ UNCHANGED <<stepFile, execStatus, step>>
    BY <1>7 DEF ExecutorRaises, WriteRaises, Die
  <2>2. QED
    BY <1>2, <2>1 DEF Recording
<1>8. CASE RecordExecution
  <2>1. pc = "record_execution" /\ UNCHANGED <<stepFile, execStatus, step>>
    BY <1>8 DEF RecordExecution
  <2>2. CASE step = s
    BY <2>1, <2>2 DEF Reached, Recording
  <2>3. CASE step # s
    BY <1>2, <2>1, <2>3 DEF Recording
  <2>4. QED
    BY <2>2, <2>3
<1>9. CASE RecordFailure
  <2>1. pc = "record_failure" /\ UNCHANGED <<stepFile, execStatus, step, verdict>>
    BY <1>9 DEF RecordFailure
  <2>2. EndedInv
    BY <2>1 DEF IInv, PhaseInv
  <2>3. verdict # None
    BY <2>1, <2>2 DEF EndedInv
  <2>4. pc' = "advance"
    BY <1>9 DEF RecordFailure
  <2>5. ~ Recording(s)'
    BY <2>1, <2>3, <2>4 DEF Recording
  <2>6. QED
    BY <1>2, <2>1, <2>5
<1>10. CASE NextStep
  <2>1. pc = "advance" /\ pc' = "begin" /\ step' = step + 1 /\ ~ Stops
        /\ UNCHANGED <<stepFile, execStatus>>
    BY <1>10 DEF NextStep
  <2>2. EndedInv /\ ~ Concluded
    BY <2>1, LoopHas DEF IInv, PhaseInv, Loop
  <2>3. verdict = None
    BY <2>1, <2>2 DEF EndedInv, Stops, VerdictOf
  <2>4. GoneBy(s)'
    BY <2>1, <2>2 DEF Reached, Recording, Concluded
  <2>5. s = step \/ s < step
    BY <1>1, <2>1, <2>4 DEF GoneBy
  <2>6. CASE s = step
    BY <2>1, <2>3, <2>6 DEF Reached, Recording
  <2>7. CASE s < step
    BY <1>1, <2>1, <2>4, <2>7 DEF Reached, GoneBy, Written, Status
  <2>8. QED
    BY <2>5, <2>6, <2>7
<1>11. CASE FinishExecution
  <2>1. pc = "advance" /\ pc' = "end_event" /\ UNCHANGED <<stepFile, step>>
    BY <1>11 DEF FinishExecution
  <2>2. EndedInv
    BY <2>1 DEF IInv, PhaseInv
  <2>3. GoneBy(s) \/ (step = s /\ Status(s) = "succeeded")
    BY <2>1 DEF Reached, GoneBy, Recording, Written, Status
  <2>4. step = s /\ Status(s) = "succeeded" => verdict = None
    BY <2>2 DEF EndedInv, FailedStep, Status
  <2>5. QED
    BY <2>1, <2>3, <2>4 DEF Reached, Recording
<1>12. CASE RecordTerminalEvent \/ RecordAlerts \/ RecordRunSummary
  <2>1. pc' \in {"alert", "summarize", "done"} /\ UNCHANGED <<stepFile, execStatus, step>>
    BY <1>12 DEF RecordTerminalEvent, RecordAlerts, RecordRunSummary
  <2>2. QED
    BY <1>2, <2>1 DEF Recording
<1>13. CASE UNCHANGED vars
  BY <1>13 DEF vars, Reached, GoneBy, Recording, Concluded, Written, Status
<1>14. QED
  BY <1>3, <1>4, <1>5, <1>6, <1>7, <1>8, <1>9, <1>10, <1>11, <1>12, <1>13 DEF Next, Advance

(* The steps go forward once the files of the run are prepared.            *)
Early == step < 3 \/ pc \in Preparing
(* What is early was early.                                                *)
LEMMA EarlyStep == IInv /\ [Next]_vars /\ Early' => Early
<1> SUFFICES ASSUME IInv, [Next]_vars, Early' PROVE Early
  OBVIOUS
<1> USE DEF locals, files, monitoring
<1>1. CASE pc \in Preparing
  BY <1>1 DEF Early
<1>2. CASE pc \notin Preparing
  <2>1. step \in Nat
    BY DEF IInv, TypeOK, Steps
  <2>2. pc' \notin Preparing
    BY <1>2, SMTT(30) DEF vars, Next, Advance, WriteExecution, WriteQueuedStep, RecordStartEvent, BeginStep,
       ExecutorReturns, ExecutorRaises, RecordStep, RecordExecution, WriteRaises, Retry, GiveUp,
       RecordFailure, NextStep, FinishExecution, RecordTerminalEvent, RecordAlerts,
       RecordRunSummary, Die, Preparing
  <2>3. step' \in {step, step + 1}
    BY <1>2, SMTT(30) DEF vars, Next, Advance, WriteExecution, WriteQueuedStep, RecordStartEvent, BeginStep,
       ExecutorReturns, ExecutorRaises, RecordStep, RecordExecution, WriteRaises, Retry, GiveUp,
       RecordFailure, NextStep, FinishExecution, RecordTerminalEvent, RecordAlerts,
       RecordRunSummary, Die, Preparing
  <2>4. QED
    BY <2>1, <2>2, <2>3 DEF Early
<1>3. QED
  BY <1>1, <1>2

(* A step that succeeded, and every step before it, is done.               *)
LEMMA SucceededIsReached ==
    ASSUME IInv, EndInv, NEW s \in Steps, Succeeded(s)
    PROVE  Reached(s) /\ \A d \in 1..(s - 1) : Reached(d)
<1>1. /\ TypeOK /\ StepsStartInOrder /\ s \in Nat /\ step \in Nat /\ step >= 1 /\ NumSteps \in Nat
      /\ s <= NumSteps
  BY StepsTyped DEF IInv, FilesInv, TypeOK, Steps
<1>2. Written(s) /\ Status(s) = "succeeded" /\ (step > s \/ Concluded)
  BY DEF Succeeded
<1>3. \A d \in 1..(s - 1) : Written(d) /\ Status(d) \in StepVerdict /\ d \notin failures
  BY <1>1, <1>2 DEF StepsStartInOrder
<1>4. step >= s
  <2> SUFFICES ASSUME ~ (step >= s) PROVE FALSE
    OBVIOUS
  <2>1. step \in 1..(s - 1) /\ Concluded
    BY <1>1, <1>2
  <2>2. step \notin failures /\ step # NumSteps
    BY <1>1, <1>3, <2>1
  <2>3. QED
    BY <2>1, <2>2 DEF EndInv
<1>5. Reached(s)
  BY <1>1, <1>2, <1>4 DEF Reached, GoneBy, StepVerdict
<1>6. \A d \in 1..(s - 1) : Reached(d)
  BY <1>1, <1>3, <1>4 DEF Reached, GoneBy
<1>7. QED
  BY <1>5, <1>6

-----------------------------------------------------------------------------
(* What the part at work promises unless it raises.                        *)
Promised(part, fs, writes, fixtures, firm) ==
    LET evident == Resolved(ResearchCompanies(fs), firm)
        known == Resolved(ResearchedCompanies(fs), firm)
    IN  /\ part = "ingest" => Ingests(fs, writes, fixtures)
        /\ part = "parse" => ExtractsAll(fs, writes)
        /\ part = "research" => evident # {} /\ Researches(fs, writes, The(evident), Today)
        /\ part = "features" => known # {} /\ MapsLatest(fs, writes, The(known))
        /\ part = "signals" => known # {} /\ GeneratesLatest(fs, writes, The(known))

(* What a step that is done vouches for.                                   *)
Vouched(s, fs, fixtures, firm) ==
    /\ s = 1 => Ingests(fs, <<>>, fixtures)
    /\ s = 2 => ExtractsAll(fs, <<>>)
    /\ s = 3 => Researches(fs, <<>>, firm, Today)
    /\ s = 4 => GeneratesLatest(fs, <<>>, firm)

PartsOf(s) ==
    CASE s = 1 -> {"ingest"} [] s = 2 -> {"parse"} [] s = 3 -> {"research"}
      [] s = 4 -> {"features", "signals"} [] OTHER -> {}

(* What the parts of a step leave alone.                                   *)
LEMMA AreasAre ==
    /\ \A c \in Categories : c \notin Area("research")
    /\ {"research_briefs", "evidence_assessments"} \cap (Area("features") \cup Area("signals")) = {}
    /\ "research_briefs" \notin Area("parse")
    /\ Categories \subseteq AllCategories
    /\ {"research_briefs", "evidence_assessments"} \subseteq AllCategories
  BY DEF Area, Categories, AllCategories

(* A part writes in its area.                                              *)
LEMMA PutElsewhere ==
    ASSUME NEW fs, fs = [c \in AllCategories |-> fs[c]], NEW part \in Part, NEW w, InScope(part, w),
           NEW gs, gs = Put(fs, w)
    PROVE  \A c \in AllCategories : c \notin Area(part) => gs[c] = fs[c]
<1>1. w.category \in AllCategories /\ w.category \in Area(part)
  BY AreaIs DEF InScope
<1>2. QED
  BY <1>1, PutHas

(* A write of the part takes nothing back of it.                           *)
LEMMA PromisedOn ==
    ASSUME NEW fs, NEW part, NEW writes, Heads(fs, part, writes), NEW fixtures, NEW firm,
           Promised(part, fs, writes, fixtures, firm),
           NEW gs, NEW rest, gs = Put(fs, Head(writes)), rest = Tail(writes)
    PROVE  Promised(part, gs, rest, fixtures, firm)
<1>1. PICK w : w = Head(writes)
  OBVIOUS
<1>2. fs = [c \in AllCategories |-> fs[c]] /\ part \in Part /\ InScope(part, w) /\ gs = Put(fs, w)
  BY <1>1 DEF Heads
<1>3. \A c \in AllCategories : c \notin Area(part) => gs[c] = fs[c]
  BY <1>2, PutElsewhere
<1>4. CASE part = "ingest"
  <2>1. Ingests(gs, rest, fixtures)
    BY <1>4, IngestsOn DEF Promised
  <2>2. QED
    BY <1>4, <2>1 DEF Promised
<1>5. CASE part = "parse"
  <2>1. ExtractsAll(gs, rest)
    BY <1>5, ExtractsOn DEF Promised
  <2>2. QED
    BY <1>5, <2>1 DEF Promised
<1>6. CASE part = "research"
  <2>1. SameEvidence(fs, gs)
    BY <1>3, <1>6, AreasAre DEF SameEvidence
  <2>2. ResearchCompanies(gs) = ResearchCompanies(fs)
    BY <2>1, EvidenceSame
  <2>3. PICK found, c : found = Resolved(ResearchCompanies(fs), firm) /\ c = The(found)
    OBVIOUS
  <2>4. found # {} /\ Researches(fs, writes, c, Today)
    BY <1>6, <2>3 DEF Promised
  <2>5. Researches(gs, rest, c, Today)
    BY <1>6, <2>4, ResearchesOn
  <2>6. QED
    BY <1>6, <2>2, <2>3, <2>4, <2>5 DEF Promised
<1>7. CASE part \in {"features", "signals"}
  <2>1. gs["research_briefs"] = fs["research_briefs"]
        /\ gs["evidence_assessments"] = fs["evidence_assessments"]
    BY <1>3, <1>7, AreasAre
  <2>2. ResearchedCompanies(gs) = ResearchedCompanies(fs)
    BY <2>1 DEF ResearchedCompanies
  <2>3. PICK found, c : found = Resolved(ResearchedCompanies(fs), firm) /\ c = The(found)
    OBVIOUS
  <2>4. /\ found # {} /\ (part = "features" => MapsLatest(fs, writes, c))
        /\ part = "signals" => GeneratesLatest(fs, writes, c)
    BY <1>7, <2>3 DEF Promised
  <2>5. part = "features" => MapsLatest(gs, rest, c)
    BY <2>4, MapsOn
  <2>6. part = "signals" => GeneratesLatest(gs, rest, c)
    BY <2>4, GeneratesOn
  <2>7. QED
    BY <1>7, <2>2, <2>3, <2>4, <2>5, <2>6 DEF Promised
<1>8. QED
  BY <1>2, <1>4, <1>5, <1>6, <1>7 DEF Part

(* Nor of the steps before.                                                *)
LEMMA VouchedElse ==
    ASSUME NEW fs, fs = [c \in AllCategories |-> fs[c]], NEW t \in Worked, NEW s \in Worked, s < t,
           NEW fixtures, NEW firm, Vouched(s, fs, fixtures, firm),
           NEW part \in PartsOf(t), NEW w, InScope(part, w), NEW gs, gs = Put(fs, w)
    PROVE  Vouched(s, gs, fixtures, firm)
<1>1. CASE s = 1
  <2>1. part \in {"parse", "research", "features", "signals"}
    BY <1>1 DEF PartsOf, Worked
  <2>2. Ingests(fs, <<>>, fixtures)
    BY <1>1 DEF Vouched
  <2>3. Ingests(gs, <<>>, fixtures)
    BY <2>1, <2>2, IngestsElse
  <2>4. QED
    BY <1>1, <2>3 DEF Vouched
<1>2. CASE s = 2
  <2>1. part \in {"research", "features", "signals"}
    BY <1>2 DEF PartsOf, Worked
  <2>2. ExtractsAll(fs, <<>>)
    BY <1>2 DEF Vouched
  <2>3. ExtractsAll(gs, <<>>)
    BY <2>1, <2>2, ExtractsElse
  <2>4. QED
    BY <1>2, <2>3 DEF Vouched
<1>3. CASE s = 3
  <2>1. part \in {"features", "signals"}
    BY <1>3 DEF PartsOf, Worked
  <2>2. Researches(fs, <<>>, firm, Today)
    BY <1>3 DEF Vouched
  <2>3. Researches(gs, <<>>, firm, Today)
    BY <2>1, <2>2, ResearchesElse
  <2>4. QED
    BY <1>3, <2>3 DEF Vouched
<1>4. QED
  BY <1>1, <1>2, <1>3 DEF Worked

(* A rejection takes nothing back either.                                  *)
LEMMA PromisedSame ==
    ASSUME NEW fs, NEW gs, SameFiles(fs, gs), FilesOK(fs), FilesOK(gs), NEW names, ShelfOK(fs, names),
           NEW part, NEW writes, NEW fixtures, NEW firm, Promised(part, fs, writes, fixtures, firm)
    PROVE  Promised(part, gs, writes, fixtures, firm)
<1>1. YesterdaysOK(fs) /\ TodaysOK(fs)
  BY DEF ShelfOK
<1>2. /\ ResearchCompanies(gs) = ResearchCompanies(fs)
      /\ ResearchedCompanies(gs) = ResearchedCompanies(fs)
  BY CompaniesSame
<1>3. PICK evident, known, c, d :
        /\ evident = Resolved(ResearchCompanies(fs), firm) /\ c = The(evident)
        /\ known = Resolved(ResearchedCompanies(fs), firm) /\ d = The(known)
  OBVIOUS
<1>4. /\ part = "ingest" => Ingests(fs, writes, fixtures)
      /\ part = "parse" => ExtractsAll(fs, writes)
      /\ part = "research" => evident # {} /\ Researches(fs, writes, c, Today)
      /\ part = "features" => known # {} /\ MapsLatest(fs, writes, d)
      /\ part = "signals" => known # {} /\ GeneratesLatest(fs, writes, d)
  BY <1>3 DEF Promised
<1>5. part = "ingest" => Ingests(gs, writes, fixtures)
  BY <1>4, IngestsSame
<1>6. part = "parse" => ExtractsAll(gs, writes)
  BY <1>4, ExtractsSame
<1>7. part = "research" => Researches(gs, writes, c, Today)
  BY <1>4, ResearchesSame
<1>8. part = "features" => MapsLatest(gs, writes, d)
  BY <1>1, <1>4, MapsSame
<1>9. part = "signals" => GeneratesLatest(gs, writes, d)
  BY <1>1, <1>4, GeneratesSame
<1>10. QED
  BY <1>2, <1>3, <1>4, <1>5, <1>6, <1>7, <1>8, <1>9 DEF Promised

(* ... of the steps that are done included.                                *)
LEMMA VouchedSame ==
    ASSUME NEW fs, NEW gs, SameFiles(fs, gs), FilesOK(fs), FilesOK(gs), NEW names, ShelfOK(fs, names),
           NEW s, NEW fixtures, NEW firm, Vouched(s, fs, fixtures, firm)
    PROVE  Vouched(s, gs, fixtures, firm)
<1>1. YesterdaysOK(fs) /\ TodaysOK(fs)
  BY DEF ShelfOK
<1>2. s = 1 => Ingests(gs, <<>>, fixtures)
  BY IngestsSame DEF Vouched
<1>3. s = 2 => ExtractsAll(gs, <<>>)
  BY ExtractsSame DEF Vouched
<1>4. s = 3 => Researches(gs, <<>>, firm, Today)
  BY ResearchesSame DEF Vouched
<1>5. s = 4 => GeneratesLatest(gs, <<>>, firm)
  BY <1>1, GeneratesSame DEF Vouched
<1>6. QED
  BY <1>2, <1>3, <1>4, <1>5 DEF Vouched

(* The writes left stay such as to keep the shelf in order.                *)
LEMMA OrderlyOn ==
    ASSUME NEW fs, fs = [c \in AllCategories |-> fs[c]], NEW part \in Part, NEW fixtures,
           NEW v, Orderly(fs, part, fixtures, v), NEW w, InScope(part, w), NEW gs, gs = Put(fs, w)
    PROVE  Orderly(gs, part, fixtures, v)
<1>1. \A c \in AllCategories : c \notin Area(part) => gs[c] = fs[c]
  BY PutElsewhere
<1>2. part = "parse" => NoneToday(gs)
  BY <1>1, AreasAre DEF Orderly, NoneToday
<1>3. CASE part = "research"
  <2>1. SameEvidence(fs, gs)
    BY <1>1, <1>3, AreasAre DEF SameEvidence
  <2>2. \A firm : BriefId(gs, firm) = BriefId(fs, firm)
    BY <2>1, EvidenceSame
  <2>3. PICK firm : BriefsOf(v, firm, Today, BriefId(fs, firm))
    BY <1>3 DEF Orderly
  <2>4. BriefsOf(v, firm, Today, BriefId(gs, firm))
    BY <2>2, <2>3
  <2>5. QED
    BY <1>3, <2>4 DEF Orderly
<1>4. CASE part # "research"
  BY <1>2, <1>4 DEF Orderly
<1>5. QED
  BY <1>3, <1>4

(* A rejection does not make them less so.                                 *)
LEMMA OrderlySame ==
    ASSUME NEW fs, NEW gs, SameFiles(fs, gs), NEW names, ShelfOK(fs, names), NEW part, NEW fixtures,
           NEW v, Orderly(fs, part, fixtures, v)
    PROVE  Orderly(gs, part, fixtures, v)
<1>1. part = "parse" => NoneToday(gs)
  BY ShelfSame DEF Orderly
<1>2. CASE part = "research"
  <2>1. SameEvidence(fs, gs)
    BY PlainSame
  <2>2. \A firm : BriefId(gs, firm) = BriefId(fs, firm)
    BY <2>1, EvidenceSame
  <2>3. PICK firm : BriefsOf(v, firm, Today, BriefId(fs, firm))
    BY <1>2 DEF Orderly
  <2>4. BriefsOf(v, firm, Today, BriefId(gs, firm))
    BY <2>2, <2>3
  <2>5. QED
    BY <1>2, <2>4 DEF Orderly
<1>3. CASE part # "research"
  BY <1>1, <1>3 DEF Orderly
<1>4. QED
  BY <1>2, <1>3

(* The record of a failure is no exception.                                *)
LEMMA FailureIsOrderly ==
    ASSUME NEW fs, NEW part \in Part, NEW fixtures, NEW writes, PlanInScope(part, writes),
           part = "parse" => NoneToday(fs)
    PROVE  Orderly(fs, part, fixtures, FailureOf(writes))
<1>1. PICK w : w = FailureOf(writes)
  OBVIOUS
<1>2. InScope(part, w) /\ w.category = "outcomes"
  BY <1>1, FailureInScope DEF FailureOf, Write
<1>3. part = "ingest" => IngestWrite(fixtures, w)
  BY <1>2 DEF IngestWrite
<1>4. \A firm : BriefsOf(w, firm, Today, BriefId(fs, firm))
  BY <1>2 DEF BriefsOf
<1>5. QED
  BY <1>1, <1>2, <1>3, <1>4 DEF Orderly

-----------------------------------------------------------------------------
(* The plans that the executors start with.                                *)
Fixtures == IF refresh = None THEN {} ELSE ToSet(refresh)

(* The ingestion owes the gates of its fixtures.                           *)
LEMMA IngestDelivers ==
    ASSUME NEW fs, NEW fixtures, IsSequence(fixtures), NEW plan,
           plan = run_fixture_ingestion_pipeline(fixtures)
    PROVE  ~ plan.raises => Ingests(fs, plan.writes, ToSet(fixtures))
<1> SUFFICES ASSUME ~ plan.raises PROVE Ingests(fs, plan.writes, ToSet(fixtures))
  OBVIOUS
<1>1. PICK all : all = plan.writes
  OBVIOUS
<1>2. /\ \A w \in ToSet(all) : IngestWrite(ToSet(fixtures), w)
      /\ \A f \in ToSet(fixtures) :
           ~ Refused(IngestGate(f)) /\ Write("gates", {IngestGate(f)}) \in ToSet(all)
  BY <1>1, IngestHas
<1>3. ASSUME NEW f \in ToSet(fixtures), NEW k, k = <<"ingestion_normalization", f.name>>
      PROVE  Owed(fs, all, "gates", k, None)
  <2>1. PICK w : w = Write("gates", {IngestGate(f)})
    OBVIOUS
  <2>2. w \in ToSet(all)
    BY <1>2, <2>1
  <2>3. w.category = "gates" /\ HasKey(w.items, "gates", k)
    <3>1. IngestGate(f).name = "ingestion_normalization" /\ IngestGate(f).target = f.name
      BY IngestionGate
    <3>2. QED
      BY <1>3, <2>1, <3>1, GatePasses
  <2>4. ASSUME NEW v \in ToSet(all), v.category = "gates"
        PROVE  AllFit(v.items, "gates", k, None)
    <3>1. \A g \in v.items : \E f2 \in ToSet(fixtures) : g = IngestGate(f2)
      BY <1>2, <2>4 DEF IngestWrite
    <3>2. \A g \in v.items : ~ Refused(g)
      BY <1>2, <3>1
    <3>3. QED
      BY <3>2 DEF AllFit, Fits
  <2>5. QED
    BY <2>2, <2>3, <2>4, OwedFrom
<1>4. QED
  BY <1>1, <1>3 DEF Ingests

(* Each of the four plans promises what its step vouches for.              *)
LEMMA PlanDelivers ==
    ASSUME FilesOK(shelf), KindsOK(shelf), refresh \in Refresh, NEW s \in Worked,
           s = 2 => NoneToday(shelf), NEW plan, plan = PlanOf(s), NEW part, part = FirstPart(s)
    PROVE  /\ part \in PartsOf(s) /\ PlanInScope(part, plan.writes)
           /\ \A w \in ToSet(plan.writes) : Orderly(shelf, part, Fixtures, w)
           /\ ~ plan.raises => Promised(part, shelf, plan.writes, Fixtures, company)
<1>1. CASE s = 1
  <2>1. part = "ingest" /\ part \in PartsOf(s)
    BY <1>1 DEF FirstPart, Worked, PartsOf
  <2>2. CASE refresh = None
    <3>1. plan = Plan(<<>>, FALSE) /\ Fixtures = {}
      BY <1>1, <2>2 DEF PlanOf, execute_fixture_refresh_and_normalization, Fixtures
    <3>2. plan.writes = <<>> /\ ToSet(plan.writes) = {} /\ IsSequence(plan.writes)
      BY <3>1 DEF Plan, ToSet, IsSequence
    <3>3. Ingests(shelf, plan.writes, Fixtures)
      BY <3>1 DEF Ingests
    <3>4. PlanInScope(part, plan.writes)
      BY <3>2 DEF PlanInScope
    <3>5. Promised(part, shelf, plan.writes, Fixtures, company)
      BY <2>1, <3>3 DEF Promised
    <3>6. QED
      BY <2>1, <3>2, <3>4, <3>5
  <2>3. CASE refresh # None
    <3>1. IsSequence(refresh) /\ Fixtures = ToSet(refresh)
      BY <2>3, FixtureAssumption DEF Fixtures
    <3>2. plan = run_fixture_ingestion_pipeline(refresh)
      BY <1>1, <2>3 DEF PlanOf, execute_fixture_refresh_and_normalization
    <3>3. IsSequence(plan.writes) /\ \A w \in ToSet(plan.writes) : IngestWrite(Fixtures, w)
      BY <3>1, <3>2, IngestHas
    <3>4. PlanInScope(part, plan.writes)
      BY <2>1, <3>3 DEF PlanInScope, IngestWrite
    <3>5. \A w \in ToSet(plan.writes) : Orderly(shelf, part, Fixtures, w)
      BY <2>1, <3>3, <3>4 DEF PlanInScope, Orderly
    <3>6. ~ plan.raises => Ingests(shelf, plan.writes, Fixtures)
      BY <3>1, <3>2, IngestDelivers
    <3>7. ~ plan.raises => Promised(part, shelf, plan.writes, Fixtures, company)
      BY <2>1, <3>6 DEF Promised
    <3>8. QED
      BY <2>1, <3>4, <3>5, <3>7
  <2>4. QED
    BY <2>2, <2>3
<1>2. CASE s = 2
  <2>1. part = "parse" /\ part \in PartsOf(s) /\ plan = run_evidence_extraction_pipeline(shelf)
    BY <1>2 DEF FirstPart, Worked, PartsOf, PlanOf
  <2>2. \A d \in shelf["documents"] : d.kind \in DocumentKind
    BY DEF KindsOK
  <2>3. /\ PlanInScope("parse", plan.writes)
        /\ ~ plan.raises => \A d \in shelf["documents"] : Extracts(shelf, plan.writes, d)
    BY <2>1, <2>2, ExtractionHas
  <2>4. \A w \in ToSet(plan.writes) : Orderly(shelf, part, Fixtures, w)
    BY <1>2, <2>1, <2>3 DEF PlanInScope, Orderly
  <2>5. ~ plan.raises => Promised(part, shelf, plan.writes, Fixtures, company)
    BY <2>1, <2>3 DEF Promised, ExtractsAll
  <2>6. QED
    BY <2>1, <2>3, <2>4, <2>5
<1>3. CASE s = 3
  <2>1. part = "research" /\ part \in PartsOf(s) /\ plan = run_research_workflow(shelf, company, Today)
    BY <1>3 DEF FirstPart, Worked, PartsOf, PlanOf
  <2>2. PICK found, c : found = Resolved(ResearchCompanies(shelf), company) /\ c = The(found)
    OBVIOUS
  <2>3. /\ ResearchWrites(plan.writes, c, Today, BriefId(shelf, c))
        /\ ~ plan.raises => found # {} /\ Researches(shelf, plan.writes, c, Today)
    BY <2>1, <2>2, ResearchHas
  <2>4. PlanInScope(part, plan.writes)
        /\ \A w \in ToSet(plan.writes) : BriefsOf(w, c, Today, BriefId(shelf, c))
    BY <2>1, <2>3 DEF ResearchWrites
  <2>5. \A w \in ToSet(plan.writes) : Orderly(shelf, part, Fixtures, w)
    BY <2>1, <2>4 DEF PlanInScope, Orderly
  <2>6. ~ plan.raises => Promised(part, shelf, plan.writes, Fixtures, company)
    BY <2>1, <2>2, <2>3 DEF Promised
  <2>7. QED
    BY <2>1, <2>4, <2>5, <2>6
<1>4. CASE s = 4
  <2>1. part = "features" /\ part \in PartsOf(s) /\ plan = run_feature_mapping_workflow(shelf, company)
    BY <1>4 DEF FirstPart, Worked, PartsOf, PlanOf
  <2>2. PICK found, c : found = Resolved(ResearchedCompanies(shelf), company) /\ c = The(found)
    OBVIOUS
  <2>3. PICK brief : brief = Latest(Of(shelf.research_briefs, c))
    OBVIOUS
  <2>4. /\ PlanInScope("features", plan.writes)
        /\ ~ plan.raises => found # {} /\ Of(shelf.research_briefs, c) # {} /\ Maps(shelf, plan.writes, c, brief)
    BY <2>1, <2>2, <2>3, MappingHas
  <2>5. ~ plan.raises => MapsLatest(shelf, plan.writes, c)
    BY <2>3, <2>4 DEF MapsLatest, LatestBrief
  <2>6. \A w \in ToSet(plan.writes) : Orderly(shelf, part, Fixtures, w)
    BY <2>1, <2>4 DEF PlanInScope, Orderly
  <2>7. ~ plan.raises => Promised(part, shelf, plan.writes, Fixtures, company)
    BY <2>1, <2>2, <2>4, <2>5 DEF Promised
  <2>8. QED
    BY <2>1, <2>4, <2>6, <2>7
<1>5. QED
  BY <1>1, <1>2, <1>3, <1>4 DEF Worked

(* The features that the mapping left are what the generation needs.       *)
LEMMA MappedFeatures ==
    ASSUME NEW fs, FilesOK(fs), NEW c, NEW brief, Maps(fs, <<>>, c, brief),
           NEW S, S = Of(fs.features, c)
    PROVE  /\ {f.name : f \in S} = FeatureName
           /\ \A n \in FeatureName : FeatureKey(c, n, brief) \in {f.id : f \in S}
<1>1. "features" \in AllCategories /\ "features" # "gates" /\ "features" \notin Categories
  BY DEF AllCategories, Categories
<1>2. \A f \in fs["features"] : FeatureOK(FactsIn(fs), f)
  <2>1. \A f \in fs["features"] : Rests(FactsIn(fs), "features", f)
    BY <1>1, FilesDue
  <2>2. QED
    BY <1>1, <2>1 DEF Rests
<1>3. ASSUME NEW n \in FeatureName
      PROVE  \E f \in S : f.name = n /\ f.id = FeatureKey(c, n, brief)
  <2>1. PICK k : k = FeatureKey(c, n, brief)
    OBVIOUS
  <2>2. Kept(fs, "features", k, [brief |-> brief.id, company |-> c])
    BY <2>1, OwedNothing DEF Maps
  <2>3. PICK f \in fs["features"] : f.id = k
    BY <1>1, <2>2 DEF Kept, HasKey, Key
  <2>4. f.company = c
    BY <1>1, <2>2, <2>3 DEF Kept, AllFit, Fits, Key
  <2>5. f.name = n
    <3>1. FeatureOK(FactsIn(fs), f)
      BY <1>2
    <3>2. f.id[2] = f.name
      BY <3>1 DEF FeatureOK
    <3>3. k[2] = n
      BY <2>1 DEF FeatureKey
    <3>4. QED
      BY <2>3, <3>2, <3>3
  <2>6. f \in S
    BY <2>3, <2>4 DEF Of
  <2>7. QED
    BY <2>1, <2>3, <2>5, <2>6
<1>4. \A f \in S : f.name \in FeatureName
  BY <1>2 DEF Of, FeatureOK
<1>5. {f.name : f \in S} = FeatureName
  BY <1>3, <1>4
<1>6. \A n \in FeatureName : FeatureKey(c, n, brief) \in {f.id : f \in S}
  BY <1>3
<1>7. QED
  BY <1>5, <1>6

(* So does the plan for the signals.                                       *)
LEMMA SignalsDeliver ==
    ASSUME FilesOK(shelf), Promised("features", shelf, <<>>, Fixtures, company), NEW c, c = CompanyOf(4),
           NEW plan \in run_signal_generation_workflow(shelf, c)
    PROVE  /\ PlanInScope("signals", plan.writes)
           /\ \A w \in ToSet(plan.writes) : Orderly(shelf, "signals", Fixtures, w)
           /\ ~ plan.raises => Promised("signals", shelf, plan.writes, Fixtures, company)
<1>1. PICK found : found = Resolved(ResearchedCompanies(shelf), company)
  OBVIOUS
<1>2. c = The(found)
  BY <1>1 DEF CompanyOf
<1>3. found # {} /\ MapsLatest(shelf, <<>>, c)
  BY <1>1, <1>2 DEF Promised
<1>4. PICK brief, S : brief = Latest(Of(shelf.research_briefs, c)) /\ S = Of(shelf.features, c)
  OBVIOUS
<1>5. Of(shelf.research_briefs, c) # {} /\ Maps(shelf, <<>>, c, brief) /\ LatestBrief(shelf, c) = brief
  BY <1>3, <1>4 DEF MapsLatest, LatestBrief
<1>6. /\ {f.name : f \in S} = FeatureName
      /\ \A n \in FeatureName : FeatureKey(c, n, brief) \in {f.id : f \in S}
  BY <1>4, <1>5, MappedFeatures
<1>7. /\ PlanInScope("signals", plan.writes)
      /\ ~ plan.raises => Generates(shelf, plan.writes, c, brief, {f.id : f \in S})
  BY <1>4, <1>5, <1>6, GenerationHas
<1>8. ~ plan.raises => GeneratesLatest(shelf, plan.writes, c)
  BY <1>3, <1>5, <1>6, <1>7 DEF GeneratesLatest
<1>9. ~ plan.raises => Promised("signals", shelf, plan.writes, Fixtures, company)
  BY <1>1, <1>2, <1>3, <1>8 DEF Promised
<1>10. \A w \in ToSet(plan.writes) : Orderly(shelf, "signals", Fixtures, w)
  BY <1>7 DEF PlanInScope, Orderly
<1>11. QED
  BY <1>7, <1>9, <1>10

-----------------------------------------------------------------------------
(* The invariant: the shelf is in order, the work at hand does what it     *)
(* promised and the steps that are done vouch for what they left.          *)
Names == {f.name : f \in Fixtures}
WorkInv ==
    \/ work = NoWork
    \/ /\ pc = "execute" /\ step \in Worked /\ work.part \in PartsOf(step)
       /\ PlanInScope(work.part, work.writes)
       /\ \A w \in ToSet(work.writes) : Orderly(shelf, work.part, Fixtures, w)
       /\ ~ work.raises => Promised(work.part, shelf, work.writes, Fixtures, company)
VouchInv ==
    /\ ShelfOK(shelf, Names)
    /\ Early => NoneToday(shelf)
    /\ WorkInv
    /\ \A s \in Steps : Reached(s) => Vouched(s, shelf, Fixtures, company)

(* It holds of what an earlier day left.                                   *)
LEMMA VouchInvInit == ChainInit => VouchInv
<1> SUFFICES ASSUME ChainInit PROVE VouchInv
  OBVIOUS
<1>1. PICK old \in Yesterday : shelf = FilesOf(old)
  BY DEF ChainInit
<1>2. PICK names : names = Names
  OBVIOUS
<1>3. ShelfOK(shelf, names) /\ NoneToday(shelf)
  BY <1>1, PastShelf
<1>4. WorkInv
  BY DEF ChainInit, WorkInv
<1>5. ASSUME NEW s \in Steps PROVE ~ Reached(s)
  <2>1. ~ Written(s) /\ ~ Concluded /\ pc = "write_execution"
    BY NoneAssumption DEF ChainInit, Init, Written, Concluded, Verdict, WorkflowStatus
  <2>2. QED
    BY <2>1 DEF Reached, GoneBy, Recording
<1>6. QED
  BY <1>2, <1>3, <1>4, <1>5 DEF VouchInv

(* The parts of the steps.                                                 *)
LEMMA PartsAre == \A s : PartsOf(s) \subseteq Part
  BY DEF PartsOf, Part

(* A step that leaves the files, the fixtures and the company alone and    *)
(* ends the work, if there was any.                                        *)
LEMMA VouchedIdle ==
    ASSUME VouchInv, IInv, [Next]_vars, UNCHANGED <<shelf, refresh, company>>, work' = NoWork,
           ~ (pc = "execute" /\ pc' = "record_step")
    PROVE  VouchInv'
<1>1. Fixtures' = Fixtures /\ Names' = Names
  BY DEF Fixtures, Names
<1>2. ShelfOK(shelf', Names')
  BY <1>1 DEF VouchInv
<1>3. Early' => NoneToday(shelf')
  BY EarlyStep DEF VouchInv
<1>4. WorkInv'
  BY DEF WorkInv
<1>5. \A s \in Steps : Reached(s)' => Vouched(s, shelf', Fixtures', company')
  BY <1>1, ReachedStep DEF VouchInv
<1>6. QED
  BY <1>2, <1>3, <1>4, <1>5 DEF VouchInv

(* A step of the loop outside the executors finds no work.                 *)
Elsewhere ==
    \/ WriteExecution \/ WriteQueuedStep \/ RecordStartEvent \/ BeginStep
    \/ RecordStep \/ RecordExecution \/ WriteRaises \/ Retry \/ GiveUp \/ RecordFailure
    \/ NextStep \/ FinishExecution \/ RecordTerminalEvent \/ RecordAlerts \/ RecordRunSummary

(* So it keeps the invariant.                                              *)
LEMMA ElsewhereKeeps ==
    ASSUME VouchInv, IInv, Elsewhere, UNCHANGED chain
    PROVE  VouchInv'
<1>1. UNCHANGED <<shelf, refresh, company, work>>
  BY DEF chain
<1>2. pc # "execute"
  BY DEF Elsewhere, WriteExecution, WriteQueuedStep, RecordStartEvent, BeginStep, RecordStep,
     RecordExecution, WriteRaises, Retry, GiveUp, RecordFailure, NextStep, FinishExecution,
     RecordTerminalEvent, RecordAlerts, RecordRunSummary
<1>3. work = NoWork
  BY <1>2 DEF VouchInv, WorkInv
<1>4. [Next]_vars
  BY DEF Elsewhere, Next, Advance
<1>5. QED
  BY <1>1, <1>2, <1>3, <1>4, VouchedIdle

(* Where the workflow stands still.                                        *)
LEMMA VarsKept ==
    ASSUME UNCHANGED vars
    PROVE  /\ pc' = pc /\ step' = step /\ (Early' <=> Early)
           /\ \A s : Reached(s)' <=> Reached(s)
BY DEF vars, files, locals, Early, Reached, GoneBy, Recording, Concluded, Written, Status

(* An executor starts a part of its work.                                  *)
LEMMA StartKeeps ==
    ASSUME VouchInv, UNCHANGED <<vars, shelf, refresh, company>>, pc = "execute", step \in Worked,
           NEW part, part \in PartsOf(step), NEW plan,
           work' = [part |-> part, writes |-> plan.writes, raises |-> plan.raises],
           PlanInScope(part, plan.writes),
           \A w \in ToSet(plan.writes) : Orderly(shelf, part, Fixtures, w),
           ~ plan.raises => Promised(part, shelf, plan.writes, Fixtures, company)
    PROVE  VouchInv'
<1>1. UNCHANGED vars /\ shelf' = shelf /\ company' = company /\ Fixtures' = Fixtures /\ Names' = Names
  BY DEF Fixtures, Names
<1>2. /\ pc' = pc /\ step' = step /\ (Early' <=> Early)
      /\ \A s : Reached(s)' <=> Reached(s)
  BY <1>1, VarsKept
<1>3. work'.part = part /\ work'.writes = plan.writes /\ work'.raises = plan.raises
  OBVIOUS
<1>4. WorkInv'
  BY <1>1, <1>2, <1>3 DEF WorkInv
<1>5. \A s \in Steps : Reached(s)' => Vouched(s, shelf', Fixtures', company')
  BY <1>1, <1>2 DEF VouchInv
<1>6. ShelfOK(shelf', Names') /\ (Early' => NoneToday(shelf'))
  BY <1>1, <1>2 DEF VouchInv
<1>7. QED
  BY <1>4, <1>5, <1>6 DEF VouchInv

(* The first part of a step.                                               *)
LEMMA StartWorkKeeps ==
    ASSUME VouchInv, ChainInv, StartWork
    PROVE  VouchInv'
<1>1. PICK plan, part : plan = PlanOf(step) /\ part = FirstPart(step)
  OBVIOUS
<1>2. /\ pc = "execute" /\ step \in Worked
      /\ work' = [part |-> part, writes |-> plan.writes, raises |-> plan.raises]
      /\ UNCHANGED <<vars, shelf, refresh, company>>
  BY <1>1 DEF StartWork
<1>3. FilesOK(shelf) /\ KindsOK(shelf) /\ refresh \in Refresh
  BY DEF VouchInv, ShelfOK, ChainInv
<1>4. step = 2 => NoneToday(shelf)
  BY DEF VouchInv, Early
<1>5. /\ part \in PartsOf(step) /\ PlanInScope(part, plan.writes)
      /\ \A w \in ToSet(plan.writes) : Orderly(shelf, part, Fixtures, w)
      /\ ~ plan.raises => Promised(part, shelf, plan.writes, Fixtures, company)
  BY <1>1, <1>2, <1>3, <1>4, PlanDelivers
<1>6. QED
  BY <1>2, <1>5, StartKeeps

(* The second part of step 4.                                              *)
LEMMA StartSignalsKeeps ==
    ASSUME VouchInv, ChainInv, StartSignals
    PROVE  VouchInv'
<1>1. PICK plan \in run_signal_generation_workflow(shelf, CompanyOf(step)) :
        work' = [part |-> "signals", writes |-> plan.writes, raises |-> plan.raises]
  BY DEF StartSignals
<1>2. /\ pc = "execute" /\ work.part = "features" /\ work.writes = <<>> /\ ~ work.raises
      /\ UNCHANGED <<vars, shelf, refresh, company>>
  BY DEF StartSignals, Finished
<1>3. NoWork.part # "features"
  BY DEF NoWork
<1>4. /\ step \in Worked /\ "features" \in PartsOf(step)
      /\ Promised("features", shelf, <<>>, Fixtures, company)
  BY <1>2, <1>3 DEF VouchInv, WorkInv
<1>5. step = 4 /\ "signals" \in PartsOf(step)
  BY <1>4 DEF PartsOf, Worked
<1>6. FilesOK(shelf)
  BY DEF ChainInv
<1>7. /\ PlanInScope("signals", plan.writes)
      /\ \A w \in ToSet(plan.writes) : Orderly(shelf, "signals", Fixtures, w)
      /\ ~ plan.raises => Promised("signals", shelf, plan.writes, Fixtures, company)
  BY <1>1, <1>4, <1>5, <1>6, SignalsDeliver
<1>8. QED
  BY <1>1, <1>2, <1>4, <1>5, <1>7, StartKeeps

(* A file is written.                                                      *)
LEMMA WriteNextKeeps ==
    ASSUME VouchInv, ChainInv, IInv, WriteNext
    PROVE  VouchInv'
<1>1. PICK writes, w, rest, part :
        writes = work.writes /\ w = Head(writes) /\ rest = Tail(writes) /\ part = work.part
  OBVIOUS
<1>2. /\ pc = "execute" /\ writes # <<>> /\ shelf' = Put(shelf, w)
      /\ work' = [work EXCEPT !.writes = Tail(@)]
      /\ UNCHANGED <<vars, refresh, company>>
  BY <1>1 DEF WriteNext
<1>3. work'.part = part /\ work'.writes = rest /\ work'.raises = work.raises
  BY <1>1, <1>2 DEF ChainInv
<1>4. NoWork.writes = <<>>
  BY DEF NoWork
<1>5. /\ step \in Worked /\ part \in PartsOf(step) /\ PlanInScope(part, writes)
      /\ \A v \in ToSet(writes) : Orderly(shelf, part, Fixtures, v)
      /\ ~ work.raises => Promised(part, shelf, writes, Fixtures, company)
  BY <1>1, <1>2, <1>4 DEF VouchInv, WorkInv
<1>6. part \in Part /\ IsSequence(writes) /\ shelf = [c \in AllCategories |-> shelf[c]]
  BY <1>5, PartsAre DEF PlanInScope, ChainInv, FilesOK
<1>7. w \in ToSet(writes) /\ IsSequence(rest) /\ ToSet(rest) \subseteq ToSet(writes)
  BY <1>1, <1>2, <1>6, TailIs, HeadHas
<1>8. InScope(part, w) /\ Orderly(shelf, part, Fixtures, w)
  BY <1>5, <1>7 DEF PlanInScope
<1>9. Heads(shelf, part, writes)
  BY <1>1, <1>2, <1>6, <1>8 DEF Heads
<1>10. UNCHANGED vars /\ company' = company /\ Fixtures' = Fixtures /\ Names' = Names
  BY <1>2 DEF Fixtures, Names
<1>11. /\ pc' = pc /\ step' = step /\ (Early' <=> Early)
       /\ \A s : Reached(s)' <=> Reached(s)
  BY <1>10, VarsKept
<1>12. PICK g : g = shelf'
  OBVIOUS
<1>13. g = Put(shelf, w) /\ g = Put(shelf, Head(writes))
  BY <1>1, <1>2, <1>12
<1>14. WorkInv'
  <2>1. PlanInScope(part, rest)
    BY <1>5, <1>7 DEF PlanInScope
  <2>2. \A v \in ToSet(rest) : Orderly(g, part, Fixtures, v)
    BY <1>5, <1>6, <1>7, <1>8, <1>13, OrderlyOn
  <2>3. ~ work.raises => Promised(part, g, rest, Fixtures, company)
    <3>1. SUFFICES ASSUME ~ work.raises PROVE Promised(part, g, rest, Fixtures, company)
      OBVIOUS
    <3>2. Promised(part, shelf, writes, Fixtures, company)
      BY <1>5, <3>1
    <3>3. QED
      BY <1>1, <1>9, <1>13, <3>2, PromisedOn
  <2>4. QED
    BY <1>2, <1>3, <1>5, <1>10, <1>11, <1>12, <2>1, <2>2, <2>3 DEF WorkInv
<1>15. ASSUME NEW s \in Steps, Reached(s)
       PROVE  Vouched(s, g, Fixtures, company)
  <2>1. s < step /\ Vouched(s, shelf, Fixtures, company)
    BY <1>2, <1>15, ReachedAtWork DEF VouchInv
  <2>2. s \in Nat /\ s >= 1
    BY DEF Steps
  <2>3. s \in Worked
    BY <1>5, <2>1, <2>2 DEF Worked
  <2>4. PICK t : t = step
    OBVIOUS
  <2>5. t \in Worked /\ s < t /\ part \in PartsOf(t)
    BY <1>5, <2>1, <2>4
  <2>6. QED
    BY <1>6, <1>8, <1>13, <2>1, <2>3, <2>5, VouchedElse
<1>16. ShelfOK(g, Names) /\ (Early => NoneToday(g))
  <2>1. ShelfOK(shelf, Names) /\ (Early => NoneToday(shelf))
    BY DEF VouchInv
  <2>2. PICK fixtures, names : fixtures = Fixtures /\ names = {f.name : f \in fixtures}
    OBVIOUS
  <2>3. names = Names
    BY <2>2 DEF Names
  <2>4. ShelfOK(g, names) /\ (NoneToday(shelf) /\ part # "research" => NoneToday(g))
    BY <1>6, <1>8, <1>13, <2>1, <2>2, <2>3, ShelfPut
  <2>5. Early => part # "research"
    BY <1>2, <1>5 DEF Early, Preparing, PartsOf, Worked
  <2>6. QED
    BY <2>1, <2>3, <2>4, <2>5
<1>17. QED
  BY <1>10, <1>11, <1>12, <1>14, <1>15, <1>16 DEF VouchInv

(* A write raises: nothing is promised any more.                           *)
LEMMA WorkWriteRaisesKeeps ==
    ASSUME VouchInv, ChainInv, WorkWriteRaises
    PROVE  VouchInv'
<1>1. PICK writes, part, rest : /\ writes = work.writes /\ part = work.part
                                /\ rest = IF InHandler(work.writes, work.raises) THEN <<>>
                                          ELSE <<FailureOf(work.writes)>>
  OBVIOUS
<1>2. /\ pc = "execute" /\ writes # <<>>
      /\ work' = [work EXCEPT !.raises = TRUE, !.writes = rest]
      /\ UNCHANGED <<vars, shelf, refresh, company>>
  BY <1>1 DEF WorkWriteRaises
<1>3. work'.part = part /\ work'.writes = rest /\ work'.raises = TRUE
  BY <1>1, <1>2 DEF ChainInv
<1>4. NoWork.writes = <<>>
  BY DEF NoWork
<1>5. /\ step \in Worked /\ part \in PartsOf(step) /\ PlanInScope(part, writes)
      /\ \A v \in ToSet(writes) : Orderly(shelf, part, Fixtures, v)
  BY <1>1, <1>2, <1>4 DEF VouchInv, WorkInv
<1>6. part \in Part
  BY <1>5, PartsAre
<1>7. part = "parse" => NoneToday(shelf)
  BY <1>5 DEF PartsOf, Worked, VouchInv, Early
<1>8. PICK failure : failure = FailureOf(writes)
  OBVIOUS
<1>9. Orderly(shelf, part, Fixtures, failure) /\ InScope(part, failure)
  BY <1>5, <1>6, <1>7, <1>8, FailureIsOrderly DEF Orderly
<1>10. rest = <<>> \/ rest = <<failure>>
  BY <1>1, <1>8
<1>11. IsSequence(rest) /\ ToSet(rest) \subseteq {failure}
  <2>1. IsSequence(<<>>) /\ IsSequence(<<failure>>)
    <3>1. IsSequence(<<>>)
      BY DEF IsSequence
    <3>2. QED
      BY <3>1, TupleIs
  <2>2. ToSet(<<>>) = {} /\ ToSet(<<failure>>) = {failure}
    BY TupleHas
  <2>3. QED
    BY <1>10, <2>1, <2>2
<1>12. PlanInScope(part, rest) /\ \A w \in ToSet(rest) : Orderly(shelf, part, Fixtures, w)
  BY <1>9, <1>11 DEF PlanInScope
<1>13. PICK plan : plan = [writes |-> rest, raises |-> TRUE]
  OBVIOUS
<1>14. plan.writes = rest /\ plan.raises = TRUE
  BY <1>13
<1>15. work' = [part |-> part, writes |-> plan.writes, raises |-> plan.raises]
  BY <1>1, <1>2, <1>14 DEF ChainInv
<1>16. QED
  BY <1>2, <1>5, <1>12, <1>14, <1>15, StartKeeps

(* An operator rejects a brief.                                            *)
LEMMA RejectsKeeps ==
    ASSUME VouchInv, ChainInv, ChainInv', NEW id, OperatorRejects(id)
    PROVE  VouchInv'
<1>1. /\ shelf' = [shelf EXCEPT !.research_briefs =
               {IF b.id = id THEN [b EXCEPT !.review = "rejected"] ELSE b : b \in @}]
      /\ UNCHANGED <<vars, refresh, work, company>>
  BY DEF OperatorRejects
<1>2. PICK g : g = shelf'
  OBVIOUS
<1>3. FilesOK(shelf) /\ FilesOK(g)
  BY <1>2 DEF ChainInv
<1>4. SameFiles(shelf, g)
  BY <1>1, <1>2, <1>3, RejectionIs
<1>5. PICK names : names = Names
  OBVIOUS
<1>6. ShelfOK(shelf, names)
  BY <1>5 DEF VouchInv
<1>7. UNCHANGED vars /\ company' = company /\ work' = work /\ Fixtures' = Fixtures /\ Names' = Names
  BY <1>1 DEF Fixtures, Names
<1>8. /\ pc' = pc /\ step' = step /\ (Early' <=> Early)
      /\ \A s : Reached(s)' <=> Reached(s)
  BY <1>7, VarsKept
<1>9. ShelfOK(g, names) /\ (NoneToday(shelf) => NoneToday(g))
  BY <1>4, <1>6, ShelfSame
<1>10. \A s \in Steps : Reached(s) => Vouched(s, g, Fixtures, company)
  BY <1>3, <1>4, <1>6, VouchedSame DEF VouchInv
<1>11. WorkInv'
  <2>1. CASE work = NoWork
    BY <1>7, <2>1 DEF WorkInv
  <2>2. CASE work # NoWork
    <3>1. /\ pc = "execute" /\ step \in Worked /\ work.part \in PartsOf(step)
          /\ PlanInScope(work.part, work.writes)
          /\ \A w \in ToSet(work.writes) : Orderly(shelf, work.part, Fixtures, w)
          /\ ~ work.raises => Promised(work.part, shelf, work.writes, Fixtures, company)
      BY <2>2 DEF VouchInv, WorkInv
    <3>2. \A w \in ToSet(work.writes) : Orderly(g, work.part, Fixtures, w)
      BY <1>4, <1>6, <3>1, OrderlySame
    <3>3. ~ work.raises => Promised(work.part, g, work.writes, Fixtures, company)
      BY <1>3, <1>4, <1>6, <3>1, PromisedSame
    <3>4. QED
      BY <1>2, <1>7, <1>8, <3>1, <3>2, <3>3 DEF WorkInv
  <2>3. QED
    BY <2>1, <2>2
<1>12. QED
  BY <1>2, <1>5, <1>7, <1>8, <1>9, <1>10, <1>11 DEF VouchInv

(* The executor returns: its step vouches for what it promised.            *)
LEMMA CompanyStays ==
    ASSUME Researches(shelf, <<>>, company, Today), Resolved(ResearchedCompanies(shelf), company) # {}
    PROVE  CompanyOf(4) = company
<1>1. PICK known : known = ResearchedCompanies(shelf)
  OBVIOUS
<1>2. PICK a : a.company = company /\ Owed(shelf, <<>>, "evidence_assessments", a.id, a)
  BY DEF Researches
<1>3. Kept(shelf, "evidence_assessments", a.id, a)
  BY <1>2, OwedNothing
<1>4. a \in shelf["evidence_assessments"]
  BY <1>3 DEF Kept, HasKey, AllFit, Fits
<1>5. company \in known
  BY <1>1, <1>2, <1>4 DEF ResearchedCompanies
<1>6. PICK found : found = Resolved(known, company)
  OBVIOUS
<1>7. found = {company}
  BY <1>1, <1>5, <1>6 DEF Resolved
<1>8. CompanyOf(4) = The(found)
  BY <1>1, <1>6 DEF CompanyOf
<1>9. QED
  BY <1>7, <1>8 DEF The

(* Only the steps before this one were done.                               *)
LEMMA WorkReturnsKeeps ==
    ASSUME VouchInv, ChainInv, IInv, WorkReturns
    PROVE  VouchInv'
<1>1. /\ step \in Worked => Finished(LastPart(step)) /\ company' = ResolvedCompany(step)
      /\ step \notin Worked => company' = company
      /\ ExecutorReturns /\ work' = NoWork /\ UNCHANGED <<shelf, refresh>>
  BY DEF WorkReturns
<1>2. pc = "execute" /\ pc' = "record_step" /\ step' = step /\ [Next]_vars
  BY <1>1 DEF ExecutorReturns, Next, Advance
<1>3. Fixtures' = Fixtures /\ Names' = Names /\ shelf' = shelf
  BY <1>1 DEF Fixtures, Names
<1>4. step \in Nat /\ step >= 1
  BY DEF IInv, TypeOK, Steps
<1>5. ASSUME step \in Worked
      PROVE  Promised(LastPart(step), shelf, <<>>, Fixtures, company)
  <2>1. work.part = LastPart(step) /\ work.writes = <<>> /\ ~ work.raises
    BY <1>1, <1>5 DEF Finished
  <2>2. LastPart(step) # "none"
    BY <1>5 DEF LastPart, FirstPart, Worked
  <2>3. work # NoWork
    BY <2>1, <2>2 DEF NoWork
  <2>4. QED
    BY <2>1, <2>3 DEF VouchInv, WorkInv
<1>6. ASSUME step \in Worked
      PROVE  Vouched(step, shelf, Fixtures, company')
  <2>1. CASE step = 1
    <3>1. LastPart(step) = "ingest"
      BY <1>5, <1>6, <2>1 DEF LastPart, FirstPart, Worked
    <3>2. QED
      BY <1>5, <1>6, <2>1, <3>1 DEF Promised, Vouched
  <2>2. CASE step = 2
    <3>1. LastPart(step) = "parse"
      BY <1>5, <1>6, <2>2 DEF LastPart, FirstPart, Worked
    <3>2. QED
      BY <1>5, <1>6, <2>2, <3>1 DEF Promised, Vouched
  <2>3. CASE step = 3
    <3>1. LastPart(step) = "research"
      BY <1>6, <2>3 DEF LastPart, FirstPart, Worked
    <3>2. PICK found : found = Resolved(ResearchCompanies(shelf), company)
      OBVIOUS
    <3>3. company' = The(found)
      BY <1>1, <1>6, <2>3, <3>2 DEF ResolvedCompany, CompanyOf
    <3>4. Researches(shelf, <<>>, company', Today)
      BY <1>5, <1>6, <3>1, <3>2, <3>3 DEF Promised
    <3>5. QED
      BY <2>3, <3>4 DEF Vouched
  <2>4. CASE step = 4
    <3>1. LastPart(step) = "signals"
      BY <2>4 DEF LastPart
    <3>2. PICK found : found = Resolved(ResearchedCompanies(shelf), company)
      OBVIOUS
    <3>3. company' = The(found)
      BY <1>1, <1>6, <2>4, <3>2 DEF ResolvedCompany, CompanyOf
    <3>4. GeneratesLatest(shelf, <<>>, company')
      BY <1>5, <1>6, <3>1, <3>2, <3>3 DEF Promised
    <3>5. QED
      BY <2>4, <3>4 DEF Vouched
  <2>5. QED
    BY <1>6, <2>1, <2>2, <2>3, <2>4 DEF Worked
<1>7. ASSUME NEW s \in Steps, Reached(s)
      PROVE  Vouched(s, shelf, Fixtures, company')
  <2>1. s < step /\ Vouched(s, shelf, Fixtures, company)
    BY <1>2, <1>7, ReachedAtWork DEF VouchInv
  <2>2. s \in Nat
    BY DEF Steps
  <2>3. CASE s = 3 /\ step = 4
    <3>1. Researches(shelf, <<>>, company, Today)
      BY <2>1, <2>3 DEF Vouched
    <3>2. LastPart(step) = "signals" /\ step \in Worked
      BY <2>3 DEF LastPart, Worked
    <3>3. Resolved(ResearchedCompanies(shelf), company) # {}
      BY <1>5, <3>2 DEF Promised
    <3>4. company' = CompanyOf(4)
      BY <1>1, <2>3, <3>2 DEF ResolvedCompany
    <3>5. company' = company
      BY <3>1, <3>3, <3>4, CompanyStays
    <3>6. QED
      BY <2>1, <3>5
  <2>4. CASE s \in {1, 2}
    BY <2>1, <2>4 DEF Vouched
  <2>5. CASE s \notin {1, 2} /\ ~ (s = 3 /\ step = 4)
    <3>1. CASE step \in Worked
      <4>1. s \notin {3, 4}
        BY <1>4, <2>1, <2>2, <2>5, <3>1 DEF Worked
      <4>2. QED
        BY <2>5, <4>1 DEF Vouched
    <3>2. CASE step \notin Worked
      BY <1>1, <2>1, <3>2
    <3>3. QED
      BY <3>1, <3>2
  <2>6. QED
    BY <2>3, <2>4, <2>5
<1>8. ASSUME NEW s \in Steps, Reached(s)'
      PROVE  Vouched(s, shelf', Fixtures', company')
  <2>1. Reached(s) \/ step = s
    BY <1>2, <1>8, ReachedStep
  <2>2. CASE Reached(s)
    BY <1>3, <1>7, <2>2
  <2>3. CASE step = s /\ s \in Worked
    BY <1>3, <1>6, <2>3
  <2>4. CASE s \notin Worked
    BY <2>4 DEF Vouched, Worked
  <2>5. QED
    BY <2>1, <2>2, <2>3, <2>4
<1>9. ShelfOK(shelf', Names') /\ (Early' => NoneToday(shelf'))
  BY <1>2, <1>3, EarlyStep DEF VouchInv
<1>10. WorkInv'
  BY <1>1 DEF WorkInv
<1>11. QED
  BY <1>8, <1>9, <1>10 DEF VouchInv

(* Every step keeps it.                                                    *)
LEMMA VouchInvStep == VouchInv /\ ChainInv /\ ChainInv' /\ IInv /\ [ChainNext]_allVars => VouchInv'
<1> SUFFICES ASSUME VouchInv, ChainInv, ChainInv', IInv, [ChainNext]_allVars PROVE VouchInv'
  OBVIOUS
<1>1. [Next]_vars
  BY ChainStep
<1>2. CASE WorkRaises \/ DieAmidWork
  <2>1. UNCHANGED <<shelf, refresh, company>> /\ work' = NoWork /\ pc' \in {"handle", "dead"}
    BY <1>2 DEF WorkRaises, ExecutorRaises, DieAmidWork, Die
  <2>2. QED
    BY <1>1, <2>1, VouchedIdle
<1>3. CASE \E b \in shelf.research_briefs : OperatorRejects(b.id)
  BY <1>3, RejectsKeeps
<1>4. CASE UNCHANGED allVars
  <2>1. UNCHANGED vars /\ UNCHANGED <<shelf, refresh, company, work>>
    BY <1>4 DEF allVars, chain
  <2>2. Fixtures' = Fixtures /\ Names' = Names
    BY <2>1 DEF Fixtures, Names
  <2>3. /\ pc' = pc /\ step' = step /\ (Early' <=> Early)
        /\ \A s : Reached(s)' <=> Reached(s)
    BY <2>1, VarsKept
  <2>4. WorkInv'
    BY <2>1, <2>2, <2>3 DEF VouchInv, WorkInv
  <2>5. QED
    BY <2>1, <2>2, <2>3, <2>4 DEF VouchInv
<1>5. CASE ChainAdvance
  <2>1. \/ Elsewhere /\ UNCHANGED chain
        \/ WorkRaises \/ WriteNext \/ WorkWriteRaises \/ WorkReturns \/ StartWork \/ StartSignals
    BY <1>5 DEF ChainAdvance, Other, Elsewhere
  <2>2. QED
    BY <1>2, <2>1, ElsewhereKeeps, WriteNextKeeps, WorkWriteRaisesKeeps, WorkReturnsKeeps,
       StartWorkKeeps, StartSignalsKeeps
<1>6. QED
  BY <1>2, <1>3, <1>4, <1>5 DEF ChainNext

-----------------------------------------------------------------------------
(* What the steps that are done vouch for is what they are held to.        *)
LEMMA StatusKept ==
    ASSUME NEW workflow, NEW item, NEW status,
           Owed(shelf, <<>>, "outcomes", <<workflow, item>>, status)
    PROVE  StatusOf(workflow, item) = {status}
<1>1. PICK k : k = <<workflow, item>>
  OBVIOUS
<1>2. Kept(shelf, "outcomes", k, status)
  BY <1>1, OwedNothing
<1>3. (\E o \in shelf.outcomes : o.id = k) /\ (\A o \in shelf.outcomes : o.id = k => o.status = status)
  BY <1>2 DEF Kept, HasKey, AllFit, Fits, Key
<1>4. QED
  BY <1>1, <1>3 DEF StatusOf, ById

(* Of the extraction.                                                      *)
LEMMA ExtractionVouched ==
    ASSUME FilesOK(shelf), RefusedOK(shelf, Names), Ingests(shelf, <<>>, Fixtures), ExtractsAll(shelf, <<>>)
    PROVE  Extraction
<1> SUFFICES ASSUME NEW d \in shelf.documents
             PROVE  /\ ~RefusedOnFile(d.id)
                    /\ StatusOf("evidence_extraction", d.id) = {"succeeded"}
                    /\ \E s \in shelf.evidence_spans : s.document = d.id
  BY DEF Extraction
<1>1. Extracts(shelf, <<>>, d)
  BY DEF ExtractsAll
<1>2. StatusOf("evidence_extraction", d.id) = {"succeeded"}
  BY <1>1, StatusKept DEF Extracts
<1>3. \E s \in shelf.evidence_spans : s.document = d.id
  <2>1. PICK k : k[1][1] = d.id /\ Owed(shelf, <<>>, "evidence_spans", k, None)
    BY <1>1 DEF Extracts
  <2>2. Kept(shelf, "evidence_spans", k, None)
    BY <2>1, OwedNothing
  <2>3. PICK s \in shelf["evidence_spans"] : s.id = k
    BY <2>2 DEF Kept, HasKey, Key
  <2>4. "evidence_spans" \in AllCategories
    BY DEF AllCategories
  <2>5. SpanOK(FactsIn(shelf), s)
    BY <2>4, FilesDue DEF Rests
  <2>6. QED
    BY <2>1, <2>3, <2>5 DEF SpanOK
<1>4. ASSUME NEW g \in shelf.gates, g.target = d.id,
             g.name \in {"ingestion_normalization", "parsing_inputs", "evidence_bundle"}
      PROVE  ~ Refused(g)
  <2>1. ASSUME NEW name, name \in {"parsing_inputs", "evidence_bundle"}, g.name = name
        PROVE  ~ Refused(g)
    <3>1. PICK k : k = <<name, d.id>>
      OBVIOUS
    <3>2. Owed(shelf, <<>>, "gates", k, None)
      BY <1>1, <2>1, <3>1 DEF Extracts
    <3>3. Kept(shelf, "gates", k, None)
      BY <3>2, OwedNothing
    <3>4. Key("gates", g) = k
      BY <1>4, <2>1, <3>1 DEF Key, GateKeyed
    <3>5. QED
      BY <3>3, <3>4 DEF Kept, AllFit, Fits
  <2>2. ASSUME g.name = "ingestion_normalization", Refused(g)
        PROVE  FALSE
    <3>1. g.target \in Names
      BY <1>4, <2>2 DEF RefusedOK
    <3>2. PICK f \in Fixtures : g.target = f.name
      BY <3>1 DEF Names
    <3>3. PICK k : k = <<"ingestion_normalization", f.name>>
      OBVIOUS
    <3>4. Owed(shelf, <<>>, "gates", k, None)
      BY <3>3 DEF Ingests
    <3>5. Kept(shelf, "gates", k, None)
      BY <3>4, OwedNothing
    <3>6. Key("gates", g) = k
      BY <2>2, <3>2, <3>3 DEF Key, GateKeyed
    <3>7. QED
      BY <2>2, <3>5, <3>6 DEF Kept, AllFit, Fits
  <2>3. QED
    BY <1>4, <2>1, <2>2
<1>5. ~ RefusedOnFile(d.id)
  BY <1>4 DEF RefusedOnFile
<1>6. QED
  BY <1>2, <1>3, <1>5

(* Of the research.                                                        *)
LEMMA ResearchVouched ==
    ASSUME Researches(shelf, <<>>, company, Today)
    PROVE  Research
<1>1. PICK a : /\ a.company = company /\ a.created = Today
               /\ Owed(shelf, <<>>, "evidence_assessments", a.id, a)
               /\ IF a.grade \in {"strong", "moderate"}
                  THEN \E b : /\ b.company = company /\ b.created = Today /\ b.assessment = a.id
                              /\ Owed(shelf, <<>>, "research_briefs", b.id, b)
                  ELSE Owed(shelf, <<>>, "outcomes", <<"research_workflow", company>>, "attention_required")
  BY DEF Researches
<1>2. Kept(shelf, "evidence_assessments", a.id, a)
  BY <1>1, OwedNothing
<1>3. a \in Of(shelf.evidence_assessments, company)
  BY <1>1, <1>2 DEF Kept, HasKey, AllFit, Fits, Of
<1>4. CASE a.grade \in {"strong", "moderate"}
  <2>1. PICK b : /\ b.company = company /\ b.created = Today /\ b.assessment = a.id
                 /\ Owed(shelf, <<>>, "research_briefs", b.id, b)
    BY <1>1, <1>4
  <2>2. Kept(shelf, "research_briefs", b.id, b)
    BY <2>1, OwedNothing
  <2>3. PICK x \in shelf["research_briefs"] : Key("research_briefs", x) = b.id
    BY <2>2 DEF Kept, HasKey
  <2>4. x.company = company /\ x.created = Today /\ x.assessment = a.id
    BY <2>1, <2>2, <2>3 DEF Kept, AllFit, Fits
  <2>5. x \in Of(shelf.research_briefs, company)
    BY <2>4 DEF Of
  <2>6. QED
    BY <1>1, <1>3, <1>4, <2>4, <2>5 DEF Research
<1>5. CASE a.grade \notin {"strong", "moderate"}
  <2>1. StatusOf("research_workflow", company) = {"attention_required"}
    BY <1>1, <1>5, StatusKept
  <2>2. QED
    BY <1>1, <1>3, <1>5, <2>1 DEF Research
<1>6. QED
  BY <1>4, <1>5

(* Of the signals.                                                         *)
LEMMA SignalsVouched ==
    ASSUME GeneratesLatest(shelf, <<>>, company)
    PROVE  Signals
<1>1. PICK briefs, brief : briefs = Of(shelf.research_briefs, company) /\ brief = Latest(briefs)
  OBVIOUS
<1>2. briefs # {} /\ Maps(shelf, <<>>, company, brief)
  BY <1>1 DEF GeneratesLatest, MapsLatest, LatestBrief
<1>3. PICK ids : /\ Generates(shelf, <<>>, company, brief, ids)
                 /\ \A n \in FeatureName : FeatureKey(company, n, brief) \in ids
  BY <1>1 DEF GeneratesLatest, LatestBrief
<1>4. PICK s : /\ s.company = company /\ s.hypothesis = brief.hypothesis /\ s.features = ids
               /\ Owed(shelf, <<>>, "signals", s.id, s)
  BY <1>3 DEF Generates
<1>5. Kept(shelf, "signals", s.id, s)
  BY <1>4, OwedNothing
<1>6. s \in Of(shelf.signals, company)
  BY <1>4, <1>5 DEF Kept, HasKey, AllFit, Fits, Of
<1>7. PICK n, k : n \in FeatureName /\ k = FeatureKey(company, n, brief)
  BY DEF FeatureName
<1>8. Kept(shelf, "features", k, [brief |-> brief.id, company |-> company])
  BY <1>2, <1>7, OwedNothing DEF Maps
<1>9. PICK f \in shelf["features"] : Key("features", f) = k
  BY <1>8 DEF Kept, HasKey
<1>10. f.brief = brief.id
  BY <1>8, <1>9 DEF Kept, AllFit, Fits
<1>11. f.id = k /\ k[3] = brief.created
  BY <1>7, <1>9 DEF Key, FeatureKey
<1>12. BriefDay(f) = brief.created /\ f.id \in s.features
  BY <1>3, <1>4, <1>7, <1>11 DEF BriefDay
<1>13. PICK of : of = {x \in shelf.features : x.brief = brief.id /\ BriefDay(x) = brief.created}
  OBVIOUS
<1>14. f.id \in {x.id : x \in of} \cap s.features
  BY <1>10, <1>12, <1>13
<1>15. QED
  BY <1>1, <1>2, <1>4, <1>6, <1>13, <1>14 DEF Signals

(* A step that succeeded is done.                                          *)
LEMMA ReachedVouch == VouchInv /\ ChainInv /\ IInv /\ EndInv => StepsVouchForTheirOutputs
<1> SUFFICES ASSUME VouchInv, ChainInv, IInv, EndInv PROVE StepsVouchForTheirOutputs
  OBVIOUS
<1>1. FilesOK(shelf) /\ RefusedOK(shelf, Names)
  BY DEF VouchInv, ChainInv, ShelfOK
<1>2. ASSUME Succeeded(2) PROVE Extraction
  <2>1. 2 \in Steps
    BY <1>2 DEF Succeeded
  <2>2. 1 \in Steps /\ 1 \in 1..(2 - 1)
    BY StepsTyped
  <2>3. Reached(2) /\ Reached(1)
    BY <1>2, <2>1, <2>2, SucceededIsReached
  <2>4. Ingests(shelf, <<>>, Fixtures) /\ ExtractsAll(shelf, <<>>)
    BY <2>1, <2>2, <2>3 DEF VouchInv, Vouched
  <2>5. QED
    BY <1>1, <2>4, ExtractionVouched
<1>3. ASSUME Succeeded(3) PROVE Research
  <2>1. 3 \in Steps
    BY <1>3 DEF Succeeded
  <2>2. Reached(3)
    BY <1>3, <2>1, SucceededIsReached
  <2>3. Researches(shelf, <<>>, company, Today)
    BY <2>1, <2>2 DEF VouchInv, Vouched
  <2>4. QED
    BY <2>3, ResearchVouched
<1>4. ASSUME Succeeded(4) PROVE Signals
  <2>1. 4 \in Steps
    BY <1>4 DEF Succeeded
  <2>2. Reached(4)
    BY <1>4, <2>1, SucceededIsReached
  <2>3. GeneratesLatest(shelf, <<>>, company)
    BY <2>1, <2>2 DEF VouchInv, Vouched
  <2>4. QED
    BY <2>3, SignalsVouched
<1>5. QED
  BY <1>2, <1>3, <1>4 DEF StepsVouchForTheirOutputs

(* Whatever fixtures are ingested today or were the day before, whichever  *)
(* write of an executor or of the loop fails, whatever is retried and      *)
(* whatever the operators reject meanwhile: once the extraction is         *)
(* recorded as succeeded, no document on file is refused or without its    *)
(* spans; once the research is, the evidence is graded today and a brief   *)
(* filed or attention asked for; once the signals are, one of them rests   *)
(* on the features of the latest brief.                                    *)
THEOREM StepsVouch == ChainSpec => []StepsVouchForTheirOutputs
<1>1. ChainInit => IInv /\ EndInv /\ ChainInv /\ VouchInv
  BY InitIInv, EndInvInit, ChainInvInit, VouchInvInit DEF ChainInit
<1>2. IInv /\ EndInv /\ ChainInv /\ VouchInv /\ [ChainNext]_allVars
        => IInv' /\ EndInv' /\ ChainInv' /\ VouchInv'
  BY ChainStep, NextIInv, EndInvStep, ChainInvStep, VouchInvStep
<1>3. IInv /\ EndInv /\ ChainInv /\ VouchInv => StepsVouchForTheirOutputs
  BY ReachedVouch
<1>4. QED
  BY <1>1, <1>2, <1>3, PTL DEF ChainSpec
=============================================================================
