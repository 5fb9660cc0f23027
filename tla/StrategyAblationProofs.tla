----------------------- MODULE StrategyAblationProofs -----------------------
(***************************************************************************)
(* What holds of the comparison of strategies for every number of bars,    *)
(* every price path, every set of research and whichever write fails or    *)
(* whenever the process dies.                                              *)
(***************************************************************************)
EXTENDS StrategyAblation, FiniteSetTheorems, WellFoundedInduction, TLAPS

-----------------------------------------------------------------------------
(* Choices are well defined.                                               *)

(* A finite set has an element that nothing in it comes before.            *)
LEMMA FirstExists ==
    ASSUME NEW E, IsFiniteSet(E), E # {}, NEW R,
           \A a, b, c \in E : <<a, b>> \in R /\ <<b, c>> \in R => <<a, c>> \in R,
           \A a \in E : <<a, a>> \notin R
    PROVE  \E s \in E : \A o \in E : <<o, s>> \notin R
<1> DEFINE Before(s) == {o \in E : <<o, s>> \in R}
           T == {Before(s) : s \in E}
<1>1. T # {}
  <2>1. PICK e \in E : TRUE
    OBVIOUS
  <2>2. Before(e) \in T
    OBVIOUS
  <2>3. QED
    BY <2>2
<1>2. T \subseteq FiniteSubsetsOf(E)
  <2>1. \A s \in E : Before(s) \in SUBSET E
    OBVIOUS
  <2>2. \A S \in SUBSET E : IsFiniteSet(S)
    BY FS_Subset
  <2>3. QED
    BY ZenonT(60), <2>1, <2>2 DEF FiniteSubsetsOf
<1>3. PICK S \in T : \A Q \in T : ~ (<<Q, S>> \in StrictSubsetOrdering(E))
  <2> HIDE DEF T
  <2>1. IsWellFoundedOn(StrictSubsetOrdering(E), FiniteSubsetsOf(E))
    BY FS_StrictSubsetOrderingWellFounded
  <2>2. QED
    BY <1>1, <1>2, <2>1, WFMin
<1>4. PICK s \in E : S = Before(s)
  OBVIOUS
<1>5. ASSUME NEW o \in E, <<o, s>> \in R PROVE FALSE
  <2>1. Before(o) \subseteq Before(s) /\ o \in Before(s) /\ o \notin Before(o)
    BY <1>5
  <2>2. <<Before(o), Before(s)>> \in StrictSubsetOrdering(E)
    BY <2>1 DEF StrictSubsetOrdering
  <2>3. QED
    BY <1>3, <1>4, <2>2
<1>6. QED
  BY <1>5

(* Signals with identifiers of their own.                                  *)
Comparable(S) ==
    /\ IsFiniteSet(S)
    /\ \A s \in S : s.id \in Nat /\ s.effective \in Nat /\ s.score \in Int
    /\ \A s, t \in S : s.id = t.id => s = t

LEMMA ComparableSubset ==
    ASSUME NEW S, Comparable(S), NEW T \in SUBSET S
    PROVE  Comparable(T)
BY FS_Subset DEF Comparable

LEMMA BestExists ==
    ASSUME NEW E, Comparable(E), E # {}
    PROVE  \E s \in E : \A o \in E \ {s} : Child!Preferred(s, o)
<1> DEFINE R == {w \in E \X E : Child!Preferred(w[1], w[2])}
<1>1. \A a, b \in E : <<a, b>> \in R <=> Child!Preferred(a, b)
  OBVIOUS
<1>2. \A a \in E : a.id \in Nat /\ a.effective \in Nat /\ a.score \in Int
  BY DEF Comparable
<1>3. /\ \A a, b, c \in E : Child!Preferred(a, b) /\ Child!Preferred(b, c) => Child!Preferred(a, c)
      /\ \A a \in E : ~ Child!Preferred(a, a)
      /\ \A a, b \in E : a.id # b.id => Child!Preferred(a, b) \/ Child!Preferred(b, a)
  BY <1>2 DEF Child!Preferred
<1> HIDE DEF R
<1>4. PICK s \in E : \A o \in E : <<o, s>> \notin R
  BY <1>1, <1>3, FirstExists DEF Comparable
<1>5. \A o \in E \ {s} : o.id # s.id
  BY DEF Comparable
<1>6. QED
  BY <1>1, <1>3, <1>4, <1>5

(* The latest text signal that is effective by a time is one of them.      *)
LEMMA LatestTextExists ==
    ASSUME NEW r, NEW time, Comparable(r.signals), TextUpTo(r, time) # {}
    PROVE  LatestText(r, time) \in TextUpTo(r, time)
<1> DEFINE E == TextUpTo(r, time)
           Later(t, u) == u.effective < t.effective \/ (u.effective = t.effective /\ u.id < t.id)
           R == {w \in E \X E : Later(w[1], w[2])}
<1>1. Comparable(E)
  <2>1. E \subseteq r.signals
    BY DEF TextUpTo, _text_signals_in_slice, TextSignals
  <2>2. QED
    BY <2>1, ComparableSubset
<1>2. \A a \in E : a.id \in Nat /\ a.effective \in Nat
  BY <1>1 DEF Comparable
<1>3. /\ \A a, b, c \in E : Later(a, b) /\ Later(b, c) => Later(a, c)
      /\ \A a \in E : ~ Later(a, a)
      /\ \A a, b \in E : a.id # b.id => Later(a, b) \/ Later(b, a)
  BY <1>2
<1>4. \A a, b \in E : <<a, b>> \in R <=> Later(a, b)
  OBVIOUS
<1>5. PICK s \in E : \A o \in E : <<o, s>> \notin R
  <2> HIDE DEF E, R, Later
  <2>1. IsFiniteSet(E) /\ E # {}
    BY <1>1 DEF Comparable, E
  <2>2. QED
    BY <1>3, <1>4, <2>1, FirstExists
<1>6. \A o \in E \ {s} : o.id # s.id
  BY <1>1 DEF Comparable
<1>7. \A o \in E \ {s} : o.effective < s.effective \/ (o.effective = s.effective /\ o.id < s.id)
  BY <1>2, <1>3, <1>4, <1>5, <1>6
<1>8. QED
  BY <1>7 DEF LatestText

-----------------------------------------------------------------------------
(* What the strategies make of what they find.                             *)

(* What a run of a scenario finds. *)
LEMMA ResearchFacts ==
    ASSUME NEW s \in Scenarios, NEW r \in ToSet(s.researches)
    PROVE  Comparable(r.signals) /\ \A b \in Bar : s.prices.close[b] \in Nat \ {0}
BY AblationAssumption DEF Comparable, Bar

LEMMA ClampTyped == \A x \in Int : _clamp(x) \in Int
<1> SUFFICES ASSUME NEW x \in Int PROVE _clamp(x) \in Int
  OBVIOUS
<1>1. Min({100, x}) \in Int
  <2>1. \E m \in {100, x} : \A y \in {100, x} : m <= y
    OBVIOUS
  <2>2. Min({100, x}) \in {100, x}
    BY <2>1 DEF Min
  <2>3. QED
    BY <2>2
<1>2. PICK y \in Int : y = Min({100, x})
  BY <1>1
<1>3. \E m \in {-100, y} : \A z \in {-100, y} : m >= z
  OBVIOUS
<1>4. Max({-100, y}) \in {-100, y}
  BY <1>3 DEF Max
<1>5. QED
  BY <1>2, <1>4 DEF _clamp

LEMMA MomentumTyped ==
    ASSUME NEW p, \A b \in Bar : p.close[b] \in Nat \ {0}, NEW b \in 4..NumBars
    PROVE  Momentum(p, b) \in Int
<1>1. b \in Bar /\ b - 3 \in Bar
  BY AblationAssumption DEF Bar
<1>2. PICK x \in Int, y \in Nat \ {0} : x = p.close[b] /\ y = p.close[b - 3]
  BY <1>1
<1>3. ((x - y) * 2000) \div y \in Int
  BY <1>2
<1>4. QED
  BY <1>2, <1>3, ClampTyped DEF Momentum

(* The variant signals of every strategy have identifiers of their own,    *)
(* and are available from when they take effect.                           *)
Materialized(S) == Comparable(S) /\ \A s \in S : s.available = s.effective

LEMMA IndexedMaterialized ==
    ASSUME NEW D, IsFiniteSet(D), NEW f, DOMAIN f = D, f = [x \in D |-> f[x]],
           \A x \in D : /\ f[x].id \in Nat /\ f[x].effective \in Nat /\ f[x].score \in Int
                        /\ f[x].available = f[x].effective,
           \A x, y \in D : f[x].id = f[y].id => x = y
    PROVE  Materialized({f[x] : x \in D})
<1> DEFINE S == {f[x] : x \in D}
<1>1. f \in Surjection(D, S)
  BY DEF Surjection
<1>2. IsFiniteSet(S)
  <2> HIDE DEF S
  <2>1. QED
    BY <1>1, FS_Surjection
<1>3. QED
  BY <1>2 DEF Materialized, Comparable

(* A variant signal, field by field. *)
LEMMA VariantFields ==
    ASSUME NEW r, NEW family, NEW id, NEW effective, NEW score, NEW sources, NEW snapshots
    PROVE  LET s == _variant_signal(r, family, id, effective, score, sources, snapshots)
           IN  s.id = id /\ s.effective = effective /\ s.available = effective /\ s.score = score
BY DEF _variant_signal

LEMMA VariantsMaterialized ==
    ASSUME NEW r, Comparable(r.signals), NEW p, \A b \in Bar : p.close[b] \in Nat \ {0},
           NEW family \in Family
    PROVE  Materialized(materialize_variant_signals(family, p, r))
<1>1. Materialized(NaiveBaseline(p, r))
  <2> DEFINE s == _variant_signal(r, "naive", 0, CloseAt[1], 0, {}, {"prices"})
  <2>1. s.id = 0 /\ s.effective = CloseAt[1] /\ s.available = CloseAt[1] /\ s.score = 0
    BY VariantFields
  <2>2. CloseAt[1] \in Nat
    BY AblationAssumption
  <2>3. IsFiniteSet({s})
    BY FS_Singleton
  <2>4. NaiveBaseline(p, r) = {s}
    BY DEF NaiveBaseline
  <2> HIDE DEF s
  <2>5. QED
    BY <2>1, <2>2, <2>3, <2>4 DEF Materialized, Comparable
<1>2. Materialized(TextOnlyCandidate(p, r))
  <2> DEFINE D == _text_signals_in_slice(r)
             f == [t \in D |-> _variant_signal(r, "text_only", t.id, t.effective, t.score, {t},
                                               {"research"})]
  <2>1. D \subseteq r.signals
    BY DEF _text_signals_in_slice, TextSignals
  <2>2. Comparable(D)
    BY <2>1, ComparableSubset
  <2>3. \A t \in D : /\ f[t].id = t.id /\ f[t].effective = t.effective
                     /\ f[t].available = t.effective /\ f[t].score = t.score
    BY VariantFields
  <2>4. TextOnlyCandidate(p, r) = {f[t] : t \in D}
    BY DEF TextOnlyCandidate
  <2>5. DOMAIN f = D /\ f = [x \in D |-> f[x]]
    OBVIOUS
  <2> HIDE DEF D, f
  <2>6. QED
    BY <2>2, <2>3, <2>4, <2>5, IndexedMaterialized DEF Comparable
<1>3. IsFiniteSet(4..NumBars) /\ \A b \in 4..NumBars : b \in Nat /\ CloseAt[b] \in Nat
  <2>1. NumBars \in Nat /\ \A b \in 4..NumBars : b \in 1..NumBars
    BY AblationAssumption
  <2>2. IsFiniteSet(4..NumBars)
    BY <2>1, FS_Interval
  <2>3. \A b \in 1..NumBars : CloseAt[b] \in Nat
    BY AblationAssumption
  <2>4. QED
    BY <2>1, <2>2, <2>3
<1>4. Materialized(PriceOnlyMomentum(p, r))
  <2> DEFINE D == 4..NumBars
             f == [b \in D |-> _variant_signal(r, "price_only", b, CloseAt[b], Momentum(p, b), {},
                                               {"prices"})]
  <2>1. \A b \in D : /\ f[b].id = b /\ f[b].effective = CloseAt[b]
                     /\ f[b].available = CloseAt[b] /\ f[b].score = Momentum(p, b)
    BY VariantFields
  <2>2. \A b \in D : Momentum(p, b) \in Int
    BY MomentumTyped
  <2>3. PriceOnlyMomentum(p, r) = {f[b] : b \in D}
    BY DEF PriceOnlyMomentum
  <2>4. DOMAIN f = D /\ f = [x \in D |-> f[x]]
    OBVIOUS
  <2>5. IsFiniteSet(D) /\ \A b \in D : b \in Nat /\ CloseAt[b] \in Nat
    BY <1>3
  <2> HIDE DEF D, f
  <2>6. QED
    BY <2>1, <2>2, <2>3, <2>4, <2>5, IndexedMaterialized
<1>5. Materialized(CombinedBaseline(p, r))
  <2> DEFINE D == {c \in 4..NumBars : TextUpTo(r, CloseAt[c]) # {}}
             score(b) == _clamp((LatestText(r, CloseAt[b]).score + Momentum(p, b)) \div 2)
             f == [b \in D |-> _variant_signal(r, "combined", b, CloseAt[b], score(b),
                                  {LatestText(r, CloseAt[b])}, {"research", "prices"})]
  <2>1. \A b \in D : /\ f[b].id = b /\ f[b].effective = CloseAt[b]
                     /\ f[b].available = CloseAt[b] /\ f[b].score = score(b)
    BY VariantFields
  <2>2. ASSUME NEW b \in D PROVE score(b) \in Int
    <3>1. LatestText(r, CloseAt[b]) \in r.signals
      BY LatestTextExists DEF TextUpTo, _text_signals_in_slice, TextSignals
    <3>2. PICK x \in Int, y \in Int : x = LatestText(r, CloseAt[b]).score /\ y = Momentum(p, b)
      BY <3>1, MomentumTyped DEF Comparable
    <3>3. (x + y) \div 2 \in Int
      OBVIOUS
    <3>4. QED
      BY <3>2, <3>3, ClampTyped
  <2>3. CombinedBaseline(p, r) = {f[b] : b \in D}
    BY DEF CombinedBaseline
  <2>4. DOMAIN f = D /\ f = [x \in D |-> f[x]]
    OBVIOUS
  <2>5. IsFiniteSet(D) /\ \A b \in D : b \in Nat /\ CloseAt[b] \in Nat
    BY <1>3, FS_Subset
  <2> HIDE DEF D, f, score
  <2>6. QED
    BY <2>1, <2>2, <2>3, <2>4, <2>5, IndexedMaterialized
<1>6. QED
  BY <1>1, <1>2, <1>4, <1>5 DEF materialize_variant_signals, Family

-----------------------------------------------------------------------------
(* What the strategies make of two paths that agree up to a bar.           *)

(* The same texts up to a time are the same texts up to any time before.   *)
LEMMA TextsAgree ==
    ASSUME NEW r, Comparable(r.signals), NEW q, Comparable(q.signals),
           NEW until \in Nat, EffectiveBy(r.signals, until) = EffectiveBy(q.signals, until)
    PROVE  /\ EffectiveBy(_text_signals_in_slice(r), until)
                = EffectiveBy(_text_signals_in_slice(q), until)
           /\ \A time \in Nat : time <= until =>
                TextUpTo(r, time) = TextUpTo(q, time) /\ LatestText(r, time) = LatestText(q, time)
<1>1. \A t : t \in r.signals /\ t.effective <= until <=> t \in q.signals /\ t.effective <= until
  BY DEF EffectiveBy
<1>2. \A t : /\ t \in _text_signals_in_slice(r) /\ t.effective <= until <=>
                t \in _text_signals_in_slice(q) /\ t.effective <= until
  BY <1>1 DEF _text_signals_in_slice, TextSignals
<1>3. EffectiveBy(_text_signals_in_slice(r), until) = EffectiveBy(_text_signals_in_slice(q), until)
  BY <1>2 DEF EffectiveBy
<1>4. ASSUME NEW time \in Nat, time <= until
      PROVE  TextUpTo(r, time) = TextUpTo(q, time)
  <2>1. /\ \A t \in _text_signals_in_slice(r) : t.effective \in Nat
        /\ \A t \in _text_signals_in_slice(q) : t.effective \in Nat
    BY DEF _text_signals_in_slice, TextSignals, Comparable
  <2>2. /\ \A t \in _text_signals_in_slice(r) : t.effective <= time => t.effective <= until
        /\ \A t \in _text_signals_in_slice(q) : t.effective <= time => t.effective <= until
    BY <1>4, <2>1
  <2>3. QED
    BY <1>2, <2>2 DEF TextUpTo
<1>5. QED
  BY <1>3, <1>4 DEF LatestText

LEMMA BarsInOrder ==
    ASSUME NEW b \in Bar, NEW c \in Bar
    PROVE  /\ CloseAt[b] \in Nat /\ CloseAt[c] \in Nat
           /\ CloseAt[c] <= CloseAt[b] <=> c <= b
<1>1. /\ b \in Int /\ c \in Int /\ CloseAt[b] \in Nat /\ CloseAt[c] \in Nat
      /\ b < c => CloseAt[b] < CloseAt[c]
      /\ c < b => CloseAt[c] < CloseAt[b]
  BY AblationAssumption DEF Bar
<1>2. QED
  BY <1>1

(* Two families of signals, A by f over D and B by g over E, that are the  *)
(* same as far as they are effective by a time.                            *)
AlikeBy(time, D, f, A, E, g, B) ==
    /\ A = {f[x] : x \in D} /\ B = {g[x] : x \in E}
    /\ {x \in D : f[x].effective <= time} = {x \in E : g[x].effective <= time}
    /\ \A x \in D : f[x].effective <= time => f[x] = g[x]

LEMMA IndexedAgree ==
    ASSUME NEW time, NEW D, NEW f, NEW A, NEW E, NEW g, NEW B, AlikeBy(time, D, f, A, E, g, B)
    PROVE  EffectiveBy(A, time) = EffectiveBy(B, time)
<1>1. /\ \A s : s \in A <=> \E x \in D : s = f[x]
      /\ \A s : s \in B <=> \E x \in E : s = g[x]
  BY DEF AlikeBy
<1>2. \A x : x \in D /\ f[x].effective <= time <=> x \in E /\ g[x].effective <= time
  <2>1. \A x : /\ x \in {y \in D : f[y].effective <= time}
                  <=> x \in D /\ f[x].effective <= time
               /\ x \in {y \in E : g[y].effective <= time}
                  <=> x \in E /\ g[x].effective <= time
    OBVIOUS
  <2>2. QED
    BY <2>1 DEF AlikeBy
<1>3. \A s : s \in A /\ s.effective <= time => s \in B
  BY <1>1, <1>2 DEF AlikeBy
<1>4. \A s : s \in B /\ s.effective <= time => s \in A
  BY <1>1, <1>2 DEF AlikeBy
<1>5. QED
  BY <1>3, <1>4 DEF EffectiveBy

(* Two paths and two sets of research that agree up to a bar give every    *)
(* strategy the same variant signals up to the close of that bar.          *)
SameUpTo(b, p, r, o, q) ==
    /\ Comparable(r.signals) /\ Comparable(q.signals)
    /\ \A c \in 1..b : o.close[c] = p.close[c]
    /\ EffectiveBy(q.signals, CloseAt[b]) = EffectiveBy(r.signals, CloseAt[b])
    /\ q.features = r.features

LEMMA VariantsAgree ==
    ASSUME NEW b \in Bar, NEW p, NEW r, NEW o, NEW q, SameUpTo(b, p, r, o, q),
           NEW family \in Family
    PROVE  EffectiveBy(materialize_variant_signals(family, p, r), CloseAt[b])
             = EffectiveBy(materialize_variant_signals(family, o, q), CloseAt[b])
<1>a. /\ Comparable(r.signals) /\ Comparable(q.signals)
      /\ \A c \in 1..b : o.close[c] = p.close[c]
      /\ EffectiveBy(q.signals, CloseAt[b]) = EffectiveBy(r.signals, CloseAt[b])
      /\ q.features = r.features
  BY DEF SameUpTo
<1> DEFINE until == CloseAt[b]
<1>1. until \in Nat /\ b \in Int
  BY BarsInOrder DEF Bar
<1>2. ASSUME NEW c \in 4..NumBars
      PROVE  /\ CloseAt[c] \in Nat /\ c \in Int
             /\ CloseAt[c] <= until => c \in 1..b /\ c - 3 \in 1..b
  <2>1. c \in Bar /\ c \in Int /\ c >= 4
    BY AblationAssumption DEF Bar
  <2>2. QED
    BY <1>1, <2>1, BarsInOrder
<1>3. \A c \in 4..NumBars : CloseAt[c] <= until => Momentum(p, c) = Momentum(o, c)
  BY <1>a, <1>2 DEF Momentum
<1>4. \A fam, id, effective, score, sources, snapshots :
          _variant_signal(r, fam, id, effective, score, sources, snapshots)
            = _variant_signal(q, fam, id, effective, score, sources, snapshots)
  BY <1>a DEF _variant_signal
<1>5. \A fam, id, effective, score, sources, snapshots :
          _variant_signal(r, fam, id, effective, score, sources, snapshots).effective = effective
  BY VariantFields
<1>6. NaiveBaseline(p, r) = NaiveBaseline(o, q)
  BY <1>4 DEF NaiveBaseline
<1>7. EffectiveBy(TextOnlyCandidate(p, r), until) = EffectiveBy(TextOnlyCandidate(o, q), until)
  <2> DEFINE Of_(s) == [t \in _text_signals_in_slice(s) |->
                 _variant_signal(s, "text_only", t.id, t.effective, t.score, {t}, {"research"})]
             f == Of_(r)
             g == Of_(q)
  <2>1. EffectiveBy(_text_signals_in_slice(r), until) = EffectiveBy(_text_signals_in_slice(q), until)
    BY <1>a, <1>1, TextsAgree
  <2>2. /\ \A t \in _text_signals_in_slice(r) : f[t].effective = t.effective
        /\ \A t \in _text_signals_in_slice(q) : g[t].effective = t.effective
    BY VariantFields
  <2>3. \A t \in _text_signals_in_slice(r) : t \in _text_signals_in_slice(q) => f[t] = g[t]
    BY <1>4
  <2>4. /\ TextOnlyCandidate(p, r) = {f[t] : t \in _text_signals_in_slice(r)}
        /\ TextOnlyCandidate(o, q) = {g[t] : t \in _text_signals_in_slice(q)}
    BY DEF TextOnlyCandidate
  <2> HIDE DEF f, g
  <2>5. {t \in _text_signals_in_slice(r) : f[t].effective <= until}
          = {t \in _text_signals_in_slice(q) : g[t].effective <= until}
    BY <2>1, <2>2 DEF EffectiveBy
  <2>6. \A t \in _text_signals_in_slice(r) : f[t].effective <= until => f[t] = g[t]
    BY <2>1, <2>2, <2>3 DEF EffectiveBy
  <2>7. AlikeBy(until, _text_signals_in_slice(r), f, TextOnlyCandidate(p, r),
                _text_signals_in_slice(q), g, TextOnlyCandidate(o, q))
    BY <2>4, <2>5, <2>6 DEF AlikeBy
  <2>8. QED
    BY <2>7, IndexedAgree
<1>8. EffectiveBy(PriceOnlyMomentum(p, r), until) = EffectiveBy(PriceOnlyMomentum(o, q), until)
  <2> DEFINE Of_(a, s) == [c \in 4..NumBars |->
                 _variant_signal(s, "price_only", c, CloseAt[c], Momentum(a, c), {}, {"prices"})]
             f == Of_(p, r)
             g == Of_(o, q)
  <2>1. \A c \in 4..NumBars : f[c].effective = CloseAt[c] /\ g[c].effective = CloseAt[c]
    BY VariantFields
  <2>2. \A c \in 4..NumBars : CloseAt[c] <= until => f[c] = g[c]
    BY <1>3, <1>4
  <2>3. /\ PriceOnlyMomentum(p, r) = {f[c] : c \in 4..NumBars}
        /\ PriceOnlyMomentum(o, q) = {g[c] : c \in 4..NumBars}
    BY DEF PriceOnlyMomentum
  <2> HIDE DEF f, g
  <2>4. AlikeBy(until, 4..NumBars, f, PriceOnlyMomentum(p, r),
                4..NumBars, g, PriceOnlyMomentum(o, q))
    BY <2>1, <2>2, <2>3 DEF AlikeBy
  <2>5. QED
    BY <2>4, IndexedAgree
<1>9. EffectiveBy(CombinedBaseline(p, r), until) = EffectiveBy(CombinedBaseline(o, q), until)
  <2> DEFINE Both(s) == {c \in 4..NumBars : TextUpTo(s, CloseAt[c]) # {}}
             Of_(a, s) == [c \in 4..NumBars |->
               _variant_signal(s, "combined", c, CloseAt[c],
                   _clamp((LatestText(s, CloseAt[c]).score + Momentum(a, c)) \div 2),
                   {LatestText(s, CloseAt[c])}, {"research", "prices"})]
             f == Of_(p, r)
             g == Of_(o, q)
  <2>1. \A c \in 4..NumBars : f[c].effective = CloseAt[c] /\ g[c].effective = CloseAt[c]
    BY VariantFields
  <2>2. \A c \in 4..NumBars : CloseAt[c] <= until =>
          /\ TextUpTo(r, CloseAt[c]) = TextUpTo(q, CloseAt[c])
          /\ LatestText(r, CloseAt[c]) = LatestText(q, CloseAt[c])
    BY <1>a, <1>1, <1>2, TextsAgree
  <2>3. ASSUME NEW c \in 4..NumBars, CloseAt[c] <= until
        PROVE  f[c] = g[c]
    <3>1. LatestText(r, CloseAt[c]) = LatestText(q, CloseAt[c]) /\ Momentum(p, c) = Momentum(o, c)
      BY <1>3, <2>2, <2>3
    <3>2. PICK t, x : t = LatestText(r, CloseAt[c]) /\ x = Momentum(p, c)
      OBVIOUS
    <3>3. /\ f[c] = _variant_signal(r, "combined", c, CloseAt[c], _clamp((t.score + x) \div 2), {t},
                                    {"research", "prices"})
          /\ g[c] = _variant_signal(q, "combined", c, CloseAt[c], _clamp((t.score + x) \div 2), {t},
                                    {"research", "prices"})
      BY <3>1, <3>2
    <3>4. QED
      BY <1>4, <3>3
  <2>4. /\ CombinedBaseline(p, r) = {f[c] : c \in Both(r)}
        /\ CombinedBaseline(o, q) = {g[c] : c \in Both(q)}
    BY DEF CombinedBaseline
  <2> HIDE DEF f, g
  <2>5. {c \in Both(r) : f[c].effective <= until} = {c \in Both(q) : g[c].effective <= until}
    BY <2>1, <2>2
  <2> HIDE DEF Both
  <2>6. \A c \in Both(r) : f[c].effective <= until => f[c] = g[c]
    BY <2>1, <2>3 DEF Both
  <2>7. AlikeBy(until, Both(r), f, CombinedBaseline(p, r), Both(q), g, CombinedBaseline(o, q))
    BY <2>4, <2>5, <2>6 DEF AlikeBy
  <2>8. QED
    BY <2>7, IndexedAgree
<1>10. QED
  BY <1>6, <1>7, <1>8, <1>9 DEF materialize_variant_signals, Family

-----------------------------------------------------------------------------
(* The simulations of a run.                                               *)

(* A simulation that is under way is that of the next family, on what its  *)
(* strategy makes of the prices and of what this run found, and what it    *)
(* has selected so far was there to select.                                *)
RunInv ==
    /\ scenario \in Scenarios
    /\ n \in 0..Len(scenario.researches) /\ (pc # "idle" => n >= 1)
    /\ pc = "idle" => work = Quiet
    /\ runs \in Seq(ToSet(runs))
SelectionInv ==
    \A b \in Bar : decision[b] # None /\ decision[b].signal # None =>
        decision[b].signal.effective <= CloseAt[b] /\ decision[b].signal.features <= CloseAt[b]
SimulationInv ==
    pc = "simulating" =>
        /\ FamilyOfChild \in Family
        /\ signals = materialize_variant_signals(FamilyOfChild, scenario.prices, research)
        /\ DOMAIN decision = Bar /\ SelectionInv
IInv == RunInv /\ SimulationInv

(* What a strategy makes of its inputs depends on the scenario alone. *)
LEMMA VariantsKept ==
    ASSUME scenario' = scenario, NEW family, NEW p, NEW r
    PROVE  materialize_variant_signals(family, p, r)' = materialize_variant_signals(family, p, r)
<1>1. TextSignals(r)' = TextSignals(r)
  BY DEF TextSignals, config
<1>2. _text_signals_in_slice(r)' = _text_signals_in_slice(r)
  BY <1>1 DEF _text_signals_in_slice
<1>3. \A fam, id, effective, score, sources, snapshots :
          _variant_signal(r, fam, id, effective, score, sources, snapshots)'
            = _variant_signal(r, fam, id, effective, score, sources, snapshots)
  BY DEF _variant_signal, config
<1>4. \A time : TextUpTo(r, time)' = TextUpTo(r, time)
  BY <1>2 DEF TextUpTo
<1>5. \A time : LatestText(r, time)' = LatestText(r, time)
  BY <1>4 DEF LatestText
<1>6. NaiveBaseline(p, r)' = NaiveBaseline(p, r)
  BY <1>3 DEF NaiveBaseline
<1>7. TextOnlyCandidate(p, r)' = TextOnlyCandidate(p, r)
  <2>1. \A x : x \in TextOnlyCandidate(p, r) <=>
                 \E t \in _text_signals_in_slice(r) :
                   x = _variant_signal(r, "text_only", t.id, t.effective, t.score, {t}, {"research"})
    BY DEF TextOnlyCandidate
  <2>2. \A x : x \in TextOnlyCandidate(p, r)' <=>
                 \E t \in _text_signals_in_slice(r)' :
                   x = _variant_signal(r, "text_only", t.id, t.effective, t.score, {t}, {"research"})'
    BY DEF TextOnlyCandidate
  <2>3. \A x : x \in TextOnlyCandidate(p, r)' <=> x \in TextOnlyCandidate(p, r)
    <3>1. \A t : _variant_signal(r, "text_only", t.id, t.effective, t.score, {t}, {"research"})'
                 = _variant_signal(r, "text_only", t.id, t.effective, t.score, {t}, {"research"})
      BY <1>3
    <3>2. ASSUME NEW x, x \in TextOnlyCandidate(p, r)'
          PROVE  x \in TextOnlyCandidate(p, r)
      <4>1. PICK t \in _text_signals_in_slice(r)' :
               x = _variant_signal(r, "text_only", t.id, t.effective, t.score, {t}, {"research"})'
        BY <2>2, <3>2
      <4>2. t \in _text_signals_in_slice(r)
        BY <1>2
      <4>3. QED
        BY <2>1, <3>1, <4>1, <4>2
    <3>3. ASSUME NEW x, x \in TextOnlyCandidate(p, r)
          PROVE  x \in TextOnlyCandidate(p, r)'
      <4>1. PICK t \in _text_signals_in_slice(r) :
               x = _variant_signal(r, "text_only", t.id, t.effective, t.score, {t}, {"research"})
        BY <2>1, <3>3
      <4>2. t \in _text_signals_in_slice(r)'
        BY <1>2
      <4>3. QED
        BY <2>2, <3>1, <4>1, <4>2
    <3>4. QED
      BY <3>2, <3>3
  <2>4. QED
    BY <2>3
<1>8. PriceOnlyMomentum(p, r)' = PriceOnlyMomentum(p, r)
  BY <1>3 DEF PriceOnlyMomentum
<1>9. CombinedBaseline(p, r)' = CombinedBaseline(p, r)
  <2> DEFINE score(b, t) == _clamp((t.score + Momentum(p, b)) \div 2)
  <2>1. \A x : x \in CombinedBaseline(p, r) <=>
                 \E b \in {c \in 4..NumBars : TextUpTo(r, CloseAt[c]) # {}} :
                   x = _variant_signal(r, "combined", b, CloseAt[b],
                         score(b, LatestText(r, CloseAt[b])),
                         {LatestText(r, CloseAt[b])}, {"research", "prices"})
    BY DEF CombinedBaseline
  <2>2. \A x : x \in CombinedBaseline(p, r)' <=>
                 \E b \in {c \in 4..NumBars : TextUpTo(r, CloseAt[c])' # {}} :
                   x = _variant_signal(r, "combined", b, CloseAt[b],
                         score(b, LatestText(r, CloseAt[b])),
                         {LatestText(r, CloseAt[b])}, {"research", "prices"})'
    BY DEF CombinedBaseline
  <2>3. \A x : x \in CombinedBaseline(p, r)' <=> x \in CombinedBaseline(p, r)
    <3>1. ASSUME NEW b
          PROVE  _variant_signal(r, "combined", b, CloseAt[b], score(b, LatestText(r, CloseAt[b])),
                     {LatestText(r, CloseAt[b])}, {"research", "prices"})'
                 = _variant_signal(r, "combined", b, CloseAt[b], score(b, LatestText(r, CloseAt[b])),
                     {LatestText(r, CloseAt[b])}, {"research", "prices"})
      BY <1>3, <1>5
    <3>2. ASSUME NEW x, x \in CombinedBaseline(p, r)'
          PROVE  x \in CombinedBaseline(p, r)
      <4>1. PICK b \in {c \in 4..NumBars : TextUpTo(r, CloseAt[c])' # {}} :
               x = _variant_signal(r, "combined", b, CloseAt[b], score(b, LatestText(r, CloseAt[b])),
                     {LatestText(r, CloseAt[b])}, {"research", "prices"})'
        BY <2>2, <3>2
      <4>2. b \in {c \in 4..NumBars : TextUpTo(r, CloseAt[c]) # {}}
        BY <1>4
      <4>3. QED
        BY <2>1, <3>1, <4>1, <4>2
    <3>3. ASSUME NEW x, x \in CombinedBaseline(p, r)
          PROVE  x \in CombinedBaseline(p, r)'
      <4>1. PICK b \in {c \in 4..NumBars : TextUpTo(r, CloseAt[c]) # {}} :
               x = _variant_signal(r, "combined", b, CloseAt[b], score(b, LatestText(r, CloseAt[b])),
                     {LatestText(r, CloseAt[b])}, {"research", "prices"})
        BY <2>1, <3>3
      <4>2. b \in {c \in 4..NumBars : TextUpTo(r, CloseAt[c])' # {}}
        BY <1>4
      <4>3. QED
        BY <2>2, <3>1, <4>1, <4>2
    <3>4. QED
      BY <3>2, <3>3
  <2>4. QED
    BY <2>3
<1>10. QED
  BY <1>6, <1>7, <1>8, <1>9 DEF materialize_variant_signals

(* What a run found is one of the researches of its scenario. *)
LEMMA ResearchFound ==
    ASSUME RunInv, n >= 1
    PROVE  research \in ToSet(scenario.researches)
<1>1. scenario.researches \in Seq(ToSet(scenario.researches))
  BY AblationAssumption DEF RunInv
<1>2. Len(scenario.researches) \in Nat /\ n \in 1..Len(scenario.researches)
  BY <1>1 DEF RunInv
<1>3. QED
  BY <1>1, <1>2 DEF research, ToSet

(* A signal that is selected at a time took effect by then, and so did all *)
(* of its features.                                                        *)
LEMMA SelectedWasThere ==
    ASSUME Materialized(signals), NEW time \in Nat, Child!SelectSignal(time) # None
    PROVE  LET s == Child!SelectSignal(time) IN s.effective <= time /\ s.features <= time
<1> DEFINE eligible == {s \in signals : Child!Eligible(s, time)}
<1>1. eligible # {}
  BY DEF Child!SelectSignal
<1>2. Comparable(eligible)
  BY ComparableSubset DEF Materialized
<1>3. \E s \in eligible : \A o \in eligible \ {s} : Child!Preferred(s, o)
  <2> HIDE DEF eligible
  <2>1. QED
    BY <1>1, <1>2, BestExists
<1>4. Child!SelectSignal(time) \in eligible
  BY <1>1, <1>3 DEF Child!SelectSignal
<1>5. PICK s \in eligible : s = Child!SelectSignal(time)
  BY <1>4
<1>6. /\ s.effective \in Nat /\ s.available = s.effective /\ Buffer \in Nat
      /\ s.available + Buffer <= time /\ s.features <= time
  BY AblationAssumption DEF Materialized, Comparable, Child!Eligible
<1>7. s.effective <= time
  BY <1>6
<1>8. QED
  BY <1>5, <1>6, <1>7

(* The signals of a simulation under way have the shape of variants. *)
LEMMA SimulatedSignals ==
    ASSUME IInv, pc = "simulating"
    PROVE  Materialized(signals)
<1>1. scenario \in Scenarios /\ research \in ToSet(scenario.researches)
  BY ResearchFound DEF IInv, RunInv
<1>2. PICK p, r, s, family : /\ p = scenario.prices /\ r = research /\ s = scenario
                             /\ family = FamilyOfChild /\ family \in Family
  BY DEF IInv, SimulationInv
<1>3. Comparable(r.signals) /\ \A b \in Bar : p.close[b] \in Nat \ {0}
  BY <1>1, <1>2, ResearchFacts
<1>4. Materialized(materialize_variant_signals(family, p, r))
  BY <1>2, <1>3, VariantsMaterialized
<1>5. QED
  BY <1>2, <1>4 DEF IInv, SimulationInv

LEMMA InitHolds == ASSUME Init PROVE IInv
<1>1. scenario \in Scenarios /\ n = 0 /\ pc = "idle" /\ runs = <<>>
  BY DEF Init
<1>2. Len(scenario.researches) \in Nat
  BY <1>1, AblationAssumption
<1>3. runs \in Seq(ToSet(runs))
  BY <1>1
<1>4. work = Quiet
  BY DEF Init
<1>5. QED
  BY <1>1, <1>2, <1>3, <1>4 DEF IInv, RunInv, SimulationInv

(* A step that leaves the run where it is, or ends it.                     *)
LEMMA RunKept ==
    ASSUME RunInv, scenario' = scenario, n' = n, pc # "idle", runs' = runs \/ runs' = <<>>,
           pc' = "idle" => work' = Quiet
    PROVE  RunInv'
<1>1. CASE runs' = runs
  BY <1>1 DEF RunInv, Quiet
<1>2. CASE runs' = <<>>
  <2>1. runs' \in Seq(ToSet(runs'))
    BY <1>2
  <2>2. QED
    BY <2>1 DEF RunInv, Quiet
<1>3. QED
  BY <1>1, <1>2

LEMMA NextHolds == ASSUME IInv, [Next]_vars PROVE IInv'
<1> USE DEF IInv
<1>1. CASE Start
  <2>1. Len(scenario.researches) \in Nat
    BY AblationAssumption DEF RunInv
  <2>2. RunInv'
    <3>1. n \in Nat /\ n + 1 <= Len(scenario.researches)
      BY <1>1, <2>1 DEF RunInv, Start
    <3>2. n' = n + 1 /\ pc' = "starting" /\ UNCHANGED <<scenario, runs>>
      BY <1>1 DEF Start
    <3>3. QED
      BY <2>1, <3>1, <3>2 DEF RunInv
  <2>3. pc' # "simulating"
    BY <1>1 DEF Start
  <2>4. QED
    BY <2>2, <2>3 DEF SimulationInv
<1>2. CASE WriteNext \/ UNCHANGED vars
  <2>1. UNCHANGED <<signals, decision, scenario, n, runs, pc>>
    BY <1>2 DEF WriteNext, vars, simulation
  <2>2. RunInv'
    <3>1. pc = "idle" => work' = work
      BY <1>2 DEF WriteNext, vars, RunInv, Quiet, Plan
    <3>2. QED
      BY <2>1, <3>1 DEF RunInv, Quiet
  <2>3. SimulationInv'
    <3>1. SUFFICES ASSUME pc = "simulating"
                   PROVE  SimulationInv'
      BY <2>1 DEF SimulationInv
    <3>2. FamilyOfChild' = FamilyOfChild /\ research' = research
      BY <2>1 DEF FamilyOfChild, research, config
    <3>3. PICK f, p, r : f = FamilyOfChild /\ p = scenario.prices /\ r = research
      OBVIOUS
    <3>4. materialize_variant_signals(f, p, r)' = materialize_variant_signals(f, p, r)
      BY <2>1, VariantsKept
    <3>5. signals' = materialize_variant_signals(f, p, r)' /\ f \in Family
      BY <2>1, <3>1, <3>3, <3>4 DEF SimulationInv
    <3>6. SelectionInv' /\ DOMAIN decision' = Bar
      BY <2>1, <3>1 DEF SimulationInv, SelectionInv
    <3>7. QED
      BY <2>1, <3>2, <3>3, <3>5, <3>6 DEF SimulationInv
  <2>4. QED
    BY <2>2, <2>3
<1>3. CASE LoadInputs \/ Compare \/ Conclude \/ Return
  <2>1. /\ UNCHANGED <<scenario, n>> /\ runs' \in {runs, <<>>}
        /\ pc # "idle" /\ pc' # "simulating" /\ (pc' = "idle" => work' = Quiet)
    BY <1>3 DEF LoadInputs, Compare, Conclude, Return, Proceed, At
  <2>2. QED
    BY <2>1, RunKept DEF SimulationInv
<1>4. CASE MaterializeSignals
  <2>1. /\ UNCHANGED <<scenario, n, runs>> /\ pc = "comparing" /\ pc' = "simulating"
        /\ Len(runs) < Len(config.families)
        /\ signals' = materialize_variant_signals(FamilyOfChild, scenario.prices, research)
        /\ decision' = [b \in Bar |-> None]
    BY <1>4 DEF MaterializeSignals, StartSimulation, Proceed, At
  <2>2. RunInv'
    BY <2>1, RunKept
  <2>3. FamilyOfChild \in Family
    <3>1. config.families \in Seq(Family) /\ Len(runs) \in Nat
      BY AblationAssumption DEF RunInv, config
    <3>2. Len(runs) + 1 \in 1..Len(config.families)
      BY <2>1, <3>1
    <3>3. QED
      BY <3>1, <3>2 DEF FamilyOfChild
  <2>4. FamilyOfChild' = FamilyOfChild /\ research' = research
    BY <2>1 DEF FamilyOfChild, research, config
  <2>5. PICK f, p, r : f = FamilyOfChild /\ p = scenario.prices /\ r = research
    OBVIOUS
  <2>6. materialize_variant_signals(f, p, r)' = materialize_variant_signals(f, p, r)
    BY <2>1, VariantsKept
  <2>7. SelectionInv' /\ DOMAIN decision' = Bar
    BY <2>1 DEF SelectionInv
  <2>8. signals' = materialize_variant_signals(f, p, r)' /\ f \in Family
    BY <2>1, <2>3, <2>5, <2>6
  <2>9. SimulationInv'
    BY <2>1, <2>4, <2>5, <2>7, <2>8 DEF SimulationInv
  <2>10. QED
    BY <2>2, <2>9
<1>5. CASE Simulate
  <2>1. UNCHANGED <<scenario, n, runs, pc>> /\ pc = "simulating"
    BY <1>5 DEF Simulate, At
  <2>2. RunInv'
    BY <2>1, RunKept
  <2>3. /\ signals' = signals
        /\ \/ decision' = decision
           \/ \E action, target :
                decision' = [decision EXCEPT ![bar] =
                    [signal |-> Child!SelectSignal(CloseAt[bar]), action |-> action,
                     target |-> target]]
    BY <1>5 DEF Simulate, Child!Fill, Child!OpenWithoutFill, Child!Decide, Child!Report,
                Child!Raise, Child!log
  <2>4. DOMAIN decision' = Bar
    BY <2>1, <2>3 DEF SimulationInv
  <2>5. SelectionInv'
    <3> SUFFICES ASSUME NEW b \in Bar, decision'[b] # None, decision'[b].signal # None
                 PROVE  /\ decision'[b].signal.effective <= CloseAt[b]
                        /\ decision'[b].signal.features <= CloseAt[b]
      BY DEF SelectionInv
    <3>1. CASE decision'[b] = decision[b]
      BY <2>1, <3>1 DEF SimulationInv, SelectionInv
    <3>2. CASE decision'[b] # decision[b]
      <4>1. b = bar /\ decision'[b].signal = Child!SelectSignal(CloseAt[b])
        BY <2>1, <2>3, <3>2 DEF SimulationInv
      <4>2. CloseAt[b] \in Nat
        BY BarsInOrder
      <4>3. QED
        BY <2>1, <4>1, <4>2, SimulatedSignals, SelectedWasThere
    <3>3. QED
      BY <3>1, <3>2
  <2>6. FamilyOfChild' = FamilyOfChild /\ research' = research
    BY <2>1 DEF FamilyOfChild, research, config
  <2>7. PICK f, p, r : f = FamilyOfChild /\ p = scenario.prices /\ r = research
    OBVIOUS
  <2>8. materialize_variant_signals(f, p, r)' = materialize_variant_signals(f, p, r)
    BY <2>1, VariantsKept
  <2>9. signals' = materialize_variant_signals(f, p, r)' /\ f \in Family
    BY <2>1, <2>3, <2>7, <2>8 DEF SimulationInv
  <2>10. SimulationInv'
    BY <2>1, <2>4, <2>5, <2>6, <2>7, <2>9 DEF SimulationInv
  <2>11. QED
    BY <2>2, <2>10
<1>6. CASE RecordChild
  <2>1. /\ UNCHANGED <<scenario, n>> /\ pc = "simulating" /\ pc' = "comparing"
        /\ runs' = Append(runs, VariantRun(FamilyOfChild))
    BY <1>6 DEF RecordChild, Proceed, At
  <2>2. runs' \in Seq(ToSet(runs'))
    <3>1. PICK v : v = VariantRun(FamilyOfChild)
      OBVIOUS
    <3>2. runs \in Seq(ToSet(runs) \cup {v})
      BY DEF RunInv
    <3>3. runs' \in Seq(ToSet(runs) \cup {v})
      BY <2>1, <3>1, <3>2
    <3>4. QED
      BY <3>3 DEF ToSet
  <2>3. RunInv'
    BY <2>1, <2>2 DEF RunInv
  <2>4. QED
    BY <2>1, <2>3 DEF SimulationInv
<1>7. CASE WorkflowRaises \/ WriteRaises \/ Die
  <2>1. /\ UNCHANGED <<scenario, n>> /\ runs' = <<>>
        /\ pc' # "simulating"
    BY <1>7 DEF WorkflowRaises, WriteRaises, Die, Handle
  <2>2. runs' \in Seq(ToSet(runs'))
    BY <2>1
  <2>3. pc' # "idle" => n >= 1
    BY <1>7 DEF RunInv, WorkflowRaises, WriteRaises, Die, Handle, Exception, Guarded, Quiet, Plan
  <2>4. pc' = "idle" => work' = Quiet
    BY <1>7 DEF WorkflowRaises, WriteRaises, Die, Handle
  <2>5. QED
    BY <2>1, <2>2, <2>3, <2>4 DEF RunInv, SimulationInv, Quiet
<1>8. QED
  BY <1>1, <1>2, <1>3, <1>4, <1>5, <1>6, <1>7 DEF Next

(* A simulation under way is on what the strategy of its family makes of   *)
(* the inputs, and that is the same on every path that agrees so far.      *)
LEMMA NothingIsReadAhead == ASSUME IInv PROVE NoVariantReadsAhead
<1> SUFFICES ASSUME pc = "simulating", NEW b \in Bar, decision[b] # None
             PROVE  /\ decision[b].signal # None =>
                         /\ decision[b].signal.effective <= CloseAt[b]
                         /\ decision[b].signal.features <= CloseAt[b]
                    /\ \A other \in Scenarios : \A r \in ToSet(other.researches) :
                         AgreeUpTo(b, other, r) =>
                           EffectiveBy(signals, CloseAt[b]) =
                           EffectiveBy(materialize_variant_signals(FamilyOfChild, other.prices, r),
                                       CloseAt[b])
  BY DEF NoVariantReadsAhead
<1>1. decision[b].signal # None => /\ decision[b].signal.effective <= CloseAt[b]
                                   /\ decision[b].signal.features <= CloseAt[b]
  BY DEF IInv, SimulationInv, SelectionInv
<1>2. ASSUME NEW other \in Scenarios, NEW r \in ToSet(other.researches), AgreeUpTo(b, other, r)
      PROVE  EffectiveBy(signals, CloseAt[b]) =
             EffectiveBy(materialize_variant_signals(FamilyOfChild, other.prices, r), CloseAt[b])
  <2>1. scenario \in Scenarios /\ research \in ToSet(scenario.researches)
    BY ResearchFound DEF IInv, RunInv
  <2>2. PICK p, q, o, family : /\ p = scenario.prices /\ q = research /\ o = other.prices
                               /\ family = FamilyOfChild /\ family \in Family
    BY DEF IInv, SimulationInv
  <2>3. Comparable(q.signals) /\ Comparable(r.signals)
    BY <2>1, <2>2, ResearchFacts
  <2>4. SameUpTo(b, p, q, o, r)
    BY <1>2, <2>2, <2>3 DEF AgreeUpTo, SameUpTo
  <2>5. EffectiveBy(materialize_variant_signals(family, p, q), CloseAt[b])
          = EffectiveBy(materialize_variant_signals(family, o, r), CloseAt[b])
    BY <2>2, <2>4, VariantsAgree
  <2>6. QED
    BY <2>2, <2>5 DEF IInv, SimulationInv
<1>3. QED
  BY <1>1, <1>2

(* For every number of bars, every path of prices, every set of research   *)
(* and every failure: what a strategy has decided on by the close of a bar *)
(* rests on signals and features that were there by then, and no price and *)
(* no signal after that close could have changed what it had to choose     *)
(* from.                                                                   *)
THEOREM NoStrategyReadsAhead == Spec => []NoVariantReadsAhead
<1>1. Init => IInv
  BY InitHolds
<1>2. IInv /\ [Next]_vars => IInv'
  BY NextHolds
<1>3. IInv => NoVariantReadsAhead
  BY NothingIsReadAhead
<1>4. QED
  BY <1>1, <1>2, <1>3, PTL DEF Spec

-----------------------------------------------------------------------------
(* The registry: what is written, in which order, and what it relies on.   *)

(* The facts that a file stands for: that it is there, what a summary says *)
(* and that an experiment is completed.                                    *)
MetricNames == {"gross", "net", "trades", "turnover"}
FactsOf(category, items) ==
    {<<category, x.id>> : x \in items}
    \cup {<<"completed", x.id>> : x \in {y \in items : category = "experiments" /\ y.status = "completed"}}
    \cup UNION {{<<"value", x.id, name, x[name]>> : name \in MetricNames} :
                    x \in {y \in items : category = "performance_summaries"}}
FactsIn(f) == UNION {FactsOf(c, f[c]) : c \in Categories}
Facts == FactsIn(files)

(* What a file needs to be there before it.                                *)
NeedsOf(category, x) ==
    CASE category = "experiments" /\ x.status = "completed" ->
            {<<"experiment_artifacts", a>> : a \in x.artifacts}
            \cup {<<"experiment_metrics", m>> : m \in x.metrics}
            \cup {<<"dataset_references", d>> : d \in x.datasets} \cup {<<"runs", r>> : r \in x.runs}
      [] category = "experiment_artifacts" ->
            {<<x.category, x.of>>}
            \cup IF x.category = "experiments" THEN {<<"completed", x.of>>} ELSE {}
      [] category = "dataset_references" ->
            {<<"snapshots", x.snapshot>>, <<"dataset_manifests", x.manifest>>}
      [] category = "experiment_metrics" -> {<<"value", x.of, x.name, x.value>>}
      [] OTHER -> {}

(* What must not be there: a summary or a running experiment replaces none. *)
BarsOf(category, x) ==
    IF category = "performance_summaries" \/ (category = "experiments" /\ x.status # "completed")
    THEN {<<category, x.id>>} ELSE {}

(* An artifact of an experiment is of a category that there is.            *)
Directed(category, x) == category = "experiment_artifacts" => x.category \in Categories

(* The categories whose identifiers are drawn: one file for each. *)
Drawn == {"experiments", "performance_summaries"}

(* A write is due once what its items need is on file and what bars them   *)
(* is not.                                                                 *)
WriteOK(known, write) ==
    /\ write.category \in Categories
    /\ \A x \in write.items : /\ NeedsOf(write.category, x) \subseteq known
                              /\ BarsOf(write.category, x) \cap known = {}
                              /\ Directed(write.category, x)
    /\ write.category \in Drawn => \A x, y \in write.items : x.id = y.id => x = y
WriteFacts(write) == FactsOf(write.category, write.items)
(* The facts of a plan, and those that are there before its i-th write.    *)
Provided(writes) == UNION {WriteFacts(writes[i]) : i \in DOMAIN writes}
Before(known, writes, i) == known \cup UNION {WriteFacts(writes[j]) : j \in 1..(i - 1)}
(* Each write of a plan is due when its turn comes.                        *)
PlanOK(known, writes) ==
    \A i \in DOMAIN writes :
        WriteOK(Before(known, writes, i), writes[i])

(* What will be on file when all that is planned is written.               *)
Expected == Facts \cup Provided(work.writes)

(* What each file needs is on file: the property, stated for all categories.*)
FilesOK(f) ==
    \A c \in Categories : \A x \in f[c] : NeedsOf(c, x) \subseteq FactsIn(f) /\ Directed(c, x)

FilesInv == DOMAIN files = Categories /\ FilesOK(files)
PlanInv == PlanOK(Facts, work.writes)
Unique(f) == \A c \in Drawn : \A x, y \in f[c] : x.id = y.id => x = y
UniqueInv == Unique(files)
(* What the comparison relies on of each of its children.                  *)
RunFacts(v) ==
    {<<"runs", v.run.id>>}
    \cup {<<"value", v.summary.id, name, v.summary[name]>> : name \in MetricNames}
    \cup (UNION {{<<"snapshots", d.snapshot>>, <<"dataset_manifests", d.manifest>>} : d \in v.datasets})
    \cup IF config.record THEN {<<"experiments", v.experiment.id>>, <<"completed", v.experiment.id>>} ELSE {}
RunsInv == work.raises \/ \A v \in ToSet(runs) : RunFacts(v) \subseteq Expected
DefinitionsInv ==
    pc \in Guarded => /\ {<<"definitions", d>> : d \in Definitions} \subseteq Expected
                      /\ {<<"source_snapshots", s>> : s \in {"research", "prices"}} \subseteq Expected
Building == {"idle", "starting", "comparing", "simulating"}
(* No identifier that is still to be drawn is on file or planned.          *)
DrawnInv ==
    \A fact \in Expected : fact[1] \in Drawn =>
        /\ fact[2][1] \in Nat /\ fact[2][1] <= n /\ fact[2][2] \in Nat
        /\ pc \in Building \ {"idle"} /\ fact[2][1] = n => fact[2][2] \in 1..Len(runs)
WorkInv ==
    /\ work = Plan(work.writes, work.raises) /\ work.raises \in BOOLEAN
    /\ work.writes \in Seq(ToSet(work.writes))
(* The inductive invariant: every file has what it needs, and whatever is  *)
(* left to write is due in its order, so that stopping anywhere leaves every*)
(* file with what it needs.                                                *)
RegistryInv ==
    FilesInv /\ UniqueInv /\ WorkInv /\ PlanInv /\ RunsInv /\ DefinitionsInv /\ DrawnInv
-----------------------------------------------------------------------------
(* Plans of writes.                                                        *)

IsSeq(s) == s \in Seq(ToSet(s))

(* What a sequence after another one is.                                   *)
LEMMA Concatenated ==
    ASSUME NEW a, IsSeq(a), NEW b, IsSeq(b)
    PROVE  /\ IsSeq(a \o b) /\ Len(a) \in Nat /\ Len(b) \in Nat /\ Len(a \o b) = Len(a) + Len(b)
           /\ DOMAIN a = 1..Len(a) /\ DOMAIN b = 1..Len(b) /\ DOMAIN (a \o b) = 1..(Len(a) + Len(b))
           /\ \A i \in 1..Len(a) : (a \o b)[i] = a[i]
           /\ \A i \in 1..Len(b) : (a \o b)[Len(a) + i] = b[i]
<1> DEFINE S == ToSet(a) \cup ToSet(b)
<1>1. a \in Seq(S) /\ b \in Seq(S)
  BY DEF IsSeq
<1> HIDE DEF S
<1>2. /\ a \o b \in Seq(S) /\ Len(a) \in Nat /\ Len(b) \in Nat /\ Len(a \o b) = Len(a) + Len(b)
      /\ DOMAIN a = 1..Len(a) /\ DOMAIN b = 1..Len(b) /\ DOMAIN (a \o b) = 1..(Len(a) + Len(b))
      /\ \A i \in 1..Len(a) : (a \o b)[i] = a[i]
      /\ \A i \in 1..Len(b) : (a \o b)[Len(a) + i] = b[i]
  BY <1>1
<1>3. PICK c : c = a \o b
  OBVIOUS
<1>4. c \in Seq(ToSet(c))
  <2>1. c \in Seq(S)
    BY <1>2, <1>3
  <2>2. \A i \in 1..Len(c) : c[i] \in ToSet(c)
    BY <2>1 DEF ToSet
  <2>3. QED
    BY <2>1, <2>2
<1>5. QED
  BY <1>2, <1>3, <1>4 DEF IsSeq

LEMMA ProvidedIs ==
    ASSUME NEW a
    PROVE  \A f : f \in Provided(a) <=> \E i \in DOMAIN a : f \in WriteFacts(a[i])
BY DEF Provided

LEMMA BeforeIs ==
    ASSUME NEW known, NEW a, NEW i
    PROVE  \A f : f \in Before(known, a, i) <=>
                     (f \in known \/ \E j \in 1..(i - 1) : f \in WriteFacts(a[j]))
BY DEF Before

(* A plan after another one may rely on what that one files.               *)
LEMMA PlanConcatenated ==
    ASSUME NEW known, NEW a, IsSeq(a), NEW b, IsSeq(b),
           PlanOK(known, a), PlanOK(known \cup Provided(a), b)
    PROVE  /\ IsSeq(a \o b) /\ PlanOK(known, a \o b)
           /\ Provided(a \o b) = Provided(a) \cup Provided(b)
<1>1. PICK c : c = a \o b
  OBVIOUS
<1>2. /\ IsSeq(c) /\ Len(a) \in Nat /\ Len(b) \in Nat
      /\ DOMAIN a = 1..Len(a) /\ DOMAIN b = 1..Len(b) /\ DOMAIN c = 1..(Len(a) + Len(b))
      /\ \A i \in 1..Len(a) : c[i] = a[i]
      /\ \A i \in 1..Len(b) : c[Len(a) + i] = b[i]
  BY <1>1, Concatenated
<1>3. \A i \in DOMAIN c : i \in DOMAIN a \/ (\E k \in DOMAIN b : i = Len(a) + k)
  <2> SUFFICES ASSUME NEW i \in 1..(Len(a) + Len(b)), ~ (i \in 1..Len(a))
               PROVE  \E k \in 1..Len(b) : i = Len(a) + k
    BY <1>2
  <2>1. i - Len(a) \in 1..Len(b) /\ i = Len(a) + (i - Len(a))
    BY <1>2
  <2>2. QED
    BY <2>1
<1>4. Provided(c) = Provided(a) \cup Provided(b)
  <2>1. ASSUME NEW f, f \in Provided(c) PROVE f \in Provided(a) \cup Provided(b)
    <3>1. PICK i \in DOMAIN c : f \in WriteFacts(c[i])
      BY <2>1, ProvidedIs
    <3>2. CASE i \in DOMAIN a
      BY <1>2, <3>1, <3>2, ProvidedIs
    <3>3. CASE \E k \in DOMAIN b : i = Len(a) + k
      <4>1. PICK k \in DOMAIN b : i = Len(a) + k
        BY <3>3
      <4>2. c[i] = b[k]
        BY <1>2, <4>1
      <4>3. QED
        BY <3>1, <4>2, ProvidedIs
    <3>4. QED
      BY <1>3, <3>2, <3>3
  <2>2. ASSUME NEW f, f \in Provided(a) PROVE f \in Provided(c)
    <3>1. PICK i \in DOMAIN a : f \in WriteFacts(a[i])
      BY <2>2, ProvidedIs
    <3>2. i \in DOMAIN c /\ c[i] = a[i]
      BY <1>2
    <3>3. QED
      BY <3>1, <3>2, ProvidedIs
  <2>3. ASSUME NEW f, f \in Provided(b) PROVE f \in Provided(c)
    <3>1. PICK i \in DOMAIN b : f \in WriteFacts(b[i])
      BY <2>3, ProvidedIs
    <3>2. Len(a) + i \in DOMAIN c /\ c[Len(a) + i] = b[i]
      BY <1>2
    <3>3. QED
      BY <3>1, <3>2, ProvidedIs
  <2>4. QED
    BY <2>1, <2>2, <2>3
<1>5. \A i \in DOMAIN a : Before(known, c, i) = Before(known, a, i)
  <2> SUFFICES ASSUME NEW i \in DOMAIN a PROVE Before(known, c, i) = Before(known, a, i)
    OBVIOUS
  <2>1. \A j \in 1..(i - 1) : c[j] = a[j]
    BY <1>2
  <2>2. \A f : f \in Before(known, c, i) <=> f \in Before(known, a, i)
    BY <2>1, BeforeIs
  <2>3. QED
    BY <2>2
<1>6. \A k \in DOMAIN b : Before(known, c, Len(a) + k) = Before(known \cup Provided(a), b, k)
  <2> SUFFICES ASSUME NEW k \in DOMAIN b
               PROVE  Before(known, c, Len(a) + k) = Before(known \cup Provided(a), b, k)
    OBVIOUS
  <2>1. ASSUME NEW f, f \in Before(known, c, Len(a) + k)
        PROVE  f \in Before(known \cup Provided(a), b, k)
    <3>1. CASE f \in known
      BY <3>1, BeforeIs
    <3>2. CASE \E j \in 1..(Len(a) + k - 1) : f \in WriteFacts(c[j])
      <4>1. PICK j \in 1..(Len(a) + k - 1) : f \in WriteFacts(c[j])
        BY <3>2
      <4>2. CASE j \in 1..Len(a)
        <5>1. f \in Provided(a)
          BY <1>2, <4>1, <4>2, ProvidedIs
        <5>2. QED
          BY <5>1, BeforeIs
      <4>3. CASE ~ (j \in 1..Len(a))
        <5>1. PICK m : m = j - Len(a)
          OBVIOUS
        <5>2. m \in 1..(k - 1) /\ m \in 1..Len(b) /\ j = Len(a) + m
          BY <1>2, <4>3, <5>1
        <5>3. f \in WriteFacts(b[m])
          BY <1>2, <4>1, <5>2
        <5>4. QED
          BY <5>2, <5>3, BeforeIs
      <4>4. QED
        BY <4>2, <4>3
    <3>3. QED
      BY <2>1, <3>1, <3>2, BeforeIs
  <2>2. ASSUME NEW f, f \in Before(known \cup Provided(a), b, k)
        PROVE  f \in Before(known, c, Len(a) + k)
    <3>1. CASE f \in known
      BY <3>1, BeforeIs
    <3>2. CASE f \in Provided(a)
      <4>1. PICK i \in DOMAIN a : f \in WriteFacts(a[i])
        BY <3>2, ProvidedIs
      <4>2. i \in 1..(Len(a) + k - 1) /\ c[i] = a[i]
        BY <1>2
      <4>3. QED
        BY <4>1, <4>2, BeforeIs
    <3>3. CASE \E j \in 1..(k - 1) : f \in WriteFacts(b[j])
      <4>1. PICK j \in 1..(k - 1) : f \in WriteFacts(b[j])
        BY <3>3
      <4>2. Len(a) + j \in 1..(Len(a) + k - 1) /\ c[Len(a) + j] = b[j]
        BY <1>2, <4>1
      <4>3. QED
        BY <4>1, <4>2, BeforeIs
    <3>4. QED
      BY <2>2, <3>1, <3>2, <3>3, BeforeIs
  <2>3. QED
    BY <2>1, <2>2
<1>7. PlanOK(known, c)
  <2> SUFFICES ASSUME NEW i \in DOMAIN c PROVE WriteOK(Before(known, c, i), c[i])
    BY DEF PlanOK
  <2>1. CASE i \in DOMAIN a
    BY <1>2, <1>5, <2>1 DEF PlanOK
  <2>2. CASE \E k \in DOMAIN b : i = Len(a) + k
    <3>1. PICK k \in DOMAIN b : i = Len(a) + k
      BY <2>2
    <3>2. c[i] = b[k]
      BY <1>2, <3>1
    <3>3. QED
      BY <1>6, <3>1, <3>2 DEF PlanOK
  <2>3. QED
    BY <1>3, <2>1, <2>2
<1>8. QED
  BY <1>1, <1>2, <1>4, <1>7

(* Nothing to write is always sound and files nothing.                     *)
LEMMA NoPlan == \A known : IsSeq(<<>>) /\ PlanOK(known, <<>>) /\ Provided(<<>>) = {}
<1>1. DOMAIN <<>> = {} /\ <<>> \in Seq(ToSet(<<>>))
  OBVIOUS
<1>2. QED
  BY <1>1 DEF IsSeq, PlanOK, Provided

(* A write that is due is a plan.                                          *)
LEMMA PlanOfOne ==
    ASSUME NEW known, NEW w, WriteOK(known, w)
    PROVE  IsSeq(<<w>>) /\ PlanOK(known, <<w>>) /\ Provided(<<w>>) = WriteFacts(w)
<1>1. PICK a : a = <<w>>
  OBVIOUS
<1>2. a \in Seq(ToSet(a)) /\ DOMAIN a = {1} /\ a[1] = w
  BY <1>1 DEF ToSet
<1>3. Before(known, a, 1) = known
  <2>1. 1..(1 - 1) = {}
    OBVIOUS
  <2>2. QED
    BY <2>1 DEF Before
<1>4. PlanOK(known, a) /\ Provided(a) = WriteFacts(w)
  BY <1>2, <1>3 DEF PlanOK, Provided
<1>5. QED
  BY <1>1, <1>2, <1>4 DEF IsSeq

(* The rest of a plan is one after its first write.                        *)
LEMMA PlanContinues ==
    ASSUME NEW known, NEW a, IsSeq(a), a # <<>>, PlanOK(known, a)
    PROVE  /\ WriteOK(known, Head(a)) /\ IsSeq(Tail(a))
           /\ PlanOK(known \cup WriteFacts(Head(a)), Tail(a))
           /\ Provided(a) = WriteFacts(Head(a)) \cup Provided(Tail(a))
<1>1. PICK b, w : b = Tail(a) /\ w = Head(a)
  OBVIOUS
<1>2. /\ Len(a) \in Nat /\ Len(a) >= 1 /\ DOMAIN a = 1..Len(a) /\ w = a[1]
      /\ b \in Seq(ToSet(a)) /\ Len(b) = Len(a) - 1 /\ DOMAIN b = 1..Len(b)
      /\ \A i \in 1..Len(b) : b[i] = a[i + 1]
  BY <1>1 DEF IsSeq
<1>3. IsSeq(b)
  <2>1. \A i \in 1..Len(b) : b[i] \in ToSet(b)
    BY <1>2 DEF ToSet
  <2>2. QED
    BY <1>2, <2>1 DEF IsSeq
<1>4. WriteOK(known, w)
  <2>1. 1 \in DOMAIN a /\ Before(known, a, 1) = known
    <3>1. 1..(1 - 1) = {}
      OBVIOUS
    <3>2. QED
      BY <1>2, <3>1 DEF Before
  <2>2. QED
    BY <1>2, <2>1 DEF PlanOK
<1>5. \A i \in DOMAIN a : i = 1 \/ (i - 1 \in DOMAIN b /\ a[i] = b[i - 1])
  BY <1>2
<1>6. Provided(a) = WriteFacts(w) \cup Provided(b)
  <2>1. ASSUME NEW f, f \in Provided(a) PROVE f \in WriteFacts(w) \cup Provided(b)
    <3>1. PICK i \in DOMAIN a : f \in WriteFacts(a[i])
      BY <2>1, ProvidedIs
    <3>2. CASE i = 1
      BY <1>2, <3>1, <3>2
    <3>3. CASE i - 1 \in DOMAIN b /\ a[i] = b[i - 1]
      BY <3>1, <3>3, ProvidedIs
    <3>4. QED
      BY <1>5, <3>2, <3>3
  <2>2. ASSUME NEW f, f \in WriteFacts(w) PROVE f \in Provided(a)
    <3>1. 1 \in DOMAIN a
      BY <1>2
    <3>2. QED
      BY <1>2, <2>2, <3>1, ProvidedIs
  <2>3. ASSUME NEW f, f \in Provided(b) PROVE f \in Provided(a)
    <3>1. PICK i \in DOMAIN b : f \in WriteFacts(b[i])
      BY <2>3, ProvidedIs
    <3>2. i + 1 \in DOMAIN a /\ a[i + 1] = b[i]
      BY <1>2
    <3>3. QED
      BY <3>1, <3>2, ProvidedIs
  <2>4. QED
    BY <2>1, <2>2, <2>3
<1>7. PlanOK(known \cup WriteFacts(w), b)
  <2> SUFFICES ASSUME NEW i \in DOMAIN b
               PROVE  WriteOK(Before(known \cup WriteFacts(w), b, i), b[i])
    BY DEF PlanOK
  <2>1. i + 1 \in DOMAIN a /\ a[i + 1] = b[i]
    BY <1>2
  <2>2. WriteOK(Before(known, a, i + 1), a[i + 1])
    BY <2>1 DEF PlanOK
  <2>3. ASSUME NEW f, f \in Before(known, a, i + 1)
        PROVE  f \in Before(known \cup WriteFacts(w), b, i)
    <3>0. f \in known \/ \E j \in 1..(i + 1 - 1) : f \in WriteFacts(a[j])
      <4>1. PICK k : k = i + 1
        OBVIOUS
      <4>2. f \in Before(known, a, k)
        BY <2>3, <4>1
      <4>3. f \in known \/ \E j \in 1..(k - 1) : f \in WriteFacts(a[j])
        BY <4>2, BeforeIs
      <4>4. QED
        BY <4>1, <4>3
    <3>1. CASE f \in known
      BY <3>1, BeforeIs
    <3>2. CASE \E j \in 1..(i + 1 - 1) : f \in WriteFacts(a[j])
      <4>1. PICK j \in 1..(i + 1 - 1) : f \in WriteFacts(a[j])
        BY <3>2
      <4>2. CASE j = 1
        BY <1>2, <4>1, <4>2, BeforeIs
      <4>3. CASE j # 1
        <5>1. j - 1 \in 1..(i - 1) /\ b[j - 1] = a[j]
          BY <1>2, <4>3
        <5>2. QED
          BY <4>1, <5>1, BeforeIs
      <4>4. QED
        BY <4>2, <4>3
    <3>3. QED
      BY <3>0, <3>1, <3>2
  <2>4. ASSUME NEW f, f \in Before(known \cup WriteFacts(w), b, i)
        PROVE  f \in Before(known, a, i + 1)
    <3>1. CASE f \in known
      BY <3>1, BeforeIs
    <3>2. CASE f \in WriteFacts(w)
      <4>1. 1 \in 1..(i + 1 - 1)
        BY <1>2
      <4>2. QED
        BY <1>2, <3>2, <4>1, BeforeIs
    <3>3. CASE \E j \in 1..(i - 1) : f \in WriteFacts(b[j])
      <4>1. PICK j \in 1..(i - 1) : f \in WriteFacts(b[j])
        BY <3>3
      <4>2. j + 1 \in 1..(i + 1 - 1) /\ a[j + 1] = b[j]
        BY <1>2, <4>1
      <4>3. QED
        BY <4>1, <4>2, BeforeIs
    <3>4. QED
      BY <2>4, <3>1, <3>2, <3>3, BeforeIs
  <2>5. Before(known \cup WriteFacts(w), b, i) = Before(known, a, i + 1)
    BY <2>3, <2>4
  <2>6. QED
    BY <2>1, <2>2, <2>5
<1>8. QED
  BY <1>1, <1>3, <1>4, <1>6, <1>7

(* A plan that may be carried out on these facts, and what it gives.       *)
Sound(known, writes, given) ==
    IsSeq(writes) /\ PlanOK(known, writes) /\ Provided(writes) = given

(* Sound plans one after the other are sound.                              *)
LEMMA SoundThen ==
    ASSUME NEW known, NEW a, NEW b, NEW given, NEW more,
           Sound(known, a, given), Sound(known \cup given, b, more)
    PROVE  Sound(known, a \o b, given \cup more)
BY PlanConcatenated DEF Sound

LEMMA SoundOne ==
    ASSUME NEW known, NEW w, WriteOK(known, w)
    PROVE  Sound(known, <<w>>, WriteFacts(w))
BY PlanOfOne DEF Sound

(* Plans are written out as tuples, built up one write at a time.          *)
LEMMA TupleIsSeq ==
    /\ \A a : IsSeq(<<a>>)
    /\ \A a, b : IsSeq(<<a, b>>)
    /\ \A a, b, c : IsSeq(<<a, b, c>>)
    /\ \A a, b, c, d : IsSeq(<<a, b, c, d>>)
    /\ \A a, b, c, d, e : IsSeq(<<a, b, c, d, e>>)
<1>1. ASSUME NEW a PROVE IsSeq(<<a>>)
  BY DEF IsSeq, ToSet
<1>2. ASSUME NEW a, NEW b PROVE IsSeq(<<a, b>>)
  BY DEF IsSeq, ToSet
<1>3. ASSUME NEW a, NEW b, NEW c PROVE IsSeq(<<a, b, c>>)
  BY DEF IsSeq, ToSet
<1>4. ASSUME NEW a, NEW b, NEW c, NEW d PROVE IsSeq(<<a, b, c, d>>)
  BY DEF IsSeq, ToSet
<1>5. ASSUME NEW a, NEW b, NEW c, NEW d, NEW e PROVE IsSeq(<<a, b, c, d, e>>)
  BY DEF IsSeq, ToSet
<1>6. QED
  BY <1>1, <1>2, <1>3, <1>4, <1>5

(* The second sequence after the first.                                    *)
Joins(a, b, c) ==
    /\ IsSeq(c) /\ Len(a) \in Nat /\ Len(c) = Len(a) + Len(b)
    /\ \A i \in 1..Len(a) : c[i] = a[i]
    /\ \A i \in 1..Len(b) : c[Len(a) + i] = b[i]

(* The element-wise reading of a concatenation, opaque to the provers.     *)
LEMMA Joined == ASSUME NEW a, IsSeq(a), NEW b, IsSeq(b) PROVE Joins(a, b, a \o b)
<1>1. PICK c : c = a \o b
  OBVIOUS
<1>2. Joins(a, b, c)
  BY <1>1, Concatenated DEF Joins
<1>3. QED
  BY <1>1, <1>2

LEMMA SameSeq ==
    ASSUME NEW s, IsSeq(s), NEW t, IsSeq(t), Len(s) = Len(t), \A i \in 1..Len(s) : s[i] = t[i]
    PROVE  s = t
<1> DEFINE S == ToSet(s) \cup ToSet(t)
<1>1. s \in Seq(S) /\ t \in Seq(S)
  BY DEF IsSeq
<1> HIDE DEF S
<1>2. QED
  BY <1>1

(* A tuple is the one before its last element, and that element.           *)
LEMMA ChainedTwo ==
    ASSUME NEW a, NEW b
    PROVE  <<a, b>> = <<a>> \o <<b>>
<1>1. PICK s, t, v : s = <<a>> /\ t = <<b>> /\ v = <<a, b>>
  OBVIOUS
<1>2. PICK u : u = s \o t
  OBVIOUS
<1>3. /\ IsSeq(s) /\ Len(s) = 1 /\ s[1] = a
      /\ IsSeq(t) /\ Len(t) = 1 /\ t[1] = b
      /\ IsSeq(v) /\ Len(v) = 2 /\ v[1] = a /\ v[2] = b
  BY <1>1, TupleIsSeq
<1>4. /\ IsSeq(u) /\ Len(u) = Len(s) + 1 /\ u[Len(s) + 1] = b
      /\ \A i \in 1..Len(s) : u[i] = s[i]
  <2>1. Joins(s, t, s \o t)
    BY <1>3, Joined
  <2>2. Joins(s, t, u)
    BY <1>2, <2>1
  <2>3. QED
    BY <1>3, <2>2 DEF Joins
<1>5. Len(u) = 2 /\ u[1] = a /\ u[2] = b
  BY <1>3, <1>4
<1>6. u = v
  BY <1>3, <1>4, <1>5, SameSeq
<1>7. QED
  BY <1>1, <1>2, <1>6

LEMMA ChainedThree ==
    ASSUME NEW a, NEW b, NEW c
    PROVE  <<a, b, c>> = <<a, b>> \o <<c>>
<1>1. PICK s, t, v : s = <<a, b>> /\ t = <<c>> /\ v = <<a, b, c>>
  OBVIOUS
<1>2. PICK u : u = s \o t
  OBVIOUS
<1>3. /\ IsSeq(s) /\ Len(s) = 2 /\ s[1] = a /\ s[2] = b
      /\ IsSeq(t) /\ Len(t) = 1 /\ t[1] = c
      /\ IsSeq(v) /\ Len(v) = 3 /\ v[1] = a /\ v[2] = b /\ v[3] = c
  BY <1>1, TupleIsSeq
<1>4. /\ IsSeq(u) /\ Len(u) = Len(s) + 1 /\ u[Len(s) + 1] = c
      /\ \A i \in 1..Len(s) : u[i] = s[i]
  <2>1. Joins(s, t, s \o t)
    BY <1>3, Joined
  <2>2. Joins(s, t, u)
    BY <1>2, <2>1
  <2>3. QED
    BY <1>3, <2>2 DEF Joins
<1>5. Len(u) = 3 /\ u[1] = a /\ u[2] = b /\ u[3] = c
  BY <1>3, <1>4
<1>6. u = v
  BY <1>3, <1>4, <1>5, SameSeq
<1>7. QED
  BY <1>1, <1>2, <1>6

LEMMA ChainedFour ==
    ASSUME NEW a, NEW b, NEW c, NEW d
    PROVE  <<a, b, c, d>> = <<a, b, c>> \o <<d>>
<1>1. PICK s, t, v : s = <<a, b, c>> /\ t = <<d>> /\ v = <<a, b, c, d>>
  OBVIOUS
<1>2. PICK u : u = s \o t
  OBVIOUS
<1>3. /\ IsSeq(s) /\ Len(s) = 3 /\ s[1] = a /\ s[2] = b /\ s[3] = c
      /\ IsSeq(t) /\ Len(t) = 1 /\ t[1] = d
      /\ IsSeq(v) /\ Len(v) = 4 /\ v[1] = a /\ v[2] = b /\ v[3] = c /\ v[4] = d
  BY <1>1, TupleIsSeq
<1>4. /\ IsSeq(u) /\ Len(u) = Len(s) + 1 /\ u[Len(s) + 1] = d
      /\ \A i \in 1..Len(s) : u[i] = s[i]
  <2>1. Joins(s, t, s \o t)
    BY <1>3, Joined
  <2>2. Joins(s, t, u)
    BY <1>2, <2>1
  <2>3. QED
    BY <1>3, <2>2 DEF Joins
<1>5. Len(u) = 4 /\ u[1] = a /\ u[2] = b /\ u[3] = c /\ u[4] = d
  BY <1>3, <1>4
<1>6. u = v
  BY <1>3, <1>4, <1>5, SameSeq
<1>7. QED
  BY <1>1, <1>2, <1>6

LEMMA ChainedFive ==
    ASSUME NEW a, NEW b, NEW c, NEW d, NEW e
    PROVE  <<a, b, c, d, e>> = <<a, b, c, d>> \o <<e>>
<1>1. PICK s, t, v : s = <<a, b, c, d>> /\ t = <<e>> /\ v = <<a, b, c, d, e>>
  OBVIOUS
<1>2. PICK u : u = s \o t
  OBVIOUS
<1>3. /\ IsSeq(s) /\ Len(s) = 4 /\ s[1] = a /\ s[2] = b /\ s[3] = c /\ s[4] = d
      /\ IsSeq(t) /\ Len(t) = 1 /\ t[1] = e
      /\ IsSeq(v) /\ Len(v) = 5 /\ v[1] = a /\ v[2] = b /\ v[3] = c /\ v[4] = d /\ v[5] = e
  BY <1>1, TupleIsSeq
<1>4. /\ IsSeq(u) /\ Len(u) = Len(s) + 1 /\ u[Len(s) + 1] = e
      /\ \A i \in 1..Len(s) : u[i] = s[i]
  <2>1. Joins(s, t, s \o t)
    BY <1>3, Joined
  <2>2. Joins(s, t, u)
    BY <1>2, <2>1
  <2>3. QED
    BY <1>3, <2>2 DEF Joins
<1>5. Len(u) = 5 /\ u[1] = a /\ u[2] = b /\ u[3] = c /\ u[4] = d /\ u[5] = e
  BY <1>3, <1>4
<1>6. u = v
  BY <1>3, <1>4, <1>5, SameSeq, SMTT(40)
<1>7. QED
  BY <1>1, <1>2, <1>6

(* The plans of a sequence, one after the other.                           *)
Cat(a, b) == a \o b
Unrolled(s, m, g) == g = [i \in 1..m |-> IF i = 1 THEN s[i] ELSE Cat(g[i - 1], s[i])]

(* At most three plans are put in turn.                                    *)
LEMMA Flattened ==
    ASSUME NEW s, Len(s) \in 1..3
    PROVE  /\ Len(s) = 1 => FlattenSeq(s) = s[1]
           /\ Len(s) = 2 => FlattenSeq(s) = Cat(s[1], s[2])
           /\ Len(s) = 3 => FlattenSeq(s) = Cat(Cat(s[1], s[2]), s[3])
<1> DEFINE f == [i \in 1..Len(s) |-> IF i = 1 THEN s[1] ELSE IF i = 2 THEN Cat(s[1], s[2])
                                         ELSE Cat(Cat(s[1], s[2]), s[3])]
<1>1. Unrolled(s, Len(s), f)
  <2>1. \A i \in 1..Len(s) : f[i] = IF i = 1 THEN s[i] ELSE Cat(f[i - 1], s[i])
    <3>1. DOMAIN f = 1..Len(s) /\ f[1] = s[1]
      OBVIOUS
    <3>2. Len(s) \in 2..3 => f[2] = Cat(s[1], s[2])
      OBVIOUS
    <3>3. Len(s) = 3 => f[3] = Cat(Cat(s[1], s[2]), s[3])
      OBVIOUS
    <3> HIDE DEF f
    <3>4. \A i \in 1..Len(s) : \/ i = 1
                               \/ (i = 2 /\ i - 1 = 1 /\ Len(s) \in 2..3)
                               \/ (i = 3 /\ i - 1 = 2 /\ Len(s) = 3)
      <4>1. PICK l \in 1..3 : l = Len(s)
        OBVIOUS
      <4>2. \A i \in 1..l : \/ i = 1
                            \/ (i = 2 /\ i - 1 = 1 /\ l \in 2..3)
                            \/ (i = 3 /\ i - 1 = 2 /\ l = 3)
        OBVIOUS
      <4>3. QED
        BY <4>1, <4>2
    <3>5. QED
      BY <3>1, <3>2, <3>3, <3>4
  <2>2. f = [i \in 1..Len(s) |-> f[i]]
    OBVIOUS
  <2> HIDE DEF f
  <2>3. QED
    BY <2>1, <2>2 DEF Unrolled
<1> HIDE DEF f
<1>2. PICK g : g = CHOOSE h : Unrolled(s, Len(s), h)
  OBVIOUS
<1>3. Unrolled(s, Len(s), g)
  BY <1>1, <1>2
<1>4. FlattenSeq(s) = g[Len(s)]
  BY <1>2, SMTT(40) DEF FlattenSeq, Unrolled, Cat
<1>5. \A i \in 1..Len(s) : g[i] = IF i = 1 THEN s[i] ELSE Cat(g[i - 1], s[i])
  BY <1>3 DEF Unrolled
<1>6. g[1] = s[1]
  BY <1>5
<1>7. Len(s) \in 2..3 => g[2] = Cat(s[1], s[2])
  <2>1. \A i : i = 2 => i - 1 = 1
    OBVIOUS
  <2>2. QED
    BY <1>5, <1>6, <2>1
<1>8. Len(s) = 3 => g[3] = Cat(Cat(s[1], s[2]), s[3])
  <2>1. \A i : i = 3 => i - 1 = 2
    OBVIOUS
  <2>2. QED
    BY <1>5, <1>7, <2>1
<1>9. CASE Len(s) = 1
  BY <1>4, <1>6, <1>9
<1>10. CASE Len(s) = 2
  BY <1>4, <1>7, <1>10
<1>11. CASE Len(s) = 3
  BY <1>4, <1>8, <1>11
<1>12. QED
  BY <1>9, <1>10, <1>11

-----------------------------------------------------------------------------
(* What sequences contain.                                                 *)

(* A nonempty set of naturals has a least element.                         *)
LEMMA LeastNatural ==
    ASSUME NEW S, S \subseteq Nat, S # {}
    PROVE  \E l \in S : \A m \in S : l <= m
<1> DEFINE R == OpToRel(<, Nat)
<1>1. \A m, l \in Nat : m < l => <<m, l>> \in R
  BY DEF OpToRel
<1>2. IsWellFoundedOn(R, Nat)
  BY NatLessThanWellFounded
<1> HIDE DEF R
<1>3. PICK l \in S : \A m \in S : ~(<<m, l>> \in R)
  BY <1>2, WFMin
<1>4. ASSUME NEW m \in S
      PROVE  l <= m
  <2>1. m \in Nat /\ l \in Nat
    OBVIOUS
  <2>2. ~(m < l)
    BY <1>1, <1>3, <2>1
  <2>3. QED
    BY <2>1, <2>2
<1>5. QED
  BY <1>4

(* A sequence is a function on the first naturals.                         *)
LEMMA SequenceIs ==
    ASSUME NEW s, IsSeq(s)
    PROVE  /\ Len(s) \in Nat /\ DOMAIN s = 1..Len(s) /\ s = [i \in 1..Len(s) |-> s[i]]
           /\ Len(s) = 0 => s = <<>>
BY DEF IsSeq

(* A function on the first naturals is a sequence.                         *)
LEMMA SequenceMade ==
    ASSUME NEW l \in Nat, NEW s, s = [i \in 1..l |-> s[i]]
    PROVE  IsSeq(s) /\ Len(s) = l /\ DOMAIN s = 1..l
<1>1. DOMAIN s = 1..l
  OBVIOUS
<1>2. \A i \in 1..l : s[i] \in ToSet(s)
  BY <1>1 DEF ToSet
<1>3. s \in [1..l -> ToSet(s)]
  BY <1>2
<1>4. s \in Seq(ToSet(s))
  BY <1>3
<1>5. QED
  BY <1>1, <1>4 DEF IsSeq

(* An element of one is at some place of it.                               *)
LEMMA PlaceOf == ASSUME NEW s, NEW x \in ToSet(s) PROVE \E i \in DOMAIN s : s[i] = x
BY DEF ToSet

(* A concatenation contains what its parts do.                             *)
LEMMA ConcatHas ==
    ASSUME NEW a, IsSeq(a), NEW b, IsSeq(b)
    PROVE  IsSeq(a \o b) /\ ToSet(a \o b) = ToSet(a) \cup ToSet(b)
<1>1. PICK c : c = a \o b
  OBVIOUS
<1>2. /\ IsSeq(c) /\ Len(a) \in Nat /\ Len(b) \in Nat
      /\ DOMAIN a = 1..Len(a) /\ DOMAIN b = 1..Len(b) /\ DOMAIN c = 1..(Len(a) + Len(b))
      /\ \A i \in 1..Len(a) : c[i] = a[i]
      /\ \A i \in 1..Len(b) : c[Len(a) + i] = b[i]
  BY <1>1, Concatenated
<1>3. \A x \in ToSet(a) : x \in ToSet(c)
  <2>1. \A i \in 1..Len(a) : i \in DOMAIN c
    BY <1>2
  <2>2. QED
    BY <1>2, <2>1 DEF ToSet
<1>4. \A x \in ToSet(b) : x \in ToSet(c)
  <2>1. \A i \in 1..Len(b) : Len(a) + i \in DOMAIN c
    BY <1>2
  <2>2. QED
    BY <1>2, <2>1 DEF ToSet
<1>5. ASSUME NEW x \in ToSet(c)
      PROVE  x \in ToSet(a) \cup ToSet(b)
  <2>1. PICK i \in DOMAIN c : c[i] = x
    BY PlaceOf
  <2>2. CASE i \in 1..Len(a)
    BY <1>2, <2>1, <2>2 DEF ToSet
  <2>3. CASE i \notin 1..Len(a)
    <3>1. PICK j : j = i - Len(a)
      OBVIOUS
    <3>2. j \in 1..Len(b) /\ i = Len(a) + j
      BY <1>2, <2>3, <3>1
    <3>3. b[j] = x
      BY <1>2, <2>1, <3>2
    <3>4. QED
      BY <1>2, <3>2, <3>3 DEF ToSet
  <2>4. QED
    BY <2>2, <2>3
<1>6. ToSet(c) = ToSet(a) \cup ToSet(b)
  BY <1>3, <1>4, <1>5
<1>7. QED
  BY <1>1, <1>2, <1>6

(* One more element can be gathered.                                       *)
LEMMA UnrolledStep ==
    ASSUME NEW s, NEW l \in Nat, l # 0, NEW h, Unrolled(s, l - 1, h)
    PROVE  \E g : Unrolled(s, l, g)
<1> DEFINE g == [i \in 1..l |-> IF i = l THEN (IF l = 1 THEN s[l] ELSE Cat(h[l - 1], s[l])) ELSE h[i]]
<1>1. \A i \in 1..(l - 1) : h[i] = IF i = 1 THEN s[i] ELSE Cat(h[i - 1], s[i])
  BY DEF Unrolled
<1>2. \A i \in 1..l : g[i] = IF i = 1 THEN s[i] ELSE Cat(g[i - 1], s[i])
  <2> SUFFICES ASSUME NEW i \in 1..l PROVE g[i] = IF i = 1 THEN s[i] ELSE Cat(g[i - 1], s[i])
    OBVIOUS
  <2>1. CASE i = 1
    <3>1. CASE l = 1
      BY <2>1, <3>1
    <3>2. CASE l # 1
      <4>1. 1 \in 1..(l - 1) /\ 1 \in 1..l
        BY <3>2
      <4>2. g[1] = h[1] /\ h[1] = s[1]
        BY <1>1, <3>2, <4>1
      <4>3. QED
        BY <2>1, <4>2
    <3>3. QED
      BY <3>1, <3>2
  <2>2. CASE i # 1
    <3>1. i - 1 \in 1..(l - 1) /\ i - 1 \in 1..l /\ i - 1 # l
      BY <2>2
    <3>2. g[i - 1] = h[i - 1]
      BY <3>1
    <3>3. CASE i = l
      <4>1. g[i] = Cat(h[i - 1], s[i])
        BY <2>2, <3>3
      <4> HIDE DEF g
      <4>2. QED
        BY <2>2, <3>2, <4>1
    <3>4. CASE i # l
      <4>1. g[i] = h[i] /\ i \in 1..(l - 1)
        BY <3>4
      <4>2. h[i] = Cat(h[i - 1], s[i])
        BY <1>1, <2>2, <4>1
      <4> HIDE DEF g
      <4>3. QED
        BY <2>2, <3>2, <4>1, <4>2
    <3>5. QED
      BY <3>3, <3>4
  <2>3. QED
    BY <2>1, <2>2
<1>3. g = [i \in 1..l |-> g[i]]
  OBVIOUS
<1> HIDE DEF g
<1>4. Unrolled(s, l, g)
  BY <1>2, <1>3 DEF Unrolled
<1>5. QED
  BY <1>4

(* That function exists for every length.                                  *)
LEMMA UnrolledExists ==
    ASSUME NEW s, NEW l \in Nat
    PROVE  \E g : Unrolled(s, l, g)
<1> DEFINE B == {m \in Nat : ~ \E g : Unrolled(s, m, g)}
<1>1. SUFFICES ASSUME B # {} PROVE FALSE
  OBVIOUS
<1>2. PICK m \in B : \A k \in B : m <= k
  <2>1. B \subseteq Nat
    OBVIOUS
  <2> HIDE DEF B
  <2>2. QED
    BY <1>1, <2>1, LeastNatural
<1>3. m # 0
  <2> DEFINE g == [i \in 1..0 |-> IF i = 1 THEN s[i] ELSE Cat({}, s[i])]
  <2>1. Unrolled(s, 0, g)
    <3>1. \A i \in 1..0 : FALSE
      OBVIOUS
    <3>2. g = [i \in 1..0 |-> g[i]] /\ \A i \in 1..0 : g[i] = IF i = 1 THEN s[i] ELSE Cat(g[i - 1], s[i])
      BY <3>1
    <3> HIDE DEF g
    <3>3. QED
      BY <3>2 DEF Unrolled
  <2>2. QED
    BY <2>1
<1>4. m - 1 \in Nat /\ ~ (m <= m - 1)
  BY <1>3
<1>5. m - 1 \notin B
  BY <1>2, <1>4
<1>6. PICK h : Unrolled(s, m - 1, h)
  BY <1>4, <1>5
<1>7. \E g : Unrolled(s, m, g)
  BY <1>3, <1>6, UnrolledStep
<1>8. QED
  BY <1>7

(* Nothing of the parts is lost.                                           *)
LEMMA UnrolledHas ==
    ASSUME NEW s, NEW l \in Nat, \A i \in 1..l : IsSeq(s[i]), NEW g, Unrolled(s, l, g)
    PROVE  \A i \in 1..l : IsSeq(g[i]) /\ \A j \in 1..i : ToSet(s[j]) \subseteq ToSet(g[i])
<1> DEFINE P(i) == IsSeq(g[i]) /\ \A j \in 1..i : ToSet(s[j]) \subseteq ToSet(g[i])
<1> DEFINE B == {i \in 1..l : ~ P(i)}
<1>1. SUFFICES ASSUME B # {} PROVE FALSE
  OBVIOUS
<1>2. PICK m \in B : \A k \in B : m <= k
  <2>1. B \subseteq Nat
    OBVIOUS
  <2> HIDE DEF B
  <2>2. QED
    BY <1>1, <2>1, LeastNatural
<1>3. m \in 1..l /\ ~ P(m)
  OBVIOUS
<1>4. \A i \in 1..l : g[i] = IF i = 1 THEN s[i] ELSE Cat(g[i - 1], s[i])
  BY DEF Unrolled
<1>5. CASE m = 1
  <2>1. g[1] = s[1]
    BY <1>3, <1>4, <1>5
  <2>2. \A j \in 1..1 : j = 1
    OBVIOUS
  <2>3. QED
    BY <1>3, <1>5, <2>1, <2>2
<1>6. CASE m # 1
  <2>1. PICK k : k = m - 1
    OBVIOUS
  <2>2. k \in 1..l /\ ~ (m <= k) /\ \A j \in 1..m : j \in 1..k \/ j = m
    BY <1>3, <1>6, <2>1
  <2>3. k \notin B
    BY <1>2, <2>2
  <2>4. P(k)
    BY <2>2, <2>3
  <2>5. g[m] = g[k] \o s[m]
    BY <1>3, <1>4, <1>6, <2>1 DEF Cat
  <2>6. IsSeq(g[m]) /\ ToSet(g[m]) = ToSet(g[k]) \cup ToSet(s[m])
    BY <1>3, <2>4, <2>5, ConcatHas
  <2>7. P(m)
    BY <2>2, <2>4, <2>6
  <2>8. QED
    BY <1>3, <2>7
<1>7. QED
  BY <1>5, <1>6

(* A flattened sequence contains what its parts do.                        *)
LEMMA FlattenHas ==
    ASSUME NEW s, IsSeq(s), \A i \in DOMAIN s : IsSeq(s[i])
    PROVE  /\ IsSeq(FlattenSeq(s))
           /\ \A i \in DOMAIN s : ToSet(s[i]) \subseteq ToSet(FlattenSeq(s))
<1>1. Len(s) \in Nat /\ DOMAIN s = 1..Len(s) /\ (Len(s) = 0 => s = <<>>)
  BY SequenceIs
<1>2. CASE Len(s) = 0
  <2>1. FlattenSeq(s) = s /\ DOMAIN s = {}
    BY <1>1, <1>2 DEF FlattenSeq
  <2>2. QED
    BY <2>1
<1>3. CASE Len(s) # 0
  <2>1. Len(s) \in 1..Len(s)
    BY <1>1, <1>3
  <2>2. PICK g : g = CHOOSE h : Unrolled(s, Len(s), h)
    OBVIOUS
  <2>3. Unrolled(s, Len(s), g)
    BY <1>1, <2>2, UnrolledExists
  <2>4. FlattenSeq(s) = g[Len(s)]
    BY <1>3, <2>2, SMTT(40) DEF FlattenSeq, Unrolled, Cat
  <2>5. QED
    BY <1>1, <2>1, <2>3, <2>4, UnrolledHas
<1>4. QED
  BY <1>2, <1>3

(* Every subset of S in the order that InSomeOrder gives it.               *)
Some(s) == CHOOSE x \in s : TRUE
After(s, x) == Append(s, x)
Orders(S, F) ==
    F = [s \in SUBSET S |-> IF s = {} THEN <<>> ELSE After(F[s \ {Some(s)}], Some(s))]

LEMMA SomeIn == \A s : s # {} => Some(s) \in s
BY DEF Some

(* A set of subsets of a finite set has a least one.                       *)
LEMMA LeastSubset ==
    ASSUME NEW S, IsFiniteSet(S), NEW T, T \subseteq SUBSET S, T # {}
    PROVE  \E s \in T : \A r \in T : ~ (r \subseteq s /\ r # s)
<1>1. T \subseteq FiniteSubsetsOf(S)
  <2>1. \A s \in SUBSET S : IsFiniteSet(s)
    BY FS_Subset
  <2>2. QED
    BY <2>1 DEF FiniteSubsetsOf
<1>2. IsWellFoundedOn(StrictSubsetOrdering(S), FiniteSubsetsOf(S))
  BY FS_StrictSubsetOrderingWellFounded
<1>3. PICK s \in T : \A r \in T : ~ (<<r, s>> \in StrictSubsetOrdering(S))
  BY <1>1, <1>2, WFMin
<1>4. \A r \in T : r \subseteq s /\ r # s => <<r, s>> \in StrictSubsetOrdering(S)
  BY DEF StrictSubsetOrdering
<1>5. ASSUME NEW r \in T, r \subseteq s /\ r # s
      PROVE  FALSE
  BY <1>3, <1>4, <1>5
<1>6. QED
  BY <1>5

LEMMA OrdersStep ==
    ASSUME NEW S, NEW F, Orders(S, F), NEW s \in SUBSET S
    PROVE  /\ s = {} => F[s] = <<>>
           /\ s # {} => /\ Some(s) \in s /\ s \ {Some(s)} \in SUBSET S
                        /\ F[s] = After(F[s \ {Some(s)}], Some(s))
<1>1. F[s] = IF s = {} THEN <<>> ELSE After(F[s \ {Some(s)}], Some(s))
  BY DEF Orders
<1>2. QED
  BY <1>1, SomeIn

(* The order of a set does not depend on what it is a part of.             *)
LEMMA OrdersAgree ==
    ASSUME NEW S, IsFiniteSet(S), NEW F, Orders(S, F), NEW R, NEW G, Orders(R, G),
           NEW s \in SUBSET S, s \in SUBSET R
    PROVE  F[s] = G[s]
<1> DEFINE T == {t \in SUBSET s : F[t] # G[t]}
<1>1. SUFFICES ASSUME T # {} PROVE FALSE
  OBVIOUS
<1>2. PICK t \in T : \A r \in T : ~ (r \subseteq t /\ r # t)
  <2>1. T \subseteq SUBSET S
    OBVIOUS
  <2> HIDE DEF T
  <2>2. QED
    BY <1>1, <2>1, LeastSubset
<1>3. t \in SUBSET S /\ t \in SUBSET R /\ F[t] # G[t]
  OBVIOUS
<1>4. t # {}
  BY <1>3, OrdersStep
<1>5. /\ Some(t) \in t
      /\ F[t] = After(F[t \ {Some(t)}], Some(t)) /\ G[t] = After(G[t \ {Some(t)}], Some(t))
  BY <1>3, <1>4, OrdersStep
<1>6. F[t \ {Some(t)}] = G[t \ {Some(t)}]
  BY <1>2, <1>5
<1>7. QED
  BY <1>3, <1>5, <1>6

LEMMA OrdersExist ==
    ASSUME NEW S, IsFiniteSet(S)
    PROVE  \E F : Orders(S, F)
<1> DEFINE T == {t \in SUBSET S : ~ \E F : Orders(t, F)}
<1>1. SUFFICES ASSUME T # {} PROVE FALSE
  OBVIOUS
<1>2. PICK t \in T : \A r \in T : ~ (r \subseteq t /\ r # t)
  <2>1. T \subseteq SUBSET S
    OBVIOUS
  <2> HIDE DEF T
  <2>2. QED
    BY <1>1, <2>1, LeastSubset
<1> DEFINE Of(s) == CHOOSE F : Orders(s, F)
           H == [s \in SUBSET t |-> IF s = {} THEN <<>>
                                    ELSE After(Of(s \ {Some(s)})[s \ {Some(s)}], Some(s))]
<1>3. ASSUME NEW s \in SUBSET t, s # t
      PROVE  Orders(s, Of(s)) /\ IsFiniteSet(s)
  <2>1. s \in SUBSET S
    OBVIOUS
  <2>2. s \notin T
    BY <1>2, <1>3
  <2>3. \E F : Orders(s, F)
    BY <2>1, <2>2
  <2>4. QED
    BY <2>1, <2>3, FS_Subset
<1>4. ASSUME NEW s \in SUBSET t, s # t
      PROVE  H[s] = Of(s)[s]
  <2>1. Orders(s, Of(s)) /\ IsFiniteSet(s)
    BY <1>3, <1>4
  <2> DEFINE K == Of(s)
             r == s \ {Some(s)}
  <2> HIDE DEF Of
  <2>2. CASE s = {}
    <3>1. K[s] = <<>>
      BY <2>1, <2>2, OrdersStep
    <3>2. QED
      BY <2>2, <3>1
  <2>3. CASE s # {}
    <3>1. Some(s) \in s /\ K[s] = After(K[r], Some(s))
      BY <2>1, <2>3, OrdersStep
    <3>2. r \in SUBSET t /\ r # t /\ r \in SUBSET s
      BY <3>1
    <3>3. Orders(r, Of(r)) /\ IsFiniteSet(r)
      BY <1>3, <3>2
    <3>4. Of(r)[r] = K[r]
      <4> HIDE DEF K, r
      <4>1. QED
        BY <2>1, <3>2, <3>3, OrdersAgree DEF K
    <3>5. QED
      BY <2>3, <3>1, <3>4
  <2>4. QED
    BY <2>2, <2>3
<1>5. ASSUME NEW s \in SUBSET t
      PROVE  H[s] = IF s = {} THEN <<>> ELSE After(H[s \ {Some(s)}], Some(s))
  <2>1. CASE s = {}
    BY <2>1
  <2>2. CASE s # {}
    <3>1. s \ {Some(s)} \in SUBSET t /\ s \ {Some(s)} # t
      BY <2>2, SomeIn
    <3>2. H[s \ {Some(s)}] = Of(s \ {Some(s)})[s \ {Some(s)}]
      BY <1>4, <3>1
    <3>3. QED
      BY <2>2, <3>2
  <2>3. QED
    BY <2>1, <2>2
<1>6. Orders(t, H)
  <2>1. H = [s \in SUBSET t |-> H[s]]
    OBVIOUS
  <2> HIDE DEF H
  <2>2. QED
    BY <1>5, <2>1 DEF Orders
<1>7. QED
  <2> HIDE DEF H
  <2>1. QED
    BY <1>2, <1>6

(* A sequence with one more item.                                          *)
LEMMA AfterHas ==
    ASSUME NEW a, IsSeq(a), NEW x
    PROVE  IsSeq(After(a, x)) /\ ToSet(After(a, x)) = ToSet(a) \cup {x}
<1>1. PICK b : b = <<x>>
  OBVIOUS
<1>2. IsSeq(b) /\ ToSet(b) = {x}
  BY <1>1, TupleIsSeq DEF ToSet
<1>3. a \in Seq(ToSet(a) \cup {x})
  BY DEF IsSeq
<1>4. After(a, x) = a \o b
  BY <1>1, <1>3 DEF After
<1>5. QED
  BY <1>2, <1>4, ConcatHas

LEMMA OrdersHas ==
    ASSUME NEW S, IsFiniteSet(S), NEW F, Orders(S, F)
    PROVE  \A s \in SUBSET S : IsSeq(F[s]) /\ ToSet(F[s]) = s
<1> DEFINE P(s) == IsSeq(F[s]) /\ ToSet(F[s]) = s
           T == {t \in SUBSET S : ~ P(t)}
<1>1. SUFFICES ASSUME T # {} PROVE FALSE
  OBVIOUS
<1>2. PICK t \in T : \A r \in T : ~ (r \subseteq t /\ r # t)
  <2>1. T \subseteq SUBSET S
    OBVIOUS
  <2> HIDE DEF T
  <2>2. QED
    BY <1>1, <2>1, LeastSubset
<1>3. t \in SUBSET S /\ ~ P(t)
  OBVIOUS
<1>4. CASE t = {}
  <2>1. F[t] = <<>>
    BY <1>3, <1>4, OrdersStep
  <2>2. IsSeq(<<>>) /\ ToSet(<<>>) = {}
    BY NoPlan DEF ToSet
  <2>3. QED
    BY <1>3, <1>4, <2>1, <2>2
<1>5. CASE t # {}
  <2>1. PICK x, r : x = Some(t) /\ r = t \ {Some(t)}
    OBVIOUS
  <2> HIDE DEF T
  <2>2. x \in t /\ r \in SUBSET S /\ F[t] = After(F[r], x)
    <3>1. t \in SUBSET S
      BY <1>3
    <3>2. /\ Some(t) \in t /\ t \ {Some(t)} \in SUBSET S
          /\ F[t] = After(F[t \ {Some(t)}], Some(t))
      BY <1>5, <3>1, OrdersStep
    <3>3. QED
      BY <2>1, <3>2
  <2>3. r \subseteq t /\ r # t /\ t = r \cup {x}
    BY <2>1, <2>2
  <2>4. r \notin T
    BY <1>2, <2>3
  <2>5. P(r)
    BY <2>2, <2>4 DEF T
  <2>6. P(t)
    BY <2>2, <2>3, <2>5, AfterHas
  <2>7. QED
    BY <1>3, <2>6
<1>6. QED
  BY <1>4, <1>5

(* An enumeration of a finite set leaves nothing out and adds nothing.     *)
LEMMA OrderHas ==
    ASSUME NEW S, IsFiniteSet(S)
    PROVE  IsSeq(InSomeOrder(S)) /\ ToSet(InSomeOrder(S)) = S
<1> DEFINE Nth(s, F) == IF s = {} THEN <<>>
                       ELSE Append(F[s \ {CHOOSE x \in s : TRUE}], CHOOSE x \in s : TRUE)
           K == CHOOSE F : F = [s \in SUBSET S |-> Nth(s, F)]
<1>1. InSomeOrder(S) = K[S]
  BY DEF InSomeOrder, FoldSet, MapThenFoldSet
<1>2. ASSUME NEW s, NEW F
      PROVE  Nth(s, F) = IF s = {} THEN <<>> ELSE After(F[s \ {Some(s)}], Some(s))
  BY DEF Some, After
<1> HIDE DEF Nth
<1>3. PICK G : Orders(S, G)
  BY OrdersExist
<1>4. G = [s \in SUBSET S |-> Nth(s, G)]
  BY <1>2, <1>3 DEF Orders
<1>5. K = [s \in SUBSET S |-> Nth(s, K)]
  BY <1>4
<1> HIDE DEF K
<1>6. Orders(S, K)
  BY <1>2, <1>5 DEF Orders
<1>7. S \in SUBSET S
  OBVIOUS
<1>8. QED
  BY <1>1, <1>6, <1>7, OrdersHas

-----------------------------------------------------------------------------
(* The writes of each category.                                            *)

Filed(category, items) == {<<category, x.id>> : x \in items}
Plain == Categories \ {"experiments", "experiment_artifacts", "dataset_references",
                       "experiment_metrics", "performance_summaries"}

(* Of the drawn identifiers only these are used.                           *)
Names(given, ids) == \A f \in given : f[1] \in Drawn => f[2] \in ids

(* The facts that a file stands for.                                       *)
Says(category, x, fact) ==
    \/ fact = <<category, x.id>>
    \/ category = "experiments" /\ x.status = "completed" /\ fact = <<"completed", x.id>>
    \/ /\ category = "performance_summaries"
       /\ \E name \in MetricNames : fact = <<"value", x.id, name, x[name]>>

(* The facts of a file, one by one.                                        *)
LEMMA FactsAre ==
    ASSUME NEW category, NEW items
    PROVE  \A fact : fact \in FactsOf(category, items) <=> \E x \in items : Says(category, x, fact)
BY DEF FactsOf, Says

(* When a write of each category is due, and the facts it adds.            *)
LEMMA PlainWrite ==
    ASSUME NEW known, NEW category \in Plain, NEW items
    PROVE  LET w == Write(category, items)
           IN  WriteOK(known, w) /\ WriteFacts(w) = Filed(category, items)
<1>1. WriteOK(known, Write(category, items))
  BY DEF Plain, Drawn, WriteOK, Write, NeedsOf, BarsOf, Directed
<1>2. category \notin {"experiments", "performance_summaries"}
  BY DEF Plain
<1>3. FactsOf(category, items) = Filed(category, items)
  BY <1>2 DEF FactsOf, Filed
<1>4. QED
  BY <1>1, <1>3 DEF WriteFacts, Write

LEMMA ArtifactWrite ==
    ASSUME NEW known, NEW items,
           \A a \in items : /\ a.category \in Categories /\ <<a.category, a.of>> \in known
                            /\ a.category = "experiments" => <<"completed", a.of>> \in known
    PROVE  LET w == Write("experiment_artifacts", items)
           IN  WriteOK(known, w) /\ WriteFacts(w) = Filed("experiment_artifacts", items)
<1>1. WriteOK(known, Write("experiment_artifacts", items))
  BY DEF Categories, Drawn, WriteOK, Write, NeedsOf, BarsOf, Directed
<1>2. FactsOf("experiment_artifacts", items) = Filed("experiment_artifacts", items)
  BY DEF FactsOf, Filed
<1>3. QED
  BY <1>1, <1>2 DEF WriteFacts, Write

LEMMA MetricWrite ==
    ASSUME NEW known, NEW items, \A m \in items : <<"value", m.of, m.name, m.value>> \in known
    PROVE  LET w == Write("experiment_metrics", items)
           IN  WriteOK(known, w) /\ WriteFacts(w) = Filed("experiment_metrics", items)
<1>1. WriteOK(known, Write("experiment_metrics", items))
  BY DEF Categories, Drawn, WriteOK, Write, NeedsOf, BarsOf, Directed
<1>2. FactsOf("experiment_metrics", items) = Filed("experiment_metrics", items)
  BY DEF FactsOf, Filed
<1>3. QED
  BY <1>1, <1>2 DEF WriteFacts, Write

LEMMA ReferenceWrite ==
    ASSUME NEW known, NEW items,
           \A d \in items : /\ <<"snapshots", d.snapshot>> \in known
                            /\ <<"dataset_manifests", d.manifest>> \in known
    PROVE  LET w == Write("dataset_references", items)
           IN  WriteOK(known, w) /\ WriteFacts(w) = Filed("dataset_references", items)
<1>1. WriteOK(known, Write("dataset_references", items))
  BY DEF Categories, Drawn, WriteOK, Write, NeedsOf, BarsOf, Directed
<1>2. FactsOf("dataset_references", items) = Filed("dataset_references", items)
  BY DEF FactsOf, Filed
<1>3. QED
  BY <1>1, <1>2 DEF WriteFacts, Write

ValuesOf(s) == {<<"value", s.id, name, s[name]>> : name \in MetricNames}

LEMMA SummaryWrite ==
    ASSUME NEW known, NEW s, <<"performance_summaries", s.id>> \notin known
    PROVE  LET w == Write("performance_summaries", {s})
           IN  WriteOK(known, w) /\ WriteFacts(w) = {<<"performance_summaries", s.id>>} \cup ValuesOf(s)
<1>1. WriteOK(known, Write("performance_summaries", {s}))
  BY DEF Categories, Drawn, WriteOK, Write, NeedsOf, BarsOf, Directed
<1>2. FactsOf("performance_summaries", {s}) = {<<"performance_summaries", s.id>>} \cup ValuesOf(s)
  BY FactsAre DEF ValuesOf, Says
<1>3. QED
  BY <1>1, <1>2 DEF WriteFacts, Write

LEMMA RunningWrite ==
    ASSUME NEW known, NEW e, e.status = "running", <<"experiments", e.id>> \notin known
    PROVE  LET w == Write("experiments", {e})
           IN  WriteOK(known, w) /\ WriteFacts(w) = {<<"experiments", e.id>>}
<1>1. WriteOK(known, Write("experiments", {e}))
  BY DEF Categories, Drawn, WriteOK, Write, NeedsOf, BarsOf, Directed
<1>2. FactsOf("experiments", {e}) = {<<"experiments", e.id>>}
  BY DEF FactsOf
<1>3. QED
  BY <1>1, <1>2 DEF WriteFacts, Write

(* All that a completed experiment refers to is there.                     *)
Whole(known, e) ==
    /\ \A a \in e.artifacts : <<"experiment_artifacts", a>> \in known
    /\ \A m \in e.metrics : <<"experiment_metrics", m>> \in known
    /\ \A d \in e.datasets : <<"dataset_references", d>> \in known
    /\ \A r \in e.runs : <<"runs", r>> \in known

LEMMA CompletedWrite ==
    ASSUME NEW known, NEW e, e.status = "completed", Whole(known, e)
    PROVE  LET w == Write("experiments", {e})
           IN  WriteOK(known, w) /\ WriteFacts(w) = {<<"experiments", e.id>>, <<"completed", e.id>>}
<1>1. WriteOK(known, Write("experiments", {e}))
  BY DEF Categories, Drawn, WriteOK, Write, NeedsOf, BarsOf, Directed, Whole
<1>2. FactsOf("experiments", {e}) = {<<"experiments", e.id>>, <<"completed", e.id>>}
  BY DEF FactsOf
<1>3. QED
  BY <1>1, <1>2 DEF WriteFacts, Write

LEMMA NamesFiled ==
    ASSUME NEW category, NEW items, category \notin Drawn
    PROVE  \A ids : Names(Filed(category, items), ids)
BY DEF Names, Filed

LEMMA NamesJoin ==
    ASSUME NEW given, NEW more, NEW ids, Names(given, ids), Names(more, ids)
    PROVE  Names(given \cup more, ids)
BY DEF Names

(* A plan of plain writes can always be carried out.                       *)
LEMMA PlainPlan ==
    ASSUME NEW s, IsSeq(s), \A i \in DOMAIN s : \E items : \E c \in Plain : s[i] = Write(c, items)
    PROVE  \A known, ids : Sound(known, s, Provided(s)) /\ Names(Provided(s), ids)
<1> SUFFICES ASSUME NEW known, NEW ids
             PROVE  Sound(known, s, Provided(s)) /\ Names(Provided(s), ids)
  OBVIOUS
<1>1. PlanOK(known, s)
  BY PlainWrite DEF PlanOK
<1>2. ASSUME NEW f \in Provided(s) PROVE f[1] \notin Drawn
  <2>1. PICK i \in DOMAIN s : f \in WriteFacts(s[i])
    BY <1>2, ProvidedIs
  <2>2. PICK items : \E c \in Plain : s[i] = Write(c, items)
    BY <2>1
  <2>3. PICK c \in Plain : s[i] = Write(c, items)
    BY <2>2
  <2>4. f \in Filed(c, items)
    BY <2>1, <2>3, PlainWrite
  <2>5. QED
    BY <2>3, <2>4 DEF Filed, Plain, Drawn
<1>3. QED
  BY <1>1, <1>2 DEF Sound, Names

(* Plans one after the other: nothing follows the one that raises.         *)
LEMMA InTurnGoesOn ==
    ASSUME NEW a, NEW b, NEW c
    PROVE  InTurn(<<Plan(a, FALSE), Plan(b, FALSE), Plan(c, FALSE)>>) = Plan(a \o b \o c, FALSE)
<1> DEFINE plans == <<Plan(a, FALSE), Plan(b, FALSE), Plan(c, FALSE)>>
           raising == {i \in DOMAIN plans : plans[i].raises}
           S == [i \in 1..3 |-> plans[i].writes]
<1>1. /\ DOMAIN plans = 1..3 /\ Len(plans) = 3
      /\ plans[1].writes = a /\ plans[2].writes = b /\ plans[3].writes = c
      /\ plans[1].raises = FALSE /\ plans[2].raises = FALSE /\ plans[3].raises = FALSE
  BY DEF Plan
<1> HIDE DEF plans
<1>2. FlattenSeq(S) = a \o b \o c
  <2>1. PICK s : s = S
    OBVIOUS
  <2>2. Len(s) \in 1..3 /\ Len(s) = 3 /\ s[1] = a /\ s[2] = b /\ s[3] = c
    BY <1>1, <2>1
  <2>3. QED
    BY <2>1, <2>2, Flattened DEF Cat
<1>3. raising = {}
  <2>1. \A i : i \in DOMAIN plans <=> i = 1 \/ i = 2 \/ i = 3
    BY <1>1
  <2>2. ~ plans[1].raises /\ ~ plans[2].raises /\ ~ plans[3].raises
    BY <1>1, Zenon
  <2>3. QED
    BY <2>1, <2>2, Zenon
<1>4. Len(plans) = 3
  BY <1>1
<1>5. QED
  BY <1>2, <1>3, <1>4 DEF InTurn, plans

(* A plan that raises is the last one.                                     *)
LEMMA InTurnStops ==
    ASSUME NEW a, NEW b, NEW c
    PROVE  InTurn(<<Plan(a, FALSE), Plan(b, TRUE), Plan(c, FALSE)>>) = Plan(a \o b, TRUE)
<1> DEFINE plans == <<Plan(a, FALSE), Plan(b, TRUE), Plan(c, FALSE)>>
           raising == {i \in DOMAIN plans : plans[i].raises}
           S == [i \in 1..2 |-> plans[i].writes]
<1>1. /\ DOMAIN plans = 1..3 /\ Len(plans) = 3
      /\ plans[1].writes = a /\ plans[2].writes = b /\ plans[3].writes = c
      /\ plans[1].raises = FALSE /\ plans[2].raises = TRUE /\ plans[3].raises = FALSE
  BY DEF Plan
<1> HIDE DEF plans
<1>2. FlattenSeq(S) = a \o b
  <2>1. PICK s : s = S
    OBVIOUS
  <2>2. Len(s) \in 1..3 /\ Len(s) = 2 /\ s[1] = a /\ s[2] = b
    BY <1>1, <2>1
  <2>3. QED
    BY <2>1, <2>2, Flattened DEF Cat
<1>3. raising = {2}
  <2>1. \A i : i \in DOMAIN plans <=> i = 1 \/ i = 2 \/ i = 3
    BY <1>1
  <2>2. ~ plans[1].raises /\ plans[2].raises /\ ~ plans[3].raises
    BY <1>1, Zenon
  <2>3. 2 # 1 /\ 2 # 3
    OBVIOUS
  <2>4. QED
    BY <2>1, <2>2, <2>3, Zenon
<1>4. Min(raising) = 2 /\ raising # {}
  BY <1>3 DEF Min
<1>5. QED
  BY <1>2, <1>3, <1>4 DEF InTurn, plans

LEMMA BothInTurn ==
    ASSUME NEW a, NEW b
    PROVE  InTurn(<<Plan(a, FALSE), Plan(b, FALSE)>>) = Plan(a \o b, FALSE)
<1> DEFINE plans == <<Plan(a, FALSE), Plan(b, FALSE)>>
           raising == {i \in DOMAIN plans : plans[i].raises}
           S == [i \in 1..2 |-> plans[i].writes]
<1>1. /\ DOMAIN plans = 1..2 /\ Len(plans) = 2
      /\ plans[1].writes = a /\ plans[2].writes = b
      /\ plans[1].raises = FALSE /\ plans[2].raises = FALSE
  BY DEF Plan
<1> HIDE DEF plans
<1>2. FlattenSeq(S) = a \o b
  <2>1. PICK s : s = S
    OBVIOUS
  <2>2. Len(s) \in 1..3 /\ Len(s) = 2 /\ s[1] = a /\ s[2] = b
    BY <1>1, <2>1
  <2>3. QED
    BY <2>1, <2>2, Flattened DEF Cat
<1>3. raising = {}
  <2>1. \A i : i \in DOMAIN plans <=> i = 1 \/ i = 2
    BY <1>1
  <2>2. ~ plans[1].raises /\ ~ plans[2].raises
    BY <1>1, Zenon
  <2>3. QED
    BY <2>1, <2>2, Zenon
<1>4. Len(plans) = 2
  BY <1>1
<1>5. QED
  BY <1>2, <1>3, <1>4 DEF InTurn, plans

LEMMA FirstRaises ==
    ASSUME NEW a, NEW b
    PROVE  InTurn(<<Plan(a, TRUE), Plan(b, FALSE)>>) = Plan(a, TRUE)
<1> DEFINE plans == <<Plan(a, TRUE), Plan(b, FALSE)>>
           raising == {i \in DOMAIN plans : plans[i].raises}
           S == [i \in 1..1 |-> plans[i].writes]
<1>1. /\ DOMAIN plans = 1..2 /\ Len(plans) = 2
      /\ plans[1].writes = a /\ plans[2].writes = b
      /\ plans[1].raises = TRUE /\ plans[2].raises = FALSE
  BY DEF Plan
<1> HIDE DEF plans
<1>2. FlattenSeq(S) = a
  <2>1. PICK s : s = S
    OBVIOUS
  <2>2. Len(s) \in 1..3 /\ Len(s) = 1 /\ s[1] = a
    BY <1>1, <2>1
  <2>3. QED
    BY <2>1, <2>2, Flattened DEF Cat
<1>3. raising = {1}
  <2>1. \A i : i \in DOMAIN plans <=> i = 1 \/ i = 2
    BY <1>1
  <2>2. plans[1].raises /\ ~ plans[2].raises
    BY <1>1, Zenon
  <2>3. 1 # 2
    OBVIOUS
  <2>4. QED
    BY <2>1, <2>2, <2>3, Zenon
<1>4. Min(raising) = 1 /\ raising # {}
  BY <1>3 DEF Min
<1>5. QED
  BY <1>2, <1>3, <1>4 DEF InTurn, plans

-----------------------------------------------------------------------------
(* The plans of the registry and of the workflow.                          *)

(* A write that may be made on these facts, and what it gives.             *)
May(known, w, given) == WriteOK(known, w) /\ WriteFacts(w) = given

(* A sound plan and one write more.                                        *)
LEMMA SoundNext ==
    ASSUME NEW known, NEW s, NEW given, Sound(known, s, given),
           NEW w, NEW more, May(known \cup given, w, more)
    PROVE  Sound(known, s \o <<w>>, given \cup more)
<1>1. Sound(known \cup given, <<w>>, more)
  BY SoundOne DEF May
<1>2. QED
  BY <1>1, SoundThen

LEMMA SoundTwo ==
    ASSUME NEW known, NEW a, NEW A, May(known, a, A), NEW b, NEW B, May(known \cup A, b, B)
    PROVE  Sound(known, <<a, b>>, A \cup B)
<1>1. Sound(known, <<a>>, A)
  BY SoundOne DEF May
<1>2. Sound(known, <<a>> \o <<b>>, A \cup B)
  BY <1>1, SoundNext
<1>3. QED
  BY <1>2, ChainedTwo

LEMMA SoundThree ==
    ASSUME NEW known, NEW a, NEW A, May(known, a, A), NEW b, NEW B, May(known \cup A, b, B),
           NEW c, NEW C, May(known \cup A \cup B, c, C)
    PROVE  Sound(known, <<a, b, c>>, A \cup B \cup C)
<1>1. Sound(known, <<a, b>>, A \cup B)
  BY SoundTwo
<1>2. known \cup (A \cup B) = known \cup A \cup B
  OBVIOUS
<1>3. Sound(known, <<a, b>> \o <<c>>, A \cup B \cup C)
  BY <1>1, <1>2, SoundNext
<1>4. <<a, b, c>> = <<a, b>> \o <<c>>
  BY ChainedThree, Zenon
<1>5. QED
  BY <1>3, <1>4, Zenon

LEMMA SoundFour ==
    ASSUME NEW known, NEW a, NEW A, May(known, a, A), NEW b, NEW B, May(known \cup A, b, B),
           NEW c, NEW C, May(known \cup A \cup B, c, C),
           NEW d, NEW D, May(known \cup A \cup B \cup C, d, D)
    PROVE  Sound(known, <<a, b, c, d>>, A \cup B \cup C \cup D)
<1>1. Sound(known, <<a, b, c>>, A \cup B \cup C)
  BY SoundThree
<1>2. known \cup (A \cup B \cup C) = known \cup A \cup B \cup C
  OBVIOUS
<1>3. Sound(known, <<a, b, c>> \o <<d>>, A \cup B \cup C \cup D)
  BY <1>1, <1>2, SoundNext
<1>4. <<a, b, c, d>> = <<a, b, c>> \o <<d>>
  BY ChainedFour, Zenon
<1>5. QED
  BY <1>3, <1>4, Zenon

LEMMA SoundFive ==
    ASSUME NEW known, NEW a, NEW A, May(known, a, A), NEW b, NEW B, May(known \cup A, b, B),
           NEW c, NEW C, May(known \cup A \cup B, c, C),
           NEW d, NEW D, May(known \cup A \cup B \cup C, d, D),
           NEW e, NEW E, May(known \cup A \cup B \cup C \cup D, e, E)
    PROVE  Sound(known, <<a, b, c, d, e>>, A \cup B \cup C \cup D \cup E)
<1>1. Sound(known, <<a, b, c, d>>, A \cup B \cup C \cup D)
  BY SoundFour
<1>2. known \cup (A \cup B \cup C \cup D) = known \cup A \cup B \cup C \cup D
  OBVIOUS
<1>3. Sound(known, <<a, b, c, d>> \o <<e>>, A \cup B \cup C \cup D \cup E)
  BY <1>1, <1>2, SoundNext
<1>4. <<a, b, c, d, e>> = <<a, b, c, d>> \o <<e>>
  BY ChainedFive, ZenonT(60)
<1>5. QED
  BY <1>3, <1>4, Zenon

(* A write of a plain category is always due.                              *)
LEMMA PlainMay ==
    \A known, items : \A category \in Plain :
        May(known, Write(category, items), Filed(category, items))
BY PlainWrite DEF May

NoSummary(given) == \A f \in given : f[1] # "performance_summaries"

(* An experiment that has begun is on file with all it refers to.          *)
LEMMA BeginsSound ==
    ASSUME NEW known, NEW e, NEW datasets, NEW manifests,
           e.status = "running", <<"experiments", e.id>> \notin known,
           \A d \in datasets :
             /\ <<"snapshots", d.snapshot>> \in known
             /\ <<"dataset_manifests", d.manifest>> \in known \cup Filed("dataset_manifests", manifests)
    PROVE  \E writes, given : \E raises \in BOOLEAN :
             /\ begin_experiment(e, datasets, manifests) = Plan(writes, raises)
             /\ Sound(known, writes, given) /\ Names(given, {e.id}) /\ NoSummary(given)
             /\ raises \/ Filed("dataset_references", datasets)
                            \cup Filed("dataset_manifests", manifests) \subseteq given
<1> DEFINE gate == validate_experiment_metadata(e.id, [id |-> e.id, prov |-> Linked],
                                                InSomeOrder(datasets))
           verdict == {[id |-> e.id, decision |-> gate.decision]}
           spoken == <<Write("gates", verdict)>>
           item == {[id |-> e.id]}
           rest == <<Write("experiment_configs", item), Write("run_contexts", item),
                     Write("dataset_manifests", manifests),
                     Write("dataset_references", datasets), Write("experiments", {e})>>
           G == Filed("gates", verdict)
           A == Filed("experiment_configs", item)
           B == Filed("run_contexts", item)
           C == Filed("dataset_manifests", manifests)
           D == Filed("dataset_references", datasets)
           E == {<<"experiments", e.id>>}
<1>1. begin_experiment(e, datasets, manifests)
        = IF Refused(gate) THEN Plan(spoken, TRUE) ELSE Plan(spoken \o rest, FALSE)
  BY DEF begin_experiment
<1> HIDE DEF gate, verdict, item
<1>2. {"gates", "experiment_configs", "run_contexts", "dataset_manifests"} \subseteq Plain
  BY DEF Plain, Categories
<1>3. Sound(known, spoken, G) /\ Names(G, {e.id})
  <2>1. May(known, Write("gates", verdict), G)
    BY <1>2, PlainMay
  <2>2. QED
    BY <2>1, SoundOne, NamesFiled DEF May, Drawn
<1>4. Sound(known \cup G, rest, A \cup B \cup C \cup D \cup E)
  <2> DEFINE K == known \cup G
  <2>1. /\ May(K, Write("experiment_configs", item), A)
        /\ May(K \cup A, Write("run_contexts", item), B)
        /\ May(K \cup A \cup B, Write("dataset_manifests", manifests), C)
    BY <1>2, PlainMay
  <2>2. May(K \cup A \cup B \cup C, Write("dataset_references", datasets), D)
    BY ReferenceWrite DEF May
  <2>3. <<"experiments", e.id>> \notin K \cup A \cup B \cup C \cup D
    BY DEF Filed
  <2>4. May(K \cup A \cup B \cup C \cup D, Write("experiments", {e}), E)
    BY <2>3, RunningWrite DEF May
  <2> HIDE DEF G, A, B, C, D, E, K
  <2>5. Sound(K, rest, A \cup B \cup C \cup D \cup E)
    BY <2>1, <2>2, <2>4, SoundFive
  <2>6. QED
    BY <2>5 DEF K
<1>5. Names(A \cup B \cup C \cup D \cup E, {e.id})
  <2>1. Names(A, {e.id}) /\ Names(B, {e.id}) /\ Names(C, {e.id}) /\ Names(D, {e.id})
    BY NamesFiled DEF Drawn
  <2>2. Names(E, {e.id})
    BY DEF Names
  <2> HIDE DEF A, B, C, D, E
  <2>3. QED
    BY <2>1, <2>2, NamesJoin
<1>6. NoSummary(G) /\ NoSummary(A \cup B \cup C \cup D \cup E)
  BY DEF NoSummary, Filed
<1> HIDE DEF G, A, B, E, spoken, rest
<1>7. CASE Refused(gate)
  BY <1>1, <1>3, <1>6, <1>7
<1>8. CASE ~ Refused(gate)
  <2> DEFINE H == A \cup B \cup C \cup D \cup E
  <2>1. C \cup D \subseteq G \cup H
    OBVIOUS
  <2> HIDE DEF H
  <2>2. Sound(known, spoken \o rest, G \cup H) /\ Names(G \cup H, {e.id})
    BY <1>3, <1>4, <1>5, SoundThen, NamesJoin DEF H
  <2>3. NoSummary(G \cup H)
    BY <1>6 DEF H, NoSummary
  <2>4. QED
    BY <1>1, <1>8, <2>1, <2>2, <2>3
<1>9. QED
  BY <1>7, <1>8

(* The fields of an experiment that is completed.                          *)
LEMMA CompletedIs ==
    ASSUME NEW id, NEW datasets, NEW of, NEW artifacts, NEW metrics
    PROVE  LET x == Completed(RunningExperiment(id, datasets, of), artifacts, metrics)
           IN  /\ DOMAIN x = {"id", "status", "datasets", "runs", "artifacts", "metrics", "prov"}
               /\ x.id = id /\ x.status = "completed"
               /\ x.datasets = {d.id : d \in datasets} /\ x.runs = of
               /\ x.artifacts = {a.id : a \in artifacts} /\ x.metrics = {m.id : m \in metrics}
<1>1. PICK D, A, M : D = {d.id : d \in datasets} /\ A = {a.id : a \in artifacts}
                     /\ M = {m.id : m \in metrics}
  OBVIOUS
<1>2. PICK e : e = [id |-> id, status |-> "running", datasets |-> D, runs |-> of,
                    artifacts |-> {}, metrics |-> {}, prov |-> Linked]
  OBVIOUS
<1>3. PICK x : x = [e EXCEPT !.status = "completed", !.artifacts = A, !.metrics = M]
  OBVIOUS
<1>4. DOMAIN x = {"id", "status", "datasets", "runs", "artifacts", "metrics", "prov"}
  BY <1>2, <1>3
<1>5. x.id = id /\ x.status = "completed" /\ x.datasets = D /\ x.runs = of
  BY <1>2, <1>3
<1>6. x.artifacts = A /\ x.metrics = M
  BY <1>2, <1>3
<1>7. e = RunningExperiment(id, datasets, of)
  BY <1>1, <1>2 DEF RunningExperiment
<1>8. x = Completed(RunningExperiment(id, datasets, of), artifacts, metrics)
  BY <1>1, <1>3, <1>7 DEF Completed
<1>9. QED
  BY <1>1, <1>4, <1>5, <1>6, <1>8

Ending(e) == {<<"experiments", e.id>>, <<"completed", e.id>>}
Reachable(known, artifacts) ==
    \A a \in artifacts : /\ a.category \in Categories /\ <<a.category, a.of>> \in known
                         /\ a.category = "experiments" => <<"completed", a.of>> \in known

(* An experiment that ends is on file after all that it refers to.         *)
LEMMA FinalizesSound ==
    ASSUME NEW known, NEW id, NEW datasets, NEW of, NEW artifacts, NEW metrics,
           Reachable(known, artifacts),
           \A m \in metrics : <<"value", m.of, m.name, m.value>> \in known,
           \A d \in datasets : <<"dataset_references", d.id>> \in known,
           \A r \in of : <<"runs", r>> \in known
    PROVE  LET e == RunningExperiment(id, datasets, of)
               given == Filed("experiment_artifacts", artifacts)
                          \cup Filed("experiment_metrics", metrics)
                          \cup Ending(Completed(e, artifacts, metrics))
           IN  /\ Sound(known, finalize_experiment(e, artifacts, metrics), given)
               /\ Names(given, {id})
               /\ Whole(known \cup given, Completed(e, artifacts, metrics))
               /\ <<"experiments", id>> \in given /\ <<"completed", id>> \in given
<1> DEFINE e == RunningExperiment(id, datasets, of)
           x == Completed(e, artifacts, metrics)
           A == Filed("experiment_artifacts", artifacts)
           B == Filed("experiment_metrics", metrics)
           C == Ending(x)
<1>1. May(known, Write("experiment_artifacts", artifacts), A)
  BY ArtifactWrite DEF May, Reachable
<1>2. May(known \cup A, Write("experiment_metrics", metrics), B)
  BY MetricWrite DEF May
<1>3. /\ x.status = "completed" /\ x.id = id /\ x.datasets = {d.id : d \in datasets} /\ x.runs = of
      /\ x.artifacts = {a.id : a \in artifacts} /\ x.metrics = {m.id : m \in metrics}
  BY CompletedIs
<1>4. Whole(known \cup A \cup B, x)
  <2> HIDE DEF x
  <2>1. QED
    BY <1>3 DEF Whole, Filed
<1>5. May(known \cup A \cup B, Write("experiments", {x}), C)
  <2> HIDE DEF x
  <2>1. QED
    BY <1>3, <1>4, CompletedWrite DEF May, Ending
<1>6. Sound(known, <<Write("experiment_artifacts", artifacts), Write("experiment_metrics", metrics),
                     Write("experiments", {x})>>, A \cup B \cup C)
  <2> HIDE DEF A, B, C, x
  <2>1. QED
    BY <1>1, <1>2, <1>5, SoundThree
<1>7. Names(A \cup B \cup C, {id})
  <2>1. Names(A, {id}) /\ Names(B, {id})
    BY NamesFiled DEF Drawn
  <2>2. Names(C, {id})
    BY <1>3 DEF Names, Ending, Drawn
  <2> HIDE DEF A, B, C
  <2>3. QED
    BY <2>1, <2>2, NamesJoin
<1>8. <<"experiments", id>> \in C /\ <<"completed", id>> \in C
  <2> HIDE DEF x
  <2>1. QED
    BY <1>3 DEF Ending
<1> HIDE DEF A, B, C, x
<1>9. Whole(known \cup (A \cup B \cup C), x)
  BY <1>4 DEF Whole
<1>10. QED
  BY <1>6, <1>7, <1>8, <1>9 DEF finalize_experiment, A, B, C, x

(* So is one that gets a scorecard when it has ended.                      *)
LEMMA ScoredSound ==
    ASSUME NEW known, NEW id, NEW datasets, NEW of, NEW artifacts, NEW metrics,
           Whole(known, Completed(RunningExperiment(id, datasets, of), artifacts, metrics))
    PROVE  \E given :
             /\ Sound(known, append_experiment_context(
                        Completed(RunningExperiment(id, datasets, of), artifacts, metrics)), given)
             /\ Names(given, {id})
<1> DEFINE x == Completed(RunningExperiment(id, datasets, of), artifacts, metrics)
           card == ExperimentArtifact(x, "scorecards", x.id)
           y == [x EXCEPT !.artifacts = @ \cup {card.id}]
           A == Filed("scorecards", {[id |-> x.id]})
           B == Filed("experiment_artifacts", {card})
           C == Ending(y)
<1>1. /\ x.status = "completed" /\ x.id = id
      /\ y.status = "completed" /\ y.id = id /\ y.datasets = x.datasets /\ y.runs = x.runs
      /\ y.artifacts = x.artifacts \cup {card.id} /\ y.metrics = x.metrics
  <2> HIDE DEF card
  <2>1. QED
    BY CompletedIs
<1>2. card.category = "scorecards" /\ card.of = id
  BY <1>1 DEF ExperimentArtifact
<1>3. Whole(known, x)
  OBVIOUS
<1> HIDE DEF x, card, y
<1>4. May(known, Write("scorecards", {[id |-> x.id]}), A)
  <2>1. "scorecards" \in Plain
    BY DEF Plain, Categories
  <2>2. QED
    BY <2>1, PlainMay
<1>5. May(known \cup A, Write("experiment_artifacts", {card}), B)
  <2>1. <<"scorecards", id>> \in A
    BY <1>1 DEF Filed
  <2>2. "scorecards" \in Categories
    BY DEF Categories
  <2>3. QED
    BY <1>2, <2>1, <2>2, ArtifactWrite DEF May
<1>6. Whole(known \cup A \cup B, y)
  BY <1>1, <1>3 DEF Whole, Filed
<1>7. May(known \cup A \cup B, Write("experiments", {y}), C)
  BY <1>1, <1>6, CompletedWrite DEF May, Ending
<1>8. Sound(known, <<Write("scorecards", {[id |-> x.id]}), Write("experiment_artifacts", {card}),
                     Write("experiments", {y})>>, A \cup B \cup C)
  <2> HIDE DEF A, B, C
  <2>1. QED
    BY <1>4, <1>5, <1>7, SoundThree
<1>9. Names(A \cup B \cup C, {id})
  <2>1. Names(A, {id}) /\ Names(B, {id})
    BY NamesFiled DEF Drawn
  <2>2. Names(C, {id})
    BY <1>1 DEF Names, Ending, Drawn
  <2> HIDE DEF A, B, C
  <2>3. QED
    BY <2>1, <2>2, NamesJoin
<1>10. append_experiment_context(x) =
         <<Write("scorecards", {[id |-> x.id]}), Write("experiment_artifacts", {card}),
           Write("experiments", {y})>>
  BY DEF append_experiment_context, card, y
<1>11. QED
  BY <1>8, <1>9, <1>10 DEF x

(* Three sound plans in turn.                                              *)
LEMMA SoundPlus ==
    ASSUME NEW known, NEW a, NEW A, Sound(known, a, A), NEW b, NEW B, Sound(known \cup A, b, B),
           NEW c, NEW C, Sound(known \cup A \cup B, c, C)
    PROVE  Sound(known, a \o b \o c, A \cup B \cup C)
<1>1. Sound(known, a \o b, A \cup B)
  BY SoundThen
<1>2. known \cup (A \cup B) = known \cup A \cup B
  OBVIOUS
<1>3. QED
  BY <1>1, <1>2, SoundThen

(* What the backtest of a family reads before it, and what it gives.       *)
LEMMA InputsSound ==
    ASSUME NEW known, NEW family
    PROVE  \E given : /\ Sound(known, InputWrites(family), given)
                      /\ \A f \in given : f[1] \notin Drawn
                      /\ \A name \in DatasetNames : <<"snapshots", <<family, name>>>> \in given
<1> DEFINE items == {[id |-> <<family, name>>] : name \in DatasetNames}
           A == Filed("realism", {[id |-> RunId(family)]})
           B == Filed("configs", {[id |-> family]})
           C == Filed("snapshots", items)
<1>1. {"realism", "configs", "snapshots"} \subseteq Plain
  BY DEF Plain, Categories
<1>2. \A f \in A \cup B \cup C : f[1] \notin Drawn
  BY DEF Filed, Drawn
<1>3. ASSUME NEW name \in DatasetNames
      PROVE  <<"snapshots", <<family, name>>>> \in C
  <2>1. PICK i : i = [id |-> <<family, name>>]
    OBVIOUS
  <2>2. i \in items /\ i.id = <<family, name>>
    BY <2>1
  <2>3. QED
    BY <2>2 DEF Filed
<1> HIDE DEF items
<1>4. /\ May(known, Write("realism", {[id |-> RunId(family)]}), A)
      /\ May(known \cup A, Write("configs", {[id |-> family]}), B)
      /\ May(known \cup A \cup B, Write("snapshots", items), C)
  BY <1>1, PlainMay
<1> HIDE DEF A, B, C
<1>5. Sound(known, <<Write("realism", {[id |-> RunId(family)]}), Write("configs", {[id |-> family]}),
                     Write("snapshots", items)>>, A \cup B \cup C)
  BY <1>4, SoundThree
<1>6. QED
  BY <1>2, <1>3, <1>5 DEF InputWrites, items

LEMMA SummaryId == \A family : PerformanceSummary(family).id = RunId(family)
BY DEF PerformanceSummary

(* The outputs of a backtest: the summary must be new.                     *)
LEMMA OutputsSound ==
    ASSUME NEW known, NEW family, <<"performance_summaries", RunId(family)>> \notin known
    PROVE  \E given :
             /\ Sound(known, OutputWrites(family), given) /\ Names(given, {RunId(family)})
             /\ <<"performance_summaries", RunId(family)>> \in given
             /\ ValuesOf(PerformanceSummary(family)) \subseteq given
             /\ \A b \in Benchmarks(family) : <<"benchmarks", b.id>> \in given
             /\ <<"runs", RunId(family)>> \in given
<1> DEFINE s == PerformanceSummary(family)
           A == Filed("decisions", {[id |-> RunId(family)]})
           B == {<<"performance_summaries", s.id>>} \cup ValuesOf(s)
           C == Filed("benchmarks", Benchmarks(family))
           D == Filed("runs", {BacktestRun(family)})
<1>1. {"decisions", "benchmarks", "runs"} \subseteq Plain
  BY DEF Plain, Categories
<1>2. s.id = RunId(family)
  BY SummaryId
<1> HIDE DEF s
<1>3. May(known, Write("decisions", {[id |-> RunId(family)]}), A)
  BY <1>1, PlainMay
<1>4. May(known \cup A, Write("performance_summaries", {s}), B)
  <2>1. <<"performance_summaries", s.id>> \notin known \cup A
    BY <1>2 DEF Filed
  <2>2. QED
    BY <2>1, SummaryWrite DEF May
<1>5. /\ May(known \cup A \cup B, Write("benchmarks", Benchmarks(family)), C)
      /\ May(known \cup A \cup B \cup C, Write("runs", {BacktestRun(family)}), D)
  BY <1>1, PlainMay
<1>6. Names(A \cup B \cup C \cup D, {RunId(family)})
  <2>1. /\ Names(A, {RunId(family)}) /\ Names(C, {RunId(family)})
        /\ Names(D, {RunId(family)})
    BY NamesFiled DEF Drawn
  <2>2. Names(B, {RunId(family)})
    BY <1>2 DEF Names, ValuesOf, Drawn
  <2> HIDE DEF A, B, C, D
  <2>3. QED
    BY <2>1, <2>2, NamesJoin
<1>7. /\ <<"performance_summaries", RunId(family)>> \in B /\ ValuesOf(s) \subseteq B
      /\ \A b \in Benchmarks(family) : <<"benchmarks", b.id>> \in C
      /\ <<"runs", RunId(family)>> \in D
  BY <1>2 DEF Filed, BacktestRun
<1> HIDE DEF A, B, C, D
<1>8. Sound(known, <<Write("decisions", {[id |-> RunId(family)]}), Write("performance_summaries", {s}),
                     Write("benchmarks", Benchmarks(family)), Write("runs", {BacktestRun(family)})>>,
            A \cup B \cup C \cup D)
  BY <1>3, <1>4, <1>5, SoundFour
<1>9. QED
  BY <1>6, <1>7, <1>8 DEF OutputWrites, s

LEMMA PlainOne ==
    ASSUME NEW known, NEW category \in Plain, NEW items, NEW ids
    PROVE  /\ Sound(known, <<Write(category, items)>>, Filed(category, items))
           /\ Names(Filed(category, items), ids)
<1>1. category \notin Drawn
  BY DEF Plain, Drawn
<1>2. QED
  BY <1>1, PlainMay, SoundOne, NamesFiled DEF May

LEMMA PlainTwo ==
    ASSUME NEW known, NEW category \in Plain, NEW items, NEW other \in Plain, NEW others, NEW ids
    PROVE  LET given == Filed(category, items) \cup Filed(other, others)
           IN  /\ Sound(known, <<Write(category, items), Write(other, others)>>, given)
               /\ Names(given, ids)
<1>1. category \notin Drawn /\ other \notin Drawn
  BY DEF Plain, Drawn
<1>2. QED
  BY <1>1, PlainMay, SoundTwo, NamesFiled, NamesJoin

(* What a child run leaves behind when it does not raise.                  *)
Fresh(known, id) == \A c \in Drawn : <<c, id>> \notin known

LEMMA ChildRunFacts ==
    ASSUME NEW family, NEW given,
           <<"runs", RunId(family)>> \in given, ValuesOf(PerformanceSummary(family)) \subseteq given,
           config.record =>
             /\ \A name \in DatasetNames : /\ <<"snapshots", <<family, name>>>> \in given
                                           /\ <<"dataset_manifests", <<family, name>>>> \in given
             /\ <<"experiments", RunId(family)>> \in given /\ <<"completed", RunId(family)>> \in given
    PROVE  RunFacts(VariantRun(family)) \subseteq given
<1> DEFINE v == VariantRun(family)
<1>1. v.run.id = RunId(family) /\ v.summary = PerformanceSummary(family)
  BY DEF VariantRun, BacktestRun
<1>2. v.summary.id = RunId(family)
  BY <1>1, SummaryId
<1>3. \A d \in v.datasets : /\ config.record
                            /\ \E name \in DatasetNames :
                                 d.snapshot = <<family, name>> /\ d.manifest = <<family, name>>
  <2>1. v.datasets = IF config.record THEN _build_dataset_registry_records(family) ELSE {}
    BY DEF VariantRun
  <2>2. \A d \in _build_dataset_registry_records(family) : \E name \in DatasetNames :
            d.snapshot = <<family, name>> /\ d.manifest = <<family, name>>
    BY DEF _build_dataset_registry_records
  <2>3. QED
    BY <2>1, <2>2
<1>4. config.record => v.experiment.id = RunId(family)
  <2>1. config.record => v.experiment = ChildCompleted(family)
    BY DEF VariantRun
  <2>2. ChildCompleted(family).id = RunId(family)
    BY CompletedIs DEF ChildCompleted, ChildExperiment
  <2>3. QED
    BY <2>1, <2>2
<1> HIDE DEF v
<1>5. ASSUME NEW f \in RunFacts(v) PROVE f \in given
  <2>1. CASE f = <<"runs", v.run.id>>
    BY <1>1, <2>1
  <2>2. CASE f \in {<<"value", v.summary.id, name, v.summary[name]>> : name \in MetricNames}
    BY <1>1, <2>2 DEF ValuesOf
  <2>3. CASE \E d \in v.datasets : f \in {<<"snapshots", d.snapshot>>, <<"dataset_manifests", d.manifest>>}
    BY <1>3, <2>3
  <2>4. CASE config.record /\ f \in {<<"experiments", v.experiment.id>>, <<"completed", v.experiment.id>>}
    BY <1>4, <2>4
  <2>5. QED
    BY <1>5, <2>1, <2>2, <2>3, <2>4 DEF RunFacts
<1>6. QED
  BY <1>5 DEF v

(* Carried out on facts that do not know its identifiers.                  *)
ChildSound(known, family, plan) ==
    \E writes, given : \E raises \in BOOLEAN :
        /\ plan = Plan(writes, raises) /\ Sound(known, writes, given)
        /\ Names(given, {RunId(family)})
        /\ raises \/ RunFacts(VariantRun(family)) \subseteq given

(* A child that is not recorded files its inputs and outputs.              *)
LEMMA UnrecordedSound ==
    ASSUME NEW known, NEW family, Fresh(known, RunId(family)), ~ config.record
    PROVE  ChildSound(known, family, run_backtest_workflow(family))
<1>1. PICK A : /\ Sound(known, InputWrites(family), A)
               /\ \A f \in A : f[1] \notin Drawn
  BY InputsSound
<1>2. <<"performance_summaries", RunId(family)>> \notin known \cup A
  BY <1>1 DEF Fresh, Drawn
<1>3. PICK B : /\ Sound(known \cup A, OutputWrites(family), B) /\ Names(B, {RunId(family)})
               /\ ValuesOf(PerformanceSummary(family)) \subseteq B
               /\ <<"runs", RunId(family)>> \in B
  BY <1>2, OutputsSound
<1>4. PICK item : Audit("backtest_completed", family) = Write("audit", item)
  BY DEF Audit
<1>5. PICK C : C = Filed("audit", item)
  OBVIOUS
<1>6. Sound(known \cup A \cup B, <<Audit("backtest_completed", family)>>, C)
      /\ Names(C, {RunId(family)})
  <2>1. "audit" \in Plain
    BY DEF Plain, Categories
  <2>2. QED
    BY <1>4, <1>5, <2>1, PlainOne
<1>7. Sound(known, InputWrites(family) \o OutputWrites(family)
                     \o <<Audit("backtest_completed", family)>>, A \cup B \cup C)
  BY <1>1, <1>3, <1>6, SoundPlus
<1>8. Names(A \cup B \cup C, {RunId(family)})
  <2>1. Names(A, {RunId(family)})
    BY <1>1 DEF Names
  <2>2. QED
    BY <1>3, <1>6, <2>1, NamesJoin
<1>9. RunFacts(VariantRun(family)) \subseteq A \cup B \cup C
  BY <1>3, ChildRunFacts
<1>10. run_backtest_workflow(family) =
         Plan(InputWrites(family) \o OutputWrites(family)
                \o <<Audit("backtest_completed", family)>>, FALSE)
  BY DEF run_backtest_workflow
<1>11. QED
  BY <1>7, <1>8, <1>9, <1>10 DEF ChildSound

LEMMA SoundInFour ==
    ASSUME NEW known, NEW a, NEW A, Sound(known, a, A), NEW b, NEW B, Sound(known \cup A, b, B),
           NEW c, NEW C, Sound(known \cup A \cup B, c, C),
           NEW d, NEW D, Sound(known \cup A \cup B \cup C, d, D)
    PROVE  Sound(known, a \o b \o c \o d, A \cup B \cup C \cup D)
<1>1. Sound(known, a \o b \o c, A \cup B \cup C)
  BY SoundPlus
<1>2. known \cup (A \cup B \cup C) = known \cup A \cup B \cup C
  OBVIOUS
<1>3. QED
  BY <1>1, <1>2, SoundThen

(* What a child refers to when it ends is on file by then.                 *)
LEMMA ChildReachable ==
    ASSUME NEW known, NEW family,
           <<"runs", RunId(family)>> \in known,
           <<"performance_summaries", RunId(family)>> \in known,
           \A name \in DatasetNames : <<"snapshots", <<family, name>>>> \in known,
           \A b \in Benchmarks(family) : <<"benchmarks", b.id>> \in known
    PROVE  Reachable(known, _build_experiment_artifacts(family, ChildExperiment(family)))
<1> DEFINE e == ChildExperiment(family)
<1>1. \A category, id : /\ ExperimentArtifact(e, category, id).category = category
                        /\ ExperimentArtifact(e, category, id).of = id
  BY DEF ExperimentArtifact
<1>2. \A a \in _build_experiment_artifacts(family, e) :
         \/ a = ExperimentArtifact(e, "runs", RunId(family))
         \/ a = ExperimentArtifact(e, "performance_summaries", RunId(family))
         \/ \E name \in DatasetNames : a = ExperimentArtifact(e, "snapshots", <<family, name>>)
         \/ \E b \in Benchmarks(family) : a = ExperimentArtifact(e, "benchmarks", b.id)
  <2> HIDE DEF e
  <2>1. QED
    BY DEF _build_experiment_artifacts
<1> HIDE DEF e
<1>3. ASSUME NEW a \in _build_experiment_artifacts(family, e)
      PROVE  /\ a.category \in Categories /\ <<a.category, a.of>> \in known
             /\ a.category # "experiments"
  <2>1. CASE a = ExperimentArtifact(e, "runs", RunId(family))
    BY <1>1, <2>1 DEF Categories
  <2>2. CASE a = ExperimentArtifact(e, "performance_summaries", RunId(family))
    BY <1>1, <2>2 DEF Categories
  <2>3. CASE \E name \in DatasetNames : a = ExperimentArtifact(e, "snapshots", <<family, name>>)
    BY <1>1, <2>3 DEF Categories
  <2>4. CASE \E b \in Benchmarks(family) : a = ExperimentArtifact(e, "benchmarks", b.id)
    BY <1>1, <2>4 DEF Categories
  <2>5. QED
    BY <1>2, <2>1, <2>2, <2>3, <2>4
<1>4. QED
  BY <1>3 DEF Reachable, e

LEMMA MetricsValued ==
    ASSUME NEW known, NEW e, NEW label, NEW s, ValuesOf(s) \subseteq known
    PROVE  \A m \in ExperimentMetrics(e, label, s) : <<"value", m.of, m.name, m.value>> \in known
<1> SUFFICES ASSUME NEW m \in ExperimentMetrics(e, label, s)
             PROVE  <<"value", m.of, m.name, m.value>> \in known
  OBVIOUS
<1>1. PICK name \in MetricNames :
         m = [id |-> <<e.id, name, label>>, experiment |-> e.id, of |-> s.id, name |-> name,
              value |-> s[name]]
  BY DEF ExperimentMetrics, MetricNames
<1>2. m.of = s.id /\ m.name = name /\ m.value = s[name]
  BY <1>1
<1>3. QED
  BY <1>2 DEF ValuesOf

RecordedRest(family) ==
    OutputWrites(family)
      \o finalize_experiment(ChildExperiment(family),
             _build_experiment_artifacts(family, ChildExperiment(family)), ChildMetrics(family))
      \o <<Audit("backtest_completed", family), Audit("experiment_completed", family)>>
      \o append_experiment_context(ChildCompleted(family))

(* All that follows the gate of a recorded child is sound.                 *)
LEMMA RestSound ==
    ASSUME NEW known, NEW family, <<"performance_summaries", RunId(family)>> \notin known,
           \A name \in DatasetNames : <<"snapshots", <<family, name>>>> \in known,
           Filed("dataset_references", _build_dataset_registry_records(family)) \subseteq known
    PROVE  \E given :
             /\ Sound(known, RecordedRest(family), given) /\ Names(given, {RunId(family)})
             /\ ValuesOf(PerformanceSummary(family)) \subseteq given
             /\ <<"runs", RunId(family)>> \in given
             /\ <<"experiments", RunId(family)>> \in given /\ <<"completed", RunId(family)>> \in given
<1> DEFINE id == RunId(family)
           datasets == _build_dataset_registry_records(family)
           of == {RunId(family)}
           artifacts == _build_experiment_artifacts(family, ChildExperiment(family))
           metrics == ChildMetrics(family)
           e == RunningExperiment(id, datasets, of)
           x == Completed(e, artifacts, metrics)
<1>1. ChildExperiment(family) = e /\ ChildCompleted(family) = x
  BY DEF ChildExperiment, ChildCompleted
<1>2. PICK A : /\ Sound(known, OutputWrites(family), A) /\ Names(A, {id})
               /\ <<"performance_summaries", RunId(family)>> \in A
               /\ ValuesOf(PerformanceSummary(family)) \subseteq A
               /\ \A b \in Benchmarks(family) : <<"benchmarks", b.id>> \in A
               /\ <<"runs", RunId(family)>> \in A
  BY OutputsSound
<1>3. Reachable(known \cup A, artifacts)
  BY <1>2, ChildReachable
<1>4. \A m \in metrics : <<"value", m.of, m.name, m.value>> \in known \cup A
  BY <1>2, MetricsValued DEF ChildMetrics
<1>5. /\ \A d \in datasets : <<"dataset_references", d.id>> \in known \cup A
      /\ \A r \in of : <<"runs", r>> \in known \cup A
  BY <1>2 DEF Filed
<1> HIDE DEF datasets, of, artifacts, metrics, e, x, id
<1>6. PICK B : /\ Sound(known \cup A, finalize_experiment(e, artifacts, metrics), B)
               /\ Names(B, {id}) /\ Whole(known \cup A \cup B, x)
               /\ <<"experiments", id>> \in B /\ <<"completed", id>> \in B
  BY ZenonT(60), <1>3, <1>4, <1>5, FinalizesSound DEF e, x
<1>7. PICK C : /\ Sound(known \cup A \cup B,
                        <<Audit("backtest_completed", family), Audit("experiment_completed", family)>>, C)
               /\ Names(C, {id})
  <2>1. "audit" \in Plain
    BY DEF Plain, Categories
  <2>2. PICK i, j : /\ Audit("backtest_completed", family) = Write("audit", i)
                    /\ Audit("experiment_completed", family) = Write("audit", j)
    BY DEF Audit
  <2>3. QED
    BY <2>1, <2>2, PlainTwo
<1>8. PICK D : /\ Sound(known \cup A \cup B \cup C, append_experiment_context(x), D)
               /\ Names(D, {id})
  <2>1. Whole(known \cup A \cup B \cup C, x)
    BY <1>6 DEF Whole
  <2>2. QED
    BY <2>1, ScoredSound DEF e, x
<1>9. Sound(known, RecordedRest(family), A \cup B \cup C \cup D)
  <2>1. RecordedRest(family) =
          OutputWrites(family) \o finalize_experiment(e, artifacts, metrics)
            \o <<Audit("backtest_completed", family), Audit("experiment_completed", family)>>
            \o append_experiment_context(x)
    BY <1>1 DEF RecordedRest, artifacts, metrics
  <2>2. PICK a, b, c, d :
          /\ a = OutputWrites(family) /\ b = finalize_experiment(e, artifacts, metrics)
          /\ c = <<Audit("backtest_completed", family), Audit("experiment_completed", family)>>
          /\ d = append_experiment_context(x)
    OBVIOUS
  <2>3. Sound(known, a \o b \o c \o d, A \cup B \cup C \cup D)
    <3>1. /\ Sound(known, a, A) /\ Sound(known \cup A, b, B) /\ Sound(known \cup A \cup B, c, C)
          /\ Sound(known \cup A \cup B \cup C, d, D)
      BY <1>2, <1>6, <1>7, <1>8, <2>2
    <3>2. QED
      BY <3>1, SoundInFour
  <2>4. QED
    BY <2>1, <2>2, <2>3
<1>10. Names(A \cup B \cup C \cup D, {id})
  BY <1>2, <1>6, <1>7, <1>8, NamesJoin
<1>11. QED
  BY <1>2, <1>6, <1>9, <1>10 DEF id

(* A recorded child is sound, whether or not its gate refuses.             *)
LEMMA RecordedSound ==
    ASSUME NEW known, NEW family, Fresh(known, RunId(family)), config.record
    PROVE  ChildSound(known, family, run_backtest_workflow(family))
<1> DEFINE id == RunId(family)
           datasets == _build_dataset_registry_records(family)
           e == ChildExperiment(family)
           manifests == {[id |-> d.manifest] : d \in datasets}
<1>1. PICK A : /\ Sound(known, InputWrites(family), A)
               /\ \A f \in A : f[1] \notin Drawn
               /\ \A name \in DatasetNames : <<"snapshots", <<family, name>>>> \in A
  BY InputsSound
<1>2. e.id = id /\ e.status = "running"
  BY DEF ChildExperiment, RunningExperiment
<1>3. \A c \in Drawn : <<c, id>> \notin known \cup A
  BY <1>1 DEF Fresh
<1>4. \A d \in datasets :
        /\ \E name \in DatasetNames : d.snapshot = <<family, name>> /\ d.manifest = <<family, name>>
        /\ <<"dataset_manifests", d.manifest>> \in Filed("dataset_manifests", manifests)
  <2>1. \A d \in datasets :
          \E name \in DatasetNames : d.snapshot = <<family, name>> /\ d.manifest = <<family, name>>
    BY DEF _build_dataset_registry_records
  <2>2. ASSUME NEW d \in datasets
        PROVE  <<"dataset_manifests", d.manifest>> \in Filed("dataset_manifests", manifests)
    <3>1. PICK m : m = [id |-> d.manifest]
      OBVIOUS
    <3>2. m \in manifests /\ m.id = d.manifest
      BY <3>1
    <3> HIDE DEF datasets, manifests
    <3>3. QED
      BY <3>2 DEF Filed
  <2>3. QED
    BY <2>1, <2>2
<1>5. \A name \in DatasetNames :
         \E d \in datasets : d.snapshot = <<family, name>> /\ d.manifest = <<family, name>>
  <2> SUFFICES ASSUME NEW name \in DatasetNames
               PROVE  \E d \in datasets : d.snapshot = <<family, name>> /\ d.manifest = <<family, name>>
    OBVIOUS
  <2>1. PICK d : d = [id |-> <<family, name>>, snapshot |-> <<family, name>>,
                      manifest |-> <<family, name>>, storage |-> <<family, name>>, prov |-> Linked]
    OBVIOUS
  <2>2. d \in datasets
    BY <2>1 DEF _build_dataset_registry_records
  <2>3. QED
    BY <2>1, <2>2
<1> HIDE DEF id, datasets, e, manifests
<1>6. PICK b, B : \E raises \in BOOLEAN :
         /\ begin_experiment(e, datasets, manifests) = Plan(b, raises)
         /\ Sound(known \cup A, b, B) /\ Names(B, {id}) /\ NoSummary(B)
         /\ raises \/ Filed("dataset_references", datasets)
                        \cup Filed("dataset_manifests", manifests) \subseteq B
  <2>1. <<"experiments", e.id>> \notin known \cup A
    BY <1>2, <1>3 DEF Drawn
  <2>2. \A d \in datasets :
          /\ <<"snapshots", d.snapshot>> \in known \cup A
          /\ <<"dataset_manifests", d.manifest>> \in (known \cup A) \cup Filed("dataset_manifests", manifests)
    BY <1>1, <1>4
  <2>3. QED
    BY <1>2, <2>1, <2>2, BeginsSound, SMTT(40)
<1>7. PICK raises \in BOOLEAN :
         /\ begin_experiment(e, datasets, manifests) = Plan(b, raises)
         /\ raises \/ Filed("dataset_references", datasets)
                        \cup Filed("dataset_manifests", manifests) \subseteq B
  BY <1>6
<1>8. run_backtest_workflow(family) =
        InTurn(<<Plan(InputWrites(family), FALSE), Plan(b, raises), Plan(RecordedRest(family), FALSE)>>)
  <2>1. run_backtest_workflow(family) =
          InTurn(<<Plan(InputWrites(family), FALSE),
                   begin_experiment(e, datasets, manifests), Plan(RecordedRest(family), FALSE)>>)
    BY DEF run_backtest_workflow, e, datasets, manifests, RecordedRest
  <2>2. QED
    BY <1>7, <2>1
<1>9. Names(A, {id})
  BY <1>1 DEF Names
<1>10. CASE raises
  <2>1. run_backtest_workflow(family) = Plan(InputWrites(family) \o b, TRUE)
    <3>1. raises = TRUE
      BY <1>7, <1>10
    <3>2. QED
      BY <1>8, <3>1, InTurnStops
  <2>2. Sound(known, InputWrites(family) \o b, A \cup B)
    BY <1>1, <1>6, SoundThen
  <2>3. Names(A \cup B, {id})
    BY <1>6, <1>9, NamesJoin
  <2>4. QED
    BY <2>1, <2>2, <2>3 DEF ChildSound, id
<1>11. CASE ~ raises
  <2>1. run_backtest_workflow(family) = Plan(InputWrites(family) \o b \o RecordedRest(family), FALSE)
    <3>1. raises = FALSE
      BY <1>7, <1>11
    <3>2. InTurn(<<Plan(InputWrites(family), FALSE), Plan(b, FALSE),
                   Plan(RecordedRest(family), FALSE)>>)
            = Plan(InputWrites(family) \o b \o RecordedRest(family), FALSE)
      BY InTurnGoesOn, Zenon
    <3>3. QED
      BY <1>8, <3>1, <3>2, Zenon
  <2>2. PICK C : /\ Sound(known \cup A \cup B, RecordedRest(family), C) /\ Names(C, {id})
                 /\ ValuesOf(PerformanceSummary(family)) \subseteq C
                 /\ <<"runs", RunId(family)>> \in C
                 /\ <<"experiments", RunId(family)>> \in C /\ <<"completed", RunId(family)>> \in C
    <3>1. <<"performance_summaries", RunId(family)>> \notin known \cup A \cup B
      <4>1. <<"performance_summaries", RunId(family)>> \notin B
        BY <1>6 DEF NoSummary
      <4>2. QED
        BY <1>3, <4>1 DEF id, Drawn
    <3>2. \A name \in DatasetNames : <<"snapshots", <<family, name>>>> \in known \cup A \cup B
      BY <1>1
    <3>3. Filed("dataset_references", _build_dataset_registry_records(family))
            \subseteq known \cup A \cup B
      BY <1>7, <1>11 DEF datasets
    <3>4. QED
      BY <3>1, <3>2, <3>3, RestSound DEF id
  <2>3. Sound(known, InputWrites(family) \o b \o RecordedRest(family), A \cup B \cup C)
    BY <1>1, <1>6, <2>2, SoundPlus
  <2>4. Names(A \cup B \cup C, {id})
    BY <1>6, <1>9, <2>2, NamesJoin
  <2>5. RunFacts(VariantRun(family)) \subseteq A \cup B \cup C
    <3>1. \A name \in DatasetNames : <<"dataset_manifests", <<family, name>>>> \in B
      BY <1>4, <1>5, <1>7, <1>11
    <3>2. QED
      BY <1>1, <2>2, <3>1, ChildRunFacts
  <2>6. QED
    BY <2>1, <2>3, <2>4, <2>5 DEF ChildSound, id
<1>12. QED
  BY <1>10, <1>11

-----------------------------------------------------------------------------
(* The plan of the comparison.                                             *)

ParentId == <<n, 0, "ablation">>
ParentArtifacts == build_parent_experiment_artifacts(ParentExperiment)
ParentMetrics == build_parent_experiment_metrics(ParentExperiment)
ParentFacts(known) ==
    /\ \A v \in ToSet(runs) : RunFacts(v) \subseteq known
    /\ \A d \in Definitions : <<"definitions", d>> \in known
    /\ \A s \in {"research", "prices"} : <<"source_snapshots", s>> \in known
    /\ <<"ablation_results", "ablation_result">> \in known

LEMMA RunFactsAre ==
    ASSUME NEW known, NEW v, RunFacts(v) \subseteq known
    PROVE  /\ <<"runs", v.run.id>> \in known /\ ValuesOf(v.summary) \subseteq known
           /\ \A d \in v.datasets : /\ <<"snapshots", d.snapshot>> \in known
                                    /\ <<"dataset_manifests", d.manifest>> \in known
           /\ config.record => /\ <<"experiments", v.experiment.id>> \in known
                               /\ <<"completed", v.experiment.id>> \in known
BY DEF RunFacts, ValuesOf

(* What the comparison lists has been filed by its children.               *)
LEMMA ParentReachable ==
    ASSUME NEW known, ParentFacts(known), config.record
    PROVE  /\ Reachable(known, ParentArtifacts)
           /\ \A m \in ParentMetrics : <<"value", m.of, m.name, m.value>> \in known
           /\ \A r \in {v.run.id : v \in ToSet(runs)} : <<"runs", r>> \in known
<1> DEFINE e == ParentExperiment
<1>1. \A category, id : /\ ExperimentArtifact(e, category, id).category = category
                        /\ ExperimentArtifact(e, category, id).of = id
  BY DEF ExperimentArtifact
<1> HIDE DEF e
<1>2. ASSUME NEW a \in build_parent_experiment_artifacts(e)
      PROVE  /\ a.category \in Categories /\ <<a.category, a.of>> \in known
             /\ a.category = "experiments" => <<"completed", a.of>> \in known
  <2>1. \/ \E d \in Definitions : a = ExperimentArtifact(e, "definitions", d)
        \/ \E s \in {"research", "prices"} : a = ExperimentArtifact(e, "source_snapshots", s)
        \/ a = ExperimentArtifact(e, "ablation_results", "ablation_result")
        \/ \E v \in ToSet(runs) : a = ExperimentArtifact(e, "experiments", v.experiment.id)
    BY <1>2 DEF build_parent_experiment_artifacts
  <2>2. CASE \E d \in Definitions : a = ExperimentArtifact(e, "definitions", d)
    BY <1>1, <2>2 DEF ParentFacts, Categories
  <2>3. CASE \E s \in {"research", "prices"} : a = ExperimentArtifact(e, "source_snapshots", s)
    BY <1>1, <2>3 DEF ParentFacts, Categories
  <2>4. CASE a = ExperimentArtifact(e, "ablation_results", "ablation_result")
    BY <1>1, <2>4 DEF ParentFacts, Categories
  <2>5. CASE \E v \in ToSet(runs) : a = ExperimentArtifact(e, "experiments", v.experiment.id)
    <3>1. PICK v \in ToSet(runs) : a = ExperimentArtifact(e, "experiments", v.experiment.id)
      BY <2>5
    <3>2. <<"experiments", v.experiment.id>> \in known /\ <<"completed", v.experiment.id>> \in known
      BY RunFactsAre DEF ParentFacts
    <3>3. QED
      BY <1>1, <3>1, <3>2 DEF Categories
  <2>6. QED
    BY <2>1, <2>2, <2>3, <2>4, <2>5
<1>3. ASSUME NEW m \in build_parent_experiment_metrics(e)
      PROVE  <<"value", m.of, m.name, m.value>> \in known
  <2>1. PICK v \in ToSet(runs) : m \in ExperimentMetrics(e, v.family, v.summary)
    BY <1>3 DEF build_parent_experiment_metrics
  <2>2. ValuesOf(v.summary) \subseteq known
    BY RunFactsAre DEF ParentFacts, Categories
  <2>3. QED
    BY <2>1, <2>2, MetricsValued
<1>4. ASSUME NEW v \in ToSet(runs) PROVE <<"runs", v.run.id>> \in known
  BY RunFactsAre DEF ParentFacts
<1>5. QED
  BY <1>2, <1>3, <1>4 DEF Reachable, ParentArtifacts, ParentMetrics, e

PlanSound(known, plan, ids) ==
    \E writes, given : \E raises \in BOOLEAN :
        plan = Plan(writes, raises) /\ Sound(known, writes, given) /\ Names(given, ids)

(* The experiment over the experiments begins and ends soundly.            *)
LEMMA ParentSound ==
    ASSUME NEW known, ParentFacts(known), <<"experiments", ParentId>> \notin known, Recorded
    PROVE  \E writes, given : \E raises \in BOOLEAN :
             /\ ParentPlan = Plan(writes, raises) /\ Sound(known, writes, given)
             /\ Names(given, {ParentId})
             /\ raises \/ Whole(known \cup given, ParentCompleted)
<1> DEFINE e == ParentExperiment
           of == {v.run.id : v \in ToSet(runs)}
           artifacts == ParentArtifacts
           metrics == ParentMetrics
<1>1. e.id = ParentId /\ e.status = "running" /\ e = RunningExperiment(ParentId, Datasets, of)
  BY DEF ParentExperiment, RunningExperiment, ParentId
<1>2. ASSUME NEW d \in Datasets
      PROVE  <<"snapshots", d.snapshot>> \in known /\ <<"dataset_manifests", d.manifest>> \in known
  <2>1. PICK v \in ToSet(runs) : d \in v.datasets
    BY <1>2 DEF Datasets
  <2>2. QED
    BY <2>1, RunFactsAre DEF ParentFacts
<1> HIDE DEF e, of
<1>3. PICK a, A : \E raises \in BOOLEAN :
         /\ begin_experiment(e, Datasets, {}) = Plan(a, raises)
         /\ Sound(known, a, A) /\ Names(A, {ParentId}) /\ NoSummary(A)
         /\ raises \/ Filed("dataset_references", Datasets) \cup Filed("dataset_manifests", {}) \subseteq A
  BY <1>1, <1>2, BeginsSound
<1>4. PICK raises \in BOOLEAN :
         /\ begin_experiment(e, Datasets, {}) = Plan(a, raises)
         /\ raises \/ Filed("dataset_references", Datasets) \cup Filed("dataset_manifests", {}) \subseteq A
  BY <1>3
<1>5. ParentPlan = InTurn(<<Plan(a, raises), Plan(finalize_experiment(e, artifacts, metrics), FALSE)>>)
  BY <1>4 DEF ParentPlan, e, ParentArtifacts, ParentMetrics
<1>6. CASE raises
  <2>1. raises = TRUE
    BY <1>4, <1>6
  <2>2. InTurn(<<Plan(a, TRUE), Plan(finalize_experiment(e, artifacts, metrics), FALSE)>>) = Plan(a, TRUE)
    BY FirstRaises, Zenon
  <2>3. ParentPlan = Plan(a, TRUE)
    BY <1>5, <2>1, <2>2, Zenon
  <2>4. QED
    BY <1>3, <2>3
<1>7. CASE ~ raises
  <2>1. raises = FALSE
    BY <1>4, <1>7
  <2>2. InTurn(<<Plan(a, FALSE), Plan(finalize_experiment(e, artifacts, metrics), FALSE)>>)
          = Plan(a \o finalize_experiment(e, artifacts, metrics), FALSE)
    BY BothInTurn, Zenon
  <2>3. ParentPlan = Plan(a \o finalize_experiment(e, artifacts, metrics), FALSE)
    BY <1>5, <2>1, <2>2, Zenon
  <2>4. /\ Reachable(known \cup A, artifacts)
        /\ \A m \in metrics : <<"value", m.of, m.name, m.value>> \in known \cup A
        /\ \A r \in of : <<"runs", r>> \in known \cup A
    BY ParentReachable DEF Reachable, Recorded, of
  <2>5. \A d \in Datasets : <<"dataset_references", d.id>> \in known \cup A
    BY <1>4, <1>7 DEF Filed
  <2> HIDE DEF artifacts, metrics
  <2>6. PICK B : /\ Sound(known \cup A, finalize_experiment(e, artifacts, metrics), B)
                 /\ Names(B, {ParentId}) /\ Whole(known \cup A \cup B, Completed(e, artifacts, metrics))
    BY <1>1, <2>4, <2>5, FinalizesSound
  <2>7. Sound(known, a \o finalize_experiment(e, artifacts, metrics), A \cup B)
        /\ Names(A \cup B, {ParentId})
    BY <1>3, <2>6, SoundThen, NamesJoin
  <2>8. Whole(known \cup (A \cup B), ParentCompleted)
    BY <2>6 DEF Whole, ParentCompleted, ParentArtifacts, ParentMetrics, e, artifacts, metrics
  <2>9. QED
    BY <2>3, <2>7, <2>8
<1>8. QED
  BY <1>6, <1>7

(* Evaluating writes nothing of the registry.                              *)
LEMMA EvaluationSound ==
    \E given : \A known, ids : Sound(known, evaluate_strategy_ablation, given) /\ Names(given, ids)
<1> DEFINE checks == [i \in DOMAIN Evaluations |-> Write("metrics", Evaluations[i].metrics)]
           last == <<Write("failure_cases", FailureIds(_evaluate_ablation_bundle.failures)),
                     Write("robustness_checks", RobustnessChecks),
                     Write("comparison_summaries", {[id |-> "summary", order |-> AblationResult.rows]}),
                     Write("reports", {EvaluationReport})>>
<1>1. DOMAIN Evaluations = 1..6
  BY DEF Evaluations
<1>2. IsSeq(checks)
  <2>1. PICK s : s = checks
    OBVIOUS
  <2>2. s \in [1..6 -> ToSet(s)]
    BY <1>1, <2>1 DEF ToSet
  <2>3. s \in Seq(ToSet(s))
    <3>1. PICK k, S : k \in Nat /\ k = 6 /\ S = ToSet(s)
      OBVIOUS
    <3>2. s \in [1..k -> S]
      BY <2>2, <3>1
    <3> HIDE DEF checks, last
    <3>3. s \in Seq(S)
      <4>1. k \in Nat
        BY <3>1
      <4>2. QED
        BY <3>2, <4>1
    <3>4. QED
      BY <3>1, <3>3
  <2>4. QED
    BY <2>1, <2>3 DEF IsSeq
<1>3. \A i \in DOMAIN checks : \E items : \E c \in Plain : checks[i] = Write(c, items)
  <2>1. "metrics" \in Plain
    BY DEF Plain, Categories
  <2>2. QED
    BY <2>1
<1>4. /\ IsSeq(last)
      /\ \A i \in DOMAIN last : \E items : \E c \in Plain : last[i] = Write(c, items)
  <2>1. {"failure_cases", "robustness_checks", "comparison_summaries", "reports"} \subseteq Plain
    BY DEF Plain, Categories
  <2>2. PICK w, x, y, z :
          /\ w = FailureIds(_evaluate_ablation_bundle.failures)
          /\ x = RobustnessChecks /\ y = {[id |-> "summary", order |-> AblationResult.rows]}
          /\ z = {EvaluationReport}
    OBVIOUS
  <2>3. last = <<Write("failure_cases", w), Write("robustness_checks", x),
                 Write("comparison_summaries", y), Write("reports", z)>>
    BY <2>2
  <2> HIDE DEF last
  <2>4. QED
    BY <2>1, <2>3, TupleIsSeq
<1>5. evaluate_strategy_ablation = checks \o last
  BY DEF evaluate_strategy_ablation
<1> HIDE DEF checks, last
<1>6. \A known, ids : /\ Sound(known, checks, Provided(checks)) /\ Names(Provided(checks), ids)
                      /\ Sound(known, last, Provided(last)) /\ Names(Provided(last), ids)
  BY <1>2, <1>3, <1>4, PlainPlan
<1>7. \A known, ids : /\ Sound(known, checks \o last, Provided(checks) \cup Provided(last))
                      /\ Names(Provided(checks) \cup Provided(last), ids)
  BY <1>6, SoundThen, NamesJoin
<1>8. QED
  BY <1>5, <1>7

RestOfComparison ==
    evaluate_strategy_ablation
      \o (IF Recorded THEN append_experiment_context(ParentCompleted) ELSE <<>>)
      \o <<Audit("ablation_completed", "ablation"), Audit("evaluation_completed", "report")>>
      \o (IF Recorded THEN <<Audit("experiment_completed", "ablation")>> ELSE <<>>)

(* The evaluation and the scorecard of the comparison are sound.           *)
LEMMA RestOfComparisonSound ==
    ASSUME NEW known, Recorded => Whole(known, ParentCompleted)
    PROVE  \E given : Sound(known, RestOfComparison, given) /\ Names(given, {ParentId})
<1>1. PICK A : /\ Sound(known, evaluate_strategy_ablation, A) /\ Names(A, {ParentId})
  BY EvaluationSound
<1>2. PICK b : b = IF Recorded THEN append_experiment_context(ParentCompleted) ELSE <<>>
  OBVIOUS
<1>3. PICK B : Sound(known \cup A, b, B) /\ Names(B, {ParentId})
  <2>1. CASE Recorded
    <3>1. ParentCompleted = Completed(RunningExperiment(ParentId, Datasets, {v.run.id : v \in ToSet(runs)}),
                                      ParentArtifacts, ParentMetrics)
      BY DEF ParentCompleted, ParentExperiment, ParentId, ParentArtifacts, ParentMetrics
    <3>2. Whole(known \cup A, ParentCompleted)
      BY <2>1 DEF Whole
    <3>3. b = append_experiment_context(ParentCompleted)
      BY <1>2, <2>1
    <3>4. QED
      BY <3>1, <3>2, <3>3, ScoredSound
  <2>2. CASE ~ Recorded
    <3>1. b = <<>>
      BY <1>2, <2>2
    <3>2. Names({}, {ParentId})
      BY DEF Names
    <3>3. QED
      BY <3>1, <3>2, NoPlan DEF Sound
  <2>3. QED
    BY <2>1, <2>2
<1>4. "audit" \in Plain
  BY DEF Plain, Categories
<1>5. PICK i, j, k : /\ Audit("ablation_completed", "ablation") = Write("audit", i)
                     /\ Audit("evaluation_completed", "report") = Write("audit", j)
                     /\ Audit("experiment_completed", "ablation") = Write("audit", k)
  BY DEF Audit
<1>6. PICK C : /\ Sound(known \cup A \cup B, <<Audit("ablation_completed", "ablation"),
                                             Audit("evaluation_completed", "report")>>, C)
               /\ Names(C, {ParentId})
  BY <1>4, <1>5, PlainTwo
<1>7. PICK d : d = IF Recorded THEN <<Audit("experiment_completed", "ablation")>> ELSE <<>>
  OBVIOUS
<1>8. PICK D : Sound(known \cup A \cup B \cup C, d, D) /\ Names(D, {ParentId})
  <2>1. CASE Recorded
    BY <1>4, <1>5, <1>7, <2>1, PlainOne
  <2>2. CASE ~ Recorded
    <3>1. d = <<>>
      BY <1>7, <2>2
    <3>2. Names({}, {ParentId})
      BY DEF Names
    <3>3. QED
      BY <3>1, <3>2, NoPlan DEF Sound
  <2>3. QED
    BY <2>1, <2>2
<1>9. RestOfComparison = evaluate_strategy_ablation \o b
        \o <<Audit("ablation_completed", "ablation"), Audit("evaluation_completed", "report")>> \o d
  BY <1>2, <1>7 DEF RestOfComparison
<1>10. PICK a, c : /\ a = evaluate_strategy_ablation
                   /\ c = <<Audit("ablation_completed", "ablation"), Audit("evaluation_completed", "report")>>
  OBVIOUS
<1>11. Sound(known, a \o b \o c \o d, A \cup B \cup C \cup D)
  BY <1>1, <1>3, <1>6, <1>8, <1>10, SoundInFour
<1>12. Names(A \cup B \cup C \cup D, {ParentId})
  BY <1>1, <1>3, <1>6, <1>8, NamesJoin
<1>13. QED
  BY <1>9, <1>10, <1>11, <1>12

Comparison ==
    InTurn(<<Plan(<<Write("ablation_results", {AblationResult})>>, FALSE), ParentPlan,
             Plan(RestOfComparison, FALSE)>>)

(* The whole of the comparison is, on what the children have filed.        *)
LEMMA ComparisonSound ==
    ASSUME NEW known, <<"experiments", ParentId>> \notin known,
           \A v \in ToSet(runs) : RunFacts(v) \subseteq known,
           \A d \in Definitions : <<"definitions", d>> \in known,
           \A s \in {"research", "prices"} : <<"source_snapshots", s>> \in known
    PROVE  PlanSound(known, Comparison, {ParentId})
<1> DEFINE result == <<Write("ablation_results", {AblationResult})>>
           A == Filed("ablation_results", {AblationResult})
<1>1. Sound(known, result, A) /\ Names(A, {ParentId})
  <2>1. "ablation_results" \in Plain
    BY DEF Plain, Categories
  <2>2. QED
    BY <2>1, PlainOne
<1>2. ParentFacts(known \cup A)
  <2>1. AblationResult.id = "ablation_result"
    BY DEF AblationResult
  <2>2. <<"ablation_results", "ablation_result">> \in A
    BY <2>1 DEF Filed
  <2>3. QED
    BY <2>2 DEF ParentFacts
<1>3. <<"experiments", ParentId>> \notin known \cup A
  BY DEF Filed
<1> HIDE DEF result, A
<1>4. PICK b, B : \E raises \in BOOLEAN :
         /\ ParentPlan = Plan(b, raises) /\ Sound(known \cup A, b, B) /\ Names(B, {ParentId})
         /\ raises \/ (Recorded => Whole(known \cup A \cup B, ParentCompleted))
  <2>1. CASE Recorded
    BY <1>2, <1>3, <2>1, ParentSound
  <2>2. CASE ~ Recorded
    <3>1. ParentPlan = Plan(<<>>, FALSE) /\ FALSE \in BOOLEAN
      BY <2>2 DEF ParentPlan
    <3>2. Names({}, {ParentId})
      BY DEF Names
    <3>3. QED
      BY <2>2, <3>1, <3>2, NoPlan DEF Sound
  <2>3. QED
    BY <2>1, <2>2
<1>5. PICK raises \in BOOLEAN :
         /\ ParentPlan = Plan(b, raises)
         /\ raises \/ (Recorded => Whole(known \cup A \cup B, ParentCompleted))
  BY <1>4
<1>6. CASE raises
  <2>1. raises = TRUE
    BY <1>5, <1>6
  <2>2. InTurn(<<Plan(result, FALSE), Plan(b, TRUE), Plan(RestOfComparison, FALSE)>>)
          = Plan(result \o b, TRUE)
    BY InTurnStops, Zenon
  <2>3. Comparison = Plan(result \o b, TRUE)
    BY <1>5, <2>1, <2>2, Zenon DEF Comparison, result
  <2>4. Sound(known, result \o b, A \cup B) /\ Names(A \cup B, {ParentId})
    BY <1>1, <1>4, SoundThen, NamesJoin
  <2>5. QED
    BY <2>3, <2>4 DEF PlanSound
<1>7. CASE ~ raises
  <2>1. raises = FALSE
    BY <1>5, <1>7
  <2>2. InTurn(<<Plan(result, FALSE), Plan(b, FALSE), Plan(RestOfComparison, FALSE)>>)
          = Plan(result \o b \o RestOfComparison, FALSE)
    BY InTurnGoesOn, Zenon
  <2>3. Comparison = Plan(result \o b \o RestOfComparison, FALSE)
    BY <1>5, <2>1, <2>2, Zenon DEF Comparison, result
  <2>4. PICK C : /\ Sound(known \cup A \cup B, RestOfComparison, C) /\ Names(C, {ParentId})
    BY <1>5, <1>7, RestOfComparisonSound
  <2>5. Sound(known, result \o b \o RestOfComparison, A \cup B \cup C)
    BY <1>1, <1>4, <2>4, SoundPlus
  <2>6. Names(A \cup B \cup C, {ParentId})
    BY <1>1, <1>4, <2>4, NamesJoin
  <2>7. QED
    BY <2>3, <2>5, <2>6 DEF PlanSound
<1>8. QED
  BY <1>6, <1>7

-----------------------------------------------------------------------------
(* What a write does to the files.                                         *)

LEMMA FactsInAre ==
    ASSUME NEW f
    PROVE  \A fact : fact \in FactsIn(f) <=>
             \E c \in Categories : \E x \in f[c] : Says(c, x, fact)
<1> SUFFICES ASSUME NEW fact
             PROVE  fact \in FactsIn(f) <=>
                      \E c \in Categories : \E x \in f[c] : Says(c, x, fact)
  OBVIOUS
<1>1. fact \in FactsIn(f) <=> \E c \in Categories : fact \in FactsOf(c, f[c])
  BY DEF FactsIn
<1>2. \A c \in Categories : fact \in FactsOf(c, f[c]) <=> \E x \in f[c] : Says(c, x, fact)
  BY FactsAre
<1>3. QED
  BY <1>1, <1>2

(* A fact leads back to a file.                                            *)
LEMMA FactsRead ==
    ASSUME NEW f
    PROVE  /\ \A c \in Categories : \A i : <<c, i>> \in FactsIn(f) => \E x \in f[c] : x.id = i
           /\ \A i : <<"completed", i>> \in FactsIn(f) =>
                \E x \in f.experiments : x.id = i /\ x.status = "completed"
           /\ \A i, name, value : <<"value", i, name, value>> \in FactsIn(f) =>
                \E x \in f.performance_summaries : x.id = i /\ x[name] = value
<1>1. "completed" \notin Categories /\ "value" \notin Categories
  BY DEF Categories
<1>2. ASSUME NEW c \in Categories, NEW i, <<c, i>> \in FactsIn(f)
      PROVE  \E x \in f[c] : x.id = i
  <2>1. PICK d \in Categories : \E x \in f[d] : Says(d, x, <<c, i>>)
    BY <1>2, FactsInAre
  <2>2. QED
    BY <1>1, <2>1 DEF Says
<1>3. ASSUME NEW i, <<"completed", i>> \in FactsIn(f)
      PROVE  \E x \in f.experiments : x.id = i /\ x.status = "completed"
  <2>1. PICK d \in Categories : \E x \in f[d] : Says(d, x, <<"completed", i>>)
    BY <1>3, FactsInAre
  <2>2. QED
    BY <1>1, <2>1 DEF Says
<1>4. ASSUME NEW i, NEW name, NEW value, <<"value", i, name, value>> \in FactsIn(f)
      PROVE  \E x \in f.performance_summaries : x.id = i /\ x[name] = value
  <2>1. PICK d \in Categories : \E x \in f[d] : Says(d, x, <<"value", i, name, value>>)
    BY <1>4, FactsInAre
  <2>2. QED
    BY <1>1, <2>1 DEF Says
<1>5. QED
  BY <1>2, <1>3, <1>4

PutIn(f, w) ==
    [f EXCEPT ![w.category] = {a \in @ : \A b \in w.items : a.id # b.id} \cup w.items]

(* A write that is due adds its facts and takes none away.                 *)
LEMMA FileAdded ==
    ASSUME NEW f, DOMAIN f = Categories, NEW w, WriteOK(FactsIn(f), w), NEW g, g = PutIn(f, w)
    PROVE  /\ DOMAIN g = Categories
           /\ FactsIn(g) = FactsIn(f) \cup WriteFacts(w)
           /\ FilesOK(f) => FilesOK(g)
           /\ Unique(f) => Unique(g)
<1> DEFINE known == FactsIn(f)
           k == w.category
<1>1. k \in Categories /\ DOMAIN g = Categories
  BY DEF WriteOK, PutIn
<1>2. /\ \A c \in Categories \ {k} : g[c] = f[c]
      /\ g[k] = {a \in f[k] : \A b \in w.items : a.id # b.id} \cup w.items
  BY <1>1 DEF PutIn
<1>3. /\ \A x \in w.items : /\ NeedsOf(k, x) \subseteq known /\ BarsOf(k, x) \cap known = {}
                            /\ Directed(k, x)
      /\ k \in Drawn => \A x, y \in w.items : x.id = y.id => x = y
  BY DEF WriteOK
<1> HIDE DEF known, k
<1>4. \A c \in Categories : \A x \in f[c] : <<c, x.id>> \in known
  BY FactsInAre DEF known, Says
<1>5. ASSUME NEW x \in f[k], NEW b \in w.items, x.id = b.id
      PROVE  k # "performance_summaries" /\ (k = "experiments" => b.status = "completed")
  <2>1. <<k, b.id>> \in known
    BY <1>1, <1>4, <1>5
  <2>2. <<k, b.id>> \notin BarsOf(k, b)
    BY <1>3, <2>1
  <2>3. QED
    BY <2>2 DEF BarsOf
<1>6. WriteFacts(w) = FactsOf(k, w.items)
  BY DEF WriteFacts, k
<1>7. ASSUME NEW fact, fact \in FactsIn(g) PROVE fact \in known \cup WriteFacts(w)
  <2>1. PICK c \in Categories : \E x \in g[c] : Says(c, x, fact)
    BY <1>7, FactsInAre
  <2>2. PICK x \in g[c] : Says(c, x, fact)
    BY <2>1
  <2>3. CASE x \in f[c]
    BY <2>2, <2>3, FactsInAre DEF known
  <2>4. CASE c = k /\ x \in w.items
    <3>1. fact \in FactsOf(k, w.items)
      BY <2>2, <2>4, FactsAre
    <3>2. QED
      BY <1>6, <3>1
  <2>5. QED
    BY <1>2, <2>3, <2>4
<1>8. ASSUME NEW fact, fact \in WriteFacts(w) PROVE fact \in FactsIn(g)
  <2>1. fact \in FactsOf(k, w.items)
    BY <1>6, <1>8
  <2>2. w.items \subseteq g[k]
    BY <1>2
  <2>3. PICK x \in w.items : Says(k, x, fact)
    BY <2>1, FactsAre
  <2>4. QED
    BY <1>1, <2>2, <2>3, FactsInAre
<1>9. ASSUME NEW fact, fact \in known PROVE fact \in FactsIn(g)
  <2>1. PICK c \in Categories : \E x \in f[c] : Says(c, x, fact)
    BY <1>9, FactsInAre DEF known
  <2>2. PICK x \in f[c] : Says(c, x, fact)
    BY <2>1
  <2>3. CASE x \in g[c]
    BY <2>2, <2>3, FactsInAre
  <2>4. CASE x \notin g[c]
    <3>1. c = k
      BY <1>2, <2>4
    <3>2. PICK b \in w.items : x.id = b.id
      BY <1>2, <2>4, <3>1
    <3>3. c # "performance_summaries" /\ (c = "experiments" => b.status = "completed")
      BY <1>5, <3>1, <3>2
    <3>4. b \in g[c]
      BY <1>2, <3>1
    <3>5. Says(c, b, fact)
      BY <2>2, <3>2, <3>3 DEF Says
    <3>6. QED
      BY <3>4, <3>5, FactsInAre
  <2>5. QED
    BY <2>3, <2>4
<1>10. FactsIn(g) = known \cup WriteFacts(w)
  BY <1>7, <1>8, <1>9
<1>11. ASSUME FilesOK(f) PROVE FilesOK(g)
  <2> SUFFICES ASSUME NEW c \in Categories, NEW x \in g[c]
               PROVE  NeedsOf(c, x) \subseteq known /\ Directed(c, x)
    BY <1>10 DEF FilesOK
  <2>1. CASE x \in f[c]
    BY <1>11, <2>1 DEF FilesOK, known
  <2>2. CASE c = k /\ x \in w.items
    BY <1>3, <2>2
  <2>3. QED
    BY <1>2, <2>1, <2>2
<1>12. ASSUME Unique(f) PROVE Unique(g)
  <2> SUFFICES ASSUME NEW c \in Drawn, NEW x \in g[c], NEW y \in g[c], x.id = y.id PROVE x = y
    BY DEF Unique
  <2>1. c \in Categories /\ \A u, v \in f[c] : u.id = v.id => u = v
    BY <1>12 DEF Unique, Drawn, Categories
  <2>2. CASE c # k
    BY <1>2, <2>1, <2>2
  <2>3. CASE c = k
    BY <1>2, <1>3, <2>1, <2>3
  <2>4. QED
    BY <2>2, <2>3
<1>13. QED
  BY <1>1, <1>10, <1>11, <1>12 DEF known

-----------------------------------------------------------------------------
(* The invariant is kept by every step.                                    *)

LEMMA PlanFields ==
    ASSUME NEW w, NEW raises
    PROVE  Plan(w, raises).writes = w /\ Plan(w, raises).raises = raises
BY DEF Plan

(* When all is written, what is expected is on file.                       *)
LEMMA QuietExpects == ASSUME work = Quiet PROVE Expected = Facts /\ ~ work.raises
<1>1. work.writes = <<>> /\ work.raises = FALSE
  BY DEF Quiet, Plan
<1>2. Provided(work.writes) = {}
  BY <1>1, NoPlan
<1>3. ~ work.raises
  BY <1>1, Zenon
<1>4. QED
  BY <1>2, <1>3 DEF Expected

(* A plan that is sound on the files, and nothing written yet.             *)
LEMMA Planned ==
    ASSUME RegistryInv, files' = files,
           NEW w, NEW raises \in BOOLEAN, NEW given, work' = Plan(w, raises), Sound(Facts, w, given)
    PROVE  /\ FilesInv' /\ UniqueInv' /\ WorkInv' /\ PlanInv'
           /\ Facts \subseteq Expected /\ Expected' = Facts \cup given /\ work'.raises = raises
<1>1. work'.writes = w /\ work'.raises = raises
  BY PlanFields
<1>2. Facts' = Facts
  BY DEF Facts, FactsIn
<1>3. FilesInv' /\ UniqueInv'
  <2>1. DOMAIN files = Categories /\ FilesOK(files) /\ Unique(files)
    BY DEF RegistryInv, FilesInv, UniqueInv
  <2>2. PICK f : f = files
    OBVIOUS
  <2>3. DOMAIN f = Categories /\ FilesOK(f) /\ Unique(f) /\ files' = f
    BY <2>1, <2>2
  <2>4. QED
    BY <2>3 DEF FilesInv, UniqueInv
<1>4. WorkInv'
  <2>1. w \in Seq(ToSet(w))
    BY DEF Sound, IsSeq
  <2>2. QED
    BY <1>1, <2>1 DEF WorkInv
<1>5. PlanInv'
  BY <1>1, <1>2 DEF PlanInv, Sound
<1>6. Expected' = Facts \cup given
  BY <1>1, <1>2 DEF Expected, Sound
<1>7. QED
  BY <1>1, <1>3, <1>4, <1>5, <1>6 DEF Expected

LEMMA RunFactsKept == ASSUME scenario' = scenario PROVE \A v : RunFacts(v)' = RunFacts(v)
BY DEF RunFacts, config

LEMMA DefinitionsKept == ASSUME scenario' = scenario PROVE Definitions' = Definitions
BY DEF Definitions, config

(* A step of a run, with nothing drawn, after all was written or on the    *)
(* way out.                                                                *)
LEMMA StepPlanned ==
    ASSUME RegistryInv, UNCHANGED <<files, scenario, n>>,
           NEW w, NEW given, work' = Plan(w, FALSE), Sound(Facts, w, given), Names(given, {}),
           runs' = <<>> \/ (runs' = runs /\ work = Quiet),
           pc' \in Guarded =>
             \/ pc \in Guarded /\ work = Quiet
             \/ /\ \A d \in Definitions : <<"definitions", d>> \in given
                /\ \A s \in {"research", "prices"} : <<"source_snapshots", s>> \in given,
           pc' \in Building \ {"idle"} => pc \in Building \ {"idle"} /\ runs' = runs
    PROVE  RegistryInv'
<1>1. FALSE \in BOOLEAN
  OBVIOUS
<1>2. /\ FilesInv' /\ UniqueInv' /\ WorkInv' /\ PlanInv'
      /\ Facts \subseteq Expected /\ Expected' = Facts \cup given
  BY <1>1, Planned
<1>3. RunsInv'
  <2>1. ASSUME NEW v \in ToSet(runs') PROVE RunFacts(v) \subseteq Expected'
    <3>1. runs' # <<>>
      BY <2>1 DEF ToSet
    <3>2. runs' = runs /\ work = Quiet
      BY <3>1
    <3>3. Expected = Facts /\ ~ work.raises
      BY <3>2, QuietExpects
    <3>4. RunFacts(v) \subseteq Expected
      BY <2>1, <3>2, <3>3 DEF RegistryInv, RunsInv
    <3>5. QED
      BY <1>2, <3>3, <3>4
  <2>2. \A v : RunFacts(v)' = RunFacts(v)
    BY RunFactsKept
  <2>3. QED
    BY <2>1, <2>2 DEF RunsInv
<1>4. DefinitionsInv'
  <2>1. Definitions' = Definitions
    BY DefinitionsKept
  <2>2. ASSUME pc' \in Guarded
        PROVE  /\ \A d \in Definitions : <<"definitions", d>> \in Expected'
               /\ \A s \in {"research", "prices"} : <<"source_snapshots", s>> \in Expected'
    <3>1. CASE pc \in Guarded /\ work = Quiet
      <4>1. Expected = Facts
        BY <3>1, QuietExpects
      <4>2. QED
        BY <1>2, <3>1, <4>1 DEF RegistryInv, DefinitionsInv
    <3>2. QED
      BY <1>2, <2>2, <3>1
  <2>3. QED
    BY <2>1, <2>2 DEF DefinitionsInv
<1>5. DrawnInv'
  <2> SUFFICES ASSUME NEW fact \in Expected', fact[1] \in Drawn
               PROVE  /\ fact[2][1] \in Nat /\ fact[2][1] <= n' /\ fact[2][2] \in Nat
                      /\ pc' \in Building \ {"idle"} /\ fact[2][1] = n'
                            => fact[2][2] \in 1..Len(runs')
    BY DEF DrawnInv
  <2>1. fact \in Expected
    BY <1>2 DEF Names
  <2>2. QED
    BY <2>1 DEF RegistryInv, DrawnInv
<1>6. QED
  BY <1>2, <1>3, <1>4, <1>5 DEF RegistryInv

(* Before the first run nothing is on file and nothing planned.            *)
LEMMA RegistryInit == ASSUME Init PROVE RegistryInv
<1>1. /\ files = [c \in Categories |-> {}] /\ work = Quiet /\ runs = <<>> /\ pc = "idle"
  BY DEF Init
<1>2. Facts = {}
  <2>1. \A fact : fact \notin FactsIn(files)
    BY <1>1, FactsInAre
  <2>2. QED
    BY <2>1 DEF Facts
<1>3. Expected = {} /\ work.writes = <<>> /\ work.raises = FALSE
  <2>1. Expected = {}
    BY <1>1, <1>2, QuietExpects
  <2>2. QED
    BY <1>1, <2>1 DEF Quiet, Plan
<1>4. Drawn \subseteq Categories
  BY DEF Drawn, Categories
<1>5. FilesInv /\ UniqueInv
  BY <1>1, <1>4 DEF FilesInv, FilesOK, UniqueInv, Unique
<1>6. WorkInv /\ PlanInv
  <2>1. IsSeq(<<>>) /\ PlanOK(Facts, <<>>)
    BY NoPlan
  <2>2. work.writes \in Seq(ToSet(work.writes)) /\ PlanInv
    BY <1>3, <2>1 DEF PlanInv, IsSeq
  <2>3. work = Plan(work.writes, work.raises) /\ work.raises \in BOOLEAN
    BY <1>1, <1>3 DEF Quiet
  <2>4. QED
    BY <2>2, <2>3 DEF WorkInv
<1>7. RunsInv
  BY <1>1 DEF RunsInv, ToSet
<1>8. DefinitionsInv /\ DrawnInv
  BY <1>1, <1>3 DEF DefinitionsInv, Guarded, DrawnInv
<1>9. QED
  BY <1>5, <1>6, <1>7, <1>8 DEF RegistryInv

(* What the files and the plans say does not depend on the simulation.     *)
LEMMA RegistryUnchanged ==
    ASSUME RegistryInv, UNCHANGED <<scenario, n, files, runs, pc, work>>
    PROVE  RegistryInv'
<1>1. Facts' = Facts /\ Expected' = Expected
  BY DEF Expected, Facts, FactsIn
<1>2. FilesInv' /\ UniqueInv' /\ WorkInv' /\ PlanInv'
  BY <1>1 DEF RegistryInv, FilesInv, FilesOK, FactsIn, UniqueInv, Unique, WorkInv, PlanInv
<1>3. RunsInv' /\ DefinitionsInv'
  BY <1>1, RunFactsKept, DefinitionsKept DEF RegistryInv, RunsInv, DefinitionsInv
<1>4. DrawnInv'
  BY <1>1 DEF RegistryInv, DrawnInv
<1>5. QED
  BY <1>2, <1>3, <1>4 DEF RegistryInv

(* A write turns an expected fact into one on file.                        *)
LEMMA WriteStep == ASSUME RegistryInv, WriteNext PROVE RegistryInv'
<1>1. /\ work.writes # <<>> /\ files' = Put(Head(work.writes))
      /\ work' = [work EXCEPT !.writes = Tail(@)]
      /\ UNCHANGED <<scenario, n, runs, pc>>
  BY DEF WriteNext
<1>2. /\ work = Plan(work.writes, work.raises) /\ work.raises \in BOOLEAN
      /\ IsSeq(work.writes) /\ PlanOK(Facts, work.writes)
  BY DEF RegistryInv, WorkInv, PlanInv, IsSeq
<1>3. PICK a : a = work.writes
  OBVIOUS
<1>4. /\ WriteOK(Facts, Head(a)) /\ IsSeq(Tail(a))
      /\ PlanOK(Facts \cup WriteFacts(Head(a)), Tail(a))
      /\ Provided(a) = WriteFacts(Head(a)) \cup Provided(Tail(a))
  BY <1>1, <1>2, <1>3, PlanContinues
<1>5. PICK f, g, w : f = files /\ g = files' /\ w = Head(a)
  OBVIOUS
<1>6. g = PutIn(f, w)
  BY <1>1, <1>3, <1>5 DEF Put, PutIn
<1>7. DOMAIN f = Categories /\ FilesOK(f) /\ Unique(f)
  BY <1>5 DEF RegistryInv, FilesInv, UniqueInv
<1>8. /\ DOMAIN g = Categories /\ FactsIn(g) = FactsIn(f) \cup WriteFacts(w)
      /\ FilesOK(g) /\ Unique(g)
  <2>1. WriteOK(FactsIn(f), w)
    BY <1>4, <1>5 DEF Facts
  <2>2. QED
    BY <1>6, <1>7, <2>1, FileAdded
<1>9. FilesInv' /\ UniqueInv'
  BY <1>5, <1>8 DEF FilesInv, UniqueInv
<1>10. Facts' = Facts \cup WriteFacts(w)
  <2>1. Facts' = FactsIn(g)
    BY <1>5 DEF Facts, FactsIn
  <2>2. QED
    BY <1>5, <1>8, <2>1 DEF Facts
<1>11. work'.writes = Tail(a) /\ work'.raises = work.raises /\ work' = Plan(Tail(a), work.raises)
  <2>1. PICK b, raises : b = work.writes /\ raises = work.raises
    OBVIOUS
  <2>2. work = Plan(b, raises)
    BY <1>2, <2>1
  <2>3. work' = [Plan(b, raises) EXCEPT !.writes = Tail(@)]
    BY <1>1, <2>2
  <2>4. work' = Plan(Tail(b), raises)
    BY <2>3 DEF Plan
  <2>5. QED
    BY <1>3, <2>1, <2>4, PlanFields
<1>12. WorkInv' /\ PlanInv'
  BY <1>2, <1>4, <1>5, <1>10, <1>11 DEF WorkInv, PlanInv, IsSeq
<1>13. Expected' = Expected
  BY <1>3, <1>4, <1>5, <1>10, <1>11 DEF Expected
<1>14. RunsInv' /\ DefinitionsInv'
  BY <1>1, <1>11, <1>13, RunFactsKept, DefinitionsKept DEF RegistryInv, RunsInv, DefinitionsInv
<1>15. DrawnInv'
  BY <1>1, <1>13 DEF RegistryInv, DrawnInv
<1>16. QED
  BY <1>9, <1>12, <1>14, <1>15 DEF RegistryInv

(* A new run has not drawn an identifier.                                  *)
LEMMA StartStep == ASSUME IInv, RegistryInv, Start PROVE RegistryInv'
<1>1. /\ pc = "idle" /\ n' = n + 1 /\ pc' = "starting"
      /\ work' = Plan(<<Write("events", {[id |-> <<n + 1, "run_started">>]})>>, FALSE)
      /\ UNCHANGED <<scenario, files, runs>>
  BY DEF Start
<1>2. work = Quiet /\ n \in Nat
  <2>1. Len(scenario.researches) \in Nat
    BY AblationAssumption DEF IInv, RunInv
  <2>2. QED
    BY <1>1, <2>1 DEF IInv, RunInv
<1>3. Expected = Facts /\ ~ work.raises
  BY <1>2, QuietExpects
<1>4. PICK w, given : /\ work' = Plan(w, FALSE) /\ Sound(Facts, w, given) /\ Names(given, {})
  <2>1. "events" \in Plain
    BY DEF Plain, Categories
  <2>2. PICK items : work' = Plan(<<Write("events", items)>>, FALSE)
    BY <1>1
  <2>3. QED
    BY <2>1, <2>2, PlainOne
<1>5. /\ FilesInv' /\ UniqueInv' /\ WorkInv' /\ PlanInv' /\ Expected' = Facts \cup given
  <2>1. FALSE \in BOOLEAN
    OBVIOUS
  <2>2. QED
    BY <1>1, <1>4, <2>1, Planned
<1>6. RunsInv'
  BY <1>1, <1>3, <1>5, RunFactsKept DEF RegistryInv, RunsInv
<1>7. DefinitionsInv'
  BY <1>1 DEF DefinitionsInv, Guarded
<1>8. DrawnInv'
  <2> SUFFICES ASSUME NEW fact \in Expected', fact[1] \in Drawn
               PROVE  /\ fact[2][1] \in Nat /\ fact[2][1] <= n' /\ fact[2][2] \in Nat
                      /\ fact[2][1] # n'
    BY DEF DrawnInv
  <2>1. fact \in Expected
    BY <1>3, <1>4, <1>5 DEF Names
  <2>2. fact[2][1] \in Nat /\ fact[2][1] <= n /\ fact[2][2] \in Nat
    BY <2>1 DEF RegistryInv, DrawnInv
  <2>3. QED
    BY <1>1, <1>2, <2>2
<1>9. QED
  BY <1>5, <1>6, <1>7, <1>8 DEF RegistryInv

(* The steps that draw no identifier.                                      *)
LEMMA PlainStep ==
    ASSUME RegistryInv,
           LoadInputs \/ MaterializeSignals \/ Conclude \/ Return
             \/ WorkflowRaises \/ WriteRaises \/ Die
    PROVE  RegistryInv'
<1>1. UNCHANGED <<files, scenario, n>>
  BY DEF LoadInputs, MaterializeSignals, Conclude, Return, WorkflowRaises, WriteRaises, Die, Proceed
<1>2. {"definitions", "source_snapshots", "variant_signals", "events", "run_summaries"} \subseteq Plain
  BY DEF Plain, Categories
<1>3. CASE LoadInputs
  <2> DEFINE items == {[id |-> d] : d \in Definitions}
             others == {ResearchSnapshot(research), PriceSnapshot}
             given == Filed("definitions", items) \cup Filed("source_snapshots", others)
  <2>1. /\ pc = "starting" /\ work = Quiet /\ pc' = "comparing" /\ runs' = runs
        /\ work' = Plan(<<Write("definitions", items), Write("source_snapshots", others)>>, FALSE)
    BY <1>3 DEF LoadInputs, At, Proceed
  <2>2. \A d \in Definitions : <<"definitions", d>> \in given
    <3> SUFFICES ASSUME NEW d \in Definitions PROVE <<"definitions", d>> \in given
      OBVIOUS
    <3>1. PICK x : x = [id |-> d]
      OBVIOUS
    <3>2. x \in items /\ x.id = d
      BY <3>1
    <3> HIDE DEF items
    <3>3. QED
      BY <3>2 DEF Filed
  <2>3. \A s \in {"research", "prices"} : <<"source_snapshots", s>> \in given
    <3>1. ResearchSnapshot(research).id = "research" /\ PriceSnapshot.id = "prices"
      BY DEF ResearchSnapshot, PriceSnapshot, Snapshot
    <3>2. QED
      BY <3>1 DEF Filed
  <2> HIDE DEF items, others
  <2>4. Sound(Facts, <<Write("definitions", items), Write("source_snapshots", others)>>, given)
        /\ Names(given, {})
    BY <1>2, PlainTwo
  <2> HIDE DEF given
  <2>5. QED
    BY <1>1, <2>1, <2>2, <2>3, <2>4, StepPlanned DEF Building
<1>4. CASE MaterializeSignals
  <2>1. PICK items : /\ pc = "comparing" /\ work = Quiet /\ pc' = "simulating" /\ runs' = runs
                     /\ work' = Plan(<<Write("variant_signals", items)>>, FALSE)
    BY <1>4 DEF MaterializeSignals, At, Proceed
  <2>2. Sound(Facts, <<Write("variant_signals", items)>>, Filed("variant_signals", items))
        /\ Names(Filed("variant_signals", items), {})
    BY <1>2, PlainOne
  <2>3. QED
    BY <1>1, <2>1, <2>2, StepPlanned DEF Building, Guarded
<1>5. CASE Conclude
  <2>1. PICK i, j, k, b :
          /\ pc' = "reporting" /\ runs' = <<>>
          /\ work' = Plan(<<Write("events", i)>> \o Only(b, Write("events", j))
                            \o <<Write("run_summaries", k)>>, FALSE)
    BY <1>5 DEF Conclude, Proceed, Event, RunSummary
  <2>2. PICK middle : middle = Only(b, Write("events", j))
    OBVIOUS
  <2>3. PICK A : Sound(Facts, <<Write("events", i)>>, A) /\ Names(A, {})
    BY <1>2, PlainOne
  <2>4. PICK B : Sound(Facts \cup A, middle, B) /\ Names(B, {})
    <3>1. CASE b
      BY <1>2, <2>2, <3>1, PlainOne DEF Only
    <3>2. CASE ~ b
      <4>1. Names({}, {})
        BY DEF Names
      <4>2. middle = <<>>
        BY <2>2, <3>2 DEF Only
      <4>3. QED
        BY <4>1, <4>2, NoPlan DEF Sound
    <3>3. QED
      BY <3>1, <3>2
  <2>5. PICK C : Sound(Facts \cup A \cup B, <<Write("run_summaries", k)>>, C) /\ Names(C, {})
    BY <1>2, PlainOne
  <2>6. PICK w : w = <<Write("events", i)>> \o middle \o <<Write("run_summaries", k)>>
    OBVIOUS
  <2>7. Sound(Facts, w, A \cup B \cup C) /\ Names(A \cup B \cup C, {})
    BY <2>3, <2>4, <2>5, <2>6, SoundPlus, NamesJoin
  <2>8. work' = Plan(w, FALSE)
    BY <2>1, <2>2, <2>6
  <2>9. QED
    BY <1>1, <2>1, <2>7, <2>8, StepPlanned DEF Building, Guarded
<1>6. ASSUME work' = Quiet, pc' = "idle", runs' = <<>> \/ (runs' = runs /\ work = Quiet)
      PROVE  RegistryInv'
  <2>1. work' = Plan(<<>>, FALSE)
    BY <1>6 DEF Quiet
  <2>2. Sound(Facts, <<>>, {}) /\ Names({}, {})
    BY NoPlan DEF Sound, Names
  <2>3. QED
    BY <1>1, <1>6, <2>1, <2>2, StepPlanned DEF Building, Guarded
<1>7. ASSUME Handle, runs' = <<>> PROVE RegistryInv'
  <2>1. PICK i, j : /\ pc' = "failing"
                    /\ work' = Plan(<<Write("events", i), Write("run_summaries", j)>>, FALSE)
    BY <1>7 DEF Handle, HandlerWrites, Event, RunSummary
  <2>2. PICK given : given = Filed("events", i) \cup Filed("run_summaries", j)
    OBVIOUS
  <2>3. /\ Sound(Facts, <<Write("events", i), Write("run_summaries", j)>>, given)
        /\ Names(given, {})
    BY <1>2, <2>2, PlainTwo
  <2>4. QED
    BY <1>1, <1>7, <2>1, <2>3, StepPlanned DEF Building, Guarded
<1>8. CASE Return
  BY <1>6, <1>8 DEF Return, At, Proceed
<1>9. CASE WorkflowRaises
  BY <1>7, <1>9 DEF WorkflowRaises
<1>10. CASE WriteRaises
  BY <1>6, <1>7, <1>10 DEF WriteRaises
<1>11. CASE Die
  BY <1>6, <1>11 DEF Die
<1>12. QED
  BY <1>3, <1>4, <1>5, <1>8, <1>9, <1>10, <1>11

(* A child refers to what it has written before, under an identifier that  *)
(* nothing on file has.                                                    *)
LEMMA ChildStep == ASSUME IInv, RegistryInv, RecordChild PROVE RegistryInv'
<1> DEFINE family == FamilyOfChild
<1>1. /\ pc = "simulating" /\ work = Quiet /\ pc' = "comparing"
      /\ work' = run_backtest_workflow(family) /\ runs' = Append(runs, VariantRun(family))
      /\ UNCHANGED <<scenario, n, files>>
  BY DEF RecordChild, At, Proceed
<1>2. Expected = Facts /\ ~ work.raises
  BY <1>1, QuietExpects
<1>3. /\ runs \in Seq(ToSet(runs)) /\ Len(runs) \in Nat /\ n \in Nat
  <2>1. Len(scenario.researches) \in Nat
    BY AblationAssumption DEF IInv, RunInv
  <2>2. QED
    BY <2>1 DEF IInv, RunInv
<1>4. RunId(family)[1] = n /\ RunId(family)[2] = Len(runs) + 1
  BY DEF RunId
<1>5. Fresh(Facts, RunId(family))
  <2> SUFFICES ASSUME NEW c \in Drawn, <<c, RunId(family)>> \in Facts PROVE FALSE
    BY DEF Fresh
  <2>1. RunId(family)[2] \in 1..Len(runs)
    <3>1. PICK fact : fact = <<c, RunId(family)>>
      OBVIOUS
    <3>2. fact \in Expected /\ fact[1] \in Drawn /\ fact[2] = RunId(family)
      BY <1>2, <3>1
    <3>3. fact[2][1] = n
      BY <1>4, <3>2
    <3>4. QED
      BY <1>1, <3>2, <3>3 DEF RegistryInv, DrawnInv, Building
  <2>2. QED
    BY <1>3, <1>4, <2>1
<1> HIDE DEF family
<1>6. ChildSound(Facts, family, run_backtest_workflow(family))
  BY <1>5, RecordedSound, UnrecordedSound
<1>7. PICK w, given : \E raises \in BOOLEAN :
         /\ work' = Plan(w, raises) /\ Sound(Facts, w, given) /\ Names(given, {RunId(family)})
         /\ raises \/ RunFacts(VariantRun(family)) \subseteq given
  BY <1>1, <1>6 DEF ChildSound
<1>8. PICK raises \in BOOLEAN :
         /\ work' = Plan(w, raises)
         /\ raises \/ RunFacts(VariantRun(family)) \subseteq given
  BY <1>7
<1>9. /\ FilesInv' /\ UniqueInv' /\ WorkInv' /\ PlanInv'
      /\ Expected' = Facts \cup given /\ work'.raises = raises
  BY <1>1, <1>7, <1>8, Planned
<1>10. PICK run : run = VariantRun(family)
  OBVIOUS
<1>11. /\ Len(runs') = Len(runs) + 1
       /\ \A v \in ToSet(runs') : v \in ToSet(runs) \/ v = run
  <2>1. PICK s, S : s = runs /\ S = ToSet(runs)
    OBVIOUS
  <2>2. s \in Seq(S) /\ runs' = Append(s, run)
    BY <1>1, <1>3, <1>10, <2>1
  <2>3. /\ Len(Append(s, run)) = Len(s) + 1
        /\ \A i \in DOMAIN Append(s, run) : Append(s, run)[i] = IF i = Len(s) + 1 THEN run ELSE s[i]
        /\ DOMAIN Append(s, run) = 1..(Len(s) + 1)
    BY <2>2
  <2>4. \A v \in ToSet(runs') : v \in ToSet(runs) \/ v = run
    <3> SUFFICES ASSUME NEW v \in ToSet(runs') PROVE v \in ToSet(runs) \/ v = run
      OBVIOUS
    <3>1. PICK i \in DOMAIN runs' : v = runs'[i]
      BY DEF ToSet
    <3>2. CASE i = Len(s) + 1
      BY <2>2, <2>3, <3>1, <3>2
    <3>3. CASE i # Len(s) + 1
      <4>1. i \in DOMAIN s /\ v = s[i]
        BY <1>3, <2>1, <2>2, <2>3, <3>1, <3>3
      <4>2. QED
        BY <2>1, <4>1 DEF ToSet
    <3>4. QED
      BY <3>2, <3>3
  <2>5. QED
    BY <2>1, <2>2, <2>3, <2>4
<1>12. RunsInv'
  <2>1. ASSUME NEW v \in ToSet(runs'), ~ raises PROVE RunFacts(v) \subseteq Expected'
    <3>1. CASE v \in ToSet(runs)
      BY <1>2, <1>9, <3>1 DEF RegistryInv, RunsInv
    <3>2. CASE v = run
      BY <1>8, <1>9, <1>10, <2>1, <3>2
    <3>3. QED
      BY <1>11, <2>1, <3>1, <3>2
  <2>2. QED
    BY <1>1, <1>9, <2>1, RunFactsKept DEF RunsInv
<1>13. DefinitionsInv'
  BY <1>1, <1>2, <1>9, DefinitionsKept DEF RegistryInv, DefinitionsInv, Guarded
<1>14. DrawnInv'
  <2> SUFFICES ASSUME NEW fact \in Expected', fact[1] \in Drawn
               PROVE  /\ fact[2][1] \in Nat /\ fact[2][1] <= n' /\ fact[2][2] \in Nat
                      /\ fact[2][1] = n' => fact[2][2] \in 1..Len(runs')
    BY DEF DrawnInv
  <2>1. CASE fact \in Expected
    <3>1. /\ fact[2][1] \in Nat /\ fact[2][1] <= n /\ fact[2][2] \in Nat
          /\ fact[2][1] = n => fact[2][2] \in 1..Len(runs)
      BY <1>1, <2>1 DEF RegistryInv, DrawnInv, Building
    <3>2. QED
      BY <1>1, <1>3, <1>11, <3>1
  <2>2. CASE fact \in given
    <3>1. fact[2] = RunId(family)
      BY <1>7, <2>2 DEF Names
    <3>2. fact[2][1] = n /\ fact[2][2] = Len(runs) + 1
      BY <1>4, <3>1 DEF family
    <3>3. QED
      BY <1>1, <1>3, <1>11, <3>2
  <2>3. QED
    BY <1>2, <1>9, <2>1, <2>2
<1>15. QED
  BY <1>9, <1>12, <1>13, <1>14 DEF RegistryInv

(* The comparison refers to what its children have left.                   *)
LEMMA CompareStep == ASSUME IInv, RegistryInv, Compare PROVE RegistryInv'
<1>1. /\ pc = "comparing" /\ work = Quiet /\ pc' = "concluding" /\ work' = Comparison
      /\ UNCHANGED <<scenario, n, files, runs>>
  BY DEF Compare, At, Proceed, Comparison, RestOfComparison
<1>2. Expected = Facts /\ ~ work.raises
  BY <1>1, QuietExpects
<1>3. n \in Nat
  <2>1. Len(scenario.researches) \in Nat
    BY AblationAssumption DEF IInv, RunInv
  <2>2. QED
    BY <2>1 DEF IInv, RunInv
<1>4. ParentId[1] = n /\ ParentId[2] = 0
  BY DEF ParentId
<1>5. <<"experiments", ParentId>> \notin Facts
  <2> SUFFICES ASSUME <<"experiments", ParentId>> \in Facts PROVE FALSE
    OBVIOUS
  <2>1. PICK fact : fact = <<"experiments", ParentId>>
    OBVIOUS
  <2>2. fact \in Expected /\ fact[1] \in Drawn /\ fact[2][1] = n /\ fact[2][2] = 0
    BY <1>2, <1>4, <2>1 DEF Drawn
  <2>3. 0 \in 1..Len(runs)
    BY <1>1, <2>2 DEF RegistryInv, DrawnInv, Building
  <2>4. QED
    BY <2>3
<1>6. PlanSound(Facts, Comparison, {ParentId})
  <2>1. \A v \in ToSet(runs) : RunFacts(v) \subseteq Facts
    BY <1>2 DEF RegistryInv, RunsInv
  <2>2. /\ \A d \in Definitions : <<"definitions", d>> \in Facts
        /\ \A s \in {"research", "prices"} : <<"source_snapshots", s>> \in Facts
    BY <1>1, <1>2 DEF RegistryInv, DefinitionsInv, Guarded
  <2>3. QED
    BY <1>5, <2>1, <2>2, ComparisonSound
<1>7. PICK w, given : \E raises \in BOOLEAN :
         /\ work' = Plan(w, raises) /\ Sound(Facts, w, given) /\ Names(given, {ParentId})
  BY <1>1, <1>6 DEF PlanSound
<1>8. PICK raises \in BOOLEAN : work' = Plan(w, raises)
  BY <1>7
<1>9. /\ FilesInv' /\ UniqueInv' /\ WorkInv' /\ PlanInv' /\ Expected' = Facts \cup given
  BY <1>1, <1>7, <1>8, Planned
<1>10. RunsInv'
  BY <1>1, <1>2, <1>9, RunFactsKept DEF RegistryInv, RunsInv
<1>11. DefinitionsInv'
  BY <1>1, <1>2, <1>9, DefinitionsKept DEF RegistryInv, DefinitionsInv, Guarded
<1>12. DrawnInv'
  <2> SUFFICES ASSUME NEW fact \in Expected', fact[1] \in Drawn
               PROVE  fact[2][1] \in Nat /\ fact[2][1] <= n /\ fact[2][2] \in Nat
    BY <1>1 DEF DrawnInv, Building
  <2>1. CASE fact \in Expected
    BY <2>1 DEF RegistryInv, DrawnInv
  <2>2. CASE fact \in given
    <3>1. fact[2] = ParentId
      BY <1>7, <2>2 DEF Names
    <3>2. QED
      BY <1>3, <1>4, <3>1
  <2>3. QED
    BY <1>2, <1>9, <2>1, <2>2
<1>13. QED
  BY <1>9, <1>10, <1>11, <1>12 DEF RegistryInv

(* Each action keeps the registry as it should be.                         *)
LEMMA RegistryKept == ASSUME IInv, RegistryInv, [Next]_vars PROVE RegistryInv'
<1>1. CASE Start
  BY <1>1, StartStep
<1>2. CASE WriteNext
  BY <1>2, WriteStep
<1>3. CASE RecordChild
  BY <1>3, ChildStep
<1>4. CASE Compare
  BY <1>4, CompareStep
<1>5. CASE LoadInputs \/ MaterializeSignals \/ Conclude \/ Return
             \/ WorkflowRaises \/ WriteRaises \/ Die
  BY <1>5, PlainStep
<1>6. CASE Simulate \/ UNCHANGED vars
  <2>1. UNCHANGED <<scenario, n, files, runs, pc, work>>
    BY <1>6 DEF Simulate, vars
  <2>2. QED
    BY <2>1, RegistryUnchanged
<1>7. QED
  BY <1>1, <1>2, <1>3, <1>4, <1>5, <1>6 DEF Next

(* All a completed experiment needs is on file.                            *)
LEMMA WholeOnFile == ASSUME RegistryInv PROVE CompletedExperimentsAreWhole
<1>1. /\ "experiments" \in Categories /\ "experiment_artifacts" \in Categories
      /\ "experiment_metrics" \in Categories /\ "dataset_references" \in Categories
      /\ "runs" \in Categories /\ "snapshots" \in Categories /\ "dataset_manifests" \in Categories
  BY DEF Categories
<1>2. \A c \in Categories : \A i : <<c, i>> \in Facts => i \in Ids(c)
  BY FactsRead DEF Facts, Ids
<1>3. \A c \in Categories : \A x \in files[c] : NeedsOf(c, x) \subseteq Facts /\ Directed(c, x)
  BY DEF RegistryInv, FilesInv, FilesOK, Facts
<1>4. ASSUME NEW e \in files.experiments, e.status = "completed"
      PROVE  /\ e.artifacts \subseteq Ids("experiment_artifacts")
             /\ e.metrics \subseteq Ids("experiment_metrics")
             /\ e.datasets \subseteq Ids("dataset_references") /\ e.runs \subseteq Ids("runs")
  <2>1. NeedsOf("experiments", e) \subseteq Facts
    BY <1>1, <1>3
  <2>2. /\ \A i \in e.artifacts : <<"experiment_artifacts", i>> \in Facts
        /\ \A i \in e.metrics : <<"experiment_metrics", i>> \in Facts
        /\ \A i \in e.datasets : <<"dataset_references", i>> \in Facts
        /\ \A i \in e.runs : <<"runs", i>> \in Facts
    BY <1>4, <2>1 DEF NeedsOf
  <2>3. QED
    BY <1>1, <1>2, <2>2
<1>5. ASSUME NEW a \in files.experiment_artifacts PROVE a.of \in Ids(a.category)
  <2>1. NeedsOf("experiment_artifacts", a) \subseteq Facts /\ Directed("experiment_artifacts", a)
    BY <1>1, <1>3
  <2>2. <<a.category, a.of>> \in Facts /\ a.category \in Categories
    BY <2>1 DEF NeedsOf, Directed
  <2>3. QED
    BY <1>2, <2>2
<1>6. ASSUME NEW d \in files.dataset_references
      PROVE  d.snapshot \in Ids("snapshots") /\ d.manifest \in Ids("dataset_manifests")
  <2>1. NeedsOf("dataset_references", d) \subseteq Facts
    BY <1>1, <1>3
  <2>2. <<"snapshots", d.snapshot>> \in Facts /\ <<"dataset_manifests", d.manifest>> \in Facts
    BY <2>1 DEF NeedsOf
  <2>3. QED
    BY <1>1, <1>2, <2>2
<1>7. ASSUME NEW m \in files.experiment_metrics
      PROVE  \E s \in ById("performance_summaries", m.of) : s[m.name] = m.value
  <2>1. NeedsOf("experiment_metrics", m) \subseteq Facts
    BY <1>1, <1>3
  <2>2. <<"value", m.of, m.name, m.value>> \in FactsIn(files)
    BY <2>1 DEF NeedsOf, Facts
  <2>3. \E s \in files.performance_summaries : s.id = m.of /\ s[m.name] = m.value
    BY <2>2, FactsRead
  <2>4. QED
    BY <2>3 DEF ById
<1>8. ASSUME NEW e \in files.experiments, e.status = "completed", NEW a \in ArtifactsOf(e),
             a.category = "experiments"
      PROVE  ById("experiments", a.of) \subseteq {c \in files.experiments : c.status = "completed"}
  <2>1. a \in files.experiment_artifacts
    BY DEF ArtifactsOf
  <2>2. NeedsOf("experiment_artifacts", a) \subseteq Facts
    BY <1>1, <1>3, <2>1
  <2>3. <<"completed", a.of>> \in FactsIn(files)
    BY <1>8, <2>2 DEF NeedsOf, Facts
  <2>4. PICK x \in files.experiments : x.id = a.of /\ x.status = "completed"
    BY <2>3, FactsRead
  <2>5. \A y \in files.experiments : y.id = a.of => y = x
    BY <2>4 DEF RegistryInv, UniqueInv, Unique, Drawn
  <2>6. QED
    BY <2>4, <2>5 DEF ById
<1>9. QED
  BY <1>4, <1>5, <1>6, <1>7, <1>8 DEF CompletedExperimentsAreWhole, ArtifactsOf, MetricsOf

(* Whatever is compared, and whichever write fails or whenever the process *)
(* dies: an experiment that says it is completed has on file all that it   *)
(* lists, its artifacts lead to files, its metrics say what the summaries  *)
(* say, and an experiment over experiments lists completed ones.           *)
THEOREM ExperimentsAreWhole == Spec => []CompletedExperimentsAreWhole
<1>1. Init => IInv /\ RegistryInv
  BY InitHolds, RegistryInit
<1>2. (IInv /\ RegistryInv) /\ [Next]_vars => (IInv /\ RegistryInv)'
  BY NextHolds, RegistryKept
<1>3. IInv /\ RegistryInv => CompletedExperimentsAreWhole
  BY WholeOnFile
<1>4. QED
  BY <1>1, <1>2, <1>3, PTL DEF Spec

-----------------------------------------------------------------------------
(* Rows in the order of their ranks.                                       *)

(* In a strict total order over places, the number of places before one is *)
(* its rank: every rank is taken, and once.                                *)
Ranking(N, R, f) ==
    /\ \A k \in 1..N : \E j \in 1..N : f[j] = k - 1
    /\ \A i, j \in 1..N : f[i] = f[j] => i = j
    /\ \A i, j \in 1..N : f[i] < f[j] => <<i, j>> \in R
    /\ \A j \in 1..N : f[j] \in 0..(N - 1)

LEMMA RanksAreTaken ==
    ASSUME NEW N \in Nat, NEW R,
           \A a, b, c \in 1..N : <<a, b>> \in R /\ <<b, c>> \in R => <<a, c>> \in R,
           \A a \in 1..N : <<a, a>> \notin R,
           \A a, b \in 1..N : a # b => <<a, b>> \in R \/ <<b, a>> \in R,
           NEW f, f = [j \in 1..N |-> Cardinality({i \in 1..N : <<i, j>> \in R})]
    PROVE  Ranking(N, R, f)
<1> DEFINE D == 1..N
           Pre(j) == {i \in D : <<i, j>> \in R}
<1>1. IsFiniteSet(D) /\ Cardinality(D) = N
  BY FS_Interval
<1>2. ASSUME NEW j \in D
      PROVE  Pre(j) \in SUBSET D /\ IsFiniteSet(Pre(j)) /\ Cardinality(Pre(j)) \in Nat
  <2>1. Pre(j) \in SUBSET D
    OBVIOUS
  <2> HIDE DEF Pre, D
  <2>2. IsFiniteSet(Pre(j))
    BY <1>1, <2>1, FS_Subset
  <2>3. QED
    BY <2>1, <2>2, FS_CardinalityType
<1>3. ASSUME NEW i \in D, NEW j \in D, <<i, j>> \in R
      PROVE  Cardinality(Pre(i)) < Cardinality(Pre(j))
  <2>1. Pre(i) \in SUBSET Pre(j) /\ Pre(i) # Pre(j)
    BY <1>3
  <2> HIDE DEF Pre
  <2>2. Cardinality(Pre(i)) <= Cardinality(Pre(j)) /\ Cardinality(Pre(i)) # Cardinality(Pre(j))
    BY <1>2, <2>1, FS_Subset
  <2>3. QED
    BY <1>2, <2>2
<1>4. \A j \in D : f[j] = Cardinality(Pre(j)) /\ f[j] \in Nat
  BY <1>2
<1>5. ASSUME NEW i \in D, NEW j \in D, f[i] = f[j] PROVE i = j
  <2> HIDE DEF Pre
  <2>1. CASE i # j
    <3>1. <<i, j>> \in R \/ <<j, i>> \in R
      BY <2>1
    <3>2. QED
      BY SMTT(40), <1>3, <1>4, <1>5, <3>1
  <2>2. QED
    BY <2>1
<1>6. ASSUME NEW i \in D, NEW j \in D, f[i] < f[j] PROVE <<i, j>> \in R
  <2> HIDE DEF Pre
  <2>1. i # j
    <3>1. \A x \in Nat : ~ (x < x)
      OBVIOUS
    <3>2. f[i] \in Nat
      BY <1>4
    <3>3. QED
      BY <1>6, <3>1, <3>2, Zenon
  <2>2. <<j, i>> \notin R
    BY SMTT(40), <1>3, <1>4, <1>6
  <2>3. QED
    BY <2>1, <2>2
<1>7. ASSUME NEW j \in D PROVE f[j] \in 0..(N - 1)
  <2>1. Pre(j) # D
    OBVIOUS
  <2> HIDE DEF Pre
  <2>2. Cardinality(Pre(j)) <= N /\ Cardinality(Pre(j)) # N
    BY <1>1, <1>2, <2>1, FS_Subset
  <2>3. QED
    BY <1>4, <2>2
<1>8. IsFiniteSet(0..(N - 1)) /\ Cardinality(0..(N - 1)) = N
  <2>1. PICK m \in Int : m = N - 1
    OBVIOUS
  <2>2. IsFiniteSet(0..m) /\ Cardinality(0..m) = IF 0 > m THEN 0 ELSE m - 0 + 1
    <3>1. 0 \in Int
      OBVIOUS
    <3>2. QED
      BY <3>1, FS_Interval
  <2>3. (IF 0 > m THEN 0 ELSE m - 0 + 1) = N
    BY <2>1
  <2>4. QED
    BY <2>1, <2>2, <2>3
<1>9. f \in Injection(D, 0..(N - 1))
  <2>1. f \in [D -> 0..(N - 1)]
    BY <1>7
  <2>2. IsInjective(f)
    BY <1>5 DEF IsInjective
  <2>3. QED
    BY <2>1, <2>2 DEF Injection
<1>10. f \in Surjection(D, 0..(N - 1))
  <2> HIDE DEF D
  <2>1. QED
    BY <1>1, <1>8, <1>9, FS_Injection
<1>11. \A k \in 1..N : \E j \in D : f[j] = k - 1
  <2>1. \A y \in 0..(N - 1) : \E j \in D : f[j] = y
    BY <1>10 DEF Surjection
  <2>2. \A k \in 1..N : k - 1 \in 0..(N - 1)
    OBVIOUS
  <2>3. QED
    BY <2>1, <2>2, Zenon
<1>12. QED
  BY <1>5, <1>6, <1>7, <1>11 DEF Ranking

(* What the rows are ranked by.                                            *)
Rankable(rows) ==
    \A i \in DOMAIN rows : _comparison_metric_value(rows[i]) \in Int /\ Position(rows[i].family) \in Int

(* Which row is ahead of which is a strict total order of their places.    *)
LEMMA AheadIsAnOrder ==
    ASSUME NEW N \in Nat, NEW rows, DOMAIN rows = 1..N, Rankable(rows)
    PROVE  /\ \A a, b, c \in 1..N : Ahead(rows, a, b) /\ Ahead(rows, b, c) => Ahead(rows, a, c)
           /\ \A a \in 1..N : ~ Ahead(rows, a, a)
           /\ \A a, b \in 1..N : a # b => Ahead(rows, a, b) \/ Ahead(rows, b, a)
           /\ \A a, b \in 1..N : Ahead(rows, a, b) =>
                _comparison_metric_value(rows[a]) >= _comparison_metric_value(rows[b])
<1> DEFINE Value(i) == _comparison_metric_value(rows[i])
           Place(i) == Position(rows[i].family)
<1>1. \A i \in 1..N : Value(i) \in Int /\ Place(i) \in Int /\ i \in Int
  BY DEF Rankable
<1>2. \A i, j : RankedBefore(rows[i], rows[j]) <=>
                   Value(i) > Value(j) \/ (Value(i) = Value(j) /\ Place(i) < Place(j))
  BY DEF RankedBefore
<1>3. \A i, j : Ahead(rows, i, j) <=>
                   RankedBefore(rows[i], rows[j]) \/ (~ RankedBefore(rows[j], rows[i]) /\ i < j)
  BY DEF Ahead
<1> HIDE DEF Value, Place
<1>4. \A a, b \in 1..N : Ahead(rows, a, b) <=>
         \/ Value(a) > Value(b)
         \/ Value(a) = Value(b) /\ Place(a) < Place(b)
         \/ Value(a) = Value(b) /\ Place(a) = Place(b) /\ a < b
  BY <1>1, <1>2, <1>3
<1>5. \A a, b, c \in 1..N : Ahead(rows, a, b) /\ Ahead(rows, b, c) => Ahead(rows, a, c)
  BY <1>1, <1>4
<1>6. \A a \in 1..N : ~ Ahead(rows, a, a)
  BY <1>1, <1>4
<1>7. \A a, b \in 1..N : a # b => Ahead(rows, a, b) \/ Ahead(rows, b, a)
  BY <1>1, <1>4
<1>8. \A a, b \in 1..N : Ahead(rows, a, b) => Value(a) >= Value(b)
  BY SMTT(40), <1>1, <1>4
<1>9. QED
  BY <1>5, <1>6, <1>7, <1>8 DEF Value

(* The result has every row in one place, the larger values first.         *)
Arranged(N, rows, sorted, from) ==
    /\ \A k \in 1..N : from[k] \in 1..N /\ sorted[k] = rows[from[k]]
    /\ \A k, m \in 1..N : from[k] = from[m] => k = m
    /\ \A j \in 1..N : \E k \in 1..N : from[k] = j

LEMMA RowsAreSorted ==
    ASSUME NEW N \in Nat, NEW rows, DOMAIN rows = 1..N, Rankable(rows),
           NEW sorted, sorted = sort_variant_results(rows)
    PROVE  /\ DOMAIN sorted = 1..N
           /\ \E from : Arranged(N, rows, sorted, from)
           /\ \A k, m \in 1..N : k < m =>
                _comparison_metric_value(sorted[k]) >= _comparison_metric_value(sorted[m])
<1> DEFINE R == {w \in (1..N) \X (1..N) : Ahead(rows, w[1], w[2])}
<1>1. \A a, b \in 1..N : <<a, b>> \in R <=> Ahead(rows, a, b)
  OBVIOUS
<1> HIDE DEF R
<1>2. PICK f : f = RankOf(rows)
  OBVIOUS
<1>3. f = [j \in 1..N |-> Cardinality({i \in 1..N : <<i, j>> \in R})]
  <2>1. \A j \in 1..N : {i \in 1..N : <<i, j>> \in R} = {i \in DOMAIN rows : Ahead(rows, i, j)}
    BY <1>1
  <2>2. RankOf(rows) = [j \in 1..N |-> Cardinality({i \in DOMAIN rows : Ahead(rows, i, j)})]
    BY DEF RankOf
  <2>3. QED
    BY <1>2, <2>1, <2>2
<1>4. /\ \A k \in 1..N : \E j \in 1..N : f[j] = k - 1
      /\ \A i, j \in 1..N : f[i] = f[j] => i = j
      /\ \A i, j \in 1..N : f[i] < f[j] => Ahead(rows, i, j)
      /\ \A j \in 1..N : f[j] \in 0..(N - 1)
  <2>1. /\ \A a, b, c \in 1..N : <<a, b>> \in R /\ <<b, c>> \in R => <<a, c>> \in R
        /\ \A a \in 1..N : <<a, a>> \notin R
        /\ \A a, b \in 1..N : a # b => <<a, b>> \in R \/ <<b, a>> \in R
    <3>1. /\ \A a, b, c \in 1..N : Ahead(rows, a, b) /\ Ahead(rows, b, c) => Ahead(rows, a, c)
          /\ \A a \in 1..N : ~ Ahead(rows, a, a)
          /\ \A a, b \in 1..N : a # b => Ahead(rows, a, b) \/ Ahead(rows, b, a)
      BY AheadIsAnOrder
    <3>2. QED
      BY <1>1, <3>1, Zenon
  <2>2. Ranking(N, R, f)
    BY <1>3, <2>1, RanksAreTaken, Zenon
  <2>3. QED
    BY <1>1, <2>2, Zenon DEF Ranking
<1> DEFINE from == [k \in 1..N |-> CHOOSE j \in 1..N : f[j] = k - 1]
<1>5. /\ from \in [1..N -> 1..N]
      /\ \A k \in 1..N : f[from[k]] = k - 1
  BY <1>4
<1>6. DOMAIN sorted = 1..N /\ \A k \in 1..N : sorted[k] = rows[from[k]]
  BY <1>2 DEF sort_variant_results
<1> HIDE DEF from
<1>7. ASSUME NEW k \in 1..N, NEW m \in 1..N, from[k] = from[m] PROVE k = m
  <2>1. PICK x \in Int, y \in Int : x = k /\ y = m
    OBVIOUS
  <2>2. x - 1 = y - 1
    BY <1>5, <1>7, <2>1, Zenon
  <2>3. QED
    BY <2>1, <2>2
<1>8. ASSUME NEW j \in 1..N PROVE \E k \in 1..N : from[k] = j
  <2>1. PICK k \in 1..N : f[j] = k - 1
    <3>1. PICK x \in 0..(N - 1) : f[j] = x
      BY <1>4, Zenon
    <3>2. \E k \in 1..N : x = k - 1
      <4>1. x + 1 \in 1..N /\ x = (x + 1) - 1
        BY <3>1
      <4>2. QED
        BY <4>1
    <3>3. QED
      BY <3>1, <3>2, Zenon
  <2>2. f[from[k]] = f[j] /\ from[k] \in 1..N
    BY <1>5, <2>1
  <2>3. QED
    BY <1>4, <2>2
<1>9. ASSUME NEW k \in 1..N, NEW m \in 1..N, k < m
      PROVE  _comparison_metric_value(sorted[k]) >= _comparison_metric_value(sorted[m])
  <2>1. from[k] \in 1..N /\ from[m] \in 1..N /\ f[from[k]] < f[from[m]]
    BY <1>5, <1>9
  <2>2. Ahead(rows, from[k], from[m])
    BY <1>4, <2>1
  <2>3. _comparison_metric_value(rows[from[k]]) >= _comparison_metric_value(rows[from[m]])
    BY <2>1, <2>2, AheadIsAnOrder
  <2>4. QED
    BY <1>6, <2>3
<1>10. Arranged(N, rows, sorted, from)
  BY <1>5, <1>6, <1>7, <1>8 DEF Arranged
<1>11. QED
  BY <1>6, <1>9, <1>10

-----------------------------------------------------------------------------
(* What the children find.                                                 *)

(* A strategy that never trades: nothing is held, bought or due.           *)
Held ==
    /\ units = 0 /\ cash = StartingCash /\ costs = 0 /\ trades = 0
    /\ \A b \in Bar : pending[b] = None
    /\ phase = "done" => summary.net = 0 /\ summary.trades = 0
AccountTyped == units \in Int /\ cash \in Int /\ costs \in Int /\ turnover \in Int /\ trades \in Int
PendingTyped ==
    \A b \in Bar : pending[b] # None => pending[b] \in Bar /\ decision[pending[b]].target \in Int
Counted(s) == \A m \in MetricNames : s[m] \in Int
(* The account of a simulation under way is in whole numbers, and that of  *)
(* the strategy that holds cash is untouched.                              *)
TypedInv ==
    pc = "simulating" =>
        /\ Len(runs) < Len(config.families) /\ bar \in Bar
        /\ DOMAIN pending = Bar /\ DOMAIN close = Bar
        /\ AccountTyped /\ PendingTyped
        /\ phase = "finish" => close[NumBars] \in Int
        /\ phase = "done" => Counted(summary)
        /\ FamilyOfChild = "naive" => Held

(* What a signal asks for is counted.                                      *)
LEMMA TargetTyped == \A s : Child!TargetUnits(s) \in Int
BY DEF Child!TargetUnits

(* The only signal of the strategy that holds cash asks for no position.   *)
LEMMA NaiveWaits ==
    ASSUME IInv, pc = "simulating", FamilyOfChild = "naive", NEW time \in Nat
    PROVE  Child!TargetUnits(Child!SelectSignal(time)) = 0
<1> DEFINE eligible == {s \in signals : Child!Eligible(s, time)}
<1>1. \A s \in signals : s.stance = "monitor"
  <2>1. PICK p, r : signals = NaiveBaseline(p, r)
    BY DEF IInv, SimulationInv, materialize_variant_signals
  <2>2. _score_to_stance(0) = "monitor"
    BY DEF _score_to_stance
  <2>3. _variant_signal(r, "naive", 0, CloseAt[1], 0, {}, {"prices"}).stance = "monitor"
    BY <2>2 DEF _variant_signal
  <2>4. QED
    BY <2>1, <2>3 DEF NaiveBaseline
<1>2. CASE eligible = {}
  BY <1>2 DEF Child!SelectSignal, Child!TargetUnits
<1>3. CASE eligible # {}
  <2>1. Comparable(eligible)
    BY SimulatedSignals, ComparableSubset DEF Materialized
  <2>2. \E s \in eligible : \A o \in eligible \ {s} : Child!Preferred(s, o)
    <3> HIDE DEF eligible
    <3>1. QED
      BY <1>3, <2>1, BestExists
  <2>3. Child!SelectSignal(time) \in eligible
    BY <1>3, <2>2 DEF Child!SelectSignal
  <2>4. PICK s \in eligible : s = Child!SelectSignal(time)
    BY <2>3
  <2>5. s.stance = "monitor"
    BY <1>1
  <2>6. QED
    BY <2>4, <2>5 DEF Child!TargetUnits
<1>4. QED
  BY <1>2, <1>3

(* Sums, magnitudes and fees of what is counted are counted.               *)
LEMMA WholeSums ==
    /\ \A x, y \in Int : x + y \in Int /\ x - y \in Int /\ x * y \in Int
    /\ \A x \in Int : Child!Magnitude(x) \in Int
    /\ \A x \in Int : Child!Fees(x) \in Int
<1>1. \A x, y \in Int : x + y \in Int /\ x - y \in Int /\ x * y \in Int
  OBVIOUS
<1>2. \A x \in Int : Child!Magnitude(x) \in Int
  BY DEF Child!Magnitude
<1>3. CostRate \in Int
  BY VariantAssumption
<1>4. \A x \in Int : Child!Fees(x) \in Int
  BY <1>1, <1>2, <1>3 DEF Child!Fees
<1>5. QED
  BY <1>1, <1>2, <1>4

(* The steps of a simulation keep its account so.                          *)
LEMMA SimulationTyped == ASSUME IInv, TypedInv, Simulate PROVE TypedInv'
<1>1. /\ pc = "simulating" /\ UNCHANGED <<scenario, n, files, runs, pc, work>>
  BY DEF Simulate, At
<1>2. /\ Len(runs) < Len(config.families) /\ bar \in Bar
      /\ DOMAIN pending = Bar /\ DOMAIN close = Bar /\ DOMAIN decision = Bar
      /\ AccountTyped /\ PendingTyped
      /\ phase = "finish" => close[NumBars] \in Int
      /\ phase = "done" => Counted(summary)
      /\ FamilyOfChild = "naive" => Held
  BY <1>1 DEF TypedInv, IInv, SimulationInv
<1>3. config' = config /\ FamilyOfChild' = FamilyOfChild
  BY <1>1 DEF config, FamilyOfChild
<1>4. PICK p \in Int, q \in Int : p = scenario.prices.open[bar] /\ q = scenario.prices.close[bar]
  <2>1. scenario \in Scenarios
    BY DEF IInv, RunInv
  <2>2. \A b \in 1..NumBars : scenario.prices.open[b] \in Int /\ scenario.prices.close[b] \in Int
    BY <2>1, AblationAssumption, VariantAssumption
  <2>3. QED
    BY <1>2, <2>2 DEF Bar
<1>5. CASE Child!Fill(p)
  <2> DEFINE target == decision[pending[bar]].target
             notional == (target - units) * p
  <2>1. /\ phase = "open" /\ pending[bar] # None /\ phase' = "close"
        /\ units' = target
        /\ cash' = cash - (10000 * notional + Child!Fees(notional))
        /\ costs' = costs + Child!Fees(notional)
        /\ turnover' = turnover + Child!Magnitude(notional)
        /\ trades' = trades + 1
        /\ pending' = [pending EXCEPT ![bar] = None]
        /\ UNCHANGED <<bar, close, decision, summary>>
    BY <1>5 DEF Child!Fill
  <2>2. target \in Int
    BY <1>2, <2>1 DEF PendingTyped
  <2> HIDE DEF target
  <2>3. notional \in Int
    BY <1>2, <2>2, WholeSums DEF AccountTyped
  <2> HIDE DEF notional
  <2>4. PICK f \in Int, m \in Int : f = Child!Fees(notional) /\ m = Child!Magnitude(notional)
    BY <2>3, WholeSums
  <2>5. AccountTyped'
    <3>1. PICK k \in Int : k = notional
      BY <2>3
    <3>2. /\ units' = target /\ cash' = cash - (10000 * k + f) /\ costs' = costs + f
          /\ turnover' = turnover + m /\ trades' = trades + 1
      BY <2>1, <2>4, <3>1
    <3>3. /\ cash - (10000 * k + f) \in Int /\ costs + f \in Int /\ turnover + m \in Int
          /\ trades + 1 \in Int
      BY <1>2, <2>4, <3>1 DEF AccountTyped
    <3>4. QED
      BY <2>2, <3>2, <3>3 DEF AccountTyped
  <2>6. PendingTyped' /\ DOMAIN pending' = Bar
    BY <1>2, <2>1 DEF PendingTyped
  <2>7. FamilyOfChild # "naive"
    BY <1>2, <2>1 DEF Held
  <2>8. QED
    BY <1>1, <1>2, <1>3, <2>1, <2>5, <2>6, <2>7 DEF TypedInv
<1>6. CASE Child!OpenWithoutFill(p)
  <2>1. /\ phase' = "close" /\ phase = "open"
        /\ UNCHANGED <<bar, close, units, cash, costs, turnover, trades, pending, decision, summary>>
    BY <1>6 DEF Child!OpenWithoutFill, Child!account, Child!log
  <2>2. AccountTyped' /\ PendingTyped'
    BY <1>2, <2>1 DEF AccountTyped, PendingTyped
  <2>3. Held => Held'
    BY <2>1 DEF Held
  <2>4. QED
    BY <1>1, <1>2, <1>3, <2>1, <2>2, <2>3 DEF TypedInv
<1>7. CASE Child!Decide(q)
  <2> DEFINE selected == Child!SelectSignal(CloseAt[bar])
             proposed == Child!TargetUnits(selected)
             changes == proposed # units
             skipped == changes /\ ~ Child!Executes(bar)
  <2>1. /\ phase = "close" /\ close' = [close EXCEPT ![bar] = q]
        /\ \E action : decision' = [decision EXCEPT ![bar] =
              [signal |-> selected, action |-> action,
               target |-> IF skipped THEN units ELSE proposed]]
        /\ pending' = IF changes /\ ~ skipped
                        THEN [pending EXCEPT ![Child!FillBar(bar)] = bar] ELSE pending
        /\ IF bar < NumBars THEN bar' = bar + 1 /\ phase' = "open"
                            ELSE bar' = bar /\ phase' = "finish"
        /\ UNCHANGED <<units, cash, costs, turnover, trades, summary>>
    BY <1>7 DEF Child!Decide, Child!account
  <2>2. proposed \in Int
    BY TargetTyped
  <2>3. NumBars \in Nat \ {0} /\ bar \in 1..NumBars
    BY <1>2, AblationAssumption DEF Bar
  <2>4. FamilyOfChild = "naive" => ~ changes
    <3>1. CloseAt[bar] \in Nat
      BY <1>2, BarsInOrder
    <3>2. QED
      BY <1>1, <1>2, <3>1, NaiveWaits DEF Held
  <2> HIDE DEF proposed, skipped, selected
  <2>5. AccountTyped'
    BY <1>2, <2>1 DEF AccountTyped
  <2>6. decision'[bar].target \in Int /\ \A b \in Bar : b # bar => decision'[b] = decision[b]
    BY <1>2, <2>1, <2>2 DEF AccountTyped
  <2>7. PendingTyped' /\ DOMAIN pending' = Bar
    <3>1. \A b \in Bar : pending'[b] = pending[b] \/ pending'[b] = bar
      BY <1>2, <2>1
    <3>2. DOMAIN pending' = Bar
      BY <1>2, <2>1
    <3>3. ASSUME NEW b \in Bar, pending'[b] # None
          PROVE  pending'[b] \in Bar /\ decision'[pending'[b]].target \in Int
      <4>1. pending'[b] \in Bar /\ (pending'[b] # bar => decision[pending'[b]].target \in Int)
        BY <1>2, <3>1, <3>3 DEF PendingTyped
      <4>2. QED
        BY <2>6, <4>1
    <3>4. QED
      BY <3>2, <3>3 DEF PendingTyped
  <2>8. bar' \in Bar /\ (phase' = "finish" => close'[NumBars] \in Int) /\ DOMAIN close' = Bar
    <3>1. bar' \in Bar
      BY <2>1, <2>3 DEF Bar
    <3>2. DOMAIN close' = Bar /\ close'[bar] = q
      BY <1>2, <2>1
    <3>3. phase' = "finish" => bar = NumBars
      BY <2>1, <2>3
    <3>4. QED
      BY <3>1, <3>2, <3>3
  <2>9. phase' # "done"
    BY <2>1
  <2>10. FamilyOfChild = "naive" => Held'
    BY <1>2, <2>1, <2>4, <2>9 DEF Held
  <2>11. QED
    BY <1>1, <1>2, <1>3, <2>5, <2>7, <2>8, <2>9, <2>10 DEF TypedInv
<1>8. CASE Child!Report
  <2>1. /\ phase = "finish" /\ phase' = "done"
        /\ summary' = [net |-> Child!EndingValue - StartingCash,
                       gross |-> Child!EndingValue + costs - StartingCash,
                       trades |-> trades, turnover |-> turnover,
                       buyAndHold |-> 10000 * (close[NumBars] - open[Child!FirstExecutableBar])]
        /\ UNCHANGED <<bar, close, units, cash, costs, turnover, trades, pending, decision>>
    BY <1>8 DEF Child!Report, Child!account, Child!log
  <2>2. AccountTyped' /\ PendingTyped'
    BY <1>2, <2>1 DEF AccountTyped, PendingTyped
  <2>3. PICK c \in Int : c = close[NumBars]
    BY <1>2, <2>1
  <2>4. Child!EndingValue = cash + 10000 * units * c
    BY <2>3 DEF Child!EndingValue
  <2>5. Child!EndingValue \in Int /\ StartingCash \in Int
    <3>1. 10000 * units \in Int
      BY <1>2 DEF AccountTyped
    <3>2. 10000 * units * c \in Int
      BY <3>1, WholeSums
    <3>3. QED
      BY <1>2, <2>4, <3>2, WholeSums, VariantAssumption DEF AccountTyped
  <2>6. PICK e \in Int : e = Child!EndingValue
    BY <2>5
  <2>7. /\ summary'.net = e - StartingCash /\ summary'.gross = e + costs - StartingCash
        /\ summary'.trades = trades /\ summary'.turnover = turnover
    BY <2>1, <2>6
  <2>8. Counted(summary)'
    <3>1. /\ e - StartingCash \in Int /\ e + costs - StartingCash \in Int
          /\ trades \in Int /\ turnover \in Int
      BY <1>2, <2>5, <2>6 DEF AccountTyped
    <3>2. /\ summary'.net \in Int /\ summary'.gross \in Int /\ summary'.trades \in Int
          /\ summary'.turnover \in Int
      BY <2>7, <3>1
    <3>3. QED
      BY <3>2 DEF Counted, MetricNames
  <2>9. ASSUME Held PROVE Held'
    <3>1. e = cash
      BY <1>2, <2>4, <2>6, <2>9 DEF Held, AccountTyped
    <3>2. summary'.net = 0 /\ summary'.trades = 0
      BY <2>5, <2>7, <2>9, <3>1 DEF Held
    <3>3. QED
      BY <2>1, <2>9, <3>2 DEF Held
  <2>10. QED
    BY <1>1, <1>2, <1>3, <2>1, <2>2, <2>8, <2>9 DEF TypedInv
<1>9. CASE Child!Raise
  <2>1. /\ phase' = "raised"
        /\ UNCHANGED <<bar, close, units, cash, costs, turnover, trades, pending, decision, summary>>
    BY <1>9 DEF Child!Raise, Child!account, Child!log
  <2>2. AccountTyped' /\ PendingTyped'
    BY <1>2, <2>1 DEF AccountTyped, PendingTyped
  <2>3. Held => Held'
    BY <2>1 DEF Held
  <2>4. QED
    BY <1>1, <1>2, <1>3, <2>1, <2>2, <2>3 DEF TypedInv
<1>10. QED
  BY <1>4, <1>5, <1>6, <1>7, <1>8, <1>9 DEF Simulate

(* What the workflow has of a child that ended: its family, in its turn,   *)
(* the identifiers of its run, a summary in whole numbers, and finitely    *)
(* many artifacts.                                                         *)
Countable(v) == IsFiniteSet(v.signals) /\ IsFiniteSet(v.benchmarks) /\ IsFiniteSet(v.datasets)
IsChild(v, i) ==
    /\ v.family = config.families[i] /\ v.run.id = <<n, i, v.family>> /\ v.summary.id = v.run.id
    /\ Counted(v.summary) /\ Countable(v)
    /\ v.family = "naive" => v.summary.net = 0 /\ v.summary.trades = 0
ListedInv ==
    /\ pc \notin Guarded => runs = <<>>
    /\ Len(runs) <= Len(config.families)
    /\ \A i \in DOMAIN runs : IsChild(runs[i], i)
ChildrenInv == TypedInv /\ ListedInv

(* The families that are compared are listed in an order.                  *)
LEMMA FamiliesCounted ==
    ASSUME RunInv
    PROVE  Len(config.families) \in Nat /\ config.families \in Seq(Family)
BY AblationAssumption DEF RunInv, config

(* Where no child ended yet, the list of children is in order.             *)
LEMMA ChildrenEmpty ==
    ASSUME RunInv, scenario' = scenario, runs' = <<>>, pc' # "simulating"
    PROVE  ChildrenInv'
<1>1. Len(config.families)' \in Nat
  BY FamiliesCounted DEF config
<1>2. DOMAIN runs' = {} /\ Len(runs') = 0
  OBVIOUS
<1>3. QED
  BY <1>1, <1>2 DEF ChildrenInv, TypedInv, ListedInv

(* What a function gives for finitely many items is finite.                *)
LEMMA ImageFinite ==
    ASSUME NEW D, IsFiniteSet(D), NEW f, DOMAIN f = D, f = [x \in D |-> f[x]]
    PROVE  IsFiniteSet({f[x] : x \in D})
<1> DEFINE S == {f[x] : x \in D}
<1>1. f \in Surjection(D, S)
  BY DEF Surjection
<1> HIDE DEF S
<1>2. IsFiniteSet(S)
  BY <1>1, FS_Surjection
<1>3. QED
  BY <1>2 DEF S

LEMMA ElementsFinite == ASSUME NEW s, IsSeq(s) PROVE IsFiniteSet(ToSet(s))
<1>1. PICK l \in Nat : l = Len(s)
  BY SequenceIs
<1>2. DOMAIN s = 1..l /\ s = [i \in 1..l |-> s[i]]
  BY <1>1, SequenceIs
<1>3. IsFiniteSet(1..l)
  BY <1>1, FS_Interval
<1>4. IsFiniteSet({s[i] : i \in 1..l})
  BY <1>2, <1>3, ImageFinite
<1>5. QED
  BY <1>2, <1>4 DEF ToSet

(* A child has two benchmarks and two datasets.                            *)
LEMMA ChildArtifactsFinite ==
    \A family : IsFiniteSet(Benchmarks(family)) /\ IsFiniteSet(_build_dataset_registry_records(family))
<1> SUFFICES ASSUME NEW family
             PROVE  /\ IsFiniteSet(Benchmarks(family))
                    /\ IsFiniteSet(_build_dataset_registry_records(family))
  OBVIOUS
<1>1. \A x, y : IsFiniteSet({x, y})
  <2>1. ASSUME NEW x, NEW y PROVE IsFiniteSet({x, y})
    <3>1. IsFiniteSet({x} \cup {y})
      BY FS_Singleton, FS_Union
    <3>2. {x, y} = {x} \cup {y}
      OBVIOUS
    <3>3. QED
      BY <3>1, <3>2
  <2>2. QED
    BY <2>1
<1>2. \E x, y : Benchmarks(family) = {x, y}
  <2>1. PICK f : f = [kind \in {"flat", "buy_and_hold"} |-> [id |-> <<RunId(family), kind>>, prov |-> Linked]]
    OBVIOUS
  <2>2. Benchmarks(family) = {f["flat"], f["buy_and_hold"]}
    BY <2>1 DEF Benchmarks
  <2>3. QED
    BY <2>2
<1>3. \E x, y : _build_dataset_registry_records(family) = {x, y}
  <2>1. PICK f : f = [name \in DatasetNames |->
                       [id |-> <<family, name>>, snapshot |-> <<family, name>>,
                        manifest |-> <<family, name>>, storage |-> <<family, name>>, prov |-> Linked]]
    OBVIOUS
  <2>2. _build_dataset_registry_records(family) = {f["signals"], f["prices"]}
    BY <2>1 DEF _build_dataset_registry_records, DatasetNames
  <2>3. QED
    BY <2>2
<1>4. IsFiniteSet(Benchmarks(family))
  BY <1>1, <1>2
<1>5. IsFiniteSet(_build_dataset_registry_records(family))
  BY <1>1, <1>3
<1>6. QED
  BY <1>4, <1>5

(* A child that ended is the next one of the list.                         *)
LEMMA ChildListed == ASSUME IInv, ChildrenInv, RecordChild PROVE ChildrenInv'
<1> DEFINE family == FamilyOfChild
<1>1. /\ pc = "simulating" /\ pc' = "comparing" /\ phase = "done" /\ UNCHANGED <<scenario, n>>
      /\ runs' = Append(runs, VariantRun(family))
  BY DEF RecordChild, At, Proceed
<1>2. PICK s, S : s = runs /\ S = ToSet(runs)
  OBVIOUS
<1>3. PICK run : run = VariantRun(family)
  OBVIOUS
<1>4. /\ Len(s) < Len(config.families) /\ Counted(summary) /\ (family = "naive" => Held)
      /\ \A i \in DOMAIN s : IsChild(s[i], i)
  BY <1>1, <1>2 DEF ChildrenInv, TypedInv, ListedInv
<1>5. s \in Seq(S) /\ Len(s) \in Nat
  BY <1>2 DEF IInv, RunInv
<1>6. /\ run.family = family /\ run.run.id = <<n, Len(s) + 1, family>> /\ run.summary.id = run.run.id
      /\ \A m \in MetricNames : run.summary[m] = summary[m]
  <2>1. run.family = family /\ run.run = BacktestRun(family) /\ run.summary = PerformanceSummary(family)
    BY <1>3 DEF VariantRun
  <2>2. /\ BacktestRun(family).id = RunId(family) /\ PerformanceSummary(family).id = RunId(family)
        /\ \A m \in MetricNames : PerformanceSummary(family)[m] = summary[m]
    BY DEF BacktestRun, PerformanceSummary, MetricNames
  <2>3. RunId(family) = <<n, Len(s) + 1, family>>
    BY <1>2 DEF RunId
  <2>4. QED
    BY <2>1, <2>2, <2>3
<1>7. IsChild(run, Len(s) + 1)
  <2>1. family = config.families[Len(s) + 1]
    BY <1>2 DEF FamilyOfChild
  <2>2. Counted(run.summary)
    BY <1>4, <1>6 DEF Counted
  <2>3. family = "naive" => run.summary.net = 0 /\ run.summary.trades = 0
    BY <1>1, <1>4, <1>6 DEF Held, MetricNames
  <2>4. Countable(run)
    <3>1. /\ run.signals = signals /\ run.benchmarks = Benchmarks(family)
          /\ run.datasets = IF config.record THEN _build_dataset_registry_records(family) ELSE {}
      BY <1>3 DEF VariantRun
    <3>2. IsFiniteSet(signals)
      BY <1>1, SimulatedSignals DEF Materialized, Comparable
    <3>3. IsFiniteSet(Benchmarks(family)) /\ IsFiniteSet(_build_dataset_registry_records(family))
      BY ChildArtifactsFinite
    <3> HIDE DEF family
    <3>4. IsFiniteSet(run.datasets)
      BY <3>1, <3>3, FS_EmptySet
    <3>5. QED
      BY <3>1, <3>2, <3>3, <3>4 DEF Countable
  <2> HIDE DEF family
  <2>5. QED
    BY <1>6, <2>1, <2>2, <2>3, <2>4 DEF IsChild
<1> HIDE DEF family
<1>8. PICK t : t = Append(s, run)
  OBVIOUS
<1>9. /\ runs' = t /\ Len(t) = Len(s) + 1 /\ DOMAIN t = 1..(Len(s) + 1)
      /\ \A i \in DOMAIN t : t[i] = IF i = Len(s) + 1 THEN run ELSE s[i]
  <2>1. s \in Seq(S \cup {run})
    BY <1>5
  <2>2. QED
    BY <1>1, <1>2, <1>3, <1>8, <2>1
<1>10. ASSUME NEW i \in DOMAIN t PROVE IsChild(t[i], i)
  <2>1. CASE i = Len(s) + 1
    BY <1>7, <1>9, <2>1
  <2>2. CASE i # Len(s) + 1
    <3>1. i \in DOMAIN s /\ t[i] = s[i]
      BY <1>5, <1>9, <2>2
    <3>2. QED
      BY <1>4, <3>1
  <2>3. QED
    BY <2>1, <2>2
<1>11. \A v, i : IsChild(v, i)' <=> IsChild(v, i)
  BY <1>1 DEF IsChild, config
<1>12. Len(t) <= Len(config.families)
  <2>1. Len(config.families) \in Nat
    BY FamiliesCounted DEF IInv
  <2>2. QED
    BY <1>4, <1>5, <1>9, <2>1
<1>13. ListedInv'
  <2>1. Len(config.families)' = Len(config.families)
    BY <1>1 DEF config
  <2>2. QED
    BY <1>1, <1>9, <1>10, <1>11, <1>12, <2>1 DEF ListedInv, Guarded
<1>14. QED
  BY <1>1, <1>13 DEF ChildrenInv, TypedInv

(* A step that leaves the children as they are.                            *)
LEMMA ChildrenUntouched ==
    ASSUME ListedInv, UNCHANGED <<scenario, n, runs>>, pc' \notin Guarded => runs = <<>>
    PROVE  ListedInv'
<1>1. \A v, i : IsChild(v, i)' <=> IsChild(v, i)
  BY DEF IsChild, config
<1>2. QED
  BY <1>1 DEF ListedInv, config

(* Each action keeps the list of children in order.                        *)
LEMMA ChildrenKept == ASSUME IInv, ChildrenInv, [Next]_vars PROVE ChildrenInv'
<1>a. RunInv /\ TypedInv /\ ListedInv
  BY DEF IInv, ChildrenInv
<1>1. CASE Start
  <2>1. pc = "idle" /\ pc' = "starting" /\ UNCHANGED <<scenario, runs>>
    BY <1>1 DEF Start
  <2>2. runs' = <<>>
    BY <1>a, <2>1 DEF ListedInv, Guarded
  <2>3. QED
    BY <1>a, <2>1, <2>2, ChildrenEmpty
<1>2. CASE Conclude \/ WorkflowRaises \/ WriteRaises \/ Die
  <2>1. scenario' = scenario /\ runs' = <<>> /\ pc' # "simulating"
    BY <1>2 DEF Conclude, WorkflowRaises, WriteRaises, Die, Handle, Proceed
  <2>2. QED
    BY <1>a, <2>1, ChildrenEmpty
<1>3. CASE RecordChild
  BY <1>3, ChildListed
<1>4. CASE LoadInputs \/ Compare \/ Return
  <2>1. /\ UNCHANGED <<scenario, n, runs>> /\ pc' # "simulating"
        /\ pc' \in Guarded \/ pc \notin Guarded
    BY <1>4 DEF LoadInputs, Compare, Return, Proceed, At, Guarded
  <2>2. ListedInv'
    BY <1>a, <2>1, ChildrenUntouched DEF ListedInv
  <2>3. QED
    BY <2>1, <2>2 DEF ChildrenInv, TypedInv
<1>5. CASE Simulate
  <2>1. UNCHANGED <<scenario, n, runs, pc>>
    BY <1>5 DEF Simulate
  <2>2. ListedInv'
    BY <1>a, <2>1, ChildrenUntouched DEF ListedInv
  <2>3. QED
    BY <1>a, <1>5, <2>2, SimulationTyped DEF ChildrenInv
<1>6. CASE WriteNext \/ UNCHANGED vars
  <2>1. UNCHANGED <<simulation, scenario, n, runs, pc>>
    BY <1>6 DEF WriteNext, vars
  <2>2. ListedInv'
    BY <1>a, <2>1, ChildrenUntouched DEF ListedInv
  <2>3. TypedInv'
    <3>1. UNCHANGED <<bar, phase, close, units, cash, costs, turnover, trades, pending, decision, summary>>
      BY <2>1 DEF simulation
    <3>2. config' = config /\ FamilyOfChild' = FamilyOfChild
      BY <2>1 DEF config, FamilyOfChild
    <3>3. (AccountTyped => AccountTyped') /\ (PendingTyped => PendingTyped') /\ (Held => Held')
      BY <3>1 DEF AccountTyped, PendingTyped, Held
    <3>4. Counted(summary) => Counted(summary)'
      BY <3>1 DEF Counted
    <3>5. QED
      BY <1>a, <2>1, <3>1, <3>2, <3>3, <3>4 DEF TypedInv
  <2>4. QED
    BY <2>2, <2>3 DEF ChildrenInv
<1>7. CASE MaterializeSignals
  <2>1. /\ UNCHANGED <<scenario, n, runs>> /\ pc' = "simulating"
        /\ Len(runs) < Len(config.families)
        /\ bar' = 1 /\ phase' = "open" /\ close' = [b \in Bar |-> None]
        /\ units' = 0 /\ cash' = StartingCash /\ costs' = 0 /\ turnover' = 0 /\ trades' = 0
        /\ pending' = [b \in Bar |-> None]
    BY <1>7 DEF MaterializeSignals, StartSimulation, Proceed
  <2>2. ListedInv'
    BY <1>a, <2>1, ChildrenUntouched DEF ListedInv, Guarded
  <2>3. bar' \in Bar /\ StartingCash \in Int
    BY <2>1, AblationAssumption, VariantAssumption DEF Bar
  <2>4. AccountTyped' /\ PendingTyped' /\ Held'
    BY <2>1, <2>3 DEF AccountTyped, PendingTyped, Held
  <2>5. Len(runs') < Len(config'.families)
    BY <2>1 DEF config
  <2>6. TypedInv'
    BY <2>1, <2>3, <2>4, <2>5 DEF TypedInv
  <2>7. QED
    BY <2>2, <2>6 DEF ChildrenInv
<1>8. QED
  BY <1>1, <1>2, <1>3, <1>4, <1>5, <1>6, <1>7 DEF Next

(* It is in order at the start.                                            *)
LEMMA ChildrenInit == ASSUME Init PROVE ChildrenInv
<1>1. scenario \in Scenarios /\ runs = <<>> /\ pc = "idle"
  BY DEF Init
<1>2. RunInv
  BY InitHolds DEF IInv
<1>3. Len(config.families) \in Nat
  BY <1>2, FamiliesCounted
<1>4. DOMAIN runs = {} /\ Len(runs) = 0
  BY <1>1
<1>5. QED
  BY <1>1, <1>3, <1>4 DEF ChildrenInv, TypedInv, ListedInv

-----------------------------------------------------------------------------
(* What the comparison says.                                               *)

(* A row that is in order, and what it says is on file.                    *)
RowFacts(r) == {<<"runs", r.run>>} \cup {<<"value", r.summary, m, r[m]>> : m \in MetricNames}
RowOK(k, r) ==
    /\ r.run[1] = k /\ r.run[3] = r.family /\ RowFacts(r) \subseteq Facts
    /\ r.family = "naive" => r.net = 0 /\ r.trades = 0
ResultOK(c) == RankedRows(c) /\ \A r \in ToSet(c.rows) : RowOK(c.n, r)

(* Each family has its place in the list of variants.                      *)
LEMMA PositionCounted == \A f \in Family : Position(f) \in Int
<1> SUFFICES ASSUME NEW f \in Family PROVE Position(f) \in Int
  OBVIOUS
<1>1. VariantOrder \in Seq(Family) /\ f \in ToSet(VariantOrder)
  BY VariantAssumption
<1>2. \E i \in DOMAIN VariantOrder : VariantOrder[i] = f
  BY <1>1 DEF ToSet
<1>3. Position(f) \in DOMAIN VariantOrder
  BY <1>2 DEF Position
<1>4. DOMAIN VariantOrder \subseteq Int
  BY <1>1
<1>5. QED
  BY <1>3, <1>4

(* A row says of a child what the summary of the child says.               *)
LEMMA RowsOfChildren ==
    ASSUME NEW v, Counted(v.summary)
    PROVE  /\ Row(v).family = v.family /\ Row(v).run = v.run.id /\ Row(v).summary = v.summary.id
           /\ \A m \in MetricNames : Row(v)[m] = v.summary[m]
           /\ _comparison_metric_value(Row(v)) \in Int
<1>1. PICK r : r = Row(v)
  OBVIOUS
<1>2. /\ r.family = v.family /\ r.run = v.run.id /\ r.summary = v.summary.id
      /\ r.gross = v.summary.gross /\ r.net = v.summary.net /\ r.trades = v.summary.trades
      /\ r.turnover = v.summary.turnover
  BY <1>1 DEF Row
<1>3. \A m \in MetricNames : r[m] = v.summary[m] /\ r[m] \in Int
  BY <1>2 DEF Counted, MetricNames
<1>4. _comparison_metric_value(r) \in Int
  BY <1>3 DEF _comparison_metric_value, MetricNames
<1>5. QED
  BY <1>1, <1>2, <1>3, <1>4

(* The result ranks the children of this run.                              *)
LEMMA ResultRanked ==
    ASSUME IInv, ListedInv, Len(runs) = Len(config.families),
           \A v \in ToSet(runs) : RunFacts(v) \subseteq Facts
    PROVE  ResultOK(AblationResult)
<1>1. PICK N \in Nat : N = Len(runs)
  BY DEF IInv, RunInv
<1>2. DOMAIN runs = 1..N /\ DOMAIN config.families = 1..N /\ \A i \in 1..N : runs[i] \in ToSet(runs)
  <2>1. runs \in Seq(ToSet(runs))
    BY DEF IInv, RunInv
  <2>2. config.families \in Seq(Family)
    BY FamiliesCounted DEF IInv
  <2>3. QED
    BY <1>1, <2>1, <2>2 DEF ToSet
<1>3. \A i \in 1..N : config.families[i] \in Family
  <2>1. config.families \in Seq(Family)
    BY FamiliesCounted DEF IInv
  <2>2. QED
    BY <1>2, <2>1
<1>4. \A i \in 1..N : IsChild(runs[i], i)
  BY <1>2 DEF ListedInv
<1>5. PICK rows : rows = Rows
  OBVIOUS
<1>6. DOMAIN rows = 1..N /\ \A i \in 1..N : rows[i] = Row(runs[i])
  BY <1>2, <1>5 DEF Rows
<1>7. \A i \in 1..N : /\ rows[i].family = config.families[i]
                      /\ _comparison_metric_value(rows[i]) \in Int
                      /\ rows[i].run = <<n, i, rows[i].family>> /\ rows[i].summary = rows[i].run
                      /\ rows[i].run = runs[i].run.id /\ rows[i].summary = runs[i].summary.id
                      /\ \A m \in MetricNames : rows[i][m] = runs[i].summary[m]
  BY <1>4, <1>6, RowsOfChildren DEF IsChild
<1>8. Rankable(rows)
  BY <1>3, <1>6, <1>7, PositionCounted DEF Rankable
<1>9. PICK sorted : sorted = sort_variant_results(rows)
  OBVIOUS
<1>10. DOMAIN sorted = 1..N
       /\ \A k, m \in 1..N : k < m =>
            _comparison_metric_value(sorted[k]) >= _comparison_metric_value(sorted[m])
  BY <1>6, <1>8, <1>9, RowsAreSorted
<1>a. PICK from : Arranged(N, rows, sorted, from)
  BY <1>6, <1>8, <1>9, RowsAreSorted
<1>11. /\ \A k \in 1..N : from[k] \in 1..N /\ sorted[k] = rows[from[k]]
       /\ \A k, m \in 1..N : from[k] = from[m] => k = m
       /\ \A j \in 1..N : \E k \in 1..N : from[k] = j
  BY <1>a DEF Arranged
<1>12. PICK c : c = AblationResult
  OBVIOUS
<1>13. c.n = n /\ c.rows = sorted
  BY <1>5, <1>9, <1>12 DEF AblationResult
<1>14. \A k \in 1..N : sorted[k].family = config.families[from[k]]
  <2> SUFFICES ASSUME NEW k \in 1..N PROVE sorted[k].family = config.families[from[k]]
    OBVIOUS
  <2>1. PICK j \in 1..N : j = from[k] /\ sorted[k] = rows[j]
    BY <1>11
  <2>2. rows[j].family = config.families[j]
    BY <1>7
  <2>3. QED
    BY <2>1, <2>2
<1>15. IsInjective([i \in DOMAIN sorted |-> sorted[i].family])
  <2>1. IsInjective(config.families)
    BY VariantAssumption DEF IInv, RunInv, config
  <2>2. \A i, j \in 1..N : config.families[i] = config.families[j] => i = j
    BY <1>2, <2>1 DEF IsInjective
  <2>3. \A i, j \in 1..N : sorted[i].family = sorted[j].family => i = j
    <3> SUFFICES ASSUME NEW i \in 1..N, NEW j \in 1..N, sorted[i].family = sorted[j].family
                 PROVE  i = j
      OBVIOUS
    <3>1. PICK a \in 1..N, b \in 1..N : a = from[i] /\ b = from[j]
      BY <1>11
    <3>2. config.families[a] = config.families[b]
      BY <1>14, <3>1
    <3>3. a = b
      BY <2>2, <3>2
    <3>4. QED
      BY <1>11, <3>1, <3>3
  <2>4. QED
    BY <1>10, <2>3 DEF IsInjective
<1>16. {r.family : r \in ToSet(sorted)} = ToSet(config.families)
  <2>1. \A r : r \in ToSet(sorted) <=> \E k \in 1..N : r = sorted[k]
    BY <1>10 DEF ToSet
  <2>2. \A f : f \in ToSet(config.families) <=> \E i \in 1..N : f = config.families[i]
    BY <1>2 DEF ToSet
  <2>3. \A r \in ToSet(sorted) : r.family \in ToSet(config.families)
    <3> SUFFICES ASSUME NEW r \in ToSet(sorted) PROVE r.family \in ToSet(config.families)
      OBVIOUS
    <3>1. PICK k \in 1..N : r = sorted[k]
      BY <2>1
    <3>2. PICK j \in 1..N : j = from[k]
      BY <1>11
    <3>3. r.family = config.families[j]
      BY <1>14, <3>1, <3>2
    <3>4. QED
      BY <2>2, <3>3
  <2>4. \A f \in ToSet(config.families) : \E r \in ToSet(sorted) : f = r.family
    <3> SUFFICES ASSUME NEW f \in ToSet(config.families)
                 PROVE  \E r \in ToSet(sorted) : f = r.family
      OBVIOUS
    <3>1. PICK j \in 1..N : f = config.families[j]
      BY <2>2
    <3>2. PICK k \in 1..N : from[k] = j
      BY <1>11
    <3>3. f = sorted[k].family /\ sorted[k] \in ToSet(sorted)
      BY <1>14, <2>1, <3>1, <3>2
    <3>4. QED
      BY <3>3
  <2>5. QED
    BY <2>3, <2>4
<1>17. RankedRows(c)
  BY <1>10, <1>13, <1>15, <1>16 DEF RankedRows
<1>18. ASSUME NEW r \in ToSet(c.rows) PROVE RowOK(c.n, r)
  <2>1. PICK i \in 1..N : r = rows[i]
    <3>1. PICK k \in 1..N : r = sorted[k]
      BY <1>10, <1>13 DEF ToSet
    <3>2. from[k] \in 1..N /\ sorted[k] = rows[from[k]]
      BY <1>11
    <3>3. QED
      BY <3>1, <3>2
  <2>2. PICK v : v = runs[i]
    OBVIOUS
  <2>3. IsChild(v, i) /\ RunFacts(v) \subseteq Facts
    BY <1>2, <1>4, <2>2
  <2>4. /\ r.run = <<n, i, r.family>> /\ r.family = v.family
        /\ r.run = v.run.id /\ r.summary = v.summary.id
        /\ \A m \in MetricNames : r[m] = v.summary[m]
    BY <1>7, <2>1, <2>2, <2>3 DEF IsChild
  <2>5. RowFacts(r) \subseteq Facts
    <3>1. <<"runs", v.run.id>> \in RunFacts(v)
          /\ \A m \in MetricNames : <<"value", v.summary.id, m, v.summary[m]>> \in RunFacts(v)
      BY DEF RunFacts
    <3>2. QED
      BY <2>3, <2>4, <3>1 DEF RowFacts
  <2>6. r.family = "naive" => r.net = 0 /\ r.trades = 0
    BY <2>3, <2>4 DEF IsChild, MetricNames
  <2>7. QED
    BY <1>13, <2>4, <2>5, <2>6 DEF RowOK
<1>19. QED
  BY <1>12, <1>17, <1>18 DEF ResultOK

-----------------------------------------------------------------------------
(* What the comparison says depends on the scenario, the number of the run *)
(* and its children alone.                                                 *)

PlacedBy(rows, ranks) == [i \in DOMAIN rows |-> rows[CHOOSE j \in DOMAIN rows : ranks[j] = i - 1]]
RowsOf(children) == [i \in DOMAIN children |-> Row(children[i])]

(* The result depends on the run and its children only.                    *)
LEMMA ResultKept ==
    ASSUME UNCHANGED <<scenario, n, runs>>
    PROVE  AblationResult' = AblationResult
<1>1. config' = config
  BY DEF config
<1>2. \A row : _comparison_metric_value(row)' = _comparison_metric_value(row)
  BY <1>1 DEF _comparison_metric_value
<1>3. \A a, b : RankedBefore(a, b)' <=> RankedBefore(a, b)
  BY <1>2 DEF RankedBefore
<1>4. \A rows, i, j : Ahead(rows, i, j)' <=> Ahead(rows, i, j)
  BY <1>3 DEF Ahead
<1>5. PICK rows : rows = RowsOf(runs)
  OBVIOUS
<1>6. Rows = rows /\ Rows' = rows
  <2>1. Rows = RowsOf(runs) /\ Rows' = RowsOf(runs')
    BY DEF Rows, RowsOf
  <2>2. QED
    BY <1>5, <2>1
<1>7. RankOf(rows)' = RankOf(rows)
  <2>1. \A j \in DOMAIN rows :
          {i \in DOMAIN rows : Ahead(rows, i, j)'} = {i \in DOMAIN rows : Ahead(rows, i, j)}
    BY <1>4
  <2>2. RankOf(rows) = [j \in DOMAIN rows |-> Cardinality({i \in DOMAIN rows : Ahead(rows, i, j)})]
    BY DEF RankOf
  <2>3. RankOf(rows)' = [j \in DOMAIN rows |-> Cardinality({i \in DOMAIN rows : Ahead(rows, i, j)'})]
    BY DEF RankOf
  <2>4. QED
    BY <2>1, <2>2, <2>3
<1>8. sort_variant_results(rows)' = sort_variant_results(rows)
  <2>1. sort_variant_results(rows) = PlacedBy(rows, RankOf(rows))
    BY DEF sort_variant_results, PlacedBy
  <2>2. sort_variant_results(rows)' = PlacedBy(rows, RankOf(rows)')
    BY DEF sort_variant_results, PlacedBy
  <2>3. QED
    BY <1>7, <2>1, <2>2
<1>9. PICK s : s = sort_variant_results(rows)
  OBVIOUS
<1>10. AblationResult = [id |-> "ablation_result", n |-> n, metric |-> config.metric, rows |-> s, prov |-> Linked]
  BY <1>6, <1>9 DEF AblationResult
<1>11. AblationResult' = [id |-> "ablation_result", n |-> n, metric |-> config.metric, rows |-> s, prov |-> Linked]
  <2>1. PICK given : given = Rows'
    OBVIOUS
  <2>2. AblationResult' = [id |-> "ablation_result", n |-> n', metric |-> config'.metric,
                           rows |-> sort_variant_results(Rows)', prov |-> Linked]
    BY DEF AblationResult
  <2>3. sort_variant_results(Rows)' = sort_variant_results(rows)'
    BY <1>6 DEF sort_variant_results, RankOf, Ahead, RankedBefore
  <2>4. QED
    BY <1>1, <1>8, <1>9, <2>2, <2>3
<1>12. QED
  BY <1>10, <1>11

-----------------------------------------------------------------------------
(* Why no evaluation passes.                                               *)

FailedReport == [id |-> "report", n |-> n, status |-> "fail"]

LEMMA ProvenFinite ==
    ASSUME NEW type, NEW items, IsFiniteSet(items)
    PROVE  IsFiniteSet(Proven(type, items))
<1> DEFINE f == [a \in items |-> [id |-> <<type, a.id>>, prov |-> a.prov]]
<1>1. DOMAIN f = items /\ f = [a \in items |-> f[a]]
  OBVIOUS
<1>2. Proven(type, items) = {f[a] : a \in items}
  BY DEF Proven
<1> HIDE DEF f
<1>3. QED
  BY <1>1, <1>2, ImageFinite

LEMMA FiniteUnions ==
    /\ \A A, B : IsFiniteSet(A) /\ IsFiniteSet(B) => IsFiniteSet(A \cup B)
    /\ \A x : IsFiniteSet({x})
    /\ IsFiniteSet({})
<1>1. ASSUME NEW A, NEW B, IsFiniteSet(A), IsFiniteSet(B) PROVE IsFiniteSet(A \cup B)
  BY <1>1, FS_Union
<1>2. QED
  BY <1>1, FS_Singleton, FS_EmptySet

(* What is asked of a child for its provenance is finite.                  *)
LEMMA ProvenOfRunFinite == ASSUME NEW v, Countable(v) PROVE IsFiniteSet(ProvenOfRun(v))
<1>1. PICK a, b, c, d, e, f : /\ a = Proven("signals", v.signals) /\ b = Proven("runs", {v.run})
                              /\ c = Proven("summaries", {v.summary})
                              /\ d = Proven("benchmarks", v.benchmarks)
                              /\ e = Proven("datasets", v.datasets)
                              /\ f = Proven("experiments", {v.experiment} \ {None})
  OBVIOUS
<1>2. IsFiniteSet({v.run}) /\ IsFiniteSet({v.summary}) /\ IsFiniteSet({v.experiment} \ {None})
  BY FiniteUnions, FS_Difference
<1>3. /\ IsFiniteSet(a) /\ IsFiniteSet(b) /\ IsFiniteSet(c)
      /\ IsFiniteSet(d) /\ IsFiniteSet(e) /\ IsFiniteSet(f)
  BY <1>1, <1>2, ProvenFinite DEF Countable
<1>4. ProvenOfRun(v) = a \cup b \cup c \cup d \cup e \cup f
  BY <1>1 DEF ProvenOfRun
<1>5. QED
  BY <1>3, <1>4, FiniteUnions

(* So is everything the evaluation looks at.                               *)
LEMMA EvaluatedFinite ==
    ASSUME IInv, ListedInv, n >= 1
    PROVE  /\ IsSeq(runs) /\ IsFiniteSet(TextSignals(research)) /\ IsFiniteSet(research.features)
           /\ IsFiniteSet(UNION {v.signals : v \in ToSet(runs)})
           /\ IsFiniteSet(provenance_artifacts)
<1>1. scenario \in Scenarios /\ research \in ToSet(scenario.researches) /\ IsSeq(runs)
  BY ResearchFound DEF IInv, RunInv, IsSeq
<1>2. IsFiniteSet(research.signals) /\ IsFiniteSet(research.features)
  BY <1>1, AblationAssumption
<1>3. IsFiniteSet(TextSignals(research))
  BY <1>2, FS_Subset DEF TextSignals
<1>4. IsFiniteSet(ToSet(runs))
  BY <1>1, ElementsFinite
<1>5. \A v \in ToSet(runs) : Countable(v)
  BY PlaceOf DEF ListedInv, IsChild
<1>6. IsFiniteSet(UNION {v.signals : v \in ToSet(runs)})
  <2>1. PICK S : S = ToSet(runs)
    OBVIOUS
  <2>2. PICK f : f = [v \in S |-> v.signals]
    OBVIOUS
  <2>3. IsFiniteSet({f[v] : v \in S})
    BY <1>4, <2>1, <2>2, ImageFinite
  <2>4. \A T \in {f[v] : v \in S} : IsFiniteSet(T)
    BY <1>5, <2>1, <2>2 DEF Countable
  <2>5. {f[v] : v \in S} = {v.signals : v \in S}
    BY <2>2
  <2>6. QED
    BY <2>1, <2>3, <2>4, <2>5, FS_UNION
<1>7. IsFiniteSet(UNION {ProvenOfRun(v) : v \in ToSet(runs)})
  <2>1. PICK S : S = ToSet(runs)
    OBVIOUS
  <2>2. PICK f : f = [v \in S |-> ProvenOfRun(v)]
    OBVIOUS
  <2>3. IsFiniteSet({f[v] : v \in S})
    BY <1>4, <2>1, <2>2, ImageFinite
  <2>4. \A T \in {f[v] : v \in S} : IsFiniteSet(T)
    BY <1>5, <2>1, <2>2, ProvenOfRunFinite
  <2>5. {f[v] : v \in S} = {ProvenOfRun(v) : v \in S}
    BY <2>2
  <2>6. QED
    BY <2>1, <2>3, <2>4, <2>5, FS_UNION
<1>8. IsFiniteSet(build_strategy_specs)
  <2>1. PICK S : S = ToSet(config.families)
    OBVIOUS
  <2>2. IsFiniteSet(S)
    <3>1. config.families \in Seq(Family)
      BY FamiliesCounted DEF IInv
    <3>2. IsSeq(config.families)
      BY <3>1 DEF IsSeq, ToSet
    <3>3. QED
      BY <2>1, <3>2, ElementsFinite
  <2>3. PICK f : f = [family \in S |-> [id |-> family, prov |-> Stamped]]
    OBVIOUS
  <2>4. IsFiniteSet({f[family] : family \in S})
    BY <2>2, <2>3, ImageFinite
  <2>5. build_strategy_specs = {f[family] : family \in S}
    BY <2>1, <2>3 DEF build_strategy_specs
  <2>6. QED
    BY <2>4, <2>5
<1>9. PICK a, b, c, d, e, f, g :
        /\ a = Proven("config", {config}) /\ b = Proven("result", {AblationResult})
        /\ c = Proven("specs", build_strategy_specs)
        /\ d = Proven("snapshots", {ResearchSnapshot(research), PriceSnapshot})
        /\ e = Proven("texts", TextSignals(research)) /\ f = Proven("features", research.features)
        /\ g = UNION {ProvenOfRun(v) : v \in ToSet(runs)}
  OBVIOUS
<1>10. IsFiniteSet({ResearchSnapshot(research), PriceSnapshot})
  <2>1. PICK x, y : x = ResearchSnapshot(research) /\ y = PriceSnapshot
    OBVIOUS
  <2>2. {x, y} = {x} \cup {y}
    OBVIOUS
  <2>3. IsFiniteSet({x} \cup {y})
    BY FiniteUnions
  <2>4. QED
    BY <2>1, <2>2, <2>3
<1>11. /\ IsFiniteSet(a) /\ IsFiniteSet(b) /\ IsFiniteSet(c) /\ IsFiniteSet(d)
       /\ IsFiniteSet(e) /\ IsFiniteSet(f) /\ IsFiniteSet(g)
  BY <1>2, <1>3, <1>7, <1>8, <1>9, <1>10, FiniteUnions, ProvenFinite
<1>12. provenance_artifacts = a \cup b \cup c \cup d \cup e \cup f \cup g
  BY <1>9 DEF provenance_artifacts
<1>13. IsFiniteSet(provenance_artifacts)
  BY <1>11, <1>12, FiniteUnions
<1>14. QED
  BY <1>1, <1>2, <1>3, <1>6, <1>13

(* The failures of each item in turn are one sequence of failures.         *)
LEMMA FailuresListed ==
    ASSUME NEW items, IsSeq(items), NEW found, found = [i \in DOMAIN items |-> found[i]],
           \A i \in DOMAIN items : IsSeq(found[i])
    PROVE  /\ IsSeq(FlattenSeq(found))
           /\ \A i \in DOMAIN items : ToSet(found[i]) \subseteq ToSet(FlattenSeq(found))
<1>1. PICK l \in Nat : DOMAIN items = 1..l
  BY SequenceIs
<1>2. IsSeq(found) /\ DOMAIN found = DOMAIN items
  BY <1>1, SequenceMade
<1>3. QED
  BY <1>2, FlattenHas

LEMMA OnlyIs == \A b, item : IsSeq(Only(b, item))
<1> SUFFICES ASSUME NEW b, NEW item PROVE IsSeq(Only(b, item))
  OBVIOUS
<1>1. IsSeq(<<item>>) /\ IsSeq(<<>>)
  BY TupleIsSeq, NoPlan
<1>2. QED
  BY <1>1 DEF Only

(* The checks of what an artifact refers to find a sequence of failures.   *)
LEMMA FeaturesListed ==
    ASSUME NEW features, IsSeq(features)
    PROVE  IsSeq(evaluate_feature_lineage_completeness(features).failures)
<1> DEFINE found == [i \in DOMAIN features |-> FeatureFailures(features[i])]
<1>1. \A f : IsSeq(FeatureFailures(f))
  BY OnlyIs, ConcatHas DEF FeatureFailures
<1>2. evaluate_feature_lineage_completeness(features).failures = FlattenSeq(found)
  BY DEF evaluate_feature_lineage_completeness, Artifacts, FailuresOf
<1>3. found = [i \in DOMAIN features |-> found[i]] /\ \A i \in DOMAIN features : IsSeq(found[i])
  BY <1>1
<1> HIDE DEF found
<1>4. QED
  BY <1>2, <1>3, FailuresListed

LEMMA FourListed ==
    \A a, b, c, d : IsSeq(a) /\ IsSeq(b) /\ IsSeq(c) /\ IsSeq(d) => IsSeq(a \o b \o c \o d)
<1> SUFFICES ASSUME NEW a, NEW b, NEW c, NEW d, IsSeq(a), IsSeq(b), IsSeq(c), IsSeq(d)
             PROVE  IsSeq(a \o b \o c \o d)
  OBVIOUS
<1>1. PICK x : x = a \o b
  OBVIOUS
<1>2. IsSeq(x)
  BY <1>1, ConcatHas
<1>3. PICK y : y = x \o c
  OBVIOUS
<1>4. IsSeq(y)
  BY <1>2, <1>3, ConcatHas
<1>5. IsSeq(y \o d)
  BY <1>4, ConcatHas
<1>6. QED
  BY <1>1, <1>3, <1>5

LEMMA SignalsListed ==
    ASSUME NEW texts, IsSeq(texts), NEW features
    PROVE  IsSeq(evaluate_signal_generation_validity(texts, features).failures)
<1> DEFINE known == {f.id : f \in ToSet(features)}
           found == [i \in DOMAIN texts |-> SignalFailures(texts[i], known)]
<1>1. \A s : IsSeq(SignalFailures(s, known))
  <2>1. \A s : IsSeq(_evaluate_research_signal_lineage(s, known))
    BY OnlyIs, FourListed DEF _evaluate_research_signal_lineage
  <2>2. QED
    BY <2>1, OnlyIs, ConcatHas DEF SignalFailures
<1>2. evaluate_signal_generation_validity(texts, features).failures = FlattenSeq(found)
  BY DEF evaluate_signal_generation_validity, Artifacts, FailuresOf
<1> HIDE DEF known
<1>3. found = [i \in DOMAIN texts |-> found[i]] /\ \A i \in DOMAIN texts : IsSeq(found[i])
  BY <1>1
<1> HIDE DEF found
<1>4. QED
  BY <1>2, <1>3, FailuresListed

LEMMA VariantsListed ==
    ASSUME NEW variants, IsSeq(variants), NEW known, NEW snapshots
    PROVE  IsSeq(evaluate_variant_signal_validity(variants, known, snapshots).failures)
<1> DEFINE found == [i \in DOMAIN variants |-> _evaluate_variant_signal_lineage(variants[i], known, snapshots)]
<1>1. \A s : IsSeq(_evaluate_variant_signal_lineage(s, known, snapshots))
  BY OnlyIs, FourListed DEF _evaluate_variant_signal_lineage
<1>2. evaluate_variant_signal_validity(variants, known, snapshots).failures = FlattenSeq(found)
  BY DEF evaluate_variant_signal_validity, Artifacts, FailuresOf
<1>3. found = [i \in DOMAIN variants |-> found[i]] /\ \A i \in DOMAIN variants : IsSeq(found[i])
  BY <1>1
<1> HIDE DEF found
<1>4. QED
  BY <1>2, <1>3, FailuresListed

LEMMA BacktestsListed ==
    ASSUME NEW children, IsSeq(children), NEW recorded
    PROVE  IsSeq(evaluate_backtest_artifact_completeness(children, recorded).failures)
<1> DEFINE found == [i \in DOMAIN children |-> BacktestFailures(children[i], recorded)]
<1>1. ASSUME NEW v PROVE IsSeq(BacktestFailures(v, recorded))
  <2>1. PICK a, b, c, d :
          /\ a = Only(None \in SnapshotsOf(v.run), Failure("incomplete_config", v.run.id, "high", TRUE))
          /\ b = Only(v.run.summary # v.summary.id, Failure("broken_lineage", v.run.id, "high", TRUE))
          /\ c = Only(v.benchmarks = {}, Failure("empty_output", v.run.id, "high", TRUE))
          /\ d = IF recorded THEN LinkageFailures(v) ELSE <<>>
    OBVIOUS
  <2>2. IsSeq(LinkageFailures(v))
    <3>1. PICK x, y, z :
            /\ x = Only(~NamesItsExperiment(v), Failure("incomplete_config", v.run.id, "high", TRUE))
            /\ y = Only(v.datasets = {}, Failure("incomplete_config", v.run.id, "high", TRUE))
            /\ z = Only(v.datasets # {} /\ ~(SnapshotsOf(v.run) \subseteq LinkedSnapshots(v)),
                        Failure("broken_lineage", v.run.id, "high", TRUE))
      OBVIOUS
    <3>2. PICK w : w = x \o y
      OBVIOUS
    <3>3. IsSeq(x) /\ IsSeq(y) /\ IsSeq(z)
      BY <3>1, OnlyIs
    <3>4. IsSeq(w)
      BY <3>2, <3>3, ConcatHas
    <3>5. IsSeq(w \o z)
      BY <3>3, <3>4, ConcatHas
    <3>6. LinkageFailures(v) = w \o z
      BY <3>1, <3>2 DEF LinkageFailures
    <3>7. QED
      BY <3>5, <3>6
  <2>3. IsSeq(a) /\ IsSeq(b) /\ IsSeq(c) /\ IsSeq(d)
    BY <2>1, <2>2, OnlyIs, NoPlan
  <2>4. BacktestFailures(v, recorded) = a \o b \o c \o d
    BY <2>1 DEF BacktestFailures
  <2>5. QED
    BY <2>3, <2>4, FourListed
<1>2. evaluate_backtest_artifact_completeness(children, recorded).failures = FlattenSeq(found)
  BY DEF evaluate_backtest_artifact_completeness, Artifacts, FailuresOf
<1>3. found = [i \in DOMAIN children |-> found[i]] /\ \A i \in DOMAIN children : IsSeq(found[i])
  BY <1>1
<1> HIDE DEF found
<1>4. QED
  BY <1>2, <1>3, FailuresListed

LEMMA ComparisonListed ==
    ASSUME NEW asked, NEW result, NEW children
    PROVE  IsSeq(evaluate_strategy_comparison_output(asked, result, children).failures)
<1> DEFINE observed == [i \in DOMAIN result.rows |-> result.rows[i].family]
           Fails(b, kind) == Only(b, Failure(kind, result.id, "high", TRUE))
<1>1. PICK a, b, c, d, e :
        /\ a = Fails(result.rows = <<>>, "empty_output")
        /\ b = Fails(~IsInjective(observed) \/ ToSet(observed) # ToSet(asked.families),
                     "incomplete_config")
        /\ c = Fails(result.metric # asked.metric, "incomplete_config")
        /\ d = Fails(asked.record /\ \E r \in ToSet(result.rows) : r.experiment = None,
                     "incomplete_config")
        /\ e = Fails(~({r.run : r \in ToSet(result.rows)} \subseteq {v.run.id : v \in ToSet(children)}),
                     "broken_lineage")
  OBVIOUS
<1>2. IsSeq(a) /\ IsSeq(b) /\ IsSeq(c) /\ IsSeq(d) /\ IsSeq(e)
  BY <1>1, OnlyIs
<1>3. PICK f : f = a \o b \o c \o d
  OBVIOUS
<1>4. IsSeq(f)
  BY <1>2, <1>3, FourListed
<1>5. IsSeq(f \o e)
  BY <1>2, <1>4, ConcatHas
<1>6. evaluate_strategy_comparison_output(asked, result, children).failures = f \o e
  BY <1>1, <1>3 DEF evaluate_strategy_comparison_output, Artifacts
<1>7. QED
  BY <1>5, <1>6

(* An artifact without a link is a blocking failure of the provenance.     *)
LEMMA UnlinkedFails ==
    ASSUME NEW artifacts, IsSeq(artifacts), NEW x \in ToSet(artifacts), x.prov = Stamped, NEW target
    PROVE  LET failures == evaluate_provenance_completeness(target, artifacts).failures
           IN  IsSeq(failures) /\ \E f \in ToSet(failures) : f.blocking
<1> DEFINE Lacks(a) == _provenance_failures(a) # {}
           Find(a) == Only(Lacks(a), Failure("missing_provenance", a.id, "high", TRUE))
           found == [i \in DOMAIN artifacts |-> Find(artifacts[i])]
<1>1. PICK i \in DOMAIN artifacts : artifacts[i] = x
  BY PlaceOf
<1>2. artifacts # <<>>
  <2>1. DOMAIN <<>> = {}
    OBVIOUS
  <2>2. QED
    BY <1>1, <2>1
<1>3. evaluate_provenance_completeness(target, artifacts).failures = FlattenSeq(found)
  BY <1>2 DEF evaluate_provenance_completeness, Artifacts, FailuresOf
<1>4. Lacks(x)
  BY DEF _provenance_failures, Stamped
<1>5. PICK f : f = Failure("missing_provenance", x.id, "high", TRUE)
  OBVIOUS
<1>6. f.blocking
  BY <1>5 DEF Failure
<1>7. found[i] = <<f>>
  BY <1>1, <1>4, <1>5 DEF Only
<1>8. f \in ToSet(found[i])
  <2>1. f \in ToSet(<<f>>)
    BY DEF ToSet
  <2> HIDE DEF found
  <2>2. QED
    BY <1>7, <2>1
<1>9. found = [j \in DOMAIN artifacts |-> found[j]] /\ \A j \in DOMAIN artifacts : IsSeq(found[j])
  BY OnlyIs
<1> HIDE DEF found
<1>10. IsSeq(FlattenSeq(found)) /\ ToSet(found[i]) \subseteq ToSet(FlattenSeq(found))
  BY <1>1, <1>9, FailuresListed
<1>11. QED
  BY <1>3, <1>6, <1>8, <1>10

(* The prices are traced to nothing, so that every comparison fails its    *)
(* evaluation and calls for attention.                                     *)
LEMMA AlwaysFails ==
    ASSUME IInv, ListedInv, n >= 1
    PROVE  /\ EvaluationReport = FailedReport
           /\ derive_ablation_run_status(EvaluationReport, _evaluate_ablation_bundle) = "attention_required"
<1>1. PICK texts, features, variants, artifacts :
        /\ texts = InSomeOrder(TextSignals(research)) /\ features = InSomeOrder(research.features)
        /\ variants = InSomeOrder(UNION {v.signals : v \in ToSet(runs)})
        /\ artifacts = InSomeOrder(provenance_artifacts)
  OBVIOUS
<1>2. /\ IsSeq(texts) /\ IsSeq(features) /\ IsSeq(variants) /\ IsSeq(runs)
      /\ IsSeq(artifacts) /\ ToSet(artifacts) = provenance_artifacts
  BY <1>1, EvaluatedFinite, OrderHas
<1>3. PICK x \in provenance_artifacts : x.prov = Stamped
  <2>1. PICK x : x = [id |-> <<"snapshots", PriceSnapshot.id>>, prov |-> PriceSnapshot.prov]
    OBVIOUS
  <2>2. x \in Proven("snapshots", {ResearchSnapshot(research), PriceSnapshot})
    BY <2>1 DEF Proven
  <2>3. x \in provenance_artifacts
    BY <2>2 DEF provenance_artifacts
  <2>4. PriceSnapshot.prov = Stamped
    BY DEF PriceSnapshot, Snapshot
  <2>5. QED
    BY <2>1, <2>3, <2>4
<1>4. PICK found : found = evaluate_provenance_completeness("ablation_result", artifacts).failures
  OBVIOUS
<1>5. IsSeq(found) /\ \E f \in ToSet(found) : f.blocking
  BY <1>2, <1>3, <1>4, UnlinkedFails
<1>6. PICK checks : checks = Evaluations
  OBVIOUS
<1>7. DOMAIN checks = 1..6 /\ checks[1].failures = found /\ \A i \in 1..6 : IsSeq(checks[i].failures)
  <2>1. PICK ids, both : ids = {t.id : t \in ToSet(texts)} /\ both = {"research", "prices"}
    OBVIOUS
  <2>2. checks = <<evaluate_provenance_completeness("ablation_result", artifacts),
                   evaluate_feature_lineage_completeness(features),
                   evaluate_signal_generation_validity(texts, features),
                   evaluate_variant_signal_validity(variants, ids, both),
                   evaluate_backtest_artifact_completeness(runs, config.record),
                   evaluate_strategy_comparison_output(config, AblationResult, runs)>>
    BY <1>1, <1>6, <2>1 DEF Evaluations
  <2>3. PICK b, c, d, e, f : /\ b = evaluate_feature_lineage_completeness(features)
                             /\ c = evaluate_signal_generation_validity(texts, features)
                             /\ d = evaluate_variant_signal_validity(variants, ids, both)
                             /\ e = evaluate_backtest_artifact_completeness(runs, config.record)
                             /\ f = evaluate_strategy_comparison_output(config, AblationResult, runs)
    OBVIOUS
  <2>4. PICK a : a = evaluate_provenance_completeness("ablation_result", artifacts)
    OBVIOUS
  <2>5. checks = <<a, b, c, d, e, f>> /\ a.failures = found
    BY <1>4, <2>2, <2>3, <2>4
  <2>6. /\ IsSeq(b.failures) /\ IsSeq(c.failures) /\ IsSeq(d.failures)
        /\ IsSeq(e.failures) /\ IsSeq(f.failures)
    BY <1>2, <2>3, FeaturesListed, SignalsListed, VariantsListed, BacktestsListed, ComparisonListed
  <2>7. QED
    BY <1>5, <2>5, <2>6
<1>8. PICK each : each = [i \in 1..6 |-> checks[i].failures]
  OBVIOUS
<1>9. IsSeq(FlattenSeq(each)) /\ ToSet(found) \subseteq ToSet(FlattenSeq(each))
  <2>1. PICK l \in Nat : l = 6
    OBVIOUS
  <2>2. each = [i \in 1..l |-> each[i]]
    BY <1>8, <2>1
  <2>3. IsSeq(each) /\ DOMAIN each = 1..l
    BY <2>1, <2>2, SequenceMade
  <2>4. \A i \in DOMAIN each : IsSeq(each[i])
    BY <1>7, <1>8
  <2>5. 1 \in DOMAIN each /\ each[1] = found
    BY <1>7, <1>8
  <2>6. QED
    BY <2>3, <2>4, <2>5, FlattenHas
<1>10. PICK bundle : bundle = _evaluate_ablation_bundle
  OBVIOUS
<1>11. bundle.failures = FlattenSeq(each)
  <2>1. PICK e : e = extend(checks)
    OBVIOUS
  <2>2. e.failures = FlattenSeq(each) /\ DOMAIN e = {"failures", "metrics", "robustness"}
    BY <1>7, <1>8, <2>1 DEF extend
  <2>3. bundle = [e EXCEPT !.robustness = RobustnessChecks]
    BY <1>6, <1>10, <2>1 DEF _evaluate_ablation_bundle
  <2>4. QED
    BY <2>2, <2>3
<1>12. \E i \in DOMAIN bundle.failures : bundle.failures[i].blocking
  BY <1>5, <1>9, <1>11, PlaceOf
<1>13. derive_overall_status(bundle) = "fail"
  BY <1>12 DEF derive_overall_status
<1>14. EvaluationReport = FailedReport
  BY <1>10, <1>13 DEF EvaluationReport, FailedReport
<1>15. QED
  BY <1>10, <1>12, <1>14 DEF derive_ablation_run_status

-----------------------------------------------------------------------------
(* What a plan reports.                                                    *)

(* Of the writes that report on a run, a plan has these at most.           *)
Reporting == {"ablation_results", "reports", "run_summaries", "events"}
Reports(writes, S) ==
    /\ IsSeq(writes)
    /\ \A i \in DOMAIN writes : writes[i].category \in Reporting => writes[i] \in S

(* A plan without writes reports nothing.                                  *)
LEMMA ReportsNothing == \A S : Reports(<<>>, S) /\ ToSet(<<>>) = {}
BY NoPlan DEF Reports, ToSet

(* What two plans, one after the other, report.                            *)
LEMMA ReportsJoin ==
    ASSUME NEW S, NEW a, Reports(a, S), NEW b, Reports(b, S)
    PROVE  Reports(a \o b, S) /\ ToSet(a \o b) = ToSet(a) \cup ToSet(b)
<1>1. PICK c : c = a \o b
  OBVIOUS
<1>2. /\ IsSeq(c) /\ Len(a) \in Nat /\ Len(b) \in Nat
      /\ DOMAIN a = 1..Len(a) /\ DOMAIN b = 1..Len(b) /\ DOMAIN c = 1..(Len(a) + Len(b))
      /\ \A i \in 1..Len(a) : c[i] = a[i]
      /\ \A i \in 1..Len(b) : c[Len(a) + i] = b[i]
  BY <1>1, Concatenated DEF Reports
<1>3. \A i \in DOMAIN c : (i \in DOMAIN a /\ c[i] = a[i]) \/ \E j \in DOMAIN b : c[i] = b[j]
  <2> SUFFICES ASSUME NEW i \in DOMAIN c, i \notin DOMAIN a PROVE \E j \in DOMAIN b : c[i] = b[j]
    BY <1>2
  <2>1. i \in 1..(Len(a) + Len(b)) /\ i \notin 1..Len(a)
    BY <1>2
  <2>2. i - Len(a) \in 1..Len(b) /\ Len(a) + (i - Len(a)) = i
    BY <1>2, <2>1
  <2>3. QED
    BY <1>2, <2>2
<1>4. \A i \in DOMAIN a : \E k \in DOMAIN c : c[k] = a[i]
  BY <1>2
<1>5. \A i \in DOMAIN b : \E k \in DOMAIN c : c[k] = b[i]
  <2> SUFFICES ASSUME NEW i \in DOMAIN b PROVE \E k \in DOMAIN c : c[k] = b[i]
    OBVIOUS
  <2>1. Len(a) + i \in 1..(Len(a) + Len(b))
    BY <1>2
  <2>2. QED
    BY <1>2, <2>1
<1>6. Reports(c, S)
  BY <1>2, <1>3 DEF Reports
<1>7. ToSet(c) = ToSet(a) \cup ToSet(b)
  BY <1>3, <1>4, <1>5 DEF ToSet
<1>8. QED
  BY <1>1, <1>6, <1>7

(* Writes of other categories, one by one.                                 *)
LEMMA ReportsNone ==
    ASSUME NEW S
    PROVE  /\ \A c, i : c \notin Reporting => Reports(<<Write(c, i)>>, S)
           /\ \A c, i, d, j : c \notin Reporting /\ d \notin Reporting =>
                Reports(<<Write(c, i), Write(d, j)>>, S)
           /\ \A c, i, d, j, e, k : c \notin Reporting /\ d \notin Reporting /\ e \notin Reporting =>
                Reports(<<Write(c, i), Write(d, j), Write(e, k)>>, S)
           /\ \A c, i, d, j, e, k, f, l :
                c \notin Reporting /\ d \notin Reporting /\ e \notin Reporting /\ f \notin Reporting =>
                Reports(<<Write(c, i), Write(d, j), Write(e, k), Write(f, l)>>, S)
<1>1. \A c, i : Write(c, i).category = c
  BY DEF Write
<1>2. \A a : a.category \notin Reporting => Reports(<<a>>, S)
  BY TupleIsSeq DEF Reports
<1>3. \A a, b : a.category \notin Reporting /\ b.category \notin Reporting => Reports(<<a, b>>, S)
  BY TupleIsSeq DEF Reports
<1>4. \A a, b, c : a.category \notin Reporting /\ b.category \notin Reporting /\ c.category \notin Reporting
                     => Reports(<<a, b, c>>, S)
  BY TupleIsSeq DEF Reports
<1>5. \A a, b, c, d : /\ a.category \notin Reporting /\ b.category \notin Reporting
                      /\ c.category \notin Reporting /\ d.category \notin Reporting
                     => Reports(<<a, b, c, d>>, S)
  BY TupleIsSeq DEF Reports
<1>6. QED
  BY <1>1, <1>2, <1>3, <1>4, <1>5

(* Most categories report nothing on a run.                                *)
LEMMA NotReporting ==
    \A c \in {"realism", "configs", "snapshots", "decisions", "performance_summaries", "benchmarks",
              "runs", "gates", "experiment_configs", "run_contexts", "dataset_manifests",
              "dataset_references", "experiments", "experiment_artifacts", "experiment_metrics",
              "audit", "scorecards", "metrics", "failure_cases", "robustness_checks",
              "comparison_summaries", "definitions", "source_snapshots", "variant_signals"} :
        c \notin Reporting
BY DEF Reporting

(* The registry reports nothing.                                           *)
LEMMA RegistryReports ==
    ASSUME NEW S
    PROVE  /\ \A e, artifacts, metrics : Reports(finalize_experiment(e, artifacts, metrics), S)
           /\ \A e : Reports(append_experiment_context(e), S)
<1>1. \A e, artifacts, metrics : Reports(finalize_experiment(e, artifacts, metrics), S)
  <2> SUFFICES ASSUME NEW e, NEW artifacts, NEW metrics
               PROVE  Reports(finalize_experiment(e, artifacts, metrics), S)
    OBVIOUS
  <2>1. PICK i : finalize_experiment(e, artifacts, metrics) =
           <<Write("experiment_artifacts", artifacts), Write("experiment_metrics", metrics),
             Write("experiments", i)>>
    BY DEF finalize_experiment
  <2>2. QED
    BY <2>1, ReportsNone, NotReporting
<1>2. \A e : Reports(append_experiment_context(e), S)
  <2> SUFFICES ASSUME NEW e PROVE Reports(append_experiment_context(e), S)
    OBVIOUS
  <2>1. PICK i, j, k : append_experiment_context(e) =
           <<Write("scorecards", i), Write("experiment_artifacts", j), Write("experiments", k)>>
    BY DEF append_experiment_context
  <2>2. QED
    BY <2>1, ReportsNone, NotReporting
<1>3. QED
  BY <1>1, <1>2

Begins(e, datasets, manifests, S) ==
    \E w : \E raises \in BOOLEAN :
        begin_experiment(e, datasets, manifests) = Plan(w, raises) /\ Reports(w, S)

(* The opening of an experiment reports nothing.                           *)
LEMMA BeginsReports ==
    ASSUME NEW S, NEW e, NEW datasets, NEW manifests
    PROVE  Begins(e, datasets, manifests, S)
<1>1. PICK spoken, b, i, j, k, l :
        /\ spoken = <<Write("gates", i)>>
        /\ begin_experiment(e, datasets, manifests) =
             IF b THEN Plan(spoken, TRUE)
             ELSE Plan(spoken \o <<Write("experiment_configs", j), Write("run_contexts", k),
                                   Write("dataset_manifests", manifests),
                                   Write("dataset_references", datasets),
                                   Write("experiments", l)>>, FALSE)
  BY DEF begin_experiment
<1>2. Reports(spoken, S)
  BY <1>1, ReportsNone, NotReporting
<1>3. PICK rest : rest = <<Write("experiment_configs", j), Write("run_contexts", k),
                           Write("dataset_manifests", manifests),
                           Write("dataset_references", datasets), Write("experiments", l)>>
  OBVIOUS
<1>4. Reports(rest, S)
  <2>1. rest = <<Write("experiment_configs", j), Write("run_contexts", k),
                 Write("dataset_manifests", manifests), Write("dataset_references", datasets)>>
               \o <<Write("experiments", l)>>
    BY <1>3, ChainedFive
  <2>2. QED
    BY <2>1, ReportsNone, NotReporting, ReportsJoin
<1>5. Reports(spoken \o rest, S)
  BY <1>2, <1>4, ReportsJoin
<1>6. TRUE \in BOOLEAN /\ FALSE \in BOOLEAN
  OBVIOUS
<1>7. QED
  BY <1>1, <1>2, <1>3, <1>5, <1>6 DEF Begins

(* Neither does a child.                                                   *)
LEMMA ChildReports ==
    ASSUME NEW S, NEW family
    PROVE  \E w : \E raises \in BOOLEAN :
             run_backtest_workflow(family) = Plan(w, raises) /\ Reports(w, S)
<1>1. Reports(InputWrites(family), S)
  <2>1. PICK i, j, k : InputWrites(family) =
           <<Write("realism", i), Write("configs", j), Write("snapshots", k)>>
    BY DEF InputWrites
  <2>2. QED
    BY <2>1, ReportsNone, NotReporting
<1>2. Reports(OutputWrites(family), S)
  <2>1. PICK i, j, k, l : OutputWrites(family) =
           <<Write("decisions", i), Write("performance_summaries", j), Write("benchmarks", k),
             Write("runs", l)>>
    BY DEF OutputWrites
  <2>2. /\ "decisions" \notin Reporting /\ "performance_summaries" \notin Reporting
        /\ "benchmarks" \notin Reporting /\ "runs" \notin Reporting
    BY DEF Reporting
  <2>3. Reports(<<Write("decisions", i), Write("performance_summaries", j), Write("benchmarks", k),
                  Write("runs", l)>>, S)
    BY <2>2, ReportsNone, Zenon
  <2>4. QED
    BY <2>1, <2>3
<1>3. PICK i, j : /\ Audit("backtest_completed", family) = Write("audit", i)
                  /\ Audit("experiment_completed", family) = Write("audit", j)
  BY DEF Audit
<1>4. Reports(<<Write("audit", i)>>, S) /\ Reports(<<Write("audit", i), Write("audit", j)>>, S)
  BY ReportsNone, NotReporting
<1>5. CASE ~ config.record
  <2>1. run_backtest_workflow(family) =
          Plan(InputWrites(family) \o OutputWrites(family) \o <<Write("audit", i)>>, FALSE)
    BY <1>3, <1>5 DEF run_backtest_workflow
  <2>2. Reports(InputWrites(family) \o OutputWrites(family) \o <<Write("audit", i)>>, S)
    BY <1>1, <1>2, <1>4, ReportsJoin
  <2>3. QED
    BY <2>1, <2>2
<1>6. CASE config.record
  <2> DEFINE e == ChildExperiment(family)
             datasets == _build_dataset_registry_records(family)
             manifests == {[id |-> d.manifest] : d \in datasets}
             rest == RecordedRest(family)
  <2>1. Reports(rest, S)
    <3>1. PICK a, b, c, d :
            /\ a = OutputWrites(family) /\ c = <<Write("audit", i), Write("audit", j)>>
            /\ b = finalize_experiment(ChildExperiment(family),
                     _build_experiment_artifacts(family, ChildExperiment(family)), ChildMetrics(family))
            /\ d = append_experiment_context(ChildCompleted(family))
      OBVIOUS
    <3>2. Reports(a, S) /\ Reports(b, S) /\ Reports(c, S) /\ Reports(d, S)
      BY <1>2, <1>4, <3>1, RegistryReports
    <3>3. Reports(a \o b \o c \o d, S)
      BY <3>2, ReportsJoin
    <3>4. RecordedRest(family) = a \o b \o c \o d
      BY <1>3, <3>1 DEF RecordedRest
    <3>5. QED
      BY <3>3, <3>4
  <2>2. run_backtest_workflow(family) =
          InTurn(<<Plan(InputWrites(family), FALSE),
                   begin_experiment(e, datasets, manifests), Plan(rest, FALSE)>>)
    BY <1>6 DEF run_backtest_workflow, RecordedRest
  <2> HIDE DEF e, datasets, manifests, rest
  <2>a. PICK w : \E raises \in BOOLEAN :
          begin_experiment(e, datasets, manifests) = Plan(w, raises) /\ Reports(w, S)
    BY BeginsReports DEF Begins
  <2>3. PICK raises \in BOOLEAN :
          begin_experiment(e, datasets, manifests) = Plan(w, raises) /\ Reports(w, S)
    BY <2>a
  <2>4. CASE raises
    <3>1. raises = TRUE
      BY <2>4
    <3>a. InTurn(<<Plan(InputWrites(family), FALSE), Plan(w, TRUE), Plan(rest, FALSE)>>)
            = Plan(InputWrites(family) \o w, TRUE)
      BY InTurnStops, Zenon
    <3>b. begin_experiment(e, datasets, manifests) = Plan(w, TRUE)
      BY <2>3, <3>1, Zenon
    <3>2. run_backtest_workflow(family) = Plan(InputWrites(family) \o w, TRUE)
      BY <2>2, <3>a, <3>b, Zenon
    <3>3. Reports(InputWrites(family) \o w, S) /\ TRUE \in BOOLEAN
      BY <1>1, <2>3, ReportsJoin
    <3>4. QED
      BY <3>2, <3>3
  <2>5. CASE ~ raises
    <3>1. raises = FALSE
      BY <2>5
    <3>a. InTurn(<<Plan(InputWrites(family), FALSE), Plan(w, FALSE), Plan(rest, FALSE)>>)
            = Plan(InputWrites(family) \o w \o rest, FALSE)
      BY InTurnGoesOn, Zenon
    <3>b. begin_experiment(e, datasets, manifests) = Plan(w, FALSE)
      BY <2>3, <3>1, Zenon
    <3>2. run_backtest_workflow(family) = Plan(InputWrites(family) \o w \o rest, FALSE)
      BY <2>2, <3>a, <3>b, Zenon
    <3>3. Reports(InputWrites(family) \o w \o rest, S) /\ FALSE \in BOOLEAN
      BY <1>1, <2>1, <2>3, ReportsJoin
    <3>4. QED
      BY <3>2, <3>3
  <2>6. QED
    BY <2>4, <2>5
<1>7. QED
  BY <1>5, <1>6

(* The comparison reports the result and the evaluation: both of them,     *)
(* unless the registry refuses the experiment.                             *)
ResultWrite == Write("ablation_results", {AblationResult})
ReportWrite == Write("reports", {FailedReport})
Spoken == {ResultWrite, ReportWrite}

(* The evaluation writes its report.                                       *)
LEMMA EvaluationReports ==
    ASSUME EvaluationReport = FailedReport
    PROVE  /\ Reports(evaluate_strategy_ablation, Spoken)
           /\ ReportWrite \in ToSet(evaluate_strategy_ablation)
<1> DEFINE checks == [i \in DOMAIN Evaluations |-> Write("metrics", Evaluations[i].metrics)]
           first == <<Write("failure_cases", FailureIds(_evaluate_ablation_bundle.failures)),
                     Write("robustness_checks", RobustnessChecks),
                     Write("comparison_summaries", {[id |-> "summary", order |-> AblationResult.rows]})>>
           last == <<Write("failure_cases", FailureIds(_evaluate_ablation_bundle.failures)),
                     Write("robustness_checks", RobustnessChecks),
                     Write("comparison_summaries", {[id |-> "summary", order |-> AblationResult.rows]}),
                     Write("reports", {EvaluationReport})>>
<1>1. evaluate_strategy_ablation = checks \o last
  BY DEF evaluate_strategy_ablation
<1>2. Reports(checks, Spoken)
  <2>1. PICK s : s = checks
    OBVIOUS
  <2>2. DOMAIN s = 1..6 /\ \A i \in DOMAIN s : s[i].category = "metrics"
    BY <2>1 DEF Evaluations, Write
  <2>3. IsSeq(s)
    <3>1. s \in [1..6 -> ToSet(s)]
      BY <2>1, <2>2 DEF ToSet
    <3>2. PICK k, T : k \in Nat /\ k = 6 /\ T = ToSet(s)
      OBVIOUS
    <3>3. s \in [1..k -> T]
      BY <3>1, <3>2
    <3> HIDE DEF checks, last
    <3>4. s \in Seq(T)
      <4>1. k \in Nat
        BY <3>2
      <4>2. QED
        BY <3>3, <4>1
    <3>5. QED
      BY <3>2, <3>4 DEF IsSeq
  <2>4. "metrics" \notin Reporting
    BY NotReporting
  <2>5. QED
    BY <2>1, <2>2, <2>3, <2>4 DEF Reports
<1>3. Reports(last, Spoken) /\ ReportWrite \in ToSet(last)
  <2>1. PICK i, j, k : first = <<Write("failure_cases", i), Write("robustness_checks", j),
                                 Write("comparison_summaries", k)>>
    OBVIOUS
  <2>2. Reports(first, Spoken)
    BY <2>1, ReportsNone, NotReporting
  <2>3. last = first \o <<ReportWrite>>
    BY ChainedFour DEF ReportWrite
  <2>4. Reports(<<ReportWrite>>, Spoken) /\ ReportWrite \in ToSet(<<ReportWrite>>)
    BY TupleIsSeq DEF Reports, Spoken, ToSet
  <2> HIDE DEF first, last
  <2>5. QED
    BY <2>2, <2>3, <2>4, ReportsJoin
<1> HIDE DEF checks, last
<1>4. QED
  BY <1>1, <1>2, <1>3, ReportsJoin

(* So does what comes after the result.                                    *)
LEMMA RestReports ==
    ASSUME EvaluationReport = FailedReport
    PROVE  Reports(RestOfComparison, Spoken) /\ ReportWrite \in ToSet(RestOfComparison)
<1>1. PICK b : b = IF Recorded THEN append_experiment_context(ParentCompleted) ELSE <<>>
  OBVIOUS
<1>2. PICK d : d = IF Recorded THEN <<Audit("experiment_completed", "ablation")>> ELSE <<>>
  OBVIOUS
<1>3. PICK i, j, k : /\ Audit("ablation_completed", "ablation") = Write("audit", i)
                     /\ Audit("evaluation_completed", "report") = Write("audit", j)
                     /\ Audit("experiment_completed", "ablation") = Write("audit", k)
  BY DEF Audit
<1>4. Reports(b, Spoken)
  BY <1>1, RegistryReports, ReportsNothing
<1>5. Reports(d, Spoken)
  BY <1>2, <1>3, ReportsNone, NotReporting, ReportsNothing
<1>6. PICK a, c : a = evaluate_strategy_ablation /\ c = <<Write("audit", i), Write("audit", j)>>
  OBVIOUS
<1>7. Reports(a, Spoken) /\ ReportWrite \in ToSet(a) /\ Reports(c, Spoken)
  BY <1>6, EvaluationReports, ReportsNone, NotReporting
<1>8. RestOfComparison = a \o b \o c \o d
  BY <1>1, <1>2, <1>3, <1>6 DEF RestOfComparison
<1>9. Reports(a \o b \o c \o d, Spoken) /\ ReportWrite \in ToSet(a \o b \o c \o d)
  <2>1. Reports(a \o b, Spoken) /\ ReportWrite \in ToSet(a \o b)
    BY <1>4, <1>7, ReportsJoin
  <2>2. Reports(a \o b \o c, Spoken) /\ ReportWrite \in ToSet(a \o b \o c)
    BY <1>7, <2>1, ReportsJoin
  <2>3. QED
    BY <1>5, <2>2, ReportsJoin
<1>10. QED
  BY <1>8, <1>9

(* The comparison writes both, unless it is refused before.                *)
LEMMA ComparisonReports ==
    ASSUME EvaluationReport = FailedReport
    PROVE  \E w : \E raises \in BOOLEAN :
             /\ Comparison = Plan(w, raises) /\ Reports(w, Spoken)
             /\ raises \/ Spoken \subseteq ToSet(w)
<1> DEFINE result == <<Write("ablation_results", {AblationResult})>>
           rest == RestOfComparison
<1>1. Reports(result, Spoken) /\ ResultWrite \in ToSet(result)
  BY SMTT(40), TupleIsSeq DEF Reports, Spoken, ToSet, ResultWrite
<1>2. PICK w : \E raises \in BOOLEAN : ParentPlan = Plan(w, raises) /\ Reports(w, Spoken)
  <2>1. CASE ~ Recorded
    <3>1. ParentPlan = Plan(<<>>, FALSE) /\ FALSE \in BOOLEAN
      BY <2>1 DEF ParentPlan
    <3>2. QED
      BY <3>1, ReportsNothing
  <2>2. CASE Recorded
    <3> DEFINE e == ParentExperiment
               last == finalize_experiment(e, ParentArtifacts, ParentMetrics)
    <3>1. ParentPlan = InTurn(<<begin_experiment(e, Datasets, {}), Plan(last, FALSE)>>)
      BY <2>2 DEF ParentPlan, ParentArtifacts, ParentMetrics
    <3>2. Reports(last, Spoken)
      BY RegistryReports
    <3> HIDE DEF e, last
    <3>a. PICK a : \E stops \in BOOLEAN :
            begin_experiment(e, Datasets, {}) = Plan(a, stops) /\ Reports(a, Spoken)
      BY BeginsReports DEF Begins
    <3>3. PICK stops \in BOOLEAN :
            begin_experiment(e, Datasets, {}) = Plan(a, stops) /\ Reports(a, Spoken)
      BY <3>a
    <3>4. CASE stops
      <4>1. stops = TRUE
        BY <3>4
      <4>a. InTurn(<<Plan(a, TRUE), Plan(last, FALSE)>>) = Plan(a, TRUE)
        BY FirstRaises, Zenon
      <4>b. begin_experiment(e, Datasets, {}) = Plan(a, TRUE)
        BY <3>3, <4>1, Zenon
      <4>2. ParentPlan = Plan(a, TRUE) /\ TRUE \in BOOLEAN
        BY <3>1, <4>a, <4>b, Zenon
      <4>3. QED
        BY <3>3, <4>2
    <3>5. CASE ~ stops
      <4>1. stops = FALSE
        BY <3>5
      <4>a. InTurn(<<Plan(a, FALSE), Plan(last, FALSE)>>) = Plan(a \o last, FALSE)
        BY BothInTurn, Zenon
      <4>b. begin_experiment(e, Datasets, {}) = Plan(a, FALSE)
        BY <3>3, <4>1, Zenon
      <4>2. ParentPlan = Plan(a \o last, FALSE) /\ FALSE \in BOOLEAN
        BY <3>1, <4>a, <4>b, Zenon
      <4>3. Reports(a \o last, Spoken)
        BY <3>2, <3>3, ReportsJoin
      <4>4. QED
        BY <4>2, <4>3
    <3>6. QED
      BY <3>4, <3>5
  <2>3. QED
    BY <2>1, <2>2
<1>a. PICK raises \in BOOLEAN : ParentPlan = Plan(w, raises) /\ Reports(w, Spoken)
  BY <1>2
<1>b. Comparison = InTurn(<<Plan(result, FALSE), ParentPlan, Plan(rest, FALSE)>>)
  BY DEF Comparison
<1>4. Reports(rest, Spoken) /\ ReportWrite \in ToSet(rest)
  BY RestReports
<1> HIDE DEF result, rest
<1>5. CASE raises
  <2>1. raises = TRUE
    BY <1>5
  <2>a. InTurn(<<Plan(result, FALSE), Plan(w, TRUE), Plan(rest, FALSE)>>) = Plan(result \o w, TRUE)
    BY InTurnStops, Zenon
  <2>b. ParentPlan = Plan(w, TRUE)
    BY <1>a, <2>1, Zenon
  <2>2. Comparison = Plan(result \o w, TRUE) /\ TRUE \in BOOLEAN
    BY <1>b, <2>a, <2>b, Zenon
  <2>3. Reports(result \o w, Spoken)
    BY <1>1, <1>a, ReportsJoin
  <2>4. QED
    BY <2>2, <2>3
<1>6. CASE ~ raises
  <2>1. raises = FALSE
    BY <1>6
  <2>a. InTurn(<<Plan(result, FALSE), Plan(w, FALSE), Plan(rest, FALSE)>>)
          = Plan(result \o w \o rest, FALSE)
    BY InTurnGoesOn, Zenon
  <2>b. ParentPlan = Plan(w, FALSE)
    BY <1>a, <2>1, Zenon
  <2>2. Comparison = Plan(result \o w \o rest, FALSE) /\ FALSE \in BOOLEAN
    BY <1>b, <2>a, <2>b, Zenon
  <2>3. Reports(result \o w, Spoken) /\ ResultWrite \in ToSet(result \o w)
    BY <1>1, <1>a, ReportsJoin
  <2>4. Reports(result \o w \o rest, Spoken) /\ ToSet(result \o w \o rest) = ToSet(result \o w) \cup ToSet(rest)
    BY <1>4, <2>3, ReportsJoin
  <2>5. Spoken \subseteq ToSet(result \o w \o rest)
    BY <1>4, <2>3, <2>4 DEF Spoken
  <2>6. QED
    BY <2>2, <2>4, <2>5
<1>7. QED
  BY <1>5, <1>6

-----------------------------------------------------------------------------
(* What a run says when it ends.                                           *)

Called == "attention_required"
Early == {"starting"} \cup Guarded
Summary(status) == [id |-> n, status |-> status]
MaySay(w) ==
    \/ pc = "starting" /\ w = Event("run_started")
    \/ pc = "concluding" /\ w \in Spoken
    \/ pc = "reporting" /\ w \in {Event("run_completed"), Event(Called), RunSummary(Called)}
    \/ pc = "failing" /\ w \in {Event("run_failed"), RunSummary("failed")}
(* Of what is still to be written, a stage reports only what is its own,   *)
(* and the summary of the run last.                                        *)
SpokenInv ==
    /\ \A i \in DOMAIN work.writes :
         /\ work.writes[i].category \in Reporting => MaySay(work.writes[i])
         /\ work.writes[i].category = "run_summaries" => i = Len(work.writes)
    /\ work.raises => pc \in Guarded

ResultsInv ==
    /\ \A c \in files.ablation_results : ResultOK(c)
    /\ \A p \in files.reports : p.status = "fail"
(* A run that ended well has a result and a report, of its own or of a     *)
(* later run, and calls for attention.                                     *)
EndedOK(s, results, reports, events) ==
    /\ \E c \in results : c.n >= s.id
    /\ \E p \in reports : p.n >= s.id
    /\ s.status = Called /\ <<s.id, Called>> \in events
SummariesInv ==
    \A s \in files.run_summaries :
        /\ s.id \in Nat /\ s.id <= n
        /\ s.status # "failed" => EndedOK(s, files.ablation_results, files.reports, Ids("events"))
Delivered(x, category, write) == x \in files[category] \/ write \in ToSet(work.writes)
ConcludingInv ==
    pc = "concluding" =>
        /\ ResultOK(AblationResult)
        /\ ~ work.raises => /\ Delivered(AblationResult, "ablation_results", ResultWrite)
                            /\ Delivered(FailedReport, "reports", ReportWrite)
(* The summary still to be written will be true.                           *)
Due ==
    /\ \E c \in files.ablation_results : c.n = n
    /\ \E p \in files.reports : p.n = n
    /\ <<n, Called>> \in Ids("events") \/ Event(Called) \in ToSet(work.writes)
ReportingInv == pc = "reporting" /\ RunSummary(Called) \in ToSet(work.writes) => Due
AnswerInv == SpokenInv /\ ResultsInv /\ SummariesInv /\ ConcludingInv /\ ReportingInv

(* Nothing is answered at the start.                                       *)
LEMMA AnswerInit == ASSUME Init PROVE AnswerInv
<1>1. /\ files = [c \in Categories |-> {}] /\ work = Quiet /\ pc = "idle" /\ n = 0
  BY DEF Init
<1>2. work.writes = <<>> /\ work.raises = FALSE
  BY <1>1 DEF Quiet, Plan
<1>3. files.ablation_results = {} /\ files.run_summaries = {} /\ files.reports = {}
  BY <1>1 DEF Categories
<1>5. SpokenInv
  <2>1. ~ work.raises
    BY <1>2, Zenon
  <2>2. DOMAIN work.writes = {}
    BY <1>2
  <2>3. QED
    BY <2>1, <2>2 DEF SpokenInv
<1>6. ResultsInv /\ SummariesInv
  BY <1>3 DEF ResultsInv, SummariesInv
<1>7. ConcludingInv /\ ReportingInv
  BY <1>1 DEF ConcludingInv, ReportingInv
<1>8. QED
  BY <1>5, <1>6, <1>7 DEF AnswerInv

(* A result stays in order while the files only grow.                      *)
LEMMA ResultStays ==
    ASSUME scenario' = scenario, Facts \subseteq Facts', NEW c, ResultOK(c)
    PROVE  ResultOK(c)'
<1>1. config' = config
  BY DEF config
<1>2. \A row : _comparison_metric_value(row)' = _comparison_metric_value(row)
  BY <1>1 DEF _comparison_metric_value
<1>3. RankedRows(c)' <=> RankedRows(c)
  BY <1>1, <1>2 DEF RankedRows
<1>4. \A k, r : RowOK(k, r) => RowOK(k, r)'
  BY DEF RowOK, RowFacts
<1>5. QED
  BY <1>3, <1>4 DEF ResultOK

(* A step that writes nothing leaves what is on file as good as it was.    *)
LEMMA FilesStay ==
    ASSUME AnswerInv, UNCHANGED <<scenario, files>>, n \in Nat, n' \in Nat, n <= n'
    PROVE  ResultsInv' /\ SummariesInv' /\ Ids("events")' = Ids("events")
<1>1. Facts' = Facts
  BY DEF Facts, FactsIn
<1>2. Ids("events")' = Ids("events")
  BY DEF Ids
<1>3. ResultsInv'
  BY <1>1, ResultStays DEF AnswerInv, ResultsInv
<1>4. SummariesInv'
  BY <1>2 DEF AnswerInv, SummariesInv, EndedOK
<1>5. QED
  BY <1>2, <1>3, <1>4

(* The steps that report nothing.                                          *)
LEMMA SilentStep ==
    ASSUME AnswerInv, n \in Nat, UNCHANGED <<scenario, n, files>>,
           NEW w, NEW raises \in BOOLEAN, work' = Plan(w, raises), Reports(w, {}),
           \/ pc' = "idle" /\ w = <<>> /\ raises = FALSE
           \/ pc \in Early /\ pc' \in Guarded \ {"concluding"}
    PROVE  AnswerInv'
<1>1. work'.writes = w /\ work'.raises = raises
  BY PlanFields
<1>2. ResultsInv' /\ SummariesInv' /\ Ids("events")' = Ids("events")
  BY FilesStay
<1>3. \A i \in DOMAIN w : w[i].category \notin Reporting
  BY DEF Reports
<1>4. SpokenInv'
  <2>1. raises => pc' \in Guarded
    OBVIOUS
  <2>2. "run_summaries" \in Reporting
    BY DEF Reporting
  <2>3. QED
    BY <1>1, <1>3, <2>1, <2>2 DEF SpokenInv
<1>5. ConcludingInv' /\ ReportingInv'
  BY DEF ConcludingInv, ReportingInv, Guarded
<1>6. QED
  BY <1>2, <1>4, <1>5 DEF AnswerInv

(* The handler of the workflow.                                            *)
LEMMA HandlerStep ==
    ASSUME AnswerInv, n \in Nat, UNCHANGED <<scenario, n, files>>, Handle, pc \in Early
    PROVE  AnswerInv'
<1>1. PICK a, b : a = Event("run_failed") /\ b = RunSummary("failed")
  OBVIOUS
<1>2. PICK w : w = <<a, b>>
  OBVIOUS
<1>3. pc' = "failing" /\ work' = Plan(w, FALSE)
  BY <1>1, <1>2 DEF Handle, HandlerWrites
<1>4. work'.writes = w /\ work'.raises = FALSE
  BY <1>3, PlanFields
<1>5. ResultsInv' /\ SummariesInv' /\ Ids("events")' = Ids("events")
  BY FilesStay
<1>6. a.category = "events" /\ DOMAIN w = 1..2 /\ Len(w) = 2 /\ w[1] = a /\ w[2] = b
  BY <1>1, <1>2 DEF Event, Write
<1>7. SpokenInv'
  <2>1. a = Event("run_failed")' /\ b = RunSummary("failed")'
    BY <1>1 DEF Event, RunSummary
  <2>2. MaySay(a)' /\ MaySay(b)'
    BY <1>3, <2>1 DEF MaySay
  <2>3. ~ work'.raises
    BY <1>4, Zenon
  <2>4. QED
    BY <1>4, <1>6, <2>2, <2>3 DEF SpokenInv
<1>8. ConcludingInv' /\ ReportingInv'
  BY <1>3 DEF ConcludingInv, ReportingInv
<1>9. QED
  BY <1>5, <1>7, <1>8 DEF AnswerInv

(* The runs are counted.                                                   *)
LEMMA CountedRun == ASSUME IInv PROVE n \in Nat
<1>1. Len(scenario.researches) \in Nat
  BY AblationAssumption DEF IInv, RunInv
<1>2. QED
  BY <1>1 DEF IInv, RunInv

(* A new run: whatever is on file is of an earlier one.                    *)
LEMMA StartAnswers == ASSUME IInv, AnswerInv, Start PROVE AnswerInv'
<1>1. PICK w : w = [category |-> "events", items |-> {[id |-> <<n + 1, "run_started">>]}]
  OBVIOUS
<1>2. /\ pc' = "starting" /\ n' = n + 1 /\ work' = Plan(<<w>>, FALSE)
      /\ UNCHANGED <<scenario, files>>
  BY <1>1 DEF Start, Write
<1>3. n \in Nat /\ n' \in Nat /\ n <= n'
  BY <1>2, CountedRun
<1>4. ResultsInv' /\ SummariesInv' /\ Ids("events")' = Ids("events")
  BY <1>2, <1>3, FilesStay
<1>5. work'.writes = <<w>> /\ work'.raises = FALSE
  BY <1>2, PlanFields
<1>6. SpokenInv'
  <2>1. w = Event("run_started")'
    BY <1>1, <1>2 DEF Event, Write
  <2>2. MaySay(w)'
    BY <1>2, <2>1 DEF MaySay
  <2>3. w.category = "events"
    BY <1>1
  <2>4. ~ work'.raises
    BY <1>5, Zenon
  <2>5. QED
    BY <1>5, <2>2, <2>3, <2>4 DEF SpokenInv
<1>7. ConcludingInv' /\ ReportingInv'
  BY <1>2 DEF ConcludingInv, ReportingInv
<1>8. QED
  BY <1>4, <1>6, <1>7 DEF AnswerInv

(* What the comparison plans to report is a result in order and the report *)
(* on it.                                                                  *)
LEMMA CompareAnswers == ASSUME IInv, RegistryInv, ChildrenInv, AnswerInv, Compare PROVE AnswerInv'
<1>1. /\ pc = "comparing" /\ work = Quiet /\ pc' = "concluding" /\ work' = Comparison
      /\ Len(runs) = Len(config.families)
      /\ UNCHANGED <<scenario, n, files, runs>>
  BY DEF Compare, At, Proceed, Comparison, RestOfComparison
<1>2. n \in Nat
  BY CountedRun
<1>3. ResultsInv' /\ SummariesInv' /\ Ids("events")' = Ids("events")
  BY <1>1, <1>2, FilesStay
<1>a. EvaluationReport = FailedReport
  <2>1. n >= 1 /\ ListedInv
    BY <1>1 DEF IInv, RunInv, ChildrenInv
  <2>2. QED
    BY <2>1, AlwaysFails
<1>4. PICK w : \E raises \in BOOLEAN :
        /\ Comparison = Plan(w, raises) /\ Reports(w, Spoken)
        /\ raises \/ Spoken \subseteq ToSet(w)
  BY <1>a, ComparisonReports
<1>5. PICK raises \in BOOLEAN :
        /\ Comparison = Plan(w, raises) /\ Reports(w, Spoken)
        /\ raises \/ Spoken \subseteq ToSet(w)
  BY <1>4
<1>6. work'.writes = w /\ work'.raises = raises
  BY <1>1, <1>5, PlanFields
<1>7. /\ AblationResult' = AblationResult /\ FailedReport' = FailedReport
      /\ ResultWrite' = ResultWrite /\ ReportWrite' = ReportWrite /\ Spoken' = Spoken
  <2>1. AblationResult' = AblationResult /\ FailedReport' = FailedReport
    BY <1>1, ResultKept DEF FailedReport
  <2>2. ResultWrite' = ResultWrite /\ ReportWrite' = ReportWrite
    BY <2>1 DEF ResultWrite, ReportWrite
  <2>3. QED
    BY <2>1, <2>2 DEF Spoken
<1>8. SpokenInv'
  <2>1. \A x \in Spoken : MaySay(x)' /\ x.category # "run_summaries"
    <3>1. \A x \in Spoken : x.category # "run_summaries"
      BY DEF Spoken, ResultWrite, ReportWrite, Write
    <3>2. QED
      BY <1>1, <1>7, <3>1 DEF MaySay
  <2>2. "run_summaries" \in Reporting
    BY DEF Reporting
  <2>3. \A i \in DOMAIN w : w[i].category \in Reporting => w[i] \in Spoken
    BY <1>5 DEF Reports
  <2>4. QED
    BY <1>1, <1>6, <2>1, <2>2, <2>3 DEF SpokenInv, Guarded
<1>10. ConcludingInv'
  <2>1. \A v \in ToSet(runs) : RunFacts(v) \subseteq Facts
    BY <1>1, QuietExpects DEF RegistryInv, RunsInv
  <2>2. ResultOK(AblationResult)
    BY <1>1, <2>1, ResultRanked DEF ChildrenInv
  <2>3. Facts' = Facts
    BY <1>1 DEF Facts, FactsIn
  <2>4. PICK c : c = AblationResult
    OBVIOUS
  <2>5. ResultOK(c)'
    BY <1>1, <2>2, <2>3, <2>4, ResultStays
  <2>6. ResultOK(AblationResult)'
    <3>1. c = AblationResult'
      BY <1>7, <2>4
    <3>2. QED
      BY <2>5, <3>1 DEF ResultOK, RankedRows, RowOK, _comparison_metric_value
  <2>7. ~ raises => ResultWrite \in ToSet(w) /\ ReportWrite \in ToSet(w)
    BY <1>5 DEF Spoken
  <2>8. ~ work'.raises => ~ raises
    BY <1>6, Zenon
  <2>9. QED
    BY <1>6, <1>7, <2>6, <2>7, <2>8 DEF ConcludingInv, Delivered
<1>11. ReportingInv'
  BY <1>1 DEF ReportingInv
<1>12. QED
  BY <1>3, <1>8, <1>10, <1>11 DEF AnswerInv

(* The run that concludes has the result and the report on file, and calls *)
(* for attention.                                                          *)
LEMMA ConcludeAnswers == ASSUME IInv, ChildrenInv, AnswerInv, Conclude PROVE AnswerInv'
<1>1. PICK status : status = derive_ablation_run_status(EvaluationReport, _evaluate_ablation_bundle)
  OBVIOUS
<1>2. status = Called
  <2>1. n >= 1 /\ ListedInv
    BY DEF Conclude, At, IInv, RunInv, ChildrenInv
  <2>2. QED
    BY <1>1, <2>1, AlwaysFails DEF Called
<1>3. PICK a, b, c : a = Event("run_completed") /\ b = Event(Called) /\ c = RunSummary(Called)
  OBVIOUS
<1>4. PICK w : w = <<a, b, c>>
  OBVIOUS
<1>5. /\ pc = "concluding" /\ pc' = "reporting" /\ work = Quiet /\ work' = Plan(w, FALSE)
      /\ UNCHANGED <<scenario, n, files>>
  <2>a. PICK v : v = <<a>> \o Only(status = "attention_required", b) \o <<c>>
    OBVIOUS
  <2>1. /\ pc = "concluding" /\ pc' = "reporting" /\ work = Quiet
        /\ work' = Plan(v, FALSE) /\ UNCHANGED <<scenario, n, files>>
    BY <1>1, <1>2, <1>3, <2>a DEF Conclude, At, Proceed, Called
  <2>2. Only(status = "attention_required", b) = <<b>>
    BY <1>2 DEF Only, Called
  <2>3. <<a, b>> = <<a>> \o <<b>>
    BY ChainedTwo
  <2>4. <<a, b, c>> = <<a, b>> \o <<c>>
    BY ChainedThree
  <2>5. w = v
    BY <1>4, <2>a, <2>2, <2>3, <2>4, Zenon
  <2>6. QED
    BY <2>1, <2>5
<1>6. work'.writes = w /\ work'.raises = FALSE
  BY <1>5, PlanFields
<1>7. n \in Nat
  BY CountedRun
<1>8. ResultsInv' /\ SummariesInv' /\ Ids("events")' = Ids("events")
  BY <1>5, <1>7, FilesStay
<1>9. a.category = "events" /\ b.category = "events" /\ c.category = "run_summaries"
  BY <1>3 DEF Event, RunSummary, Write
<1>10. a = Event("run_completed")' /\ b = Event(Called)' /\ c = RunSummary(Called)'
  BY <1>3, <1>5 DEF Event, RunSummary
<1>11. DOMAIN w = 1..3 /\ Len(w) = 3 /\ w[1] = a /\ w[2] = b /\ w[3] = c /\ b \in ToSet(w)
  BY <1>4 DEF ToSet
<1>12. SpokenInv'
  <2>1. MaySay(a)' /\ MaySay(b)' /\ MaySay(c)'
    BY <1>5, <1>10 DEF MaySay
  <2>2. ~ work'.raises
    BY <1>6, Zenon
  <2>3. QED
    BY <1>6, <1>9, <1>11, <2>1, <2>2 DEF SpokenInv
<1>13. ConcludingInv'
  BY <1>5 DEF ConcludingInv
<1>14. ReportingInv'
  <2>1. work.writes = <<>> /\ ~ work.raises
    <3>1. work.writes = <<>> /\ work.raises = FALSE
      BY <1>5, PlanFields DEF Quiet
    <3>2. QED
      BY <3>1, Zenon
  <2>2. ToSet(work.writes) = {}
    BY <2>1, ReportsNothing
  <2>3. AblationResult \in files.ablation_results /\ FailedReport \in files.reports
    BY <1>5, <2>1, <2>2 DEF AnswerInv, ConcludingInv, Delivered
  <2>4. AblationResult.n = n /\ FailedReport.n = n
    BY DEF AblationResult, FailedReport
  <2>5. Due'
    BY <1>5, <1>6, <1>10, <1>11, <2>3, <2>4 DEF Due
  <2>6. QED
    BY <2>5 DEF ReportingInv
<1>15. QED
  BY <1>8, <1>12, <1>13, <1>14 DEF AnswerInv

(* What a write does: the first write that is planned is carried out.      *)
LEMMA Written ==
    ASSUME RegistryInv, WriteNext, NEW a, a = work.writes, NEW w, w = Head(a)
    PROVE  /\ a # <<>> /\ IsSeq(a) /\ work'.writes = Tail(a) /\ work'.raises = work.raises
           /\ DOMAIN files' = Categories /\ w.category \in Categories
           /\ \A c \in Categories \ {w.category} : files'[c] = files[c]
           /\ files'[w.category] =
                {x \in files[w.category] : \A y \in w.items : x.id # y.id} \cup w.items
           /\ Facts \subseteq Facts'
<1>1. a # <<>> /\ files' = Put(w) /\ work' = [work EXCEPT !.writes = Tail(@)]
  BY DEF WriteNext
<1>2. /\ work = Plan(work.writes, work.raises) /\ work.raises \in BOOLEAN
      /\ IsSeq(a) /\ PlanOK(Facts, a)
  BY DEF RegistryInv, WorkInv, PlanInv, IsSeq
<1>3. WriteOK(Facts, w)
  BY <1>1, <1>2, PlanContinues
<1>4. PICK f, g : f = files /\ g = files'
  OBVIOUS
<1>5. DOMAIN f = Categories /\ g = PutIn(f, w) /\ w.category \in Categories
  BY <1>1, <1>3, <1>4 DEF RegistryInv, FilesInv, Put, PutIn, WriteOK
<1>6. FactsIn(g) = FactsIn(f) \cup WriteFacts(w) /\ DOMAIN g = Categories
  BY <1>3, <1>4, <1>5, FileAdded DEF Facts
<1>7. Facts \subseteq Facts'
  <2>1. Facts = FactsIn(f) /\ Facts' = FactsIn(g)
    BY <1>4 DEF Facts, FactsIn
  <2>2. QED
    BY <1>6, <2>1
<1>8. /\ \A c \in Categories \ {w.category} : g[c] = f[c]
      /\ g[w.category] = {x \in f[w.category] : \A y \in w.items : x.id # y.id} \cup w.items
  BY <1>5 DEF PutIn
<1>9. work'.writes = Tail(a) /\ work'.raises = work.raises
  <2>1. PICK b, raises : b = work.writes /\ raises = work.raises
    OBVIOUS
  <2>2. work' = [Plan(b, raises) EXCEPT !.writes = Tail(@)]
    BY <1>1, <1>2, <2>1
  <2>3. work'.writes = Tail(b) /\ work'.raises = raises
    BY <2>2 DEF Plan
  <2>4. QED
    BY <2>1, <2>3
<1>10. QED
  BY <1>1, <1>2, <1>4, <1>5, <1>6, <1>7, <1>8, <1>9

(* A sequence is its head and the rest.                                    *)
LEMMA RestOf ==
    ASSUME NEW a, IsSeq(a), a # <<>>
    PROVE  /\ 1 \in DOMAIN a /\ Head(a) = a[1] /\ Len(a) \in Nat /\ Len(Tail(a)) = Len(a) - 1
           /\ DOMAIN Tail(a) = 1..(Len(a) - 1)
           /\ \A i \in DOMAIN Tail(a) : i + 1 \in DOMAIN a /\ Tail(a)[i] = a[i + 1]
           /\ \A x : x \in ToSet(a) <=> x = Head(a) \/ x \in ToSet(Tail(a))
<1>1. PICK b, S : b = Tail(a) /\ S = ToSet(a)
  OBVIOUS
<1>2. a \in Seq(S)
  BY <1>1 DEF IsSeq
<1>3. /\ 1 \in DOMAIN a /\ Head(a) = a[1] /\ Len(a) \in Nat /\ Len(b) = Len(a) - 1
      /\ DOMAIN b = 1..(Len(a) - 1) /\ DOMAIN a = 1..Len(a)
      /\ \A i \in DOMAIN b : i + 1 \in DOMAIN a /\ b[i] = a[i + 1]
  BY <1>1, <1>2
<1>4. \A i \in DOMAIN a : i = 1 \/ (i - 1 \in DOMAIN b /\ a[i] = b[i - 1])
  BY <1>1, <1>3
<1>5. \A x : x \in ToSet(a) <=> x = a[1] \/ x \in ToSet(b)
  BY <1>3, <1>4 DEF ToSet
<1>6. QED
  BY <1>1, <1>3, <1>5

(* After the last write nothing is left.                                  *)
LEMMA NothingLeft ==
    ASSUME NEW a, IsSeq(a), a # <<>>, Len(a) = 1
    PROVE  Tail(a) = <<>> /\ ToSet(Tail(a)) = {}
<1>1. PICK b, S : b = Tail(a) /\ S = ToSet(a)
  OBVIOUS
<1>2. a \in Seq(S)
  BY <1>1 DEF IsSeq
<1>3. b \in Seq(S)
  BY <1>1, <1>2
<1>4. Len(b) = 0
  <2>1. Len(b) = Len(a) - 1
    BY <1>1, RestOf
  <2>2. QED
    BY <2>1
<1>5. b = <<>>
  BY <1>3, <1>4
<1>6. QED
  BY <1>1, <1>5, ReportsNothing

(* What a write of a single item adds to its category.                     *)
Added(new, old, x) == x \in new /\ new \subseteq old \cup {x}
(* The reports of a run: each write adds one, to its own category.         *)
ResultMade(w) ==
    \/ w # ResultWrite /\ files'.ablation_results = files.ablation_results
    \/ /\ w = ResultWrite /\ pc = "concluding"
       /\ Added(files'.ablation_results, files.ablation_results, AblationResult)
ReportMade(w) ==
    \/ w # ReportWrite /\ files'.reports = files.reports
    \/ /\ w = ReportWrite /\ pc = "concluding"
       /\ Added(files'.reports, files.reports, FailedReport)
SummaryMade(w) ==
    \/ w.category # "run_summaries" /\ files'.run_summaries = files.run_summaries
    \/ \E s : /\ w = RunSummary(s) /\ Added(files'.run_summaries, files.run_summaries, Summary(s))
              /\ (pc = "reporting" /\ s = Called) \/ s = "failed"
EventMade(w) ==
    \/ w.category # "events" /\ Ids("events")' = Ids("events")
    \/ \E type : w = Event(type) /\ Ids("events")' = Ids("events") \cup {<<n, type>>}
Made(w) == ResultMade(w) /\ ReportMade(w) /\ SummaryMade(w) /\ EventMade(w)

IdsIn(items) == {a.id : a \in items}

(* A fact that is put in place of what has its identifier.                 *)
LEMMA SingleAdded ==
    ASSUME NEW old, NEW x, NEW new, NEW items, items = {x},
           new = {a \in old : \A b \in items : a.id # b.id} \cup items
    PROVE  Added(new, old, x) /\ IdsIn(new) = IdsIn(old) \cup {x.id}
<1>1. Added(new, old, x)
  BY DEF Added
<1>2. \A a \in old : a \in new \/ a.id = x.id
  OBVIOUS
<1>3. \A i : i \in IdsIn(new) <=> i \in IdsIn(old) \cup {x.id}
  BY <1>1, <1>2 DEF Added, IdsIn
<1>4. QED
  BY <1>1, <1>3

(* What a write consists of.                                               *)
LEMMA WriteFields == \A c, i : Write(c, i).category = c /\ Write(c, i).items = i
BY DEF Write

(* What the next write makes of the categories that report on a run.       *)
LEMMA WriteMakes ==
    ASSUME RegistryInv, SpokenInv, WriteNext, NEW w, w = Head(work.writes)
    PROVE  Made(w)
<1>1. PICK a : a = work.writes
  OBVIOUS
<1>2. /\ a # <<>> /\ IsSeq(a) /\ w.category \in Categories
      /\ \A c \in Categories \ {w.category} : files'[c] = files[c]
      /\ files'[w.category] =
           {x \in files[w.category] : \A y \in w.items : x.id # y.id} \cup w.items
  BY <1>1, Written
<1>3. w.category \in Reporting => MaySay(w)
  <2>1. 1 \in DOMAIN a /\ w = a[1]
    BY <1>1, <1>2, RestOf
  <2>2. QED
    BY <1>1, <2>1 DEF SpokenInv
<1>4. \A x : w.items = {x} => Added(files'[w.category], files[w.category], x)
  BY <1>2, SingleAdded
<1>5. /\ ResultWrite.category = "ablation_results" /\ ResultWrite.items = {AblationResult}
      /\ ReportWrite.category = "reports" /\ ReportWrite.items = {FailedReport}
  BY WriteFields DEF ResultWrite, ReportWrite
<1>6. /\ \A type : Event(type).category = "events" /\ Event(type).items = {[id |-> <<n, type>>]}
      /\ \A s : RunSummary(s).category = "run_summaries" /\ RunSummary(s).items = {Summary(s)}
  BY WriteFields DEF Event, RunSummary, Summary
<1>7. "ablation_results" \in Categories /\ "reports" \in Categories
      /\ "run_summaries" \in Categories /\ "events" \in Categories
  BY DEF Categories
<1>8. ResultMade(w)
  <2>1. CASE w.category # "ablation_results"
    BY <1>2, <1>5, <1>7, <2>1 DEF ResultMade
  <2>2. CASE w.category = "ablation_results"
    <3>1. pc = "concluding" /\ w = ResultWrite
      BY <1>3, <1>5, <1>6, <2>2 DEF MaySay, Reporting, Spoken
    <3>2. QED
      BY <1>4, <1>5, <2>2, <3>1 DEF ResultMade
  <2>3. QED
    BY <2>1, <2>2
<1>9. ReportMade(w)
  <2>1. CASE w.category # "reports"
    BY <1>2, <1>5, <1>7, <2>1 DEF ReportMade
  <2>2. CASE w.category = "reports"
    <3>1. pc = "concluding" /\ w = ReportWrite
      BY <1>3, <1>5, <1>6, <2>2 DEF MaySay, Reporting, Spoken
    <3>2. QED
      BY <1>4, <1>5, <2>2, <3>1 DEF ReportMade
  <2>3. QED
    BY <2>1, <2>2
<1>10. SummaryMade(w)
  <2>1. CASE w.category # "run_summaries"
    BY <1>2, <1>7, <2>1 DEF SummaryMade
  <2>2. CASE w.category = "run_summaries"
    <3>1. PICK s : w = RunSummary(s) /\ ((pc = "reporting" /\ s = Called) \/ s = "failed")
      BY <1>3, <1>5, <1>6, <2>2 DEF MaySay, Reporting, Spoken
    <3>2. w.items = {Summary(s)}
      BY <1>6, <3>1
    <3>3. Added(files'.run_summaries, files.run_summaries, Summary(s))
      BY <1>4, <2>2, <3>2
    <3>4. QED
      BY <3>1, <3>3 DEF SummaryMade
  <2>3. QED
    BY <2>1, <2>2
<1>11. EventMade(w)
  <2>1. CASE w.category # "events"
    <3>1. files'.events = files.events
      BY <1>2, <1>7, <2>1
    <3>2. QED
      BY <2>1, <3>1 DEF EventMade, Ids
  <2>2. CASE w.category = "events"
    <3>1. PICK type : w = Event(type)
      BY <1>3, <1>5, <1>6, <2>2 DEF MaySay, Reporting, Spoken
    <3>2. PICK x, items : x = [id |-> <<n, type>>] /\ items = w.items
      OBVIOUS
    <3>3. items = {x} /\ x.id = <<n, type>>
      BY <1>6, <3>1, <3>2
    <3>4. PICK new, old : new = files'.events /\ old = files.events
      OBVIOUS
    <3>5. new = {e \in old : \A b \in items : e.id # b.id} \cup items
      BY <1>2, <2>2, <3>2, <3>4
    <3>6. IdsIn(new) = IdsIn(old) \cup {x.id}
      BY ZenonT(60), <3>3, <3>5, SingleAdded
    <3>7. Ids("events")' = Ids("events") \cup {<<n, type>>}
      BY <3>3, <3>4, <3>6 DEF Ids, IdsIn
    <3>8. QED
      BY <3>1, <3>7 DEF EventMade
  <2>3. QED
    BY <2>1, <2>2
<1>12. QED
  BY <1>8, <1>9, <1>10, <1>11 DEF Made

(* Each write keeps what was said true: that of the result and the report  *)
(* comes before the summary, and nothing is written after it.              *)
LEMMA WriteAnswers == ASSUME IInv, RegistryInv, AnswerInv, WriteNext PROVE AnswerInv'
<1>1. UNCHANGED <<scenario, n, runs, pc>>
  BY DEF WriteNext
<1>2. PICK a, w, rest : a = work.writes /\ w = Head(a) /\ rest = Tail(a)
  OBVIOUS
<1>3. a # <<>> /\ IsSeq(a) /\ work'.writes = rest /\ work'.raises = work.raises /\ Facts \subseteq Facts'
  BY <1>2, Written
<1>4. /\ 1 \in DOMAIN a /\ w = a[1] /\ Len(a) \in Nat /\ Len(rest) = Len(a) - 1
      /\ DOMAIN rest = 1..(Len(a) - 1)
      /\ \A i \in DOMAIN rest : i + 1 \in DOMAIN a /\ rest[i] = a[i + 1]
      /\ \A x : x \in ToSet(a) <=> x = w \/ x \in ToSet(rest)
  BY <1>2, <1>3, RestOf
<1>5. ResultMade(w) /\ ReportMade(w) /\ SummaryMade(w) /\ EventMade(w)
  BY <1>2, WriteMakes DEF AnswerInv, Made
<1>6. PICK c, p : c = AblationResult /\ p = FailedReport
  OBVIOUS
<1>7. c = AblationResult' /\ p = FailedReport'
  BY <1>1, <1>6, ResultKept DEF FailedReport
<1>8. ResultWrite' = ResultWrite /\ ReportWrite' = ReportWrite /\ Spoken' = Spoken
  <2>1. ResultWrite' = ResultWrite /\ ReportWrite' = ReportWrite
    BY <1>6, <1>7 DEF ResultWrite, ReportWrite
  <2>2. QED
    BY <2>1 DEF Spoken
<1>9. \A s : Event(s)' = Event(s) /\ RunSummary(s)' = RunSummary(s)
  BY <1>1 DEF Event, RunSummary
<1>10. \A x : MaySay(x) => MaySay(x)'
  BY <1>1, <1>8, <1>9 DEF MaySay
<1>11. \A x : ResultOK(x) => ResultOK(x)'
  BY <1>1, <1>3, ResultStays
<1>12. n \in Nat
  BY CountedRun
<1>13. pc = "concluding" => ResultOK(c)
  BY <1>6 DEF AnswerInv, ConcludingInv
<1>14. c.n = n /\ p.n = n /\ p.status = "fail"
  BY <1>6 DEF AblationResult, FailedReport
<1>15. SpokenInv'
  <2>1. \A i \in DOMAIN a : /\ a[i].category \in Reporting => MaySay(a[i])
                            /\ a[i].category = "run_summaries" => i = Len(a)
    BY <1>2 DEF AnswerInv, SpokenInv
  <2>2. ASSUME NEW i \in DOMAIN rest
        PROVE  /\ rest[i].category \in Reporting => MaySay(rest[i])'
               /\ rest[i].category = "run_summaries" => i = Len(rest)
    <3>1. i + 1 \in DOMAIN a /\ rest[i] = a[i + 1]
      BY <1>4
    <3>2. /\ rest[i].category \in Reporting => MaySay(rest[i])
          /\ rest[i].category = "run_summaries" => i + 1 = Len(a)
      BY <2>1, <3>1
    <3>3. i + 1 = Len(a) => i = Len(rest)
      BY <1>4
    <3>4. QED
      BY <1>10, <3>2, <3>3
  <2>3. work.raises => pc \in Guarded
    BY DEF AnswerInv, SpokenInv
  <2>4. work'.raises => pc' \in Guarded
    BY <1>1, <1>3, <2>3
  <2>5. QED
    BY <1>3, <2>2, <2>4 DEF SpokenInv
<1>16. ResultsInv'
  <2>1. \A x \in files'.ablation_results : x \in files.ablation_results \/ (x = c /\ pc = "concluding")
    BY <1>5, <1>6 DEF ResultMade, Added
  <2>2. \A x \in files'.ablation_results : ResultOK(x)
    BY <1>13, <2>1 DEF AnswerInv, ResultsInv
  <2>3. \A x \in files'.reports : x \in files.reports \/ x = p
    BY <1>5, <1>6 DEF ReportMade, Added
  <2>4. \A x \in files'.reports : x.status = "fail"
    BY <1>14, <2>3 DEF AnswerInv, ResultsInv
  <2>5. QED
    BY <1>11, <2>2, <2>4 DEF ResultsInv
<1>17. \A s \in files.run_summaries : s.id \in Nat /\ s.id <= n
  BY DEF AnswerInv, SummariesInv
<1>18. Ids("events") \subseteq Ids("events")'
  BY <1>5 DEF EventMade
<1>19. ASSUME NEW s \in files.run_summaries, s.status # "failed"
       PROVE  EndedOK(s, files'.ablation_results, files'.reports, Ids("events")')
  <2>1. EndedOK(s, files.ablation_results, files.reports, Ids("events"))
    BY <1>19 DEF AnswerInv, SummariesInv
  <2>2. \E x \in files'.ablation_results : x.n >= s.id
    <3>1. CASE files'.ablation_results = files.ablation_results
      BY <2>1, <3>1 DEF EndedOK
    <3>2. CASE c \in files'.ablation_results
      BY <1>12, <1>14, <1>17, <3>2
    <3>3. QED
      BY <1>5, <1>6, <3>1, <3>2 DEF ResultMade, Added
  <2>3. \E x \in files'.reports : x.n >= s.id
    <3>1. CASE files'.reports = files.reports
      BY <2>1, <3>1 DEF EndedOK
    <3>2. CASE p \in files'.reports
      BY <1>12, <1>14, <1>17, <3>2
    <3>3. QED
      BY <1>5, <1>6, <3>1, <3>2 DEF ReportMade, Added
  <2>4. QED
    BY <1>18, <2>1, <2>2, <2>3 DEF EndedOK
<1>20. ASSUME w = RunSummary(Called), pc = "reporting"
       PROVE  EndedOK(Summary(Called), files'.ablation_results, files'.reports, Ids("events")')
  <2>1. Due
    <3>1. RunSummary(Called) \in ToSet(work.writes)
      BY <1>2, <1>4, <1>20
    <3>2. QED
      BY <1>20, <3>1 DEF AnswerInv, ReportingInv
  <2>2. w.category = "run_summaries"
    BY <1>20, WriteFields DEF RunSummary
  <2>3. ToSet(a) = {w}
    <3>1. 1 = Len(a)
      BY <1>2, <1>4, <2>2 DEF AnswerInv, SpokenInv
    <3>2. ToSet(rest) = {}
      BY <1>2, <1>3, <3>1, NothingLeft
    <3>3. QED
      BY <1>4, <3>2
  <2>4. Event(Called) \notin ToSet(work.writes)
    <3>1. Event(Called).category = "events"
      BY WriteFields DEF Event
    <3>2. QED
      BY <1>2, <2>2, <2>3, <3>1
  <2>5. files'.ablation_results = files.ablation_results /\ files'.reports = files.reports
    BY <1>5, <1>20 DEF ResultMade, ReportMade
  <2>6. Summary(Called).id = n /\ Summary(Called).status = Called
    BY DEF Summary
  <2>7. /\ \E x \in files.ablation_results : x.n >= n
        /\ \E x \in files.reports : x.n >= n
        /\ <<n, Called>> \in Ids("events")
    BY <1>12, <2>1, <2>4 DEF Due
  <2>8. QED
    BY <1>18, <2>5, <2>6, <2>7 DEF EndedOK
<1>21. SummariesInv'
  <2>1. ASSUME NEW s \in files'.run_summaries
        PROVE  /\ s.id \in Nat /\ s.id <= n
               /\ s.status # "failed" =>
                    EndedOK(s, files'.ablation_results, files'.reports, Ids("events")')
    <3>1. CASE s \in files.run_summaries
      BY <1>17, <1>19, <3>1
    <3>2. CASE s \notin files.run_summaries
      <4>1. PICK status : /\ w = RunSummary(status) /\ s = Summary(status)
                          /\ (pc = "reporting" /\ status = Called) \/ status = "failed"
        BY <1>5, <3>2 DEF SummaryMade, Added
      <4>2. s.id = n /\ s.status = status
        BY <4>1 DEF Summary
      <4>3. QED
        BY <1>12, <1>20, <4>1, <4>2
    <3>3. QED
      BY <3>1, <3>2
  <2>2. QED
    BY <1>1, <2>1 DEF SummariesInv
<1>23. ConcludingInv'
  <2> SUFFICES ASSUME pc = "concluding" PROVE ConcludingInv'
    BY <1>1 DEF ConcludingInv
  <2>1. ResultOK(AblationResult)'
    <3>1. ResultOK(c)'
      BY <1>11, <1>13
    <3>2. QED
      BY <1>7, <3>1 DEF ResultOK, RankedRows, RowOK, _comparison_metric_value
  <2>2. ASSUME ~ work.raises
        PROVE  /\ c \in files'.ablation_results \/ ResultWrite \in ToSet(rest)
               /\ p \in files'.reports \/ ReportWrite \in ToSet(rest)
    <3>1. /\ c \in files.ablation_results \/ ResultWrite \in ToSet(a)
          /\ p \in files.reports \/ ReportWrite \in ToSet(a)
      BY <1>2, <1>6, <2>2 DEF AnswerInv, ConcludingInv, Delivered
    <3>2. c \in files'.ablation_results \/ ResultWrite \in ToSet(rest)
      BY <1>4, <1>5, <1>6, <3>1 DEF ResultMade, Added
    <3>3. p \in files'.reports \/ ReportWrite \in ToSet(rest)
      BY <1>4, <1>5, <1>6, <3>1 DEF ReportMade, Added
    <3>4. QED
      BY <3>2, <3>3
  <2>3. ~ work'.raises => /\ Delivered(AblationResult, "ablation_results", ResultWrite)'
                          /\ Delivered(FailedReport, "reports", ReportWrite)'
    BY <1>3, <1>7, <1>8, <2>2 DEF Delivered
  <2>4. QED
    BY <2>1, <2>3 DEF ConcludingInv
<1>24. ReportingInv'
  <2> SUFFICES ASSUME pc = "reporting", RunSummary(Called) \in ToSet(rest) PROVE Due'
    BY <1>1, <1>3, <1>9 DEF ReportingInv
  <2>1. Due
    BY <1>2, <1>4 DEF AnswerInv, ReportingInv
  <2>2. files'.ablation_results = files.ablation_results /\ files'.reports = files.reports
    BY <1>5 DEF ResultMade, ReportMade
  <2>3. PICK called : called = Event(Called)
    OBVIOUS
  <2>4. <<n, Called>> \in Ids("events")' \/ called \in ToSet(rest)
    <3>1. CASE <<n, Called>> \in Ids("events")
      BY <1>18, <3>1
    <3>2. CASE called \in ToSet(rest)
      BY <3>2
    <3>3. CASE called = w
      <4>1. PICK x : x = [id |-> <<n, Called>>]
        OBVIOUS
      <4>2. called.category = "events" /\ called.items = {x} /\ x.id = <<n, Called>>
        BY <2>3, <4>1, WriteFields DEF Event
      <4>3. "events" \in Categories
        BY DEF Categories
      <4>4. x \in files'.events
        BY <1>2, <3>3, <4>2, <4>3, Written
      <4>5. QED
        BY <4>2, <4>4 DEF Ids
    <3>4. QED
      BY <1>2, <1>4, <2>1, <2>3, <3>1, <3>2, <3>3 DEF Due
  <2>5. QED
    BY <1>1, <1>3, <1>9, <2>1, <2>2, <2>3, <2>4 DEF Due
<1>25. QED
  BY <1>15, <1>16, <1>21, <1>23, <1>24 DEF AnswerInv

(* Each action keeps what the workflow answers true.                       *)
LEMMA AnswerKept ==
    ASSUME IInv, RegistryInv, ChildrenInv, AnswerInv, [Next]_vars
    PROVE  AnswerInv'
<1>a. n \in Nat
  BY CountedRun
<1>b. FALSE \in BOOLEAN /\ Reports(<<>>, {})
  BY ReportsNothing
<1>1. CASE Start
  BY <1>1, StartAnswers
<1>2. CASE WriteNext
  BY <1>2, WriteAnswers
<1>3. CASE Compare
  BY <1>3, CompareAnswers
<1>4. CASE Conclude
  BY <1>4, ConcludeAnswers
<1>5. CASE LoadInputs
  <2>1. PICK i, j : /\ pc = "starting" /\ pc' = "comparing" /\ UNCHANGED <<scenario, n, files>>
                    /\ work' = Plan(<<Write("definitions", i), Write("source_snapshots", j)>>, FALSE)
    BY <1>5 DEF LoadInputs, At, Proceed
  <2>2. Reports(<<Write("definitions", i), Write("source_snapshots", j)>>, {})
    BY ReportsNone, NotReporting
  <2>3. pc \in Early /\ pc' \in Guarded \ {"concluding"}
    BY <2>1 DEF Early, Guarded
  <2>4. QED
    BY <1>a, <1>b, <2>1, <2>2, <2>3, SilentStep
<1>6. CASE MaterializeSignals
  <2>1. PICK i : /\ pc = "comparing" /\ pc' = "simulating" /\ UNCHANGED <<scenario, n, files>>
                 /\ work' = Plan(<<Write("variant_signals", i)>>, FALSE)
    BY <1>6 DEF MaterializeSignals, At, Proceed
  <2>2. Reports(<<Write("variant_signals", i)>>, {})
    BY ReportsNone, NotReporting
  <2>3. pc \in Early /\ pc' \in Guarded \ {"concluding"}
    BY <2>1 DEF Early, Guarded
  <2>4. QED
    BY <1>a, <1>b, <2>1, <2>2, <2>3, SilentStep
<1>7. CASE RecordChild
  <2>1. /\ pc = "simulating" /\ pc' = "comparing" /\ UNCHANGED <<scenario, n, files>>
        /\ work' = run_backtest_workflow(FamilyOfChild)
    BY <1>7 DEF RecordChild, At, Proceed
  <2>2. PICK w : \E raises \in BOOLEAN :
          run_backtest_workflow(FamilyOfChild) = Plan(w, raises) /\ Reports(w, {})
    BY ChildReports
  <2>3. PICK raises \in BOOLEAN :
          run_backtest_workflow(FamilyOfChild) = Plan(w, raises) /\ Reports(w, {})
    BY <2>2
  <2>4. work' = Plan(w, raises)
    BY <2>1, <2>3
  <2>5. pc \in Early /\ pc' \in Guarded \ {"concluding"}
    BY <2>1 DEF Early, Guarded
  <2>6. QED
    BY <1>a, <2>1, <2>3, <2>4, <2>5, SilentStep
<1>8. ASSUME UNCHANGED <<scenario, n, files>>, pc' = "idle", work' = Quiet PROVE AnswerInv'
  <2>1. work' = Plan(<<>>, FALSE)
    BY <1>8 DEF Quiet
  <2>2. QED
    BY <1>a, <1>b, <1>8, <2>1, SilentStep
<1>9. CASE Return
  BY <1>8, <1>9 DEF Return, Proceed
<1>10. CASE Die
  BY <1>8, <1>10 DEF Die
<1>11. CASE WorkflowRaises
  <2>1. UNCHANGED <<scenario, n, files>> /\ Handle
    BY <1>11 DEF WorkflowRaises
  <2>2. pc \in Early
    <3>1. work.raises => pc \in Guarded
      BY DEF AnswerInv, SpokenInv
    <3>2. QED
      BY <1>11, <3>1 DEF WorkflowRaises, Exception, Early, Guarded
  <2>3. QED
    BY <1>a, <2>1, <2>2, HandlerStep
<1>12. CASE WriteRaises
  <2>1. CASE pc \in Guarded
    <3>1. UNCHANGED <<scenario, n, files>> /\ Handle /\ pc \in Early
      BY <1>12, <2>1 DEF WriteRaises, Early
    <3>2. QED
      BY <1>a, <3>1, HandlerStep
  <2>2. CASE pc \notin Guarded
    BY <1>8, <1>12, <2>2 DEF WriteRaises
  <2>3. QED
    BY <2>1, <2>2
<1>13. CASE Simulate \/ UNCHANGED vars
  <2>1. UNCHANGED <<scenario, n, files, runs, pc, work>>
    BY <1>13 DEF Simulate, vars
  <2>2. ResultsInv' /\ SummariesInv' /\ Ids("events")' = Ids("events")
    BY <1>a, <2>1, FilesStay
  <2>3. PICK c, p : c = AblationResult /\ p = FailedReport
    OBVIOUS
  <2>4. c = AblationResult' /\ p = FailedReport'
    BY <2>1, <2>3, ResultKept DEF FailedReport
  <2>5. ResultWrite' = ResultWrite /\ ReportWrite' = ReportWrite /\ Spoken' = Spoken
    <3>1. ResultWrite' = ResultWrite /\ ReportWrite' = ReportWrite
      BY <2>3, <2>4 DEF ResultWrite, ReportWrite
    <3>2. QED
      BY <3>1 DEF Spoken
  <2>6. \A s : Event(s)' = Event(s) /\ RunSummary(s)' = RunSummary(s)
    BY <2>1 DEF Event, RunSummary
  <2>7. \A x : MaySay(x) => MaySay(x)'
    BY <2>1, <2>5, <2>6 DEF MaySay
  <2>8. SpokenInv'
    BY <2>1, <2>7 DEF AnswerInv, SpokenInv
  <2>10. ConcludingInv'
    <3>1. ResultOK(c) => ResultOK(c)'
      <4>1. Facts' = Facts
        BY <2>1 DEF Facts, FactsIn
      <4>2. QED
        BY <2>1, <4>1, ResultStays
    <3>2. ResultOK(c)' => ResultOK(AblationResult)'
      BY <2>4 DEF ResultOK, RankedRows, RowOK, _comparison_metric_value
    <3>3. /\ Delivered(AblationResult, "ablation_results", ResultWrite)
               => Delivered(AblationResult, "ablation_results", ResultWrite)'
          /\ Delivered(FailedReport, "reports", ReportWrite)
               => Delivered(FailedReport, "reports", ReportWrite)'
      BY <2>1, <2>3, <2>4, <2>5 DEF Delivered
    <3>4. QED
      BY <2>1, <2>3, <3>1, <3>2, <3>3 DEF AnswerInv, ConcludingInv
  <2>11. ReportingInv'
    BY <2>1, <2>2, <2>6 DEF AnswerInv, ReportingInv, Due
  <2>12. QED
    BY <2>2, <2>8, <2>10, <2>11 DEF AnswerInv
<1>14. QED
  BY <1>1, <1>2, <1>3, <1>4, <1>5, <1>6, <1>7, <1>9, <1>10, <1>11, <1>12, <1>13 DEF Next

(* What the rows say leads to the files.                                   *)
LEMMA HonestOnFile == ASSUME RegistryInv, AnswerInv PROVE ComparisonIsHonest
<1>1. \A x, y \in files.performance_summaries : x.id = y.id => x = y
  BY DEF RegistryInv, UniqueInv, Unique, Drawn
<1>2. ASSUME NEW c \in files.ablation_results
      PROVE  RankedRows(c) /\ \A r \in ToSet(c.rows) : RowHolds(c, r)
  <2>1. ResultOK(c)
    BY DEF AnswerInv, ResultsInv
  <2>2. ASSUME NEW r \in ToSet(c.rows) PROVE RowHolds(c, r)
    <3>1. RowOK(c.n, r)
      BY <2>1 DEF ResultOK
    <3>2. /\ <<"runs", r.run>> \in FactsIn(files)
          /\ \A m \in MetricNames : <<"value", r.summary, m, r[m]>> \in FactsIn(files)
      BY <3>1 DEF RowOK, RowFacts, Facts
    <3>3. r.run \in Ids("runs")
      <4>1. "runs" \in Categories
        BY DEF Categories
      <4>2. \E x \in files["runs"] : x.id = r.run
        BY <3>2, <4>1, FactsRead
      <4>3. QED
        BY <4>2 DEF Ids
    <3>4. ASSUME NEW m \in MetricNames
          PROVE  \E x \in files.performance_summaries : x.id = r.summary /\ x[m] = r[m]
      <4>1. PICK i, value : i = r.summary /\ value = r[m]
        OBVIOUS
      <4>2. <<"value", i, m, value>> \in FactsIn(files)
        BY <3>2, <4>1
      <4>3. \E x \in files.performance_summaries : x.id = i /\ x[m] = value
        BY <4>2, FactsRead
      <4>4. QED
        BY <4>1, <4>3
    <3>5. PICK s \in files.performance_summaries : s.id = r.summary
      BY <3>4 DEF MetricNames
    <3>6. \A m \in MetricNames : s[m] = r[m]
      BY <1>1, <3>4, <3>5
    <3>7. s.net = r.net /\ s.gross = r.gross /\ s.trades = r.trades /\ s.turnover = r.turnover
      BY <3>6 DEF MetricNames
    <3>8. QED
      BY <3>1, <3>3, <3>5, <3>7 DEF RowHolds, RowOK, ById
  <2>3. QED
    BY <2>1, <2>2 DEF ResultOK
<1>3. ASSUME NEW s \in EndedWell
      PROVE  EndedOK(s, files.ablation_results, files.reports, Ids("events"))
  BY DEF AnswerInv, SummariesInv, EndedWell
<1>4. \A p \in files.reports : p.status = "fail"
  BY DEF AnswerInv, ResultsInv
<1>5. QED
  BY <1>2, <1>3, <1>4 DEF ComparisonIsHonest, EndedOK, Called

(* Whatever is compared, and whichever write fails or whenever the process *)
(* dies: the result on file ranks each family once by the metric asked     *)
(* for, all from one run and with the numbers of the summaries on file; a  *)
(* run that ended well has its result and report, or later ones, on file;  *)
(* and no report passes, so that each such run calls for attention.        *)
THEOREM ComparisonsAreHonest == Spec => []ComparisonIsHonest
<1> DEFINE Inv == IInv /\ RegistryInv /\ ChildrenInv /\ AnswerInv
<1>1. Init => Inv
  BY InitHolds, RegistryInit, ChildrenInit, AnswerInit
<1>2. Inv /\ [Next]_vars => Inv'
  BY NextHolds, RegistryKept, ChildrenKept, AnswerKept
<1>3. Inv => ComparisonIsHonest
  BY HonestOnFile
<1>4. QED
  BY <1>1, <1>2, <1>3, PTL DEF Spec
=============================================================================
