------------------------ MODULE MatchTransition_proofs ------------------------
(***************************************************************************)
(* Facts about the transition that the proofs about the store and about    *)
(* the consumer cite.                                                      *)
(***************************************************************************)
EXTENDS MatchTransition, FiniteSetTheorems, WellFoundedInduction, TLAPS

\* MatchState.initial(match_id) is a match state (state/models.py).
LEMMA InitialStateType ==
  ASSUME NEW m \in Matches
  PROVE  InitialState(m) \in MatchState
BY DEF InitialState, MatchState, EmptyTally, Tally

\* dict.get, dict.setdefault and the increment of a count keep a tally a tally.
LEMMA TallyType ==
  ASSUME NEW K, NEW f \in Tally(K), NEW D
  PROVE  /\ \A k \in K : Lookup(f, k) \in Nat
         /\ WithKeys(f, D) \in Tally(K)
         /\ \A k \in K : Bump(f, k) \in Tally(K)
BY NoneAssumption DEF Tally, Lookup, WithKeys, Bump

\* An accepted event of the state's match yields a match state of that match
\* at the event's sequence (state/transition.py apply_event).
LEMMA ApplyEventType ==
  ASSUME NEW s \in MatchState, NEW e \in CanonicalEvent, Accepts(s, e)
  PROVE  /\ ApplyEvent(s, e) \in MatchState
         /\ ApplyEvent(s, e).match_id = s.match_id
         /\ ApplyEvent(s, e).latest_sequence = e.sequence
<1> DEFINE sides == {HomeTeam(s, e), AwayTeam(s, e)} \ {None}
           known == WithKeys(s.score, sides)
<1>1. HomeTeam(s, e) \in Teams \cup {None} /\ AwayTeam(s, e) \in Teams \cup {None}
  BY DEF HomeTeam, AwayTeam, MatchState, CanonicalEvent
<1>2. known \in Tally(Teams)
  <2>1. s.score \in Tally(Teams)
    BY DEF MatchState
  <2> QED
    BY <2>1, TallyType
<1>3. Scores(s, e) \in Tally(Teams)
  <2>1. CASE IsGoal(e)
    <3>1. e.team \in Teams
      BY <2>1 DEF Accepts, CanonicalEvent
    <3>2. Scores(s, e) = Bump(known, e.team)
      BY <2>1 DEF Scores
    <3> QED
      BY <1>2, <3>1, <3>2, TallyType
  <2>2. CASE ~IsGoal(e)
    <3>1. Scores(s, e) = known
      BY <2>2 DEF Scores
    <3> QED
      BY <1>2, <3>1
  <2> QED
    BY <2>1, <2>2
<1>4. Bump(s.counts, e.event_type) \in Tally(EventTypes)
  <2>1. s.counts \in Tally(EventTypes) /\ e.event_type \in EventTypes
    BY DEF MatchState, CanonicalEvent
  <2> QED
    BY <2>1, TallyType
<1> QED
  BY <1>1, <1>3, <1>4 DEF ApplyEvent, MatchState, CanonicalEvent

\* No event takes a goal away from a team.
LEMMA ScoresGrow ==
  ASSUME NEW s \in MatchState, NEW e \in CanonicalEvent, Accepts(s, e),
         NEW t \in Teams
  PROVE  Lookup(ApplyEvent(s, e).score, t) >= Lookup(s.score, t)
<1> DEFINE known == WithKeys(s.score, {HomeTeam(s, e), AwayTeam(s, e)} \ {None})
<1>1. s.score \in Tally(Teams)
  BY DEF MatchState
<1>2. known \in Tally(Teams) /\ Lookup(known, t) = Lookup(s.score, t)
  BY <1>1, TallyType, NoneAssumption DEF WithKeys, Lookup, Tally
<1>3. CASE IsGoal(e)
  <2>1. e.team \in Teams
    BY <1>3 DEF Accepts, CanonicalEvent
  <2>2. ApplyEvent(s, e).score = Bump(known, e.team)
    BY <1>3 DEF ApplyEvent, Scores
  <2>3. Lookup(Bump(known, e.team), t) >= Lookup(known, t)
    <3> HIDE DEF known
    <3>1. Lookup(known, t) \in Nat /\ Lookup(known, e.team) \in Nat
      BY <1>2, <2>1, TallyType
    <3> QED
      BY <1>2, <2>1, <3>1, NoneAssumption DEF Bump, Lookup, Tally
  <2> QED
    BY <1>2, <2>2, <2>3
<1>4. CASE ~IsGoal(e)
  <2>1. ApplyEvent(s, e).score = known
    BY <1>4 DEF ApplyEvent, Scores
  <2>2. Lookup(s.score, t) \in Nat
    BY <1>1, TallyType
  <2> QED
    BY <1>2, <2>1, <2>2
<1> QED
  BY <1>3, <1>4

-----------------------------------------------------------------------------
(* Sorting.  The elements before one are counted, and the count puts it in *)
(* its place.                                                              *)

StrictOrder(S, before) ==
  /\ \A e, f \in S : e # f => <<e, f>> \in before \/ <<f, e>> \in before
  /\ \A e \in S : <<e, e>> \notin before
  /\ \A e, f, g \in S : <<e, f>> \in before /\ <<f, g>> \in before => <<e, g>> \in before

Below(S, before, e) == {f \in S : <<f, e>> \in before}

Rank(S, before) == [e \in S |-> Cardinality(Below(S, before, e))]

\* Whoever comes later has more elements before it, and there are as many
\* places as elements.
LEMMA RankGrows ==
  ASSUME NEW S, IsFiniteSet(S), NEW before, StrictOrder(S, before)
  PROVE  /\ Cardinality(S) \in Nat
         /\ Rank(S, before) \in [S -> 0 .. Cardinality(S) - 1]
         /\ \A e, f \in S : <<e, f>> \in before <=> Rank(S, before)[e] < Rank(S, before)[f]
<1> DEFINE B(e) == Below(S, before, e)
<1>1. Cardinality(S) \in Nat
  BY FS_CardinalityType
<1>2. \A e \in S : IsFiniteSet(B(e)) /\ Cardinality(B(e)) \in Nat
  <2> TAKE e \in S
  <2>1. B(e) \in SUBSET S
    BY DEF Below
  <2>2. IsFiniteSet(B(e))
    BY <2>1, FS_Subset
  <2> QED
    BY <2>2, FS_CardinalityType
<1>3. \A e \in S : Cardinality(B(e)) \in 0 .. Cardinality(S) - 1
  <2> TAKE e \in S
  <2>1. B(e) \in SUBSET (S \ {e})
    BY DEF Below, StrictOrder
  <2>2. IsFiniteSet(S \ {e}) /\ Cardinality(S \ {e}) = Cardinality(S) - 1
    BY FS_RemoveElement
  <2>3. Cardinality(B(e)) <= Cardinality(S \ {e})
    BY <2>1, <2>2, FS_Subset
  <2> QED
    BY <1>1, <1>2, <2>2, <2>3
<1>4. \A e, f \in S : <<e, f>> \in before => Cardinality(B(e)) < Cardinality(B(f))
  <2> SUFFICES ASSUME NEW e \in S, NEW f \in S, <<e, f>> \in before
               PROVE  Cardinality(B(e)) < Cardinality(B(f))
    OBVIOUS
  <2>1. B(e) \cup {e} \in SUBSET B(f) /\ e \notin B(e)
    BY DEF Below, StrictOrder
  <2>2. Cardinality(B(e) \cup {e}) = Cardinality(B(e)) + 1
    BY <1>2, <2>1, FS_AddElement
  <2>3. Cardinality(B(e) \cup {e}) <= Cardinality(B(f))
    BY <1>2, <2>1, FS_Subset
  <2> QED
    BY <1>2, <2>2, <2>3
<1>5. \A e \in S : Rank(S, before)[e] = Cardinality(B(e))
  BY DEF Rank
<1>6. Rank(S, before) \in [S -> 0 .. Cardinality(S) - 1]
  BY <1>3 DEF Rank
<1>7. \A e, f \in S : Cardinality(B(e)) < Cardinality(B(f)) => <<e, f>> \in before
  <2> SUFFICES ASSUME NEW e \in S, NEW f \in S, Cardinality(B(e)) < Cardinality(B(f))
               PROVE  <<e, f>> \in before
    OBVIOUS
  <2>1. Cardinality(B(e)) \in Nat /\ Cardinality(B(f)) \in Nat
    BY <1>2
  <2>2. e # f /\ <<f, e>> \notin before
    BY <1>4, <2>1
  <2> QED
    BY <2>2 DEF StrictOrder
<1> HIDE DEF B
<1> QED
  BY <1>1, <1>4, <1>5, <1>6, <1>7

\* Every place is taken by exactly one element.
LEMMA RankIsPlace ==
  ASSUME NEW S, IsFiniteSet(S), NEW before, StrictOrder(S, before)
  PROVE  /\ \A e, f \in S : Rank(S, before)[e] = Rank(S, before)[f] => e = f
         /\ \A k \in 0 .. Cardinality(S) - 1 : \E e \in S : Rank(S, before)[e] = k
<1> DEFINE rank == Rank(S, before)
           places == 0 .. Cardinality(S) - 1
<1>1. Cardinality(S) \in Nat /\ rank \in [S -> places]
  BY RankGrows
<1>2. \A e, f \in S : <<e, f>> \in before <=> rank[e] < rank[f]
  BY RankGrows
<1>3. \A e, f \in S : rank[e] = rank[f] => e = f
  <2> SUFFICES ASSUME NEW e \in S, NEW f \in S, rank[e] = rank[f]
               PROVE  e = f
    OBVIOUS
  <2>1. rank[e] \in Int /\ rank[f] \in Int
    BY <1>1
  <2>2. ~(rank[e] < rank[f]) /\ ~(rank[f] < rank[e])
    BY <2>1
  <2>3. <<e, f>> \notin before /\ <<f, e>> \notin before
    BY <1>2, <2>2
  <2> QED
    BY <2>3 DEF StrictOrder
<1>4. rank \in Injection(S, places)
  <2> HIDE DEF rank, places
  <2> QED
    BY <1>1, <1>3 DEF Injection, IsInjective
<1>5. IsFiniteSet(places) /\ Cardinality(places) = Cardinality(S)
  <2>1. IsFiniteSet(places) /\ Cardinality(places) =
          IF 0 > Cardinality(S) - 1 THEN 0 ELSE Cardinality(S) - 1 - 0 + 1
    BY <1>1, FS_Interval
  <2> HIDE DEF places
  <2> QED
    BY <1>1, <2>1
<1>6. rank \in Surjection(S, places)
  <2> HIDE DEF rank, places
  <2> QED
    BY <1>4, <1>5, FS_Injection
<1>7. \A k \in places : \E e \in S : rank[e] = k
  <2> HIDE DEF rank, places
  <2> QED
    BY <1>6 DEF Surjection
<1> QED
  BY <1>3, <1>7

\* The sorted sequence holds every element once, in the order.
LEMMA SortedFacts ==
  ASSUME NEW S, IsFiniteSet(S), NEW before, StrictOrder(S, before)
  PROVE  /\ Cardinality(S) \in Nat
         /\ Sorted(S, before) \in Seq(S)
         /\ Len(Sorted(S, before)) = Cardinality(S)
         /\ DOMAIN Sorted(S, before) = 1 .. Cardinality(S)
         /\ \A e \in S : /\ Rank(S, before)[e] + 1 \in 1 .. Cardinality(S)
                         /\ Sorted(S, before)[Rank(S, before)[e] + 1] = e
         /\ \A i, j \in 1 .. Cardinality(S) :
              i < j <=> <<Sorted(S, before)[i], Sorted(S, before)[j]>> \in before
<1> DEFINE rank == Rank(S, before)
           n == Cardinality(S)
           s == Sorted(S, before)
<1>1. /\ n \in Nat /\ rank \in [S -> 0 .. n - 1]
      /\ \A e, f \in S : <<e, f>> \in before <=> rank[e] < rank[f]
  BY RankGrows
<1>2. /\ \A e, f \in S : rank[e] = rank[f] => e = f
      /\ \A k \in 0 .. n - 1 : \E e \in S : rank[e] = k
  BY RankIsPlace
<1> DEFINE At(k) == CHOOSE e \in S : Cardinality({f \in S : <<f, e>> \in before}) = k - 1
<1>3. \A k \in 1 .. n : s[k] = CHOOSE e \in S : rank[e] = k - 1
  BY DEF Sorted, Rank, Below
<1>4. DOMAIN s = 1 .. n
  BY DEF Sorted
<1>5. s = [k \in 1 .. n |-> s[k]]
  <2>1. s = [k \in 1 .. n |-> At(k)]
    BY DEF Sorted
  <2> HIDE DEF At, s
  <2> QED
    BY <2>1
<1> HIDE DEF At
<1> HIDE DEF rank, s, n
<1>6. \A k \in 1 .. n : s[k] \in S /\ rank[s[k]] = k - 1
  <2> TAKE k \in 1 .. n
  <2>1. k - 1 \in 0 .. n - 1
    BY <1>1
  <2>2. \E e \in S : rank[e] = k - 1
    BY <1>2, <2>1
  <2> QED
    BY <1>3, <2>2
<1>7. s \in [1 .. n -> S]
  BY <1>5, <1>6
<1>8. s \in Seq(S) /\ Len(s) = n
  BY <1>1, <1>7
<1>9. \A e \in S : rank[e] + 1 \in 1 .. n /\ s[rank[e] + 1] = e
  <2> TAKE e \in S
  <2>1. rank[e] \in 0 .. n - 1
    BY <1>1
  <2>2. rank[e] + 1 \in 1 .. n /\ (rank[e] + 1) - 1 = rank[e]
    BY <1>1, <2>1
  <2>3. s[rank[e] + 1] \in S /\ rank[s[rank[e] + 1]] = rank[e]
    BY <1>6, <2>2
  <2> QED
    BY <1>2, <2>2, <2>3
<1>10. \A i, j \in 1 .. n : i < j <=> <<s[i], s[j]>> \in before
  <2> TAKE i \in 1 .. n, j \in 1 .. n
  <2>1. <<s[i], s[j]>> \in before <=> rank[s[i]] < rank[s[j]]
    BY <1>1, <1>6
  <2>2. rank[s[i]] = i - 1 /\ rank[s[j]] = j - 1
    BY <1>6
  <2> QED
    BY <2>1, <2>2
<1> QED
  BY <1>1, <1>4, <1>8, <1>9, <1>10 DEF rank, s, n

\* An element that comes after all others is appended.
LEMMA SortedAppend ==
  ASSUME NEW S, IsFiniteSet(S), NEW e, e \notin S,
         NEW old, NEW new, StrictOrder(S, old), StrictOrder(S \cup {e}, new),
         \A f, g \in S : <<f, g>> \in new <=> <<f, g>> \in old,
         \A f \in S : <<f, e>> \in new
  PROVE  Sorted(S \cup {e}, new) = Append(Sorted(S, old), e)
<1> DEFINE T == S \cup {e}
           n == Cardinality(S)
           s == Sorted(S, old)
           t == Sorted(T, new)
<1>1. IsFiniteSet(T) /\ Cardinality(T) = n + 1
  BY FS_AddElement
<1>2. /\ n \in Nat /\ s \in Seq(S) /\ Len(s) = n
      /\ \A f \in S : Rank(S, old)[f] + 1 \in 1 .. n /\ s[Rank(S, old)[f] + 1] = f
      /\ DOMAIN s = 1 .. n
  BY SortedFacts
<1>3. /\ t \in Seq(T) /\ Len(t) = n + 1
      /\ \A f \in T : t[Rank(T, new)[f] + 1] = f
  <2> HIDE DEF T
  <2>1. /\ t \in Seq(T) /\ Len(t) = Cardinality(T)
        /\ \A f \in T : t[Rank(T, new)[f] + 1] = f
    BY <1>1, SortedFacts DEF T
  <2> QED
    BY <1>1, <2>1
<1>4. \A f \in S : <<e, f>> \notin new
  BY DEF StrictOrder
<1>5. \A f \in S : Rank(T, new)[f] = Rank(S, old)[f]
  <2> TAKE f \in S
  <2>1. Below(T, new, f) = Below(S, old, f)
    BY <1>4 DEF Below
  <2> QED
    BY <2>1 DEF Rank
<1>6. Rank(T, new)[e] = n
  <2>1. Below(T, new, e) = S
    BY DEF Below, StrictOrder
  <2> QED
    BY <2>1 DEF Rank
<1>7. \A k \in 1 .. n : s[k] \in S /\ Rank(S, old)[s[k]] + 1 = k
  <2> TAKE k \in 1 .. n
  <2>1. s[k] \in S
    BY <1>2
  <2>2. s[k] = CHOOSE f \in S : Rank(S, old)[f] = k - 1
    BY DEF Sorted, Rank, Below
  <2>3. \E f \in S : Rank(S, old)[f] = k - 1
    <3>1. k - 1 \in 0 .. n - 1
      BY <1>2
    <3> QED
      BY <3>1, RankIsPlace
  <2>4. Rank(S, old)[s[k]] = k - 1
    BY <2>2, <2>3
  <2> QED
    BY <1>2, <2>1, <2>4
<1>8. \A k \in 1 .. n : t[k] = s[k]
  <2> TAKE k \in 1 .. n
  <2>1. t[Rank(T, new)[s[k]] + 1] = s[k]
    BY <1>3, <1>7
  <2> QED
    BY <1>5, <1>7, <2>1
<1>9. t[n + 1] = e
  BY <1>3, <1>6
<1> HIDE DEF s, t, n, T
<1>10. /\ Append(s, e) \in Seq(T) /\ Len(Append(s, e)) = n + 1
       /\ \A k \in 1 .. n + 1 : Append(s, e)[k] = IF k = n + 1 THEN e ELSE s[k]
  <2>1. s \in Seq(T) /\ e \in T
    BY <1>2 DEF T
  <2> QED
    BY <1>2, <2>1
<1>11. \A k \in 1 .. n + 1 : t[k] = Append(s, e)[k]
  BY <1>2, <1>8, <1>9, <1>10
<1>12. t = Append(s, e)
  BY <1>2, <1>3, <1>10, <1>11
<1> QED
  BY <1>12 DEF s, t, n, T

\* Every set of natural numbers has a least element.
LEMMA LeastNumber ==
  ASSUME NEW B \in SUBSET Nat, B # {}
  PROVE  \E b \in B : \A c \in B : b <= c
<1> DEFINE R == OpToRel(<, Nat)
<1>1. IsWellFoundedOn(R, Nat)
  BY NatLessThanWellFounded
<1>2. \A x, y \in Nat : y < x => <<y, x>> \in R
  BY DEF OpToRel
<1> HIDE DEF R
<1>3. \E x \in B : \A y \in B : ~(<<y, x>> \in R)
  BY <1>1, WFMin
<1>4. PICK x \in B : \A y \in B : ~(<<y, x>> \in R)
  BY <1>3
<1>5. \A y \in B : ~(y < x)
  BY <1>2, <1>4
<1> QED
  BY <1>4, <1>5

\* A strictly increasing sequence of n of the numbers 0 .. n - 1 is all of them.
LEMMA Steady ==
  ASSUME NEW n \in Nat, NEW g \in [1 .. n -> 0 .. n - 1],
         \A i, j \in 1 .. n : i < j => g[i] < g[j]
  PROVE  \A k \in 1 .. n : g[k] = k - 1
<1> DEFINE low == {k \in 1 .. n : g[k] < k - 1}
           high == {k \in 0 .. n - 1 : g[n - k] > n - k - 1}
<1>1. low = {}
  <2> SUFFICES ASSUME low # {}
               PROVE  FALSE
    OBVIOUS
  <2>1. low \in SUBSET Nat
    OBVIOUS
  <2> HIDE DEF low
  <2>2. \E b \in low : \A c \in low : b <= c
    BY <2>1, LeastNumber
  <2> USE DEF low
  <2>3. PICK b \in low : \A c \in low : b <= c
    BY <2>2
  <2>4. b \in 1 .. n /\ g[b] < b - 1 /\ g[b] \in 0 .. n - 1
    OBVIOUS
  <2>5. b - 1 \in 1 .. n /\ b - 1 \notin low
    BY <2>3, <2>4
  <2>6. g[b - 1] < g[b] /\ g[b - 1] \in 0 .. n - 1
    BY <2>4, <2>5
  <2> QED
    BY <2>4, <2>5, <2>6
<1>2. high = {}
  <2> SUFFICES ASSUME high # {}
               PROVE  FALSE
    OBVIOUS
  <2>1. high \in SUBSET Nat
    OBVIOUS
  <2> HIDE DEF high
  <2>2. \E b \in high : \A c \in high : b <= c
    BY <2>1, LeastNumber
  <2> USE DEF high
  <2>3. PICK b \in high : \A c \in high : b <= c
    BY <2>2
  <2>4. b \in 0 .. n - 1 /\ n - b \in 1 .. n /\ g[n - b] > n - b - 1 /\ g[n - b] \in 0 .. n - 1
    OBVIOUS
  <2>5. b - 1 \in 0 .. n - 1 /\ b - 1 \notin high /\ n - (b - 1) \in 1 .. n
    <3>1. b # 0
      BY <2>4
    <3>2. b - 1 \in 0 .. n - 1 /\ n - (b - 1) \in 1 .. n /\ ~(b <= b - 1)
      BY <2>4, <3>1
    <3>3. b - 1 \notin high
      <4> HIDE DEF high
      <4> QED
        BY <2>3, <3>2
    <3> QED
      BY <3>2, <3>3
  <2>6. g[n - b] < g[n - (b - 1)] /\ g[n - (b - 1)] \in 0 .. n - 1
    BY <2>4, <2>5
  <2> QED
    BY <2>4, <2>5, <2>6
<1>3. ASSUME NEW k \in 1 .. n
      PROVE  g[k] = k - 1
  <2>1. k \notin low
    BY <1>1
  <2>2. n - k \in 0 .. n - 1 /\ n - (n - k) = k
    OBVIOUS
  <2>4. n - k \notin high
    BY <1>2
  <2>3. g[k] \in 0 .. n - 1
    OBVIOUS
  <2> QED
    BY <2>1, <2>2, <2>3, <2>4
<1> QED
  BY <1>3

\* There is one sorted sequence of the elements of a set.
LEMMA SortedUnique ==
  ASSUME NEW S, IsFiniteSet(S), NEW before, StrictOrder(S, before),
         NEW n, n = Cardinality(S), NEW t \in [1 .. n -> S],
         \A i, j \in 1 .. n : i < j => <<t[i], t[j]>> \in before
  PROVE  t = Sorted(S, before)
<1> DEFINE rank == Rank(S, before)
           s == Sorted(S, before)
<1>1. /\ n \in Nat
      /\ DOMAIN s = 1 .. n /\ s \in Seq(S) /\ Len(s) = n
      /\ \A e \in S : rank[e] + 1 \in 1 .. n /\ s[rank[e] + 1] = e
  BY SortedFacts
<1>2. rank \in [S -> 0 .. n - 1] /\ \A e, f \in S : <<e, f>> \in before <=> rank[e] < rank[f]
  BY RankGrows
<1> HIDE DEF rank, s
<1> DEFINE g == [k \in 1 .. n |-> rank[t[k]]]
<1>3. g \in [1 .. n -> 0 .. n - 1]
  BY <1>2
<1>4. \A i, j \in 1 .. n : i < j => g[i] < g[j]
  BY <1>2
<1>5. \A k \in 1 .. n : g[k] = k - 1
  <2> HIDE DEF g
  <2> QED
    BY <1>1, <1>3, <1>4, Steady
<1>6. \A k \in 1 .. n : t[k] = s[k]
  <2> TAKE k \in 1 .. n
  <2>1. rank[t[k]] = k - 1 /\ t[k] \in S
    BY <1>5
  <2> QED
    BY <1>1, <2>1
<1>7. s = [k \in 1 .. n |-> s[k]]
  BY <1>1
<1> QED
  BY <1>6, <1>7 DEF s

-----------------------------------------------------------------------------
(* Folding.  FoldLeft takes the last place of a set of places until none   *)
(* is left; what it computes is a function on the prefixes, found by       *)
(* taking the least natural number for which something is not so.          *)

\* A nonempty set of places has a last one.
LEMMA LastPlace ==
  ASSUME NEW m \in Nat, NEW t \in SUBSET (1 .. m), t # {}
  PROVE  Max(t) \in t /\ \A k \in t : k <= Max(t)
<1> DEFINE B == {b \in Nat : \A k \in t : k <= b}
<1>1. B \in SUBSET Nat /\ m \in B
  OBVIOUS
<1>2. \E b \in B : \A c \in B : b <= c
  <2> HIDE DEF B
  <2>1. B # {}
    BY <1>1
  <2> QED
    BY <1>1, <2>1, LeastNumber
<1>3. PICK b \in B : \A c \in B : b <= c
  BY <1>2
<1>4. b \in Nat /\ \A k \in t : k <= b
  BY <1>3
<1>5. b \in t
  <2> SUFFICES ASSUME b \notin t
               PROVE  FALSE
    OBVIOUS
  <2>1. b # 0
    <3>1. PICK k \in t : k \in 1 .. m
      OBVIOUS
    <3>2. k <= b
      BY <1>4, <3>1
    <3> QED
      BY <3>1, <3>2
  <2>2. b - 1 \in Nat /\ \A k \in t : k <= b - 1
    BY <1>4, <2>1
  <2>3. b - 1 \in B
    BY <2>2
  <2>4. b <= b - 1
    BY <1>3, <2>3
  <2> QED
    BY <1>4, <2>4
<1>6. \E x \in t : \A y \in t : x >= y
  BY <1>4, <1>5
<1>7. Max(t) = CHOOSE x \in t : \A y \in t : x >= y
  BY DEF Max
<1>8. Max(t) \in t /\ \A y \in t : Max(t) >= y
  BY <1>6, <1>7
<1> QED
  BY <1>8

FoldOn(g, base, s, places) ==
  g = [t \in SUBSET places |->
         IF t = {} THEN base ELSE RebuildStep(g[t \ {Max(t)}], s[Max(t)])]

\* One more place: the function exists if it does for the places before.
LEMMA FoldExtends ==
  ASSUME NEW s, NEW base, NEW m \in Nat, NEW g, FoldOn(g, base, s, 1 .. m)
  PROVE  \E h : FoldOn(h, base, s, 1 .. m + 1)
<1> DEFINE h == [t \in SUBSET (1 .. m + 1) |->
                   IF t = {} THEN base ELSE RebuildStep(g[t \ {Max(t)}], s[Max(t)])]
<1>1. \A t \in SUBSET (1 .. m + 1) : t # {} => t \ {Max(t)} \in SUBSET (1 .. m)
  <2> SUFFICES ASSUME NEW t \in SUBSET (1 .. m + 1), t # {}
               PROVE  t \ {Max(t)} \in SUBSET (1 .. m)
    OBVIOUS
  <2>1. m + 1 \in Nat
    OBVIOUS
  <2>2. Max(t) \in t /\ \A k \in t : k <= Max(t)
    BY <2>1, LastPlace
  <2>3. Max(t) \in 1 .. m + 1
    BY <2>2
  <2>4. ASSUME NEW k \in t, k # Max(t)
        PROVE  k \in 1 .. m
    <3>1. k \in 1 .. m + 1 /\ k <= Max(t)
      BY <2>2
    <3> QED
      BY <2>3, <2>4, <3>1
  <2> QED
    BY <2>4
<1>2. \A t \in SUBSET (1 .. m) :
        g[t] = IF t = {} THEN base ELSE RebuildStep(g[t \ {Max(t)}], s[Max(t)])
  BY DEF FoldOn
<1>3. \A t \in SUBSET (1 .. m + 1) :
        h[t] = IF t = {} THEN base ELSE RebuildStep(g[t \ {Max(t)}], s[Max(t)])
  OBVIOUS
<1>4. SUBSET (1 .. m) \subseteq SUBSET (1 .. m + 1)
  OBVIOUS
<1>5. h = [t \in SUBSET (1 .. m + 1) |-> h[t]]
  OBVIOUS
<1> HIDE DEF h
<1>6. \A t \in SUBSET (1 .. m) : h[t] = g[t]
  BY <1>2, <1>3, <1>4
<1>7. \A t \in SUBSET (1 .. m + 1) :
        h[t] = IF t = {} THEN base ELSE RebuildStep(h[t \ {Max(t)}], s[Max(t)])
  BY <1>1, <1>3, <1>6
<1>8. h = [t \in SUBSET (1 .. m + 1) |->
             IF t = {} THEN base ELSE RebuildStep(h[t \ {Max(t)}], s[Max(t)])]
  BY <1>5, <1>7
<1> QED
  BY <1>8 DEF FoldOn

\* So it exists for any number of places.
LEMMA FoldExists ==
  ASSUME NEW s, NEW base, NEW n \in Nat
  PROVE  \E g : FoldOn(g, base, s, 1 .. n)
<1> DEFINE B == {m \in Nat : ~ \E g : FoldOn(g, base, s, 1 .. m)}
<1> SUFFICES ASSUME n \in B
             PROVE  FALSE
  OBVIOUS
<1>1. \E b \in B : \A c \in B : b <= c
  <2>1. B \in SUBSET Nat /\ B # {}
    OBVIOUS
  <2> HIDE DEF B
  <2> QED
    BY <2>1, LeastNumber
<1>2. PICK b \in B : \A c \in B : b <= c
  BY <1>1
<1>3. b \in Nat /\ ~ \E g : FoldOn(g, base, s, 1 .. b)
  BY <1>2
<1>4. b # 0
  <2>1. FoldOn([t \in SUBSET (1 .. 0) |-> base], base, s, 1 .. 0)
    <3>1. 1 .. 0 = {} /\ SUBSET (1 .. 0) = {{}}
      OBVIOUS
    <3>2. [t \in {{}} |-> base] =
            [t \in {{}} |-> IF t = {} THEN base
                            ELSE RebuildStep([u \in {{}} |-> base][t \ {Max(t)}], s[Max(t)])]
      OBVIOUS
    <3> QED
      BY <3>1, <3>2 DEF FoldOn
  <2> QED
    BY <1>3, <2>1
<1>5. b - 1 \in Nat /\ b - 1 \notin B /\ (b - 1) + 1 = b
  <2>1. b - 1 \in Nat /\ (b - 1) + 1 = b /\ ~(b <= b - 1)
    BY <1>3, <1>4
  <2> HIDE DEF B
  <2> QED
    BY <1>2, <2>1
<1>6. PICK g : FoldOn(g, base, s, 1 .. b - 1)
  BY <1>5
<1>7. \E h : FoldOn(h, base, s, 1 .. (b - 1) + 1)
  BY <1>5, <1>6, FoldExtends
<1> QED
  BY <1>3, <1>5, <1>7

\* What FoldLeft computes, prefix by prefix.
FoldsAlong(f, base, s, n) ==
  f[0] = base /\ \A k \in 1 .. n : f[k] = RebuildStep(f[k - 1], s[k])

\* FoldLeft is the last value of a fold along the sequence.
LEMMA FoldOverSequence ==
  ASSUME NEW s, NEW base, NEW n \in Nat, DOMAIN s = 1 .. n
  PROVE  \E f : FoldsAlong(f, base, s, n) /\ FoldLeft(RebuildStep, base, s) = f[n]
<1> DEFINE iter[t \in SUBSET DOMAIN s] ==
             IF t = {} THEN base ELSE RebuildStep(iter[t \ {Max(t)}], s[Max(t)])
           f == [k \in 0 .. n |-> iter[1 .. k]]
<1>1. FoldLeft(RebuildStep, base, s) = iter[DOMAIN s]
  BY DEF FoldLeft, MapThenFoldSet
<1>2. iter = CHOOSE h : h = [t \in SUBSET DOMAIN s |->
         IF t = {} THEN base ELSE RebuildStep(h[t \ {Max(t)}], s[Max(t)])]
  BY DEF iter
<1> HIDE DEF iter
<1>3. iter = CHOOSE h : FoldOn(h, base, s, DOMAIN s)
  BY <1>2 DEF FoldOn
<1>4. FoldOn(iter, base, s, 1 .. n)
  <2>1. \E h : FoldOn(h, base, s, 1 .. n)
    BY FoldExists
  <2> QED
    BY <1>3, <2>1
<1>5. \A t \in SUBSET (1 .. n) :
        iter[t] = IF t = {} THEN base ELSE RebuildStep(iter[t \ {Max(t)}], s[Max(t)])
  BY <1>4 DEF FoldOn
<1>6. f[0] = base
  <2>1. 1 .. 0 = {} /\ 0 \in 0 .. n
    OBVIOUS
  <2>2. iter[{}] = base
    BY <1>5
  <2> QED
    BY <2>1, <2>2
<1>7. ASSUME NEW k \in 1 .. n
      PROVE  f[k] = RebuildStep(f[k - 1], s[k])
  <2>1. 1 .. k \in SUBSET (1 .. n) /\ k \in 1 .. k /\ k \in Nat
    OBVIOUS
  <2>2. Max(1 .. k) \in 1 .. k /\ k <= Max(1 .. k)
    BY <2>1, LastPlace
  <2>3. Max(1 .. k) = k
    BY <2>2
  <2>4. (1 .. k) \ {k} = 1 .. k - 1
    BY <2>1
  <2>5. iter[1 .. k] = RebuildStep(iter[1 .. k - 1], s[k])
    BY <1>5, <2>1, <2>3, <2>4
  <2>6. k \in 0 .. n /\ k - 1 \in 0 .. n
    OBVIOUS
  <2> QED
    BY <2>5, <2>6
<1>8. f[n] = iter[DOMAIN s]
  OBVIOUS
<1> HIDE DEF f
<1> QED
  BY <1>1, <1>6, <1>7, <1>8 DEF FoldsAlong

\* The events decide: two computations over the same ones agree.
LEMMA FoldDetermined ==
  ASSUME NEW n \in Nat, NEW base, NEW s, NEW r, \A k \in 1 .. n : s[k] = r[k],
         NEW f, NEW g, FoldsAlong(f, base, s, n), FoldsAlong(g, base, r, n)
  PROVE  \A k \in 0 .. n : f[k] = g[k]
<1> DEFINE B == {k \in 0 .. n : f[k] # g[k]}
<1> SUFFICES ASSUME B # {}
             PROVE  FALSE
  OBVIOUS
<1>1. \E b \in B : \A c \in B : b <= c
  <2>1. B \in SUBSET Nat
    OBVIOUS
  <2> HIDE DEF B
  <2> QED
    BY <2>1, LeastNumber
<1>2. PICK b \in B : \A c \in B : b <= c
  BY <1>1
<1>3. b \in 0 .. n /\ f[b] # g[b]
  BY <1>2
<1>4. b # 0
  BY <1>3 DEF FoldsAlong
<1>5. b \in 1 .. n /\ b - 1 \in 0 .. n /\ ~(b <= b - 1)
  BY <1>3, <1>4
<1>6. f[b - 1] = g[b - 1]
  <2>1. b - 1 \notin B
    <3> HIDE DEF B
    <3> QED
      BY <1>2, <1>5
  <2> QED
    BY <1>5, <2>1
<1>7. /\ f[b] = RebuildStep(f[b - 1], s[b])
      /\ g[b] = RebuildStep(g[b - 1], r[b])
      /\ s[b] = r[b]
  BY <1>5 DEF FoldsAlong
<1> QED
  BY <1>3, <1>6, <1>7

\* Folding nothing gives the base.
LEMMA FoldNothing ==
  ASSUME NEW base
  PROVE  FoldLeft(RebuildStep, base, <<>>) = base
<1>1. DOMAIN <<>> = 1 .. 0
  OBVIOUS
<1>2. \E f : FoldsAlong(f, base, <<>>, 0) /\ FoldLeft(RebuildStep, base, <<>>) = f[0]
  BY <1>1, FoldOverSequence
<1> QED
  BY <1>2 DEF FoldsAlong

\* Folding one event more is one step more (state/rebuild.py rebuild_state).
LEMMA FoldAppend ==
  ASSUME NEW base, NEW S, NEW s \in Seq(S), NEW e \in S
  PROVE  FoldLeft(RebuildStep, base, Append(s, e)) =
           RebuildStep(FoldLeft(RebuildStep, base, s), e)
<1> DEFINE n == Len(s)
           r == Append(s, e)
<1>1. n \in Nat /\ DOMAIN s = 1 .. n /\ DOMAIN r = 1 .. n + 1 /\ n + 1 \in Nat
  OBVIOUS
<1>2. r[n + 1] = e /\ \A k \in 1 .. n : s[k] = r[k]
  OBVIOUS
<1> HIDE DEF n, r
<1>3. PICK f : FoldsAlong(f, base, s, n) /\ FoldLeft(RebuildStep, base, s) = f[n]
  BY <1>1, FoldOverSequence
<1>4. PICK g : FoldsAlong(g, base, r, n + 1) /\ FoldLeft(RebuildStep, base, r) = g[n + 1]
  BY <1>1, FoldOverSequence
<1>5. FoldsAlong(g, base, r, n)
  BY <1>1, <1>4 DEF FoldsAlong
<1>6. f[n] = g[n]
  <2>1. FoldsAlong(f, base, s, n) /\ \A k \in 1 .. n : s[k] = r[k]
    BY <1>2, <1>3
  <2>2. \A k \in 0 .. n : f[k] = g[k]
    BY <1>1, <1>5, <2>1, FoldDetermined
  <2> QED
    BY <1>1, <2>2
<1>7. g[n + 1] = RebuildStep(g[n], e)
  <2>1. n + 1 \in 1 .. n + 1 /\ (n + 1) - 1 = n
    BY <1>1
  <2>2. g[n + 1] = RebuildStep(g[(n + 1) - 1], r[n + 1])
    BY <1>4, <2>1 DEF FoldsAlong
  <2> QED
    BY <1>2, <2>1, <2>2
<1>8. FoldLeft(RebuildStep, base, r) = RebuildStep(FoldLeft(RebuildStep, base, s), e)
  BY <1>3, <1>4, <1>6, <1>7
<1> QED
  BY <1>8 DEF r

-----------------------------------------------------------------------------
(* Rebuilding.  A history in which later sequences never have an earlier   *)
(* time is sorted into the order of its sequences.                         *)

Chronicle(E) ==
  /\ E \subseteq CanonicalEvent /\ IsFiniteSet(E)
  /\ \A e, f \in E : e.sequence = f.sequence => e = f
  /\ \A e, f \in E : e.sequence < f.sequence => OrderedBefore(e, f)

\* A state that no event of E is later than.
Reaches(E, p) ==
  \A f \in E :
    /\ p.latest_sequence \in Nat /\ f.sequence <= p.latest_sequence
    /\ f.period < p.period \/ (f.period = p.period /\ f.clock <= p.clock)

\* event_order_key orders the events of a chronicle strictly.
LEMMA ChronicleOrder ==
  ASSUME NEW E, Chronicle(E)
  PROVE  StrictOrder(E, ByEventOrder(E))
<1>1. \A e \in E : e.sequence \in Nat /\ e.period \in Nat /\ e.clock \in Nat
  BY DEF Chronicle, CanonicalEvent
<1>2. \A e, f \in E : <<e, f>> \in ByEventOrder(E) <=> OrderedBefore(e, f)
  BY DEF ByEventOrder
<1>3. \A e, f \in E : e # f => OrderedBefore(e, f) \/ OrderedBefore(f, e)
  <2> SUFFICES ASSUME NEW e \in E, NEW f \in E, e # f
               PROVE  OrderedBefore(e, f) \/ OrderedBefore(f, e)
    OBVIOUS
  <2>1. e.sequence # f.sequence
    BY DEF Chronicle
  <2>2. e.sequence < f.sequence \/ f.sequence < e.sequence
    BY <1>1, <2>1
  <2> QED
    BY <2>2 DEF Chronicle
<1>4. \A e \in E : ~OrderedBefore(e, e)
  BY <1>1 DEF OrderedBefore
<1>5. \A e, f, g \in E : OrderedBefore(e, f) /\ OrderedBefore(f, g) => OrderedBefore(e, g)
  BY <1>1 DEF OrderedBefore
<1> QED
  BY <1>2, <1>3, <1>4, <1>5 DEF StrictOrder

\* A match without a history has its initial state.
LEMMA RebuildNothing ==
  ASSUME NEW m
  PROVE  Chronicle({}) /\ RebuildState(m, {}) = InitialState(m)
<1>1. Chronicle({})
  BY FS_EmptySet DEF Chronicle
<1>2. Sorted({}, ByEventOrder({})) = <<>>
  <2>1. IsFiniteSet({}) /\ Cardinality({}) = 0
    BY FS_EmptySet
  <2>2. StrictOrder({}, ByEventOrder({}))
    BY <1>1, ChronicleOrder
  <2>3. Sorted({}, ByEventOrder({})) \in Seq({}) /\ Len(Sorted({}, ByEventOrder({}))) = 0
    BY <2>1, <2>2, SortedFacts
  <2> QED
    BY <2>3
<1> QED
  BY <1>1, <1>2, FoldNothing DEF RebuildState

\* An accepted event is later than the history of the state that accepts it.
LEMMA AcceptedIsLater ==
  ASSUME NEW E, Chronicle(E), NEW p \in MatchState, Reaches(E, p),
         NEW e \in CanonicalEvent, Accepts(p, e)
  PROVE  /\ e \notin E
         /\ \A f \in E : f.sequence < e.sequence /\ OrderedBefore(f, e)
         /\ Chronicle(E \cup {e})
         /\ Reaches(E \cup {e}, ApplyEvent(p, e))
<1>1. /\ e.sequence \in Nat /\ e.period \in Nat /\ e.clock \in Nat
      /\ p.period \in Nat /\ p.clock \in Nat
  BY DEF CanonicalEvent, MatchState
<1>2. \A f \in E : f.sequence \in Nat /\ f.period \in Nat /\ f.clock \in Nat
  BY DEF Chronicle, CanonicalEvent
<1>3. ASSUME NEW f \in E
      PROVE  f.sequence < e.sequence /\ OrderedBefore(f, e)
  <2>1. p.latest_sequence \in Nat /\ f.sequence <= p.latest_sequence
    BY DEF Reaches
  <2>2. f.period < p.period \/ (f.period = p.period /\ f.clock <= p.clock)
    BY DEF Reaches
  <2>3. p.latest_sequence # None
    BY <2>1, NoneAssumption
  <2>4. e.sequence = p.latest_sequence + 1 /\ ~ClockRegression(p, e)
    BY <2>3 DEF Accepts, ValidTransition, SequenceGap
  <2>5. f.sequence < e.sequence
    BY <1>1, <1>2, <2>1, <2>4
  <2>6. OrderedBefore(f, e)
    BY <1>1, <1>2, <2>2, <2>4, <2>5 DEF ClockRegression, OrderedBefore
  <2> QED
    BY <2>5, <2>6
<1>4. e \notin E
  BY <1>1, <1>3
<1>5. Chronicle(E \cup {e})
  <2>1. IsFiniteSet(E \cup {e})
    BY FS_AddElement DEF Chronicle
  <2>2. E \cup {e} \subseteq CanonicalEvent
    BY DEF Chronicle
  <2>3. \A f \in E : f.sequence # e.sequence /\ ~(e.sequence < f.sequence)
    BY <1>1, <1>2, <1>3
  <2>4. ~(e.sequence < e.sequence)
    BY <1>1
  <2> QED
    BY <1>3, <2>1, <2>2, <2>3, <2>4 DEF Chronicle
<1>6. Reaches(E \cup {e}, ApplyEvent(p, e))
  <2>1. /\ ApplyEvent(p, e).latest_sequence = e.sequence
        /\ ApplyEvent(p, e).period = e.period
        /\ ApplyEvent(p, e).clock = e.clock
    BY DEF ApplyEvent
  <2>2. ASSUME NEW f \in E
        PROVE  /\ f.sequence <= e.sequence
               /\ f.period < e.period \/ (f.period = e.period /\ f.clock <= e.clock)
    BY <1>1, <1>2, <1>3 DEF OrderedBefore
  <2> QED
    BY <1>1, <2>1, <2>2 DEF Reaches
<1> QED
  BY <1>3, <1>4, <1>5, <1>6

\* What process_event does to the state of a history is what rebuild_state
\* does with one more event of it.
LEMMA RebuildExtends ==
  ASSUME NEW m, NEW E, Chronicle(E), NEW p \in MatchState, Reaches(E, p),
         p = RebuildState(m, E), p # None,
         NEW e \in CanonicalEvent, Accepts(p, e)
  PROVE  RebuildState(m, E \cup {e}) = ApplyEvent(p, e)
<1> DEFINE F == E \cup {e}
<1>1. /\ e \notin E /\ Chronicle(F)
      /\ \A f \in E : OrderedBefore(f, e)
  BY AcceptedIsLater
<1>2. IsFiniteSet(E) /\ StrictOrder(E, ByEventOrder(E))
  BY ChronicleOrder DEF Chronicle
<1>3. StrictOrder(F, ByEventOrder(F))
  BY <1>1, ChronicleOrder
<1>4. \A f, g \in E : <<f, g>> \in ByEventOrder(F) <=> <<f, g>> \in ByEventOrder(E)
  BY DEF ByEventOrder
<1>5. \A f \in E : <<f, e>> \in ByEventOrder(F)
  BY <1>1 DEF ByEventOrder
<1>6. Sorted(F, ByEventOrder(F)) = Append(Sorted(E, ByEventOrder(E)), e)
  BY <1>1, <1>2, <1>3, <1>4, <1>5, SortedAppend
<1>7. Sorted(E, ByEventOrder(E)) \in Seq(F) /\ e \in F
  <2>1. Sorted(E, ByEventOrder(E)) \in Seq(E)
    BY <1>2, SortedFacts
  <2> QED
    BY <2>1
<1>8. FoldLeft(RebuildStep, InitialState(m), Append(Sorted(E, ByEventOrder(E)), e)) =
        RebuildStep(FoldLeft(RebuildStep, InitialState(m), Sorted(E, ByEventOrder(E))), e)
  <2> HIDE DEF F
  <2> QED
    BY <1>7, FoldAppend
<1>9. RebuildState(m, F) = RebuildStep(p, e)
  BY <1>6, <1>8 DEF RebuildState
<1> QED
  BY <1>9 DEF RebuildStep

-----------------------------------------------------------------------------
(* Summing.  SumFunctionOnSet takes an unspecified element first; the sum  *)
(* is the same whichever one is taken.                                     *)

Chosen(t) == CHOOSE x \in t : TRUE

Smaller(D, n) == {t \in SUBSET D : Cardinality(t) <= n}

SumOver(g, f, sets) ==
  g = [t \in sets |-> IF t = {} THEN 0 ELSE f[Chosen(t)] + g[t \ {Chosen(t)}]]

Sums(g, f, D) == SumOver(g, f, SUBSET D)

AnyFirst(g, f, D) == \A t \in SUBSET D : \A x \in t : g[t] = f[x] + g[t \ {x}]

Numbers(f, D) == \A x \in D : f[x] \in Nat

\* In a collection of finite sets there is a smallest one.
LEMMA SmallestSet ==
  ASSUME NEW C, C # {}, \A t \in C : IsFiniteSet(t)
  PROVE  \E t \in C : \A u \in C : Cardinality(t) <= Cardinality(u)
<1> DEFINE B == {Cardinality(t) : t \in C}
<1>1. \A t \in C : Cardinality(t) \in Nat
  BY FS_CardinalityType
<1>2. B \in SUBSET Nat /\ B # {}
  BY <1>1
<1>3. \E b \in B : \A c \in B : b <= c
  <2> HIDE DEF B
  <2> QED
    BY <1>2, LeastNumber
<1> QED
  BY <1>3

\* Without one of its elements a finite set is one smaller.
LEMMA OneLess ==
  ASSUME NEW t, IsFiniteSet(t), NEW x \in t
  PROVE  /\ IsFiniteSet(t \ {x}) /\ Cardinality(t) \in Nat /\ Cardinality(t \ {x}) \in Nat
         /\ Cardinality(t \ {x}) = Cardinality(t) - 1
         /\ ~(Cardinality(t) <= Cardinality(t \ {x}))
<1>1. IsFiniteSet(t \ {x}) /\ Cardinality(t \ {x}) = Cardinality(t) - 1
  BY FS_RemoveElement
<1>2. Cardinality(t) \in Nat /\ Cardinality(t \ {x}) \in Nat
  BY <1>1, FS_CardinalityType
<1> QED
  BY <1>1, <1>2

\* The element that a sum takes first is one of the set.
LEMMA ChosenIsIn ==
  ASSUME NEW t, t # {}
  PROVE  Chosen(t) \in t
BY DEF Chosen

\* A sum over the subsets of less than n elements extends to those of n.
LEMMA SumExtends ==
  ASSUME NEW D, IsFiniteSet(D), NEW f, NEW n \in Nat, NEW g, SumOver(g, f, Smaller(D, n))
  PROVE  \E h : SumOver(h, f, Smaller(D, n + 1))
<1> DEFINE h == [t \in Smaller(D, n + 1) |->
                   IF t = {} THEN 0 ELSE f[Chosen(t)] + g[t \ {Chosen(t)}]]
<1>1. ASSUME NEW t \in Smaller(D, n + 1), t # {}
      PROVE  t \ {Chosen(t)} \in Smaller(D, n)
  <2>1. t \in SUBSET D /\ Cardinality(t) <= n + 1 /\ Chosen(t) \in t
    BY <1>1, ChosenIsIn DEF Smaller
  <2>2. IsFiniteSet(t)
    BY <2>1, FS_Subset
  <2>3. /\ Cardinality(t) \in Nat
        /\ Cardinality(t \ {Chosen(t)}) = Cardinality(t) - 1
    BY <2>1, <2>2, OneLess
  <2>4. Cardinality(t \ {Chosen(t)}) <= n
    BY <2>1, <2>3
  <2> QED
    BY <2>1, <2>4 DEF Smaller
<1>2. \A t \in Smaller(D, n) :
        g[t] = IF t = {} THEN 0 ELSE f[Chosen(t)] + g[t \ {Chosen(t)}]
  BY DEF SumOver
<1>3. \A t \in Smaller(D, n + 1) :
        h[t] = IF t = {} THEN 0 ELSE f[Chosen(t)] + g[t \ {Chosen(t)}]
  OBVIOUS
<1>4. Smaller(D, n) \subseteq Smaller(D, n + 1)
  <2> SUFFICES ASSUME NEW t \in Smaller(D, n)
               PROVE  Cardinality(t) <= n + 1
    BY DEF Smaller
  <2>1. t \in SUBSET D /\ Cardinality(t) <= n
    BY DEF Smaller
  <2>2. IsFiniteSet(t)
    BY <2>1, FS_Subset
  <2>3. Cardinality(t) \in Nat
    BY <2>2, FS_CardinalityType
  <2> QED
    BY <2>1, <2>3
<1>5. h = [t \in Smaller(D, n + 1) |-> h[t]]
  OBVIOUS
<1> HIDE DEF h
<1>6. \A t \in Smaller(D, n) : h[t] = g[t]
  BY <1>2, <1>3, <1>4
<1>7. \A t \in Smaller(D, n + 1) :
        h[t] = IF t = {} THEN 0 ELSE f[Chosen(t)] + h[t \ {Chosen(t)}]
  BY <1>1, <1>3, <1>6
<1>8. SumOver(h, f, Smaller(D, n + 1))
  BY <1>5, <1>7 DEF SumOver
<1> QED
  BY <1>8

\* There is a function that sums over all subsets of a finite set.
LEMMA SumExists ==
  ASSUME NEW D, IsFiniteSet(D), NEW f
  PROVE  \E g : SumOver(g, f, SUBSET D)
<1> DEFINE B == {n \in Nat : ~ \E g : SumOver(g, f, Smaller(D, n))}
<1>1. Cardinality(D) \in Nat
  BY FS_CardinalityType
<1>2. Smaller(D, Cardinality(D)) = SUBSET D
  BY FS_Subset DEF Smaller
<1> SUFFICES ASSUME Cardinality(D) \in B
             PROVE  FALSE
  <2> QED
    BY <1>1, <1>2
<1>3. \E b \in B : \A c \in B : b <= c
  <2>1. B \in SUBSET Nat /\ B # {}
    OBVIOUS
  <2> HIDE DEF B
  <2> QED
    BY <2>1, LeastNumber
<1>4. PICK b \in B : \A c \in B : b <= c
  BY <1>3
<1>5. b \in Nat /\ ~ \E g : SumOver(g, f, Smaller(D, b))
  BY <1>4
<1>6. b # 0
  <2>1. \A t \in SUBSET D : Cardinality(t) <= 0 <=> t = {}
    <3> TAKE t \in SUBSET D
    <3>1. IsFiniteSet(t)
      BY FS_Subset
    <3>2. Cardinality(t) \in Nat
      BY <3>1, FS_CardinalityType
    <3>3. Cardinality(t) = 0 <=> t = {}
      BY <3>1, FS_EmptySet
    <3> QED
      BY <3>2, <3>3
  <2>2. Smaller(D, 0) = {{}}
    BY <2>1 DEF Smaller
  <2>3. [t \in {{}} |-> 0] =
          [t \in {{}} |-> IF t = {} THEN 0
                          ELSE f[Chosen(t)] + [u \in {{}} |-> 0][t \ {Chosen(t)}]]
    OBVIOUS
  <2>4. SumOver([t \in {{}} |-> 0], f, {{}})
    BY <2>3 DEF SumOver
  <2> QED
    BY <1>5, <2>2, <2>4
<1>7. b - 1 \in Nat /\ b - 1 \notin B /\ (b - 1) + 1 = b
  <2>1. b - 1 \in Nat /\ (b - 1) + 1 = b /\ ~(b <= b - 1)
    BY <1>5, <1>6
  <2> HIDE DEF B
  <2> QED
    BY <1>4, <2>1
<1>8. PICK g : SumOver(g, f, Smaller(D, b - 1))
  BY <1>7
<1>9. \E h : SumOver(h, f, Smaller(D, (b - 1) + 1))
  BY <1>7, <1>8, SumExtends
<1> QED
  BY <1>5, <1>7, <1>9

\* SumFunctionOnSet is the value of such a function.
LEMMA SumIs ==
  ASSUME NEW D, IsFiniteSet(D), NEW f
  PROVE  \E g : Sums(g, f, D) /\ SumFunctionOnSet(f, D) = g[D]
<1> DEFINE iter[t \in SUBSET D] ==
             IF t = {} THEN 0
             ELSE f[CHOOSE x \in t : TRUE] + iter[t \ {CHOOSE x \in t : TRUE}]
<1>1. SumFunctionOnSet(f, D) = iter[D]
  BY DEF SumFunctionOnSet, FoldFunctionOnSet, MapThenFoldSet
<1>2. iter = CHOOSE h : h = [t \in SUBSET D |->
         IF t = {} THEN 0
         ELSE f[CHOOSE x \in t : TRUE] + h[t \ {CHOOSE x \in t : TRUE}]]
  BY DEF iter
<1> HIDE DEF iter
<1>3. iter = CHOOSE h : SumOver(h, f, SUBSET D)
  BY <1>2 DEF SumOver, Chosen
<1>4. Sums(iter, f, D)
  BY <1>3, SumExists DEF Sums
<1> QED
  BY <1>1, <1>4

\* Sums of numbers are numbers.
LEMMA SumType ==
  ASSUME NEW D, IsFiniteSet(D), NEW f, Numbers(f, D),
         NEW g, Sums(g, f, D)
  PROVE  \A t \in SUBSET D : g[t] \in Nat
<1> DEFINE C == {t \in SUBSET D : g[t] \notin Nat}
<1> SUFFICES ASSUME C # {}
             PROVE  FALSE
  OBVIOUS
<1>1. \A t \in SUBSET D : IsFiniteSet(t)
  BY FS_Subset
<1>2. \E t \in C : \A u \in C : Cardinality(t) <= Cardinality(u)
  <2>1. \A t \in C : IsFiniteSet(t)
    BY <1>1
  <2> HIDE DEF C
  <2> QED
    BY <2>1, SmallestSet
<1>3. PICK t \in C : \A u \in C : Cardinality(t) <= Cardinality(u)
  BY <1>2
<1>4. t \in SUBSET D /\ g[t] \notin Nat
  BY <1>3
<1>5. t # {} /\ g[t] = f[Chosen(t)] + g[t \ {Chosen(t)}]
  <2>1. /\ t = {} => g[t] = 0
        /\ t # {} => g[t] = f[Chosen(t)] + g[t \ {Chosen(t)}]
    BY <1>4 DEF Sums, SumOver
  <2>2. t # {}
    BY <1>4, <2>1
  <2> QED
    BY <2>1, <2>2
<1>6. Chosen(t) \in t
  BY <1>5, ChosenIsIn
<1>7. t \ {Chosen(t)} \notin C
  <2>1. ~(Cardinality(t) <= Cardinality(t \ {Chosen(t)}))
    BY <1>1, <1>4, <1>6, OneLess
  <2> HIDE DEF C
  <2> QED
    BY <1>3, <2>1
<1>8. g[t \ {Chosen(t)}] \in Nat
  BY <1>4, <1>7
<1>9. f[Chosen(t)] \in Nat
  BY <1>4, <1>6 DEF Numbers
<1> QED
  BY <1>4, <1>5, <1>8, <1>9

\* Any element may be taken first.
LEMMA SumRemove ==
  ASSUME NEW D, IsFiniteSet(D), NEW f, Numbers(f, D),
         NEW g, Sums(g, f, D)
  PROVE  AnyFirst(g, f, D)
<1> DEFINE C == {t \in SUBSET D : ~ \A x \in t : g[t] = f[x] + g[t \ {x}]}
<1> SUFFICES ASSUME C # {}
             PROVE  FALSE
  BY DEF AnyFirst
<1>1. \A t \in SUBSET D : IsFiniteSet(t)
  BY FS_Subset
<1>2. \E t \in C : \A u \in C : Cardinality(t) <= Cardinality(u)
  <2>1. \A t \in C : IsFiniteSet(t)
    BY <1>1
  <2> HIDE DEF C
  <2> QED
    BY <2>1, SmallestSet
<1>3. PICK t \in C : \A u \in C : Cardinality(t) <= Cardinality(u)
  BY <1>2
<1>4. t \in SUBSET D
  BY <1>3
<1>5. PICK x \in t : ~(g[t] = f[x] + g[t \ {x}])
  BY <1>3
<1> DEFINE y == Chosen(t)
           u == t \ {x}
           v == t \ {y}
           w == t \ {x, y}
<1>6. y \in t /\ g[t] = f[y] + g[v]
  BY <1>4, <1>5, ChosenIsIn DEF Sums, SumOver
<1>7. x # y /\ x \in v /\ y \in u /\ u \ {y} = w /\ v \ {x} = w
  BY <1>5, <1>6
<1>8. u \in SUBSET D /\ v \in SUBSET D /\ w \in SUBSET D
  BY <1>4
<1>9. u \notin C /\ v \notin C
  <2>1. ~(Cardinality(t) <= Cardinality(u)) /\ ~(Cardinality(t) <= Cardinality(v))
    BY <1>1, <1>4, <1>5, <1>6, OneLess
  <2> HIDE DEF C, u, v
  <2> QED
    BY <1>3, <2>1
<1>10. \A z \in u : g[u] = f[z] + g[u \ {z}]
  BY <1>8, <1>9
<1>11. \A z \in v : g[v] = f[z] + g[v \ {z}]
  BY <1>8, <1>9
<1>12. g[u] = f[y] + g[w] /\ g[v] = f[x] + g[w]
  BY <1>7, <1>10, <1>11
<1>13. g[w] \in Nat /\ f[x] \in Nat /\ f[y] \in Nat
  BY <1>4, <1>5, <1>6, <1>8, SumType DEF Numbers
<1>14. f[y] + (f[x] + g[w]) = f[x] + (f[y] + g[w])
  BY <1>13
<1> HIDE DEF u, v, w, y
<1>15. g[t] = f[x] + g[u]
  BY <1>6, <1>12, <1>14
<1> QED
  BY <1>5, <1>15 DEF u

\* The values decide: sums of functions that agree are the same.
LEMMA SumAgrees ==
  ASSUME NEW D, IsFiniteSet(D), NEW f, NEW g, Sums(g, f, D),
         NEW E, NEW e, NEW h, Sums(h, e, E),
         NEW S \in SUBSET D, S \subseteq E, \A x \in S : f[x] = e[x]
  PROVE  g[S] = h[S]
<1> DEFINE C == {t \in SUBSET S : g[t] # h[t]}
<1> SUFFICES ASSUME C # {}
             PROVE  FALSE
  OBVIOUS
<1>1. \A t \in SUBSET S : IsFiniteSet(t)
  BY FS_Subset
<1>2. \E t \in C : \A u \in C : Cardinality(t) <= Cardinality(u)
  <2>1. \A t \in C : IsFiniteSet(t)
    BY <1>1
  <2> HIDE DEF C
  <2> QED
    BY <2>1, SmallestSet
<1>3. PICK t \in C : \A u \in C : Cardinality(t) <= Cardinality(u)
  BY <1>2
<1>4. t \in SUBSET S /\ t \in SUBSET D /\ t \in SUBSET E /\ g[t] # h[t]
  BY <1>3
<1>5. t # {} /\ g[t] = f[Chosen(t)] + g[t \ {Chosen(t)}]
              /\ h[t] = e[Chosen(t)] + h[t \ {Chosen(t)}]
  <2>1. /\ t = {} => g[t] = 0
        /\ t # {} => g[t] = f[Chosen(t)] + g[t \ {Chosen(t)}]
    BY <1>4 DEF Sums, SumOver
  <2>2. /\ t = {} => h[t] = 0
        /\ t # {} => h[t] = e[Chosen(t)] + h[t \ {Chosen(t)}]
    <3>1. Sums(h, e, E) /\ t \in SUBSET E
      BY <1>4
    <3> QED
      BY <3>1 DEF Sums, SumOver
  <2> QED
    BY <1>4, <2>1, <2>2
<1>6. Chosen(t) \in t
  BY <1>5, ChosenIsIn
<1>7. t \ {Chosen(t)} \notin C
  <2>1. ~(Cardinality(t) <= Cardinality(t \ {Chosen(t)}))
    BY <1>1, <1>4, <1>6, OneLess
  <2> HIDE DEF C
  <2> QED
    BY <1>3, <2>1
<1>8. g[t \ {Chosen(t)}] = h[t \ {Chosen(t)}] /\ f[Chosen(t)] = e[Chosen(t)]
  BY <1>4, <1>6, <1>7
<1> QED
  BY <1>4, <1>5, <1>8

\* The sum of the values: a natural number, 0 over nothing.
LEMMA SumOfNumbers ==
  ASSUME NEW D, IsFiniteSet(D), NEW f, Numbers(f, D)
  PROVE  SumFunctionOnSet(f, D) \in Nat /\ (D = {} => SumFunctionOnSet(f, D) = 0)
<1>1. PICK g : Sums(g, f, D) /\ SumFunctionOnSet(f, D) = g[D]
  BY SumIs
<1>2. D \in SUBSET D
  OBVIOUS
<1>3. g[D] \in Nat
  BY <1>1, <1>2, SumType
<1>4. D = {} => g[D] = 0
  BY <1>1, <1>2 DEF Sums, SumOver
<1> QED
  BY <1>1, <1>3, <1>4

\* Counting one more of one kind, known or new, adds one to the sum.
LEMMA SumBump ==
  ASSUME NEW D, IsFiniteSet(D), NEW f, Numbers(f, D),
         NEW x, NEW e, e[x] = (IF x \in D THEN f[x] ELSE 0) + 1,
         \A y \in D \ {x} : e[y] = f[y]
  PROVE  SumFunctionOnSet(e, D \cup {x}) = SumFunctionOnSet(f, D) + 1
<1> DEFINE E == D \cup {x}
           S == D \ {x}
<1>1. IsFiniteSet(E) /\ IsFiniteSet(S)
  BY FS_AddElement, FS_RemoveElement
<1>2. PICK g : Sums(g, f, D) /\ SumFunctionOnSet(f, D) = g[D]
  BY SumIs
<1>3. PICK h : Sums(h, e, E) /\ SumFunctionOnSet(e, E) = h[E]
  <2> HIDE DEF E
  <2> QED
    BY <1>1, SumIs
<1>4. Numbers(e, E)
  <2>1. \A y \in D : f[y] \in Nat
    BY DEF Numbers
  <2> QED
    BY <2>1 DEF Numbers
<1>5. h[E] = e[x] + h[S]
  <2>1. AnyFirst(h, e, E)
    <3> HIDE DEF E
    <3> QED
      BY <1>1, <1>3, <1>4, SumRemove
  <2>2. E \in SUBSET E /\ x \in E /\ E \ {x} = S
    OBVIOUS
  <2> HIDE DEF E, S
  <2> QED
    BY <2>1, <2>2 DEF AnyFirst
<1>6. g[S] = h[S] /\ g[S] \in Nat
  <2>1. S \in SUBSET D /\ S \subseteq E /\ \A y \in S : f[y] = e[y]
    OBVIOUS
  <2>3. Sums(g, f, D) /\ Sums(h, e, E)
    BY <1>2, <1>3
  <2>2. g[S] \in Nat
    BY <1>2, <2>1, SumType
  <2> HIDE DEF E, S
  <2> QED
    BY <2>1, <2>2, <2>3, SumAgrees
<1>7. g[D] = (IF x \in D THEN f[x] ELSE 0) + g[S]
  <2>1. CASE x \in D
    <3>1. AnyFirst(g, f, D)
      BY <1>2, SumRemove
    <3>2. g[D] = f[x] + g[S]
      BY <2>1, <3>1 DEF AnyFirst
    <3> QED
      BY <2>1, <3>2
  <2>2. CASE x \notin D
    <3>1. S = D
      BY <2>2
    <3> HIDE DEF S
    <3> QED
      BY <1>6, <2>2, <3>1
  <2> QED
    BY <2>1, <2>2
<1>8. f[x] \in Nat \/ x \notin D
  BY DEF Numbers
<1> HIDE DEF S, E
<1>9. h[E] = g[D] + 1
  <2>1. CASE x \in D
    BY <1>5, <1>6, <1>7, <1>8, <2>1
  <2>2. CASE x \notin D
    BY <1>5, <1>6, <1>7, <2>2
  <2> QED
    BY <2>1, <2>2
<1> QED
  BY <1>2, <1>3, <1>9 DEF E

-----------------------------------------------------------------------------
(* Counting.  The figures of a state count a history, and go on doing so.  *)

Kinds(p) == {k \in EventTypes : p.counts[k] # None}

GoalsOf(E, t) == {e \in E : IsGoal(e) /\ e.team = t}

Counts(E, p) ==
  /\ p.total = Cardinality(E)
  /\ IsFiniteSet(Kinds(p))
  /\ p.total = SumFunctionOnSet(p.counts, Kinds(p))
  /\ \A t \in Teams : Lookup(p.score, t) = Cardinality(GoalsOf(E, t))
  /\ p.home = None => p.away = None
  /\ p.home # None => p.home # p.away

\* The initial state counts nothing.
LEMMA NothingCounted ==
  ASSUME NEW m
  PROVE  Counts({}, InitialState(m))
<1> DEFINE p == InitialState(m)
<1>1. IsFiniteSet({}) /\ Cardinality({}) = 0
  BY FS_EmptySet
<1>2. p.total = 0 /\ p.home = None /\ p.away = None
  BY DEF InitialState
<1>3. p.counts = EmptyTally(EventTypes) /\ p.score = EmptyTally(Teams)
  BY DEF InitialState
<1>4. Kinds(p) = {}
  BY <1>3 DEF Kinds, EmptyTally
<1>5. SumFunctionOnSet(p.counts, {}) = 0
  <2>1. Numbers(p.counts, {})
    BY DEF Numbers
  <2> HIDE DEF p
  <2> QED
    BY <1>1, <2>1, SumOfNumbers
<1>6. ASSUME NEW t \in Teams
      PROVE  Lookup(p.score, t) = 0 /\ GoalsOf({}, t) = {}
  BY <1>3 DEF EmptyTally, Lookup, GoalsOf
<1> HIDE DEF p
<1> QED
  BY <1>1, <1>2, <1>4, <1>5, <1>6 DEF Counts, p

\* The counts by type: dict.get and one more.
LEMMA KindsCounted ==
  ASSUME NEW p \in MatchState, NEW e \in CanonicalEvent,
         IsFiniteSet(Kinds(p)), p.total = SumFunctionOnSet(p.counts, Kinds(p)),
         NEW q, q.counts = Bump(p.counts, e.event_type), q.total = p.total + 1
  PROVE  IsFiniteSet(Kinds(q)) /\ q.total = SumFunctionOnSet(q.counts, Kinds(q))
<1> DEFINE f == p.counts
           x == e.event_type
           D == Kinds(p)
<1>1. f \in [EventTypes -> Nat \cup {None}] /\ x \in EventTypes
  BY DEF MatchState, Tally, CanonicalEvent
<1>2. q.counts[x] = Lookup(f, x) + 1 /\ \A k \in EventTypes \ {x} : q.counts[k] = f[k]
  BY <1>1 DEF Bump
<1>3. D \subseteq EventTypes /\ \A k \in EventTypes : k \in D <=> f[k] # None
  BY DEF Kinds
<1>4. Numbers(f, D)
  BY <1>1, <1>3 DEF Numbers
<1>5. Lookup(f, x) = IF x \in D THEN f[x] ELSE 0
  BY <1>1, <1>3 DEF Lookup
<1>6. Lookup(f, x) + 1 # None
  <2>1. Lookup(f, x) \in Nat
    BY <1>1 DEF Lookup
  <2> QED
    BY <2>1, NoneAssumption
<1>7. Kinds(q) = D \cup {x}
  BY <1>1, <1>2, <1>3, <1>6 DEF Kinds
<1>8. IsFiniteSet(D \cup {x})
  BY FS_AddElement
<1>9. SumFunctionOnSet(q.counts, D \cup {x}) = SumFunctionOnSet(f, D) + 1
  <2>1. /\ q.counts[x] = (IF x \in D THEN f[x] ELSE 0) + 1
        /\ \A k \in D \ {x} : q.counts[k] = f[k]
    BY <1>2, <1>3, <1>5
  <2> DEFINE g == q.counts
  <2>2. /\ g[x] = (IF x \in D THEN f[x] ELSE 0) + 1
        /\ \A k \in D \ {x} : g[k] = f[k]
    BY <2>1
  <2>3. IsFiniteSet(D)
    OBVIOUS
  <2> HIDE DEF g, f, D, x
  <2>4. SumFunctionOnSet(g, D \cup {x}) = SumFunctionOnSet(f, D) + 1
    BY <1>4, <2>2, <2>3, SumBump
  <2> QED
    BY <2>4 DEF g
<1> QED
  BY <1>7, <1>8, <1>9

\* Goals: one more for the team of a goal, none for the others.
LEMMA GoalsCounted ==
  ASSUME NEW E, IsFiniteSet(E), NEW e \in CanonicalEvent, e \notin E,
         NEW p \in MatchState, Accepts(p, e), NEW t \in Teams,
         Lookup(p.score, t) = Cardinality(GoalsOf(E, t))
  PROVE  Lookup(ApplyEvent(p, e).score, t) = Cardinality(GoalsOf(E \cup {e}, t))
<1> DEFINE known == WithKeys(p.score, {HomeTeam(p, e), AwayTeam(p, e)} \ {None})
           scores == IF IsGoal(e) THEN Bump(known, e.team) ELSE known
<1>1. p.score \in Tally(Teams)
  BY DEF MatchState
<1>2. known \in Tally(Teams) /\ Lookup(known, t) = Lookup(p.score, t)
  BY <1>1, TallyType, NoneAssumption DEF WithKeys, Lookup, Tally
<1>3. ApplyEvent(p, e).score = scores
  BY DEF ApplyEvent, Scores
<1>4. IsFiniteSet(GoalsOf(E, t)) /\ Cardinality(GoalsOf(E, t)) \in Nat
  <2>1. GoalsOf(E, t) \in SUBSET E
    BY DEF GoalsOf
  <2>2. IsFiniteSet(GoalsOf(E, t))
    BY <2>1, FS_Subset
  <2> QED
    BY <2>2, FS_CardinalityType
<1>5. CASE IsGoal(e) /\ e.team = t
  <2>1. GoalsOf(E \cup {e}, t) = GoalsOf(E, t) \cup {e} /\ e \notin GoalsOf(E, t)
    BY <1>5 DEF GoalsOf
  <2>2. Cardinality(GoalsOf(E, t) \cup {e}) = Cardinality(GoalsOf(E, t)) + 1
    BY <1>4, <2>1, FS_AddElement
  <2>3. scores = Bump(known, t)
    BY <1>5
  <2>4. Lookup(Bump(known, t), t) = Lookup(known, t) + 1
    <3> HIDE DEF known
    <3>1. Lookup(known, t) \in Nat
      BY <1>2, TallyType
    <3> QED
      BY <1>2, <3>1, NoneAssumption DEF Bump, Lookup, Tally
  <2> HIDE DEF known, scores
  <2> QED
    BY <1>2, <1>3, <2>1, <2>2, <2>3, <2>4
<1>6. CASE ~(IsGoal(e) /\ e.team = t)
  <2>1. GoalsOf(E \cup {e}, t) = GoalsOf(E, t)
    BY <1>6 DEF GoalsOf
  <2>2. Lookup(scores, t) = Lookup(known, t)
    <3>1. CASE IsGoal(e)
      <4>1. e.team \in Teams /\ e.team # t
        BY <1>6, <3>1 DEF Accepts, CanonicalEvent
      <4>2. scores = Bump(known, e.team)
        BY <3>1
      <4> HIDE DEF known, scores
      <4> QED
        BY <1>2, <4>1, <4>2 DEF Bump, Lookup, Tally
    <3>2. CASE ~IsGoal(e)
      BY <3>2
    <3> QED
      BY <3>1, <3>2
  <2> HIDE DEF known, scores
  <2> QED
    BY <1>2, <1>3, <2>1, <2>2
<1> QED
  BY <1>5, <1>6

\* An accepted event is counted once, everywhere.
LEMMA EventCounted ==
  ASSUME NEW E, IsFiniteSet(E), NEW e \in CanonicalEvent, e \notin E,
         NEW p \in MatchState, Accepts(p, e), Counts(E, p)
  PROVE  Counts(E \cup {e}, ApplyEvent(p, e))
<1> DEFINE q == ApplyEvent(p, e)
<1>1. /\ q.total = p.total + 1 /\ q.counts = Bump(p.counts, e.event_type)
      /\ q.home = HomeTeam(p, e) /\ q.away = AwayTeam(p, e)
  BY DEF ApplyEvent
<1>2. q.total = Cardinality(E \cup {e})
  <2>1. Cardinality(E \cup {e}) = Cardinality(E) + 1
    BY FS_AddElement
  <2> QED
    BY <1>1, <2>1 DEF Counts
<1>3. IsFiniteSet(Kinds(q)) /\ q.total = SumFunctionOnSet(q.counts, Kinds(q))
  <2>1. IsFiniteSet(Kinds(p)) /\ p.total = SumFunctionOnSet(p.counts, Kinds(p))
    BY DEF Counts
  <2> HIDE DEF q
  <2> QED
    BY <1>1, <2>1, KindsCounted
<1>4. \A t \in Teams : Lookup(q.score, t) = Cardinality(GoalsOf(E \cup {e}, t))
  <2> TAKE t \in Teams
  <2>1. Lookup(p.score, t) = Cardinality(GoalsOf(E, t))
    BY DEF Counts
  <2> QED
    BY <2>1, GoalsCounted
<1>5. /\ q.home = None => q.away = None
      /\ q.home # None => q.home # q.away
  <2>1. /\ p.home = None => p.away = None
        /\ p.home # None => p.home # p.away
    BY DEF Counts
  <2> HIDE DEF q
  <2> QED
    BY <1>1, <2>1 DEF HomeTeam, AwayTeam, FirstLineup, SecondLineup
<1> HIDE DEF q
<1> QED
  BY <1>2, <1>3, <1>4, <1>5 DEF Counts, q
=============================================================================
