------------------------- MODULE ReplayPipeline_proofs -------------------------
(***************************************************************************)
(* From the file to the pages of the history, for files of any length and  *)
(* any number of producers, members, failures and repetitions.             *)
(*                                                                         *)
(* The argument: a file that is loaded is a replay, whose events stand in  *)
(* the order of time with consecutive indexes (Replayed), so that an       *)
(* event's sequence tells its place.  What is published is in its turn     *)
(* (PublishInv), and what a member has in hand comes after records that    *)
(* were all handled (WorkInv).  Hence an event that a projection accepts   *)
(* is the next of the replay: the store holds a beginning of the replay    *)
(* (StoreInv), a memory a stretch of it (MemoryInv), and a client of the   *)
(* read API has got a beginning of the stored one (ReaderInv).             *)
(*                                                                         *)
(* Several theorems assume that what others publish is no event of the     *)
(* contract (StrangersRefused), as is so of the messages of the runs: a    *)
(* forged event is indistinguishable from a published one.                 *)
(***************************************************************************)
EXTENDS ReplayPipeline, MatchTransition_proofs, SequenceTheorems

-----------------------------------------------------------------------------
(* Ingestion. *)

\* The order in which Chronological puts the places of a sequence.
Places(c) ==
  {p \in (DOMAIN c) \X (DOMAIN c) :
     \/ OrderedBefore(c[p[1]], c[p[2]])
     \/ ~OrderedBefore(c[p[2]], c[p[1]]) /\ p[1] < p[2]}

Order(c) == Sorted(DOMAIN c, Places(c))

\* Chronological looks up the places in that order.
LEMMA ChronologicalIs ==
  ASSUME NEW c
  PROVE  Chronological(c) = [k \in DOMAIN c |-> c[Order(c)[k]]]
BY DEF Chronological, Order, Places

\* No event comes before one that stands in front of it.
InOrderOfTime(c) == \A i, j \in DOMAIN c : i < j => ~OrderedBefore(c[j], c[i])

\* The key orders events: at most one of two comes first, and what is not
\* after e is not after what is after e.
LEMMA KeyOrder ==
  ASSUME NEW e \in CanonicalEvent, NEW f \in CanonicalEvent, NEW g \in CanonicalEvent
  PROVE  /\ ~(OrderedBefore(e, f) /\ OrderedBefore(f, e))
         /\ ~OrderedBefore(e, e)
         /\ OrderedBefore(e, f) /\ ~OrderedBefore(g, f) => OrderedBefore(e, g)
         /\ ~OrderedBefore(f, e) /\ OrderedBefore(f, g) => OrderedBefore(e, g)
         /\ ~OrderedBefore(f, e) /\ ~OrderedBefore(g, f) => ~OrderedBefore(g, e)
<1>1. /\ e.period \in Int /\ e.clock \in Int /\ e.sequence \in Int
      /\ f.period \in Int /\ f.clock \in Int /\ f.sequence \in Int
      /\ g.period \in Int /\ g.clock \in Int /\ g.sequence \in Int
  BY DEF CanonicalEvent
<1> QED
  BY <1>1 DEF OrderedBefore

\* sorted() is stable: the key and, for equal keys, the place in the array.
LEMMA PlacesOrder ==
  ASSUME NEW c \in Seq(CanonicalEvent)
  PROVE  /\ DOMAIN c = 1 .. Len(c) /\ IsFiniteSet(DOMAIN c)
         /\ Cardinality(DOMAIN c) = Len(c) /\ Len(c) \in Nat
         /\ StrictOrder(DOMAIN c, Places(c))
<1>1. DOMAIN c = 1 .. Len(c) /\ Len(c) \in Nat
  OBVIOUS
<1>2. IsFiniteSet(1 .. Len(c)) /\ Cardinality(1 .. Len(c)) = Len(c)
  <2>1. IsFiniteSet(1 .. Len(c)) /\ Cardinality(1 .. Len(c)) =
          IF 1 > Len(c) THEN 0 ELSE Len(c) - 1 + 1
    BY <1>1, FS_Interval
  <2> QED
    BY <1>1, <2>1
<1> DEFINE P(i, j) == \/ OrderedBefore(c[i], c[j])
                      \/ ~OrderedBefore(c[j], c[i]) /\ i < j
<1>3. \A i \in DOMAIN c : c[i] \in CanonicalEvent /\ i \in Int
  BY <1>1
<1>4. \A i, j \in DOMAIN c : <<i, j>> \in Places(c) <=> P(i, j)
  BY DEF Places
<1>5. \A i, j \in DOMAIN c : i # j => P(i, j) \/ P(j, i)
  BY <1>3
<1>6. \A i \in DOMAIN c : ~P(i, i)
  BY <1>3, KeyOrder
<1>7. \A i, j, k \in DOMAIN c : P(i, j) /\ P(j, k) => P(i, k)
  <2> SUFFICES ASSUME NEW i \in DOMAIN c, NEW j \in DOMAIN c, NEW k \in DOMAIN c, P(i, j), P(j, k)
               PROVE  P(i, k)
    OBVIOUS
  <2>1. ~OrderedBefore(c[j], c[i]) /\ ~OrderedBefore(c[k], c[j])
    BY <1>3, KeyOrder
  <2>2. ~OrderedBefore(c[k], c[i])
    BY <1>3, <2>1, KeyOrder
  <2>3. OrderedBefore(c[i], c[j]) \/ OrderedBefore(c[j], c[k]) => OrderedBefore(c[i], c[k])
    BY <1>3, <2>1, KeyOrder
  <2> QED
    BY <1>3, <2>2, <2>3
<1> HIDE DEF P
<1>8. StrictOrder(DOMAIN c, Places(c))
  BY <1>4, <1>5, <1>6, <1>7 DEF StrictOrder
<1> QED
  BY <1>1, <1>2, <1>8

\* What sorting events in chronological order gives: the same events, in order.
LEMMA ChronologicalFacts ==
  ASSUME NEW c \in Seq(CanonicalEvent)
  PROVE  /\ Chronological(c) \in Seq(CanonicalEvent)
         /\ Len(Chronological(c)) = Len(c)
         /\ InOrderOfTime(Chronological(c))
         /\ \A i \in DOMAIN c : \E k \in DOMAIN c : Chronological(c)[k] = c[i]
         /\ \A k \in DOMAIN c : \E i \in DOMAIN c : Chronological(c)[k] = c[i]
<1> DEFINE D == DOMAIN c
           order == Order(c)
           x == Chronological(c)
<1>1. /\ D = 1 .. Len(c) /\ IsFiniteSet(D) /\ Cardinality(D) = Len(c) /\ Len(c) \in Nat
      /\ StrictOrder(D, Places(c))
  BY PlacesOrder
<1>2. /\ order \in Seq(D) /\ DOMAIN order = 1 .. Cardinality(D)
      /\ \A e \in D : /\ Rank(D, Places(c))[e] + 1 \in 1 .. Cardinality(D)
                      /\ order[Rank(D, Places(c))[e] + 1] = e
      /\ \A i, j \in 1 .. Cardinality(D) : i < j <=> <<order[i], order[j]>> \in Places(c)
  <2> HIDE DEF D
  <2> QED
    BY <1>1, SortedFacts DEF Order, D
<1>3. \A k \in D : order[k] \in D
  BY <1>1, <1>2
<1>4. x = [k \in D |-> c[order[k]]]
  BY ChronologicalIs
<1>5. x \in [1 .. Len(c) -> CanonicalEvent]
  BY <1>1, <1>3, <1>4
<1>6. x \in Seq(CanonicalEvent) /\ Len(x) = Len(c) /\ DOMAIN x = D
  BY <1>1, <1>5
<1>7. \A i, j \in D : i < j => ~OrderedBefore(x[j], x[i])
  <2> SUFFICES ASSUME NEW i \in D, NEW j \in D, i < j
               PROVE  ~OrderedBefore(x[j], x[i])
    OBVIOUS
  <2>1. <<order[i], order[j]>> \in Places(c) /\ order[i] \in D /\ order[j] \in D
    BY <1>1, <1>2, <1>3
  <2>2. \/ OrderedBefore(c[order[i]], c[order[j]])
        \/ ~OrderedBefore(c[order[j]], c[order[i]])
    BY <2>1 DEF Places
  <2>3. c[order[i]] \in CanonicalEvent /\ c[order[j]] \in CanonicalEvent
    BY <1>1, <2>1
  <2>4. ~OrderedBefore(c[order[j]], c[order[i]])
    BY <2>2, <2>3, KeyOrder
  <2> QED
    BY <1>4, <2>4
<1>8. \A i \in D : \E k \in D : x[k] = c[i]
  <2> TAKE i \in D
  <2>1. Rank(D, Places(c))[i] + 1 \in D /\ order[Rank(D, Places(c))[i] + 1] = i
    BY <1>1, <1>2
  <2> QED
    BY <1>4, <2>1
<1>9. \A k \in D : \E i \in D : x[k] = c[i]
  BY <1>3, <1>4
<1> HIDE DEF x, order
<1> QED
  BY <1>6, <1>7, <1>8, <1>9 DEF InOrderOfTime, x

\* A sequence that is in order is left as it is.
LEMMA ChronologicalAgain ==
  ASSUME NEW c \in Seq(CanonicalEvent), InOrderOfTime(c)
  PROVE  Chronological(c) = c
<1> DEFINE D == DOMAIN c
           same == [k \in 1 .. Len(c) |-> k]
<1>1. /\ D = 1 .. Len(c) /\ IsFiniteSet(D) /\ Cardinality(D) = Len(c) /\ Len(c) \in Nat
      /\ StrictOrder(D, Places(c))
  BY PlacesOrder
<1>2. same \in [1 .. Len(c) -> D]
  BY <1>1
<1>3. \A i, j \in 1 .. Len(c) : i < j => <<same[i], same[j]>> \in Places(c)
  BY <1>1 DEF InOrderOfTime, Places
<1> HIDE DEF same, D
<1>4. same = Sorted(D, Places(c))
  BY <1>1, <1>2, <1>3, SortedUnique
<1>5. \A k \in D : Order(c)[k] = k
  BY <1>1, <1>4 DEF Order, same, D
<1>6. Chronological(c) = [k \in D |-> c[Order(c)[k]]]
  BY ChronologicalIs DEF D
<1>7. Chronological(c) = [k \in 1 .. Len(c) |-> c[k]]
  BY <1>1, <1>5, <1>6
<1> QED
  BY <1>7

\* What convert_event makes of an object it accepts is a canonical event of the match.
LEMMA ConvertType ==
  ASSUME NEW raw \in RawEvent, NEW m \in Matches, Convertible(raw)
  PROVE  ConvertEvent(raw, m) \in CanonicalEvent /\ ConvertEvent(raw, m).match_id = m
<1>1. raw.index \in Nat
  BY DEF RawEvent, Convertible, Present
<1>2. raw.period \in Nat \ {0}
  BY DEF RawEvent, Convertible, Present
<1>3. ClockSeconds(raw.timestamp) \in Nat
  <2>1. raw.timestamp \in Int \X Int \X Int
    BY DEF RawEvent, Convertible, IsTimestamp, Present
  <2>2. raw.timestamp[1] \in Nat /\ raw.timestamp[2] \in Nat /\ raw.timestamp[3] \in Nat
    BY <2>1 DEF Convertible, IsTimestamp
  <2> QED
    BY <2>2 DEF ClockSeconds
<1>4. raw.id.word \in Words /\ raw.type.word \in Words
  BY DEF RawEvent, Convertible, IsIdentifier, Present, Text
<1>5. EventId(raw, m) \in EventIds
  <2>1. EventId(raw, m) \in Matches \X Words
    BY <1>4 DEF EventId, Identifier
  <2> QED
    BY <2>1, TextAssumption
<1>6. Identifier(raw.type) \in EventTypes
  BY <1>4, TextAssumption DEF Identifier
<1>7. raw.team \in Teams \cup {None} /\ raw.possession_team \in Teams \cup {None}
  BY DEF RawEvent, Convertible
<1>8. (raw.outcome = "Goal") \in BOOLEAN
  OBVIOUS
<1> QED
  BY <1>1, <1>2, <1>3, <1>5, <1>6, <1>7, <1>8 DEF ConvertEvent, CanonicalEvent

\* A replay of the match m: its events in chronological order, no index left out.
Replayed(s, m) ==
  /\ s \in Seq(CanonicalEvent)
  /\ \A i \in DOMAIN s : s[i].match_id = m
  /\ InOrderOfTime(s)
  /\ Contiguous(s)

\* A file that is not refused gives such a replay, and the replayer leaves it alone.
LEMMA LoadedFile ==
  ASSUME NEW f \in Files, NEW loaded, loaded = ConvertEvents(f.array, f.match),
         loaded # None
  PROVE  Replayed(loaded, f.match) /\ Replay(loaded) = loaded
<1> DEFINE raw == f.array
           m == f.match
           converted == [i \in DOMAIN raw |-> ConvertEvent(raw[i], m)]
<1>1. m \in Matches /\ raw \in Seq(RawEvent)
  BY PipelineAssumption
<1>2. /\ \A i \in DOMAIN raw : Convertible(raw[i])
      /\ Contiguous(Chronological(converted))
      /\ loaded = Chronological(converted)
  BY DEF ConvertEvents
<1> HIDE DEF raw, m
<1>3. \A i \in DOMAIN raw : /\ ConvertEvent(raw[i], m) \in CanonicalEvent
                            /\ ConvertEvent(raw[i], m).match_id = m
  <2> TAKE i \in DOMAIN raw
  <2>1. raw[i] \in RawEvent
    BY <1>1
  <2> QED
    BY <1>1, <1>2, <2>1, ConvertType
<1>4. /\ converted \in Seq(CanonicalEvent)
      /\ \A i \in DOMAIN converted : converted[i].match_id = m
  <2>1. DOMAIN raw = 1 .. Len(raw) /\ Len(raw) \in Nat
    BY <1>1
  <2> QED
    BY <1>3, <2>1
<1> HIDE DEF converted
<1>5. /\ loaded \in Seq(CanonicalEvent) /\ InOrderOfTime(loaded) /\ Len(loaded) = Len(converted)
      /\ \A k \in DOMAIN converted : \E i \in DOMAIN converted : loaded[k] = converted[i]
  BY <1>2, <1>4, ChronologicalFacts
<1>6. DOMAIN loaded = DOMAIN converted
  BY <1>4, <1>5
<1>7. \A k \in DOMAIN loaded : loaded[k].match_id = m
  BY <1>4, <1>5, <1>6
<1>8. Replay(loaded) = loaded
  BY <1>5, ChronologicalAgain DEF Replay
<1> QED
  BY <1>2, <1>5, <1>7, <1>8 DEF Replayed, m

\* The index tells the place.
LEMMA IndexIsPlace ==
  ASSUME NEW m, NEW s, Replayed(s, m)
  PROVE  /\ DOMAIN s = 1 .. Len(s) /\ Len(s) \in Nat
         /\ \A k \in DOMAIN s : s[k] \in CanonicalEvent /\ s[k].match_id = m
         /\ \A i, j \in DOMAIN s : s[j].sequence - s[i].sequence = j - i
<1> DEFINE wrong == {k \in DOMAIN s : s[k].sequence # s[1].sequence + k - 1}
<1>1. DOMAIN s = 1 .. Len(s) /\ Len(s) \in Nat
  BY DEF Replayed
<1>2. \A k \in DOMAIN s : s[k] \in CanonicalEvent /\ s[k].match_id = m
  BY DEF Replayed
<1>3. \A k \in DOMAIN s : s[k].sequence \in Nat
  BY <1>2 DEF CanonicalEvent
<1>4. wrong = {}
  <2> SUFFICES ASSUME wrong # {}
               PROVE  FALSE
    OBVIOUS
  <2>1. wrong \in SUBSET Nat
    BY <1>1
  <2> HIDE DEF wrong
  <2>2. \E b \in wrong : \A c \in wrong : b <= c
    BY <2>1, LeastNumber
  <2> USE DEF wrong
  <2>3. PICK b \in wrong : \A c \in wrong : b <= c
    BY <2>2
  <2>4. b \in 1 .. Len(s) /\ b # 1
    BY <1>1, <1>3
  <2>5. b - 1 \in 1 .. Len(s) - 1 /\ b - 1 \in DOMAIN s /\ ~(b <= b - 1) /\ (b - 1) + 1 = b
    BY <1>1, <2>4
  <2>6. b - 1 \notin wrong
    <3> HIDE DEF wrong
    <3> QED
      BY <2>3, <2>5
  <2>7. s[b - 1].sequence = s[1].sequence + (b - 1) - 1
    BY <2>5, <2>6
  <2>8. s[b].sequence = s[b - 1].sequence + 1
    BY <2>5 DEF Replayed, Contiguous
  <2>9. s[1].sequence \in Nat
    BY <1>1, <1>3, <2>4
  <2> QED
    BY <2>4, <2>7, <2>8, <2>9
<1>5. \A i, j \in DOMAIN s : s[j].sequence - s[i].sequence = j - i
  <2> TAKE i \in DOMAIN s, j \in DOMAIN s
  <2>1. i \notin wrong /\ j \notin wrong
    BY <1>4
  <2>2. s[i].sequence = s[1].sequence + i - 1 /\ s[j].sequence = s[1].sequence + j - 1
    BY <2>1
  <2>3. s[1].sequence \in Nat /\ i \in Nat /\ j \in Nat
    BY <1>1, <1>3
  <2> QED
    BY <2>2, <2>3
<1> QED
  BY <1>1, <1>2, <1>5

-----------------------------------------------------------------------------
(* Folding a stretch of a replay. *)

\* The state after the events from place i to place j.
Played(m, s, i, j) == FoldLeft(RebuildStep, InitialState(m), SubSeq(s, i, j))

\* Nothing played is the initial state; one event more is one step more.
LEMMA PlayedExtends ==
  ASSUME NEW m, NEW s, Replayed(s, m), NEW i \in DOMAIN s
  PROVE  /\ Played(m, s, i, i - 1) = InitialState(m)
         /\ \A j \in i .. Len(s) : Played(m, s, i, j) = RebuildStep(Played(m, s, i, j - 1), s[j])
<1>1. DOMAIN s = 1 .. Len(s) /\ Len(s) \in Nat /\ s \in Seq(CanonicalEvent)
  BY IndexIsPlace DEF Replayed
<1>2. SubSeq(s, i, i - 1) = <<>>
  BY <1>1
<1>3. Played(m, s, i, i - 1) = InitialState(m)
  BY <1>2, FoldNothing DEF Played
<1>4. ASSUME NEW j \in i .. Len(s)
      PROVE  Played(m, s, i, j) = RebuildStep(Played(m, s, i, j - 1), s[j])
  <2>1. SubSeq(s, i, j - 1) \in Seq(CanonicalEvent) /\ s[j] \in CanonicalEvent
    BY <1>1
  <2>2. SubSeq(s, i, j) = Append(SubSeq(s, i, j - 1), s[j])
    <3> DEFINE long == SubSeq(s, i, j)
               short == SubSeq(s, i, j - 1)
    <3>1. /\ long \in Seq(CanonicalEvent) /\ Len(long) = j - i + 1
          /\ \A k \in 1 .. j - i + 1 : long[k] = s[i + k - 1]
      BY <1>1
    <3>2. /\ short \in Seq(CanonicalEvent) /\ Len(short) = j - i
          /\ \A k \in 1 .. j - i : short[k] = s[i + k - 1]
      BY <1>1
    <3> HIDE DEF long, short
    <3>3. i + (j - i + 1) - 1 = j /\ j - i + 1 \in Nat /\ j - i \in Nat
      BY <1>1
    <3>4. /\ Append(short, s[j]) \in Seq(CanonicalEvent) /\ Len(Append(short, s[j])) = j - i + 1
          /\ \A k \in 1 .. j - i + 1 :
               Append(short, s[j])[k] = IF k = j - i + 1 THEN s[j] ELSE short[k]
      <4> DEFINE n == j - i
      <4>1. short \in Seq(CanonicalEvent) /\ Len(short) = n /\ n \in Nat /\ j - i + 1 = n + 1
        BY <3>2, <3>3
      <4> HIDE DEF n
      <4>2. /\ Append(short, s[j]) \in Seq(CanonicalEvent) /\ Len(Append(short, s[j])) = n + 1
            /\ \A k \in 1 .. n + 1 :
                 Append(short, s[j])[k] = IF k = n + 1 THEN s[j] ELSE short[k]
        BY <2>1, <4>1
      <4> QED
        BY <4>1, <4>2
    <3>5. ASSUME NEW k \in 1 .. j - i + 1
          PROVE  long[k] = Append(short, s[j])[k]
      <4>1. CASE k = j - i + 1
        <5>1. long[k] = s[i + k - 1] /\ i + k - 1 = j
          BY <3>1, <3>3, <4>1
        <5>2. Append(short, s[j])[k] = s[j]
          BY <3>4, <4>1
        <5> QED
          BY <5>1, <5>2
      <4>2. CASE k # j - i + 1
        <5>1. k \in 1 .. j - i
          BY <3>3, <4>2
        <5>2. Append(short, s[j])[k] = short[k]
          BY <3>4, <4>2
        <5> QED
          BY <3>1, <3>2, <5>1, <5>2
      <4> QED
        BY <4>1, <4>2
    <3>6. long = Append(short, s[j])
      BY <3>1, <3>3, <3>4, <3>5
    <3> QED
      BY <3>6 DEF long, short
  <2>3. FoldLeft(RebuildStep, InitialState(m), Append(SubSeq(s, i, j - 1), s[j])) =
          RebuildStep(FoldLeft(RebuildStep, InitialState(m), SubSeq(s, i, j - 1)), s[j])
    BY <2>1, FoldAppend
  <2> QED
    BY <2>2, <2>3 DEF Played
<1> QED
  BY <1>3, <1>4

\* The state after the event at place j is a state of the match at that event.
At(state, m, e) ==
  /\ state \in MatchState /\ state.match_id = m
  /\ state.latest_sequence = e.sequence
  /\ state.period = e.period /\ state.clock = e.clock
  /\ state.last_event_id = e.event_id

\* What was accepted from a state of the match leads to its state at the event.
LEMMA AppliedIsAt ==
  ASSUME NEW m, NEW p \in MatchState, p.match_id = m, NEW e \in CanonicalEvent, Accepts(p, e)
  PROVE  At(ApplyEvent(p, e), m, e)
<1>1. /\ ApplyEvent(p, e) \in MatchState
      /\ ApplyEvent(p, e).match_id = p.match_id
      /\ ApplyEvent(p, e).latest_sequence = e.sequence
  BY ApplyEventType
<1>2. /\ ApplyEvent(p, e).period = e.period /\ ApplyEvent(p, e).clock = e.clock
      /\ ApplyEvent(p, e).last_event_id = e.event_id
  BY DEF ApplyEvent
<1> QED
  BY <1>1, <1>2 DEF At

\* What a stretch is folded to is the state at its last event.
LEMMA PlayedIsAt ==
  ASSUME NEW m, NEW s, Replayed(s, m), NEW i \in DOMAIN s
  PROVE  /\ InitialState(m) \in MatchState /\ InitialState(m).match_id = m
         /\ \A j \in i .. Len(s) : Played(m, s, i, j) # None => At(Played(m, s, i, j), m, s[j])
<1> DEFINE P(j) == Played(m, s, i, j)
           wrong == {j \in i .. Len(s) : P(j) # None /\ ~At(P(j), m, s[j])}
<1>1. /\ DOMAIN s = 1 .. Len(s) /\ Len(s) \in Nat
      /\ \A k \in DOMAIN s : s[k] \in CanonicalEvent /\ s[k].match_id = m
  BY IndexIsPlace
<1>2. InitialState(m) \in MatchState /\ InitialState(m).match_id = m
  <2>1. m \in Matches
    BY <1>1 DEF CanonicalEvent
  <2> QED
    BY <2>1, InitialStateType DEF InitialState
<1>3. /\ P(i - 1) = InitialState(m)
      /\ \A j \in i .. Len(s) : P(j) = RebuildStep(P(j - 1), s[j])
  BY PlayedExtends
<1> HIDE DEF P
<1>4. ASSUME NEW j \in i .. Len(s), P(j) # None,
             P(j - 1) \in MatchState, P(j - 1).match_id = m
      PROVE  At(P(j), m, s[j])
  <2>1. j \in DOMAIN s /\ s[j] \in CanonicalEvent
    BY <1>1
  <2>2. Accepts(P(j - 1), s[j]) /\ P(j) = ApplyEvent(P(j - 1), s[j])
    BY <1>3, <1>4 DEF RebuildStep
  <2> QED
    BY <1>4, <2>1, <2>2, AppliedIsAt
<1>5. wrong = {}
  <2> SUFFICES ASSUME wrong # {}
               PROVE  FALSE
    OBVIOUS
  <2>1. wrong \in SUBSET Nat
    BY <1>1
  <2> HIDE DEF wrong
  <2>2. \E b \in wrong : \A c \in wrong : b <= c
    BY <2>1, LeastNumber
  <2>3. PICK b \in wrong : \A c \in wrong : b <= c
    BY <2>2
  <2>4. b \in i .. Len(s) /\ P(b) # None /\ ~At(P(b), m, s[b])
    BY DEF wrong
  <2>5. P(b - 1) # None
    BY <1>3, <2>4 DEF RebuildStep
  <2>6. CASE b = i
    <3>1. P(b - 1) \in MatchState /\ P(b - 1).match_id = m
      BY <1>2, <1>3, <2>6
    <3> QED
      BY <1>4, <2>4, <3>1
  <2>7. CASE b # i
    <3>1. b - 1 \in i .. Len(s) /\ ~(b <= b - 1)
      BY <1>1, <2>4, <2>7
    <3>2. b - 1 \notin wrong
      BY <2>3, <3>1
    <3>3. At(P(b - 1), m, s[b - 1])
      BY <2>5, <3>1, <3>2 DEF wrong
    <3>4. P(b - 1) \in MatchState /\ P(b - 1).match_id = m
      BY <3>3 DEF At
    <3> QED
      BY <1>4, <2>4, <3>4
  <2> QED
    BY <2>6, <2>7
<1>6. \A j \in i .. Len(s) : P(j) # None => At(P(j), m, s[j])
  BY <1>5
<1> QED
  BY <1>2, <1>6 DEF P

\* What follows a stretch is accepted, if it has an identity of its own and,
\* as a goal, a team: the checks of the file have seen to the rest.
LEMMA NextIsAccepted ==
  ASSUME NEW m, NEW s, Replayed(s, m), NEW j, j + 1 \in DOMAIN s, j \in DOMAIN s,
         NEW state, At(state, m, s[j]),
         s[j + 1].event_id # s[j].event_id, IsGoal(s[j + 1]) => s[j + 1].team # None
  PROVE  Accepts(state, s[j + 1])
<1> DEFINE e == s[j]
           f == s[j + 1]
<1>1. /\ e \in CanonicalEvent /\ f \in CanonicalEvent /\ f.match_id = m
      /\ f.sequence - e.sequence = (j + 1) - j /\ j \in Int
  BY IndexIsPlace
<1>2. ~OrderedBefore(f, e)
  <2>1. j < j + 1
    BY <1>1
  <2> QED
    BY <2>1 DEF Replayed, InOrderOfTime
<1>3. /\ e.sequence \in Nat /\ f.sequence \in Nat /\ e.period \in Nat /\ f.period \in Nat
      /\ e.clock \in Nat /\ f.clock \in Nat
  BY <1>1 DEF CanonicalEvent
<1> HIDE DEF e, f
<1>4. f.sequence = e.sequence + 1
  BY <1>1, <1>3
<1>5. /\ state.match_id = m /\ state.latest_sequence = e.sequence
      /\ state.period = e.period /\ state.clock = e.clock
      /\ state.last_event_id = e.event_id
  BY DEF At, e
<1>6. ~Stale(state, f) /\ ~SequenceGap(state, f)
  BY <1>3, <1>4, <1>5 DEF Stale, SequenceGap
<1>7. ~ClockRegression(state, f)
  BY <1>2, <1>3, <1>5 DEF ClockRegression, OrderedBefore
<1>8. ValidTransition(state, f)
  BY <1>1, <1>5, <1>6, <1>7 DEF ValidTransition, e, f
<1> QED
  BY <1>8 DEF Accepts, f

\* The baseline is accepted, if it is no goal of nobody.
LEMMA FirstIsAccepted ==
  ASSUME NEW m, NEW e \in CanonicalEvent, e.match_id = m, IsGoal(e) => e.team # None
  PROVE  Accepts(InitialState(m), e)
<1>1. e.event_id # None
  BY NoneAssumption DEF CanonicalEvent
<1> QED
  BY <1>1 DEF Accepts, ValidTransition, InitialState

-----------------------------------------------------------------------------
(* The contract. *)

\* What is sent as a message is read back as the same event.
LEMMA RoundTrip ==
  ASSUME NEW e \in CanonicalEvent
  PROVE  DeserializeEvent(SerializeEvent(e)) = e
<1> DEFINE w == EventToWire(e)
<1>1. /\ w.event_id = e.event_id /\ w.match_id = e.match_id /\ w.sequence = e.sequence
      /\ w.period = e.period /\ w.match_clock_seconds = e.clock
      /\ w.event_type = e.event_type /\ w.team = e.team
      /\ w.possession_team = e.possession
  BY DEF EventToWire
<1>17. w.rest = "valid" /\ w.metadata = IF e.goal THEN "goal" ELSE "no goal"
  BY DEF EventToWire
<1>2. w \in WireEvent
  BY DEF EventToWire, WireEvent, CanonicalEvent
<1>3. w \notin {Missing, None, Malformed}
  BY <1>2, MalformedAssumption
<1>4. /\ SerializeEvent(e).schema = Schema
      /\ SerializeEvent(e).schema_version = SchemaVersion
      /\ SerializeEvent(e).event = w
  BY DEF SerializeEvent
<1> HIDE DEF w
<1>5. /\ e.event_id \in EventIds /\ e.match_id \in Matches /\ e.sequence \in Nat
      /\ e.period \in Nat /\ e.clock \in Nat /\ e.event_type \in EventTypes
      /\ e.team \in Teams \cup {None} /\ e.possession \in Teams \cup {None}
  BY DEF CanonicalEvent
<1> DEFINE values == Int \cup Teams \cup EventIds \cup EventTypes \cup Matches \cup
                     {"goal", "no goal", "valid"} \cup {None}
<1>6. Missing \notin values /\ Malformed \notin values
  BY MalformedAssumption
<1>7. \A f \in Fields : w[f] \in values
  <2> SUFFICES ASSUME NEW f \in Fields
               PROVE  w[f] \in values
    OBVIOUS
  <2>1. /\ w.event_id \in values /\ w.match_id \in values /\ w.sequence \in values
        /\ w.period \in values /\ w.match_clock_seconds \in values
        /\ w.event_type \in values /\ w.team \in values /\ w.possession_team \in values
        /\ w.rest \in values /\ w.metadata \in values
    <3>1. /\ w.event_id \in EventIds /\ w.match_id \in Matches /\ w.sequence \in Int
          /\ w.period \in Int /\ w.match_clock_seconds \in Int
          /\ w.event_type \in EventTypes /\ w.team \in Teams \cup {None}
          /\ w.possession_team \in Teams \cup {None}
      BY <1>1, <1>5
    <3>2. w.rest \in {"valid"} /\ w.metadata \in {"goal", "no goal"}
      BY <1>17
    <3> HIDE DEF values
    <3>3. /\ Int \subseteq values /\ Teams \cup {None} \subseteq values /\ EventIds \subseteq values
          /\ EventTypes \subseteq values /\ Matches \subseteq values
          /\ {"valid"} \subseteq values /\ {"goal", "no goal"} \subseteq values
      BY DEF values
    <3> QED
      BY <3>1, <3>2, <3>3
  <2> HIDE DEF values
  <2> QED
    BY <2>1 DEF Fields
<1> HIDE DEF values
<1>8. \A f \in Fields : w[f] # Missing /\ w[f] # Malformed
  BY <1>6, <1>7
<1>9. \A f \in {"event_id", "match_id", "event_type", "sequence", "period",
                "match_clock_seconds"} : WellFormed(w[f])
  <2> SUFFICES ASSUME NEW f \in {"event_id", "match_id", "event_type", "sequence", "period",
                                "match_clock_seconds"}
               PROVE  WellFormed(w[f])
    OBVIOUS
  <2>1. f \in Fields
    BY DEF Fields
  <2>2. /\ w.event_id # None /\ w.match_id # None /\ w.event_type # None
        /\ w.sequence # None /\ w.period # None /\ w.match_clock_seconds # None
    BY <1>1, <1>5, NoneAssumption
  <2>3. w[f] # None
    BY <2>2
  <2> QED
    BY <1>8, <2>1, <2>3 DEF WellFormed
<1>10. NullOrWellFormed(w.team) /\ NullOrWellFormed(w.possession_team) /\ w.rest # Malformed
  BY <1>8 DEF NullOrWellFormed, Fields
<1>11. InRange(w)
  <2>1. e.sequence \in Nat /\ e.period \in Nat \ {0} /\ e.clock \in Nat
    BY DEF CanonicalEvent
  <2>2. e.sequence >= 0 /\ e.period >= 1 /\ e.clock >= 0
    BY <2>1
  <2> QED
    BY <1>1, <2>2 DEF InRange
<1>12. Acceptable(w)
  BY <1>8, <1>9, <1>10, <1>11 DEF Acceptable
<1>13. DeserializeEvent(SerializeEvent(e)) = EventFromWire(w)
  BY <1>3, <1>4, <1>12 DEF DeserializeEvent
<1>14. (w.metadata = "goal") <=> e.goal
  BY <1>17
<1>15. EventFromWire(w) = [event_id |-> e.event_id, match_id |-> e.match_id,
                          sequence |-> e.sequence, period |-> e.period, clock |-> e.clock,
                          event_type |-> e.event_type, goal |-> e.goal,
                          team |-> e.team, possession |-> e.possession]
  <2>1. (w.metadata = "goal") = e.goal
    BY <1>14 DEF CanonicalEvent
  <2> QED
    BY <1>1, <2>1 DEF EventFromWire
<1>16. e = [event_id |-> e.event_id, match_id |-> e.match_id,
            sequence |-> e.sequence, period |-> e.period, clock |-> e.clock,
            event_type |-> e.event_type, goal |-> e.goal,
            team |-> e.team, possession |-> e.possession]
  BY DEF CanonicalEvent
<1> QED
  BY <1>13, <1>15, <1>16

\* What others publish is not taken for an event.
StrangersRefused == \A message \in Strange : DeserializeEvent(message) = None

Messages == Strange \cup {SerializeEvent(e) : e \in CanonicalEvent}

\* A message decodes to an event or is refused.
LEMMA MessageType ==
  ASSUME StrangersRefused, NEW message \in Messages
  PROVE  /\ DeserializeEvent(message) \in CanonicalEvent \cup {None}
         /\ DeserializeEvent(message) # None =>
              /\ message \notin Strange /\ DeserializeEvent(message) \in CanonicalEvent
<1>1. CASE message \in Strange
  BY <1>1 DEF StrangersRefused
<1>2. CASE message \notin Strange
  <2>1. PICK e \in CanonicalEvent : message = SerializeEvent(e)
    BY <1>2 DEF Messages
  <2> QED
    BY <1>2, <2>1, RoundTrip
<1> QED
  BY <1>1, <1>2

-----------------------------------------------------------------------------
(* What is published. *)

Loaded == ConvertEvents(file.array, file.match)

Decoded(i) == DeserializeEvent(topic[i])

\* The file does not change, and the events are what it holds.
EventsInv ==
  /\ file \in Files /\ command \in Commands
  /\ events = <<>> \/ (events = Loaded /\ Loaded # None)

\* Message i is an event of the replay, and all that precede it come before.
InTurn(i) ==
  \E k \in DOMAIN events :
    /\ Decoded(i) = events[k]
    /\ \A l \in 1 .. k - 1 : \E j \in 1 .. i - 1 : Decoded(j) = events[l]

LogInv ==
  /\ topic \in Seq(Messages)
  /\ \A i \in 1 .. Len(topic) : topic[i] \notin Strange => InTurn(i)

\* What a producer has sent is in the topic; what may still arrive comes next.
SenderInv(p) ==
  /\ sent[p] \in 0 .. Len(events)
  /\ \A l \in 1 .. sent[p] : \E j \in 1 .. Len(topic) : Decoded(j) = events[l]
  /\ inFlight[p] # None =>
       /\ ppc[p] = "closing" /\ sent[p] < Len(events)
       /\ inFlight[p] = SerializeEvent(events[sent[p] + 1])

ProducerInv ==
  /\ ppc \in [Producers -> {"down", "publishing", "closing", "done", "refused"}]
  /\ DOMAIN sent = Producers /\ DOMAIN inFlight = Producers
  /\ \A p \in Producers : SenderInv(p)

PublishInv == EventsInv /\ LogInv /\ ProducerInv

\* The events are a replay of the file's match.
LEMMA EventsAreReplay ==
  ASSUME EventsInv
  PROVE  Replayed(events, Match)
<1>1. CASE events = <<>>
  <2>1. <<>> \in Seq(CanonicalEvent) /\ DOMAIN <<>> = {} /\ Len(<<>>) = 0
    OBVIOUS
  <2> QED
    BY <1>1, <2>1 DEF Replayed, InOrderOfTime, Contiguous
<1>2. CASE events # <<>>
  <2>1. file \in Files /\ events = ConvertEvents(file.array, file.match) /\ events # None
    BY <1>2 DEF EventsInv, Loaded
  <2> QED
    BY <2>1, LoadedFile DEF Match
<1> QED
  BY <1>1, <1>2

\* The steps of those who publish.
Publishing ==
  \/ \E p \in Producers : Load(p) \/ Publish(p) \/ PClose(p) \/ PublishFails(p) \/ PCrash(p)
  \/ Stranger

\* A step is one of theirs, or touches nothing of theirs.
LEMMA Sides ==
  ASSUME [Next]_vars
  PROVE  \/ Publishing /\ UNCHANGED <<input, group, member, store, reader>>
         \/ UNCHANGED <<input, events, producer, topic>>
<1>1. CASE UNCHANGED vars
  BY <1>1 DEF vars
<1>2. ASSUME NEW p \in Producers, Produce(p) \/ PublishFails(p) \/ PCrash(p)
      PROVE  Publishing /\ UNCHANGED <<input, group, member, store, reader>>
  <2>1. Publishing
    BY <1>2 DEF Publishing, Produce
  <2>2. UNCHANGED <<input, group, member, store, reader>>
    BY <1>2 DEF Produce, Load, Publish, PClose, PublishFails, PCrash
  <2> QED
    BY <2>1, <2>2
<1>3. CASE Stranger
  <2>1. UNCHANGED <<input, group, member, store, reader>>
    BY <1>3 DEF Stranger
  <2> QED
    BY <1>3, <2>1 DEF Publishing
<1>4. ASSUME NEW c \in Members,
             Start(c) \/ Assign(c) \/ Work(c) \/ PollNothing(c) \/ CommitFails(c) \/ Crash(c)
      PROVE  UNCHANGED <<input, events, producer, topic>>
  BY <1>4 DEF Start, Assign, Work, Poll, Process, Commit, Close, PollNothing, CommitFails,
              Crash, Gone, vars
<1>5. CASE FindMatch \/ ReadPage
  BY <1>5 DEF FindMatch, ReadPage
<1> QED
  BY <1>1, <1>2, <1>3, <1>4, <1>5 DEF Next

\* Events and messages are never taken back.
Grown ==
  /\ Len(topic) \in Nat /\ Len(topic') \in Nat /\ Len(topic) <= Len(topic')
  /\ \A i \in 1 .. Len(topic) : topic'[i] = topic[i]
  /\ Len(events) \in Nat /\ Len(events') \in Nat /\ Len(events) <= Len(events')
  /\ DOMAIN events = 1 .. Len(events) /\ DOMAIN events' = 1 .. Len(events')
  /\ \A k \in 1 .. Len(events) : events'[k] = events[k]

\* A message that is in its turn stays so.
LEMMA InTurnKept ==
  ASSUME Grown, NEW i \in 1 .. Len(topic), InTurn(i)
  PROVE  InTurn(i)'
<1>1. PICK k \in DOMAIN events :
        /\ Decoded(i) = events[k]
        /\ \A l \in 1 .. k - 1 : \E j \in 1 .. i - 1 : Decoded(j) = events[l]
  BY DEF InTurn
<1>2. k \in 1 .. Len(events) /\ k \in DOMAIN events' /\ events'[k] = events[k]
  BY DEF Grown
<1>3. Decoded(i)' = Decoded(i)
  BY DEF Decoded, Grown
<1>4. ASSUME NEW l \in 1 .. k - 1
      PROVE  \E j \in 1 .. i - 1 : Decoded(j)' = events'[l]
  <2>1. PICK j \in 1 .. i - 1 : Decoded(j) = events[l]
    BY <1>1
  <2>2. j \in 1 .. Len(topic) /\ l \in 1 .. Len(events)
    BY <1>2 DEF Grown
  <2>3. Decoded(j)' = Decoded(j) /\ events'[l] = events[l]
    BY <2>2 DEF Decoded, Grown
  <2> QED
    BY <2>1, <2>3
<1> QED
  BY <1>1, <1>2, <1>3, <1>4 DEF InTurn

\* What was sent stays in the topic.
LEMMA SentKept ==
  ASSUME Grown, NEW n \in Nat, n <= Len(events),
         \A l \in 1 .. n : \E j \in 1 .. Len(topic) : Decoded(j) = events[l]
  PROVE  \A l \in 1 .. n : \E j \in 1 .. Len(topic') : Decoded(j)' = events'[l]
<1> SUFFICES ASSUME NEW l \in 1 .. n
             PROVE  \E j \in 1 .. Len(topic') : Decoded(j)' = events'[l]
  OBVIOUS
<1>1. PICK j \in 1 .. Len(topic) : Decoded(j) = events[l]
  OBVIOUS
<1>2. j \in 1 .. Len(topic') /\ l \in 1 .. Len(events)
  BY DEF Grown
<1>3. Decoded(j)' = Decoded(j) /\ events'[l] = events[l]
  BY <1>2 DEF Decoded, Grown
<1> QED
  BY <1>1, <1>2, <1>3

\* A message that is appended.
LEMMA Appended ==
  ASSUME LogInv, NEW message \in Messages, topic' = Append(topic, message)
  PROVE  /\ topic' \in Seq(Messages) /\ Len(topic') = Len(topic) + 1 /\ Len(topic) \in Nat
         /\ \A i \in 1 .. Len(topic) : topic'[i] = topic[i]
         /\ topic'[Len(topic) + 1] = message
BY DEF LogInv

\* A producer that does nothing while others publish.
LEMMA SenderKept ==
  ASSUME Grown, NEW p, SenderInv(p), sent'[p] = sent[p], inFlight'[p] = inFlight[p],
         ppc'[p] = ppc[p] \/ inFlight[p] = None
  PROVE  SenderInv(p)'
<1>1. /\ sent[p] \in 0 .. Len(events)
      /\ \A l \in 1 .. sent[p] : \E j \in 1 .. Len(topic) : Decoded(j) = events[l]
      /\ inFlight[p] # None =>
           /\ ppc[p] = "closing" /\ sent[p] < Len(events)
           /\ inFlight[p] = SerializeEvent(events[sent[p] + 1])
  BY DEF SenderInv
<1>2. sent[p] \in Nat /\ sent[p] <= Len(events) /\ sent[p] \in 0 .. Len(events')
  BY <1>1 DEF Grown
<1>3. \A l \in 1 .. sent[p] : \E j \in 1 .. Len(topic') : Decoded(j)' = events'[l]
  BY <1>1, <1>2, SentKept
<1>4. ASSUME inFlight[p] # None
      PROVE  /\ ppc'[p] = "closing" /\ sent[p] < Len(events')
             /\ inFlight[p] = SerializeEvent(events'[sent[p] + 1])
  <2>1. sent[p] < Len(events) /\ sent[p] + 1 \in 1 .. Len(events)
    BY <1>1, <1>2, <1>4 DEF Grown
  <2>2. events'[sent[p] + 1] = events[sent[p] + 1] /\ sent[p] < Len(events')
    BY <1>2, <2>1 DEF Grown
  <2> QED
    BY <1>1, <1>4, <2>2
<1> QED
  BY <1>2, <1>3, <1>4 DEF SenderInv

\* What a step of a publisher must see to.
LEMMA PublishKept ==
  ASSUME PublishInv, Grown, EventsInv', topic' \in Seq(Messages),
         \A i \in Len(topic) + 1 .. Len(topic') : topic'[i] \notin Strange => InTurn(i)',
         ppc' \in [Producers -> {"down", "publishing", "closing", "done", "refused"}],
         DOMAIN sent' = Producers, DOMAIN inFlight' = Producers,
         \A p \in Producers :
           \/ SenderInv(p)'
           \/ /\ sent'[p] = sent[p] /\ inFlight'[p] = inFlight[p]
              /\ ppc'[p] = ppc[p] \/ inFlight[p] = None
  PROVE  PublishInv' /\ Grown
<1>1. ASSUME NEW i \in 1 .. Len(topic'), topic'[i] \notin Strange
      PROVE  InTurn(i)'
  <2>1. CASE i \in 1 .. Len(topic)
    <3>1. topic[i] \notin Strange
      BY <1>1, <2>1 DEF Grown
    <3>2. InTurn(i)
      BY <2>1, <3>1 DEF PublishInv, LogInv
    <3> QED
      BY <2>1, <3>2, InTurnKept
  <2>2. CASE i \notin 1 .. Len(topic)
    <3>1. i \in Len(topic) + 1 .. Len(topic')
      BY <2>2 DEF Grown
    <3> QED
      BY <1>1, <3>1
  <2> QED
    BY <2>1, <2>2
<1>2. LogInv'
  BY <1>1 DEF LogInv
<1>3. ASSUME NEW p \in Producers
      PROVE  SenderInv(p)'
  <2>1. SenderInv(p)
    BY DEF PublishInv, ProducerInv
  <2> QED
    BY <2>1, SenderKept
<1>4. ProducerInv'
  BY <1>3 DEF ProducerInv
<1> QED
  BY <1>2, <1>4 DEF PublishInv

\* Nothing is published.
LEMMA NothingGrown ==
  ASSUME PublishInv, UNCHANGED <<events, topic>>
  PROVE  Grown /\ topic' \in Seq(Messages) /\ Len(topic) + 1 .. Len(topic') = {}
<1>1. events \in Seq(CanonicalEvent) /\ topic \in Seq(Messages)
  BY EventsAreReplay DEF Replayed, PublishInv, LogInv
<1> QED
  BY <1>1 DEF Grown

\* A message is published.
LEMMA OneGrown ==
  ASSUME PublishInv, events' = events, NEW message \in Messages, topic' = Append(topic, message)
  PROVE  /\ Grown /\ topic' \in Seq(Messages)
         /\ Len(topic') = Len(topic) + 1
         /\ Len(topic) + 1 .. Len(topic') = {Len(topic) + 1}
         /\ topic'[Len(topic) + 1] = message
<1>1. events \in Seq(CanonicalEvent)
  BY EventsAreReplay DEF Replayed, PublishInv
<1>2. /\ topic' \in Seq(Messages) /\ Len(topic') = Len(topic) + 1 /\ Len(topic) \in Nat
      /\ \A i \in 1 .. Len(topic) : topic'[i] = topic[i]
      /\ topic'[Len(topic) + 1] = message
  BY Appended DEF PublishInv
<1>3. Len(topic) + 1 .. Len(topic) + 1 = {Len(topic) + 1}
  BY <1>2
<1>4. Grown
  BY <1>1, <1>2 DEF Grown
<1> QED
  BY <1>2, <1>3, <1>4

\* The next event of a producer comes in its turn.
LEMMA NextInTurn ==
  ASSUME PublishInv, NEW p \in Producers, sent[p] < Len(events), events' = events,
         topic' = Append(topic, SerializeEvent(events[sent[p] + 1]))
  PROVE  /\ Grown /\ topic' \in Seq(Messages)
         /\ \A i \in Len(topic) + 1 .. Len(topic') : InTurn(i)'
         /\ \A l \in 1 .. sent[p] + 1 : \E j \in 1 .. Len(topic') : Decoded(j)' = events[l]
<1> DEFINE n == sent[p] + 1
           e == events[n]
<1>1. events \in Seq(CanonicalEvent) /\ DOMAIN events = 1 .. Len(events)
  BY EventsAreReplay DEF Replayed, PublishInv
<1>2. /\ sent[p] \in 0 .. Len(events)
      /\ \A l \in 1 .. sent[p] : \E j \in 1 .. Len(topic) : Decoded(j) = events[l]
  BY DEF PublishInv, ProducerInv, SenderInv
<1>3. n \in 1 .. Len(events) /\ n - 1 = sent[p] /\ n \in DOMAIN events /\ e \in CanonicalEvent
  BY <1>1, <1>2
<1>4. SerializeEvent(e) \in Messages
  BY <1>3 DEF Messages
<1>5. /\ Grown /\ topic' \in Seq(Messages)
      /\ Len(topic') = Len(topic) + 1
      /\ Len(topic) + 1 .. Len(topic') = {Len(topic) + 1}
      /\ topic'[Len(topic) + 1] = SerializeEvent(e)
  BY <1>4, OneGrown
<1>6. PICK last : last = Len(topic) + 1
  OBVIOUS
<1>7. last \in Nat /\ last \in 1 .. Len(topic') /\ last - 1 = Len(topic)
  BY <1>5, <1>6 DEF Grown
<1>8. Decoded(last)' = e
  BY <1>3, <1>5, <1>6, RoundTrip DEF Decoded
<1>9. \A i \in 1 .. Len(topic) : Decoded(i)' = Decoded(i)
  BY <1>5 DEF Decoded, Grown
<1>10. \A l \in 1 .. n - 1 : \E j \in 1 .. last - 1 : Decoded(j)' = events[l]
  BY <1>2, <1>3, <1>7, <1>9
<1>11. InTurn(last)'
  <2>1. \E k \in DOMAIN events :
          /\ Decoded(last)' = events[k]
          /\ \A l \in 1 .. k - 1 : \E j \in 1 .. last - 1 : Decoded(j)' = events[l]
    BY <1>3, <1>8, <1>10
  <2> QED
    BY <2>1 DEF InTurn
<1>12. ASSUME NEW l \in 1 .. n
       PROVE  \E j \in 1 .. Len(topic') : Decoded(j)' = events[l]
  <2>1. CASE l = n
    <3>1. Decoded(last)' = events[l]
      BY <1>8, <2>1
    <3> QED
      BY <1>7, <3>1
  <2>2. CASE l # n
    <3>1. l \in 1 .. n - 1
      BY <1>2, <2>2
    <3>2. PICK j \in 1 .. last - 1 : Decoded(j)' = events[l]
      BY <1>10, <3>1
    <3>3. j \in 1 .. Len(topic')
      BY <1>7
    <3> QED
      BY <3>2, <3>3
  <2> QED
    BY <2>1, <2>2
<1>13. \A i \in Len(topic) + 1 .. Len(topic') : InTurn(i)'
  <2> SUFFICES ASSUME NEW i \in Len(topic) + 1 .. Len(topic')
               PROVE  InTurn(i)'
    OBVIOUS
  <2>1. i = last
    BY <1>5, <1>6
  <2> QED
    BY <1>11, <2>1
<1> HIDE DEF e
<1> QED
  BY <1>5, <1>12, <1>13

\* The file is loaded, for the first time or again.
LEMMA LoadStep ==
  ASSUME PublishInv, NEW p \in Producers, Load(p)
  PROVE  PublishInv' /\ Grown
<1>1. /\ ppc[p] \in {"down", "done"}
      /\ UNCHANGED <<input, inFlight, topic>>
      /\ file' = file /\ command' = command /\ topic' = topic /\ inFlight' = inFlight
  BY DEF Load, input
<1>2. inFlight[p] = None
  BY <1>1 DEF PublishInv, ProducerInv, SenderInv
<1>3. Loaded' = Loaded
  BY <1>1 DEF Loaded
<1>4. CASE Loaded = None
  <2>1. ppc' = [ppc EXCEPT ![p] = "refused"] /\ UNCHANGED <<events, sent>>
    BY <1>4 DEF Load, Loaded, PGoto
  <2>2. EventsInv'
    BY <1>1, <1>3, <2>1 DEF PublishInv, EventsInv
  <2>3. Grown /\ topic' \in Seq(Messages) /\ Len(topic) + 1 .. Len(topic') = {}
    BY <1>1, <2>1, NothingGrown
  <2>4. ppc' \in [Producers -> {"down", "publishing", "closing", "done", "refused"}]
    BY <2>1 DEF PublishInv, ProducerInv
  <2>5. \A q \in Producers : ppc'[q] = ppc[q] \/ inFlight[q] = None
    BY <1>2, <2>1 DEF PublishInv, ProducerInv
  <2>6. DOMAIN sent' = Producers /\ DOMAIN inFlight' = Producers /\ sent' = sent
    BY <1>1, <2>1 DEF PublishInv, ProducerInv
  <2> QED
    BY <1>1, <2>2, <2>3, <2>4, <2>5, <2>6, PublishKept
<1>5. CASE Loaded # None
  <2>1. /\ ppc' = [ppc EXCEPT ![p] = "publishing"]
        /\ events' = Replay(Loaded)
        /\ sent' = [sent EXCEPT ![p] = 0]
    BY <1>5 DEF Load, Loaded, PGoto
  <2>2. file \in Files /\ Loaded = ConvertEvents(file.array, file.match)
    BY DEF PublishInv, EventsInv, Loaded
  <2>3. Replay(Loaded) = Loaded /\ Replayed(Loaded, file.match)
    BY <1>5, <2>2, LoadedFile
  <2>4. events' = Loaded
    BY <2>1, <2>3
  <2>5. EventsInv'
    BY <1>1, <1>3, <1>5, <2>4 DEF PublishInv, EventsInv
  <2>6. Grown /\ topic' \in Seq(Messages) /\ Len(topic) + 1 .. Len(topic') = {}
    <3>1. topic \in Seq(Messages)
      BY DEF PublishInv, LogInv
    <3>2. events' \in Seq(CanonicalEvent)
      BY <2>3, <2>4 DEF Replayed
    <3>3. events = <<>> \/ events = events'
      BY <2>4 DEF PublishInv, EventsInv
    <3>4. CASE events = <<>>
      <4>1. Len(events) = 0 /\ DOMAIN events = {} /\ 1 .. 0 = {}
        BY <3>4
      <4> QED
        BY <1>1, <3>1, <3>2, <4>1 DEF Grown
    <3>5. CASE events = events'
      BY <1>1, <3>1, <3>2, <3>5 DEF Grown
    <3> QED
      BY <3>3, <3>4, <3>5
  <2>7. ppc' \in [Producers -> {"down", "publishing", "closing", "done", "refused"}]
    BY <2>1 DEF PublishInv, ProducerInv
  <2>8. DOMAIN sent' = Producers /\ DOMAIN inFlight' = Producers
    BY <1>1, <2>1 DEF PublishInv, ProducerInv
  <2>9. ASSUME NEW q \in Producers
        PROVE  \/ SenderInv(q)'
               \/ /\ sent'[q] = sent[q] /\ inFlight'[q] = inFlight[q]
                  /\ ppc'[q] = ppc[q] \/ inFlight[q] = None
    <3>1. CASE q = p
      <4>1. sent'[p] = 0 /\ inFlight'[p] = None
        BY <1>1, <1>2, <2>1 DEF PublishInv, ProducerInv
      <4>2. 0 \in 0 .. Len(events') /\ 1 .. 0 = {}
        BY <2>6 DEF Grown
      <4> QED
        BY <3>1, <4>1, <4>2 DEF SenderInv
    <3>2. CASE q # p
      BY <1>1, <2>1, <3>2 DEF PublishInv, ProducerInv
    <3> QED
      BY <3>1, <3>2
  <2> QED
    BY <2>5, <2>6, <2>7, <2>8, <2>9, PublishKept
<1> QED
  BY <1>4, <1>5

\* The events stay while the file does.
LEMMA EventsKept ==
  ASSUME PublishInv, UNCHANGED <<input, events>>
  PROVE  EventsInv'
<1>1. file' = file /\ command' = command /\ events' = events
  BY DEF input
<1> QED
  BY <1>1 DEF PublishInv, EventsInv, Loaded

\* An event is published and confirmed.
LEMMA PublisherStep ==
  ASSUME PublishInv, NEW p \in Producers, Publish(p)
  PROVE  PublishInv' /\ Grown
<1>1. /\ ppc[p] = "publishing" /\ sent[p] < Len(events)
      /\ topic' = Append(topic, SerializeEvent(events[sent[p] + 1]))
      /\ sent' = [sent EXCEPT ![p] = @ + 1]
      /\ UNCHANGED <<input, events, ppc, inFlight>>
      /\ events' = events /\ ppc' = ppc /\ inFlight' = inFlight
  BY DEF Publish, NextMessage
<1>2. EventsInv'
  BY <1>1, EventsKept
<1>3. /\ Grown /\ topic' \in Seq(Messages)
      /\ \A i \in Len(topic) + 1 .. Len(topic') : InTurn(i)'
      /\ \A l \in 1 .. sent[p] + 1 : \E j \in 1 .. Len(topic') : Decoded(j)' = events[l]
  BY <1>1, NextInTurn
<1>4. /\ ppc' \in [Producers -> {"down", "publishing", "closing", "done", "refused"}]
      /\ DOMAIN sent' = Producers /\ DOMAIN inFlight' = Producers
      /\ sent[p] \in 0 .. Len(events) /\ inFlight[p] = None
  BY <1>1 DEF PublishInv, ProducerInv, SenderInv
<1>5. ASSUME NEW q \in Producers
      PROVE  \/ SenderInv(q)'
             \/ /\ sent'[q] = sent[q] /\ inFlight'[q] = inFlight[q]
                /\ ppc'[q] = ppc[q] \/ inFlight[q] = None
  <2>1. CASE q = p
    <3>1. sent'[p] = sent[p] + 1 /\ inFlight'[p] = None
      BY <1>1, <1>4 DEF PublishInv, ProducerInv
    <3>2. sent[p] + 1 \in 0 .. Len(events') /\ Len(events) \in Nat
      BY <1>1, <1>3, <1>4 DEF Grown
    <3>3. \A l \in 1 .. sent[p] + 1 : \E j \in 1 .. Len(topic') : Decoded(j)' = events'[l]
      BY <1>1, <1>3
    <3> QED
      BY <2>1, <3>1, <3>2, <3>3 DEF SenderInv
  <2>2. CASE q # p
    BY <1>1, <2>2 DEF PublishInv, ProducerInv
  <2> QED
    BY <2>1, <2>2
<1> QED
  BY <1>2, <1>3, <1>4, <1>5, PublishKept

\* A publication fails, and its message may still be in the queue.
LEMMA FailedStep ==
  ASSUME PublishInv, NEW p \in Producers, PublishFails(p)
  PROVE  PublishInv' /\ Grown
<1>1. /\ ppc[p] = "publishing" /\ sent[p] < Len(events)
      /\ ppc' = [ppc EXCEPT ![p] = "closing"]
      /\ \E left \in {None, SerializeEvent(events[sent[p] + 1])} :
           inFlight' = [inFlight EXCEPT ![p] = left]
      /\ UNCHANGED <<input, events>> /\ events' = events /\ topic' = topic /\ sent' = sent
  BY DEF PublishFails, NextMessage, PGoto
<1>2. PICK left \in {None, SerializeEvent(events[sent[p] + 1])} :
        inFlight' = [inFlight EXCEPT ![p] = left]
  BY <1>1
<1>3. EventsInv'
  BY <1>1, EventsKept
<1>4. Grown /\ topic' \in Seq(Messages) /\ Len(topic) + 1 .. Len(topic') = {}
  BY <1>1, NothingGrown
<1>5. /\ ppc' \in [Producers -> {"down", "publishing", "closing", "done", "refused"}]
      /\ DOMAIN sent' = Producers /\ DOMAIN inFlight' = Producers
  BY <1>1, <1>2 DEF PublishInv, ProducerInv
<1>6. ASSUME NEW q \in Producers
      PROVE  \/ SenderInv(q)'
             \/ /\ sent'[q] = sent[q] /\ inFlight'[q] = inFlight[q]
                /\ ppc'[q] = ppc[q] \/ inFlight[q] = None
  <2>1. CASE q = p
    <3>1. sent'[p] = sent[p] /\ inFlight'[p] = left /\ ppc'[p] = "closing"
      BY <1>1, <1>2 DEF PublishInv, ProducerInv
    <3>2. /\ sent[p] \in 0 .. Len(events)
          /\ \A l \in 1 .. sent[p] : \E j \in 1 .. Len(topic) : Decoded(j) = events[l]
      BY DEF PublishInv, ProducerInv, SenderInv
    <3>3. \A l \in 1 .. sent[p] : \E j \in 1 .. Len(topic) : Decoded(j)' = events'[l]
      BY <1>1, <3>2 DEF Decoded
    <3> QED
      BY <1>1, <1>2, <2>1, <3>1, <3>2, <3>3 DEF SenderInv
  <2>2. CASE q # p
    BY <1>1, <1>2, <2>2 DEF PublishInv, ProducerInv
  <2> QED
    BY <2>1, <2>2
<1> QED
  BY <1>3, <1>4, <1>5, <1>6, PublishKept

\* A producer that ends leaves nothing in its queue.
LEMMA EmptyQueue ==
  ASSUME PublishInv, Grown, NEW p \in Producers, sent' = sent,
         inFlight' = [inFlight EXCEPT ![p] = None],
         NEW label, ppc' = [ppc EXCEPT ![p] = label]
  PROVE  \A q \in Producers :
           \/ SenderInv(q)'
           \/ /\ sent'[q] = sent[q] /\ inFlight'[q] = inFlight[q]
              /\ ppc'[q] = ppc[q] \/ inFlight[q] = None
<1>1. ASSUME NEW q \in Producers
      PROVE  \/ SenderInv(q)'
             \/ /\ sent'[q] = sent[q] /\ inFlight'[q] = inFlight[q]
                /\ ppc'[q] = ppc[q] \/ inFlight[q] = None
  <2>1. CASE q = p
    <3>1. inFlight'[p] = None
      BY DEF PublishInv, ProducerInv
    <3>2. /\ sent[p] \in 0 .. Len(events)
          /\ \A l \in 1 .. sent[p] : \E j \in 1 .. Len(topic) : Decoded(j) = events[l]
      BY DEF PublishInv, ProducerInv, SenderInv
    <3>3. sent[p] \in Nat /\ sent[p] <= Len(events) /\ sent[p] \in 0 .. Len(events')
      BY <3>2 DEF Grown
    <3>4. \A l \in 1 .. sent[p] : \E j \in 1 .. Len(topic') : Decoded(j)' = events'[l]
      BY <3>2, <3>3, SentKept
    <3> QED
      BY <2>1, <3>1, <3>3, <3>4 DEF SenderInv
  <2>2. CASE q # p
    BY <2>2 DEF PublishInv, ProducerInv
  <2> QED
    BY <2>1, <2>2
<1> QED
  BY <1>1

\* A producer closes; what was in its queue arrives, or not.
LEMMA CloseStep ==
  ASSUME PublishInv, NEW p \in Producers, PClose(p)
  PROVE  PublishInv' /\ Grown
<1>1. /\ UNCHANGED <<input, events>> /\ events' = events /\ sent' = sent
      /\ inFlight' = [inFlight EXCEPT ![p] = None]
      /\ \/ topic' = topic
         \/ inFlight[p] # None /\ topic' = Append(topic, inFlight[p])
  BY DEF PClose
<1>2. PICK label \in {"done", "down"} : ppc' = [ppc EXCEPT ![p] = label]
  BY DEF PClose, PGoto
<1>3. EventsInv'
  BY <1>1, EventsKept
<1>4. /\ Grown /\ topic' \in Seq(Messages)
      /\ \A i \in Len(topic) + 1 .. Len(topic') : InTurn(i)'
  <2>1. CASE topic' = topic
    BY <1>1, <2>1, NothingGrown
  <2>2. CASE inFlight[p] # None /\ topic' = Append(topic, inFlight[p])
    <3>1. sent[p] < Len(events) /\ inFlight[p] = SerializeEvent(events[sent[p] + 1])
      BY <2>2 DEF PublishInv, ProducerInv, SenderInv
    <3> QED
      BY <1>1, <2>2, <3>1, NextInTurn
  <2> QED
    BY <1>1, <2>1, <2>2
<1>5. /\ ppc' \in [Producers -> {"down", "publishing", "closing", "done", "refused"}]
      /\ DOMAIN sent' = Producers /\ DOMAIN inFlight' = Producers
  BY <1>1, <1>2 DEF PublishInv, ProducerInv
<1>6. \A q \in Producers :
        \/ SenderInv(q)'
        \/ /\ sent'[q] = sent[q] /\ inFlight'[q] = inFlight[q]
           /\ ppc'[q] = ppc[q] \/ inFlight[q] = None
  BY <1>1, <1>2, <1>4, EmptyQueue
<1> QED
  BY <1>3, <1>4, <1>5, <1>6, PublishKept

\* A producer is killed.
LEMMA KilledStep ==
  ASSUME PublishInv, NEW p \in Producers, PCrash(p)
  PROVE  PublishInv' /\ Grown
<1>1. /\ UNCHANGED <<input, events>> /\ events' = events /\ sent' = sent /\ topic' = topic
      /\ inFlight' = [inFlight EXCEPT ![p] = None]
      /\ ppc' = [ppc EXCEPT ![p] = "down"]
  BY DEF PCrash, PGoto
<1>2. EventsInv'
  BY <1>1, EventsKept
<1>3. Grown /\ topic' \in Seq(Messages) /\ Len(topic) + 1 .. Len(topic') = {}
  BY <1>1, NothingGrown
<1>4. /\ ppc' \in [Producers -> {"down", "publishing", "closing", "done", "refused"}]
      /\ DOMAIN sent' = Producers /\ DOMAIN inFlight' = Producers
  BY <1>1 DEF PublishInv, ProducerInv
<1>5. \A q \in Producers :
        \/ SenderInv(q)'
        \/ /\ sent'[q] = sent[q] /\ inFlight'[q] = inFlight[q]
           /\ ppc'[q] = ppc[q] \/ inFlight[q] = None
  BY <1>1, <1>3, EmptyQueue
<1> QED
  BY <1>2, <1>3, <1>4, <1>5, PublishKept

\* Somebody else publishes.
LEMMA StrangerStep ==
  ASSUME PublishInv, Stranger
  PROVE  PublishInv' /\ Grown
<1>1. /\ UNCHANGED <<input, events>> /\ events' = events
      /\ ppc' = ppc /\ sent' = sent /\ inFlight' = inFlight
  BY DEF Stranger, producer
<1>2. PICK message \in Strange : topic' = Append(topic, message)
  BY DEF Stranger
<1>3. message \in Messages
  BY DEF Messages
<1>4. EventsInv'
  BY <1>1, EventsKept
<1>5. /\ Grown /\ topic' \in Seq(Messages)
      /\ Len(topic) + 1 .. Len(topic') = {Len(topic) + 1}
      /\ topic'[Len(topic) + 1] = message
  BY <1>1, <1>2, <1>3, OneGrown
<1>6. \A i \in Len(topic) + 1 .. Len(topic') : topic'[i] \in Strange
  BY <1>5
<1>7. /\ ppc' \in [Producers -> {"down", "publishing", "closing", "done", "refused"}]
      /\ DOMAIN sent' = Producers /\ DOMAIN inFlight' = Producers
  BY <1>1 DEF PublishInv, ProducerInv
<1> QED
  BY <1>1, <1>4, <1>5, <1>6, <1>7, PublishKept

\* Whatever happens, the topic stays in order.
LEMMA PublishStep == PublishInv /\ [Next]_vars => PublishInv' /\ Grown
<1> SUFFICES ASSUME PublishInv, [Next]_vars
             PROVE  PublishInv' /\ Grown
  OBVIOUS
<1>1. CASE Publishing
  BY <1>1, LoadStep, PublisherStep, CloseStep, FailedStep, KilledStep, StrangerStep
     DEF Publishing
<1>2. CASE UNCHANGED <<input, events, producer, topic>>
  <2>1. /\ UNCHANGED <<input, events, topic>> /\ UNCHANGED <<input, events>>
        /\ ppc' = ppc /\ sent' = sent /\ inFlight' = inFlight
    BY <1>2 DEF producer
  <2>2. EventsInv'
    BY <2>1, EventsKept
  <2>3. Grown /\ topic' \in Seq(Messages) /\ Len(topic) + 1 .. Len(topic') = {}
    BY <2>1, NothingGrown
  <2>4. /\ ppc' \in [Producers -> {"down", "publishing", "closing", "done", "refused"}]
        /\ DOMAIN sent' = Producers /\ DOMAIN inFlight' = Producers
    BY <2>1 DEF PublishInv, ProducerInv
  <2> QED
    BY <2>1, <2>2, <2>3, <2>4, PublishKept
<1> QED
  BY <1>1, <1>2, Sides

\* At first nothing is loaded or published.
LEMMA PublishInit == Init => PublishInv
<1> SUFFICES ASSUME Init
             PROVE  PublishInv
  OBVIOUS
<1>1. /\ file \in Files /\ command \in Commands /\ events = <<>> /\ topic = <<>>
      /\ ppc = [p \in Producers |-> "down"] /\ sent = [p \in Producers |-> 0]
      /\ inFlight = [p \in Producers |-> None]
  BY DEF Init
<1>2. <<>> \in Seq(Messages) /\ Len(<<>>) = 0 /\ 1 .. 0 = {} /\ 0 \in 0 .. 0
  OBVIOUS
<1>3. EventsInv
  BY <1>1 DEF EventsInv
<1>4. LogInv
  BY <1>1, <1>2 DEF LogInv
<1>5. \A p \in Producers : SenderInv(p)
  BY <1>1, <1>2 DEF SenderInv
<1>6. ProducerInv
  BY <1>1, <1>5 DEF ProducerInv
<1> QED
  BY <1>3, <1>4, <1>6 DEF PublishInv

\* What is published is in its turn.
LEMMA Published == Spec => []PublishInv
BY PublishInit, PublishStep, PTL DEF Spec

\* This is what the run checks of the topic.
LEMMA OrderFollows == PublishInv => TopicInOrder
<1> SUFFICES ASSUME PublishInv, NEW i \in DOMAIN topic, ~Foreign(i)
             PROVE  \E k \in DOMAIN events :
                      /\ [n \in DOMAIN topic |-> DeserializeEvent(topic[n])][i] = events[k]
                      /\ \A l \in 1 .. k - 1 : \E j \in 1 .. i - 1 :
                           [n \in DOMAIN topic |-> DeserializeEvent(topic[n])][j] = events[l]
  BY DEF TopicInOrder
<1>1. topic \in Seq(Messages) /\ DOMAIN topic = 1 .. Len(topic) /\ Len(topic) \in Nat
  BY DEF PublishInv, LogInv
<1>2. InTurn(i)
  BY <1>1 DEF PublishInv, LogInv, Foreign
<1>3. \A j \in 1 .. i - 1 : j \in DOMAIN topic
  BY <1>1
<1> QED
  BY <1>2, <1>3 DEF InTurn, Decoded

(***************************************************************************)
(* However many producers run, fail, are killed or run again, and whatever *)
(* others publish between, the messages of the produce command decode to   *)
(* the events of the replay, and before an event come all that precede it  *)
(* (redpanda.py publish, replay.py publish_replay).                        *)
(***************************************************************************)
THEOREM TopicIsInOrder == Spec => []TopicInOrder
BY Published, OrderFollows, PTL

-----------------------------------------------------------------------------
(* What is handled. *)

Labels == {"down", "poll", "process", "commit", "closing"}

\* Below the position of a member that polls, and of the record that one has
\* in hand, everything was handled.
MemberInv(c) ==
  /\ pc[c] \in Labels /\ position[c] \in 0 .. Len(topic)
  /\ pc[c] = "down" => position[c] = 0
  /\ pc[c] \in {"poll", "commit"} => 0 .. position[c] - 1 \subseteq handled
  /\ pc[c] = "commit" => position[c] # 0
  /\ pc[c] = "process" =>
       position[c] # 0 /\ Record(c) # None /\ 0 .. position[c] - 2 \subseteq handled

WorkInv ==
  /\ committed \in 0 .. Len(topic)
  /\ 0 .. committed - 1 \subseteq handled
  /\ handled \subseteq 0 .. Len(topic) - 1
  /\ DOMAIN pc = Members /\ DOMAIN position = Members
  /\ \A c \in Members : MemberInv(c)

\* A member that does nothing while the topic grows.
LEMMA MemberKept ==
  ASSUME Grown, NEW c, MemberInv(c), pc'[c] = pc[c], position'[c] = position[c],
         handled \subseteq handled'
  PROVE  MemberInv(c)'
<1>1. position[c] \in 0 .. Len(topic') /\ position[c] \in 0 .. Len(topic)
  BY DEF MemberInv, Grown
<1>2. CASE position[c] # 0
  <2>1. position[c] \in 1 .. Len(topic)
    BY <1>1, <1>2 DEF Grown
  <2>2. Record(c)' = Record(c)
    BY <2>1 DEF Record, Grown
  <2> QED
    BY <1>1, <2>2 DEF MemberInv
<1>3. CASE position[c] = 0
  BY <1>1, <1>3 DEF MemberInv
<1> QED
  BY <1>2, <1>3

\* What a step of member c must see to.
LEMMA WorkKept ==
  ASSUME WorkInv, Grown, NEW c \in Members,
         DOMAIN pc' = Members, DOMAIN position' = Members,
         \A d \in Members \ {c} : pc'[d] = pc[d] /\ position'[d] = position[d],
         handled \subseteq handled', handled' \subseteq 0 .. Len(topic') - 1,
         committed' \in 0 .. Len(topic'), 0 .. committed' - 1 \subseteq handled',
         MemberInv(c)'
  PROVE  WorkInv'
<1>1. ASSUME NEW d \in Members
      PROVE  MemberInv(d)'
  <2>1. CASE d = c
    BY <2>1
  <2>2. CASE d # c
    <3>1. MemberInv(d) /\ pc'[d] = pc[d] /\ position'[d] = position[d]
      BY <2>2 DEF WorkInv
    <3> QED
      BY <3>1, MemberKept
  <2> QED
    BY <2>1, <2>2
<1> QED
  BY <1>1 DEF WorkInv

\* What stays when nobody handles or commits.
LEMMA StillHandled ==
  ASSUME WorkInv, Grown, UNCHANGED <<committed, handled>>
  PROVE  /\ handled \subseteq handled' /\ handled' \subseteq 0 .. Len(topic') - 1
         /\ committed' \in 0 .. Len(topic') /\ 0 .. committed' - 1 \subseteq handled'
<1>1. 0 .. Len(topic) - 1 \subseteq 0 .. Len(topic') - 1 /\ committed \in 0 .. Len(topic')
  BY DEF WorkInv, Grown
<1> QED
  BY <1>1 DEF WorkInv

\* No step lets a member pass over a record.
LEMMA WorkStep ==
  ASSUME PublishInv, WorkInv, [Next]_vars
  PROVE  WorkInv'
<1> USE DEF Labels
<1>1. Grown
  BY PublishStep
<1>2. CASE UNCHANGED <<committed, handled, pc, position>>
  <2>1. \A d \in Members : pc'[d] = pc[d] /\ position'[d] = position[d]
    BY <1>2
  <2>2. /\ handled \subseteq handled' /\ handled' \subseteq 0 .. Len(topic') - 1
        /\ committed' \in 0 .. Len(topic') /\ 0 .. committed' - 1 \subseteq handled'
    BY <1>1, <1>2, StillHandled
  <2>3. \A d \in Members : MemberInv(d)'
    BY <1>1, <2>1, <2>2, MemberKept DEF WorkInv
  <2>4. DOMAIN pc' = Members /\ DOMAIN position' = Members
    BY <1>2 DEF WorkInv
  <2> QED
    BY <2>2, <2>3, <2>4 DEF WorkInv
<1>3. ASSUME NEW c \in Members, Start(c) \/ Assign(c) \/ Poll(c) \/ Close(c) \/ Crash(c)
      PROVE  WorkInv'
  <2>1. UNCHANGED <<committed, handled>> /\ topic' = topic /\ committed' = committed
    BY <1>3 DEF Start, Assign, Poll, Close, Crash, Gone, group
  <2>2. /\ handled \subseteq handled' /\ handled' \subseteq 0 .. Len(topic') - 1
        /\ committed' \in 0 .. Len(topic') /\ 0 .. committed' - 1 \subseteq handled'
    BY <1>1, <2>1, StillHandled
  <2>3. /\ DOMAIN pc' = Members /\ DOMAIN position' = Members
        /\ \A d \in Members \ {c} : pc'[d] = pc[d] /\ position'[d] = position[d]
    BY <1>3 DEF WorkInv, Start, Assign, Poll, Close, Crash, Gone, Goto, Exit, member
  <2>4. MemberInv(c) /\ DOMAIN pc = Members /\ DOMAIN position = Members
    BY DEF WorkInv
  <2>5. CASE Start(c)
    <3>1. pc[c] = "down" /\ pc'[c] = "poll" /\ position'[c] = position[c]
      BY <2>4, <2>5 DEF Start, Goto
    <3>2. position[c] = 0 /\ 0 .. 0 - 1 = {} /\ 0 \in 0 .. Len(topic')
      BY <2>4, <3>1, <1>1 DEF MemberInv, Grown
    <3>3. MemberInv(c)'
      BY <3>1, <3>2 DEF MemberInv
    <3> QED
      BY <1>1, <2>2, <2>3, <3>3, WorkKept
  <2>6. CASE Assign(c)
    <3>1. pc[c] = "poll" /\ pc'[c] = "poll" /\ position'[c] = committed
      BY <2>4, <2>6 DEF Assign
    <3>2. MemberInv(c)'
      BY <2>1, <2>2, <3>1 DEF MemberInv
    <3> QED
      BY <1>1, <2>2, <2>3, <3>2, WorkKept
  <2>7. CASE Poll(c)
    <3>1. /\ pc[c] = "poll" /\ position'[c] = position[c] + 1 /\ position[c] < Len(topic)
          /\ pc'[c] = IF DeserializeEvent(topic[position[c] + 1]) = None
                     THEN "closing" ELSE "process"
      BY <2>4, <2>7 DEF Poll, Goto, Exit
    <3>2. position[c] \in 0 .. Len(topic) /\ 0 .. position[c] - 1 \subseteq handled
      BY <2>4, <3>1 DEF MemberInv
    <3>3. /\ position'[c] \in 0 .. Len(topic') /\ position'[c] # 0
          /\ position'[c] - 2 = position[c] - 1
      BY <2>1, <3>1, <3>2, <1>1 DEF Grown
    <3>4. Record(c)' = DeserializeEvent(topic[position[c] + 1])
      BY <2>1, <3>1 DEF Record
    <3>5. MemberInv(c)'
      BY <2>2, <3>1, <3>2, <3>3, <3>4 DEF MemberInv
    <3> QED
      BY <1>1, <2>2, <2>3, <3>5, WorkKept
  <2>8. CASE Close(c) \/ Crash(c)
    <3>1. pc'[c] = "down" /\ position'[c] = 0
      BY <2>4, <2>8 DEF Close, Crash, Gone, Goto
    <3>2. MemberInv(c)'
      BY <1>1, <3>1 DEF MemberInv, Grown
    <3> QED
      BY <1>1, <2>2, <2>3, <3>2, WorkKept
  <2> QED
    BY <1>3, <2>5, <2>6, <2>7, <2>8
<1>4. ASSUME NEW c \in Members, Process(c)
      PROVE  WorkInv'
  <2>1. /\ pc[c] = "process" /\ topic' = topic /\ committed' = committed
        /\ position' = position
    BY <1>4 DEF Process
  <2>2. MemberInv(c) /\ DOMAIN pc = Members /\ DOMAIN position = Members
    BY DEF WorkInv
  <2>3. /\ position[c] \in 1 .. Len(topic) /\ Len(topic) \in Nat
        /\ 0 .. position[c] - 2 \subseteq handled
    BY <1>1, <2>1, <2>2 DEF MemberInv, Grown
  <2>4. \/ pc' = [pc EXCEPT ![c] = "commit"] /\ handled' = handled \cup {position[c] - 1}
        \/ pc' = [pc EXCEPT ![c] = "closing"] /\ handled' = handled
    BY <1>4 DEF Process, Goto, Exit
  <2>5. /\ handled \subseteq handled' /\ handled' \subseteq 0 .. Len(topic') - 1
        /\ committed' \in 0 .. Len(topic') /\ 0 .. committed' - 1 \subseteq handled'
    <3>1. /\ handled \subseteq 0 .. Len(topic) - 1
          /\ committed \in 0 .. Len(topic) /\ 0 .. committed - 1 \subseteq handled
      BY DEF WorkInv
    <3>2. position[c] - 1 \in 0 .. Len(topic) - 1
      BY <2>3
    <3>3. handled \subseteq handled' /\ handled' \subseteq handled \cup {position[c] - 1}
      BY <2>4
    <3> QED
      BY <2>1, <3>1, <3>2, <3>3
  <2>6. /\ DOMAIN pc' = Members /\ DOMAIN position' = Members
        /\ \A d \in Members \ {c} : pc'[d] = pc[d] /\ position'[d] = position[d]
    BY <2>1, <2>2, <2>4
  <2>7. MemberInv(c)'
    <3>1. CASE pc'[c] = "commit" /\ handled' = handled \cup {position[c] - 1}
      <4>1. 0 .. position[c] - 1 = (0 .. position[c] - 2) \cup {position[c] - 1}
        BY <2>3
      <4>2. 0 .. position[c] - 1 \subseteq handled' /\ position[c] # 0
        BY <2>3, <3>1, <4>1
      <4> QED
        BY <2>1, <2>3, <3>1, <4>2 DEF MemberInv
    <3>2. CASE pc'[c] = "closing"
      BY <2>1, <2>3, <3>2 DEF MemberInv
    <3> QED
      BY <2>2, <2>4, <3>1, <3>2
  <2> QED
    BY <1>1, <2>5, <2>6, <2>7, WorkKept
<1>5. ASSUME NEW c \in Members, Commit(c) \/ CommitFails(c)
      PROVE  WorkInv'
  <2>1. /\ pc[c] = "commit" /\ topic' = topic /\ handled' = handled /\ position' = position
        /\ committed' \in {committed, position[c]}
        /\ pc' = [pc EXCEPT ![c] = "poll"] \/ pc' = [pc EXCEPT ![c] = "closing"]
    BY <1>5 DEF Commit, CommitFails, Goto, Exit
  <2>2. MemberInv(c) /\ DOMAIN pc = Members /\ DOMAIN position = Members
    BY DEF WorkInv
  <2>3. position[c] \in 0 .. Len(topic) /\ 0 .. position[c] - 1 \subseteq handled
    BY <2>1, <2>2 DEF MemberInv
  <2>4. /\ handled \subseteq handled' /\ handled' \subseteq 0 .. Len(topic') - 1
        /\ committed' \in 0 .. Len(topic') /\ 0 .. committed' - 1 \subseteq handled'
    BY <2>1, <2>3 DEF WorkInv
  <2>5. /\ DOMAIN pc' = Members /\ DOMAIN position' = Members
        /\ \A d \in Members \ {c} : pc'[d] = pc[d] /\ position'[d] = position[d]
        /\ pc'[c] \in {"poll", "closing"}
    BY <2>1, <2>2
  <2>6. MemberInv(c)'
    BY <2>1, <2>3, <2>5 DEF MemberInv
  <2> QED
    BY <1>1, <2>4, <2>5, <2>6, WorkKept
<1>6. CASE UNCHANGED vars
  BY <1>2, <1>6 DEF vars, group, member
<1>7. ASSUME NEW p \in Producers, Produce(p) \/ PublishFails(p) \/ PCrash(p)
      PROVE  UNCHANGED <<committed, handled, pc, position>>
  BY <1>7 DEF Produce, Load, Publish, PClose, PublishFails, PCrash, group, member
<1>8. CASE Stranger \/ FindMatch \/ ReadPage
  BY <1>2, <1>8 DEF Stranger, FindMatch, ReadPage, group, member
<1>9. ASSUME NEW c \in Members, PollNothing(c)
      PROVE  WorkInv'
  BY <1>6, <1>9 DEF PollNothing
<1> QED
  BY <1>2, <1>3, <1>4, <1>5, <1>6, <1>7, <1>8, <1>9 DEF Next, Work

\* At first nothing is committed or handled.
LEMMA WorkInit == Init => WorkInv
<1> SUFFICES ASSUME Init
             PROVE  WorkInv
  OBVIOUS
<1>1. /\ committed = 0 /\ handled = {} /\ topic = <<>>
      /\ pc = [c \in Members |-> "down"] /\ position = [c \in Members |-> 0]
  BY DEF Init
<1>2. Len(<<>>) = 0 /\ 0 \in 0 .. 0 /\ 0 .. 0 - 1 = {}
  OBVIOUS
<1>3. \A c \in Members : MemberInv(c)
  BY <1>1, <1>2 DEF MemberInv, Labels
<1> QED
  BY <1>1, <1>2, <1>3 DEF WorkInv

\* What is committed, and what is before a record in hand, was handled.
LEMMA Worked == Spec => [](PublishInv /\ WorkInv)
<1>1. PublishInv /\ WorkInv /\ [Next]_vars => PublishInv' /\ WorkInv'
  BY PublishStep, WorkStep
<1> QED
  BY PublishInit, WorkInit, <1>1, PTL DEF Spec

(***************************************************************************)
(* An offset is committed only after a process has handled its record, for *)
(* any members, crashes, rebalances and failed commits (processing.py      *)
(* project_next, cli.py _consume).                                         *)
(***************************************************************************)
THEOREM NothingPassedOver == Spec => []CommittedWasHandled
<1>1. WorkInv => CommittedWasHandled
  BY DEF WorkInv, CommittedWasHandled
<1> QED
  BY Worked, <1>1, PTL

-----------------------------------------------------------------------------
(* What a command does with the record in hand. *)

\* The atomic projection speaks of the same transition.
LEMMA SameTransition ==
  /\ \A m : Durable!InitialState(m) = InitialState(m)
  /\ \A p, e : Durable!Accepts(p, e) <=> Accepts(p, e)
  /\ \A p, e : Durable!ApplyEvent(p, e) = ApplyEvent(p, e)
<1>1. \A m : Durable!InitialState(m) = InitialState(m)
  BY DEF InitialState, EmptyTally, Durable!InitialState, Durable!EmptyTally
<1>2. \A e : Durable!IsGoal(e) <=> IsGoal(e)
  BY DEF IsGoal, Durable!IsGoal
<1>3. \A p, e : Durable!ValidTransition(p, e) <=> ValidTransition(p, e)
  BY DEF ValidTransition, Stale, SequenceGap, ClockRegression,
         Durable!ValidTransition, Durable!Stale, Durable!SequenceGap,
         Durable!ClockRegression
<1>4. \A p, e : Durable!Accepts(p, e) <=> Accepts(p, e)
  BY <1>2, <1>3 DEF Accepts, Durable!Accepts
<1>5. \A p, e : /\ Durable!HomeTeam(p, e) = HomeTeam(p, e)
                /\ Durable!AwayTeam(p, e) = AwayTeam(p, e)
  BY DEF HomeTeam, AwayTeam, FirstLineup, SecondLineup, Durable!HomeTeam,
         Durable!AwayTeam, Durable!FirstLineup, Durable!SecondLineup
<1>6. \A f, k : /\ Durable!Bump(f, k) = Bump(f, k)
                /\ Durable!WithKeys(f, k) = WithKeys(f, k)
  BY DEF Bump, Lookup, WithKeys, Durable!Bump, Durable!Lookup, Durable!WithKeys
<1>7. \A p, e : Durable!ApplyEvent(p, e) = ApplyEvent(p, e)
  BY <1>2, <1>5, <1>6 DEF ApplyEvent, Scores, Durable!ApplyEvent, Durable!Scores
<1> QED
  BY <1>1, <1>4, <1>7

OrInitial(state, m) == IF state = None THEN InitialState(m) ELSE state

HasId(id) == \E f \in stored : f.event_id = id

Applies(c, e) ==
  /\ ~HasId(e.event_id)
  /\ Accepts(OrInitial(current[e.match_id], e.match_id), e)
  /\ current' = [current EXCEPT ![e.match_id] =
                   ApplyEvent(OrInitial(current[e.match_id], e.match_id), e)]
  /\ stored' = stored \cup {e}
  /\ \E a \in {"applied", "storage_error"} : answer' = [answer EXCEPT ![c] = a]

Leaves(c, e) ==
  /\ UNCHANGED store /\ current' = current /\ stored' = stored
  /\ \/ HasId(e.event_id) /\ answer' = [answer EXCEPT ![c] = "duplicate"]
     \/ /\ ~HasId(e.event_id)
        /\ ~Accepts(OrInitial(current[e.match_id], e.match_id), e)
        /\ answer' = [answer EXCEPT ![c] = "poison"]
     \/ answer' = [answer EXCEPT ![c] = "storage_error"]

\* durable-project either applies the event or leaves the store alone.
LEMMA DurableStep ==
  ASSUME NEW c \in Members, pc[c] = "process", ProjectDurably(c)
  PROVE  Applies(c, Record(c)) \/ Leaves(c, Record(c))
<1> DEFINE e == Record(c)
           pending == [d \in Members |-> IF pc[d] = "process" THEN Record(d) ELSE None]
           previous == Durable!StateOrInitial(current[e.match_id], e.match_id)
<1>1. pending[c] = e
  OBVIOUS
<1>2. previous = OrInitial(current[e.match_id], e.match_id)
  BY SameTransition DEF Durable!StateOrInitial, OrInitial
<1>3. Durable!Known(e) <=> HasId(e.event_id)
  BY DEF Durable!Known, HasId
<1>4. CASE Durable!Apply(c)
  <2>1. /\ ~Durable!Known(e) /\ Durable!Accepts(previous, e)
        /\ current' = [current EXCEPT ![e.match_id] = Durable!ApplyEvent(previous, e)]
        /\ stored' = stored \cup {e}
        /\ \E a \in {"applied", "storage_error"} : answer' = [answer EXCEPT ![c] = a]
    BY <1>1, <1>4 DEF Durable!Apply, Durable!Answer
  <2> HIDE DEF e, previous
  <2>2. Applies(c, e)
    BY <1>2, <1>3, <2>1, SameTransition DEF Applies
  <2> QED
    BY <2>2 DEF e
<1>5. CASE Durable!Repeat(c)
  <2>1. /\ Durable!KnownToItsMatch(e)
        /\ answer' = [answer EXCEPT ![c] = "duplicate"]
        /\ current' = current /\ stored' = stored
    BY <1>1, <1>5 DEF Durable!Repeat, Durable!Answer
  <2>2. HasId(e.event_id)
    BY <2>1 DEF Durable!KnownToItsMatch, HasId
  <2> QED
    BY <2>1, <2>2 DEF Leaves, store
<1>6. CASE Durable!Reject(c)
  <2>1. /\ ~Durable!Known(e) /\ ~Durable!Accepts(previous, e)
        /\ answer' = [answer EXCEPT ![c] = "poison"]
        /\ current' = current /\ stored' = stored
    BY <1>1, <1>6 DEF Durable!Reject, Durable!Answer
  <2> HIDE DEF e, previous
  <2>2. Leaves(c, e)
    BY <1>2, <1>3, <2>1, SameTransition DEF Leaves, store
  <2> QED
    BY <2>2 DEF e
<1>7. CASE Durable!FailCall(c)
  <2>1. /\ answer' = [answer EXCEPT ![c] = "storage_error"]
        /\ current' = current /\ stored' = stored
    BY <1>7 DEF Durable!FailCall, Durable!Answer
  <2> QED
    BY <2>1 DEF Leaves, store
<1> QED
  BY <1>4, <1>5, <1>6, <1>7 DEF ProjectDurably

\* The record in hand is an event of the replay, and all that precede it in
\* the replay were handled.
LEMMA InHand ==
  ASSUME StrangersRefused, PublishInv, WorkInv, NEW c \in Members, pc[c] = "process"
  PROVE  \E j \in DOMAIN events :
           /\ Record(c) = events[j]
           /\ \A l \in 1 .. j - 1 : \E o \in handled : Decoded(o + 1) = events[l]
<1>1. /\ position[c] \in 1 .. Len(topic) /\ Record(c) # None
      /\ 0 .. position[c] - 2 \subseteq handled /\ Len(topic) \in Nat
      /\ topic \in Seq(Messages)
  <2>1. MemberInv(c)
    BY DEF WorkInv
  <2>2. topic \in Seq(Messages) /\ Len(topic) \in Nat
    BY DEF PublishInv, LogInv
  <2> QED
    BY <2>1, <2>2 DEF MemberInv
<1>2. topic[position[c]] \in Messages /\ Record(c) = DeserializeEvent(topic[position[c]])
  BY <1>1 DEF Record
<1>3. topic[position[c]] \notin Strange
  BY <1>1, <1>2, MessageType
<1>4. InTurn(position[c])
  BY <1>1, <1>3 DEF PublishInv, LogInv
<1>5. PICK j \in DOMAIN events :
        /\ Decoded(position[c]) = events[j]
        /\ \A l \in 1 .. j - 1 : \E i \in 1 .. position[c] - 1 : Decoded(i) = events[l]
  BY <1>4 DEF InTurn
<1>6. Record(c) = events[j]
  BY <1>2, <1>5 DEF Decoded
<1>7. ASSUME NEW l \in 1 .. j - 1
      PROVE  \E o \in handled : Decoded(o + 1) = events[l]
  <2>1. PICK i \in 1 .. position[c] - 1 : Decoded(i) = events[l]
    BY <1>5
  <2>2. i - 1 \in handled /\ (i - 1) + 1 = i
    BY <1>1
  <2> QED
    BY <2>1, <2>2
<1> QED
  BY <1>6, <1>7

\* The record in hand is an event of the file's match.
LEMMA RecordType ==
  ASSUME StrangersRefused, PublishInv, WorkInv, NEW c \in Members, pc[c] = "process"
  PROVE  /\ Record(c) \in CanonicalEvent /\ Record(c).match_id = Match
         /\ Match \in Matches /\ Record(c).event_id \in EventIds
<1>1. PICK j \in DOMAIN events : Record(c) = events[j]
  BY InHand
<1>2. Replayed(events, Match)
  BY EventsAreReplay DEF PublishInv
<1>3. Record(c) \in CanonicalEvent /\ Record(c).match_id = Match
  BY <1>1, <1>2, IndexIsPlace
<1> QED
  BY <1>3 DEF CanonicalEvent

-----------------------------------------------------------------------------
(* What is stored. *)

\* The store holds the first k events of the replay.
HoldsUpTo(k) ==
  /\ k \in 0 .. Len(events)
  /\ stored = {events[i] : i \in 1 .. k}
  /\ k = 0 => current[Match] = None
  /\ k # 0 => /\ At(current[Match], Match, events[k])
              /\ current[Match] = Played(Match, events, 1, k)

StoreInv ==
  /\ DOMAIN current = Matches /\ DOMAIN answer = Members
  /\ \A m \in Matches \ {Match} : current[m] = None
  /\ \E k \in Nat : HoldsUpTo(k)
  /\ command = "durable-project" => \A o \in handled : HasId(Decoded(o + 1).event_id)

\* A state at an event is a state.
LEMMA StateIsNotNone ==
  ASSUME NEW state, NEW m, NEW e, At(state, m, e)
  PROVE  state # None
BY PipelineAssumption DEF At

\* What is not stored, follows stored events and is accepted comes next.
LEMMA AcceptedIsNext ==
  ASSUME PublishInv, NEW k \in Nat, HoldsUpTo(k), NEW j \in DOMAIN events,
         ~HasId(events[j].event_id), \A l \in 1 .. j - 1 : HasId(events[l].event_id),
         Accepts(OrInitial(current[Match], Match), events[j])
  PROVE  j = k + 1
<1>1. /\ DOMAIN events = 1 .. Len(events) /\ Len(events) \in Nat
      /\ \A i \in DOMAIN events : events[i] \in CanonicalEvent /\ events[i].match_id = Match
      /\ \A i, n \in DOMAIN events : events[n].sequence - events[i].sequence = n - i
  BY EventsAreReplay, IndexIsPlace DEF PublishInv
<1>2. k \in 0 .. Len(events) /\ stored = {events[i] : i \in 1 .. k}
  BY DEF HoldsUpTo
<1>3. j \notin 1 .. k
  BY <1>2 DEF HasId
<1>4. CASE k = 0
  <2>1. stored = {}
    BY <1>2, <1>4
  <2>2. 1 \notin 1 .. j - 1
    BY <2>1 DEF HasId
  <2> QED
    BY <1>1, <1>4, <2>2
<1>5. CASE k # 0
  <2>1. k \in DOMAIN events /\ At(current[Match], Match, events[k])
    BY <1>1, <1>2, <1>5 DEF HoldsUpTo
  <2>2. OrInitial(current[Match], Match) = current[Match]
    BY <2>1, StateIsNotNone DEF OrInitial
  <2>3. current[Match].latest_sequence = events[k].sequence
    BY <2>1 DEF At
  <2>4. events[k].sequence \in Nat /\ events[j].sequence \in Nat
    BY <1>1, <2>1 DEF CanonicalEvent
  <2>5. current[Match].latest_sequence # None
    BY <2>3, <2>4, NoneAssumption
  <2>6. ~SequenceGap(current[Match], events[j])
    BY <2>2, <2>5 DEF Accepts, ValidTransition
  <2>7. events[j].sequence = events[k].sequence + 1
    BY <2>3, <2>6 DEF SequenceGap
  <2>8. events[j].sequence - events[k].sequence = j - k
    BY <1>1, <2>1
  <2> QED
    BY <1>1, <2>1, <2>4, <2>7, <2>8
<1> QED
  BY <1>4, <1>5

\* A sound replay's next event is accepted.
LEMMA SoundIsAccepted ==
  ASSUME PublishInv, NEW k \in Nat, HoldsUpTo(k), NEW j \in DOMAIN events,
         ~HasId(events[j].event_id), \A l \in 1 .. j - 1 : HasId(events[l].event_id),
         Sound(events)
  PROVE  Accepts(OrInitial(current[Match], Match), events[j])
<1>1. Replayed(events, Match)
  BY EventsAreReplay DEF PublishInv
<1>2. /\ DOMAIN events = 1 .. Len(events) /\ Len(events) \in Nat
      /\ \A i \in DOMAIN events : events[i] \in CanonicalEvent /\ events[i].match_id = Match
  BY <1>1, IndexIsPlace
<1>3. k \in 0 .. Len(events) /\ stored = {events[i] : i \in 1 .. k}
  BY DEF HoldsUpTo
<1>4. j \notin 1 .. k
  BY <1>3 DEF HasId
<1>5. \A l \in 1 .. j - 1 : l \in 1 .. k
  <2> SUFFICES ASSUME NEW l \in 1 .. j - 1
               PROVE  l \in 1 .. k
    OBVIOUS
  <2>1. PICK i \in 1 .. k : events[i].event_id = events[l].event_id
    BY <1>3 DEF HasId
  <2>2. i \in DOMAIN events /\ l \in DOMAIN events
    BY <1>2, <1>3
  <2>3. i = l
    BY <2>1, <2>2 DEF Sound
  <2> QED
    BY <2>3
<1>6. j = k + 1
  <2>1. j - 1 = 0 \/ j - 1 \in 1 .. j - 1
    BY <1>2
  <2>2. j - 1 = 0 \/ j - 1 \in 1 .. k
    BY <1>5, <2>1
  <2> QED
    BY <1>2, <1>4, <2>2
<1>7. IsGoal(events[j]) => events[j].team # None
  BY DEF Sound
<1>8. CASE k = 0
  <2>1. OrInitial(current[Match], Match) = InitialState(Match)
    BY <1>8 DEF HoldsUpTo, OrInitial
  <2> QED
    BY <1>2, <1>7, <2>1, FirstIsAccepted
<1>9. CASE k # 0
  <2>1. k \in DOMAIN events /\ At(current[Match], Match, events[k])
    BY <1>2, <1>3, <1>9 DEF HoldsUpTo
  <2>2. OrInitial(current[Match], Match) = current[Match]
    BY <2>1, StateIsNotNone DEF OrInitial
  <2>3. events[k + 1].event_id # events[k].event_id
    <3>1. k + 1 # k
      OBVIOUS
    <3> QED
      BY <1>6, <2>1, <3>1 DEF Sound
  <2> QED
    BY <1>1, <1>6, <1>7, <2>1, <2>2, <2>3, NextIsAccepted
<1> QED
  BY <1>8, <1>9

\* One event more is stored.
LEMMA OneMoreHeld ==
  ASSUME PublishInv, events' = events, file' = file, NEW k \in Nat, HoldsUpTo(k),
         k + 1 \in DOMAIN events, DOMAIN current = Matches, Match \in Matches,
         Accepts(OrInitial(current[Match], Match), events[k + 1]),
         current' = [current EXCEPT ![Match] =
                      ApplyEvent(OrInitial(current[Match], Match), events[k + 1])],
         stored' = stored \cup {events[k + 1]}
  PROVE  HoldsUpTo(k + 1)'
<1> DEFINE e == events[k + 1]
           p == OrInitial(current[Match], Match)
<1>1. Replayed(events, Match)
  BY EventsAreReplay DEF PublishInv
<1>2. /\ DOMAIN events = 1 .. Len(events) /\ Len(events) \in Nat
      /\ \A i \in DOMAIN events : events[i] \in CanonicalEvent /\ events[i].match_id = Match
  BY <1>1, IndexIsPlace
<1>3. 1 \in DOMAIN events /\ k + 1 \in 1 .. Len(events) /\ k \in 0 .. Len(events)
  BY <1>2
<1>4. p \in MatchState /\ p.match_id = Match /\ p = Played(Match, events, 1, k)
  <2>1. CASE k = 0
    <3>1. p = InitialState(Match)
      BY <2>1 DEF HoldsUpTo, OrInitial
    <3>2. Played(Match, events, 1, 1 - 1) = InitialState(Match)
      BY <1>1, <1>3, PlayedExtends
    <3>3. InitialState(Match) \in MatchState /\ InitialState(Match).match_id = Match
      BY <1>1, <1>3, PlayedIsAt
    <3> QED
      BY <2>1, <3>1, <3>2, <3>3
  <2>2. CASE k # 0
    <3>1. At(current[Match], Match, events[k]) /\ current[Match] = Played(Match, events, 1, k)
      BY <2>2 DEF HoldsUpTo
    <3>2. p = current[Match]
      BY <3>1, StateIsNotNone DEF OrInitial
    <3> QED
      BY <3>1, <3>2 DEF At
  <2> QED
    BY <2>1, <2>2
<1>5. p # None
  BY <1>4, PipelineAssumption
<1>6. current'[Match] = ApplyEvent(p, e)
  OBVIOUS
<1>7. At(ApplyEvent(p, e), Match, e)
  <2>1. e \in CanonicalEvent
    BY <1>2
  <2> HIDE DEF p, e
  <2> QED
    BY <1>4, <2>1, AppliedIsAt DEF p, e
<1>8. Played(Match, events, 1, k + 1) = ApplyEvent(p, e)
  <2>1. (k + 1) - 1 = k
    OBVIOUS
  <2>2. Played(Match, events, 1, k + 1) = RebuildStep(Played(Match, events, 1, (k + 1) - 1), e)
    BY <1>1, <1>3, PlayedExtends
  <2> HIDE DEF p, e
  <2>3. Played(Match, events, 1, k + 1) = RebuildStep(p, e)
    BY <1>4, <2>1, <2>2
  <2> QED
    BY <1>5, <2>3 DEF RebuildStep, p, e
<1>9. stored' = {events[i] : i \in 1 .. k + 1}
  <2>1. 1 .. k + 1 = (1 .. k) \cup {k + 1}
    OBVIOUS
  <2> QED
    BY <2>1 DEF HoldsUpTo
<1>10. Match' = Match
  BY DEF Match
<1> HIDE DEF p, e
<1>11. At(current'[Match], Match, events[k + 1]) /\ current'[Match] = Played(Match, events, 1, k + 1)
  BY <1>6, <1>7, <1>8 DEF e
<1>12. k + 1 # 0
  OBVIOUS
<1>13. ASSUME NEW n, n = k + 1
       PROVE  HoldsUpTo(n)'
  BY <1>3, <1>9, <1>10, <1>11, <1>12, <1>13 DEF HoldsUpTo
<1> QED
  BY <1>13

\* Loaded events stay.
LEMMA SameEvents ==
  ASSUME PublishInv, PublishInv', Grown, file' = file, events # <<>>
  PROVE  events' = events
<1>1. events = Loaded /\ (events' = <<>> \/ events' = Loaded')
  BY DEF PublishInv, EventsInv
<1>2. Loaded' = Loaded
  BY DEF Loaded
<1>3. events \in Seq(CanonicalEvent)
  BY EventsAreReplay DEF PublishInv, Replayed
<1>4. Len(events) # 0 /\ Len(events) \in Nat
  BY <1>3
<1>5. Len(<<>>) = 0
  OBVIOUS
<1>6. events' # <<>>
  BY <1>4, <1>5 DEF Grown
<1> QED
  BY <1>1, <1>2, <1>6

\* Who leaves the store alone leaves it holding what it held.
LEMMA HeldKept ==
  ASSUME PublishInv, PublishInv', Grown, file' = file, current' = current, stored' = stored,
         NEW k \in Nat, HoldsUpTo(k)
  PROVE  HoldsUpTo(k)'
<1>1. Match' = Match
  BY DEF Match
<1>2. k \in 0 .. Len(events) /\ k \in 0 .. Len(events')
  BY DEF HoldsUpTo, Grown
<1>3. CASE k = 0
  <2>1. 1 .. k = {}
    BY <1>3
  <2> QED
    BY <1>1, <1>2, <1>3, <2>1 DEF HoldsUpTo
<1>4. CASE k # 0
  <2>1. Len(<<>>) = 0 /\ Len(events) # 0
    BY <1>2, <1>4 DEF Grown
  <2>2. events # <<>>
    BY <2>1
  <2>3. events' = events
    BY <2>2, SameEvents
  <2> QED
    BY <1>1, <2>3 DEF HoldsUpTo
<1> QED
  BY <1>3, <1>4

\* What was handled is decoded as before.
LEMMA HandledKept ==
  ASSUME WorkInv, Grown, NEW o \in handled
  PROVE  Decoded(o + 1)' = Decoded(o + 1)
<1>1. o \in 0 .. Len(topic) - 1 /\ Len(topic) \in Nat
  BY DEF WorkInv, Grown
<1>2. o + 1 \in 1 .. Len(topic)
  BY <1>1
<1> QED
  BY <1>2 DEF Decoded, Grown

\* A step that neither handles nor stores anything.
LEMMA StoreKept ==
  ASSUME PublishInv, PublishInv', WorkInv, StoreInv, Grown, UNCHANGED <<input, store, handled>>,
         DOMAIN answer' = Members
  PROVE  StoreInv'
<1>1. /\ file' = file /\ command' = command /\ current' = current /\ stored' = stored
      /\ handled' = handled /\ Match' = Match
  BY DEF input, store, Match
<1>2. PICK k \in Nat : HoldsUpTo(k)
  BY DEF StoreInv
<1>3. HoldsUpTo(k)'
  BY <1>1, <1>2, HeldKept
<1>4. ASSUME command' = "durable-project", NEW o \in handled'
      PROVE  HasId(Decoded(o + 1).event_id)'
  <2>1. HasId(Decoded(o + 1).event_id) /\ o \in handled
    BY <1>1, <1>4 DEF StoreInv
  <2>2. Decoded(o + 1)' = Decoded(o + 1)
    BY <2>1, HandledKept
  <2> QED
    BY <1>1, <2>1, <2>2 DEF HasId
<1>5. /\ DOMAIN current' = Matches
      /\ \A m \in Matches \ {Match'} : current'[m] = None
  BY <1>1 DEF StoreInv
<1> QED
  BY <1>3, <1>4, <1>5 DEF StoreInv

\* A step of anybody that is not about to project leaves the store alone and
\* answers nothing.
LEMMA QuietStep ==
  ASSUME [Next]_vars, ~(\E c \in Members : Process(c)), DOMAIN answer = Members
  PROVE  /\ UNCHANGED <<input, store, handled>> /\ DOMAIN answer' = Members
         /\ \A c \in Members : answer'[c] \in {answer[c], "none"}
<1> USE DEF input, store, group, member
<1>1. CASE UNCHANGED vars
  BY <1>1 DEF vars
<1>2. ASSUME NEW p \in Producers, Produce(p) \/ PublishFails(p) \/ PCrash(p)
      PROVE  UNCHANGED <<input, store, handled, answer>>
  BY <1>2 DEF Produce, Load, Publish, PClose, PublishFails, PCrash
<1>3. CASE Stranger \/ FindMatch \/ ReadPage
  <2>1. UNCHANGED <<input, store, handled, answer>>
    BY <1>3 DEF Stranger, FindMatch, ReadPage
  <2> QED
    BY <2>1
<1>4. ASSUME NEW c \in Members,
             Start(c) \/ Assign(c) \/ Poll(c) \/ PollNothing(c) \/ CommitFails(c)
      PROVE  UNCHANGED <<input, store, handled, answer>>
  BY <1>4 DEF Start, Assign, Poll, PollNothing, CommitFails, vars
<1>5. ASSUME NEW c \in Members, Commit(c) \/ Close(c) \/ Crash(c)
      PROVE  /\ UNCHANGED <<input, store, handled>>
             /\ answer' = [answer EXCEPT ![c] = "none"]
  BY <1>5 DEF Commit, Close, Crash, Gone
<1>6. CASE \E c \in Members : Commit(c) \/ Close(c) \/ Crash(c)
  <2>1. PICK c \in Members : answer' = [answer EXCEPT ![c] = "none"]
    BY <1>5, <1>6
  <2>2. UNCHANGED <<input, store, handled>>
    BY <1>5, <1>6
  <2> QED
    BY <2>1, <2>2
<1>7. CASE UNCHANGED <<input, store, handled, answer>>
  BY <1>7
<1> QED
  BY <1>1, <1>2, <1>3, <1>4, <1>6, <1>7 DEF Next, Work

\* What the member that projects durably is given: the event j of the replay,
\* after events that are all stored.
LEMMA DurablyInHand ==
  ASSUME StrangersRefused, PublishInv, WorkInv, StoreInv, command = "durable-project",
         NEW c \in Members, pc[c] = "process"
  PROVE  /\ Record(c).match_id = Match /\ Match \in Matches
         /\ \E j \in DOMAIN events :
              /\ Record(c) = events[j]
              /\ \A l \in 1 .. j - 1 : HasId(events[l].event_id)
<1>1. PICK j \in DOMAIN events :
        /\ Record(c) = events[j]
        /\ \A l \in 1 .. j - 1 : \E o \in handled : Decoded(o + 1) = events[l]
  BY InHand
<1>2. \A o \in handled : HasId(Decoded(o + 1).event_id)
  BY DEF StoreInv
<1>3. \A l \in 1 .. j - 1 : HasId(events[l].event_id)
  BY <1>1, <1>2
<1> QED
  BY <1>1, <1>3, RecordType

\* A process that is about to project, and what is left of it otherwise.
LEMMA ProcessFrame ==
  ASSUME NEW c \in Members, Process(c)
  PROVE  /\ pc[c] = "process" /\ Handle(c)
         /\ UNCHANGED input /\ file' = file /\ command' = command
         /\ events' = events /\ topic' = topic /\ position' = position
         /\ \/ handled' = handled
            \/ /\ handled' = handled \cup {position[c] - 1}
               /\ answer'[c] \in {"applied", "duplicate"}
         /\ command = "durable-project" => ProjectDurably(c)
         /\ command = "project" => ProjectInMemory(c)
         /\ command = "consume" => PrintOnce(c)
<1>1. Handle(c)
  BY DEF Process
<1>2. /\ pc[c] = "process" /\ UNCHANGED input /\ file' = file /\ command' = command
      /\ events' = events /\ topic' = topic /\ position' = position
  BY DEF Process, input
<1>3. \/ handled' = handled
      \/ /\ handled' = handled \cup {position[c] - 1}
         /\ answer'[c] \in {"applied", "duplicate"}
  BY DEF Process
<1>4. command = "durable-project" => ProjectDurably(c)
  BY <1>1 DEF Handle
<1>5. command = "project" => ProjectInMemory(c)
  BY <1>1 DEF Handle
<1>6. command = "consume" => PrintOnce(c)
  BY <1>1 DEF Handle
<1> QED
  BY <1>1, <1>2, <1>3, <1>4, <1>5, <1>6

\* The other commands do not touch the store.
LEMMA NotDurable ==
  ASSUME EventsInv, DOMAIN answer = Members, command # "durable-project",
         NEW c \in Members, Process(c)
  PROVE  UNCHANGED store /\ DOMAIN answer' = Members
<1>1. command \in {"consume", "project"}
  BY PipelineAssumption DEF EventsInv
<1>2. CASE command = "consume"
  <2>1. PrintOnce(c)
    BY <1>2, ProcessFrame
  <2> QED
    BY <2>1 DEF PrintOnce
<1>3. CASE command = "project"
  <2>1. ProjectInMemory(c)
    BY <1>3, ProcessFrame
  <2> QED
    BY <2>1 DEF ProjectInMemory
<1> QED
  BY <1>1, <1>2, <1>3

\* The member hands its record to the repository.
LEMMA ProjectedDurably ==
  ASSUME StrangersRefused, PublishInv, PublishInv', WorkInv, StoreInv, Grown,
         command = "durable-project", NEW c \in Members, Process(c)
  PROVE  StoreInv'
<1> DEFINE e == Record(c)
<1>1. /\ pc[c] = "process" /\ file' = file /\ command' = command
      /\ events' = events /\ topic' = topic /\ position' = position
      /\ \/ handled' = handled
         \/ /\ handled' = handled \cup {position[c] - 1}
            /\ answer'[c] \in {"applied", "duplicate"}
      /\ ProjectDurably(c)
  BY ProcessFrame
<1>2. PICK j \in DOMAIN events :
        /\ e = events[j] /\ e.match_id = Match /\ Match \in Matches
        /\ \A l \in 1 .. j - 1 : HasId(events[l].event_id)
  BY <1>1, DurablyInHand
<1>3. PICK k \in Nat : HoldsUpTo(k)
  BY DEF StoreInv
<1>4. /\ DOMAIN current = Matches /\ DOMAIN answer = Members
      /\ \A m \in Matches \ {Match} : current[m] = None
      /\ \A o \in handled : HasId(Decoded(o + 1).event_id)
  BY DEF StoreInv
<1>5. Applies(c, e) \/ Leaves(c, e)
  BY <1>1, DurableStep
<1>6. Match' = Match
  BY <1>1 DEF Match
<1>7. \A o \in handled : Decoded(o + 1)' = Decoded(o + 1)
  BY HandledKept
<1>8. ASSUME NEW o, o = position[c] - 1
      PROVE  Decoded(o + 1)' = e
  <2>1. position[c] \in 1 .. Len(topic)
    BY <1>1 DEF WorkInv, MemberInv
  <2>2. o + 1 = position[c]
    BY <1>8, <2>1
  <2> QED
    BY <1>1, <2>2 DEF Decoded, Record
<1>9. DOMAIN answer' = Members
  BY <1>4, <1>5 DEF Applies, Leaves
<1> HIDE DEF e
<1>10. CASE Applies(c, e)
  <2>1. /\ ~HasId(e.event_id)
        /\ Accepts(OrInitial(current[Match], Match), e)
        /\ current' = [current EXCEPT ![Match] =
                         ApplyEvent(OrInitial(current[Match], Match), e)]
        /\ stored' = stored \cup {e}
    BY <1>2, <1>10 DEF Applies
  <2>2. j = k + 1
    BY <1>2, <1>3, <2>1, AcceptedIsNext
  <2>3. HoldsUpTo(k + 1)'
    BY <1>1, <1>2, <1>3, <1>4, <2>1, <2>2, OneMoreHeld
  <2>4. ASSUME NEW o \in handled'
        PROVE  HasId(Decoded(o + 1).event_id)'
    <3>1. CASE o \in handled
      <4>1. HasId(Decoded(o + 1).event_id) /\ Decoded(o + 1)' = Decoded(o + 1)
        BY <1>4, <1>7, <3>1
      <4> QED
        BY <2>1, <4>1 DEF HasId
    <3>2. CASE o = position[c] - 1
      <4>1. Decoded(o + 1)' = e
        BY <1>8, <3>2
      <4> QED
        BY <2>1, <4>1 DEF HasId
    <3> QED
      BY <1>1, <3>1, <3>2
  <2>5. /\ DOMAIN current' = Matches
        /\ \A m \in Matches \ {Match'} : current'[m] = None
    BY <1>4, <1>6, <2>1
  <2>6. k + 1 \in Nat
    OBVIOUS
  <2>7. \E n \in Nat : HoldsUpTo(n)'
    BY <2>3, <2>6
  <2> QED
    BY <1>9, <2>4, <2>5, <2>7 DEF StoreInv
<1>11. CASE Leaves(c, e)
  <2>1. current' = current /\ stored' = stored
    BY <1>11 DEF Leaves
  <2>2. HoldsUpTo(k)'
    BY <1>1, <1>3, <2>1, HeldKept
  <2>3. handled' # handled => HasId(e.event_id)
    <3>1. SUFFICES ASSUME answer'[c] \in {"applied", "duplicate"}
                   PROVE  HasId(e.event_id)
      BY <1>1
    <3> QED
      BY <1>4, <1>11, <3>1 DEF Leaves
  <2>4. ASSUME NEW o \in handled'
        PROVE  HasId(Decoded(o + 1).event_id)'
    <3>1. CASE o \in handled
      <4>1. HasId(Decoded(o + 1).event_id) /\ Decoded(o + 1)' = Decoded(o + 1)
        BY <1>4, <1>7, <3>1
      <4> QED
        BY <2>1, <4>1 DEF HasId
    <3>2. CASE o \notin handled
      <4>1. o = position[c] - 1 /\ HasId(e.event_id)
        BY <1>1, <2>3, <3>2
      <4>2. Decoded(o + 1)' = e
        BY <1>8, <4>1
      <4> QED
        BY <2>1, <4>1, <4>2 DEF HasId
    <3> QED
      BY <3>1, <3>2
  <2>5. /\ DOMAIN current' = Matches
        /\ \A m \in Matches \ {Match'} : current'[m] = None
    BY <1>4, <1>6, <2>1
  <2> QED
    BY <1>9, <2>2, <2>4, <2>5 DEF StoreInv
<1> QED
  BY <1>5, <1>10, <1>11

\* Every step leaves the store with a beginning of the replay.
LEMMA StoreStep ==
  ASSUME StrangersRefused, PublishInv, WorkInv, StoreInv, [Next]_vars
  PROVE  StoreInv'
<1>1. PublishInv' /\ Grown
  BY PublishStep
<1>2. DOMAIN answer = Members
  BY DEF StoreInv
<1>3. CASE \E c \in Members : Process(c)
  <2>1. PICK c \in Members : Process(c)
    BY <1>3
  <2>2. CASE command = "durable-project"
    BY <1>1, <2>1, <2>2, ProjectedDurably
  <2>3. CASE command # "durable-project"
    <3>1. UNCHANGED store /\ DOMAIN answer' = Members
      BY <1>2, <2>1, <2>3, NotDurable DEF PublishInv
    <3>2. file' = file /\ command' = command /\ current' = current /\ stored' = stored
          /\ events' = events
      BY <2>1, <3>1, ProcessFrame DEF store
    <3>3. PICK k \in Nat : HoldsUpTo(k)
      BY DEF StoreInv
    <3>4. HoldsUpTo(k)' /\ Match' = Match
      BY <1>1, <3>2, <3>3, HeldKept DEF Match
    <3> QED
      BY <2>3, <3>1, <3>2, <3>4 DEF StoreInv
  <2> QED
    BY <2>2, <2>3
<1>4. CASE ~(\E c \in Members : Process(c))
  <2>1. UNCHANGED <<input, store, handled>> /\ DOMAIN answer' = Members
    BY <1>2, <1>4, QuietStep
  <2> QED
    BY <1>1, <2>1, StoreKept
<1> QED
  BY <1>3, <1>4

\* At first nothing is stored.
LEMMA StoreInit == Init => StoreInv
<1> SUFFICES ASSUME Init
             PROVE  StoreInv
  OBVIOUS
<1>1. /\ current = NoStates /\ stored = {} /\ handled = {} /\ events = <<>>
      /\ answer = [c \in Members |-> "none"] /\ file \in Files
  BY DEF Init
<1>2. Match \in Matches
  BY <1>1, PipelineAssumption DEF Match
<1>3. HoldsUpTo(0)
  <2>1. 0 \in 0 .. Len(<<>>) /\ 1 .. 0 = {}
    OBVIOUS
  <2> QED
    BY <1>1, <1>2, <2>1 DEF HoldsUpTo, NoStates
<1> QED
  BY <1>1, <1>3 DEF StoreInv, NoStates

\* The store always holds a beginning of the replay.
LEMMA Stored == ASSUME StrangersRefused PROVE Spec => [](PublishInv /\ WorkInv /\ StoreInv)
<1>1. PublishInv /\ WorkInv /\ StoreInv /\ [Next]_vars => (PublishInv /\ WorkInv /\ StoreInv)'
  BY PublishStep, WorkStep, StoreStep
<1> QED
  BY PublishInit, WorkInit, StoreInit, <1>1, PTL DEF Spec

(***************************************************************************)
(* The durable projection of the file's match is that of a beginning of    *)
(* the replay, for any number of producers and members and any failures,   *)
(* if what others publish is no event of the contract (cli.py              *)
(* _durable_project, processing.py project_next).                          *)
(***************************************************************************)
THEOREM StoreHoldsBeginning ==
  ASSUME StrangersRefused
  PROVE  Spec => []StoreIsReplayPrefix
<1>1. ASSUME PublishInv, StoreInv
      PROVE  StoreIsReplayPrefix
  <2> SUFFICES ASSUME stored # {}
               PROVE  \E k \in DOMAIN events :
                        /\ stored = {events[i] : i \in 1 .. k}
                        /\ current[Match] = Fold(SubSeq(events, 1, k))
    BY DEF StoreIsReplayPrefix
  <2>1. PICK k \in Nat : HoldsUpTo(k)
    BY <1>1 DEF StoreInv
  <2>2. k # 0
    <3>1. 1 .. 0 = {}
      OBVIOUS
    <3> QED
      BY <2>1, <3>1 DEF HoldsUpTo
  <2>3. DOMAIN events = 1 .. Len(events) /\ Len(events) \in Nat
    BY <1>1, EventsAreReplay, IndexIsPlace DEF PublishInv
  <2>4. k \in DOMAIN events
    BY <2>1, <2>2, <2>3 DEF HoldsUpTo
  <2>5. current[Match] = Fold(SubSeq(events, 1, k))
    BY <2>1, <2>2 DEF HoldsUpTo, Fold, Played
  <2> QED
    BY <2>1, <2>4, <2>5 DEF HoldsUpTo
<1> QED
  BY Stored, <1>1, PTL

-----------------------------------------------------------------------------
(* What is refused. *)

AnswerInv ==
  /\ DOMAIN answer = Members
  /\ command = "durable-project" =>
       \A c \in Members : answer[c] = "poison" => ~Sound(events)

\* A replay that is not sound is not empty.
LEMMA UnsoundIsLoaded ==
  ASSUME ~Sound(events)
  PROVE  events # <<>>
<1>1. DOMAIN <<>> = {}
  OBVIOUS
<1> QED
  BY <1>1 DEF Sound

\* No step refuses an event of a sound replay.
LEMMA AnswerStep ==
  ASSUME StrangersRefused, PublishInv, WorkInv, StoreInv, AnswerInv, [Next]_vars
  PROVE  AnswerInv'
<1>1. PublishInv' /\ Grown
  BY PublishStep
<1>2. DOMAIN answer = Members
  BY DEF AnswerInv
<1>3. CASE \E c \in Members : Process(c)
  <2>1. PICK c \in Members : Process(c)
    BY <1>3
  <2>2. /\ pc[c] = "process" /\ command' = command /\ events' = events
        /\ command = "durable-project" => ProjectDurably(c)
    BY <2>1, ProcessFrame
  <2>3. CASE command = "durable-project"
    <3> DEFINE e == Record(c)
    <3>1. PICK j \in DOMAIN events :
            /\ e = events[j] /\ e.match_id = Match /\ Match \in Matches
            /\ \A l \in 1 .. j - 1 : HasId(events[l].event_id)
      BY <2>2, <2>3, DurablyInHand
    <3>2. PICK k \in Nat : HoldsUpTo(k)
      BY DEF StoreInv
    <3>3. Applies(c, e) \/ Leaves(c, e)
      BY <2>2, <2>3, DurableStep
    <3> HIDE DEF e
    <3>4. /\ DOMAIN answer' = Members
          /\ \A d \in Members \ {c} : answer'[d] = answer[d]
      BY <1>2, <3>3 DEF Applies, Leaves
    <3>5. ASSUME answer'[c] = "poison"
          PROVE  ~Sound(events)
      <4>1. /\ ~HasId(e.event_id)
            /\ ~Accepts(OrInitial(current[e.match_id], e.match_id), e)
        BY <1>2, <3>3, <3>5 DEF Applies, Leaves
      <4> QED
        BY <3>1, <3>2, <4>1, SoundIsAccepted
    <3>6. \A d \in Members : answer'[d] = "poison" => ~Sound(events)
      BY <2>3, <3>4, <3>5 DEF AnswerInv
    <3> QED
      BY <2>2, <3>4, <3>6 DEF AnswerInv
  <2>4. CASE command # "durable-project"
    <3>1. DOMAIN answer' = Members
      BY <1>2, <2>1, <2>4, NotDurable DEF PublishInv
    <3> QED
      BY <2>2, <2>4, <3>1 DEF AnswerInv
  <2> QED
    BY <2>3, <2>4
<1>4. CASE ~(\E c \in Members : Process(c))
  <2>1. /\ UNCHANGED input /\ DOMAIN answer' = Members
        /\ \A c \in Members : answer'[c] \in {answer[c], "none"}
    BY <1>2, <1>4, QuietStep
  <2>2. file' = file /\ command' = command
    BY <2>1 DEF input
  <2>3. ASSUME command' = "durable-project", NEW c \in Members, answer'[c] = "poison"
        PROVE  ~Sound(events')
    <3>1. answer[c] = "poison"
      BY <2>1, <2>3
    <3>2. ~Sound(events)
      BY <2>2, <2>3, <3>1 DEF AnswerInv
    <3>3. events' = events
      BY <1>1, <2>2, <3>2, UnsoundIsLoaded, SameEvents
    <3> QED
      BY <3>2, <3>3
  <2> QED
    BY <2>1, <2>3 DEF AnswerInv
<1> QED
  BY <1>3, <1>4

\* At first nothing was refused.
LEMMA AnswerInit == Init => AnswerInv
BY DEF Init, AnswerInv

(***************************************************************************)
(* durable-project never refuses an event of a replay with one identity    *)
(* per event and a team for every goal, whatever fails or is repeated, if  *)
(* what others publish is no event of the contract: what was stored        *)
(* before a restart is known by its identity, and what comes next follows  *)
(* it (processing.py project_next, postgres.py process_event).             *)
(***************************************************************************)
THEOREM SoundReplayApplies ==
  ASSUME StrangersRefused
  PROVE  Spec => []SoundReplayNeverRefused
<1> DEFINE IInv == PublishInv /\ WorkInv /\ StoreInv /\ AnswerInv
<1>1. Init => IInv
  BY PublishInit, WorkInit, StoreInit, AnswerInit
<1>2. IInv /\ [Next]_vars => IInv'
  BY PublishStep, WorkStep, StoreStep, AnswerStep
<1>3. IInv => SoundReplayNeverRefused
  BY DEF AnswerInv, SoundReplayNeverRefused
<1> QED
  BY <1>1, <1>2, <1>3, PTL DEF Spec

-----------------------------------------------------------------------------
(* What a process remembers. *)

\* The state is that of a stretch of the replay.
IsWindow(state) ==
  \E i, j \in DOMAIN events : i <= j /\ state = Played(Match, events, i, j)

MemoryInv ==
  /\ states \in [Members -> [Matches -> MatchState \cup {None}]]
  /\ seen \in [Members -> SUBSET EventIds]
  /\ \A c \in Members, m \in Matches :
       states[c][m] # None => m = Match /\ IsWindow(states[c][m])

\* Nobody changes the file or the command.
LEMMA InputStays ==
  ASSUME [Next]_vars
  PROVE  file' = file /\ command' = command /\ Match' = Match
BY Sides DEF input, Match

\* What was folded from a stretch of the replay still is.
LEMMA WindowKept ==
  ASSUME PublishInv, PublishInv', Grown, file' = file, NEW state, IsWindow(state)
  PROVE  IsWindow(state)'
<1>1. DOMAIN <<>> = {}
  OBVIOUS
<1>2. events # <<>>
  BY <1>1 DEF IsWindow
<1>3. events' = events
  BY <1>2, SameEvents
<1> QED
  BY <1>3 DEF IsWindow, Match

\* What a step does to the memory of the processes, if none is about to project.
LEMMA MemoryStays ==
  ASSUME [Next]_vars, ~(\E c \in Members : Process(c)), MemoryInv
  PROVE  /\ states' \in [Members -> [Matches -> MatchState \cup {None}]]
         /\ seen' \in [Members -> SUBSET EventIds]
         /\ \A c \in Members : states'[c] \in {states[c], NoStates}
<1>1. UNCHANGED memory \/ \E c \in Members : Gone(c)
  <2> USE DEF member
  <2>1. CASE UNCHANGED vars
    BY <2>1 DEF vars
  <2>2. ASSUME NEW p \in Producers, Produce(p) \/ PublishFails(p) \/ PCrash(p)
        PROVE  UNCHANGED memory
    BY <2>2 DEF Produce, Load, Publish, PClose, PublishFails, PCrash
  <2>3. CASE Stranger \/ FindMatch \/ ReadPage
    BY <2>3 DEF Stranger, FindMatch, ReadPage
  <2>4. ASSUME NEW c \in Members,
               Start(c) \/ Assign(c) \/ Poll(c) \/ PollNothing(c) \/ CommitFails(c) \/ Commit(c)
        PROVE  UNCHANGED memory
    BY <2>4 DEF Start, Assign, Poll, PollNothing, CommitFails, Commit, vars
  <2>5. ASSUME NEW c \in Members, Close(c) \/ Crash(c)
        PROVE  Gone(c)
    BY <2>5 DEF Close, Crash
  <2> QED
    BY <2>1, <2>2, <2>3, <2>4, <2>5 DEF Next, Work
<1>2. CASE UNCHANGED memory
  BY <1>2 DEF MemoryInv, memory
<1>3. CASE \E c \in Members : Gone(c)
  <2>1. PICK c \in Members : /\ states' = [states EXCEPT ![c] = NoStates]
                             /\ seen' = [seen EXCEPT ![c] = {}]
    BY <1>3 DEF Gone
  <2>2. NoStates \in [Matches -> MatchState \cup {None}]
    BY DEF NoStates
  <2> QED
    BY <2>1, <2>2 DEF MemoryInv
<1> QED
  BY <1>1, <1>2, <1>3

\* The state after an event that was accepted is that of a longer stretch.
LEMMA OneMorePlayed ==
  ASSUME PublishInv, NEW l \in DOMAIN events, NEW state,
         state # None => IsWindow(state),
         Accepts(OrInitial(state, Match), events[l])
  PROVE  /\ ApplyEvent(OrInitial(state, Match), events[l]) \in MatchState
         /\ IsWindow(ApplyEvent(OrInitial(state, Match), events[l]))
<1> DEFINE e == events[l]
           p == OrInitial(state, Match)
<1>1. Replayed(events, Match)
  BY EventsAreReplay DEF PublishInv
<1>2. /\ DOMAIN events = 1 .. Len(events) /\ Len(events) \in Nat
      /\ \A i \in DOMAIN events : events[i] \in CanonicalEvent /\ events[i].match_id = Match
      /\ \A i, n \in DOMAIN events : events[n].sequence - events[i].sequence = n - i
  BY <1>1, IndexIsPlace
<1>3. e \in CanonicalEvent /\ l \in 1 .. Len(events)
  BY <1>2
<1>4. CASE state = None
  <2>1. p = InitialState(Match)
    BY <1>4 DEF OrInitial
  <2>2. InitialState(Match) \in MatchState /\ InitialState(Match).match_id = Match
    BY <1>1, PlayedIsAt
  <2>3. InitialState(Match) # None
    BY <2>2, PipelineAssumption
  <2>4. Played(Match, events, l, l - 1) = InitialState(Match)
    BY <1>1, PlayedExtends
  <2>5. l \in l .. Len(events)
    BY <1>3
  <2>6. Played(Match, events, l, l) = RebuildStep(Played(Match, events, l, l - 1), e)
    BY <1>1, <2>5, PlayedExtends
  <2> HIDE DEF e, p
  <2>7. Played(Match, events, l, l) = ApplyEvent(p, e)
    BY <2>1, <2>3, <2>4, <2>6 DEF RebuildStep, e, p
  <2>8. ApplyEvent(p, e) \in MatchState
    BY <1>3, <2>1, <2>2, AppliedIsAt DEF At, e, p
  <2>9. IsWindow(ApplyEvent(p, e))
    BY <1>3, <2>7 DEF IsWindow
  <2> QED
    BY <2>8, <2>9 DEF e, p
<1>5. CASE state # None
  <2>1. PICK i, j \in DOMAIN events : i <= j /\ state = Played(Match, events, i, j)
    BY <1>5 DEF IsWindow
  <2>2. p = state
    BY <1>5 DEF OrInitial
  <2>3. j \in i .. Len(events)
    BY <1>2, <2>1
  <2>4. At(state, Match, events[j])
    BY <1>1, <1>5, <2>1, <2>3, PlayedIsAt
  <2>5. state \in MatchState /\ state.match_id = Match /\ state.latest_sequence = events[j].sequence
    BY <2>4 DEF At
  <2>6. events[j].sequence \in Nat /\ e.sequence \in Nat
    BY <1>2, <1>3 DEF CanonicalEvent
  <2>7. state.latest_sequence # None
    BY <2>5, <2>6, NoneAssumption
  <2>8. ~SequenceGap(state, e)
    BY <2>2, <2>7 DEF Accepts, ValidTransition
  <2>9. e.sequence - events[j].sequence = 1
    BY <2>5, <2>6, <2>8 DEF SequenceGap
  <2>10. l = j + 1
    <3>1. e.sequence - events[j].sequence = l - j
      BY <1>2
    <3> QED
      BY <1>2, <2>9, <3>1
  <2>11. l \in i .. Len(events) /\ l - 1 = j /\ i <= l
    BY <1>2, <2>1, <2>10
  <2>12. Played(Match, events, i, l) = RebuildStep(Played(Match, events, i, l - 1), e)
    BY <1>1, <2>11, PlayedExtends
  <2> HIDE DEF e, p
  <2>13. Played(Match, events, i, l) = ApplyEvent(p, e)
    BY <1>5, <2>1, <2>2, <2>11, <2>12 DEF RebuildStep, e, p
  <2>14. ApplyEvent(p, e) \in MatchState
    BY <1>3, <2>2, <2>5, AppliedIsAt DEF At, e, p
  <2>15. IsWindow(ApplyEvent(p, e))
    BY <2>11, <2>13 DEF IsWindow
  <2> QED
    BY <2>14, <2>15 DEF e, p
<1> QED
  BY <1>4, <1>5

\* What a process that projects in its memory does to it.
LEMMA ProjectedInMemory ==
  ASSUME StrangersRefused, PublishInv, WorkInv, MemoryInv,
         NEW c \in Members, pc[c] = "process", ProjectInMemory(c)
  PROVE  /\ states' \in [Members -> [Matches -> MatchState \cup {None}]]
         /\ seen' \in [Members -> SUBSET EventIds]
         /\ \A d \in Members, m \in Matches :
              \/ states'[d][m] = states[d][m]
              \/ m = Match /\ IsWindow(states'[d][m])
<1> DEFINE e == Record(c)
           p == OrInitial(states[c][Match], Match)
<1>1. /\ e.match_id = Match /\ Match \in Matches /\ e.event_id \in EventIds
      /\ e \in CanonicalEvent
  BY RecordType
<1>2. Durable!StateOrInitial(states[c][Match], Match) = p
  BY SameTransition DEF Durable!StateOrInitial, OrInitial
<1>3. \/ UNCHANGED memory
      \/ /\ Accepts(p, e)
         /\ states' = [states EXCEPT ![c][Match] = ApplyEvent(p, e)]
         /\ seen' = [seen EXCEPT ![c] = @ \cup {e.event_id}]
  BY <1>1, <1>2 DEF ProjectInMemory
<1>4. CASE UNCHANGED memory
  BY <1>4 DEF memory, MemoryInv
<1>5. CASE /\ Accepts(p, e)
           /\ states' = [states EXCEPT ![c][Match] = ApplyEvent(p, e)]
           /\ seen' = [seen EXCEPT ![c] = @ \cup {e.event_id}]
  <2>1. PICK l \in DOMAIN events : e = events[l]
    BY InHand
  <2>2. states[c][Match] # None => IsWindow(states[c][Match])
    BY <1>1 DEF MemoryInv
  <2>3. ApplyEvent(p, e) \in MatchState /\ IsWindow(ApplyEvent(p, e))
    BY <1>5, <2>1, <2>2, OneMorePlayed
  <2> HIDE DEF e, p
  <2>4. states \in [Members -> [Matches -> MatchState \cup {None}]]
    BY DEF MemoryInv
  <2>5. states' \in [Members -> [Matches -> MatchState \cup {None}]]
    BY <1>1, <1>5, <2>3, <2>4
  <2>6. seen' \in [Members -> SUBSET EventIds]
    BY <1>1, <1>5 DEF MemoryInv
  <2>7. states'[c][Match] = ApplyEvent(p, e)
    BY <1>1, <1>5, <2>4
  <2>8. \A d \in Members, m \in Matches :
          d # c \/ m # Match => states'[d][m] = states[d][m]
    BY <1>1, <1>5, <2>4
  <2> QED
    BY <2>3, <2>5, <2>6, <2>7, <2>8
<1> QED
  BY <1>3, <1>4, <1>5

\* Every step leaves memories of unbroken stretches.
LEMMA MemoryStep ==
  ASSUME StrangersRefused, PublishInv, WorkInv, MemoryInv, [Next]_vars
  PROVE  MemoryInv'
<1>1. PublishInv' /\ Grown /\ file' = file /\ Match' = Match
  BY PublishStep, InputStays
<1>2. ASSUME NEW c \in Members, NEW m \in Matches, states'[c][m] = states[c][m],
             states'[c][m] # None
      PROVE  m = Match' /\ IsWindow(states[c][m])'
  <2>1. PICK s : s = states[c][m]
    OBVIOUS
  <2>2. m = Match /\ IsWindow(s)
    BY <1>2, <2>1 DEF MemoryInv
  <2>3. IsWindow(s)'
    BY <1>1, <2>2, WindowKept
  <2>4. s = states'[c][m]
    BY <1>2, <2>1
  <2> QED
    BY <1>1, <2>2, <2>3, <2>4 DEF IsWindow
<1>3. CASE \E c \in Members : Process(c)
  <2>1. PICK c \in Members : Process(c)
    BY <1>3
  <2>2. /\ pc[c] = "process" /\ events' = events
        /\ command = "durable-project" => ProjectDurably(c)
        /\ command = "project" => ProjectInMemory(c)
        /\ command = "consume" => PrintOnce(c)
    BY <2>1, ProcessFrame
  <2>3. /\ states' \in [Members -> [Matches -> MatchState \cup {None}]]
        /\ seen' \in [Members -> SUBSET EventIds]
        /\ \A d \in Members, m \in Matches :
             \/ states'[d][m] = states[d][m]
             \/ m = Match /\ IsWindow(states'[d][m])
    <3>1. command \in {"consume", "project", "durable-project"}
      BY PipelineAssumption DEF PublishInv, EventsInv
    <3>2. CASE command = "durable-project"
      <4>1. UNCHANGED memory
        BY <2>2, <3>2 DEF ProjectDurably
      <4> QED
        BY <4>1 DEF memory, MemoryInv
    <3>3. CASE command = "project"
      BY <2>2, <3>3, ProjectedInMemory
    <3>4. CASE command = "consume"
      <4>1. /\ states' = states
            /\ seen' = [seen EXCEPT ![c] = @ \cup {Record(c).event_id}]
        BY <2>2, <3>4 DEF PrintOnce
      <4>2. Record(c).event_id \in EventIds
        BY <2>2, RecordType
      <4> QED
        BY <4>1, <4>2 DEF MemoryInv
    <3> QED
      BY <3>1, <3>2, <3>3, <3>4
  <2>4. ASSUME NEW d \in Members, NEW m \in Matches, states'[d][m] # None
        PROVE  m = Match' /\ IsWindow(states[d][m])'
    <3>1. CASE states'[d][m] = states[d][m]
      BY <1>2, <2>4, <3>1
    <3>2. CASE m = Match /\ IsWindow(states'[d][m])
      BY <1>1, <2>2, <3>2 DEF IsWindow
    <3> QED
      BY <2>3, <3>1, <3>2
  <2> QED
    BY <2>3, <2>4 DEF MemoryInv
<1>4. CASE ~(\E c \in Members : Process(c))
  <2>1. /\ states' \in [Members -> [Matches -> MatchState \cup {None}]]
        /\ seen' \in [Members -> SUBSET EventIds]
        /\ \A c \in Members : states'[c] \in {states[c], NoStates}
    BY <1>4, MemoryStays
  <2>2. ASSUME NEW c \in Members, NEW m \in Matches, states'[c][m] # None
        PROVE  m = Match' /\ IsWindow(states[c][m])'
    <3>1. states'[c] # NoStates
      BY <2>2 DEF NoStates
    <3>2. states'[c][m] = states[c][m]
      BY <2>1, <3>1
    <3> QED
      BY <1>2, <2>2, <3>2
  <2> QED
    BY <2>1, <2>2 DEF MemoryInv
<1> QED
  BY <1>3, <1>4

\* At first nobody remembers anything.
LEMMA MemoryInit == Init => MemoryInv
BY DEF Init, MemoryInv, NoStates

(***************************************************************************)
(* The memory of a project process is that of one unbroken stretch of the  *)
(* replay, wherever it started and however often the partition was taken   *)
(* from it and given back (streaming/processing.py, state/projector.py).   *)
(***************************************************************************)
THEOREM MemoryNeverSpansHole ==
  ASSUME StrangersRefused
  PROVE  Spec => []MemoryIsWindow
<1> DEFINE IInv == PublishInv /\ WorkInv /\ MemoryInv
<1>1. Init => IInv
  BY PublishInit, WorkInit, MemoryInit
<1>2. IInv /\ [Next]_vars => IInv'
  BY PublishStep, WorkStep, MemoryStep
<1>3. IInv => MemoryIsWindow
  BY DEF MemoryInv, IsWindow, MemoryIsWindow, Played, Fold
<1> QED
  BY <1>1, <1>2, <1>3, PTL DEF Spec

-----------------------------------------------------------------------------
(* What the client of the read API gets. *)

\* The stretch of a replay after place i up to place j.
After(s, i, j) == SubSeq(s, i + 1, j)

IsAfter(x, s, i, j) ==
  /\ x \in Seq(CanonicalEvent) /\ Len(x) = j - i /\ DOMAIN x = 1 .. j - i
  /\ \A k \in 1 .. j - i : x[k] = s[i + k] /\ i + k \in DOMAIN s

\* The events of a stretch.
LEMMA AfterFacts ==
  ASSUME NEW m, NEW s, Replayed(s, m), NEW i \in Nat, NEW j \in Nat, i <= j, j <= Len(s)
  PROVE  IsAfter(After(s, i, j), s, i, j)
<1>1. s \in Seq(CanonicalEvent) /\ DOMAIN s = 1 .. Len(s) /\ Len(s) \in Nat
  BY IndexIsPlace DEF Replayed
<1>2. \A k \in i + 1 .. j : s[k] \in CanonicalEvent
  BY <1>1
<1>3. /\ SubSeq(s, i + 1, j) \in Seq(CanonicalEvent) /\ Len(SubSeq(s, i + 1, j)) = j - i
      /\ \A k \in 1 .. j - i : SubSeq(s, i + 1, j)[k] = s[i + k]
  <2> DEFINE n == j - i
             f == SubSeq(s, i + 1, j)
  <2>1. n \in Nat /\ f = [k \in 1 .. n |-> s[i + k]]
    BY <1>1
  <2>2. \A k \in 1 .. n : f[k] = s[i + k] /\ f[k] \in CanonicalEvent
    BY <1>1, <2>1
  <2>3. f = [k \in 1 .. n |-> f[k]]
    BY <2>1
  <2> HIDE DEF n, f
  <2>4. f \in [1 .. n -> CanonicalEvent]
    BY <2>2, <2>3
  <2>5. f \in Seq(CanonicalEvent) /\ Len(f) = n
    BY <2>1, <2>4
  <2> QED
    BY <2>2, <2>5 DEF f, n
<1>4. \A k \in 1 .. j - i : i + k \in DOMAIN s
  BY <1>1
<1>5. DOMAIN SubSeq(s, i + 1, j) = 1 .. j - i
  BY <1>3
<1> QED
  BY <1>3, <1>4, <1>5 DEF After, IsAfter

\* ORDER BY sequence gives the events of a stretch in the order of the replay.
LEMMA StretchInOrder ==
  ASSUME NEW m, NEW s, Replayed(s, m), NEW i \in Nat, NEW j \in Nat, i <= j, j <= Len(s)
  PROVE  InOrder({s[k] : k \in i + 1 .. j}) = After(s, i, j)
<1> DEFINE E == {s[k] : k \in i + 1 .. j}
           n == j - i
           t == After(s, i, j)
<1>1. /\ DOMAIN s = 1 .. Len(s) /\ Len(s) \in Nat
      /\ \A k \in DOMAIN s : s[k] \in CanonicalEvent
      /\ \A k, l \in DOMAIN s : s[l].sequence - s[k].sequence = l - k
  BY IndexIsPlace
<1>2. \A k \in DOMAIN s : s[k].sequence \in Nat
  BY <1>1 DEF CanonicalEvent
<1>3. \A k, l \in DOMAIN s : k < l <=> s[k].sequence < s[l].sequence
  <2> SUFFICES ASSUME NEW k \in DOMAIN s, NEW l \in DOMAIN s
               PROVE  k < l <=> s[k].sequence < s[l].sequence
    OBVIOUS
  <2>1. s[l].sequence - s[k].sequence = l - k /\ k \in Nat /\ l \in Nat
        /\ s[k].sequence \in Nat /\ s[l].sequence \in Nat
    BY <1>1, <1>2
  <2> QED
    BY <2>1
<1>4. n \in Nat /\ \A k \in i + 1 .. j : k \in DOMAIN s
  BY <1>1
<1>5. /\ DOMAIN t = 1 .. n /\ t = [k \in 1 .. n |-> t[k]]
      /\ \A k \in 1 .. n : t[k] = s[i + k] /\ i + k \in DOMAIN s /\ i + k \in i + 1 .. j
  <2>1. t \in Seq(CanonicalEvent) /\ DOMAIN t = 1 .. n
        /\ \A k \in 1 .. n : t[k] = s[i + k] /\ i + k \in DOMAIN s
    BY AfterFacts DEF IsAfter
  <2> HIDE DEF t
  <2>2. t = [k \in 1 .. n |-> t[k]]
    BY <2>1
  <2>3. \A k \in 1 .. n : i + k \in i + 1 .. j
    BY <1>4
  <2> QED
    BY <2>1, <2>2, <2>3
<1> HIDE DEF t
<1>6. t \in [1 .. n -> E]
  BY <1>5
<1>7. \A e \in E : \E k \in 1 .. n : t[k] = e
  <2> TAKE e \in E
  <2>1. PICK k \in i + 1 .. j : e = s[k]
    OBVIOUS
  <2>2. k - i \in 1 .. n /\ i + (k - i) = k
    BY <1>4, <2>1
  <2>3. t[k - i] = s[i + (k - i)]
    BY <1>5, <2>2
  <2> QED
    BY <2>1, <2>2, <2>3
<1>8. \A k, l \in 1 .. n : k < l <=> t[k].sequence < t[l].sequence
  <2> TAKE k, l \in 1 .. n
  <2>1. t[k] = s[i + k] /\ t[l] = s[i + l] /\ i + k \in DOMAIN s /\ i + l \in DOMAIN s
    BY <1>5
  <2>2. i + k < i + l <=> s[i + k].sequence < s[i + l].sequence
    BY <1>3, <2>1
  <2>3. i + k < i + l <=> k < l
    BY <1>4
  <2> QED
    BY <2>1, <2>2, <2>3
<1>9. \A k, l \in 1 .. n : t[k] = t[l] => k = l
  <2> SUFFICES ASSUME NEW k \in 1 .. n, NEW l \in 1 .. n, t[k] = t[l]
               PROVE  k = l
    OBVIOUS
  <2>1. t[k].sequence \in Nat
    BY <1>2, <1>5
  <2>2. ~(t[k].sequence < t[l].sequence) /\ ~(t[l].sequence < t[k].sequence)
    BY <2>1
  <2>3. ~(k < l) /\ ~(l < k)
    BY <1>8, <2>2
  <2> QED
    BY <1>4, <2>3
<1>10. IsFiniteSet(E) /\ Cardinality(E) = n
  <2>1. IsFiniteSet(1 .. n) /\ Cardinality(1 .. n) = IF 1 > n THEN 0 ELSE n - 1 + 1
    BY <1>4, FS_Interval
  <2>2. Cardinality(1 .. n) = n
    BY <1>4, <2>1
  <2> HIDE DEF E, n
  <2>3. t \in Surjection(1 .. n, E) /\ t \in Injection(1 .. n, E)
    BY <1>6, <1>7, <1>9 DEF Surjection, Injection, IsInjective
  <2> QED
    BY <2>1, <2>2, <2>3, FS_Surjection
<1>11. StrictOrder(E, BySequence(E))
  <2>1. \A e \in E : e.sequence \in Nat
    BY <1>2, <1>4
  <2>2. \A e, f \in E : e # f => e.sequence # f.sequence
    <3> SUFFICES ASSUME NEW e \in E, NEW f \in E, e.sequence = f.sequence
                 PROVE  e = f
      OBVIOUS
    <3>1. PICK k \in 1 .. n, l \in 1 .. n : e = t[k] /\ f = t[l]
      BY <1>7
    <3>2. ~(t[k].sequence < t[l].sequence) /\ ~(t[l].sequence < t[k].sequence)
      BY <2>1, <3>1
    <3>3. ~(k < l) /\ ~(l < k)
      BY <1>8, <3>2
    <3>4. k = l
      BY <1>4, <3>3
    <3> QED
      BY <3>1, <3>4
  <2> HIDE DEF E
  <2>3. \A e, f \in E : <<e, f>> \in BySequence(E) <=> e.sequence < f.sequence
    BY DEF BySequence
  <2>4. \A e, f \in E : e # f => <<e, f>> \in BySequence(E) \/ <<f, e>> \in BySequence(E)
    BY <2>1, <2>2, <2>3
  <2>5. \A e \in E : <<e, e>> \notin BySequence(E)
    BY <2>1, <2>3
  <2>6. \A e, f, g \in E : <<e, f>> \in BySequence(E) /\ <<f, g>> \in BySequence(E) =>
                             <<e, g>> \in BySequence(E)
    BY <2>1, <2>3
  <2> QED
    BY <2>4, <2>5, <2>6 DEF StrictOrder
<1>12. \A k, l \in 1 .. n : k < l => <<t[k], t[l]>> \in BySequence(E)
  BY <1>6, <1>8 DEF BySequence
<1> HIDE DEF E, n
<1>13. n = Cardinality(E)
  BY <1>10
<1>14. t = Sorted(E, BySequence(E))
  BY <1>6, <1>10, <1>11, <1>12, <1>13, SortedUnique
<1> QED
  BY <1>14 DEF InOrder, E, t

\* One stretch after another is one stretch.
LEMMA AfterJoined ==
  ASSUME NEW m, NEW s, Replayed(s, m), NEW n \in Nat, NEW j \in Nat, n <= j, j <= Len(s)
  PROVE  After(s, 0, n) \o After(s, n, j) = After(s, 0, j)
<1> DEFINE x == After(s, 0, n)
           y == After(s, n, j)
           z == After(s, 0, j)
<1>1. n <= Len(s) /\ 0 <= n /\ 0 <= j /\ n - 0 = n /\ j - 0 = j
  BY IndexIsPlace
<1>8. IsAfter(x, s, 0, n) /\ IsAfter(y, s, n, j) /\ IsAfter(z, s, 0, j)
  BY <1>1, AfterFacts
<1> HIDE DEF x, y, z
<1>2. x \in Seq(CanonicalEvent) /\ Len(x) = n /\ \A k \in 1 .. n : x[k] = s[k]
  BY <1>1, <1>8 DEF IsAfter
<1>3. y \in Seq(CanonicalEvent) /\ Len(y) = j - n /\ \A k \in 1 .. j - n : y[k] = s[n + k]
  BY <1>8 DEF IsAfter
<1>4. z \in Seq(CanonicalEvent) /\ Len(z) = j /\ \A k \in 1 .. j : z[k] = s[k]
  BY <1>1, <1>8 DEF IsAfter
<1>5. /\ x \o y \in Seq(CanonicalEvent) /\ Len(x \o y) = j
      /\ \A k \in 1 .. j : (x \o y)[k] = IF k <= n THEN x[k] ELSE y[k - n]
  <2>1. x \o y \in Seq(CanonicalEvent) /\ Len(x \o y) = j
    <3>1. x \in Seq(CanonicalEvent) /\ y \in Seq(CanonicalEvent)
      BY <1>2, <1>3
    <3>2. x \o y \in Seq(CanonicalEvent) /\ Len(x \o y) = Len(x) + Len(y)
      BY <3>1, ConcatProperties
    <3> QED
      BY <1>2, <1>3, <3>2
  <2>2. ASSUME NEW k \in 1 .. j
        PROVE  (x \o y)[k] = IF k <= n THEN x[k] ELSE y[k - n]
    <3>1. k \in 1 .. Len(x) + Len(y)
      BY <1>2, <1>3
    <3>2. (x \o y)[k] = IF k <= Len(x) THEN x[k] ELSE y[k - Len(x)]
      BY <1>2, <1>3, <3>1
    <3> QED
      BY <1>2, <3>2
  <2> QED
    BY <2>1, <2>2
<1>6. ASSUME NEW k \in 1 .. j
      PROVE  (x \o y)[k] = z[k]
  <2>1. CASE k <= n
    BY <1>2, <1>4, <1>5, <2>1
  <2>2. CASE ~(k <= n)
    <3>1. k - n \in 1 .. j - n /\ n + (k - n) = k
      BY <2>2
    <3>2. (x \o y)[k] = y[k - n]
      BY <1>5, <2>2
    <3>3. y[k - n] = s[n + (k - n)]
      BY <1>3, <3>1
    <3>4. z[k] = s[k]
      BY <1>4
    <3> QED
      BY <3>1, <3>2, <3>3, <3>4
  <2> QED
    BY <2>1, <2>2
<1>7. x \o y = z
  <2> DEFINE xy == x \o y
  <2>1. xy \in Seq(CanonicalEvent) /\ Len(xy) = j /\ \A k \in 1 .. j : xy[k] = z[k]
    BY <1>5, <1>6
  <2> HIDE DEF xy
  <2>2. xy = z
    BY <1>4, <2>1
  <2> QED
    BY <2>2 DEF xy
<1> QED
  BY <1>7 DEF x, y, z

\* What the client has got: the first n events of the replay, all stored.
GotUpTo(n) ==
  /\ n <= Len(events) /\ received = After(events, 0, n)
  /\ \A i \in 1 .. n : events[i] \in stored

ReaderInv ==
  /\ rpc \in {"match", "events", "end"}
  /\ \E n \in Nat : GotUpTo(n)

\* The client has got no more than is stored.
LEMMA GotIsHeld ==
  ASSUME PublishInv, NEW k \in Nat, HoldsUpTo(k), NEW n \in Nat, GotUpTo(n)
  PROVE  n <= k /\ k <= Len(events)
<1>1. /\ DOMAIN events = 1 .. Len(events) /\ Len(events) \in Nat
      /\ \A i, j \in DOMAIN events : events[j].sequence - events[i].sequence = j - i
      /\ \A i \in DOMAIN events : events[i] \in CanonicalEvent
  BY EventsAreReplay, IndexIsPlace DEF PublishInv
<1>2. k \in 0 .. Len(events) /\ stored = {events[i] : i \in 1 .. k}
  BY DEF HoldsUpTo
<1>3. CASE n = 0
  BY <1>1, <1>2, <1>3
<1>4. CASE n # 0
  <2>1. n \in 1 .. n /\ n \in DOMAIN events
    BY <1>1, <1>4 DEF GotUpTo
  <2>2. PICK i \in 1 .. k : events[n] = events[i]
    BY <1>2, <2>1 DEF GotUpTo
  <2>3. i \in DOMAIN events
    BY <1>1, <1>2
  <2>4. events[n].sequence \in Nat /\ events[n].sequence = events[i].sequence
    BY <1>1, <2>1, <2>2 DEF CanonicalEvent
  <2>5. events[i].sequence - events[n].sequence = i - n
    BY <1>1, <2>1, <2>3
  <2>6. n = i
    BY <1>1, <2>1, <2>3, <2>4, <2>5
  <2> QED
    BY <1>2, <2>6
<1> QED
  BY <1>3, <1>4

\* The rows after the cursor are the events that are stored and not yet got.
LEMMA RowsAfterCursor ==
  ASSUME PublishInv, NEW k \in Nat, HoldsUpTo(k), NEW n \in Nat, GotUpTo(n)
  PROVE  {e \in stored : e.match_id = Match /\ AfterCursor(e, LastReceived)} =
           {events[i] : i \in n + 1 .. k}
<1>1. /\ DOMAIN events = 1 .. Len(events) /\ Len(events) \in Nat
      /\ \A i, j \in DOMAIN events : events[j].sequence - events[i].sequence = j - i
      /\ \A i \in DOMAIN events : events[i] \in CanonicalEvent /\ events[i].match_id = Match
      /\ Replayed(events, Match)
  BY EventsAreReplay, IndexIsPlace DEF PublishInv
<1>2. stored = {events[i] : i \in 1 .. k} /\ n <= k /\ k <= Len(events)
  BY GotIsHeld DEF HoldsUpTo
<1>3. /\ received \in Seq(CanonicalEvent) /\ Len(received) = n
      /\ \A i \in 1 .. n : received[i] = events[i]
  <2>1. 0 <= n /\ n <= Len(events) /\ n - 0 = n
    BY <1>1, <1>2
  <2>2. IsAfter(received, events, 0, n)
    BY <1>1, <2>1, AfterFacts DEF GotUpTo
  <2> QED
    BY <2>1, <2>2 DEF IsAfter
<1>4. \A i \in 1 .. k : AfterCursor(events[i], LastReceived) <=> i > n
  <2> TAKE i \in 1 .. k
  <2>1. CASE n = 0
    <3>1. LastReceived = None
      BY <1>3, <2>1 DEF LastReceived
    <3> QED
      BY <2>1, <3>1 DEF AfterCursor
  <2>2. CASE n # 0
    <3>1. n \in 1 .. n /\ n \in DOMAIN events /\ i \in DOMAIN events
      BY <1>1, <1>2, <2>2
    <3>2. received # <<>>
      BY <1>3, <2>2
    <3>3. received[n] = events[n]
      BY <1>3, <3>1
    <3>4. LastReceived = events[n].sequence
      BY <1>3, <3>2, <3>3 DEF LastReceived, Last
    <3>5. events[n].sequence \in Nat /\ events[i].sequence \in Nat
      BY <1>1, <3>1 DEF CanonicalEvent
    <3>6. events[i].sequence - events[n].sequence = i - n
      BY <1>1, <3>1
    <3>7. events[i].sequence > events[n].sequence <=> i > n
      BY <1>1, <3>1, <3>5, <3>6
    <3>8. LastReceived # None
      BY <3>4, <3>5, NoneAssumption
    <3> QED
      BY <3>4, <3>7, <3>8 DEF AfterCursor
  <2> QED
    BY <2>1, <2>2
<1>5. \A i \in 1 .. k : events[i].match_id = Match
  BY <1>1, <1>2
<1>6. \A i \in 1 .. k : i > n <=> i \in n + 1 .. k
  OBVIOUS
<1>7. \A i \in n + 1 .. k : i \in 1 .. k
  OBVIOUS
<1> QED
  BY <1>2, <1>4, <1>5, <1>6, <1>7

\* The next page goes on where the client is.
LEMMA NextPage ==
  ASSUME PublishInv, NEW k \in Nat, HoldsUpTo(k), NEW n \in Nat, GotUpTo(n)
  PROVE  \E j \in n .. k :
           /\ Page(Match, LastReceived) = After(events, n, j)
           /\ Len(Page(Match, LastReceived)) = j - n
           /\ j - n < PageLimit => j = k
<1> DEFINE rows == InOrder({e \in stored : e.match_id = Match /\ AfterCursor(e, LastReceived)})
           p == IF Len(rows) < PageLimit THEN Len(rows) ELSE PageLimit
           page == SubSeq(rows, 1, p)
           read == [i \in DOMAIN page |-> DeserializeEvent(SerializeEvent(page[i]))]
<1>1. Replayed(events, Match) /\ n <= k /\ k <= Len(events) /\ Len(events) \in Nat
  BY GotIsHeld, EventsAreReplay, IndexIsPlace DEF PublishInv
<1>2. rows = After(events, n, k)
  <2>1. rows = InOrder({events[i] : i \in n + 1 .. k})
    BY RowsAfterCursor
  <2> QED
    BY <1>1, <2>1, StretchInOrder
<1> HIDE DEF rows
<1>3. /\ rows \in Seq(CanonicalEvent) /\ Len(rows) = k - n
      /\ \A i \in 1 .. k - n : rows[i] = events[n + i]
  <2>1. IsAfter(rows, events, n, k)
    BY <1>1, <1>2, AfterFacts
  <2> QED
    BY <2>1 DEF IsAfter
<1>4. PageLimit \in Nat \ {0}
  BY PipelineAssumption
<1>5. p \in 0 .. k - n /\ (p < PageLimit => p = k - n)
  BY <1>1, <1>3, <1>4
<1> HIDE DEF p
<1>6. p \in Nat /\ n + p \in n .. k /\ n + p <= Len(events) /\ n <= n + p
      /\ (n + p) - n = p
  BY <1>1, <1>5
<1>7. DOMAIN page = 1 .. p /\ \A i \in 1 .. p : page[i] = rows[i] /\ i \in 1 .. k - n
  BY <1>3, <1>5, <1>6
<1> HIDE DEF page
<1>8. \A i \in 1 .. p : page[i] = events[n + i] /\ page[i] \in CanonicalEvent
  BY <1>3, <1>7
<1>9. \A i \in 1 .. p : DeserializeEvent(SerializeEvent(page[i])) = page[i]
  BY <1>8, RoundTrip
<1>10. read = [i \in 1 .. p |-> events[n + i]]
  BY <1>7, <1>8, <1>9
<1>11. /\ After(events, n, n + p) \in Seq(CanonicalEvent) /\ Len(After(events, n, n + p)) = p
       /\ DOMAIN After(events, n, n + p) = 1 .. p
       /\ \A i \in 1 .. p : After(events, n, n + p)[i] = events[n + i]
  <2>1. IsAfter(After(events, n, n + p), events, n, n + p)
    BY <1>1, <1>6, AfterFacts
  <2> QED
    BY <1>6, <2>1 DEF IsAfter
<1>12. read = After(events, n, n + p)
  BY <1>10, <1>11
<1>13. Page(Match, LastReceived) = read
  BY DEF Page, read, page, p, rows
<1> HIDE DEF read
<1> QED
  BY <1>5, <1>6, <1>11, <1>12, <1>13

\* The history is what is stored, in the order of the replay.
LEMMA HistoryIs ==
  ASSUME PublishInv, NEW k \in Nat, HoldsUpTo(k)
  PROVE  History(Match) = After(events, 0, k)
<1>1. /\ Replayed(events, Match) /\ k <= Len(events) /\ 0 <= k /\ k \in 0 .. Len(events)
      /\ DOMAIN events = 1 .. Len(events) /\ Len(events) \in Nat
      /\ stored = {events[i] : i \in 1 .. k}
      /\ \A i \in DOMAIN events : events[i].match_id = Match
  BY EventsAreReplay, IndexIsPlace DEF PublishInv, HoldsUpTo
<1>2. \A i \in 1 .. k : events[i].match_id = Match
  BY <1>1
<1>3. {e \in stored : e.match_id = Match} = {events[i] : i \in 0 + 1 .. k}
  BY <1>1, <1>2
<1>4. InOrder({events[i] : i \in 0 + 1 .. k}) = After(events, 0, k)
  BY <1>1, StretchInOrder
<1> QED
  BY <1>3, <1>4 DEF History

\* What the client has got is a beginning of the history.
LEMMA GotIsPrefix ==
  ASSUME PublishInv, StoreInv, ReaderInv
  PROVE  IsPrefix(received, History(Match)) /\ received \in Seq(CanonicalEvent)
<1>1. PICK k \in Nat : HoldsUpTo(k)
  BY DEF StoreInv
<1>2. PICK n \in Nat : GotUpTo(n)
  BY DEF ReaderInv
<1> DEFINE x == received
           y == History(Match)
<1>3. n <= k /\ k <= Len(events) /\ Replayed(events, Match) /\ n <= Len(events) /\ Len(events) \in Nat
  BY <1>1, <1>2, GotIsHeld, EventsAreReplay, IndexIsPlace DEF PublishInv
<1>4. y = After(events, 0, k) /\ x = After(events, 0, n)
  BY <1>1, <1>2, HistoryIs DEF GotUpTo
<1>5. 0 <= k /\ 0 <= n /\ k - 0 = k /\ n - 0 = n
  OBVIOUS
<1>11. IsAfter(x, events, 0, n) /\ IsAfter(y, events, 0, k)
  BY <1>3, <1>4, <1>5, AfterFacts
<1> HIDE DEF x, y
<1>6. x \in Seq(CanonicalEvent) /\ Len(x) = n /\ \A i \in 1 .. n : x[i] = events[i]
  BY <1>5, <1>11 DEF IsAfter
<1>7. y \in Seq(CanonicalEvent) /\ Len(y) = k /\ \A i \in 1 .. k : y[i] = events[i]
  BY <1>5, <1>11 DEF IsAfter
<1>8. \A i \in 1 .. n : x[i] = y[i] /\ i \in 1 .. k
  BY <1>3, <1>6, <1>7
<1>9. SubSeq(x, 1, n) = SubSeq(y, 1, n)
  BY <1>3, <1>6, <1>7, <1>8
<1>10. IsPrefix(x, y)
  BY <1>3, <1>6, <1>7, <1>9 DEF IsPrefix
<1> QED
  BY <1>6, <1>10 DEF x, y

\* Nothing that is stored is lost.
LEMMA StoredGrows ==
  ASSUME PublishInv, StoreInv, [Next]_vars
  PROVE  stored \subseteq stored'
<1>1. DOMAIN answer = Members
  BY DEF StoreInv
<1>2. CASE \E c \in Members : Process(c)
  <2>1. PICK c \in Members : Process(c)
    BY <1>2
  <2>2. CASE command = "durable-project"
    <3>1. pc[c] = "process" /\ ProjectDurably(c)
      BY <2>1, <2>2, ProcessFrame
    <3>2. Applies(c, Record(c)) \/ Leaves(c, Record(c))
      BY <3>1, DurableStep
    <3> QED
      BY <3>2 DEF Applies, Leaves
  <2>3. CASE command # "durable-project"
    BY <1>1, <2>1, <2>3, NotDurable DEF PublishInv, store
  <2> QED
    BY <2>2, <2>3
<1>3. CASE ~(\E c \in Members : Process(c))
  BY <1>1, <1>3, QuietStep DEF store
<1> QED
  BY <1>2, <1>3

\* Only the client itself moves on.
LEMMA ReaderStays ==
  ASSUME [Next]_vars, ~FindMatch, ~ReadPage
  PROVE  UNCHANGED reader
<1>1. CASE Publishing /\ UNCHANGED <<input, group, member, store, reader>>
  BY <1>1
<1>2. CASE UNCHANGED vars
  BY <1>2 DEF vars
<1>3. ASSUME NEW p \in Producers, Produce(p) \/ PublishFails(p) \/ PCrash(p)
      PROVE  UNCHANGED reader
  BY <1>3 DEF Produce, Load, Publish, PClose, PublishFails, PCrash
<1>4. CASE Stranger
  BY <1>4 DEF Stranger
<1>5. ASSUME NEW c \in Members,
             Start(c) \/ Assign(c) \/ Work(c) \/ PollNothing(c) \/ CommitFails(c) \/ Crash(c)
      PROVE  UNCHANGED reader
  BY <1>5 DEF Start, Assign, Work, Poll, Process, Commit, Close, PollNothing, CommitFails,
              Crash, Gone, vars
<1> QED
  BY <1>2, <1>3, <1>4, <1>5 DEF Next

\* The same of the next state.
LEMMA StillReplay == EventsInv' => Replayed(events, Match)'
<1>1. EventsInv => Replayed(events, Match)
  BY EventsAreReplay
<1> QED
  BY <1>1, PTL

\* What was got stays a beginning, whatever is loaded or stored.
LEMMA GotKept ==
  ASSUME PublishInv, PublishInv', Grown, file' = file, stored \subseteq stored',
         received' = received, NEW n \in Nat, GotUpTo(n)
  PROVE  GotUpTo(n)'
<1>1. n <= Len(events) /\ n <= Len(events')
  BY DEF GotUpTo, Grown
<1>2. CASE events = <<>>
  <2>1. Replayed(events, Match) /\ Replayed(events', Match)
    <3>1. Replayed(events, Match)
      BY EventsAreReplay DEF PublishInv
    <3>2. Replayed(events, Match)'
      BY StillReplay DEF PublishInv
    <3>3. Match' = Match
      BY DEF Match
    <3> QED
      BY <3>1, <3>2, <3>3 DEF Replayed
  <2>2. n = 0
    BY <1>1, <1>2
  <2>3. 0 <= Len(events) /\ 0 <= Len(events') /\ 0 <= 0 /\ 1 .. 0 = {} /\ 0 - 0 = 0
    BY <1>1, <2>2
  <2>4. IsAfter(After(events, 0, 0), events, 0, 0) /\ IsAfter(After(events', 0, 0), events', 0, 0)
    BY <2>1, <2>3, AfterFacts
  <2>5. After(events, 0, 0) = <<>> /\ After(events', 0, 0) = <<>>
    BY <2>3, <2>4 DEF IsAfter
  <2> QED
    BY <1>1, <2>2, <2>3, <2>5 DEF GotUpTo
<1>3. CASE events # <<>>
  <2>1. events' = events
    BY <1>3, SameEvents
  <2> QED
    BY <2>1 DEF GotUpTo
<1> QED
  BY <1>2, <1>3

\* The next page is joined to what the client has got; the last one is the
\* rest of the history.
LEMMA PageRead ==
  ASSUME PublishInv, StoreInv, ReaderInv, ReadPage
  PROVE  /\ ReaderInv'
         /\ rpc' = "end" => received' = History(Match)
<1>1. PICK k \in Nat : HoldsUpTo(k)
  BY DEF StoreInv
<1>2. PICK n \in Nat : GotUpTo(n)
  BY DEF ReaderInv
<1>3. PICK j \in n .. k :
        /\ Page(Match, LastReceived) = After(events, n, j)
        /\ Len(Page(Match, LastReceived)) = j - n
        /\ j - n < PageLimit => j = k
  BY <1>1, <1>2, NextPage
<1>4. /\ received' = received \o Page(Match, LastReceived)
      /\ rpc' = IF IsLast(Page(Match, LastReceived)) THEN "end" ELSE "match"
      /\ events' = events /\ stored' = stored
  BY DEF ReadPage, store
<1>5. /\ Replayed(events, Match) /\ n <= k /\ k <= Len(events) /\ Len(events) \in Nat
      /\ stored = {events[i] : i \in 1 .. k}
  BY <1>1, <1>2, GotIsHeld, EventsAreReplay, IndexIsPlace DEF PublishInv, HoldsUpTo
<1>6. j \in Nat /\ n <= j /\ j <= k /\ j <= Len(events)
  BY <1>5
<1>7. received' = After(events, 0, j)
  BY <1>2, <1>3, <1>4, <1>5, <1>6, AfterJoined DEF GotUpTo
<1>8. \A i \in 1 .. j : events[i] \in stored
  BY <1>5, <1>6
<1>9. GotUpTo(j)'
  BY <1>4, <1>6, <1>7, <1>8 DEF GotUpTo
<1>10. ReaderInv'
  BY <1>4, <1>6, <1>9 DEF ReaderInv
<1>11. ASSUME rpc' = "end"
       PROVE  received' = History(Match)
  <2>1. IsLast(Page(Match, LastReceived))
    BY <1>4, <1>11
  <2>2. j = k
    BY <1>3, <2>1 DEF IsLast
  <2> QED
    BY <1>1, <1>7, <2>2, HistoryIs
<1> QED
  BY <1>10, <1>11

\* Every step leaves the client with a beginning, and with all at the end.
LEMMA ReaderStep ==
  ASSUME PublishInv, StoreInv, ReaderInv, [Next]_vars
  PROVE  /\ ReaderInv'
         /\ rpc' = "end" /\ rpc # "end" => received' = History(Match)
<1>1. PublishInv' /\ Grown /\ file' = file /\ stored \subseteq stored'
  BY PublishStep, InputStays, StoredGrows
<1>2. PICK n \in Nat : GotUpTo(n)
  BY DEF ReaderInv
<1>3. CASE ReadPage
  BY <1>3, PageRead
<1>4. CASE FindMatch
  <2>1. received' = received /\ rpc' = "events"
    BY <1>4 DEF FindMatch
  <2>2. GotUpTo(n)'
    BY <1>1, <1>2, <2>1, GotKept
  <2> QED
    BY <2>1, <2>2 DEF ReaderInv
<1>5. CASE ~ReadPage /\ ~FindMatch
  <2>1. received' = received /\ rpc' = rpc
    BY <1>5, ReaderStays DEF reader
  <2>2. GotUpTo(n)'
    BY <1>1, <1>2, <2>1, GotKept
  <2> QED
    BY <2>1, <2>2 DEF ReaderInv
<1> QED
  BY <1>3, <1>4, <1>5

\* At first the client has got nothing.
LEMMA ReaderInit == Init => ReaderInv
<1> SUFFICES ASSUME Init
             PROVE  ReaderInv
  OBVIOUS
<1>1. events = <<>> /\ received = <<>> /\ rpc = "match"
  BY DEF Init
<1>2. PublishInv
  BY PublishInit
<1>3. Replayed(events, Match)
  BY <1>2, EventsAreReplay DEF PublishInv
<1>4. 0 <= Len(events) /\ 0 <= 0 /\ 0 - 0 = 0 /\ 1 .. 0 = {}
  BY <1>1
<1>5. IsAfter(After(events, 0, 0), events, 0, 0)
  BY <1>3, <1>4, AfterFacts
<1>6. After(events, 0, 0) = <<>>
  BY <1>4, <1>5 DEF IsAfter
<1>7. GotUpTo(0)
  BY <1>1, <1>4, <1>6 DEF GotUpTo
<1> QED
  BY <1>1, <1>7 DEF ReaderInv

(***************************************************************************)
(* Whatever is stored while a client pages through the history, it gets a  *)
(* beginning of it without a hole or a repetition, and all of it with the  *)
(* page that has no next cursor (api/app.py, postgres.py                   *)
(* list_match_events).                                                     *)
(***************************************************************************)
THEOREM PagesFollowHistory ==
  ASSUME StrangersRefused
  PROVE  Spec => PagesAreHistory
<1> DEFINE IInv == PublishInv /\ WorkInv /\ StoreInv /\ ReaderInv
           Prefix == IsPrefix(received, History(Match))
           AllAtEnd == rpc' = "end" /\ rpc # "end" => received' = History(Match)
<1>1. Init => IInv
  BY PublishInit, WorkInit, StoreInit, ReaderInit
<1>2. IInv /\ [Next]_vars => IInv' /\ AllAtEnd
  BY PublishStep, WorkStep, StoreStep, ReaderStep
<1>3. IInv => Prefix
  BY GotIsPrefix
<1>4. ASSUME Prefix', AllAtEnd
      PROVE  [<<stored, rpc>>' # <<stored, rpc>> =>
                /\ IsPrefix(received', History(Match)')
                /\ rpc' = "end" /\ rpc # "end" => received' = History(Match)]_vars
  BY <1>4
<1> HIDE DEF IInv, Prefix, AllAtEnd
<1> QED
  BY <1>1, <1>2, <1>3, <1>4, PTL DEF Spec, PagesAreHistory

-----------------------------------------------------------------------------
(* Types. *)

PlainInv ==
  /\ assigned \in Members \cup {None}
  /\ pc \in [Members -> Labels]
  /\ position \in [Members -> Nat]
  /\ current \in [Matches -> MatchState \cup {None}]
  /\ faults \in 0 .. MaxFaults

\* Counting a fault, or none.
LEMMA FaultType ==
  ASSUME faults \in 0 .. MaxFaults, Fault \/ UNCHANGED faults
  PROVE  faults' \in 0 .. MaxFaults
BY PipelineAssumption DEF Fault

\* Projecting keeps the types.
LEMMA ProcessTypes ==
  ASSUME StrangersRefused, PublishInv, WorkInv, StoreInv, StoreInv', PlainInv,
         NEW c \in Members, Process(c)
  PROVE  PlainInv'
<1>1. /\ pc[c] = "process" /\ position' = position /\ file' = file
      /\ command = "durable-project" => ProjectDurably(c)
      /\ command = "project" => ProjectInMemory(c)
      /\ command = "consume" => PrintOnce(c)
  BY ProcessFrame
<1>2. /\ assigned' = assigned
      /\ pc' = [pc EXCEPT ![c] = "commit"] \/ pc' = [pc EXCEPT ![c] = "closing"]
  BY DEF Process, Goto, Exit
<1>3. pc' \in [Members -> Labels]
  BY <1>2 DEF PlainInv, Labels
<1>4. command \in {"consume", "project", "durable-project"}
  BY PipelineAssumption DEF PublishInv, EventsInv
<1>5. Fault \/ UNCHANGED faults
  BY <1>1, <1>4 DEF ProjectDurably, ProjectInMemory, PrintOnce
<1>6. faults' \in 0 .. MaxFaults
  BY <1>5, FaultType DEF PlainInv
<1>7. current' \in [Matches -> MatchState \cup {None}]
  <2>1. CASE command = "durable-project"
    <3>1. Applies(c, Record(c)) \/ Leaves(c, Record(c))
      BY <1>1, <2>1, DurableStep
    <3>2. CASE Leaves(c, Record(c))
      BY <3>2 DEF Leaves, PlainInv
    <3>3. CASE Applies(c, Record(c))
      <4>1. PICK x : current' = [current EXCEPT ![Record(c).match_id] = x]
        BY <3>3 DEF Applies
      <4>2. Record(c).match_id = Match /\ Match \in Matches /\ Match' = Match
        BY <1>1, RecordType DEF Match
      <4>3. current' = [current EXCEPT ![Match] = x]
        BY <4>1, <4>2
      <4>4. x \in MatchState \cup {None}
        <5>1. x = current'[Match]
          BY <4>2, <4>3 DEF PlainInv
        <5>2. PICK k \in Nat : HoldsUpTo(k)'
          BY DEF StoreInv
        <5>3. current'[Match] = None \/ At(current'[Match], Match, events'[k])
          BY <4>2, <5>2 DEF HoldsUpTo
        <5> QED
          BY <5>1, <5>3 DEF At
      <4> QED
        BY <4>2, <4>3, <4>4 DEF PlainInv
    <3> QED
      BY <3>1, <3>2, <3>3
  <2>2. CASE command # "durable-project"
    <3>1. UNCHANGED store
      BY <2>2, NotDurable DEF PublishInv, StoreInv
    <3> QED
      BY <3>1 DEF PlainInv, store
  <2> QED
    BY <2>1, <2>2
<1> QED
  BY <1>1, <1>2, <1>3, <1>6, <1>7 DEF PlainInv

\* So does every step.
LEMMA PlainStep ==
  ASSUME StrangersRefused, PublishInv, WorkInv, StoreInv, StoreInv', PlainInv, [Next]_vars
  PROVE  PlainInv'
<1> USE DEF group, member, store
<1>1. /\ assigned \in Members \cup {None} /\ pc \in [Members -> Labels]
      /\ position \in [Members -> Nat] /\ current \in [Matches -> MatchState \cup {None}]
      /\ faults \in 0 .. MaxFaults
  BY DEF PlainInv
<1>2. CASE UNCHANGED vars
  BY <1>1, <1>2 DEF vars, PlainInv
<1>3. ASSUME NEW p \in Producers, Produce(p) \/ PublishFails(p) \/ PCrash(p)
      PROVE  PlainInv'
  <2>1. UNCHANGED <<assigned, pc, position, current>>
    BY <1>3 DEF Produce, Load, Publish, PClose, PublishFails, PCrash
  <2>2. Fault \/ UNCHANGED faults
    BY <1>3 DEF Produce, Load, Publish, PClose, PublishFails, PCrash
  <2>3. faults' \in 0 .. MaxFaults
    BY <1>1, <2>2, FaultType
  <2> QED
    BY <1>1, <2>1, <2>3 DEF PlainInv
<1>4. CASE Stranger \/ FindMatch \/ ReadPage
  <2>1. UNCHANGED <<assigned, pc, position, current>> /\ (Fault \/ UNCHANGED faults)
    BY <1>4 DEF Stranger, FindMatch, ReadPage
  <2>2. faults' \in 0 .. MaxFaults
    BY <1>1, <2>1, FaultType
  <2> QED
    BY <1>1, <2>1, <2>2 DEF PlainInv
<1>5. ASSUME NEW c \in Members,
             \/ Start(c) \/ Assign(c) \/ Poll(c) \/ Commit(c) \/ Close(c)
             \/ CommitFails(c) \/ Crash(c)
      PROVE  PlainInv'
  <2> USE DEF Start, Assign, Poll, Commit, Close, CommitFails, Crash, Gone
  <2>1. current' = current
    BY <1>5
  <2>2. Fault \/ UNCHANGED faults
    BY <1>5
  <2>3. faults' \in 0 .. MaxFaults
    BY <1>1, <2>2, FaultType
  <2>4. assigned' \in {assigned, c, None}
    BY <1>5
  <2>5. \E l \in Labels : pc' = [pc EXCEPT ![c] = l]
          \/ pc' = pc
    BY <1>5 DEF Goto, Exit, Labels
  <2>6. pc' \in [Members -> Labels]
    BY <1>1, <2>5
  <2>7. committed \in Nat /\ position[c] \in Nat
    BY <1>1 DEF WorkInv, PublishInv, LogInv
  <2>8. \/ position' = position
        \/ \E n \in Nat : position' = [position EXCEPT ![c] = n]
    BY <1>5, <2>7
  <2>9. position' \in [Members -> Nat]
    BY <1>1, <2>8
  <2> QED
    BY <1>1, <2>1, <2>3, <2>4, <2>6, <2>9 DEF PlainInv
<1>6. ASSUME NEW c \in Members, PollNothing(c)
      PROVE  PlainInv'
  BY <1>2, <1>6 DEF PollNothing
<1> QED
  BY <1>2, <1>3, <1>4, <1>5, <1>6, ProcessTypes DEF Next, Work

\* The initial values have their types.
LEMMA PlainInit == Init => PlainInv
<1> SUFFICES ASSUME Init
             PROVE  PlainInv
  OBVIOUS
<1>1. 0 \in 0 .. MaxFaults
  BY PipelineAssumption
<1> QED
  BY <1>1 DEF Init, PlainInv, Labels, NoStates

\* The invariants together give the types.
LEMMA TypesFollow ==
  ASSUME PublishInv, WorkInv, StoreInv, MemoryInv, ReaderInv, PlainInv
  PROVE  TypeOK
<1>1. events \in Seq(CanonicalEvent) /\ DOMAIN events = 1 .. Len(events)
  BY EventsAreReplay DEF PublishInv, Replayed
<1>2. received \in Seq(CanonicalEvent)
  BY GotIsPrefix
<1>3. stored \subseteq CanonicalEvent
  <2>1. PICK k \in Nat : HoldsUpTo(k)
    BY DEF StoreInv
  <2>2. k \in 0 .. Len(events) /\ stored = {events[i] : i \in 1 .. k}
    BY <2>1 DEF HoldsUpTo
  <2>3. \A i \in 1 .. k : events[i] \in CanonicalEvent
    BY <1>1, <2>2
  <2> QED
    BY <2>2, <2>3
<1>4. position \in [Members -> 0 .. Len(topic)]
  BY DEF PlainInv, WorkInv, MemberInv
<1>5. \A p \in Producers : inFlight[p] # None => ppc[p] = "closing"
  BY DEF PublishInv, ProducerInv, SenderInv
<1> QED
  BY <1>1, <1>2, <1>3, <1>4, <1>5
     DEF TypeOK, PublishInv, ProducerInv, WorkInv, MemoryInv, PlainInv, Labels

(***************************************************************************)
(* Type correctness of the commands around the topic, and a message in a   *)
(* producer's queue only while the producer is about to close.             *)
(***************************************************************************)
THEOREM PipelineTypeCorrect ==
  ASSUME StrangersRefused
  PROVE  Spec => []TypeOK
<1> DEFINE IInv == /\ PublishInv /\ WorkInv /\ StoreInv /\ MemoryInv /\ ReaderInv
                   /\ PlainInv
<1>1. Init => IInv
  BY PublishInit, WorkInit, StoreInit, MemoryInit, ReaderInit, PlainInit
<1>2. IInv /\ [Next]_vars => IInv'
  <2> SUFFICES ASSUME IInv, [Next]_vars
               PROVE  IInv'
    OBVIOUS
  <2>1. PublishInv' /\ WorkInv' /\ StoreInv' /\ MemoryInv' /\ ReaderInv'
    BY PublishStep, WorkStep, StoreStep, MemoryStep, ReaderStep
  <2> QED
    BY <2>1, PlainStep
<1>3. IInv => TypeOK
  BY TypesFollow
<1> QED
  BY <1>1, <1>2, <1>3, PTL DEF Spec

-----------------------------------------------------------------------------
(* What a file comes to. *)

\* Of two events with different indexes one comes first.
LEMMA KeysDiffer ==
  ASSUME NEW e \in CanonicalEvent, NEW f \in CanonicalEvent, e.sequence # f.sequence
  PROVE  OrderedBefore(e, f) \/ OrderedBefore(f, e)
<1>1. /\ e.period \in Int /\ e.clock \in Int /\ e.sequence \in Int
      /\ f.period \in Int /\ f.clock \in Int /\ f.sequence \in Int
  BY DEF CanonicalEvent
<1> QED
  BY <1>1 DEF OrderedBefore

\* The events of a sequence, as a set.
Has(E, s) ==
  /\ \A k \in DOMAIN s : s[k] \in E
  /\ \A e \in E : \E k \in DOMAIN s : s[k] = e

\* A sequence of n events in the order of time that are n different events is
\* the sorted set.
LEMMA SortedByTime ==
  ASSUME NEW E, E \subseteq CanonicalEvent, IsFiniteSet(E), StrictOrder(E, ByEventOrder(E)),
         NEW s \in Seq(CanonicalEvent), Len(s) = Cardinality(E), Has(E, s), InOrderOfTime(s)
  PROVE  s = Sorted(E, ByEventOrder(E))
<1> DEFINE n == Cardinality(E)
<1>1. DOMAIN s = 1 .. n /\ n \in Nat
  BY FS_CardinalityType
<1>2. s \in [1 .. n -> E]
  <2>1. s = [k \in 1 .. n |-> s[k]]
    BY <1>1
  <2> QED
    BY <1>1, <2>1 DEF Has
<1>3. s \in Surjection(1 .. n, E)
  BY <1>1, <1>2 DEF Has, Surjection
<1>4. IsFiniteSet(1 .. n) /\ Cardinality(1 .. n) = n
  <2> HIDE DEF n
  <2>1. IsFiniteSet(1 .. n) /\ Cardinality(1 .. n) = IF 1 > n THEN 0 ELSE n - 1 + 1
    BY <1>1, FS_Interval
  <2> QED
    BY <1>1, <2>1
<1>5. s \in Injection(1 .. n, E)
  BY <1>3, <1>4, FS_Surjection
<1>6. ASSUME NEW i \in 1 .. n, NEW j \in 1 .. n, i < j
      PROVE  <<s[i], s[j]>> \in ByEventOrder(E)
  <2>1. s[i] # s[j] /\ s[i] \in E /\ s[j] \in E
    BY <1>2, <1>5, <1>6 DEF Injection, IsInjective
  <2>2. ~OrderedBefore(s[j], s[i])
    BY <1>1, <1>6 DEF InOrderOfTime
  <2> QED
    BY <2>1, <2>2 DEF StrictOrder, ByEventOrder
<1> HIDE DEF n
<1> QED
  BY <1>2, <1>6, SortedUnique DEF n

\* A replay is its set of events, sorted.
LEMMA ReplayIsSorted ==
  ASSUME NEW m, NEW s, Replayed(s, m), NEW E, Has(E, s)
  PROVE  /\ E \subseteq CanonicalEvent /\ IsFiniteSet(E) /\ Cardinality(E) = Len(s)
         /\ StrictOrder(E, ByEventOrder(E))
         /\ s = Sorted(E, ByEventOrder(E))
<1> DEFINE n == Len(s)
<1>1. /\ DOMAIN s = 1 .. n /\ n \in Nat /\ s \in Seq(CanonicalEvent) /\ InOrderOfTime(s)
      /\ \A k \in DOMAIN s : s[k] \in CanonicalEvent
      /\ \A i, j \in DOMAIN s : s[j].sequence - s[i].sequence = j - i
  <2>1. s \in Seq(CanonicalEvent) /\ InOrderOfTime(s)
    BY DEF Replayed
  <2> QED
    BY <2>1, IndexIsPlace
<1>2. E \subseteq CanonicalEvent
  BY <1>1 DEF Has
<1>3. \A i, j \in DOMAIN s : s[i].sequence = s[j].sequence => i = j
  <2> SUFFICES ASSUME NEW i \in DOMAIN s, NEW j \in DOMAIN s, s[i].sequence = s[j].sequence
               PROVE  i = j
    OBVIOUS
  <2>1. s[j].sequence - s[i].sequence = j - i /\ s[i].sequence \in Nat
    BY <1>1 DEF CanonicalEvent
  <2> QED
    BY <1>1, <2>1
<1>4. \A e, f \in E : e # f => e.sequence # f.sequence
  BY <1>3 DEF Has
<1>5. IsFiniteSet(E) /\ Cardinality(E) = n
  <2>1. IsFiniteSet(1 .. n) /\ Cardinality(1 .. n) = n
    <3>1. IsFiniteSet(1 .. n) /\ Cardinality(1 .. n) = IF 1 > n THEN 0 ELSE n - 1 + 1
      BY <1>1, FS_Interval
    <3> QED
      BY <1>1, <3>1
  <2>2. s \in [1 .. n -> E]
    <3>1. s = [k \in 1 .. n |-> s[k]]
      BY <1>1
    <3> QED
      BY <1>1, <3>1 DEF Has
  <2>3. s \in Surjection(1 .. n, E) /\ s \in Injection(1 .. n, E)
    BY <1>1, <1>3, <2>2 DEF Has, Surjection, Injection, IsInjective
  <2> QED
    BY <2>1, <2>3, FS_Surjection
<1>6. StrictOrder(E, ByEventOrder(E))
  <2>1. \A e, f \in E : <<e, f>> \in ByEventOrder(E) <=> OrderedBefore(e, f)
    BY DEF ByEventOrder
  <2>2. \A e, f \in E : e # f => OrderedBefore(e, f) \/ OrderedBefore(f, e)
    BY <1>2, <1>4, KeysDiffer
  <2>3. \A e \in E : ~OrderedBefore(e, e)
    BY <1>2, KeyOrder
  <2>4. \A e, f, g \in E : OrderedBefore(e, f) /\ OrderedBefore(f, g) => OrderedBefore(e, g)
    <3> SUFFICES ASSUME NEW e \in E, NEW f \in E, NEW g \in E,
                        OrderedBefore(e, f), OrderedBefore(f, g)
                 PROVE  OrderedBefore(e, g)
      OBVIOUS
    <3>1. e \in CanonicalEvent /\ f \in CanonicalEvent /\ g \in CanonicalEvent
      BY <1>2
    <3>2. ~OrderedBefore(g, f)
      BY <3>1, KeyOrder
    <3> QED
      BY <3>1, <3>2, KeyOrder
  <2> QED
    BY <2>1, <2>2, <2>3, <2>4 DEF StrictOrder
<1>7. s = Sorted(E, ByEventOrder(E))
  BY <1>1, <1>2, <1>5, <1>6, SortedByTime
<1> QED
  BY <1>2, <1>5, <1>6, <1>7

\* Two arrays of the same events have the same replay, if the one has a replay.
LEMMA SameReplay ==
  ASSUME NEW m, NEW c \in Seq(CanonicalEvent), NEW d \in Seq(CanonicalEvent),
         Len(c) = Len(d), NEW E, Has(E, c), Has(E, d),
         \A k \in DOMAIN c : c[k].match_id = m,
         Contiguous(Chronological(c))
  PROVE  Chronological(d) = Chronological(c)
<1> DEFINE x == Chronological(c)
           y == Chronological(d)
<1>1. DOMAIN c = 1 .. Len(c) /\ DOMAIN d = DOMAIN c /\ Len(c) \in Nat
  OBVIOUS
<1>2. /\ x \in Seq(CanonicalEvent) /\ Len(x) = Len(c) /\ InOrderOfTime(x)
      /\ \A i \in DOMAIN c : \E k \in DOMAIN c : x[k] = c[i]
      /\ \A k \in DOMAIN c : \E i \in DOMAIN c : x[k] = c[i]
  BY ChronologicalFacts
<1>3. /\ y \in Seq(CanonicalEvent) /\ Len(y) = Len(d) /\ InOrderOfTime(y)
      /\ \A i \in DOMAIN d : \E k \in DOMAIN d : y[k] = d[i]
      /\ \A k \in DOMAIN d : \E i \in DOMAIN d : y[k] = d[i]
  BY ChronologicalFacts
<1>4. Contiguous(x)
  OBVIOUS
<1> HIDE DEF x, y
<1>5. DOMAIN x = DOMAIN c /\ DOMAIN y = DOMAIN c
  BY <1>1, <1>2, <1>3
<1>6. Has(E, x)
  BY <1>2, <1>5 DEF Has
<1>7. Has(E, y)
  BY <1>1, <1>3, <1>5 DEF Has
<1>8. Replayed(x, m)
  <2>1. ASSUME NEW k \in DOMAIN x
        PROVE  x[k].match_id = m
    <3>1. PICK i \in DOMAIN c : x[k] = c[i]
      BY <1>2, <1>5
    <3>2. c[i].match_id = m
      OBVIOUS
    <3> QED
      BY <3>1, <3>2
  <2> QED
    BY <1>2, <1>4, <2>1 DEF Replayed
<1>9. /\ E \subseteq CanonicalEvent /\ IsFiniteSet(E) /\ Cardinality(E) = Len(x)
      /\ StrictOrder(E, ByEventOrder(E)) /\ x = Sorted(E, ByEventOrder(E))
  BY <1>6, <1>8, ReplayIsSorted
<1>10. y = Sorted(E, ByEventOrder(E))
  <2>1. Len(y) = Cardinality(E)
    BY <1>2, <1>3, <1>9
  <2> QED
    BY <1>3, <1>7, <1>9, <2>1, SortedByTime
<1> QED
  BY <1>9, <1>10 DEF x, y

\* The same events in another order are accepted or refused alike.
LEMMA RearrangedFile ==
  ASSUME NEW f \in Files, NEW array \in Arrangements(f.array)
  PROVE  ConvertEvents(array, f.match) = ConvertEvents(f.array, f.match)
<1> DEFINE raw == f.array
           m == f.match
           D == DOMAIN raw
           c == [i \in D |-> ConvertEvent(raw[i], m)]
           d == [i \in DOMAIN array |-> ConvertEvent(array[i], m)]
           E == {c[i] : i \in D}
<1>1. m \in Matches /\ raw \in Seq(RawEvent) /\ D = 1 .. Len(raw) /\ Len(raw) \in Nat
  BY PipelineAssumption
<1>2. PICK g \in Bijection(D, D) : array = [i \in D |-> raw[g[i]]]
  BY DEF Arrangements
<1>3. g \in [D -> D] /\ \A w \in D : \E v \in D : g[v] = w
  BY <1>2 DEF Bijection, Surjection
<1>4. DOMAIN array = D /\ \A i \in D : array[i] = raw[g[i]] /\ g[i] \in D
  BY <1>2, <1>3
<1> HIDE DEF raw, m
<1>5. (\A i \in DOMAIN array : Convertible(array[i])) <=> (\A i \in D : Convertible(raw[i]))
  BY <1>3, <1>4
<1>6. CASE ~(\A i \in D : Convertible(raw[i]))
  BY <1>5, <1>6 DEF ConvertEvents, raw, m
<1>7. CASE \A i \in D : Convertible(raw[i])
  <2>1. \A i \in D : /\ ConvertEvent(raw[i], m) \in CanonicalEvent
                     /\ ConvertEvent(raw[i], m).match_id = m
    <3> TAKE i \in D
    <3>1. raw[i] \in RawEvent /\ Convertible(raw[i])
      BY <1>1, <1>7
    <3> QED
      BY <1>1, <3>1, ConvertType
  <2>2. c \in Seq(CanonicalEvent) /\ Len(c) = Len(raw) /\ DOMAIN c = D
    BY <1>1, <2>1
  <2>3. d = [i \in D |-> ConvertEvent(raw[g[i]], m)]
    BY <1>4
  <2>4. \A i \in D : d[i] = c[g[i]] /\ d[i] \in CanonicalEvent
    BY <1>4, <2>1, <2>3
  <2>5. d \in Seq(CanonicalEvent) /\ Len(d) = Len(raw) /\ DOMAIN d = D
    <3>1. DOMAIN d = D /\ d = [i \in D |-> d[i]]
      BY <2>3
    <3> HIDE DEF d
    <3>2. d \in [1 .. Len(raw) -> CanonicalEvent]
      BY <1>1, <2>4, <3>1
    <3> QED
      BY <1>1, <3>1, <3>2
  <2>6. (\A i \in D : c[i].match_id = m) /\ (\A i \in D : d[i].match_id = m)
    BY <1>4, <2>1, <2>4
  <2>7. /\ ConvertEvents(f.array, f.match) =
             IF Contiguous(Chronological(c)) THEN Chronological(c) ELSE None
        /\ ConvertEvents(array, f.match) =
             IF Contiguous(Chronological(d)) THEN Chronological(d) ELSE None
    BY <1>5, <1>7 DEF ConvertEvents, raw, m
  <2> HIDE DEF c, d
  <2>8. Has(E, c)
    BY <2>2 DEF Has
  <2>9. Has(E, d)
    <3>1. \A k \in DOMAIN d : d[k] \in E
      BY <1>4, <2>4, <2>5
    <3>2. ASSUME NEW e \in E
          PROVE  \E k \in DOMAIN d : d[k] = e
      <4>1. PICK i \in D : e = c[i]
        OBVIOUS
      <4>2. PICK v \in D : g[v] = i
        BY <1>3
      <4> QED
        BY <2>4, <2>5, <4>1, <4>2
    <3> QED
      BY <3>1, <3>2 DEF Has
  <2> HIDE DEF E
  <2>10. CASE Contiguous(Chronological(c))
    <3>1. Chronological(d) = Chronological(c)
      BY <2>2, <2>5, <2>6, <2>8, <2>9, <2>10, SameReplay
    <3> QED
      BY <2>7, <3>1
  <2>11. CASE Contiguous(Chronological(d))
    <3>1. Chronological(c) = Chronological(d)
      BY <2>2, <2>5, <2>6, <2>8, <2>9, <2>11, SameReplay
    <3> QED
      BY <2>7, <3>1
  <2> QED
    BY <2>7, <2>10, <2>11
<1> QED
  BY <1>6, <1>7

\* Only loading takes a producer away from where it was down or done.
LEMMA LoadsOnly ==
  ASSUME PublishInv, [Next]_vars, NEW p \in Producers,
         ppc[p] \in {"down", "done"}, ppc'[p] # ppc[p]
  PROVE  Load(p)
<1>1. DOMAIN ppc = Producers
  BY DEF PublishInv, ProducerInv
<1>2. ppc' # ppc
  OBVIOUS
<1>3. ~(UNCHANGED <<input, events, producer, topic>>)
  BY <1>2 DEF producer
<1>4. Publishing
  BY <1>3, Sides
<1>5. ~Stranger
  BY <1>2 DEF Stranger, producer
<1>6. ASSUME NEW q \in Producers, Publish(q) \/ PClose(q) \/ PublishFails(q) \/ PCrash(q)
      PROVE  FALSE
  <2>1. ppc' = ppc \/ (ppc[q] \in {"publishing", "closing"} /\ \E l : ppc' = [ppc EXCEPT ![q] = l])
    BY <1>6 DEF Publish, PClose, PublishFails, PCrash, PGoto
  <2>2. q # p
    BY <1>2, <2>1
  <2> QED
    BY <1>1, <1>2, <2>1, <2>2
<1>7. PICK q \in Producers : Load(q)
  BY <1>4, <1>5, <1>6 DEF Publishing
<1>8. q = p
  <2>1. \E l : ppc' = [ppc EXCEPT ![q] = l]
    BY <1>7 DEF Load, PGoto
  <2> QED
    BY <1>1, <2>1
<1> QED
  BY <1>7, <1>8

(***************************************************************************)
(* However the array of a file is arranged, it is refused or gives the     *)
(* same replay (statsbomb.py convert_events): for arrays of any length.    *)
(***************************************************************************)
THEOREM ArrayOrderIrrelevant == Spec => OrderIndependent
<1> DEFINE Same ==
      \A p \in Producers : ppc[p] \in {"down", "done"} /\ ppc'[p] # ppc[p] =>
        \A array \in Arrangements(file.array) :
          ConvertEvents(array, file.match) =
            IF ppc'[p] = "refused" THEN None ELSE events'
<1>1. PublishInv /\ [Next]_vars => Same
  <2> SUFFICES ASSUME PublishInv, [Next]_vars, NEW p \in Producers,
                      ppc[p] \in {"down", "done"}, ppc'[p] # ppc[p],
                      NEW array \in Arrangements(file.array)
               PROVE  ConvertEvents(array, file.match) =
                        IF ppc'[p] = "refused" THEN None ELSE events'
    OBVIOUS
  <2> DEFINE loaded == ConvertEvents(file.array, file.match)
  <2>1. Load(p)
    BY LoadsOnly
  <2>2. file \in Files /\ DOMAIN ppc = Producers
    BY DEF PublishInv, EventsInv, ProducerInv
  <2>3. ConvertEvents(array, file.match) = loaded
    BY <2>2, RearrangedFile
  <2>4. loaded # None => Replay(loaded) = loaded
    BY <2>2, LoadedFile
  <2> HIDE DEF loaded
  <2>5. IF loaded = None
        THEN ppc' = [ppc EXCEPT ![p] = "refused"]
        ELSE ppc' = [ppc EXCEPT ![p] = "publishing"] /\ events' = Replay(loaded)
    BY <2>1 DEF Load, PGoto, loaded
  <2>6. IF loaded = None THEN ppc'[p] = "refused"
        ELSE ppc'[p] = "publishing" /\ events' = loaded
    BY <2>2, <2>4, <2>5
  <2> QED
    BY <2>3, <2>6
<1> QED
  BY Published, <1>1, PTL DEF Spec, OrderIndependent

\* Every beginning of a sound replay can be played.
LEMMA SoundIsPlayed ==
  ASSUME NEW m, NEW s, Replayed(s, m), Sound(s)
  PROVE  \A j \in 1 .. Len(s) : Played(m, s, 1, j) # None
<1> DEFINE P(j) == Played(m, s, 1, j)
           wrong == {j \in 1 .. Len(s) : P(j) = None}
<1>1. /\ DOMAIN s = 1 .. Len(s) /\ Len(s) \in Nat
      /\ \A k \in DOMAIN s : s[k] \in CanonicalEvent /\ s[k].match_id = m
  BY IndexIsPlace
<1>2. /\ \A i, j \in DOMAIN s : s[i].event_id = s[j].event_id => i = j
      /\ \A i \in DOMAIN s : IsGoal(s[i]) => s[i].team # None
  BY DEF Sound
<1>3. CASE Len(s) = 0
  BY <1>3
<1>4. CASE Len(s) # 0
  <2>1. 1 \in DOMAIN s
    BY <1>1, <1>4
  <2>2. /\ P(1 - 1) = InitialState(m)
        /\ \A j \in 1 .. Len(s) : P(j) = RebuildStep(P(j - 1), s[j])
    BY <2>1, PlayedExtends
  <2>3. /\ InitialState(m) \in MatchState /\ InitialState(m).match_id = m
        /\ \A j \in 1 .. Len(s) : P(j) # None => At(P(j), m, s[j])
    BY <2>1, PlayedIsAt
  <2> HIDE DEF P
  <2>4. ASSUME NEW j \in 1 .. Len(s), P(j - 1) # None, Accepts(P(j - 1), s[j])
        PROVE  P(j) # None
    <3>1. P(j) = ApplyEvent(P(j - 1), s[j])
      BY <2>2, <2>4 DEF RebuildStep
    <3>2. P(j - 1) \in MatchState
      <4>1. CASE j = 1
        BY <2>2, <2>3, <4>1
      <4>2. CASE j # 1
        <5>1. j - 1 \in 1 .. Len(s)
          BY <4>2
        <5> QED
          BY <2>3, <2>4, <5>1 DEF At
      <4> QED
        BY <4>1, <4>2
    <3>3. ApplyEvent(P(j - 1), s[j]) \in MatchState
      BY <1>1, <2>4, <3>2, ApplyEventType
    <3> QED
      BY <3>1, <3>3, PipelineAssumption
  <2>5. wrong = {}
    <3> SUFFICES ASSUME wrong # {}
                 PROVE  FALSE
      OBVIOUS
    <3>1. wrong \in SUBSET Nat
      OBVIOUS
    <3> HIDE DEF wrong
    <3>2. \E b \in wrong : \A c \in wrong : b <= c
      BY <3>1, LeastNumber
    <3>3. PICK b \in wrong : \A c \in wrong : b <= c
      BY <3>2
    <3>4. b \in 1 .. Len(s) /\ P(b) = None /\ b \in DOMAIN s
      BY <1>1 DEF wrong
    <3>5. CASE b = 1
      <4>1. P(b - 1) = InitialState(m)
        BY <2>2, <3>5
      <4>2. s[b] \in CanonicalEvent /\ s[b].match_id = m /\ (IsGoal(s[b]) => s[b].team # None)
        BY <1>1, <1>2, <3>4
      <4>3. Accepts(InitialState(m), s[b])
        BY <4>2, FirstIsAccepted
      <4>4. InitialState(m) # None
        BY <2>3, PipelineAssumption
      <4> QED
        BY <2>4, <3>4, <4>1, <4>3, <4>4
    <3>6. CASE b # 1
      <4> DEFINE j == b - 1
      <4>1. j \in 1 .. Len(s) /\ j \in DOMAIN s /\ j + 1 = b /\ ~(b <= j)
        BY <1>1, <3>4, <3>6
      <4>2. j \notin wrong
        BY <3>3, <4>1
      <4>3. P(j) # None
        BY <4>1, <4>2 DEF wrong
      <4>4. At(P(j), m, s[j])
        BY <2>3, <4>1, <4>3
      <4>5. s[j + 1].event_id # s[j].event_id
        BY <1>2, <3>4, <4>1
      <4>6. IsGoal(s[j + 1]) => s[j + 1].team # None
        BY <1>2, <3>4, <4>1
      <4> HIDE DEF j
      <4>7. Accepts(P(j), s[j + 1])
        BY <3>4, <4>1, <4>4, <4>5, <4>6, NextIsAccepted
      <4> QED
        BY <2>4, <3>4, <4>1, <4>3, <4>7 DEF j
    <3> QED
      BY <3>5, <3>6
  <2> QED
    BY <2>5 DEF P
<1> QED
  BY <1>3, <1>4

(***************************************************************************)
(* A file that ingestion takes, with one identity per event and a team for *)
(* every goal, is one that a projection takes from its first event to its  *)
(* last (statsbomb.py convert_events, transition.py apply_event): for      *)
(* files of any length.                                                    *)
(***************************************************************************)
THEOREM IngestedFileApplies == Spec => LoadedFileApplies
<1> DEFINE Applicable ==
      events = <<>> /\ events' # <<>> /\ Sound(events') => Fold(events') # None
<1>1. PublishInv /\ [Next]_vars => PublishInv' /\ Match' = Match
  BY PublishStep, InputStays
<1>2. EventsInv' => Replayed(events, Match)'
  BY StillReplay
<1>3. PublishInv /\ [Next]_vars => Applicable
  <2> SUFFICES ASSUME PublishInv, [Next]_vars, events' # <<>>, Sound(events')
               PROVE  Fold(events') # None
    OBVIOUS
  <2>1. Replayed(events', Match)
    BY <1>1, <1>2 DEF PublishInv
  <2>2. /\ events' \in Seq(CanonicalEvent) /\ Len(events') \in Nat
        /\ Len(events') # 0
    BY <2>1 DEF Replayed
  <2>3. Played(Match, events', 1, Len(events')) # None
    BY <2>1, <2>2, SoundIsPlayed
  <2>4. SubSeq(events', 1, Len(events')) = events'
    BY <2>2
  <2> QED
    BY <2>3, <2>4 DEF Played, Fold
<1> QED
  BY Published, <1>3, PTL DEF Spec, LoadedFileApplies
=============================================================================
