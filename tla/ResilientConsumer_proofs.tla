----------------------- MODULE ResilientConsumer_proofs -----------------------
(***************************************************************************)
(* What holds of the resilient consumer for any number of consumers,       *)
(* matches, events and attempts, whatever fails, restarts or is reassigned *)
(* and however often.                                                      *)
(***************************************************************************)
EXTENDS ResilientConsumer, MatchTransition_proofs

\* The places where a consumer has a record in hand.
Busy == {"process", "decide", "publish", "commit"}

\* Offsets lie within the partition; the record in hand is an event.
RangeInv ==
  /\ committed <= Len(topic)
  /\ \A c \in Consumers :
       /\ position[c] <= Len(topic)
       /\ pc[c] \in Busy => offset[c] < Len(topic) /\ Record(c) \in Events

\* The event in hand is a canonical event, and its dead letter a dead letter.
LEMMA RecordType ==
  ASSUME TypeOK, RangeInv, NEW c \in Consumers, pc[c] \in Busy
  PROVE  /\ Record(c) \in Events
         /\ Record(c) \in CanonicalEvent
         /\ Record(c).match_id \in Matches
         /\ DeadLetter(c) \in [offset : Nat, event : Events]
<1>1. Record(c) \in Events /\ Record(c) \in CanonicalEvent
  BY ConsumerAssumption DEF RangeInv
<1>2. Record(c).match_id \in Matches
  BY <1>1 DEF CanonicalEvent
<1> QED
  BY <1>1, <1>2 DEF TypeOK, DeadLetter

\* The atomic projection speaks of the same transition.
LEMMA SameTransition ==
  /\ \A m : Durable!InitialState(m) = InitialState(m)
  /\ \A p, e : Durable!Accepts(p, e) <=> Accepts(p, e)
  /\ \A p, e : Durable!ApplyEvent(p, e) = ApplyEvent(p, e)
<1>1. \A m : Durable!InitialState(m) = InitialState(m)
  BY DEF InitialState, EmptyTally, Durable!InitialState, Durable!EmptyTally
<1>2. \A e : Durable!IsGoal(e) <=> IsGoal(e)
  BY DEF IsGoal, Durable!IsGoal
<1>3. \A p, e : Durable!ValidTransition(p, e) <=> ValidTransition(p, e)
  BY DEF ValidTransition, Stale, SequenceGap, ClockRegression,
         Durable!ValidTransition, Durable!Stale, Durable!SequenceGap,
         Durable!ClockRegression
<1>4. \A p, e : Durable!Accepts(p, e) <=> Accepts(p, e)
  BY <1>2, <1>3 DEF Accepts, Durable!Accepts
<1>5. \A p, e : /\ Durable!HomeTeam(p, e) = HomeTeam(p, e)
                /\ Durable!AwayTeam(p, e) = AwayTeam(p, e)
  BY DEF HomeTeam, AwayTeam, FirstLineup, SecondLineup, Durable!HomeTeam,
         Durable!AwayTeam, Durable!FirstLineup, Durable!SecondLineup
<1>6. \A f, k : /\ Durable!Bump(f, k) = Bump(f, k)
                /\ Durable!WithKeys(f, k) = WithKeys(f, k)
  BY DEF Bump, Lookup, WithKeys, Durable!Bump, Durable!Lookup, Durable!WithKeys
<1>7. \A p, e : Durable!ApplyEvent(p, e) = ApplyEvent(p, e)
  BY <1>2, <1>5, <1>6 DEF ApplyEvent, Scores, Durable!ApplyEvent, Durable!Scores
<1> QED
  BY <1>1, <1>4, <1>7

\* The atomic projection keeps the types of the store, and answers.
LEMMA ProcessType ==
  ASSUME TypeOK, RangeInv, NEW c \in Consumers, Process(c)
  PROVE  /\ current' \in [Matches -> MatchState \cup {None}]
         /\ stored' \subseteq Events
         /\ answer' \in [Consumers -> Durable!Answers]
<1>1. pc[c] \in Busy
  BY DEF Process, Busy
<1> DEFINE e == Record(c)
           previous == Durable!StateOrInitial(current[e.match_id], e.match_id)
<1>2. e \in Events /\ e \in CanonicalEvent /\ e.match_id \in Matches
  BY <1>1, RecordType
<1>3. previous \in MatchState
  BY <1>2, InitialStateType, SameTransition DEF Durable!StateOrInitial, TypeOK
<1>4. Durable!Apply(c) \/ Durable!Repeat(c) \/ Durable!Reject(c) \/ Durable!FailCall(c)
  BY DEF Process
<1>5. CASE Durable!Apply(c)
  <2>1. Accepts(previous, e)
    BY <1>5, SameTransition DEF Process, Durable!Apply
  <2>2. ApplyEvent(previous, e) \in MatchState
    BY <1>2, <1>3, <2>1, ApplyEventType
  <2>3. current' = [current EXCEPT ![e.match_id] = ApplyEvent(previous, e)]
    BY <1>5, SameTransition DEF Process, Durable!Apply
  <2>4. stored' = stored \cup {e}
    BY <1>5 DEF Process, Durable!Apply
  <2>5. answer' \in [Consumers -> Durable!Answers]
    BY <1>5 DEF Durable!Apply, Durable!Answer, Durable!Answers, TypeOK
  <2> HIDE DEF previous
  <2> QED
    BY <1>2, <2>2, <2>3, <2>4, <2>5 DEF TypeOK
<1>6. CASE ~Durable!Apply(c)
  <2>1. current' = current /\ stored' = stored
    BY <1>4, <1>6 DEF Durable!Repeat, Durable!Reject, Durable!FailCall
  <2>2. answer' \in [Consumers -> Durable!Answers]
    BY <1>4, <1>6
    DEF Durable!Repeat, Durable!Reject, Durable!FailCall, Durable!Answer, Durable!Answers, TypeOK
  <2> QED
    BY <2>1, <2>2 DEF TypeOK
<1> QED
  BY <1>5, <1>6

\* Every step preserves the types and the ranges.
LEMMA TypeStep == TypeOK /\ RangeInv /\ [Next]_vars => TypeOK' /\ RangeInv'
<1> SUFFICES ASSUME TypeOK, RangeInv, [Next]_vars
             PROVE  TypeOK' /\ RangeInv'
  OBVIOUS
<1> USE DEF broker, store, client, Goto, Running, Busy
<1>1. CASE Produce
  BY <1>1 DEF Produce, TypeOK, RangeInv, Record
<1>2. ASSUME NEW c \in Consumers, Start(c)
      PROVE  TypeOK' /\ RangeInv'
  BY <1>2 DEF Start, TypeOK, RangeInv, Record
<1>3. ASSUME NEW c \in Consumers, Assign(c)
      PROVE  TypeOK' /\ RangeInv'
  BY <1>3, ConsumerAssumption DEF Assign, Fault, TypeOK, RangeInv, Record
<1>4. ASSUME NEW c \in Consumers, Poll(c)
      PROVE  TypeOK' /\ RangeInv'
  <2>1. TypeOK'
    <3>1. position[c] \in Nat /\ 1 \in 0 .. MaxAttempts
      BY ConsumerAssumption DEF TypeOK
    <3>2. pc' \in [Consumers -> Running \cup {"closing", "down"}]
      BY <1>4 DEF Poll, Exit, TypeOK
    <3>3. position' \in [Consumers -> Nat]
      BY <1>4, <3>1 DEF Poll, TypeOK
    <3>4. offset' = offset \/ offset' = [offset EXCEPT ![c] = position[c]]
      BY <1>4 DEF Poll
    <3>5. attempt' = attempt \/ attempt' = [attempt EXCEPT ![c] = 1]
      BY <1>4 DEF Poll
    <3>6. offset' \in [Consumers -> Nat] /\ attempt' \in [Consumers -> 0 .. MaxAttempts]
      BY <3>1, <3>4, <3>5 DEF TypeOK
    <3> QED
      BY <1>4, <3>2, <3>3, <3>6 DEF Poll, TypeOK
  <2>2. topic[position[c] + 1] \in Events \cup {Garbage}
    BY <1>4 DEF Poll, TypeOK
  <2>3. RangeInv'
    BY <1>4, <2>2 DEF Poll, Exit, TypeOK, RangeInv, Record
  <2> QED
    BY <2>1, <2>3
<1>5. ASSUME NEW c \in Consumers, Process(c)
      PROVE  TypeOK' /\ RangeInv'
  <2>1. faults' \in 0 .. MaxFaults
    BY <1>5, ConsumerAssumption DEF Process, Fault, TypeOK
  <2>2. TypeOK'
    BY <1>5, <2>1, ProcessType DEF Process, TypeOK
  <2>3. RangeInv'
    BY <1>5 DEF Process, TypeOK, RangeInv, Record
  <2> QED
    BY <2>2, <2>3
<1>6. ASSUME NEW c \in Consumers, Decide(c)
      PROVE  TypeOK' /\ RangeInv'
  <2>1. "none" \in Durable!Answers
    BY DEF Durable!Answers
  <2>2. TypeOK'
    <3>1. attempt[c] < MaxAttempts => attempt[c] + 1 \in 0 .. MaxAttempts
      BY ConsumerAssumption DEF TypeOK
    <3>2. attempt' \in [Consumers -> 0 .. MaxAttempts]
      BY <1>6, <3>1 DEF Decide, Succeed, Retry, GiveUp, TypeOK
    <3>3. pc' \in [Consumers -> Running \cup {"closing", "down"}]
      BY <1>6 DEF Decide, Succeed, Retry, GiveUp, Exit, TypeOK
    <3> QED
      BY <1>6, <2>1, <3>2, <3>3 DEF Decide, TypeOK
  <2>3. RangeInv'
    BY <1>6 DEF Decide, Succeed, Retry, GiveUp, Exit, TypeOK, RangeInv, Record
  <2> QED
    BY <2>2, <2>3
<1>7. ASSUME NEW c \in Consumers, Publish(c)
      PROVE  TypeOK' /\ RangeInv'
  <2>1. DeadLetter(c) \in [offset : Nat, event : Events]
    BY <1>7, RecordType DEF Publish
  <2> QED
    BY <1>7, <2>1 DEF Publish, TypeOK, RangeInv, Record
<1>8. ASSUME NEW c \in Consumers, PublishFails(c)
      PROVE  TypeOK' /\ RangeInv'
  <2>1. DeadLetter(c) \in [offset : Nat, event : Events]
    BY <1>8, RecordType DEF PublishFails
  <2> QED
    BY <1>8, <2>1, ConsumerAssumption
    DEF PublishFails, Exit, Fault, TypeOK, RangeInv, Record
<1>9. ASSUME NEW c \in Consumers, Commit(c)
      PROVE  TypeOK' /\ RangeInv'
  BY <1>9 DEF Commit, TypeOK, RangeInv, Record
<1>10. ASSUME NEW c \in Consumers, CommitFails(c)
       PROVE  TypeOK' /\ RangeInv'
  <2>1. offset[c] + 1 \in 0 .. Len(topic)
    BY <1>10 DEF CommitFails, TypeOK, RangeInv
  <2>2. committed' \in 0 .. Len(topic)
    BY <1>10, <2>1 DEF CommitFails, TypeOK
  <2>3. faults' \in 0 .. MaxFaults
    BY <1>10, ConsumerAssumption DEF CommitFails, Fault, TypeOK
  <2>4. TypeOK'
    BY <1>10, <2>2, <2>3 DEF CommitFails, Exit, TypeOK
  <2>5. RangeInv'
    BY <1>10, <2>2 DEF CommitFails, Exit, TypeOK, RangeInv, Record
  <2> QED
    BY <2>4, <2>5
<1>11. ASSUME NEW c \in Consumers, Gone(c), UNCHANGED <<topic, committed, store>>,
              faults' \in 0 .. MaxFaults
       PROVE  TypeOK' /\ RangeInv'
  <2>1. dlq' \subseteq [offset : Nat, event : Events]
    BY <1>11 DEF Gone, TypeOK
  <2>2. "none" \in Durable!Answers
    BY DEF Durable!Answers
  <2>3. queued' \in [Consumers -> [offset : Nat, event : Events] \cup {None}]
    BY <1>11 DEF Gone, TypeOK
  <2>4. position' \in [Consumers -> Nat] /\ offset' \in [Consumers -> Nat]
    BY <1>11 DEF Gone, TypeOK
  <2>5. attempt' \in [Consumers -> 0 .. MaxAttempts]
    BY <1>11, ConsumerAssumption DEF Gone, TypeOK
  <2>6. TypeOK'
    BY <1>11, <2>1, <2>2, <2>3, <2>4, <2>5 DEF Gone, TypeOK
  <2>7. RangeInv'
    BY <1>11 DEF Gone, TypeOK, RangeInv, Record
  <2> QED
    BY <2>6, <2>7
<1>12. ASSUME NEW c \in Consumers, Close(c) \/ Crash(c)
       PROVE  TypeOK' /\ RangeInv'
  <2>1. faults' \in 0 .. MaxFaults
    BY <1>12, ConsumerAssumption DEF Close, Crash, Fault, TypeOK
  <2>2. Gone(c) /\ UNCHANGED <<topic, committed, store>>
    BY <1>12 DEF Close, Crash
  <2> QED
    BY <1>11, <2>1, <2>2
<1>13. CASE UNCHANGED vars
  BY <1>13 DEF vars, TypeOK, RangeInv, Record
<1> QED
  BY <1>1, <1>2, <1>3, <1>4, <1>5, <1>6, <1>7, <1>8, <1>9, <1>10, <1>12, <1>13
  DEF Next, Work, PollNothing

\* Before anything happens the types and the ranges hold.
LEMMA TypeInit == Init => TypeOK /\ RangeInv
BY ConsumerAssumption
DEF Init, TypeOK, RangeInv, Running, Busy, Durable!Answers

\* Every variable of broker, store and processes keeps its type, and no record
\* gets more attempts than the retry policy allows (ResilientConsumer's TypeOK).
THEOREM TypeCorrect == Spec => []TypeOK
BY TypeInit, TypeStep, PTL DEF Spec

-----------------------------------------------------------------------------
(***************************************************************************)
(* No loss.  That every committed record is settled is not inductive: the  *)
(* offset that a consumer commits is the one it polled, perhaps before the *)
(* group moved the partition.  What makes its commit right is what was     *)
(* true when it polled, and stays so: all before its record was settled.   *)
(***************************************************************************)
\* A consumer with a record in hand polled it when all before it was settled,
\* and goes on to commit only when that one is settled too.
InHand(c) ==
  /\ pc[c] \in Busy => \A o \in 0 .. offset[c] - 1 : Settled(o)
  /\ pc[c] = "decide" /\ answer[c] \in {"applied", "duplicate"} => Settled(offset[c])
  /\ pc[c] = "commit" => Settled(offset[c])

\* Whatever a running client has fetched is settled or in hand, whether or not
\* it still has the partition; and a new client has fetched nothing.
Fetched(c) ==
  /\ pc[c] \in Running => \A o \in 0 .. position[c] - 1 :
       Settled(o) \/ (pc[c] # "poll" /\ o = offset[c])
  /\ pc[c] = "down" => position[c] = 0

SafetyInv ==
  /\ TypeOK
  /\ RangeInv
  /\ NoLoss
  /\ \A c \in Consumers : InHand(c) /\ Fetched(c)

\* Neither the partition nor the outcomes ever shrink.
LEMMA OnlyGrows ==
  ASSUME TypeOK, [Next]_vars
  PROVE  /\ stored \subseteq stored' /\ dlq \subseteq dlq'
         /\ \A i \in 1 .. Len(topic) : topic'[i] = topic[i]
<1>1. stored \subseteq stored'
  <2>1. ASSUME NEW c \in Consumers, Process(c)
        PROVE  stored \subseteq stored'
    BY <2>1
    DEF Process, Durable!Apply, Durable!Repeat, Durable!Reject, Durable!FailCall
  <2>2. CASE \A c \in Consumers : ~Process(c)
    BY <2>2 DEF Next, Work, Produce, Start, Assign, Poll, PollNothing, Decide, Publish,
         PublishFails, Commit, CommitFails, Close, Crash, store, vars
  <2> QED
    BY <2>1, <2>2
<1>2. dlq \subseteq dlq'
  BY DEF Next, Work, Produce, Start, Assign, Poll, PollNothing, Process, Decide, Publish,
       PublishFails, Commit, CommitFails, Close, Crash, Gone, broker, vars
<1>3. topic' = topic \/ Produce
  BY DEF Next, Work, Start, Assign, Poll, PollNothing, Process, Decide, Publish,
       PublishFails, Commit, CommitFails, Close, Crash, broker, vars
<1>4. ASSUME Produce, NEW i \in 1 .. Len(topic)
      PROVE  topic'[i] = topic[i]
  BY <1>4 DEF Produce, TypeOK
<1> QED
  BY <1>1, <1>2, <1>3, <1>4

\* A settled record stays settled.
LEMMA SettledStays ==
  ASSUME TypeOK, [Next]_vars, NEW o \in 0 .. Len(topic) - 1, Settled(o)
  PROVE  Settled(o)'
<1>1. topic'[o + 1] = topic[o + 1]
  <2>1. o + 1 \in 1 .. Len(topic)
    BY DEF TypeOK
  <2> QED
    BY <2>1, OnlyGrows
<1>2. stored \subseteq stored' /\ dlq \subseteq dlq'
  BY OnlyGrows
<1> QED
  BY <1>1, <1>2 DEF Settled, Durable!KnownToItsMatch

\* An answer that lets a consumer commit is true: the record is projected.
LEMMA AnswerSettles ==
  ASSUME TypeOK, RangeInv, NEW c \in Consumers, Process(c),
         answer'[c] \in {"applied", "duplicate"}
  PROVE  Settled(offset[c])'
<1>1. pc[c] = "process" /\ topic' = topic /\ offset' = offset
  BY DEF Process, broker, client
<1>2. Record(c) \in Events /\ Record(c) # Garbage
  BY <1>1, RecordType, ConsumerAssumption DEF Busy
<1>3. \E f \in stored' : f.event_id = Record(c).event_id /\ f.match_id = Record(c).match_id
  <2>1. CASE Durable!Apply(c)
    <3>1. stored' = stored \cup {Record(c)}
      BY <1>1, <2>1 DEF Durable!Apply
    <3> QED
      BY <3>1
  <2>2. CASE Durable!Repeat(c)
    BY <1>1, <2>2 DEF Durable!Repeat, Durable!KnownToItsMatch
  <2>3. CASE Durable!Reject(c) \/ Durable!FailCall(c)
    BY <2>3 DEF Durable!Reject, Durable!FailCall, Durable!Answer, TypeOK
  <2> QED
    BY <2>1, <2>2, <2>3 DEF Process
<1> QED
  BY <1>1, <1>2, <1>3 DEF Settled, Record, Durable!KnownToItsMatch

\* Every step preserves SafetyInv.
LEMMA SafetyStep == SafetyInv /\ [Next]_vars => SafetyInv'
<1> SUFFICES ASSUME SafetyInv, [Next]_vars
             PROVE  SafetyInv'
  OBVIOUS
<1>0. TypeOK /\ RangeInv /\ TypeOK' /\ RangeInv'
  BY TypeStep DEF SafetyInv
<1>1. \A o \in 0 .. Len(topic) - 1 : Settled(o) => Settled(o)'
  BY <1>0, SettledStays
<1>2. NoLoss /\ \A c \in Consumers : InHand(c) /\ Fetched(c)
  BY DEF SafetyInv
<1>3. Len(topic) \in Nat /\ committed \in 0 .. Len(topic)
  BY <1>0 DEF TypeOK
<1>4. \A c \in Consumers : position[c] \in 0 .. Len(topic) /\ offset[c] \in Nat
  BY <1>0, <1>3 DEF TypeOK, RangeInv
<1>5. \A c \in Consumers : pc[c] \in Busy => offset[c] \in 0 .. Len(topic) - 1
  BY <1>0, <1>3 DEF TypeOK, RangeInv
\* What was settled in the records of a consumer still is.
<1>6. ASSUME NEW c \in Consumers
      PROVE  /\ pc[c] \in Busy => \A o \in 0 .. offset[c] - 1 : Settled(o)'
             /\ \/ pc[c] = "decide" /\ answer[c] \in {"applied", "duplicate"}
                \/ pc[c] = "commit"
                => \A o \in {offset[c]} : Settled(o)'
             /\ pc[c] \in Running => \A o \in 0 .. position[c] - 1 :
                  Settled(o)' \/ (pc[c] # "poll" /\ o = offset[c])
  <2>1. pc[c] \in Running => \A o \in 0 .. position[c] - 1 :
          Settled(o)' \/ (pc[c] # "poll" /\ o = offset[c])
    <3> SUFFICES ASSUME pc[c] \in Running, NEW o \in 0 .. position[c] - 1,
                        ~(pc[c] # "poll" /\ o = offset[c])
                 PROVE  Settled(o)'
      OBVIOUS
    <3>1. o \in 0 .. Len(topic) - 1
      BY <1>3, <1>4
    <3>2. Settled(o)
      BY <1>2 DEF Fetched
    <3> QED
      BY <1>1, <3>1, <3>2
  <2>2. CASE pc[c] \in Busy
    <3>1. offset[c] \in 0 .. Len(topic) - 1
      BY <1>5, <2>2
    <3>2. \A o \in 0 .. offset[c] - 1 : Settled(o)'
      BY <1>1, <1>2, <1>3, <2>2, <3>1 DEF InHand
    <3>3. \A o \in {offset[c]} : Settled(o) => Settled(o)'
      BY <1>1, <3>1
    <3> QED
      BY <1>2, <2>1, <3>2, <3>3 DEF InHand
  <2> QED
    BY <2>1, <2>2 DEF Busy
<1>7. \A o \in 0 .. committed - 1 : Settled(o)'
  BY <1>1, <1>2, <1>3 DEF NoLoss
\* A consumer whose variables do not change is not disturbed.
<1>8. ASSUME NEW c \in Consumers, pc'[c] = pc[c], offset'[c] = offset[c],
             position'[c] = position[c], answer'[c] = answer[c]
      PROVE  InHand(c)' /\ Fetched(c)'
  BY <1>2, <1>6, <1>8 DEF InHand, Fetched
<1>9. ASSUME NEW c \in Consumers,
             \A d \in Consumers \ {c} :
               /\ pc'[d] = pc[d] /\ offset'[d] = offset[d]
               /\ position'[d] = position[d] /\ answer'[d] = answer[d],
             NoLoss', InHand(c)', Fetched(c)'
      PROVE  SafetyInv'
  BY <1>0, <1>8, <1>9 DEF SafetyInv
<1>10. committed' = committed => NoLoss'
  BY <1>7 DEF NoLoss
<1> USE DEF broker, store, client, Goto
<1>11. CASE Produce
  BY <1>0, <1>8, <1>10, <1>11 DEF Produce, SafetyInv
<1>12. ASSUME NEW c \in Consumers, Start(c)
       PROVE  SafetyInv'
  <2>1. pc'[c] = "poll" /\ position'[c] = 0
    BY <1>0, <1>2, <1>12 DEF Start, Fetched, TypeOK
  <2>2. InHand(c)' /\ Fetched(c)'
    BY <2>1 DEF InHand, Fetched, Busy
  <2> QED
    BY <1>0, <1>9, <1>10, <1>12, <2>2 DEF Start, TypeOK
<1>13. ASSUME NEW c \in Consumers, Assign(c)
       PROVE  SafetyInv'
  <2>1. pc'[c] = pc[c] /\ offset'[c] = offset[c] /\ answer'[c] = answer[c]
    BY <1>13 DEF Assign
  <2>2. position'[c] = committed /\ pc[c] \in Running
    BY <1>0, <1>13 DEF Assign, TypeOK
  <2>3. InHand(c)'
    BY <1>6, <2>1 DEF InHand
  <2>4. Fetched(c)'
    BY <1>7, <2>1, <2>2 DEF Fetched, Running
  <2> QED
    BY <1>0, <1>9, <1>10, <1>13, <2>3, <2>4 DEF Assign, TypeOK
<1>14. ASSUME NEW c \in Consumers, Poll(c)
       PROVE  SafetyInv'
  <2>1. pc[c] = "poll" /\ position'[c] = position[c] + 1
    BY <1>0, <1>14 DEF Poll, TypeOK
  <2>2. \A o \in 0 .. position[c] - 1 : Settled(o)'
    BY <1>6, <2>1 DEF Running
  <2>3. CASE topic[position[c] + 1] = Garbage
    <3>1. pc'[c] = "closing"
      BY <1>0, <1>14, <2>3 DEF Poll, Exit, TypeOK
    <3> QED
      BY <1>0, <1>9, <1>10, <1>14, <2>3, <3>1
      DEF Poll, Exit, TypeOK, InHand, Fetched, Busy, Running
  <2>4. CASE topic[position[c] + 1] # Garbage
    <3>1. pc'[c] = "process" /\ offset'[c] = position[c]
      BY <1>0, <1>14, <2>4 DEF Poll, TypeOK
    <3>2. InHand(c)'
      BY <2>2, <3>1 DEF InHand
    <3>3. Fetched(c)'
      BY <1>4, <2>1, <2>2, <3>1 DEF Fetched
    <3> QED
      BY <1>0, <1>9, <1>10, <1>14, <2>4, <3>2, <3>3 DEF Poll, TypeOK
  <2> QED
    BY <2>3, <2>4
<1>15. ASSUME NEW c \in Consumers, Process(c)
       PROVE  SafetyInv'
  <2>1. /\ pc[c] = "process" /\ pc'[c] = "decide"
        /\ offset'[c] = offset[c] /\ position'[c] = position[c]
    BY <1>0, <1>15 DEF Process, TypeOK
  <2>2. answer'[c] \in {"applied", "duplicate"} => Settled(offset[c])'
    BY <1>0, <1>15, AnswerSettles
  <2>3. InHand(c)'
    BY <1>6, <2>1, <2>2 DEF InHand, Busy
  <2>4. Fetched(c)'
    BY <1>6, <2>1 DEF Fetched, Running
  <2>5. \A d \in Consumers \ {c} : answer'[d] = answer[d]
    BY <1>0, <1>15
    DEF Process, Durable!Apply, Durable!Repeat, Durable!Reject, Durable!FailCall,
        Durable!Answer, TypeOK
  <2> QED
    BY <1>0, <1>9, <1>10, <1>15, <2>3, <2>4, <2>5 DEF Process, TypeOK
<1>16. ASSUME NEW c \in Consumers, Decide(c)
       PROVE  SafetyInv'
  <2>1. pc[c] = "decide" /\ offset'[c] = offset[c] /\ position'[c] = position[c]
    BY <1>16 DEF Decide
  <2>2. \/ pc'[c] = "commit" /\ answer[c] \in {"applied", "duplicate"}
        \/ pc'[c] \in {"process", "publish", "closing"}
    BY <1>0, <1>16 DEF Decide, Succeed, Retry, GiveUp, Exit, TypeOK
  <2>3. InHand(c)'
    BY <1>6, <2>1, <2>2 DEF InHand, Busy
  <2>4. Fetched(c)'
    BY <1>6, <2>1, <2>2 DEF Fetched, Running
  <2>5. \A d \in Consumers \ {c} : pc'[d] = pc[d]
    BY <1>0, <1>16 DEF Decide, Succeed, Retry, GiveUp, Exit, TypeOK
  <2> QED
    BY <1>0, <1>9, <1>10, <1>16, <2>3, <2>4, <2>5 DEF Decide, TypeOK
<1>17. ASSUME NEW c \in Consumers, Publish(c)
       PROVE  SafetyInv'
  <2>1. /\ pc[c] = "publish" /\ pc'[c] = "commit"
        /\ offset'[c] = offset[c] /\ position'[c] = position[c]
    BY <1>0, <1>17 DEF Publish, TypeOK
  <2>2. Record(c) # Garbage /\ topic' = topic /\ DeadLetter(c) \in dlq'
    BY <1>0, <1>17, <2>1, RecordType, ConsumerAssumption DEF Publish, Busy
  <2>3. Settled(offset[c])'
    BY <2>1, <2>2 DEF Settled, Record, DeadLetter
  <2>4. InHand(c)' /\ Fetched(c)'
    BY <1>6, <2>1, <2>3 DEF InHand, Fetched, Busy, Running
  <2> QED
    BY <1>0, <1>9, <1>10, <1>17, <2>4 DEF Publish, TypeOK
<1>18. ASSUME NEW c \in Consumers, PublishFails(c)
       PROVE  SafetyInv'
  <2>1. pc'[c] = "closing"
    BY <1>0, <1>18 DEF PublishFails, Exit, TypeOK
  <2>2. InHand(c)' /\ Fetched(c)'
    BY <2>1 DEF InHand, Fetched, Busy, Running
  <2> QED
    BY <1>0, <1>9, <1>10, <1>18, <2>2 DEF PublishFails, Exit, TypeOK
\* The offset that is committed, now or perhaps, is behind settled records only.
<1>19. ASSUME NEW c \in Consumers, pc[c] = "commit",
              committed' \in {committed, offset[c] + 1}
       PROVE  NoLoss'
  <2>1. \A o \in 0 .. offset[c] : Settled(o)'
    BY <1>4, <1>6, <1>19 DEF Busy
  <2>2. CASE committed' = committed
    BY <1>10, <2>2
  <2>3. CASE committed' = offset[c] + 1
    <3>1. committed' - 1 = offset[c]
      BY <1>4, <2>3
    <3> QED
      BY <2>1, <3>1 DEF NoLoss
  <2> QED
    BY <1>19, <2>2, <2>3
<1>20. ASSUME NEW c \in Consumers, Commit(c)
       PROVE  SafetyInv'
  <2>1. /\ pc[c] = "commit" /\ pc'[c] = "poll"
        /\ offset'[c] = offset[c] /\ position'[c] = position[c]
    BY <1>0, <1>20 DEF Commit, TypeOK
  <2>2. NoLoss'
    BY <1>19, <1>20 DEF Commit
  <2>3. InHand(c)' /\ Fetched(c)'
    BY <1>6, <2>1 DEF InHand, Fetched, Busy, Running
  <2> QED
    BY <1>0, <1>9, <1>20, <2>2, <2>3 DEF Commit, TypeOK
<1>21. ASSUME NEW c \in Consumers, CommitFails(c)
       PROVE  SafetyInv'
  <2>1. pc'[c] = "closing"
    BY <1>0, <1>21 DEF CommitFails, Exit, TypeOK
  <2>2. NoLoss'
    BY <1>19, <1>21 DEF CommitFails
  <2>3. InHand(c)' /\ Fetched(c)'
    BY <2>1 DEF InHand, Fetched, Busy, Running
  <2> QED
    BY <1>0, <1>9, <1>21, <2>2, <2>3 DEF CommitFails, Exit, TypeOK
<1>22. ASSUME NEW c \in Consumers, Close(c) \/ Crash(c)
       PROVE  SafetyInv'
  <2>1. Gone(c) /\ committed' = committed
    BY <1>22 DEF Close, Crash
  <2>2. pc'[c] = "down" /\ position'[c] = 0
    BY <1>0, <2>1 DEF Gone, TypeOK
  <2>3. InHand(c)' /\ Fetched(c)'
    BY <2>2 DEF InHand, Fetched, Busy, Running
  <2> QED
    BY <1>0, <1>9, <1>10, <2>1, <2>3 DEF Gone, TypeOK
<1>23. CASE UNCHANGED vars
  BY <1>0, <1>8, <1>10, <1>23 DEF vars, SafetyInv
<1> QED
  BY <1>11, <1>12, <1>13, <1>14, <1>15, <1>16, <1>17, <1>18, <1>20, <1>21, <1>22, <1>23
  DEF Next, Work, PollNothing

\* At the start nothing is committed and nobody has fetched anything.
LEMMA SafetyInit == Init => SafetyInv
<1> SUFFICES ASSUME Init
             PROVE  SafetyInv
  OBVIOUS
<1>1. NoLoss /\ \A c \in Consumers : InHand(c) /\ Fetched(c)
  BY DEF Init, NoLoss, InHand, Fetched, Busy, Running
<1> QED
  BY <1>1, TypeInit DEF SafetyInv

\* No record is lost, whatever is retried, killed, reassigned or committed twice
\* (ResilientConsumer's NoLoss; processing.py commits only after a durable update
\* or a confirmed dead letter).
THEOREM NothingIsLost == Spec => []NoLoss
<1>1. SafetyInv => NoLoss
  BY DEF SafetyInv
<1> QED
  BY <1>1, SafetyInit, SafetyStep, PTL DEF Spec

\* The client of the consumer that has the partition never fetches past an open
\* record (ResilientConsumer's NothingSkipped), because an exception ends the process.
THEOREM FetchesInOrder == Spec => []NothingSkipped
<1>1. SafetyInv => NothingSkipped
  BY DEF SafetyInv, NothingSkipped, Fetched
<1> QED
  BY <1>1, SafetyInit, SafetyStep, PTL DEF Spec

-----------------------------------------------------------------------------
(***************************************************************************)
(* Of a topic in order nothing is quarantined.  The argument: as long as   *)
(* the topic is in order, what is stored is what some beginning of the     *)
(* topic holds, and a state shows the newest stored event of its match; so *)
(* an event that a consumer has in hand, with all before it settled, is    *)
(* either stored already or the next one of its match.                     *)
(***************************************************************************)
\* An identity stands for one event.
UniqueIds ==
  \A i, j \in 1 .. Len(topic) :
    topic[i].event_id = topic[j].event_id => topic[i] = topic[j]

NothingPoisoned ==
  /\ dlq = {}
  /\ \A c \in Consumers :
       queued[c] = None /\ answer[c] # "poison" /\ pc[c] # "publish"

\* What is stored is what some beginning of the topic holds.
StoredIsPrefix ==
  \E k \in 0 .. Len(topic) : stored = {topic[i] : i \in 1 .. k}

Newest(f) ==
  /\ f \in stored
  /\ \A g \in stored : g.match_id = f.match_id => g = f \/ g.sequence < f.sequence

Shows(state, f) ==
  /\ state.match_id = f.match_id
  /\ state.latest_sequence = f.sequence
  /\ state.period = f.period
  /\ state.clock = f.clock
  /\ state.last_event_id = f.event_id

\* A state shows the newest stored event of its match.
StateOfNewest(m) ==
  \/ current[m] = None /\ \A f \in stored : f.match_id # m
  \/ current[m] # None /\ \E f \in stored :
       f.match_id = m /\ Newest(f) /\ Shows(current[m], f)

OrderInv ==
  InOrder =>
    /\ UniqueIds
    /\ NothingPoisoned
    /\ StoredIsPrefix
    /\ \A m \in Matches : StateOfNewest(m)

-----------------------------------------------------------------------------
\* What InOrder says of one record.
LEMMA InOrderAt ==
  ASSUME InOrder, TypeOK, NEW i \in 1 .. Len(topic)
  PROVE  /\ topic[i] # Garbage /\ topic[i] \in Events /\ topic[i] \in CanonicalEvent
         /\ IsGoal(topic[i]) => topic[i].team # None
         /\ \/ topic[i] \in Before(i)
            \/ /\ \A f \in Before(i) : f.event_id # topic[i].event_id
               /\ \/ \A f \in Before(i) : f.match_id # topic[i].match_id
                  \/ \E f \in Before(i) :
                       /\ f.match_id = topic[i].match_id
                       /\ Follows(f, topic[i])
                       /\ \A g \in Before(i) :
                            g.match_id = topic[i].match_id => g.sequence <= f.sequence
<1>1. InTurn(topic[i], Before(i))
  BY DEF InOrder, TypeOK
<1>2. topic[i] \in Events \cup {Garbage}
  BY DEF TypeOK
<1> DEFINE e == topic[i]
           own == {f \in Before(i) : f.match_id = e.match_id}
<1>3. e # Garbage /\ (IsGoal(e) => e.team # None)
  BY <1>1 DEF InTurn
<1>4. \/ e \in Before(i)
      \/ /\ \A f \in Before(i) : f.event_id # e.event_id
         /\ own = {} \/ \E f \in own :
              Follows(f, e) /\ \A g \in own : g.sequence <= f.sequence
  BY <1>1 DEF InTurn
<1>5. e \in Events /\ e \in CanonicalEvent
  BY <1>2, <1>3, ConsumerAssumption
<1>6. own = {} => \A f \in Before(i) : f.match_id # e.match_id
  OBVIOUS
<1>7. ASSUME NEW f \in own, Follows(f, e), \A g \in own : g.sequence <= f.sequence
      PROVE  \E h \in Before(i) :
               /\ h.match_id = e.match_id
               /\ Follows(h, e)
               /\ \A g \in Before(i) : g.match_id = e.match_id => g.sequence <= h.sequence
  BY <1>7
<1> QED
  BY <1>3, <1>4, <1>5, <1>6, <1>7

\* A topic that is in order was so before a record was appended.
LEMMA InOrderBefore ==
  ASSUME TypeOK, [Next]_vars, InOrder'
  PROVE  InOrder
<1>1. CASE Produce
  <2>1. ASSUME NEW i \in DOMAIN topic
        PROVE  i \in DOMAIN topic' /\ topic'[i] = topic[i] /\ Before(i)' = Before(i)
    <3>1. Len(topic) \in Nat /\ DOMAIN topic = 1 .. Len(topic)
      BY DEF TypeOK
    <3>2. DOMAIN topic' = 1 .. Len(topic) + 1
      BY <1>1 DEF Produce, TypeOK
    <3>3. \A j \in 1 .. Len(topic) : topic'[j] = topic[j]
      BY OnlyGrows
    <3>4. \A j \in 1 .. i - 1 : topic'[j] = topic[j]
      BY <3>1, <3>3
    <3> QED
      BY <3>1, <3>2, <3>3, <3>4 DEF Before
  <2> QED
    BY <2>1 DEF InOrder
<1>2. CASE ~Produce
  <2>1. topic' = topic
    BY <1>2 DEF Next, Work, Start, Assign, Poll, PollNothing, Process, Decide, Publish,
         PublishFails, Commit, CommitFails, Close, Crash, broker, vars
  <2> QED
    BY <2>1 DEF InOrder, Before
<1> QED
  BY <1>1, <1>2

\* The identities stay unique, by the first clause of InOrder about a new record.
LEMMA UniqueStep ==
  ASSUME TypeOK, TypeOK', UniqueIds, [Next]_vars, InOrder'
  PROVE  UniqueIds'
<1>1. CASE topic' = topic
  BY <1>1 DEF UniqueIds
<1>2. ASSUME Produce
      PROVE  UniqueIds'
  <2> DEFINE n == Len(topic) + 1
  <2>1. Len(topic) \in Nat /\ Len(topic') = n
    BY <1>2 DEF Produce, TypeOK
  <2>2. \A i \in 1 .. Len(topic) : topic'[i] = topic[i]
    BY OnlyGrows
  <2>3. \/ \E j \in 1 .. Len(topic) : topic'[n] = topic[j]
        \/ \A j \in 1 .. Len(topic) : topic[j].event_id # topic'[n].event_id
    <3>1. n \in DOMAIN topic'
      BY <1>2 DEF Produce, TypeOK
    <3>2. \/ topic'[n] \in {topic'[j] : j \in 1 .. n - 1}
          \/ \A f \in {topic'[j] : j \in 1 .. n - 1} : f.event_id # topic'[n].event_id
      BY <3>1 DEF InOrder, InTurn, Before
    <3>3. n - 1 = Len(topic)
      BY <2>1
    <3> QED
      BY <2>2, <3>2, <3>3
  <2>4. \A i, j \in 1 .. Len(topic) :
          topic'[i].event_id = topic'[j].event_id => topic'[i] = topic'[j]
    BY <2>2 DEF UniqueIds
  <2>5. \A i \in 1 .. n : i \in 1 .. Len(topic) \/ i = n
    BY <2>1
  <2>6. \A i \in 1 .. Len(topic) :
          topic'[i].event_id = topic'[n].event_id => topic'[i] = topic'[n]
    BY <2>2, <2>3, <2>4
  <2> HIDE DEF n
  <2> QED
    BY <2>1, <2>4, <2>5, <2>6 DEF UniqueIds
<1> QED
  BY <1>1, <1>2 DEF Next, Work, Start, Assign, Poll, PollNothing, Process, Decide, Publish,
       PublishFails, Commit, CommitFails, Close, Crash, broker, vars

-----------------------------------------------------------------------------
\* An event in hand that no stored event shares its identity with is the next one
\* of its match: the transition accepts it, and what is stored is what the topic
\* holds before it.
LEMMA InHandIsNext ==
  ASSUME SafetyInv, OrderInv, InOrder, NEW c \in Consumers, pc[c] = "process",
         ~Durable!Known(Record(c))
  PROVE  LET e == Record(c)
         IN  /\ Accepts(Durable!StateOrInitial(current[e.match_id], e.match_id), e)
             /\ \A f \in stored : f.match_id = e.match_id => f.sequence < e.sequence
             /\ stored = Before(offset[c] + 1)
<1> DEFINE n == offset[c] + 1
           e == Record(c)
           m == e.match_id
<1>1. TypeOK /\ UniqueIds /\ dlq = {} /\ StoredIsPrefix /\ StateOfNewest(m)
  <2>1. TypeOK /\ RangeInv
    BY DEF SafetyInv
  <2>2. m \in Matches
    BY <2>1, RecordType DEF Busy
  <2> QED
    BY <2>1, <2>2 DEF OrderInv, NothingPoisoned
<1>2. Len(topic) \in Nat /\ n \in 1 .. Len(topic) /\ e = topic[n]
  BY <1>1 DEF SafetyInv, RangeInv, TypeOK, Busy, Record
<1>3. ASSUME NEW j \in 1 .. n - 1
      PROVE  topic[j] \in stored
  <2>1. j - 1 \in 0 .. offset[c] - 1 /\ j \in 1 .. Len(topic) /\ (j - 1) + 1 = j
    BY <1>1, <1>2 DEF TypeOK
  <2>2. Settled(j - 1)
    BY <2>1 DEF SafetyInv, InHand, Busy
  <2>3. PICK f \in stored : f.event_id = topic[j].event_id
    BY <1>1, <2>1, <2>2 DEF Settled, Durable!KnownToItsMatch
  <2>4. PICK i \in 1 .. Len(topic) : f = topic[i]
    BY <1>1, <1>2 DEF StoredIsPrefix
  <2> QED
    BY <1>1, <2>1, <2>3, <2>4 DEF UniqueIds
<1>4. e \notin stored
  BY DEF Durable!Known
<1>5. stored = Before(n)
  <2>1. PICK k \in 0 .. Len(topic) : stored = {topic[i] : i \in 1 .. k}
    BY <1>1 DEF StoredIsPrefix
  <2>2. k \in Nat /\ n \in Nat /\ k < n
    BY <1>2, <1>4, <2>1
  <2>3. stored \subseteq Before(n)
    BY <2>1, <2>2 DEF Before
  <2> QED
    BY <1>3, <2>3 DEF Before
<1> HIDE DEF n
<1>6. /\ e \in CanonicalEvent
      /\ IsGoal(e) => e.team # None
      /\ \A f \in stored : f.event_id # e.event_id
      /\ \/ \A f \in stored : f.match_id # m
         \/ \E f \in stored :
              /\ f.match_id = m
              /\ Follows(f, e)
              /\ \A g \in stored : g.match_id = m => g.sequence <= f.sequence
  BY <1>1, <1>2, <1>4, <1>5, InOrderAt
<1>7. stored \subseteq CanonicalEvent
  BY <1>1, ConsumerAssumption DEF TypeOK
<1>8. CASE \A f \in stored : f.match_id # m
  <2>1. Durable!StateOrInitial(current[m], m) = InitialState(m)
    BY <1>1, <1>8, SameTransition DEF StateOfNewest, Durable!StateOrInitial
  <2>2. e.event_id # None
    BY <1>6, NoneAssumption DEF CanonicalEvent
  <2>3. Accepts(InitialState(m), e)
    BY <1>6, <2>2 DEF Accepts, ValidTransition, InitialState
  <2> QED
    BY <1>5, <1>8, <2>1, <2>3 DEF n
<1>9. ASSUME NEW f \in stored, f.match_id = m, Follows(f, e),
             \A g \in stored : g.match_id = m => g.sequence <= f.sequence
      PROVE  /\ Accepts(Durable!StateOrInitial(current[m], m), e)
             /\ \A g \in stored : g.match_id = m => g.sequence < e.sequence
  <2>1. current[m] # None
    BY <1>1, <1>9 DEF StateOfNewest
  <2>2. PICK h \in stored : h.match_id = m /\ Newest(h) /\ Shows(current[m], h)
    BY <1>1, <2>1 DEF StateOfNewest
  <2>3. h = f
    <3>1. h.sequence \in Nat /\ f.sequence \in Nat
      BY <1>7, <1>9 DEF CanonicalEvent
    <3> QED
      BY <1>9, <2>2, <3>1 DEF Newest
  <2>4. Shows(current[m], f) /\ e.event_id # f.event_id
    BY <1>6, <2>2, <2>3
  <2>5. /\ f.sequence \in Nat /\ f.period \in Nat /\ f.clock \in Nat
        /\ e.sequence \in Nat /\ e.period \in Nat /\ e.clock \in Nat
    BY <1>6, <1>7 DEF CanonicalEvent
  <2>6. e.sequence = f.sequence + 1
    BY <1>9 DEF Follows
  <2>7. ValidTransition(current[m], e)
    <3>1. ~Stale(current[m], e) /\ ~SequenceGap(current[m], e)
      BY <2>4, <2>5, <2>6 DEF Stale, SequenceGap, Shows
    <3>2. ~ClockRegression(current[m], e)
      BY <1>9, <2>4, <2>5 DEF ClockRegression, Shows, Follows
    <3> QED
      BY <1>9, <2>4, <3>1, <3>2 DEF ValidTransition, Shows
  <2>8. Accepts(current[m], e)
    BY <1>6, <2>7 DEF Accepts
  <2>9. \A g \in stored : g.match_id = m => g.sequence < e.sequence
    <3>1. \A g \in stored : g.sequence \in Nat
      BY <1>7 DEF CanonicalEvent
    <3> QED
      BY <1>9, <2>5, <2>6, <3>1
  <2> QED
    BY <2>1, <2>8, <2>9 DEF Durable!StateOrInitial
<1> QED
  BY <1>5, <1>6, <1>8, <1>9 DEF n

\* An application makes the event in hand the newest of its match.
LEMMA ApplyKeepsOrder ==
  ASSUME SafetyInv, OrderInv, InOrder, NEW c \in Consumers, Process(c), Durable!Apply(c)
  PROVE  StoredIsPrefix' /\ \A m \in Matches : StateOfNewest(m)'
<1> DEFINE e == Record(c)
           previous == Durable!StateOrInitial(current[e.match_id], e.match_id)
<1>1. TypeOK /\ RangeInv /\ pc[c] = "process" /\ topic' = topic
  BY DEF SafetyInv, Process, broker
<1>2. e \in CanonicalEvent /\ e.match_id \in Matches
  BY <1>1, RecordType DEF Busy
<1>3. /\ ~Durable!Known(e)
      /\ stored' = stored \cup {e}
      /\ current' = [current EXCEPT ![e.match_id] = ApplyEvent(previous, e)]
  BY <1>1, SameTransition DEF Durable!Apply
<1>4. /\ Accepts(previous, e)
      /\ \A f \in stored : f.match_id = e.match_id => f.sequence < e.sequence
      /\ stored = Before(offset[c] + 1)
  BY <1>1, <1>3, InHandIsNext
<1>5. StoredIsPrefix'
  <2>1. offset[c] + 1 \in 1 .. Len(topic) /\ e = topic[offset[c] + 1]
    BY <1>1 DEF RangeInv, TypeOK, Busy, Record
  <2>2. stored' = {topic[i] : i \in 1 .. offset[c] + 1}
    BY <1>3, <1>4, <2>1 DEF Before
  <2>3. offset[c] + 1 \in 0 .. Len(topic)
    BY <2>1
  <2> QED
    BY <1>1, <2>2, <2>3 DEF StoredIsPrefix
<1>6. /\ current'[e.match_id] # None
      /\ Shows(current'[e.match_id], e)
  <2>1. previous \in MatchState
    BY <1>1, <1>2, InitialStateType, SameTransition DEF Durable!StateOrInitial, TypeOK
  <2>2. ApplyEvent(previous, e) \in MatchState /\ previous.match_id = e.match_id
    BY <1>2, <1>4, <2>1, ApplyEventType DEF Accepts, ValidTransition
  <2>3. current'[e.match_id] = ApplyEvent(previous, e)
    BY <1>1, <1>2, <1>3 DEF TypeOK
  <2>4. ApplyEvent(previous, e) # None
    BY <2>2, ConsumerAssumption
  <2>5. Shows(ApplyEvent(previous, e), e)
    BY <2>2 DEF Shows, ApplyEvent
  <2> QED
    BY <2>3, <2>4, <2>5
<1>7. ASSUME NEW m \in Matches, m = e.match_id
      PROVE  StateOfNewest(m)'
  <2>1. \E f \in stored' :
          /\ f.match_id = m
          /\ \A g \in stored' : g.match_id = f.match_id => g = f \/ g.sequence < f.sequence
          /\ Shows(current'[m], f)
    BY <1>3, <1>4, <1>6, <1>7
  <2>2. current'[m] # None
    BY <1>6, <1>7
  <2> QED
    BY <2>1, <2>2 DEF StateOfNewest, Newest, Shows
<1>8. ASSUME NEW m \in Matches, m # e.match_id
      PROVE  StateOfNewest(m)'
  <2>1. current'[m] = current[m]
    BY <1>1, <1>2, <1>3, <1>8 DEF TypeOK
  <2>2. \A f : f.match_id = m => (f \in stored' <=> f \in stored)
    BY <1>3, <1>8
  <2>3. CASE current[m] = None
    BY <2>1, <2>2, <2>3 DEF OrderInv, StateOfNewest
  <2>4. CASE current[m] # None
    <3>1. PICK f \in stored : f.match_id = m /\ Newest(f) /\ Shows(current[m], f)
      BY <2>4 DEF OrderInv, StateOfNewest
    <3>2. f \in stored' /\ \A g \in stored' : g.match_id = m => g = f \/ g.sequence < f.sequence
      BY <2>2, <3>1 DEF Newest
    <3> QED
      BY <2>1, <2>4, <3>1, <3>2 DEF StateOfNewest, Newest, Shows
  <2> QED
    BY <2>3, <2>4
<1> QED
  BY <1>5, <1>7, <1>8

\* Every step preserves OrderInv.
LEMMA OrderStep == SafetyInv /\ OrderInv /\ [Next]_vars => OrderInv'
<1> SUFFICES ASSUME SafetyInv, OrderInv, [Next]_vars, InOrder'
             PROVE  /\ UniqueIds'
                    /\ NothingPoisoned'
                    /\ StoredIsPrefix'
                    /\ \A m \in Matches : StateOfNewest(m)'
  BY DEF OrderInv
<1>1. TypeOK /\ TypeOK' /\ InOrder
  BY SafetyStep, InOrderBefore DEF SafetyInv
<1>2. UniqueIds /\ NothingPoisoned /\ StoredIsPrefix /\ \A m \in Matches : StateOfNewest(m)
  BY <1>1 DEF OrderInv
<1>3. UniqueIds'
  BY <1>1, <1>2, UniqueStep
<1>4. ASSUME stored' = stored
      PROVE  StoredIsPrefix'
  <2>1. Len(topic) \in Nat /\ Len(topic') \in Nat /\ Len(topic) <= Len(topic')
    <3>1. topic' = topic \/ Produce
      BY DEF Next, Work, Start, Assign, Poll, PollNothing, Process, Decide, Publish,
           PublishFails, Commit, CommitFails, Close, Crash, broker, vars
    <3> QED
      BY <1>1, <3>1 DEF Produce, TypeOK
  <2>2. PICK k \in 0 .. Len(topic) : stored = {topic[i] : i \in 1 .. k}
    BY <1>2 DEF StoredIsPrefix
  <2>3. \A i \in 1 .. k : topic'[i] = topic[i]
    BY <1>1, <2>1, OnlyGrows
  <2>4. stored' = {topic'[i] : i \in 1 .. k}
    BY <1>4, <2>2, <2>3
  <2>5. k \in 0 .. Len(topic')
    BY <2>1
  <2> QED
    BY <2>4, <2>5 DEF StoredIsPrefix
<1>5. UNCHANGED store => StoredIsPrefix' /\ \A m \in Matches : StateOfNewest(m)'
  BY <1>2, <1>4 DEF store, StateOfNewest, Newest
<1> USE DEF broker, store, client, Goto
<1>6. ASSUME NEW c \in Consumers, Process(c)
      PROVE  NothingPoisoned' /\ StoredIsPrefix' /\ \A m \in Matches : StateOfNewest(m)'
  <2>1. pc[c] = "process" /\ ~Durable!Reject(c)
    <3>1. pc[c] = "process"
      BY <1>6 DEF Process
    <3>2. Durable!Known(Record(c)) \/ Durable!Accepts(
            Durable!StateOrInitial(current[Record(c).match_id], Record(c).match_id), Record(c))
      BY <1>1, <3>1, InHandIsNext, SameTransition
    <3> QED
      BY <3>1, <3>2 DEF Durable!Reject
  <2>2. \A d \in Consumers : answer'[d] # "poison"
    BY <1>1, <1>2, <1>6, <2>1
    DEF Process, NothingPoisoned, Durable!Apply, Durable!Repeat, Durable!FailCall,
        Durable!Answer, TypeOK
  <2>3. NothingPoisoned'
    BY <1>1, <1>2, <1>6, <2>2 DEF Process, NothingPoisoned, TypeOK
  <2>4. CASE Durable!Apply(c)
    BY <1>1, <1>6, <2>3, <2>4, ApplyKeepsOrder
  <2>5. CASE ~Durable!Apply(c)
    BY <1>5, <1>6, <2>1, <2>3, <2>5 DEF Process, Durable!Repeat, Durable!FailCall
  <2> QED
    BY <2>4, <2>5
<1>7. ASSUME NEW c \in Consumers, Decide(c)
      PROVE  NothingPoisoned'
  <2>1. pc'[c] # "publish"
    BY <1>1, <1>2, <1>7 DEF Decide, Succeed, Retry, GiveUp, Exit, NothingPoisoned, TypeOK
  <2>2. \A d \in Consumers \ {c} : pc'[d] = pc[d]
    BY <1>1, <1>7 DEF Decide, Succeed, Retry, GiveUp, Exit, TypeOK
  <2> QED
    BY <1>1, <1>2, <1>7, <2>1, <2>2 DEF Decide, NothingPoisoned, TypeOK
<1>8. ASSUME NEW c \in Consumers, Poll(c)
      PROVE  NothingPoisoned'
  <2>1. \A d \in Consumers : pc'[d] # "publish"
    BY <1>1, <1>2, <1>8 DEF Poll, Exit, NothingPoisoned, TypeOK
  <2> QED
    BY <1>2, <1>8, <2>1 DEF Poll, NothingPoisoned
<1>9. ASSUME NEW c \in Consumers, Close(c) \/ Crash(c)
      PROVE  NothingPoisoned'
  <2>1. Gone(c)
    BY <1>9 DEF Close, Crash
  <2> QED
    BY <1>1, <1>2, <2>1 DEF Gone, NothingPoisoned, TypeOK
<1>10. ASSUME NEW c \in Consumers, Start(c) \/ Assign(c) \/ Commit(c) \/ CommitFails(c)
       PROVE  NothingPoisoned'
  BY <1>1, <1>2, <1>10
  DEF Start, Assign, Commit, CommitFails, Exit, NothingPoisoned, TypeOK
<1>11. ASSUME NEW c \in Consumers
       PROVE  ~Publish(c) /\ ~PublishFails(c)
  BY <1>2 DEF Publish, PublishFails, NothingPoisoned
<1>12. CASE \E c \in Consumers : Process(c)
  BY <1>3, <1>6, <1>12
<1>13. CASE ~\E c \in Consumers : Process(c)
  <2>1. UNCHANGED store
    BY <1>13 DEF Next, Work, Produce, Start, Assign, Poll, PollNothing, Decide, Publish,
         PublishFails, Commit, CommitFails, Close, Crash, vars
  <2>2. NothingPoisoned'
    BY <1>2, <1>7, <1>8, <1>9, <1>10, <1>11, <1>13
    DEF Next, Work, Produce, PollNothing, NothingPoisoned, vars
  <2> QED
    BY <1>3, <1>5, <2>1, <2>2
<1> QED
  BY <1>12, <1>13

\* At the start the topic and the store are empty.
LEMMA OrderInit == Init => OrderInv
<1> SUFFICES ASSUME Init
             PROVE  OrderInv
  OBVIOUS
<1>1. Len(topic) = 0
  BY DEF Init
<1>2. UniqueIds
  BY <1>1 DEF UniqueIds
<1>3. StoredIsPrefix
  <2>1. stored = {topic[i] : i \in 1 .. 0}
    BY DEF Init
  <2> QED
    BY <1>1, <2>1 DEF StoredIsPrefix
<1>4. NothingPoisoned /\ \A m \in Matches : StateOfNewest(m)
  BY DEF Init, NothingPoisoned, StateOfNewest
<1> QED
  BY <1>2, <1>3, <1>4 DEF OrderInv

\* Of a topic in order nothing is ever quarantined, whatever crashes, redeliveries,
\* rebalances, lost answers and repeated publications there are
\* (ResilientConsumer's InOrderNeverQuarantined).
THEOREM OrderedTopicIsProjected == Spec => []InOrderNeverQuarantined
<1>1. OrderInv => InOrderNeverQuarantined
  BY DEF OrderInv, NothingPoisoned, InOrderNeverQuarantined
<1> QED
  BY <1>1, SafetyInit, SafetyStep, OrderInit, OrderStep, PTL DEF Spec
=============================================================================
