------------------------- MODULE DeadLetterOps_proofs -------------------------
(***************************************************************************)
(* What holds of the dead-letter commands and of the lag for any topic,    *)
(* groups, limits and number of failures.                                  *)
(***************************************************************************)
EXTENDS DeadLetterOps, MatchTransition_proofs, FiniteSetTheorems

\* The opc of a command that has a letter in hand is its name.
Names == {"dlq-list", "dlq-show", "dlq-replay"}

\* The letter in hand is the one before the next, and is one; a dlq-list has
\* committed all that it has polled.
HandInv ==
  /\ opc \in Names => next - 1 \in Letters /\ command.name = opc
  /\ opc # "idle" /\ command.name = "dlq-list" => next = passed[command.group] + 1

\* Only what has been committed is printed, and the letter in hand is not yet.
PrintedInv ==
  /\ \A g \in Groups : printed[g] \subseteq 1 .. passed[g]
  /\ opc = "dlq-list" => next - 1 \notin printed[command.group]

\* Every record before the consumer's progress is stored or has a letter, and
\* the one at its progress too once it is settled.
HandledInv ==
  /\ \A o \in 0 .. Progress - 1 : ~Outstanding(o)
  /\ settled => Progress < Len(topic) /\ ~Outstanding(Progress)

\* The commit that lag has read is not ahead of the consumer.
ReadInv == lagged # None => lagged.offset = None \/ lagged.offset <= Progress

OpsInv == TypeOK /\ HandInv /\ PrintedInv /\ HandledInv /\ ReadInv

Letter == [offset : Nat, event : CanonicalEvent]

-----------------------------------------------------------------------------
(***************************************************************************)
(* Types.                                                                  *)
(***************************************************************************)
\* What appending does to a partition.
LEMMA Appended ==
  ASSUME NEW S, NEW s \in Seq(S), NEW x \in S
  PROVE  /\ Append(s, x) \in Seq(S)
         /\ Len(Append(s, x)) = Len(s) + 1
         /\ DOMAIN Append(s, x) = 1 .. Len(s) + 1
         /\ \A i \in 1 .. Len(s) : Append(s, x)[i] = s[i]
         /\ Append(s, x)[Len(s) + 1] = x
         /\ Range(s) \subseteq Range(Append(s, x)) /\ x \in Range(Append(s, x))
<1>1. /\ Append(s, x) \in Seq(S)
      /\ Len(Append(s, x)) = Len(s) + 1
      /\ DOMAIN Append(s, x) = 1 .. Len(s) + 1
      /\ \A i \in 1 .. Len(s) : Append(s, x)[i] = s[i]
      /\ Append(s, x)[Len(s) + 1] = x
      /\ DOMAIN s = 1 .. Len(s) /\ Len(s) \in Nat
  OBVIOUS
<1>2. \A i \in DOMAIN s : i \in DOMAIN Append(s, x) /\ s[i] = Append(s, x)[i]
  BY <1>1
<1>3. Len(s) + 1 \in DOMAIN Append(s, x)
  BY <1>1
<1> QED
  BY <1>1, <1>2, <1>3 DEF Range

\* Appending a letter disturbs nothing that refers to the letters.
LEMMA LettersGrow ==
  ASSUME TypeOK, NEW x \in Letter \cup {BadLetter}, letters' = Append(letters, x),
         UNCHANGED operator
  PROVE  /\ letters' \in Seq(Letter \cup {BadLetter})
         /\ Len(letters') = Len(letters) + 1 /\ Letters \subseteq Letters'
         /\ passed' \in [Groups -> 0 .. Len(letters')]
         /\ printed' \in [Groups -> SUBSET DOMAIN letters']
         /\ next' \in 1 .. Len(letters') + 1
         /\ Range(letters) \subseteq Range(letters') /\ x \in Range(letters')
<1>1. letters \in Seq(Letter \cup {BadLetter})
  BY DEF TypeOK, Letter
<1>2. /\ letters' \in Seq(Letter \cup {BadLetter})
      /\ Len(letters') = Len(letters) + 1
      /\ DOMAIN letters = 1 .. Len(letters) /\ Len(letters) \in Nat
      /\ DOMAIN letters' = 1 .. Len(letters) + 1
      /\ \A i \in 1 .. Len(letters) : letters'[i] = letters[i]
      /\ Range(letters) \subseteq Range(letters') /\ x \in Range(letters')
  BY <1>1, Appended
<1>3. Letters \subseteq Letters'
  BY <1>2 DEF Letters
<1>4. next' \in 1 .. Len(letters') + 1
  BY <1>2 DEF operator, TypeOK
<1>5. passed' \in [Groups -> 0 .. Len(letters')]
  <2>1. \A g \in Groups : passed[g] \in 0 .. Len(letters')
    BY <1>2 DEF TypeOK
  <2> QED
    BY <2>1 DEF operator, TypeOK
<1>6. printed' \in [Groups -> SUBSET DOMAIN letters']
  <2>1. \A g \in Groups : printed[g] \subseteq DOMAIN letters'
    BY <1>2 DEF TypeOK
  <2> QED
    BY <2>1 DEF operator, TypeOK
<1> QED
  BY <1>2, <1>3, <1>4, <1>5, <1>6

\* The event at the consumer's progress, and the state that it is applied to.
LEMMA RecordType ==
  ASSUME TypeOK, Progress < Len(topic)
  PROVE  /\ Progress \in Nat /\ Progress + 1 \in 1 .. Len(topic)
         /\ Record \in CanonicalEvent /\ Record.match_id \in Matches
         /\ Record \in Range(topic) /\ DeadLetter \in Letter
         /\ Durable!StateOrInitial(current[Record.match_id], Record.match_id) \in MatchState
<1>1. /\ Progress \in Nat /\ Progress + 1 \in 1 .. Len(topic) /\ DOMAIN topic = 1 .. Len(topic)
      /\ topic \in Seq(CanonicalEvent)
  BY NoneAssumption DEF TypeOK, Progress
<1>2. Record \in CanonicalEvent /\ Record \in Range(topic)
  BY <1>1 DEF Record, Range
<1>3. Record.match_id \in Matches
  BY <1>2 DEF CanonicalEvent
<1>4. Durable!InitialState(Record.match_id) = InitialState(Record.match_id)
  BY DEF InitialState, EmptyTally, Durable!InitialState, Durable!EmptyTally
<1>5. InitialState(Record.match_id) \in MatchState
  BY <1>3, InitialStateType
<1>6. Durable!StateOrInitial(current[Record.match_id], Record.match_id) \in MatchState
  BY <1>3, <1>4, <1>5 DEF TypeOK, Durable!StateOrInitial
<1> QED
  BY <1>1, <1>2, <1>3, <1>6 DEF DeadLetter, Letter

\* Settling a record keeps the store and the letters of their types.
LEMMA SettleType ==
  ASSUME TypeOK, Settle
  PROVE  /\ current' \in [Matches -> MatchState \cup {None}]
         /\ stored' \subseteq Range(topic)
         /\ stored \subseteq stored'
         /\ letters' = letters \/ letters' = Append(letters, DeadLetter)
         /\ \/ \E f \in stored' : f.event_id = Record.event_id
            \/ letters' = Append(letters, DeadLetter)
<1> DEFINE e == Record
           previous == Durable!StateOrInitial(current[e.match_id], e.match_id)
<1>1. /\ e \in CanonicalEvent /\ e.match_id \in Matches /\ e \in Range(topic)
      /\ previous \in MatchState
  BY RecordType DEF Settle
<1>2. CASE Durable!KnownToItsMatch(e) /\ UNCHANGED <<current, stored, letters>>
  BY <1>2 DEF TypeOK, Durable!KnownToItsMatch
<1>3. CASE /\ ~Durable!Known(e) /\ Accepts(previous, e)
           /\ current' = [current EXCEPT ![e.match_id] = ApplyEvent(previous, e)]
           /\ stored' = stored \cup {e}
           /\ UNCHANGED letters
  <2>1. ApplyEvent(previous, e) \in MatchState
    BY <1>1, <1>3, ApplyEventType
  <2> HIDE DEF previous
  <2>2. current' \in [Matches -> MatchState \cup {None}]
    BY <1>1, <1>3, <2>1 DEF TypeOK
  <2>3. stored' = stored \cup {e} /\ letters' = letters /\ e.event_id = Record.event_id
    BY <1>3
  <2> HIDE DEF e
  <2> QED
    BY <1>1, <2>2, <2>3 DEF TypeOK
<1>4. CASE letters' = Append(letters, DeadLetter) /\ UNCHANGED <<current, stored>>
  BY <1>4 DEF TypeOK
<1> QED
  BY <1>2, <1>3, <1>4 DEF Settle

\* The end of a command leaves nothing of it.
LEMMA EndType ==
  ASSUME TypeOK, End, UNCHANGED <<letters, passed, printed>>
  PROVE  /\ opc' = "idle" /\ command' = None
         /\ polls' \in 0 .. MaxPolls /\ next' \in 1 .. Len(letters') + 1
BY OpsAssumption DEF End, TypeOK

\* A command begins as one that the operator may ask for.
LEMMA StartType ==
  ASSUME TypeOK, NEW c \in Commands, Start(c)
  PROVE  /\ UNCHANGED <<topic, consumer, letters, passed, printed, killed, lagged>>
         /\ opc' = "poll" /\ command' \in Commands
         /\ polls' \in 0 .. MaxPolls /\ next' \in 1 .. Len(letters') + 1
<1>1. c.group \in Groups
  BY DEF Commands
<1>2. passed[c.group] \in 0 .. Len(letters) /\ Len(letters) \in Nat
  BY <1>1 DEF TypeOK
<1> QED
  BY <1>2, OpsAssumption DEF Start

\* Whatever the operator starts is a command.
LEMMA StartStep ==
  ASSUME TypeOK, List \/ Show \/ ReplayInOrder \/ Replay
  PROVE  (\E c \in Commands : Start(c)) /\ faults' \in 0 .. MaxFaults
<1>1. \A i \in Letters : Id(letters[i]) \in Nat \X EventIds
  <2> TAKE i \in Letters
  <2>1. letters[i] \in Letter
    BY DEF Letters, TypeOK, Letter
  <2> QED
    BY <2>1 DEF Id, Letter, CanonicalEvent
<1>2. \A g \in Groups, i \in Letters :
        /\ [name |-> "dlq-show", group |-> g, record |-> Id(letters[i])] \in Commands
        /\ [name |-> "dlq-replay", group |-> g, record |-> Id(letters[i])] \in Commands
  BY <1>1 DEF Commands
<1>3. \A g \in Groups : [name |-> "dlq-list", group |-> g, record |-> None] \in Commands
  BY DEF Commands
<1>4. \E c \in Commands : Start(c)
  <2>1. CASE List
    BY <1>3, <2>1 DEF List
  <2>2. CASE Show
    BY <1>2, <2>2 DEF Show
  <2>3. CASE ReplayInOrder
    BY <1>2, <2>3, OpsAssumption DEF ReplayInOrder
  <2>4. CASE Replay
    BY <1>2, <2>4 DEF Replay
  <2> QED
    BY <2>1, <2>2, <2>3, <2>4
<1>5. faults' \in 0 .. MaxFaults
  BY OpsAssumption DEF List, Show, ReplayInOrder, Replay, Fault, TypeOK
<1> QED
  BY <1>4, <1>5

\* A longer topic keeps what refers to its records.
LEMMA TopicGrows ==
  ASSUME TypeOK, NEW e \in CanonicalEvent, topic' = Append(topic, e),
         UNCHANGED <<committed, stored>>
  PROVE  /\ topic' \in Seq(CanonicalEvent)
         /\ Len(topic') = Len(topic) + 1
         /\ \A o \in 0 .. Len(topic) - 1 : topic'[o + 1] = topic[o + 1]
         /\ committed' \in 0 .. Len(topic') \cup {None}
         /\ stored' \subseteq Range(topic')
<1>1. /\ topic' \in Seq(CanonicalEvent) /\ Len(topic') = Len(topic) + 1
      /\ \A i \in 1 .. Len(topic) : topic'[i] = topic[i]
      /\ Range(topic) \subseteq Range(topic') /\ Len(topic) \in Nat
  BY Appended DEF TypeOK
<1>2. \A o \in 0 .. Len(topic) - 1 : o + 1 \in 1 .. Len(topic)
  BY <1>1
<1> QED
  BY <1>1, <1>2 DEF TypeOK

\* What dlq-replay publishes is the event of the letter in hand, or nothing.
LEMMA RepublishStep ==
  ASSUME OpsInv, Republish \/ RepublishFails
  PROVE  topic' = topic \/ \E e \in CanonicalEvent : topic' = Append(topic, e)
<1>1. letters[next - 1] \in Letter
  BY DEF OpsInv, HandInv, Letters, Names, Republish, RepublishFails, TypeOK, Letter
<1>2. letters[next - 1].event \in CanonicalEvent
  BY <1>1 DEF Letter
<1> QED
  BY <1>2 DEF Republish, RepublishFails

\* A letter that arrives is in hand, or the next is polled.
LEMMA PollType ==
  ASSUME TypeOK, PollLetter
  PROVE  /\ next \in DOMAIN letters /\ letters[next] # BadLetter /\ next' = next + 1
         /\ command \in Commands /\ command' = command
         /\ passed' = IF command.name = "dlq-list"
                      THEN [passed EXCEPT ![command.group] = next] ELSE passed
         /\ passed' \in [Groups -> 0 .. Len(letters)]
         /\ polls' \in 0 .. MaxPolls
         /\ opc' \in {"poll", command.name}
         /\ command.name = "dlq-list" => opc' = "dlq-list"
<1>1. next \in DOMAIN letters /\ next \in 0 .. Len(letters)
  BY DEF PollLetter, TypeOK
<1>2. command \in Commands
  BY DEF PollLetter, TypeOK
<1>3. polls' \in 0 .. MaxPolls
  BY OpsAssumption DEF PollLetter, MayPoll, TypeOK
<1>4. passed' \in [Groups -> 0 .. Len(letters)]
  BY <1>1 DEF PollLetter, CommitLetter, TypeOK
<1> QED
  BY <1>1, <1>2, <1>3, <1>4 DEF PollLetter, CommitLetter

\* Every step keeps the types.
LEMMA TypeStep == OpsInv /\ [Next]_vars => TypeOK'
<1> SUFFICES ASSUME OpsInv, [Next]_vars
             PROVE  TypeOK'
  OBVIOUS
<1>0. TypeOK
  BY DEF OpsInv
<1> USE <1>0 DEF consumer, operator
<1>1. CASE Settle
  <2>1. /\ current' \in [Matches -> MatchState \cup {None}]
        /\ stored' \subseteq Range(topic')
        /\ letters' = letters \/ letters' = Append(letters, DeadLetter)
        /\ DeadLetter \in Letter
        /\ UNCHANGED <<topic, committed, operator, lagged, faults>> /\ settled' \in BOOLEAN
    BY <1>1, SettleType, RecordType DEF Settle
  <2>2. /\ letters' \in Seq(Letter \cup {BadLetter})
        /\ passed' \in [Groups -> 0 .. Len(letters')]
        /\ printed' \in [Groups -> SUBSET DOMAIN letters']
        /\ next' \in 1 .. Len(letters') + 1
    <3>1. CASE letters' = letters
      BY <2>1, <3>1 DEF TypeOK, Letter
    <3>2. CASE letters' = Append(letters, DeadLetter)
      BY <2>1, <3>2, LettersGrow
    <3> QED
      BY <2>1, <3>1, <3>2
  <2> QED
    BY <2>1, <2>2 DEF TypeOK, Letter
<1>2. CASE Commit
  <2>1. committed' \in 0 .. Len(topic)
    BY <1>2, NoneAssumption DEF Commit, OpsInv, HandledInv, Progress, TypeOK
  <2> QED
    BY <1>2, <2>1 DEF Commit, TypeOK
<1>3. CASE Restart
  <2>1. faults' \in 0 .. MaxFaults
    BY <1>3, OpsAssumption DEF Restart, Fault, TypeOK
  <2> QED
    BY <1>3, <2>1 DEF Restart, TypeOK
<1>4. CASE Stranger
  <2>1. faults' \in 0 .. MaxFaults
    BY <1>4, OpsAssumption DEF Stranger, Fault, TypeOK
  <2>2. /\ letters' \in Seq(Letter \cup {BadLetter})
        /\ passed' \in [Groups -> 0 .. Len(letters')]
        /\ printed' \in [Groups -> SUBSET DOMAIN letters']
        /\ next' \in 1 .. Len(letters') + 1
    BY <1>4, LettersGrow DEF Stranger
  <2> QED
    BY <1>4, <2>1, <2>2 DEF Stranger, TypeOK, Letter
<1>5. CASE List \/ Show \/ ReplayInOrder \/ Replay
  <2>1. PICK c \in Commands : Start(c)
    BY <1>5, StartStep
  <2>2. faults' \in 0 .. MaxFaults
    BY <1>5, StartStep
  <2>3. /\ UNCHANGED <<topic, consumer, letters, passed, printed, killed, lagged>>
        /\ opc' = "poll" /\ command' \in Commands
        /\ polls' \in 0 .. MaxPolls /\ next' \in 1 .. Len(letters') + 1
    BY <2>1, StartType
  <2> QED
    BY <2>2, <2>3 DEF TypeOK
<1>6. CASE PollLetter
  <2>1. UNCHANGED <<topic, consumer, letters, printed, killed, lagged, faults>>
    BY <1>6 DEF PollLetter
  <2>2. next' \in 1 .. Len(letters') + 1
    BY <1>6, <2>1, PollType DEF TypeOK
  <2>3. opc' \in {"poll", "dlq-list", "dlq-show", "dlq-replay"}
    BY <1>6, PollType DEF Commands
  <2>4. /\ command' \in Commands /\ polls' \in 0 .. MaxPolls
        /\ passed' \in [Groups -> 0 .. Len(letters')]
    BY <1>6, <2>1, PollType
  <2> QED
    BY <2>1, <2>2, <2>3, <2>4 DEF TypeOK
<1>7. CASE PollNothing
  <2>1. faults' \in 0 .. MaxFaults /\ polls' \in 0 .. MaxPolls
    BY <1>7, OpsAssumption DEF PollNothing, MayPoll, Fault, TypeOK
  <2> QED
    BY <1>7, <2>1 DEF PollNothing, TypeOK
<1>8. CASE PrintLetter
  <2>1. command \in Commands /\ next - 1 \in DOMAIN letters
    BY <1>8 DEF PrintLetter, OpsInv, HandInv, Names, Letters, TypeOK
  <2>2. printed' \in [Groups -> SUBSET DOMAIN letters]
    BY <1>8, <2>1 DEF PrintLetter, TypeOK
  <2> QED
    BY <1>8, <2>1, <2>2 DEF PrintLetter, TypeOK
<1>9. CASE PollBad \/ PrintOne \/ GiveUp \/ Kill
  <2>1. /\ UNCHANGED <<topic, consumer, letters, passed, printed, lagged>>
        /\ faults' \in 0 .. MaxFaults /\ killed' \in Nat
    BY <1>9, OpsAssumption DEF PollBad, PrintOne, GiveUp, Kill, Fault, TypeOK
  <2>2. /\ opc' = "idle" /\ command' = None
        /\ polls' \in 0 .. MaxPolls /\ next' \in 1 .. Len(letters') + 1
    BY <1>9, <2>1, EndType DEF PollBad, PrintOne, GiveUp, Kill
  <2> QED
    BY <2>1, <2>2 DEF TypeOK
<1>10. CASE Republish \/ RepublishFails
  <2>1. /\ UNCHANGED <<consumer, letters, passed, printed, killed, lagged>>
        /\ faults' \in 0 .. MaxFaults
    BY <1>10, OpsAssumption DEF Republish, RepublishFails, Fault, TypeOK
  <2>2. /\ opc' = "idle" /\ command' = None
        /\ polls' \in 0 .. MaxPolls /\ next' \in 1 .. Len(letters') + 1
    BY <1>10, <2>1, EndType DEF Republish, RepublishFails
  <2>3. /\ topic' \in Seq(CanonicalEvent)
        /\ committed' \in 0 .. Len(topic') \cup {None}
        /\ stored' \subseteq Range(topic')
    <3>1. CASE topic' = topic
      BY <2>1, <3>1 DEF TypeOK
    <3>2. ASSUME NEW e \in CanonicalEvent, topic' = Append(topic, e)
          PROVE  <2>3
      BY <2>1, <3>2, TopicGrows
    <3> QED
      BY <1>10, <3>1, <3>2, RepublishStep
  <2> QED
    BY <2>1, <2>2, <2>3 DEF TypeOK
<1>11. CASE ReadCommitted \/ ReadWatermarks
  <2>1. lagged' \in [offset : Nat \cup {None}] \cup {None}
    BY <1>11 DEF ReadCommitted, ReadWatermarks, TypeOK
  <2> QED
    BY <1>11, <2>1 DEF ReadCommitted, ReadWatermarks, TypeOK
<1>12. CASE Idle \/ UNCHANGED vars
  <2>1. UNCHANGED vars
    BY <1>12 DEF Idle
  <2> QED
    BY <2>1 DEF vars, TypeOK
<1> QED
  BY <1>1, <1>2, <1>3, <1>4, <1>5, <1>6, <1>7, <1>8, <1>9, <1>10, <1>11, <1>12
  DEF Next, Consume, Command

-----------------------------------------------------------------------------
(***************************************************************************)
(* The command in progress.                                                *)
(***************************************************************************)
\* A step of the consumer, of a stranger or of lag leaves the command alone.
LEMMA Bystander ==
  ASSUME OpsInv, Consume \/ Restart \/ Idle \/ Stranger \/ ReadCommitted \/ ReadWatermarks
                 \/ UNCHANGED vars
  PROVE  UNCHANGED operator /\ Letters \subseteq Letters'
<1>0. TypeOK
  BY DEF OpsInv
<1>1. UNCHANGED operator
  BY DEF Consume, Settle, Commit, Restart, Idle, Stranger, ReadCommitted, ReadWatermarks, vars
<1>2. letters' = letters \/ \E x \in Letter \cup {BadLetter} : letters' = Append(letters, x)
  <2>1. CASE Settle
    BY <1>0, <2>1, RecordType DEF Settle
  <2>2. CASE Stranger
    BY <2>2 DEF Stranger
  <2>3. CASE ~Settle /\ ~Stranger
    BY <2>3 DEF Consume, Commit, Restart, Idle, ReadCommitted, ReadWatermarks, vars
  <2> QED
    BY <2>1, <2>2, <2>3
<1>3. Letters \subseteq Letters'
  <2>1. CASE letters' = letters
    BY <2>1 DEF Letters
  <2>2. ASSUME NEW x \in Letter \cup {BadLetter}, letters' = Append(letters, x)
        PROVE  Letters \subseteq Letters'
    BY <1>0, <1>1, <2>2, LettersGrow
  <2> QED
    BY <1>2, <2>1, <2>2
<1> QED
  BY <1>1, <1>3

\* The command in progress, step by step.
LEMMA HandStep == OpsInv /\ [Next]_vars => HandInv' /\ PrintedInv'
<1> SUFFICES ASSUME OpsInv, [Next]_vars
             PROVE  HandInv' /\ PrintedInv'
  OBVIOUS
<1>0. TypeOK /\ HandInv /\ PrintedInv /\ TypeOK'
  BY TypeStep DEF OpsInv
<1>1. CASE Consume \/ Restart \/ Idle \/ Stranger \/ ReadCommitted \/ ReadWatermarks
           \/ UNCHANGED vars
  <2>1. UNCHANGED <<opc, command, next, passed, printed>> /\ Letters \subseteq Letters'
    BY <1>1, Bystander DEF operator
  <2> QED
    BY <1>0, <2>1 DEF HandInv, PrintedInv, Names
<1>2. CASE List \/ Show \/ ReplayInOrder \/ Replay
  <2>1. PICK c \in Commands : Start(c)
    BY <1>0, <1>2, StartStep
  <2>2. /\ opc' = "poll" /\ command' = c /\ next' = passed[c.group] + 1
        /\ UNCHANGED <<passed, printed>>
    BY <2>1 DEF Start
  <2> QED
    BY <1>0, <2>2 DEF HandInv, PrintedInv, Names
<1>3. CASE PollLetter
  <2>1. /\ next \in DOMAIN letters /\ letters[next] # BadLetter /\ next' = next + 1
        /\ command \in Commands /\ command' = command
        /\ passed' = IF command.name = "dlq-list"
                     THEN [passed EXCEPT ![command.group] = next] ELSE passed
        /\ opc' \in {"poll", command.name}
        /\ letters' = letters /\ printed' = printed /\ opc = "poll"
    BY <1>0, <1>3, PollType DEF PollLetter
  <2>2. /\ command.group \in Groups /\ next \in Nat /\ next' - 1 = next
        /\ command.name = "dlq-list" =>
             passed[command.group] = next - 1 /\ passed'[command.group] = next
    <3>1. command.group \in Groups /\ next \in Nat
      BY <1>0, <2>1 DEF Commands, TypeOK
    <3>2. command.name = "dlq-list" => next = passed[command.group] + 1
      BY <1>0, <2>1 DEF HandInv, TypeOK
    <3>3. passed \in [Groups -> 0 .. Len(letters)] /\ passed[command.group] \in Int
      BY <1>0, <3>1 DEF TypeOK
    <3>4. command.name = "dlq-list" => passed'[command.group] = next
      BY <2>1, <3>1, <3>3
    <3> QED
      BY <2>1, <3>1, <3>2, <3>3, <3>4
  <2>3. opc' \in Names => next' - 1 \in Letters' /\ command'.name = opc'
    BY <2>1, <2>2 DEF Letters, Names
  <2>4. HandInv'
    BY <2>1, <2>2, <2>3 DEF HandInv
  <2>5. \A g \in Groups : printed[g] \subseteq 1 .. passed'[g]
    <3> TAKE g \in Groups
    <3>1. CASE command.name = "dlq-list" /\ g = command.group
      <4>1. printed[g] \subseteq 1 .. next - 1
        BY <1>0, <2>2, <3>1 DEF PrintedInv
      <4> QED
        BY <2>2, <3>1, <4>1
    <3>2. CASE ~(command.name = "dlq-list" /\ g = command.group)
      <4>1. passed'[g] = passed[g]
        BY <1>0, <2>1, <3>2 DEF TypeOK
      <4> QED
        BY <1>0, <4>1 DEF PrintedInv
    <3> QED
      BY <3>1, <3>2
  <2>6. opc' = "dlq-list" => next \notin printed[command.group]
    <3> SUFFICES ASSUME opc' = "dlq-list" PROVE next \notin printed[command.group]
      OBVIOUS
    <3>1. command.name = "dlq-list"
      BY <2>1
    <3>2. printed[command.group] \subseteq 1 .. next - 1
      BY <1>0, <2>2, <3>1 DEF PrintedInv
    <3> QED
      BY <2>2, <3>2
  <2> QED
    BY <2>1, <2>2, <2>4, <2>5, <2>6 DEF PrintedInv
<1>4. CASE PollNothing
  BY <1>0, <1>4 DEF PollNothing, HandInv, PrintedInv, Names, Letters
<1>5. CASE PrintLetter
  <2>1. /\ opc = "dlq-list" /\ opc' = "poll" /\ UNCHANGED <<letters, passed, command, next>>
        /\ printed' = [printed EXCEPT ![command.group] = @ \cup {next - 1}]
    BY <1>5 DEF PrintLetter
  <2>2. command \in Commands /\ command.name = "dlq-list" /\ next = passed[command.group] + 1
    BY <1>0, <2>1 DEF HandInv, Names, TypeOK
  <2>3. command.group \in Groups /\ next - 1 = passed[command.group] /\ next - 1 \in DOMAIN letters
    BY <1>0, <2>1, <2>2 DEF Commands, HandInv, Names, Letters, TypeOK
  <2>4. HandInv'
    BY <1>0, <2>1, <2>2 DEF HandInv, Names
  <2>5. \A g \in Groups : printed'[g] \subseteq 1 .. passed[g]
    BY <1>0, <2>1, <2>3 DEF PrintedInv, TypeOK
  <2> QED
    BY <2>1, <2>4, <2>5 DEF PrintedInv
<1>6. CASE PollBad \/ PrintOne \/ GiveUp \/ Kill \/ Republish \/ RepublishFails
  BY <1>0, <1>6
  DEF PollBad, PrintOne, GiveUp, Kill, Republish, RepublishFails, End, HandInv, PrintedInv, Names
<1> QED
  BY <1>1, <1>2, <1>3, <1>4, <1>5, <1>6 DEF Next, Command

-----------------------------------------------------------------------------
(***************************************************************************)
(* What was passed over and not printed.                                   *)
(***************************************************************************)
Unprinted(g) == (1 .. passed[g]) \ printed[g]

InHand(g) == IF opc = "dlq-list" /\ command.group = g THEN 1 ELSE 0

\* PassedWasPrinted, group by group.
LEMMA PassedByGroup ==
  PassedWasPrinted <=> \A g \in Groups : Cardinality(Unprinted(g)) <= killed + InHand(g)
BY DEF PassedWasPrinted, Unprinted, InHand

\* What a group has passed over can be counted.
LEMMA UnprintedFinite ==
  ASSUME TypeOK, NEW g \in Groups
  PROVE  IsFiniteSet(Unprinted(g)) /\ Cardinality(Unprinted(g)) \in Nat
<1>1. passed[g] \in Int /\ 1 \in Int
  BY DEF TypeOK
<1>2. IsFiniteSet(1 .. passed[g])
  BY <1>1, FS_Interval
<1>3. Unprinted(g) \in SUBSET (1 .. passed[g])
  BY DEF Unprinted
<1> QED
  BY <1>2, <1>3, FS_Subset, FS_CardinalityType

\* Every step keeps PassedWasPrinted.
LEMMA PassedStep == OpsInv /\ PassedWasPrinted /\ [Next]_vars => PassedWasPrinted'
<1> SUFFICES ASSUME OpsInv, PassedWasPrinted, [Next]_vars, NEW g \in Groups
             PROVE  Cardinality(Unprinted(g)') <= killed' + InHand(g)'
  BY DEF PassedWasPrinted, Unprinted, InHand
<1>0. TypeOK /\ HandInv /\ PrintedInv
  BY DEF OpsInv
<1>1. /\ IsFiniteSet(Unprinted(g)) /\ Cardinality(Unprinted(g)) \in Nat
      /\ killed \in Nat /\ InHand(g) \in 0 .. 1
      /\ Cardinality(Unprinted(g)) <= killed + InHand(g)
  BY <1>0, UnprintedFinite, PassedByGroup DEF InHand, TypeOK
<1>2. ASSUME UNCHANGED <<passed, printed>>, killed' + InHand(g)' >= killed + InHand(g),
             killed' \in Nat, InHand(g)' \in Nat
      PROVE  Cardinality(Unprinted(g)') <= killed' + InHand(g)'
  <2>1. Unprinted(g)' = Unprinted(g)
    BY <1>2 DEF Unprinted
  <2>2. killed + InHand(g) \in Int /\ killed' + InHand(g)' \in Int
    BY <1>1, <1>2
  <2> QED
    BY <1>1, <1>2, <2>1, <2>2
<1>3. CASE Consume \/ Restart \/ Idle \/ Stranger \/ ReadCommitted \/ ReadWatermarks
           \/ UNCHANGED vars
  <2>1. UNCHANGED <<passed, printed, killed, opc, command>>
    BY <1>3, Bystander DEF operator
  <2> QED
    BY <1>1, <1>2, <2>1 DEF InHand
<1>4. CASE List \/ Show \/ ReplayInOrder \/ Replay
  <2>1. UNCHANGED <<passed, printed, killed>> /\ opc = "idle" /\ opc' = "poll"
    BY <1>4 DEF List, Show, ReplayInOrder, Replay, Start
  <2> QED
    BY <1>1, <1>2, <2>1 DEF InHand
<1>5. CASE PollLetter
  <2>1. /\ UNCHANGED <<printed, killed>> /\ opc = "poll" /\ command' = command
        /\ command \in Commands
        /\ passed' = IF command.name = "dlq-list"
                     THEN [passed EXCEPT ![command.group] = next] ELSE passed
        /\ command.name = "dlq-list" => opc' = "dlq-list"
        /\ next \in DOMAIN letters
    BY <1>0, <1>5, PollType DEF PollLetter
  <2>2. InHand(g) = 0
    BY <2>1 DEF InHand
  <2>3. CASE command.name = "dlq-list" /\ command.group = g
    <3>1. InHand(g)' = 1 /\ passed'[g] = next
      BY <1>0, <2>1, <2>3 DEF InHand, TypeOK
    <3>2. next = passed[g] + 1 /\ passed[g] \in Nat
      BY <1>0, <2>1, <2>3 DEF HandInv, TypeOK
    <3>3. Unprinted(g)' = Unprinted(g) \cup {next}
      <4>1. printed[g] \subseteq 1 .. passed[g]
        BY <1>0 DEF PrintedInv
      <4>2. 1 .. passed'[g] = (1 .. passed[g]) \cup {next} /\ next \notin 1 .. passed[g]
        BY <3>1, <3>2
      <4> QED
        BY <2>1, <4>1, <4>2 DEF Unprinted
    <3>4. Cardinality(Unprinted(g)') =
            IF next \in Unprinted(g) THEN Cardinality(Unprinted(g)) ELSE Cardinality(Unprinted(g)) + 1
      BY <1>1, <3>3, FS_AddElement
    <3>5. /\ Cardinality(Unprinted(g)') \in Nat
          /\ Cardinality(Unprinted(g)') <= Cardinality(Unprinted(g)) + 1
      BY <1>1, <3>4
    <3> QED
      BY <1>1, <2>1, <2>2, <3>1, <3>5
  <2>4. CASE ~(command.name = "dlq-list" /\ command.group = g)
    <3>1. Unprinted(g)' = Unprinted(g)
      BY <1>0, <2>1, <2>4 DEF Unprinted, TypeOK
    <3>2. InHand(g)' \in 0 .. 1
      BY DEF InHand
    <3> QED
      BY <1>1, <2>1, <2>2, <3>1, <3>2
  <2> QED
    BY <2>3, <2>4
<1>6. CASE PollNothing
  BY <1>1, <1>2, <1>6 DEF PollNothing, InHand
<1>7. CASE PrintLetter
  <2>1. /\ opc = "dlq-list" /\ opc' = "poll" /\ UNCHANGED <<killed, passed>>
        /\ printed' = [printed EXCEPT ![command.group] = @ \cup {next - 1}]
    BY <1>7 DEF PrintLetter
  <2>2. InHand(g)' = 0
    BY <2>1 DEF InHand
  <2>3. /\ command \in Commands /\ command.name = "dlq-list" /\ command.group \in Groups
        /\ next - 1 = passed[command.group] /\ next - 1 \in DOMAIN letters
        /\ next - 1 \notin printed[command.group]
    BY <1>0, <2>1 DEF HandInv, PrintedInv, Letters, Names, Commands, TypeOK
  <2>4. CASE command.group = g
    <3>1. InHand(g) = 1
      BY <2>1, <2>4 DEF InHand
    <3>2. next - 1 \in Unprinted(g)
      BY <1>0, <2>3, <2>4 DEF Unprinted, TypeOK
    <3>3. Unprinted(g)' = Unprinted(g) \ {next - 1}
      BY <1>0, <2>1, <2>4 DEF Unprinted, TypeOK
    <3>4. Cardinality(Unprinted(g)') = Cardinality(Unprinted(g)) - 1
      BY <1>1, <3>2, <3>3, FS_RemoveElement
    <3> QED
      BY <1>1, <2>1, <2>2, <3>1, <3>4
  <2>5. CASE command.group # g
    <3>1. InHand(g) = 0 /\ Unprinted(g)' = Unprinted(g)
      BY <1>0, <2>1, <2>3, <2>5 DEF InHand, Unprinted, TypeOK
    <3> QED
      BY <1>1, <2>1, <2>2, <3>1
  <2> QED
    BY <2>4, <2>5
<1>8. CASE PollBad \/ PrintOne \/ GiveUp \/ Republish \/ RepublishFails
  <2>1. UNCHANGED <<passed, printed, killed>> /\ opc # "dlq-list" /\ opc' = "idle"
    BY <1>8 DEF PollBad, PrintOne, GiveUp, Republish, RepublishFails, End
  <2> QED
    BY <1>1, <1>2, <2>1 DEF InHand
<1>9. CASE Kill
  <2>1. /\ UNCHANGED <<passed, printed>> /\ opc' = "idle"
        /\ killed' = killed + (IF opc = "dlq-list" THEN 1 ELSE 0)
    BY <1>9 DEF Kill, End
  <2>2. InHand(g)' = 0 /\ InHand(g) <= IF opc = "dlq-list" THEN 1 ELSE 0
    BY <2>1 DEF InHand
  <2> QED
    BY <1>1, <1>2, <2>1, <2>2
<1> QED
  BY <1>3, <1>4, <1>5, <1>6, <1>7, <1>8, <1>9 DEF Next, Command

-----------------------------------------------------------------------------
(***************************************************************************)
(* The lag.                                                                *)
(***************************************************************************)
\* The records that the consumer has passed are records.
LEMMA ProgressType ==
  ASSUME TypeOK
  PROVE  /\ Progress \in 0 .. Len(topic) /\ Len(topic) \in Nat
         /\ committed # None => Progress = committed
BY NoneAssumption DEF Progress, TypeOK

\* A record that is handled stays handled.
LEMMA StaysHandled ==
  ASSUME NEW o, ~Outstanding(o), stored \subseteq stored',
         Range(letters) \subseteq Range(letters'), topic'[o + 1] = topic[o + 1]
  PROVE  ~Outstanding(o)'
BY DEF Outstanding

\* A step that neither settles nor commits keeps what is handled.
LEMMA KeepsHandled ==
  ASSUME OpsInv, stored \subseteq stored', Range(letters) \subseteq Range(letters'),
         committed' = committed, settled' \in {settled, FALSE},
         Len(topic') >= Len(topic), Len(topic') \in Nat,
         \A o \in 0 .. Len(topic) - 1 : topic'[o + 1] = topic[o + 1]
  PROVE  HandledInv'
<1>1. /\ Progress \in 0 .. Len(topic) /\ Len(topic) \in Nat /\ Progress' = Progress
      /\ settled \in BOOLEAN
  BY ProgressType DEF OpsInv, Progress, TypeOK
<1>2. \A o \in 0 .. Progress - 1 : ~Outstanding(o)'
  <2> TAKE o \in 0 .. Progress - 1
  <2>1. o \in 0 .. Len(topic) - 1 /\ ~Outstanding(o)
    BY <1>1 DEF OpsInv, HandledInv
  <2> QED
    BY <2>1, StaysHandled
<1>3. ASSUME settled'
      PROVE  Progress < Len(topic') /\ ~Outstanding(Progress)'
  <2>1. settled /\ Progress < Len(topic) /\ ~Outstanding(Progress)
    BY <1>1, <1>3 DEF OpsInv, HandledInv
  <2>2. Progress \in 0 .. Len(topic) - 1 /\ topic'[Progress + 1] = topic[Progress + 1]
    BY <1>1, <2>1
  <2>3. ~Outstanding(Progress)'
    BY <1>1, <2>1, <2>2 DEF Outstanding
  <2> QED
    BY <1>1, <2>1, <2>3
<1> QED
  BY <1>1, <1>2, <1>3 DEF HandledInv

\* Every step keeps the invariant of the handled records.
LEMMA HandledStep == OpsInv /\ [Next]_vars => HandledInv'
<1> SUFFICES ASSUME OpsInv, [Next]_vars
             PROVE  HandledInv'
  OBVIOUS
<1>0. TypeOK /\ HandledInv /\ Progress \in 0 .. Len(topic) /\ Len(topic) \in Nat
      /\ settled \in BOOLEAN
  BY ProgressType DEF OpsInv, TypeOK
<1>1. CASE Settle
  <2>1. /\ Progress < Len(topic) /\ UNCHANGED <<topic, committed>>
        /\ stored \subseteq stored' /\ DeadLetter \in Letter
        /\ letters' = letters \/ letters' = Append(letters, DeadLetter)
        /\ \/ \E f \in stored' : f.event_id = Record.event_id
           \/ letters' = Append(letters, DeadLetter)
        /\ UNCHANGED operator
    BY <1>0, <1>1, SettleType, RecordType DEF Settle
  <2>2. Range(letters) \subseteq Range(letters')
    BY <1>0, <2>1, LettersGrow
  <2>3. ~Outstanding(Progress)'
    <3>1. CASE \E f \in stored' : f.event_id = Record.event_id
      BY <2>1, <3>1 DEF Outstanding, Record, Progress
    <3>2. CASE letters' = Append(letters, DeadLetter)
      <4>1. DeadLetter \in Range(letters')
        BY <1>0, <2>1, <3>2, LettersGrow
      <4> QED
        BY <2>1, <4>1 DEF Outstanding, DeadLetter, Record, Progress
    <3> QED
      BY <2>1, <3>1, <3>2
  <2>4. Progress' = Progress
    BY <2>1 DEF Progress
  <2>5. \A o \in 0 .. Progress - 1 : ~Outstanding(o)'
    <3> TAKE o \in 0 .. Progress - 1
    <3>1. ~Outstanding(o)
      BY <1>0 DEF HandledInv
    <3> QED
      BY <2>1, <2>2, <3>1, StaysHandled
  <2> QED
    BY <2>1, <2>3, <2>4, <2>5 DEF HandledInv
<1>2. CASE Commit
  <2>1. /\ settled /\ settled' = FALSE /\ committed' = Progress + 1
        /\ UNCHANGED <<topic, stored, letters>>
    BY <1>2 DEF Commit
  <2>2. Progress' = Progress + 1
    BY <1>0, <2>1, NoneAssumption DEF Progress
  <2>3. \A o \in 0 .. Progress : ~Outstanding(o)
    <3> TAKE o \in 0 .. Progress
    <3>1. o \in 0 .. Progress - 1 \/ o = Progress
      BY <1>0
    <3> QED
      BY <1>0, <2>1, <3>1 DEF HandledInv
  <2>4. \A o \in 0 .. Progress : ~Outstanding(o)'
    BY <2>1, <2>3 DEF Outstanding
  <2> QED
    BY <1>0, <2>1, <2>2, <2>4 DEF HandledInv
<1>3. ASSUME UNCHANGED <<topic, stored, committed>>, settled' \in {settled, FALSE},
             Range(letters) \subseteq Range(letters')
      PROVE  HandledInv'
  <2>1. /\ topic' = topic /\ stored' = stored /\ committed' = committed
        /\ Len(topic') \in Nat /\ Len(topic') >= Len(topic)
        /\ \A o \in 0 .. Len(topic) - 1 : topic'[o + 1] = topic[o + 1]
    BY <1>0, <1>3
  <2> QED
    BY <1>3, <2>1, KeepsHandled
<1>4. CASE Stranger
  <2>1. Range(letters) \subseteq Range(letters')
    BY <1>0, <1>4, LettersGrow DEF Stranger
  <2> QED
    BY <1>3, <1>4, <2>1 DEF Stranger, consumer
<1>5. CASE List \/ Show \/ ReplayInOrder \/ Replay \/ PollLetter \/ PollNothing \/ PollBad
           \/ PrintLetter \/ PrintOne \/ GiveUp \/ Kill
  <2>1. UNCHANGED <<topic, stored, committed, settled, letters>>
    BY <1>5 DEF List, Show, ReplayInOrder, Replay, Start, PollLetter, PollNothing, PollBad,
         PrintLetter, PrintOne, GiveUp, Kill, consumer
  <2> QED
    BY <1>3, <2>1
<1>6. CASE Restart \/ Idle \/ ReadCommitted \/ ReadWatermarks \/ UNCHANGED vars
  <2>1. UNCHANGED <<topic, stored, committed, letters>> /\ settled' \in {settled, FALSE}
    BY <1>6 DEF Restart, Idle, ReadCommitted, ReadWatermarks, vars, consumer
  <2> QED
    BY <1>3, <2>1
<1>7. CASE Republish \/ RepublishFails
  <2>1. UNCHANGED <<stored, committed, settled, letters>>
    BY <1>7 DEF Republish, RepublishFails, consumer
  <2>2. CASE topic' = topic
    BY <1>3, <2>1, <2>2
  <2>3. ASSUME NEW e \in CanonicalEvent, topic' = Append(topic, e)
        PROVE  HandledInv'
    <3>1. /\ Len(topic') = Len(topic) + 1
          /\ \A o \in 0 .. Len(topic) - 1 : topic'[o + 1] = topic[o + 1]
      BY <1>0, <2>1, <2>3, TopicGrows
    <3> QED
      BY <1>0, <2>1, <3>1, KeepsHandled
  <2> QED
    BY <1>7, <2>2, <2>3, RepublishStep
<1> QED
  BY <1>1, <1>2, <1>3, <1>4, <1>5, <1>6, <1>7 DEF Next, Consume, Command

\* The consumer's progress never falls behind what lag has read.
LEMMA ReadStep == OpsInv /\ [Next]_vars => ReadInv'
<1> SUFFICES ASSUME OpsInv, [Next]_vars
             PROVE  ReadInv'
  OBVIOUS
<1>0. TypeOK /\ ReadInv /\ Progress \in 0 .. Len(topic) /\ Len(topic) \in Nat
  BY ProgressType DEF OpsInv
<1>1. CASE ReadCommitted
  BY <1>0, <1>1, ProgressType DEF ReadCommitted, ReadInv, Progress, consumer
<1>2. CASE ReadWatermarks
  BY <1>2 DEF ReadWatermarks, ReadInv
<1>3. CASE Commit
  <2>1. lagged' = lagged /\ Progress' = Progress + 1
    BY <1>0, <1>3, NoneAssumption DEF Commit, Progress
  <2>2. lagged # None /\ lagged.offset # None => lagged.offset \in Nat
    BY <1>0 DEF TypeOK
  <2> QED
    BY <1>0, <2>1, <2>2 DEF ReadInv
<1>4. CASE ~ReadCommitted /\ ~ReadWatermarks /\ ~Commit
  <2>1. UNCHANGED <<lagged, committed>>
    BY <1>4 DEF Next, Consume, Settle, Restart, Idle, Stranger, List, Show, ReplayInOrder, Replay,
         Start, Command, PollLetter, PollNothing, PollBad, PrintLetter, PrintOne, Republish,
         RepublishFails, GiveUp, Kill, vars, consumer
  <2> QED
    BY <1>0, <2>1 DEF ReadInv, Progress
<1> QED
  BY <1>1, <1>2, <1>3, <1>4

\* Every step keeps the invariant.
LEMMA OpsStep == OpsInv /\ [Next]_vars => OpsInv'
BY TypeStep, HandStep, HandledStep, ReadStep DEF OpsInv

\* The invariant holds at the start.
LEMMA OpsInit == Init => OpsInv
<1> SUFFICES ASSUME Init PROVE OpsInv
  OBVIOUS
<1>1. topic \in Seq(CanonicalEvent) /\ Len(topic) \in Nat
  BY OpsAssumption DEF Init
<1>2. TypeOK
  <2>1. /\ committed = None /\ settled = FALSE /\ opc = "idle" /\ command = None
        /\ stored = {} /\ killed = 0 /\ lagged = None
    BY DEF Init
  <2>2. faults \in 0 .. MaxFaults /\ polls \in 0 .. MaxPolls
    BY OpsAssumption DEF Init
  <2>3. current \in [Matches -> MatchState \cup {None}]
    BY DEF Init
  <2>4. /\ letters = <<>> /\ Len(letters) = 0 /\ next \in 1 .. Len(letters) + 1
        /\ letters \in Seq([offset : Nat, event : CanonicalEvent] \cup {BadLetter})
        /\ passed \in [Groups -> 0 .. Len(letters)]
        /\ printed \in [Groups -> SUBSET DOMAIN letters]
    BY DEF Init
  <2> QED
    BY <1>1, <2>1, <2>2, <2>3, <2>4 DEF TypeOK
<1>3. Progress = 0 /\ ~settled /\ opc = "idle" /\ lagged = None
  BY DEF Init, Progress
<1>4. \A g \in Groups : printed[g] = {}
  BY DEF Init
<1> QED
  BY <1>2, <1>3, <1>4 DEF OpsInv, HandInv, PrintedInv, HandledInv, ReadInv, Names

\* What is outstanding lies between the progress and the end of the partition.
LEMMA LagEnough == OpsInv => LagCoversBacklog
<1> SUFFICES ASSUME OpsInv, lagged # None
             PROVE  LagFromOffsets(lagged.offset, 0, Len(topic)) >=
                      Cardinality({o \in 0 .. Len(topic) - 1 : Outstanding(o)})
  BY DEF LagCoversBacklog
<1> DEFINE backlog == {o \in 0 .. Len(topic) - 1 : Outstanding(o)}
           p == IF lagged.offset = None THEN 0 ELSE lagged.offset
<1>1. /\ Progress \in 0 .. Len(topic) /\ Len(topic) \in Nat /\ p \in Nat /\ p <= Progress
  BY ProgressType DEF OpsInv, ReadInv, TypeOK
<1>2. backlog \subseteq p .. Len(topic) - 1
  <2> SUFFICES ASSUME NEW o \in 0 .. Len(topic) - 1, Outstanding(o)
               PROVE  o >= p
    BY <1>1
  <2>1. o \notin 0 .. Progress - 1
    BY DEF OpsInv, HandledInv
  <2> QED
    BY <1>1, <2>1
<1>3. /\ IsFiniteSet(p .. Len(topic) - 1)
      /\ Cardinality(p .. Len(topic) - 1) = IF p > Len(topic) - 1 THEN 0 ELSE Len(topic) - 1 - p + 1
  <2>1. p \in Int /\ Len(topic) - 1 \in Int
    BY <1>1
  <2> HIDE DEF p
  <2> QED
    BY <2>1, FS_Interval
<1>4. Cardinality(backlog) <= Cardinality(p .. Len(topic) - 1) /\ Cardinality(backlog) \in Nat
  <2>1. IsFiniteSet(backlog) /\ Cardinality(backlog) <= Cardinality(p .. Len(topic) - 1)
    BY <1>2, <1>3, FS_Subset
  <2> QED
    BY <2>1, FS_CardinalityType
<1>5. LagFromOffsets(lagged.offset, 0, Len(topic)) = IF Len(topic) > p THEN Len(topic) - p ELSE 0
  BY DEF LagFromOffsets
<1> HIDE DEF backlog, p
<1>6. LagFromOffsets(lagged.offset, 0, Len(topic)) >= Cardinality(backlog)
  BY <1>1, <1>3, <1>4, <1>5
<1> QED
  BY <1>6 DEF backlog

(***************************************************************************)
(* Every variable keeps its type, and no command polls more often than it  *)
(* was told to (DeadLetterOps' TypeOK).                                    *)
(***************************************************************************)
THEOREM OpsTypeCorrect == Spec => []TypeOK
<1>1. OpsInv => TypeOK
  BY DEF OpsInv
<1> QED
  BY <1>1, OpsInit, OpsStep, PTL DEF Spec

(***************************************************************************)
(* What the commands pass over has been printed, but for one letter each   *)
(* time that a dlq-list dies between its commit and its print, and one in  *)
(* hand (_dead_letter_command commits before it prints).                   *)
(***************************************************************************)
THEOREM PassedPrinted == Spec => []PassedWasPrinted
<1>1. Init => PassedWasPrinted
  <2> SUFFICES ASSUME Init, NEW g \in Groups
               PROVE  Cardinality((1 .. passed[g]) \ printed[g]) <= killed + InHand(g)
    BY DEF PassedWasPrinted, InHand
  <2>1. (1 .. passed[g]) \ printed[g] = {} /\ killed = 0 /\ InHand(g) = 0
    BY DEF Init, InHand
  <2> QED
    BY <2>1, FS_EmptySet
<1> QED
  BY <1>1, OpsInit, OpsStep, PassedStep, PTL DEF Spec

(***************************************************************************)
(* The printed lag is never less than what is still to be projected or     *)
(* quarantined, whatever happens between the read of the commit and the    *)
(* read of the watermarks (inspect_consumer_lag).                          *)
(***************************************************************************)
THEOREM LagCovers == Spec => []LagCoversBacklog
BY OpsInit, OpsStep, LagEnough, PTL DEF Spec
=============================================================================
