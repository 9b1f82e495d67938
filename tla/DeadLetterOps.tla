----------------------------- MODULE DeadLetterOps -----------------------------
(***************************************************************************)
(* What an operator does with dead letters and about backlog: the          *)
(* dlq-list, dlq-show, dlq-replay and lag commands of streaming/cli.py     *)
(* (_dead_letter_command, _print_lag) with the dead-letter records and     *)
(* their topic (streaming/dlq.py, dlq_transport.py) and the inspection of  *)
(* the lag (streaming/lag.py), beside a running resilient-project.         *)
(*                                                                         *)
(* The consumer is taken at the level that ResilientConsumer is checked to *)
(* provide: record after record is settled, that is, projected durably or  *)
(* quarantined, and then committed, and a restart in between repeats it.   *)
(***************************************************************************)
EXTENDS MatchTransition

CONSTANTS
  Publications,  \* what may have been published: sequences of events
  BadLetter,     \* a message in the dead-letter topic that is no dead letter
  Groups,        \* consumer groups that the commands are run with
  Fresh,         \* one of them that dlq-list is never run with
  MaxPolls,      \* --max-events of the commands
  MaxLog,        \* bound: length of the partition of either topic
  MaxFaults      \* bound: crashes, failed publications, mistakes

\* What an operator may ask for: the letter's id, except for dlq-list.
Commands ==
  [name : {"dlq-list", "dlq-show", "dlq-replay"}, group : Groups,
   record : (Nat \X EventIds) \cup {None}]

ASSUME OpsAssumption ==
  /\ Publications \subseteq Seq(CanonicalEvent)
  /\ Fresh \in Groups
  /\ MaxPolls \in Nat \ {0}
  /\ MaxLog \in Nat
  /\ MaxFaults \in Nat
  /\ None \notin Commands

VARIABLES
  topic,      \* the events topic: topic[o + 1] is the event at offset o
  committed,  \* the consumer's committed offset, or None before the first commit
  settled,    \* the record at the committed offset is settled, not yet committed
  current,    \* the durable state of every match
  stored,     \* the events durably applied
  letters,    \* the dead-letter topic: [offset, event], or BadLetter
  passed,     \* passed[g]: the offset that group g has committed in letters
  printed,    \* printed[g]: positions of the letters that dlq-list has printed with g
  killed,     \* times that a dlq-list ended before it printed what it had committed
  command,    \* the operator's command: [name, group, record], or None
  opc,        \* where it is
  polls,      \* polls it has made
  next,       \* the position of the letter it gets next
  lagged,     \* the committed offset that the lag command has read, or None
  faults      \* failures so far

consumer == <<committed, settled, current, stored>>
operator == <<passed, printed, killed, command, opc, polls, next>>
vars == <<topic, consumer, letters, operator, lagged, faults>>

Durable == INSTANCE AtomicProjection
             WITH Sessions <- {}, Events <- {}, log <- stored,
                  pending <- <<>>, answer <- <<>>

Init ==
  /\ topic \in Publications
  /\ committed = None
  /\ settled = FALSE
  /\ current = [m \in Matches |-> None]
  /\ stored = {}
  /\ letters = <<>>
  /\ passed = [g \in Groups |-> 0]
  /\ printed = [g \in Groups |-> {}]
  /\ killed = 0
  /\ command = None
  /\ opc = "idle"
  /\ polls = 0
  /\ next = 1
  /\ lagged = None
  /\ faults = 0

Fault == faults < MaxFaults /\ faults' = faults + 1

-----------------------------------------------------------------------------
(***************************************************************************)
(* resilient-project.                                                      *)
(***************************************************************************)
\* Without a commit the group starts at the earliest record.
Progress == IF committed = None THEN 0 ELSE committed

Record == topic[Progress + 1]

DeadLetter == [offset |-> Progress, event |-> Record]

Settle ==
  LET e == Record
      previous == Durable!StateOrInitial(current[e.match_id], e.match_id)
  IN  /\ Progress < Len(topic)
      /\ ~settled
      /\ settled' = TRUE
      /\ \/ Durable!KnownToItsMatch(e) /\ UNCHANGED <<current, stored, letters>>
         \/ /\ ~Durable!Known(e) /\ Accepts(previous, e)
            /\ current' = [current EXCEPT ![e.match_id] = ApplyEvent(previous, e)]
            /\ stored' = stored \cup {e}
            /\ UNCHANGED letters
         \/ /\ ~Durable!Known(e) /\ ~Accepts(previous, e)
            /\ Len(letters) < MaxLog
            /\ letters' = Append(letters, DeadLetter)
            /\ UNCHANGED <<current, stored>>
      /\ UNCHANGED <<topic, committed, operator, lagged, faults>>

Commit ==
  /\ settled
  /\ settled' = FALSE
  /\ committed' = Progress + 1
  /\ UNCHANGED <<topic, current, stored, letters, operator, lagged, faults>>

\* The process ends in between; the next one gets the record again.
Restart ==
  /\ settled
  /\ Fault
  /\ settled' = FALSE
  /\ UNCHANGED <<topic, committed, current, stored, letters, operator, lagged>>

Idle ==
  /\ Progress = Len(topic)
  /\ UNCHANGED vars

\* Somebody else has access to the dead-letter topic.
Stranger ==
  /\ Len(letters) < MaxLog
  /\ Fault
  /\ letters' = Append(letters, BadLetter)
  /\ UNCHANGED <<topic, consumer, operator, lagged>>

-----------------------------------------------------------------------------
(***************************************************************************)
(* _dead_letter_command.                                                   *)
(***************************************************************************)
\* dead_letter_id: a digest of the source position and the event's identity.
Id(letter) == <<letter.offset, letter.event.event_id>>

Start(c) ==
  /\ opc = "idle"
  /\ command' = c
  /\ opc' = "poll"
  /\ polls' = 0
  /\ next' = passed[c.group] + 1
  /\ UNCHANGED <<topic, consumer, letters, passed, printed, killed, lagged>>

List ==
  /\ \E g \in Groups \ {Fresh} : Start([name |-> "dlq-list", group |-> g, record |-> None])
  /\ UNCHANGED faults

Letters == {i \in DOMAIN letters : letters[i] # BadLetter}

Show ==
  /\ \E g \in Groups, i \in Letters :
       Start([name |-> "dlq-show", group |-> g, record |-> Id(letters[i])])
  /\ UNCHANGED faults

\* The event that its match needs next.
IsNext(e) ==
  /\ current[e.match_id] # None
  /\ e.sequence = current[e.match_id].latest_sequence + 1

\* The operator waits until there is no lag and replays what comes next, with
\* a fresh group...
ReplayInOrder ==
  /\ Progress = Len(topic)
  /\ \E i \in Letters :
       /\ IsNext(letters[i].event)
       /\ Start([name |-> "dlq-replay", group |-> Fresh, record |-> Id(letters[i])])
  /\ UNCHANGED faults

\* ...or, by mistake, anything with any group.
Replay ==
  /\ \E g \in Groups, i \in Letters :
       Start([name |-> "dlq-replay", group |-> g, record |-> Id(letters[i])])
  /\ Fault

End == opc' = "idle" /\ command' = None /\ polls' = 0 /\ next' = 1

\* Deviation: one poll too many.
MayPollOnce == polls <= MaxPolls

MayPoll == polls < MaxPolls

\* poll times out: the group has not been joined in time, or there is no more.
PollNothing ==
  /\ opc = "poll" /\ MayPoll
  /\ IF next <= Len(letters) THEN Fault ELSE UNCHANGED faults
  /\ polls' = polls + 1
  /\ UNCHANGED <<topic, consumer, letters, passed, printed, killed, command, opc, next, lagged>>

\* Deviation: whatever the command, what was polled is committed.
CommittedByAll(c) == passed' = [passed EXCEPT ![c.group] = next]

\* Only dlq-list commits.
CommitLetter(c) ==
  passed' = IF c.name = "dlq-list" THEN [passed EXCEPT ![c.group] = next] ELSE passed

\* A letter arrives.  dlq-list commits it, and prints it after that.
PollLetter ==
  LET letter == letters[next]
  IN  /\ opc = "poll" /\ MayPoll
      /\ next <= Len(letters)
      /\ letter # BadLetter
      /\ polls' = polls + 1
      /\ next' = next + 1
      /\ CommitLetter(command)
      /\ opc' = IF command.name = "dlq-list" \/ Id(letter) = command.record
                THEN command.name
                ELSE "poll"
      /\ UNCHANGED <<topic, consumer, letters, printed, killed, command, lagged, faults>>

\* A message that is no dead letter raises.
PollBad ==
  /\ opc = "poll" /\ MayPoll
  /\ next <= Len(letters)
  /\ letters[next] = BadLetter
  /\ End
  /\ UNCHANGED <<topic, consumer, letters, passed, printed, killed, lagged, faults>>

PrintLetter ==
  /\ opc = "dlq-list"
  /\ printed' = [printed EXCEPT ![command.group] = @ \cup {next - 1}]
  /\ opc' = "poll"
  /\ UNCHANGED <<topic, consumer, letters, passed, killed, command, polls, next, lagged, faults>>

PrintOne ==
  /\ opc = "dlq-show"
  /\ End
  /\ UNCHANGED <<topic, consumer, letters, passed, printed, killed, lagged, faults>>

\* The original event goes to the target topic, the consumer's.
Republish ==
  /\ opc = "dlq-replay"
  /\ Len(topic) < MaxLog
  /\ topic' = Append(topic, letters[next - 1].event)
  /\ End
  /\ UNCHANGED <<consumer, letters, passed, printed, killed, lagged, faults>>

\* The producer raises; the event may arrive all the same.
RepublishFails ==
  /\ opc = "dlq-replay"
  /\ Fault
  /\ \/ UNCHANGED topic
     \/ Len(topic) < MaxLog /\ topic' = Append(topic, letters[next - 1].event)
  /\ End
  /\ UNCHANGED <<consumer, letters, passed, printed, killed, lagged>>

\* The polls are used up: dlq-list is done, the others raise "was not found".
GiveUp ==
  /\ opc = "poll" /\ ~MayPoll
  /\ End
  /\ UNCHANGED <<topic, consumer, letters, passed, printed, killed, lagged, faults>>

\* Killed, or ended by a poll or a commit that raises.
Kill ==
  /\ opc # "idle"
  /\ Fault
  /\ killed' = killed + (IF opc = "dlq-list" THEN 1 ELSE 0)
  /\ End
  /\ UNCHANGED <<topic, consumer, letters, passed, printed, lagged>>

-----------------------------------------------------------------------------
(***************************************************************************)
(* inspect_consumer_lag.                                                   *)
(***************************************************************************)
\* Deviation: the end offset is taken for that of the last record.
LagToLastRecord(c, beginning, end) ==
  LET progress == IF c = None THEN beginning ELSE c
  IN  IF end - 1 > progress THEN end - 1 - progress ELSE 0

LagFromOffsets(c, beginning, end) ==
  LET progress == IF c = None THEN beginning ELSE c
  IN  IF end > progress THEN end - progress ELSE 0

\* First the group's commit...
ReadCommitted ==
  /\ lagged = None
  /\ lagged' = [offset |-> committed]
  /\ UNCHANGED <<topic, consumer, letters, operator, faults>>

\* ...then the watermarks; and the lag is printed.
ReadWatermarks ==
  /\ lagged # None
  /\ lagged' = None
  /\ UNCHANGED <<topic, consumer, letters, operator, faults>>

-----------------------------------------------------------------------------
Consume == Settle \/ Commit

Command ==
  PollLetter \/ PollBad \/ PrintLetter \/ PrintOne \/ Republish \/ GiveUp

Next ==
  \/ Consume \/ Restart \/ Idle \/ Stranger
  \/ List \/ Show \/ ReplayInOrder \/ Replay
  \/ Command \/ PollNothing \/ RepublishFails \/ Kill
  \/ ReadCommitted \/ ReadWatermarks

Spec == Init /\ [][Next]_vars

(***************************************************************************)
(* The consumer runs, a command that was given is executed (its last polls *)
(* find nothing), and the operator does not forget the letter whose turn   *)
(* it is, though other commands may come first.                            *)
(***************************************************************************)
Fairness ==
  /\ WF_vars(Consume)
  /\ WF_vars(Command \/ (PollNothing /\ next > Len(letters)))
  /\ SF_vars(ReplayInOrder)

FairSpec == Spec /\ Fairness

-----------------------------------------------------------------------------
\* Types; and no command polls more often than it was told to.
TypeOK ==
  /\ topic \in Seq(CanonicalEvent)
  /\ committed \in 0 .. Len(topic) \cup {None}
  /\ settled \in BOOLEAN
  /\ current \in [Matches -> MatchState \cup {None}]
  /\ stored \subseteq Range(topic)
  /\ letters \in Seq([offset : Nat, event : CanonicalEvent] \cup {BadLetter})
  /\ passed \in [Groups -> 0 .. Len(letters)]
  /\ printed \in [Groups -> SUBSET DOMAIN letters]
  /\ opc \in {"idle", "poll", "dlq-list", "dlq-show", "dlq-replay"}
  /\ IF opc = "idle" THEN command = None ELSE command \in Commands
  /\ next \in 1 .. Len(letters) + 1
  /\ killed \in Nat
  /\ lagged \in [offset : Nat \cup {None}] \cup {None}
  /\ polls \in 0 .. MaxPolls
  /\ faults \in 0 .. MaxFaults

(***************************************************************************)
(* What the commands with one group pass over has been printed by dlq-list *)
(* (milestone-5.md: "dlq-list commits records it lists, while dlq-show and *)
(* dlq-replay do not commit the selected record"), except for one letter   *)
(* each time that a dlq-list dies between its commit and its print.        *)
(***************************************************************************)
PassedWasPrinted ==
  \A g \in Groups :
    LET inHand == IF opc = "dlq-list" /\ command.group = g THEN 1 ELSE 0
    IN  Cardinality((1 .. passed[g]) \ printed[g]) <= killed + inHand

(***************************************************************************)
(* The lag that the command prints is never less than what is still to be  *)
(* projected or quarantined at that moment, although it reads the commit   *)
(* and the end of the partition one after the other.  A lag of zero means  *)
(* that nothing is outstanding.                                            *)
(***************************************************************************)
Outstanding(o) ==
  /\ \A f \in stored : f.event_id # topic[o + 1].event_id
  /\ [offset |-> o, event |-> topic[o + 1]] \notin Range(letters)

LagCoversBacklog ==
  lagged # None =>
    LagFromOffsets(lagged.offset, 0, Len(topic)) >=
      Cardinality({o \in 0 .. Len(topic) - 1 : Outstanding(o)})

(***************************************************************************)
(* Events that overtook others are not lost: once the faults end, replaying *)
(* their letters in sequence order brings everything into the projection.  *)
(* Out of reach are the events before the first record, the baseline, a    *)
(* letter behind a message that is none, and one beyond --max-events.      *)
(***************************************************************************)
FromTheFirst == \A i \in DOMAIN topic : topic[i].sequence >= topic[1].sequence

OutOfReach ==
  \/ ~FromTheFirst
  \/ BadLetter \in Range(letters)
  \/ Len(letters) > MaxPolls

Recovery == <>[](Range(topic) \subseteq stored \/ OutOfReach)
=============================================================================
