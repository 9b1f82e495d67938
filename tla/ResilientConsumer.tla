-------------------------- MODULE ResilientConsumer --------------------------
(***************************************************************************)
(* The durable consumer of one topic partition: the resilient-project      *)
(* command (streaming/cli.py _resilient_project), which runs               *)
(* project_next_with_dlq (streaming/processing.py) in a loop, with its     *)
(* bounded retries (streaming/retry.py), its dead-letter producer          *)
(* (streaming/dlq_transport.py) and its broker client                      *)
(* (streaming/redpanda.py).                                                *)
(*                                                                         *)
(* Several consumers share the group.  A rebalance gives the partition to  *)
(* another one at the committed offset while the first is still busy with  *)
(* the record it has polled.  Any exception ends the process: only the     *)
(* with-blocks' close() run, and a new process starts later.  All records  *)
(* of a match have the same key, so one partition is the whole story of    *)
(* its matches.  The projector is the atomic projection that               *)
(* ProjectionStore implements.                                             *)
(***************************************************************************)
EXTENDS MatchTransition

CONSTANTS
  Consumers,    \* processes of the consumer group
  Events,       \* canonical events that producers publish
  Unstorable,   \* those whose processing raises something else than a rejection
  Garbage,      \* a message that deserialize_event refuses
  MaxAttempts,  \* RetryPolicy.max_attempts
  MaxLog,       \* bound: length of the partition
  MaxFaults     \* bound: crashes, outages and rebalances

ASSUME ConsumerAssumption ==
  /\ Events \subseteq CanonicalEvent
  /\ Unstorable \subseteq Events
  /\ Garbage \notin Events
  /\ None \notin Consumers \cup CanonicalEvent \cup MatchState \cup {Garbage}
  /\ MaxAttempts \in Nat \ {0}
  /\ MaxLog \in Nat
  /\ MaxFaults \in Nat

VARIABLES
  topic,      \* the partition: topic[o + 1] is the record at offset o
  committed,  \* the group's committed offset: the next record to deliver
  dlq,        \* delivered dead letters: [offset, event]; the id is a function of both
  current,    \* the durable state of every match      } the atomic
  stored,     \* the events durably applied            } projection
  answer,     \* how a consumer's last attempt ended   }
  assigned,   \* the consumer that has the partition, or None
  pc,         \* pc[c]: where project_next_with_dlq is
  position,   \* position[c]: the offset its broker client fetches next
  offset,     \* offset[c]: last_source_position.offset
  attempt,    \* attempt[c]: attempts made for the record, this one included
  queued,     \* queued[c]: dead letter left in the producer's queue, or None
  faults      \* faults so far

broker == <<topic, committed, dlq>>
store == <<current, stored>>
client == <<position, offset, attempt, queued>>
vars == <<broker, store, answer, assigned, pc, client, faults>>

Record(c) == topic[offset[c] + 1]

DeadLetter(c) == [offset |-> offset[c], event |-> Record(c)]

Durable == INSTANCE AtomicProjection
             WITH Sessions <- Consumers, log <- stored,
                  pending <- [c \in Consumers |->
                                IF pc[c] = "process" THEN Record(c) ELSE None]

Running == {"poll", "process", "decide", "publish", "commit"}

Init ==
  /\ topic = <<>>
  /\ committed = 0
  /\ dlq = {}
  /\ current = [m \in Matches |-> None]
  /\ stored = {}
  /\ answer = [c \in Consumers |-> "none"]
  /\ assigned = None
  /\ pc = [c \in Consumers |-> "down"]
  /\ position = [c \in Consumers |-> 0]
  /\ offset = [c \in Consumers |-> 0]
  /\ attempt = [c \in Consumers |-> 0]
  /\ queued = [c \in Consumers |-> None]
  /\ faults = 0

Goto(c, l) == pc' = [pc EXCEPT ![c] = l]

Fault == faults < MaxFaults /\ faults' = faults + 1

-----------------------------------------------------------------------------
(***************************************************************************)
(* Around the consumer.                                                    *)
(***************************************************************************)
\* Somebody appends a record: a replay, a replay run again, a dead letter
\* sent back, or a stranger's message.
Produce ==
  /\ Len(topic) < MaxLog
  /\ \E r \in Events \cup {Garbage} : topic' = Append(topic, r)
  /\ UNCHANGED <<committed, dlq, store, answer, assigned, pc, client, faults>>

\* The command is run (again).
Start(c) ==
  /\ pc[c] = "down"
  /\ Goto(c, "poll")
  /\ UNCHANGED <<broker, store, answer, assigned, client, faults>>

\* The group gives the partition to c, at the committed offset (earliest when
\* there is none).  Taking it from a live consumer is a fault.
Assign(c) ==
  /\ pc[c] \in Running
  /\ assigned # c
  /\ IF assigned = None THEN UNCHANGED faults ELSE Fault
  /\ assigned' = c
  /\ position' = [position EXCEPT ![c] = committed]
  /\ UNCHANGED <<broker, store, answer, pc, offset, attempt, queued>>

-----------------------------------------------------------------------------
(***************************************************************************)
(* project_next_with_dlq.                                                  *)
(***************************************************************************)
\* Deviation: the loop survives the exception.
CarryOn(c) == Goto(c, "poll")

\* The process leaves the loop with an exception and closes its clients.
Exit(c) == Goto(c, "closing")

\* poll: a record that is not a canonical event raises BrokerMessageError.
Poll(c) ==
  /\ pc[c] = "poll"
  /\ assigned = c
  /\ position[c] < Len(topic)
  /\ position' = [position EXCEPT ![c] = @ + 1]
  /\ IF topic[position[c] + 1] = Garbage
     THEN Exit(c) /\ UNCHANGED <<offset, attempt>>
     ELSE /\ Goto(c, "process")
          /\ offset' = [offset EXCEPT ![c] = position[c]]
          /\ attempt' = [attempt EXCEPT ![c] = 1]
  /\ UNCHANGED <<broker, store, answer, assigned, queued, faults>>

\* poll times out, or meets the end of the partition: None, and the loop goes on.
PollNothing(c) ==
  /\ pc[c] = "poll"
  /\ assigned # c \/ position[c] >= Len(topic)
  /\ UNCHANGED vars

(***************************************************************************)
(* No call for r can succeed: the database refuses its data (a sequence    *)
(* that is no BIGINT, a NUL in a text), the transition raises on its       *)
(* metadata (any JSON value passes the contract), or its identity is       *)
(* another match's.  Such errors are not told from transient ones.         *)
(***************************************************************************)
Hopeless(r) ==
  \/ r \in Unstorable
  \/ Durable!Known(r) /\ ~Durable!KnownToItsMatch(r)

\* One call of projector.process, which is atomic and answers.
Process(c) ==
  /\ pc[c] = "process"
  /\ Goto(c, "decide")
  /\ UNCHANGED <<broker, assigned, client>>
  /\ \/ /\ Record(c) \notin Unstorable
        /\ Durable!Apply(c)
        /\ IF answer'[c] = "applied" THEN UNCHANGED faults ELSE Fault
     \/ /\ Durable!Repeat(c) \/ Durable!Reject(c)
        /\ UNCHANGED faults
     \/ /\ Durable!FailCall(c)
        /\ IF Hopeless(Record(c)) THEN UNCHANGED faults ELSE Fault

\* attempt_processing: the class of the last failure decides.
Succeed(c) ==
  /\ answer[c] \in {"applied", "duplicate"}
  /\ Goto(c, "commit")
  /\ UNCHANGED attempt

\* Deviation: one attempt too many.
RetryOnceMore(c) ==
  /\ answer[c] \in {"poison", "storage_error"}
  /\ attempt[c] <= MaxAttempts
  /\ attempt' = [attempt EXCEPT ![c] = @ + 1]
  /\ Goto(c, "process")

\* Deviation: the attempts are not counted.
RetryForEver(c) ==
  /\ answer[c] \in {"poison", "storage_error"}
  /\ Goto(c, "process")
  /\ UNCHANGED attempt

Retry(c) ==
  /\ answer[c] \in {"poison", "storage_error"}
  /\ attempt[c] < MaxAttempts
  /\ attempt' = [attempt EXCEPT ![c] = @ + 1]
  /\ Goto(c, "process")

\* Deviation: an exhausted retry is quarantined whatever its class.
QuarantineAll(c) ==
  /\ answer[c] \in {"poison", "storage_error"}
  /\ attempt[c] = MaxAttempts
  /\ Goto(c, "publish")
  /\ UNCHANGED attempt

GiveUp(c) ==
  /\ answer[c] \in {"poison", "storage_error"}
  /\ attempt[c] = MaxAttempts
  /\ IF answer[c] = "poison" THEN Goto(c, "publish") ELSE Exit(c)
  /\ UNCHANGED attempt

Decide(c) ==
  /\ pc[c] = "decide"
  /\ Succeed(c) \/ Retry(c) \/ GiveUp(c)
  /\ answer' = [answer EXCEPT ![c] = "none"]
  /\ UNCHANGED <<broker, store, assigned, position, offset, queued, faults>>

\* The dead letter is delivered and confirmed within the timeout.
Publish(c) ==
  /\ pc[c] = "publish"
  /\ dlq' = dlq \cup {DeadLetter(c)}
  /\ Goto(c, "commit")
  /\ UNCHANGED <<topic, committed, store, answer, assigned, client, faults>>

\* Deviation: the failure is swallowed and the offset committed.
PublishFailureIgnored(c) ==
  /\ pc[c] = "publish"
  /\ Fault
  /\ \E left \in {None, DeadLetter(c)} : queued' = [queued EXCEPT ![c] = left]
  /\ Goto(c, "commit")
  /\ UNCHANGED <<broker, store, answer, assigned, position, offset, attempt>>

\* It is refused, or the timeout passes with the record still in the queue.
PublishFails(c) ==
  /\ pc[c] = "publish"
  /\ Fault
  /\ \E left \in {None, DeadLetter(c)} : queued' = [queued EXCEPT ![c] = left]
  /\ Exit(c)
  /\ UNCHANGED <<broker, store, answer, assigned, position, offset, attempt>>

\* consumer.commit: the broker takes it from any member of the group.
Commit(c) ==
  /\ pc[c] = "commit"
  /\ committed' = offset[c] + 1
  /\ Goto(c, "poll")
  /\ UNCHANGED <<topic, dlq, store, answer, assigned, client, faults>>

\* The commit raises; the broker may have stored the offset all the same.  A
\* consumer that has lost the partition may also be refused.
CommitFails(c) ==
  /\ pc[c] = "commit"
  /\ IF assigned = c THEN Fault ELSE UNCHANGED faults
  /\ committed' \in {committed, offset[c] + 1}
  /\ Exit(c)
  /\ UNCHANGED <<topic, dlq, store, answer, assigned, client>>

-----------------------------------------------------------------------------
(***************************************************************************)
(* The end of a process.                                                   *)
(***************************************************************************)
\* What the process held is gone; its dead letter may have left in time.
Gone(c) ==
  /\ Goto(c, "down")
  /\ assigned' = IF assigned = c THEN None ELSE assigned
  /\ dlq' \in {dlq, dlq \cup ({queued[c]} \ {None})}
  /\ queued' = [queued EXCEPT ![c] = None]
  /\ position' = [position EXCEPT ![c] = 0]
  /\ offset' = [offset EXCEPT ![c] = 0]
  /\ attempt' = [attempt EXCEPT ![c] = 0]
  /\ answer' = [answer EXCEPT ![c] = "none"]

\* RedpandaDeadLetterProducer.close flushes, RedpandaEventConsumer.close leaves.
Close(c) ==
  /\ pc[c] = "closing"
  /\ Gone(c)
  /\ UNCHANGED <<topic, committed, store, faults>>

\* Killed, stopped after --max-events, or ended by a poll that raises.
Crash(c) ==
  /\ pc[c] # "down"
  /\ Fault
  /\ Gone(c)
  /\ UNCHANGED <<topic, committed, store>>

Work(c) ==
  \/ Poll(c) \/ Process(c) \/ Decide(c) \/ Publish(c) \/ Commit(c) \/ Close(c)

Next ==
  \/ Produce
  \/ \E c \in Consumers :
       \/ Start(c) \/ Assign(c) \/ Work(c) \/ PollNothing(c)
       \/ PublishFails(c) \/ CommitFails(c) \/ Crash(c)

Spec == Init /\ [][Next]_vars

(***************************************************************************)
(* A running process executes its loop; a process that ended is started    *)
(* again; the group gives a free partition to a member; and faults, being  *)
(* bounded, come to an end.                                                *)
(***************************************************************************)
Fairness ==
  /\ \A c \in Consumers : WF_vars(Start(c)) /\ WF_vars(Work(c))
  /\ WF_vars(\E c \in Consumers : assigned = None /\ Assign(c))

FairSpec == Spec /\ Fairness

-----------------------------------------------------------------------------
(***************************************************************************)
(* What is true of every state.                                            *)
(***************************************************************************)
\* Types of the broker's, the store's and the processes' variables.
TypeOK ==
  /\ topic \in Seq(Events \cup {Garbage})
  /\ committed \in 0 .. Len(topic)
  /\ dlq \subseteq [offset : Nat, event : Events]
  /\ current \in [Matches -> MatchState \cup {None}]
  /\ stored \subseteq Events
  /\ answer \in [Consumers -> Durable!Answers]
  /\ assigned \in Consumers \cup {None}
  /\ pc \in [Consumers -> Running \cup {"closing", "down"}]
  /\ position \in [Consumers -> Nat]
  /\ offset \in [Consumers -> Nat]
  /\ attempt \in [Consumers -> 0 .. MaxAttempts]
  /\ queued \in [Consumers -> [offset : Nat, event : Events] \cup {None}]
  /\ faults \in 0 .. MaxFaults

\* The record at offset o has had its outcome: its event is in the durable
\* projection, or it has a dead letter of its own.
Settled(o) ==
  LET r == topic[o + 1]
  IN  /\ r # Garbage
      /\ \/ Durable!KnownToItsMatch(r)
         \/ [offset |-> o, event |-> r] \in dlq

(***************************************************************************)
(* No record is lost: every offset the group has committed past was first  *)
(* projected durably or delivered to the dead-letter topic, whatever was   *)
(* retried, killed, reassigned or committed twice (processing.py: "the     *)
(* source offset is committed only after a normal durable update or a      *)
(* confirmed dead-letter publication").                                    *)
(***************************************************************************)
NoLoss == \A o \in 0 .. committed - 1 : Settled(o)

(***************************************************************************)
(* The client of the consumer that has the partition fetches in order: of  *)
(* all the records before its position, only the one it has in hand may    *)
(* still be open.  A loop that survived an exception would break this.     *)
(***************************************************************************)
NothingSkipped ==
  \A c \in Consumers : assigned = c /\ pc[c] \in Running =>
    \A o \in 0 .. position[c] - 1 :
      Settled(o) \/ (pc[c] # "poll" /\ o = offset[c])

(***************************************************************************)
(* A topic in order: every record is an event, and the first time an event *)
(* of a match is published it follows the last new one of the match in     *)
(* sequence and on the clock.  Repetitions may occur anywhere.             *)
(***************************************************************************)
Follows(e, f) ==
  /\ f.sequence = e.sequence + 1
  /\ f.period > e.period \/ (f.period = e.period /\ f.clock >= e.clock)

InTurn(e, before) ==
  /\ e # Garbage
  /\ IsGoal(e) => e.team # None
  /\ \/ e \in before
     \/ /\ \A f \in before : f.event_id # e.event_id
        /\ LET own == {f \in before : f.match_id = e.match_id}
           IN  own = {} \/ \E f \in own :
                 Follows(f, e) /\ \A g \in own : g.sequence <= f.sequence

Before(i) == {topic[j] : j \in 1 .. i - 1}

InOrder == \A i \in DOMAIN topic : InTurn(topic[i], Before(i))

(***************************************************************************)
(* Of a topic in order nothing is ever quarantined: no crash, redelivery,  *)
(* rebalance, lost answer or repeated publication makes the projection     *)
(* reject a good event for good.                                           *)
(***************************************************************************)
InOrderNeverQuarantined == InOrder => dlq = {}

(***************************************************************************)
(* Every record before the first one that stops the partition is settled   *)
(* in the end.  A message that is not an event stops it, an event that     *)
(* cannot be stored, and so may an identity that two matches use (see the  *)
(* README).                                                                *)
(***************************************************************************)
Clashes(r) ==
  \E i \in DOMAIN topic :
    /\ topic[i] # Garbage
    /\ topic[i].event_id = r.event_id
    /\ topic[i].match_id # r.match_id

Stopper(r) == r = Garbage \/ r \in Unstorable \/ Clashes(r)

Passable(o) == \A i \in 1 .. o + 1 : ~Stopper(topic[i])

EveryRecordSettles ==
  \A o \in 0 .. MaxLog - 1 :
    o < Len(topic) ~> o < Len(topic) /\ (Settled(o) \/ ~Passable(o))
=============================================================================
