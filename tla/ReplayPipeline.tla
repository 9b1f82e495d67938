---------------------------- MODULE ReplayPipeline ----------------------------
(***************************************************************************)
(* The commands of streaming/cli.py around the events topic, from the file *)
(* to the pages of the history:                                            *)
(*                                                                         *)
(*   produce          load the file, replay it, publish every event        *)
(*                    (_produce, streaming/replay.py, redpanda.py)         *)
(*   consume          print the events, each identity once per process     *)
(*   project          project them in the process's memory                 *)
(*   durable-project  project them in the database                         *)
(*   the read API     page through the history of a match (api/app.py)     *)
(*                                                                         *)
(* The last two of the three consuming commands run project_next           *)
(* (streaming/processing.py): no retries and no dead letters.  Any         *)
(* exception ends a process, and the command is started again later.       *)
(* Members of a group may be running while the partition moves between     *)
(* them.  The durable projection is the atomic one that ProjectionStore    *)
(* implements.                                                             *)
(***************************************************************************)
EXTENDS StatsBombIngestion, WireContract

CONSTANTS
  Files,      \* what the file may hold: [match, array of raw events]
  Strange,    \* messages that others may publish
  Commands,   \* the consuming commands under study
  Producers,  \* processes of the produce command
  Members,    \* processes of the consumer group, all of one command
  PageLimit,  \* the page size a client of the read API asks for
  MaxLog,     \* bound: length of the partition
  MaxFaults   \* bound: failures, rebalances, repeated runs, strange messages

ASSUME PipelineAssumption ==
  /\ \A f \in Files : f.match \in Matches /\ f.array \in Seq(RawEvent)
  /\ Commands \subseteq {"consume", "project", "durable-project"}
  /\ None \notin Members \cup CanonicalEvent \cup MatchState
  /\ PageLimit \in Nat \ {0}
  /\ MaxLog \in Nat
  /\ MaxFaults \in Nat

VARIABLES
  file,       \* the file; nobody changes it
  events,     \* what the replayer made of it; empty before it was loaded
  command,    \* the command that the members run
  ppc,        \* ppc[p]: where the produce command is
  sent,       \* sent[p]: events it has published
  inFlight,   \* inFlight[p]: message left in its producer's queue, or None
  topic,      \* the partition: topic[o + 1] is the message at offset o
  committed,  \* the group's committed offset
  assigned,   \* the member that has the partition, or None
  pc,         \* pc[c]: where the member's loop is
  position,   \* position[c]: the offset its client fetches next
  answer,     \* answer[c]: how the handling of the record in hand ended
  seen,       \* seen[c]: the identities in its deduplicator
  states,     \* states[c][m]: its in-memory projection of match m, or None
  current,    \* the durable state of every match
  stored,     \* the events durably applied
  handled,    \* history: offsets that a member has handled without an exception
  rpc,        \* where the client of the read API is
  received,   \* the events on the pages it has got
  faults      \* failures so far

producer == <<ppc, sent, inFlight>>
memory == <<seen, states>>
store == <<current, stored>>
reader == <<rpc, received>>
member == <<pc, position, answer, memory>>
group == <<committed, assigned, handled>>
input == <<file, command>>
vars == <<input, events, producer, topic, group, member, store, reader, faults>>

\* The record that c has in hand, decoded.
Record(c) == DeserializeEvent(topic[position[c]])

Durable == INSTANCE AtomicProjection
             WITH Sessions <- Members, Events <- CanonicalEvent, log <- stored,
                  pending <- [c \in Members |->
                                IF pc[c] = "process" THEN Record(c) ELSE None]

NoStates == [m \in Matches |-> None]

Init ==
  /\ file \in Files
  /\ command \in Commands
  /\ events = <<>>
  /\ ppc = [p \in Producers |-> "down"]
  /\ sent = [p \in Producers |-> 0]
  /\ inFlight = [p \in Producers |-> None]
  /\ topic = <<>>
  /\ committed = 0
  /\ assigned = None
  /\ pc = [c \in Members |-> "down"]
  /\ position = [c \in Members |-> 0]
  /\ answer = [c \in Members |-> "none"]
  /\ seen = [c \in Members |-> {}]
  /\ states = [c \in Members |-> NoStates]
  /\ current = NoStates
  /\ stored = {}
  /\ handled = {}
  /\ rpc = "match"
  /\ received = <<>>
  /\ faults = 0

Fault == faults < MaxFaults /\ faults' = faults + 1

-----------------------------------------------------------------------------
(***************************************************************************)
(* produce.                                                                *)
(***************************************************************************)
PGoto(p, l) == ppc' = [ppc EXCEPT ![p] = l]

\* The command is run (again).  A file that is refused publishes nothing.
\* Running it beside another run, or after one that did its work, is a fault.
Load(p) ==
  LET loaded == ConvertEvents(file.array, file.match)
  IN  /\ ppc[p] \in {"down", "done"}
      /\ IF \A q \in Producers : ppc[q] \in {"down", "refused"}
         THEN UNCHANGED faults
         ELSE Fault
      /\ IF loaded = None
         THEN PGoto(p, "refused") /\ UNCHANGED <<events, sent>>
         ELSE /\ PGoto(p, "publishing")
              /\ events' = Replay(loaded)
              /\ sent' = [sent EXCEPT ![p] = 0]
      /\ UNCHANGED <<input, inFlight, topic, group, member, store, reader>>

NextMessage(p) == SerializeEvent(events[sent[p] + 1])

\* publish: the message is delivered and confirmed within the timeout.
Publish(p) ==
  /\ ppc[p] = "publishing"
  /\ sent[p] < Len(events)
  /\ Len(topic) < MaxLog
  /\ topic' = Append(topic, NextMessage(p))
  /\ sent' = [sent EXCEPT ![p] = @ + 1]
  /\ UNCHANGED <<input, events, ppc, inFlight, group, member, store, reader, faults>>

\* Deviation: a failed publication is skipped.
PublishFailureSkipped(p) ==
  /\ ppc[p] = "publishing"
  /\ sent[p] < Len(events)
  /\ Fault
  /\ sent' = [sent EXCEPT ![p] = @ + 1]
  /\ \E left \in {None, NextMessage(p)} : inFlight' = [inFlight EXCEPT ![p] = left]
  /\ UNCHANGED <<input, events, ppc, topic, group, member, store, reader>>

\* publish raises: refused, or still in the queue when the timeout passes.
PublishFails(p) ==
  /\ ppc[p] = "publishing"
  /\ sent[p] < Len(events)
  /\ Fault
  /\ PGoto(p, "closing")
  /\ \E left \in {None, NextMessage(p)} : inFlight' = [inFlight EXCEPT ![p] = left]
  /\ UNCHANGED <<input, events, sent, topic, group, member, store, reader>>

\* close flushes once more: what is in the queue may still arrive.
PClose(p) ==
  /\ \/ ppc[p] = "publishing" /\ sent[p] = Len(events) /\ PGoto(p, "done")
     \/ ppc[p] = "closing" /\ PGoto(p, "down")
  /\ \/ UNCHANGED topic
     \/ /\ inFlight[p] # None /\ Len(topic) < MaxLog
        /\ topic' = Append(topic, inFlight[p])
  /\ inFlight' = [inFlight EXCEPT ![p] = None]
  /\ UNCHANGED <<input, events, sent, group, member, store, reader, faults>>

PCrash(p) ==
  /\ ppc[p] \in {"publishing", "closing"}
  /\ Fault
  /\ PGoto(p, "down")
  /\ inFlight' = [inFlight EXCEPT ![p] = None]
  /\ UNCHANGED <<input, events, sent, topic, group, member, store, reader>>

\* Somebody else has access to the topic.
Stranger ==
  /\ Len(topic) < MaxLog
  /\ Fault
  /\ \E message \in Strange : topic' = Append(topic, message)
  /\ UNCHANGED <<input, events, producer, group, member, store, reader>>

-----------------------------------------------------------------------------
(***************************************************************************)
(* The consuming commands.                                                 *)
(***************************************************************************)
Goto(c, l) == pc' = [pc EXCEPT ![c] = l]

\* The command is run (again): a new process, with nothing in its memory.
Start(c) ==
  /\ pc[c] = "down"
  /\ Goto(c, "poll")
  /\ UNCHANGED <<input, events, producer, topic, group, position, answer, memory,
                 store, reader, faults>>

\* In its poll, c takes up the partition that the group gives it, at the
\* committed offset.  Taking it from another running member is a fault.
Assign(c) ==
  /\ pc[c] = "poll"
  /\ assigned # c
  /\ IF assigned = None THEN UNCHANGED faults ELSE Fault
  /\ assigned' = c
  /\ position' = [position EXCEPT ![c] = committed]
  /\ UNCHANGED <<input, events, producer, topic, committed, handled, pc, answer,
                 memory, store, reader>>

\* Deviation: the loop survives an exception.
CarryOn(c) == Goto(c, "poll")

\* The loop is left with an exception.
Exit(c) == Goto(c, "closing")

\* A message that is not a canonical event raises BrokerMessageError.
Poll(c) ==
  /\ pc[c] = "poll"
  /\ assigned = c
  /\ position[c] < Len(topic)
  /\ position' = [position EXCEPT ![c] = @ + 1]
  /\ IF DeserializeEvent(topic[position[c] + 1]) = None
     THEN Exit(c)
     ELSE Goto(c, "process")
  /\ UNCHANGED <<input, events, producer, topic, group, answer, memory, store,
                 reader, faults>>

\* The timeout passes, or the partition has no more.
PollNothing(c) ==
  /\ pc[c] = "poll"
  /\ assigned # c \/ position[c] >= Len(topic)
  /\ UNCHANGED vars

\* consume: EventDeduplicator.accept, and a line is printed either way.
PrintOnce(c) ==
  LET id == Record(c).event_id
  IN  /\ answer' = [answer EXCEPT ![c] = IF id \in seen[c] THEN "duplicate" ELSE "applied"]
      /\ seen' = [seen EXCEPT ![c] = @ \cup {id}]
      /\ UNCHANGED <<states, store, faults>>

\* project: MatchProjector.process.  The identity is recorded last.
ProjectInMemory(c) ==
  LET e == Record(c)
      previous == Durable!StateOrInitial(states[c][e.match_id], e.match_id)
  IN  /\ IF e.event_id \in seen[c]
         THEN /\ answer' = [answer EXCEPT ![c] =
                              IF states[c][e.match_id] = None THEN "error" ELSE "duplicate"]
              /\ UNCHANGED memory
         ELSE IF Accepts(previous, e)
         THEN /\ answer' = [answer EXCEPT ![c] = "applied"]
              /\ states' = [states EXCEPT ![c][e.match_id] = ApplyEvent(previous, e)]
              /\ seen' = [seen EXCEPT ![c] = @ \cup {e.event_id}]
         ELSE /\ answer' = [answer EXCEPT ![c] = "poison"]
              /\ UNCHANGED memory
      /\ UNCHANGED <<store, faults>>

\* Deviation: a known event reaches the transition, which refuses it.
KnownIsRefused(c) ==
  /\ UNCHANGED <<memory, faults>>
  /\ \/ Durable!Apply(c) \/ Durable!Reject(c)
     \/ /\ Durable!Known(Record(c))
        /\ Durable!Answer(c, "poison")
        /\ UNCHANGED store

\* durable-project: the projector is the repository.
ProjectDurably(c) ==
  /\ UNCHANGED memory
  /\ \/ /\ Durable!Apply(c)
        /\ IF answer'[c] = "applied" THEN UNCHANGED faults ELSE Fault
     \/ /\ Durable!Repeat(c) \/ Durable!Reject(c)
        /\ UNCHANGED faults
     \/ /\ Durable!FailCall(c)
        /\ IF Durable!Known(Record(c)) /\ ~Durable!KnownToItsMatch(Record(c))
           THEN UNCHANGED faults
           ELSE Fault

Handle(c) ==
  CASE command = "consume"         -> PrintOnce(c)
    [] command = "project"         -> ProjectInMemory(c)
    [] command = "durable-project" -> ProjectDurably(c)

\* project_next, or the body of consume: the record is committed only after this.
Process(c) ==
  /\ pc[c] = "process"
  /\ UNCHANGED <<input, events, producer, topic, committed, assigned, position, reader>>
  /\ \/ /\ Goto(c, "commit")
        /\ Handle(c)
        /\ answer'[c] \in {"applied", "duplicate"}
        /\ handled' = handled \cup {position[c] - 1}
     \/ /\ Exit(c)
        /\ Handle(c)
        /\ answer'[c] \notin {"applied", "duplicate"}
        /\ UNCHANGED handled

Commit(c) ==
  /\ pc[c] = "commit"
  /\ committed' = position[c]
  /\ Goto(c, "poll")
  /\ answer' = [answer EXCEPT ![c] = "none"]
  /\ UNCHANGED <<input, events, producer, topic, assigned, handled, position, memory,
                 store, reader, faults>>

\* The commit raises, and may have been stored all the same.
CommitFails(c) ==
  /\ pc[c] = "commit"
  /\ IF assigned = c THEN Fault ELSE UNCHANGED faults
  /\ committed' \in {committed, position[c]}
  /\ Exit(c)
  /\ UNCHANGED <<input, events, producer, topic, assigned, handled, position, answer,
                 memory, store, reader>>

\* The end of a process: its memory is gone, the partition free.
Gone(c) ==
  /\ Goto(c, "down")
  /\ assigned' = IF assigned = c THEN None ELSE assigned
  /\ position' = [position EXCEPT ![c] = 0]
  /\ answer' = [answer EXCEPT ![c] = "none"]
  /\ seen' = [seen EXCEPT ![c] = {}]
  /\ states' = [states EXCEPT ![c] = NoStates]
  /\ UNCHANGED <<input, events, producer, topic, committed, handled, store, reader>>

Close(c) ==
  /\ pc[c] = "closing"
  /\ Gone(c)
  /\ UNCHANGED faults

\* Killed, or stopped after --max-events.
Crash(c) ==
  /\ pc[c] # "down"
  /\ Fault
  /\ Gone(c)

-----------------------------------------------------------------------------
(***************************************************************************)
(* The read API: a client follows the cursor of the match's history.       *)
(***************************************************************************)
Match == file.match

LastReceived == IF received = <<>> THEN None ELSE Last(received).sequence

\* Deviation: the cursor's event is on the next page too.
FromCursor(e, cursor) == cursor = None \/ e.sequence >= cursor

AfterCursor(e, cursor) == cursor = None \/ e.sequence > cursor

BySequence(E) == {p \in E \X E : p[1].sequence < p[2].sequence}

\* ORDER BY sequence
InOrder(E) == Sorted(E, BySequence(E))

History(m) == InOrder({e \in stored : e.match_id = m})

\* list_match_events: stored as messages of the contract and read back.
Page(m, cursor) ==
  LET rows == InOrder({e \in stored : e.match_id = m /\ AfterCursor(e, cursor)})
      page == SubSeq(rows, 1, IF Len(rows) < PageLimit THEN Len(rows) ELSE PageLimit)
  IN  [i \in DOMAIN page |-> DeserializeEvent(SerializeEvent(page[i]))]

\* No next_after_sequence.
IsLast(page) == Len(page) < PageLimit

\* _get_match_or_404: without a state the client asks again later.
FindMatch ==
  /\ rpc = "match"
  /\ current[Match] # None
  /\ rpc' = "events"
  /\ UNCHANGED <<input, events, producer, topic, group, member, store, received, faults>>

ReadPage ==
  LET page == Page(Match, LastReceived)
  IN  /\ rpc = "events"
      /\ received' = received \o page
      /\ rpc' = IF IsLast(page) THEN "end" ELSE "match"
      /\ UNCHANGED <<input, events, producer, topic, group, member, store, faults>>

-----------------------------------------------------------------------------
Produce(p) == Load(p) \/ Publish(p) \/ PClose(p)

Work(c) == Poll(c) \/ Process(c) \/ Commit(c) \/ Close(c)

Next ==
  \/ \E p \in Producers : Produce(p) \/ PublishFails(p) \/ PCrash(p)
  \/ Stranger
  \/ \E c \in Members :
       Start(c) \/ Assign(c) \/ Work(c) \/ PollNothing(c) \/ CommitFails(c) \/ Crash(c)
  \/ FindMatch
  \/ ReadPage

Spec == Init /\ [][Next]_vars

-----------------------------------------------------------------------------
(***************************************************************************)
(* Loading.                                                                *)
(***************************************************************************)
Arrangements(array) ==
  LET places == DOMAIN array
  IN  {[i \in places |-> array[f[i]]] : f \in Bijection(places, places)}

(***************************************************************************)
(* The replay of a file, and whether it is refused, does not depend on the *)
(* order of its array (statsbomb.py: "stable chronological order").        *)
(***************************************************************************)
OrderIndependent ==
  [][\A p \in Producers : ppc[p] \in {"down", "done"} /\ ppc'[p] # ppc[p] =>
       \A array \in Arrangements(file.array) :
         ConvertEvents(array, file.match) =
           IF ppc'[p] = "refused" THEN None ELSE events']_vars

\* What ingestion does not look at: one identity per event, a team for a goal.
Sound(replay) ==
  /\ \A i, j \in DOMAIN replay : replay[i].event_id = replay[j].event_id => i = j
  /\ \A i \in DOMAIN replay : IsGoal(replay[i]) => replay[i].team # None

Fold(replay) == FoldLeft(RebuildStep, InitialState(Match), replay)

(***************************************************************************)
(* A file that ingestion takes is one that a projection takes: the checks  *)
(* of statsbomb.py on the whole file imply those of transition.py on every *)
(* event in its turn.                                                      *)
(***************************************************************************)
LoadedFileApplies ==
  [][events = <<>> /\ events' # <<>> /\ Sound(events') => Fold(events') # None]_vars

-----------------------------------------------------------------------------
(***************************************************************************)
(* What is true of every state.                                            *)
(***************************************************************************)
\* Types; and only a producer that is about to close has a message in its queue.
TypeOK ==
  /\ events \in Seq(CanonicalEvent)
  /\ ppc \in [Producers -> {"down", "publishing", "closing", "done", "refused"}]
  /\ \A p \in Producers : inFlight[p] # None => ppc[p] = "closing"
  /\ committed \in 0 .. Len(topic)
  /\ assigned \in Members \cup {None}
  /\ pc \in [Members -> {"down", "poll", "process", "commit", "closing"}]
  /\ position \in [Members -> 0 .. Len(topic)]
  /\ seen \in [Members -> SUBSET EventIds]
  /\ states \in [Members -> [Matches -> MatchState \cup {None}]]
  /\ current \in [Matches -> MatchState \cup {None}]
  /\ stored \subseteq CanonicalEvent
  /\ received \in Seq(CanonicalEvent)
  /\ faults \in 0 .. MaxFaults

Foreign(i) == topic[i] \in Strange

(***************************************************************************)
(* Whatever failed, was killed or ran twice or concurrently, the messages  *)
(* of the produce command decode to the events of the replay, and before   *)
(* an event come all that precede it (redpanda.py: publish returns only    *)
(* after a confirmed delivery, and raises otherwise).                      *)
(***************************************************************************)
TopicInOrder ==
  LET decoded == [i \in DOMAIN topic |-> DeserializeEvent(topic[i])]
  IN  \A i \in DOMAIN topic : ~Foreign(i) =>
        \E k \in DOMAIN events :
          /\ decoded[i] = events[k]
          /\ \A l \in 1 .. k - 1 : \E j \in 1 .. i - 1 : decoded[j] = events[l]

(***************************************************************************)
(* No command passes over a record: an offset is committed only after a    *)
(* process has printed or projected the record, in its memory or durably   *)
(* (processing.py: "Project one event, then commit only if projection      *)
(* succeeded").                                                            *)
(***************************************************************************)
CommittedWasHandled == 0 .. committed - 1 \subseteq handled

(***************************************************************************)
(* The memory of a project process is that of one unbroken stretch of the  *)
(* replay.  It need not begin at the kick-off: after a restart, or when    *)
(* the partition arrives from another member, the first record it gets is  *)
(* its baseline.  It never spans a hole, though: a process that is given   *)
(* the partition back behind its memory stops instead.                     *)
(***************************************************************************)
MemoryIsWindow ==
  \A c \in Members, m \in Matches : states[c][m] # None =>
    \E i, j \in DOMAIN events : i <= j /\ states[c][m] = Fold(SubSeq(events, i, j))

(***************************************************************************)
(* The durable projection is that of a beginning of the replay, however    *)
(* often and by how many producers it was published, and with messages     *)
(* between that others published.                                          *)
(***************************************************************************)
StoreIsReplayPrefix ==
  stored # {} =>
    \E k \in DOMAIN events :
      /\ stored = {events[i] : i \in 1 .. k}
      /\ current[Match] = Fold(SubSeq(events, 1, k))

(***************************************************************************)
(* The pages that a client has got are a beginning of the history, without *)
(* a repetition or a hole, although events are stored between the pages;   *)
(* and they are all of it when the page without a next cursor arrives.     *)
(***************************************************************************)
PagesAreHistory ==
  [][<<stored, rpc>>' # <<stored, rpc>> =>
       /\ IsPrefix(received', History(Match)')
       /\ rpc' = "end" /\ rpc # "end" => received' = History(Match)]_vars

(***************************************************************************)
(* durable-project never refuses an event of a sound replay: after any     *)
(* crash, lost answer, rebalance or repetition, and whatever it could not  *)
(* read, the events it is given still follow what is stored, or repeat it. *)
(* Otherwise the partition would stop at that record for good, since       *)
(* project_next neither skips nor quarantines.                             *)
(***************************************************************************)
SoundReplayNeverRefused ==
  (\E c \in Members : answer[c] = "poison") /\ command = "durable-project" =>
    ~Sound(events)
=============================================================================
