# MatchStream: specifications

TLA+ specifications of MatchStream, checked with TLC on small instances; what they say
about safety is proved with TLAPS for every instance.
Paths below are relative to the repository root.

## 1. The system

MatchStream replays football events into a Kafka-compatible topic, projects them
into one durable state per match, and shows the states live.

    StatsBomb file -> ingestion -> replayer -> producer -> topic (key = match id)
                                                             |
             +-----------------------------------------------+
             v
    consumer group: poll -> project (bounded retries) -> commit offset
             |                    |            \-> dead-letter topic (poison)
             |                    v
             |      PostgreSQL: match_states, processed_events, projection_events
             |                    |  NOTIFY (in the transaction)
             |                    v
             |      API: LISTEN thread -> dispatcher -> connection manager -> sockets
             |           HTTP: state, history pages, list of matches
             |                    v
             +--- replayed    dashboard session: snapshot, live updates, timeline
                  dead letters

| component | source | state it keeps | operations |
|---|---|---|---|
| Match transition | `src/matchstream/state/transition.py`, `models.py`, `rebuild.py`, `models/events.py` | none (pure) | `apply_event`, `rebuild_state` |
| Durable store | `storage/postgres.py`, `repository.py` | three tables, advisory locks, open transactions | `process_event`, `rebuild_match`, reads |
| Resilient consumer | `streaming/processing.py`, `retry.py`, `redpanda.py`, `dlq.py`, `dlq_transport.py` | client position, last message, attempts; committed offset and dead letters at the broker | `project_next_with_dlq`, `project_next` |
| Operator commands | `streaming/cli.py` | none of their own | loops over the consumer, dead-letter list/show/replay, rebuild, lag |
| In-memory projector | `state/projector.py`, `streaming/deduplication.py` | states and seen identities of one process | `process`, `accept` |
| Replay and ingestion | `replay/engine.py`, `streaming/replay.py`, `ingestion/statsbomb.py` | position in the replay | `replay`, `publish` |
| Live updates | `api/notifications.py`, `api/app.py`, `api/connections.py` | listener thread, registered sockets with ready/pending/last sequence | `notify`, `stream_match`, `broadcast` |
| HTTP reads | `api/app.py`, `api/schemas.py` | none | pages of matches and events |
| Dashboard session | `frontend/src/hooks/useMatchSession.ts` | state, timeline, socket, timers, requests in flight | messages, reconciliation, reconnection |
| Consumer lag | `streaming/lag.py` | none | `lag_from_offsets` |
| Event contract | `streaming/contract.py` | none (pure) | `serialize_event`, `deserialize_event` |
| Observability | `observability/*` | counters, logs, health, metrics server | not part of the pipeline's logic |

Interactions: the consumer calls the store synchronously (one transaction per
attempt); the store talks to the API only through `pg_notify` and committed rows;
the API and the dashboard share only messages and HTTP responses; the broker holds
what survives a consumer process.

What is hard about each part, and the property that catches it going wrong, is the
list `hazards` of `PROJECT.json`, at the source line where it bites.

## 2. Modules

| module | what it models |
|---|---|
| `MatchTransition` | the pure transition: `Accepts` (all checks, one verdict), `ApplyEvent`, `RebuildState` (sort by `event_order_key`, fold) |
| `AtomicProjection` | abstract specification of `process_event`: every call takes effect at one instant or not at all |
| `ProjectionStore` | `process_event` one SQL statement at a time, by concurrent sessions; refines `AtomicProjection` |
| `MatchRebuild` | `ProjectionStore` plus sessions running `rebuild_match` |
| `ResilientConsumer` | the loop of `resilient-project` by a consumer group over one partition; uses `AtomicProjection` as its projector |
| `StatsBombIngestion` | from a provider's file to a replay: conversion of an event, chronological order, refusal of a file with a gap |
| `WireContract` | the messages of the events topic: what is sent, and what is accepted and refused |
| `ReplayPipeline` | the `produce`, `consume`, `project` and `durable-project` commands around one partition, and a client paging through the history; composes the two modules above with `MatchTransition` and `AtomicProjection` |
| `DeadLetterOps` | `dlq-list`, `dlq-show`, `dlq-replay` and `lag` beside a running `resilient-project` |
| `LiveUpdates` | the API from the database's NOTIFY to the sockets: listener, dispatcher, connection manager, stream endpoints |
| `DashboardSession` | the browser's session of one selected match: requests, WebSocket, reconciliation, reconnection |
| `MC*` | the constants of the runs |
| `*_proofs` | theorems and their lemmas about the module of that name; `MatchTransition_proofs` holds the lemmas on sorting, folding and counting that several of them cite |

A definition introduced by a comment that starts with *Deviation* belongs to no
specification. It is what the next definition would be if the code had the named
bug; the runs' properties fail with it, which shows that they can.

### State and actions against the code

**ProjectionStore.** The tables are variables of the same names. A transaction's
writes stay in its session's variables (`inserted`, `next_state`) until `Commit`,
because READ COMMITTED hides them from everyone else. `Begin` is the entry of
`process_event`; `Lock`, `Reserve`, `Read` are its first three statements; `Verify`
is the branch of a known identity; `Transition` is the call of `apply_event`;
`Write` is the upsert, the history insert and `pg_notify`; `Commit` is the end of
the `with` block; `Fail` is a `psycopg.Error` anywhere. `Reserve` waits for another
open transaction that inserted the same identity, as a PostgreSQL unique index
does. `Commit` has two outcomes for the caller, since the connection may break
after the server committed. A client that lost its connection and calls again is
another session.
`Receive` stands for a listener that gets the notification and rereads the row.

**MatchRebuild.** `LockRebuild`, `ScanHistory`, `CommitRebuild` are the statements of
`rebuild_match`; it takes the same advisory lock.

**ResilientConsumer.** `topic`, `committed` and `dlq` are the broker's; `current` and
`stored` are the database's, changed only by actions of `AtomicProjection`; the rest
is the state of one process. `Poll` is `RedpandaEventConsumer.poll`; `Process` one
call of the projector; `Decide` the branch of `attempt_processing`; `Publish` and
`PublishFails` the dead-letter producer; `Commit` and `CommitFails` the offset
commit. Any exception leads to `closing` and `Close` (the `with` blocks), then the
process is `down`. `Crash` is a kill anywhere, also the regular stop after
`--max-events`, or a broker poll that raises. `Assign` is a rebalance: it may take
the partition from a member that is still busy, which later commits all the same
or is refused.

Two kinds of records stop a consumer for good, on purpose: `Garbage` and what is
`Hopeless`, an identity another match has used, or an `Unstorable` event. The last
are those whose processing raises something other than `MatchTransitionError` at
every attempt: the database refuses them (a sequence beyond BIGINT, a NUL character
in a text), or their metadata is not an object, which `deserialize_event` lets pass
and `is_goal` does not expect.

**StatsBombIngestion** and **WireContract** are operators only. A raw event says of
every field whether it is absent or null (`None`), of the wrong kind (`Invalid`) or
which value it has; `rest` stands for the fields no projection depends on. The
identity of a converted event is the pair of the match and the trimmed identifier,
so two spellings of one identifier collide as in the code. `ConvertEvents` is
`None` where the code raises `StatsBombIngestionError`. A message is an envelope
around a record of fields; `EventToWire` and `EventFromWire` are not each other's
inverse by definition; that one undoes the other is a lemma of the proofs
(`RoundTrip`), and `TopicInOrder` and `PagesAreHistory` would fail if it did not.

**ReplayPipeline.** `Load` is `load_events` with the construction of the replayer;
`Publish` one confirmed `publish`; `PublishFails` one that raises, with the message
possibly left in the client's queue; `PClose` the flush in `close`, which may still
deliver it; a topic is only appended to. `Poll`, `Process`, `Commit` are the steps of
`project_next` (of the loop of `_consume`); which projector `Handle` calls depends on
the command that the group's members run. `Assign` happens in a poll, as in the
client library; it may take the partition from a member that is busy, and give it
back to one whose memory is older than the group's offset. `Gone` is the end of a
process and of its memory. `FindMatch` and `ReadPage` are the two queries of
`list_match_events`, between which events are stored; `InOrder` is the second one's
`ORDER BY sequence`.

**DeadLetterOps.** `Settle` and `Commit` are `resilient-project` at the level that
`ResilientConsumer` is checked to provide; `Restart` is its redelivery. `Start` is a
command with its group, which begins at the group's committed offset; `PollLetter` is
a poll, with the commit that `dlq-list` makes *before* it prints; `PrintLetter`,
`PrintOne`, `Republish` are the three uses of a letter; `PollBad` a message that is no
dead letter, `GiveUp` the end of the `--max-events` polls, of which empty ones count,
too. `ReadCommitted` and `ReadWatermarks` are the two queries of
`inspect_consumer_lag`, beside which the group commits and producers append.

**LiveUpdates.** Everything but the listener thread runs in one asyncio loop, and the
repository's calls block that loop, so an action is what happens between two awaits
that may suspend: `Connect` registers the socket and reads the state, `SnapshotSent`
is the end of the snapshot's send with `mark_ready`, `Dispatch` is `notify` from
getting the dispatcher's lock to choosing the targets, `Deliver` and `SendFails` end
one send, and the last of them frees the lock. A state is its `latest_sequence`,
which `ProjectionStore` shows to advance by one (`OnlyForward`, `HistoryGapFree`).
`lost[m]` is a history variable: a notification of `m` got lost since the last read.
`Restart` is the end of the process; the notifier is not started twice in one.

**DashboardSession.** One handler per action. A request in flight is a record in a
bag, with the sequence that was stored when it was issued; its answer is any state
from then to now, which is how slow and reordered responses appear. `session`
numbers the effects, so `Active` is the flag `active` of the effect that issued the
request. The server's messages are those that `StreamOrder` allows; updates may be
skipped, or stop for good as after `SendFails`. React's batching is left out:
`eventsRef` is taken as set at once. `Window` is 50 in the code.
`lost` is a history variable: how many sockets this session has lost.

## 3. Runs

| run | question | instance |
|---|---|---|
| `store_rebuild` | do interleaved and failing transactions on one match lose, repeat or reorder anything, and may a rebuild run beside them? | 2 sessions, 1 rebuilder, 5 events of one match: two line-ups, goals, a rival for sequence 2 with an older clock, a rival for 3 that is a goal without a team |
| `store_identity` | is an identity used by two matches handled once, and truthfully, and can transactions block one another for ever? | 2 sessions, a match with 2 identities, each used by one more match: one under a key of its own, one under the same key |
| `consumer_loss` | is any record skipped or lost, and is a good topic ever quarantined? | 2 members, 3 events in any order and repetition, a rival the database refuses, garbage, partition of 3 records, 2 attempts, 3 faults |
| `consumer_live` | is everything settled in the end? | the same with 2 matches that share an identity, an event the database refuses, and 2 faults |
| `live_order` | does a socket ever get an old state, or miss a new one? | 2 sockets, 2 matches of 2 events, a rebuild, 2 faults |
| `live_current` | does a registered client get the stored state in the end? | 2 sockets, 1 match of 2 events, a rebuild, 1 fault |
| `live_counted` | does the gauge count every connected client? (violated) | 2 sockets, 1 match |
| `session_timeline` | is the timeline ever with a hole or incomplete, what can take the state back? | 5 events, a timeline of 2, 1 reconnection |
| `session_switch` | is anything of another match shown, is LIVE live, does a broken session recover? | 2 matches of 2 events, 2 selections, 1 reconnection |
| `session_stale` | are stale data always rejected? (violated) | 4 events, a timeline of 2 |
| `pipeline` | is what memory, database and pages hold always an unbroken stretch of the file, whatever fails, is killed or runs twice? | 5 files of 3 events (shuffled; one identity twice and a goal of nobody; indexes against the clock; a gap; an impossible time), 2 producers, 2 members of each consuming command, partition of 4, 2 faults, 2 strange messages, pages of 2 |
| `dead_letters` | does replaying the dead letters recover events that overtook others, and can the commands or the lag mislead the operator? | events published as 1, 3, 2, 4 and as 2, 1, 3; 2 groups; 4 polls; partitions of 8; 2 faults |

Bounds. Two sessions are enough for every conflict: the lock, the unique index and
the row are contended by pairs. Five events make every verdict of the transition
occur in a three-event match. `MaxLog` bounds the
partition, `MaxFaults` the crashes, rebalances, lost answers and failed
publications; three faults allow a rebalance away from a busy member, a crash of
the second one and a lost answer in one behaviour. `MaxAttempts = 2` has a first, a
retried and a last attempt. Sessions, consumers, sockets and the matches of `live_order`
are symmetric where no liveness is checked.

In `pipeline` a file of three events has a first, a middle and a last one, and more
events than a page; a partition of four holds all of them and a repeated or a strange
one; two faults allow a failed publication followed by a rebalance, a rebalance away
from a busy member and back, or a crash and a lost answer. A second run of `produce`
beside or after another is counted as a fault. In `dead_letters` every event of
`1, 3, 2, 4` but the baseline and 2 is quarantined, and replaying them takes two
letters in order; eight records leave room for replays by mistake and repetitions.

Two sockets are a registering and a registered one, or a slow and a fast one. In
`session_timeline` the match outgrows the window twice, so that pages, windows and
slices differ; reconciliations overlap.

Deadlock checking is on except in the runs of `DashboardSession`: a session stops
when its first load fails or its reconnections are used up.

### Where the code differs from its documentation

- `live_counted`: the gauge `matchstream_websocket_connections` is described as the
  currently connected clients. A socket whose send failed is no longer counted and
  gets no update, but it is not closed: the client has no reason to reconnect.
- `session_stale`: `docs/milestone-8.md:32-33` and `:44-46` say that stale updates are
  ignored by their sequence number. `reconcile` replaces the state by its response
  unconditionally; with two of them in flight, the older answer can win.
  `OnlyAuthorityRegresses` shows that nothing else, a snapshot after a reconnection
  apart, takes the display back: the step that does is the one that shows the answer
  to a reconciliation, and it does not go behind what was stored when that was asked.

Differences that no run states as a property of its own, because the models contain
the code's behaviour and the properties already allow for it:

- `docs/milestone-7.md:77` says that the listener starts before the API accepts
  connections. `start` ignores the result of its two-second wait
  (`api/notifications.py:42`), so the API also serves without one; `LiveUpdates` has
  commits that are announced to nobody.
- `docs/milestone-8.md:34-35`: "Failed sockets retry with bounded exponential backoff
  (up to six attempts)." `reconnectAttempts` counts the interruptions of the whole
  session and no success resets it, so a LIVE socket that fails after six of them,
  however long ago and however quickly overcome, is not retried at all. The sentence
  can be read either way; `Reconnects` promises what the code does, with the number
  of sockets that the session has lost.
- `docs/milestone-2.md:49` wants messages validated completely. `deserialize_event`
  takes any JSON value as metadata (`streaming/contract.py:135`), and
  `is_goal` and `api/schemas.py:128` use it as an object.
- `dlq-list` commits a letter before it prints it, so a listing that dies in between
  hides one letter from the next listing of its group: `PassedWasPrinted` counts it.
- A message in the dead-letter topic that is no dead letter raises in every command
  that meets it, so no command of a group gets past it; `Recovery` excepts it.
- Ingestion refuses neither an identity that occurs twice in a file nor a goal without
  a team. The events are published and a projection stops at them:
  `LoadedFileApplies` and `SoundReplayNeverRefused` say so with `Sound`.

### Fairness

`ProjectionStore!FairSpec`: weak fairness of a backend's next statement, strong
fairness of the two statements that wait (PostgreSQL queues waiters in order).
`ResilientConsumer!FairSpec`: a running process executes its loop (weak fairness of
its steps, not of the failures); the group assigns a free partition; and a process
that ended is started again. The last one is not in the repository: the compose
file runs no supervisor, so it is the operator (or the platform) who restarts the
command, and without that nothing is live. Faults are bounded, so they end.

`DeadLetterOps!FairSpec`: the consumer runs (weak fairness of settling and of
committing, as `EveryRecordSettles` promises); a command that was given is executed to
its end; and an operator follows the procedure, that is, does not for ever forget the
letter whose turn it is once there is no lag. The last one is strong, for other
commands may keep the console busy. `ReplayPipeline` claims no liveness: its consuming
commands have no retries, so what it could say is what `consumer_live` says.

`LiveUpdates!FairSpec`: the loop and the listener run; strong fairness of taking the
dispatcher's lock, because `asyncio.Lock` wakes its waiters in order; every update's
send ends, by its timeout if by nothing else; and the client reads the snapshot,
whose send has no timeout. No fairness of reconnecting the listener: what is lost is
lost, and `EventuallyCurrent` excepts it. `DashboardSession!FairSpec`: requests end,
timers fire, and a server that is reached sends the snapshot. Live updates are best
effort and have no fairness.

`EveryRecordSettles` speaks only of records that no *stopper* precedes. A message
that is not a canonical event raises `BrokerMessageError` at every poll, and an
identity that another match has used is a `DurableStorageError` at every attempt:
both end the process and are met again by the next one. The code does this on
purpose (only deterministic transition failures are quarantined), and the property
says precisely how far the guarantee reaches.

## 4. Proofs

Every invariant and every safety action property of the passing runs is the
statement of a theorem, proved for every value of the constants that the named
assumptions allow: any number of sessions, matches, events, members, sockets,
retries, failures, pages and windows. `PROJECT.json` lists them under `theorems`.
Liveness is only model-checked.

**Assumptions.** `NoneAssumption`, `EventTypesAssumption`, `InvalidAssumption`,
`TextAssumption`, `MalformedAssumption` (the markers for an absent or malformed value
are no values; a converted identity and type are an identity and a type),
`StoreAssumption`, `RebuildersAssumption`, `ConsumerAssumption`, `OpsAssumption`,
`PipelineAssumption`, `LiveAssumption`, `SessionAssumption` (given events are canonical;
bounds are numbers; a rebuild runs on a backend of its own; pages, windows, polls and
attempts are not zero). TLC evaluates them in every run of the module. Only
`ReplayPipeline_proofs` has a hypothesis beyond them, see below.

**Induction over data.** What a recursive function computes is proved by the least
counterexample: the set of lengths at which a statement fails has a least element
(`LeastNumber`, from the well-foundedness of the naturals), which contradicts one step
of the recursion. `MatchTransition_proofs` holds what rests on it: a strict order of a
finite set has exactly one sequence (`SortedUnique`), sorting extends by the greatest
element, a fold over an appended sequence is one more step, sums and cardinalities
over a set with one more element; and the typing lemmas of the transition.
The models sort by a *relation* and the rank of each element in it (`Sorted`), because a
lemma can speak of every relation but not of every comparison operator.

**ProjectionStore_proofs**, for every (also colliding) `hashtext`:

- `TypeCorrect`, by induction with `CallInv` (a session is idle iff it has no call);
- `IdentityCorrect`: the invariant `IdentityInv` adds `ReservedInv`, because
  `IdentityExactlyOnce` alone does not say why the identity that a transaction is
  about to commit is new. `ReservedInv` says that a successful INSERT holds the
  identity against the history and against every other open transaction;
- `StoreLinearizable`, the refinement: `SerialInv` adds `LockInv` (inside its
  transaction a session holds its match's lock), `RowInv` (therefore the row it has
  read is still the stored one) and `NextInv` (what it stores is the transition of
  that row). A commit maps to `Apply`, the other ends of a transaction to `Repeat`,
  `Reject` or `FailCall`, everything else to a stutter;
- `HistoryCorrect` and `ForwardCorrect`, from `SerialInv` and `LatestInv` (the latest
  sequence of a stored match is a number);
- `RebuildCorrect`: `RebuildInv` adds that a history is a `Chronicle` (sequences and
  times grow together) that `Reaches` its state. The event that is stored is then the
  greatest by `event_order_key`, so sorting the longer history appends it and the fold
  takes one more step, the one the transition took;
- `TalliesCorrect` (`TallyInv`): a commit counts its event once in every figure;
- `AnnouncementsComplete`, from `SerialInv`.

**MatchRebuild_proofs.** `RInv` adds to all of these that a rebuild in its transaction
holds the lock of its match (`RLockInv`), so no commit on that match comes between, and
that what it is about to store is what is stored (`RebuiltInv`): it is the fold of the
history, and `SnapshotIsRebuild` says what that is. `RebuildIsInvisible` is the action
property. `StoreBesideRebuildsCorrect`, `ForwardBesideRebuilds` and
`LinearizableBesideRebuilds` say that the store keeps all it has without rebuilds: a step
is a projector's or hidden from every table (`OfProjectorOrHidden`).

**ResilientConsumer_proofs**, for every number of consumers, events, attempts and
faults:

- `TypeCorrect`, with `RangeInv`: offsets lie within the partition, and the record in
  hand is an event;
- `NothingIsLost` and `FetchesInOrder`, from `SafetyInv`. `NoLoss` alone is not
  inductive: a consumer commits the offset it polled, perhaps before the group moved
  the partition to another member and on from there. `InHand` says what makes its
  commit right all the same: when it polled, all before its record was settled, and
  what is settled stays so (`SettledStays`); `Fetched` says why that was so;
- `OrderedTopicIsProjected`, that of an ordered topic nothing is quarantined.
  `OrderInv` adds that identities are unique in such a topic, that what is stored is
  what some beginning of the topic holds, and that a state shows the newest stored
  event of its match. With `InHand`, an event in hand whose identity is not known is
  then the next of its match (`InHandIsNext`), so the transition accepts it.

**ReplayPipeline_proofs**, for files of any length and any number of producers and
members, follows the events from the file to the pages:

- `Replayed`: what ingestion accepts stands in the order of time with consecutive
  indexes, so an event's sequence tells its place. `ArrayOrderIrrelevant` and
  `IngestedFileApplies` follow from it, and need no invariant of the pipeline;
- `TopicIsInOrder`, from `PublishInv`: what a producer has sent is in the topic, and
  what it still has in its queue is the next. That a message decodes to the event it
  was made from is the lemma `RoundTrip`;
- `NothingPassedOver`, from `WorkInv`: all below a member's position was handled, by it
  or by another member;
- `StoreHoldsBeginning`: `StoreInv` says that the store holds the first `k` events and
  their fold. An event that the transition accepts has sequence `k + 1` and is
  therefore event `k + 1`; any other is a repetition or refused;
- `SoundReplayApplies`: everything before the record in hand was handled, so its event
  is among the first `k + 1`, and those the transition takes (`AnswerInv`);
- `MemoryNeverSpansHole`, by the same step for `MemoryInv`;
- `PagesFollowHistory`: `ReaderInv`, the client has got the first `n` events and the
  store has them. The history sorted by sequence is then the beginning of the replay
  (`SortedUnique`), and a page its next stretch;
- `PipelineTypeCorrect`, last, for the types of the projections depend on the order of
  what is published.

The theorems about the store, the memory, the pages and the types have the hypothesis
`StrangersRefused`: what others publish on the topic is no event of the contract. It
holds in the run and cannot be dropped, since a message that is an event is
indistinguishable from a published one. `TopicIsInOrder`, `NothingPassedOver` and the
two theorems on files do without. It is not an assumption of the model, because
whether a message is refused is for `deserialize_event` to show, and the runs check it.

**LiveUpdates_proofs.** `LiveInv` ties three views of a socket together: where its
endpoint stands and what the manager has noted for it (`SocketInv`), that a broadcast
under way is newer than what its targets have got (`BroadcastInv`), and that a
registered socket outside of it has got what is noted (`DeliveredInv`).
`StreamsInOrder` is part of it. `NoUpdateIsMissed` is inductive together with it: each
action is either the one that something under way waits for, or leaves it under way.
`GaugeCounts` needs only that the registered connections are finitely many.

**DeadLetterOps_proofs.** `OpsInv`: the letter in hand is the one before the next, and
`dlq-list` has committed all that it has polled (`HandInv`, `PrintedInv`); all before the
consumer's progress is stored or quarantined (`HandledInv`); the offset that `lag` has
read is not ahead of that progress (`ReadInv`). `PassedPrinted` and `LagCovers` follow,
the latter although the end of the partition is read later.

**DashboardSession_proofs.** The timeline is always the last `Window` events of a
history that ends somewhere, because every load that is still taken begins within the
timeline or fills a window (`TimelineInv`): `TimelineHasNoHole`. `CompleteInv` says that
it reaches the displayed state or that a request is in flight which brings it there:
`TimelineReachesState`. Until the socket is open a session has one request in flight
(`EarlyInv`), and nothing before the first snapshot takes the state beyond it
(`FreshInv`): `OnlyAuthority`. Requests of earlier sessions are inactive (`RequestInv`):
`ShowsOwnMatch`. `StatusIsHonest` follows from the order of messages (`SocketInv`).

**Only model-checked**: `CallsReturn`, `EveryRecordSettles`, `Recovery`, `Reconnects`,
`EventuallyCurrent`. They are liveness properties under fairness, and the prover has no
rule for ENABLED, hence none for WF and SF. The two properties of the violated runs are
false.

## 5. Not modelled

- Argument parsing, printing, the demos, metrics, logs, health checks, the metrics
  server, response schemas, dashboard components: nothing in the pipeline depends on
  them. The read-only commands (`state`, `status`, `health`) and the list of matches
  with its cursor change nothing.
- Bytes and JSON text: a message or a file is what its parser finds in it. The models'
  messages have objects as metadata; other metadata are among the `Unstorable` events.
- Retry and replay delays: a step follows another without time passing. The
  asynchronous iterator of the replayer, which no command uses.
- Several partitions and the retention of the broker: all records of a match have one
  key, so partitions are independent but for the shared identity table, which
  `store_identity` and `consumer_live` cover. `lag_from_offsets` is applied to one
  partition that begins at offset 0.

## 6. Plan

Done: all components that keep state, and the safety of all of them. What is left:

1. the list of matches with its cursor, and several partitions of the topic, whose
   assignment a group may split;
2. that the resilient consumer implements the level at which `DeadLetterOps` uses it,
   and the projection the level at which `LiveUpdates` does, as refinements rather
   than by the properties that say so;
3. the lemmas on ranks and sums as a module of their own, once another model
   needs them.
