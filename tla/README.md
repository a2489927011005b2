# A TLA+ model of vibesql-audit

vibesql-audit records what happens in a PostgreSQL database: a C extension
(`ext/`) emits events over UDP, a Rust sidecar, the *forwarder* (`forwarder/`),
receives them, adds row changes decoded from the WAL, chains everything with
SHA-256 and stores it in `vibe_audit.events`, where the SQL function
`verify_chain()` can check it. This directory holds TLA+ modules translated from
that code, the TLC runs that check them on small instances, and TLAPS proofs of
the most important results for all sizes.

## The system and its parts

| Part | State | Operations | Interacts with |
|---|---|---|---|
| Hooks (`vibe_audit.c`, `vibe_hooks.c`) | GUCs `enabled`, `executor_mode` | three hooks, one event each | UDP emission |
| UDP emission (`vibe_emit.c`) | failure counter, per backend | `vibe_emit_event` | kernel socket, server log |
| Listener (`listener.rs`) | the event in `tx.send` | receive, parse, send | channel |
| WAL capture (`walcapture.rs`) | slot position, lines of the last poll | poll, parse, redact, send, restart | replication slot, registry, channel |
| Sensitive registry (`sensitive.rs`) | cache of `sensitive_fields` | refresh, detect, redact | database, WAL capture |
| Processor (`main.rs`) | hash chain, batch | receive, chain, flush | channel, GELF, writer |
| Batch writer (`writer.rs`) | retry queue | `write_batch` | pool, `vibe_audit.events` |
| Verification (`vibe_audit--1.1.sql`) | none | `verify_chain()` | `vibe_audit.events` |
| Health endpoint (`health.rs`) | counters of the tasks | `/health` | all tasks |
| GELF and heartbeat (`gelf.rs`, `health.rs`) | one UDP socket | a copy of each event, a heartbeat every 10 s | processor |
| Connection pool (`writer.rs`) | connections, tasks waiting | `pool.get` | writer, capture, registry, partitions |
| Partitions (`ensure_partition`) | the partitions of `events` | create the month's | writer |

The tasks of the forwarder run concurrently and meet in the bounded `mpsc`
channel, in the connection pool and in a few shared counters. Hard in this
system are: the order of events and of their hashes through failures of the
database (the retry queue), a statement whose outcome is unknown, the death of
the process at any await (nothing but the table survives; any task that ends
ends the process), queues at their limits (kernel buffer, channel, retry queue,
parameters of a statement), a server that crashes and hands out again what it
had handed out, caches that lag behind their table, the two
separate computations of one hash, counters read one by one while their tasks go
on, a partition that is created hours after it is needed, connections that are
kept, and two text formats (the lines of `test_decoding`, the JSON of the hooks)
handled character by character. `PROJECT.json` lists each of these hazards at
its line, with the properties that watch it.

## Modules

| Module | Models |
|---|---|
| `HashChain` | digests, the chain's two steps, what a valid chain is |
| `Forwarder` | channel, processor, batch writer, retry queue, table |
| `AuditTrail` | what processor and writer together promise (abstract) |
| `VerifyChain` | `verify_chain()` against a table that is altered |
| `Sensitive` | registry, cache, change detection, redaction |
| `WalCapture` | the capture task, the slot, the loop through the table |
| `WalParser` | the parser of `test_decoding` lines, and the images it makes |
| `Ingest` | hooks, `vibe_emit_event`, UDP socket, listener |
| `JsonEscape` | `vibe_json_escape` and the length test of the hooks |
| `Telemetry` | the counters, `/health`, the GELF stream, the heartbeat |
| `Storage` | the connection pool, the partitions, the calendar |
| `MC...` | instances for TLC, one for each module with runs |
| `ForwarderProofs` (and of `AuditTrail`), `VerifyChainProofs`, `SensitiveProofs`, `WalCaptureProofs`, `IngestProofs`, `JsonEscapeProofs`, `TelemetryProofs`, `StorageProofs` | theorems |

The modules overlap where components meet. The processor, for example, is in
`Forwarder` (what it does to the chain and the table), in `Telemetry` (what others
see of it) and in `Storage` (how it competes for connections); each keeps the
state that its properties are about.

Definitions called *Faulty* in a comment are variants that a slip in the code
would give (a dropped guard, a missing reset, a swapped order). No specification
uses them; each shows that a property notices the slip (`PROJECT.json`,
`mutants`).

### HashChain

A digest is the previous digest with the payload appended: two digests are equal
exactly when they were made from the same history. This assumes collision
resistance of SHA-256, and nothing else about it.

### Forwarder and AuditTrail

An action is one stretch of code between two awaits. `pc` says at which await
the processor is: `select` (the `select!`), `gelf` (`gelf.send`), `pool`
(`pool.get` in `write_batch`), `insert` (`execute`).

| Action | Code |
|---|---|
| `Arrive` | `tx.send` of listener and capture finds a free slot |
| `Recv` | `select!` branch 1: count, `chain.apply`, health update |
| `GelfSent` | `batch.push`; if the batch is full, `write_batch` up to `pool.get` |
| `Tick` | `select!` branch 2: flush a non-empty batch |
| `PoolGetOk`, `PoolGetErr` | the two outcomes of `pool.get` |
| `InsertOk`, `InsertErr`, `InsertLostReply` | the outcomes of `execute`; the last: committed, but the client sees an error |
| `DbFails`, `DbRecovers` | the server and its connections (external) |
| `Restart` | the process ends at any await and `main` runs again |

Events are numbered as they enter the channel; the number stands for the payload.
(Payloads carry the time in milliseconds. Two events with equal payloads have
different hashes within one chain, since each hash covers all before it.) Of the
other fields only what decides whether PostgreSQL accepts the row is kept:
`client_addr` is an address (`AUTH_TCP`), `[local]` (`AUTH_LOCAL`), empty (`DDL`,
and in the same way `DML`) or null (`DATA_CHANGE`).

`Requeue` is written in closed form; `MCForwarder` has TLC compare it with the
push-and-evict loop of the code for every queue within the bounds
(`RequeueIsLoop`), and `RequeueIsTheLoop` proves it for all.

`AuditTrail` has four variables: the newest event handed over, the head of the
chain, the events held, the table. Events are chained one by one; the whole run
held is appended to the table, and may be kept in part to be stored again; the
oldest events held may be given up; a restart forgets all but the table.
`Forwarder` implements it with `Pending`, the concatenation of retry queue,
local retries, batch and current event, for the events held.

### VerifyChain

Texts are sequences of characters so that the unescaped join of the payload is
modelled by what it does: `"a|"` and `""` join to the same payload as `"a"` and
`"|"`, and null to the same as the empty text. `Alter` changes any columns of a
row, `prev_hash` and `event_hash` included: the hash has no key, and whoever may
`UPDATE` the table can compute it anew (`Forgeries`). `Delete` removes a row,
`Restart` begins a new chain in the same table. `session_user` and `query_text`
stand for the payload's columns, `detail` for those outside it.

`VerdictCorrect` is about what `verify_chain()` computes. `AnchorProtects` is what
its answer is worth: one hash that is known to be the forwarder's (each goes to
Graylog as well) vouches for the payloads of all rows up to it. Rows after the last
known hash and columns outside the payload are not protected, which is not what the
documentation says: run `verify_tampering`.

### Sensitive

One table, row images as functions from the columns present to their values. The
refresh has two steps, the query (rows in any order, it has no `ORDER BY`) and the
assignment under the lock; a failed refresh changes nothing. `detect` is modelled
with its rule that the first matching entry decides.

### WalCapture

A transaction has one change and three decoded lines. A poll takes whole
transactions off the slot until the limit is reached, as
`pg_logical_slot_get_changes` does. `Store` is the rest of the pipeline: its
`INSERT` is itself a transaction in the WAL.

The slot's position is in the server's memory and reaches the disk at checkpoints
(`SlotSaved`). After `ServerCrash` the slot is where it was on disk and hands out
again what it had handed out since (`unsaved`). `run_inner()` goes on with the lines
it has and meets the crash at its next query (`ConnectionGone`); it keeps no LSN to
compare with. Each change therefore carries `gen`, the number of crashes before the
slot hands it out, and the order of `SentInOrderOnce` is by `gen` first.

### WalParser

A text is a sequence of atoms: the characters the parser looks at, and words
without any of them. `Decoded` prints a change as the output plugin does (quotes
doubled, types of several words, the old key before the new tuple), and the
parser's loops run over that text, one action per branch: `OldKey`, `NewTuple`,
`Skip`, `PlainValue`, `OpenQuote`, `CloseQuote`, `EndOfParts`, `NextWord`, and
`MakeEvent` for the rest of `parse_test_decoding`. The reference is the change
itself. A column is *clear* when the parser can tell where it ends; everything up
to the first column that is not clear must be recorded exactly. The images as a
whole are exact only if every column is clear and every type is one word
(`ImagesExact`); a column with a type of several words is lost.

### Ingest

Any number of backends, each with its counter. `sendto()` on an unconnected UDP
socket succeeds also when nobody listens and when the receiver's buffer is full.
Datagrams are well formed or garbled (names are not escaped). `log` holds the
events that the fallback wrote to the server log, and `busy`, a history variable,
those that `EAGAIN` refused: they are in no log.

### JsonEscape

The bytes are those that the `switch` tells apart; `lead` and `cont` are the two
bytes of a longer character. `Fits` is the test before each escape, `InLoop` the
condition of the loop, and the other fields of the event count by their length.
The reference is a reader of JSON strings (`Reader`).

### Telemetry

Every single read and write of a shared counter is a step: `wal_lsn`, the count,
the send of the capture; `udp_event_count`, then chain and `HealthData`, then the
copy to GELF by the processor; a handler's four reads; the heartbeat's read and
its send. `axum` runs a handler for every request, so there are as many as
`Handlers` has elements, each at a place of its own. A decoded line has an LSN of
its own, any number: `test_decoding` prints transactions in commit order, and those
that overlap have LSNs in another order. `answered` and `floor` are history
variables, for `ResponsesMonotone`.

The counters are `Relaxed` atomics and are modelled as holding their
latest value: an event that is in `HealthData` has come through the channel after
it was counted, so the handler, which takes the mutex first, sees that count.
A restart sets all of this back and is left to `Forwarder`.

### Storage

A task is idle, waits in `pool.get`, runs a statement or (the capture) keeps its
connection. `Granted` and `GetFails` are the pool's answers, in the order of asking;
`main()` makes its two calls before the tasks start. Time is a count of days:
`NewDay` is midnight, `TimerFires` the daily tick at the time of day at which the
forwarder was started, so between the two an `INSERT` of the first of a month has
no partition. An event is the month it belongs to and the buffers are sequences of
months, with the limits they have in `Forwarder`: rows of a statement, and the retry
queue with its eviction. A day brings up to `EventsPerDay` events.

| Action | Code |
|---|---|
| `WriteBatch`, `PartitionTick`, `RefreshTick`, `CaptureStart` | a task calls `pool.get` |
| `Granted`, `GetFails` | its outcome; on failure `write_batch` requeues its argument only |
| `EnsurePartition`, `RefreshDone`, `CapturePolls`, `InsertOk`, `InsertErr`, `StatementFails` | the statements |
| `TimerFires`, `NewDay`, `Arrives`, `DbFails`, `DbRecovers` | time and environment |

## Runs

| Run | Result | Shows |
|---|---|---|
| `forwarder` | pass, 293,100 states | types and limits, `PendingIsChainRun`, `ReplayOnly`, `ValidMeansComplete`, `BreakHasCause`, `LossHasCause`, refinement of `AuditTrail`; stored while it fits (`StoredWhileItFits`), stuck once it does not (`OverlongQueueStays`) |
| `verify_chain` | pass, 949,063 states | the verdict is right about the rows; a known hash protects the payloads up to it |
| `sensitive_redaction` | pass, 28,512 states | changed fields are redacted; marks take effect |
| `wal_capture` | pass, 610,260 states | order, repetition only after a crash of the server, every row change is sent |
| `wal_parser` | pass, 31,392 states | exact up to the first column without a clear end, nothing invented, images not mixed, ends |
| `ingest` | pass, 741,232 states | order per backend, no duplicates, which failed events are logged, a full channel loses nothing |
| `json_escape` | pass, 260,772 states | room for the terminator, longest prefix that fits, readable as JSON, no query drops its event |
| `telemetry` | pass, 747,256 states | responses consistent, counters never behind an earlier response; the GELF stream follows the chain |
| `storage` | pass, 280,869 states | every `pool.get` returns; events wait out the turn of a month if they fit into a statement |
| `forwarder_poison` | violation | a DDL event blocks the table for good |
| `verify_tampering` | violation | changed columns and recomputed hashes pass; a restart alone fails |
| `wal_feedback` | violation | untagged tables are captured, the audit's own included |

**Where code and documentation disagree.** `PROJECT.json`, `findings`, quotes both
sides of each. The first four are shown by runs that TLC ends with a counterexample
(3 and 4 by one run, whose property has a part for each), the other three by
a property that states exactly what the code does and whose unconditional form, the
documented one, TLC refutes.

1. `forwarder_poison`: one row that cannot be cast fails every later statement.
2. `wal_feedback`: tagged tables are not looked up.
3. `verify_tampering`: "Tampering with any event breaks the chain". A change of
   `success`, `client_addr`, `object_name`, `sqlstate` or `detail`, which no hash
   covers, does not, and neither does a row whose hash was computed anew.
4. `verify_tampering`: `first_broken_id` as "First tampered event". After a restart the
   chain begins again at the empty hash and the first new row is reported, in a table
   nobody touched. Set `MaxTampers` to 0 in `VerifyChain_tampering.cfg` to see this one.
5. `OverlongQueueStays` in `forwarder`: the retry queue may hold 10,000 events but a
   statement at most 3,640 rows (18 parameters each, 65,535 in all). Once as many wait,
   no statement succeeds any more, though the log says they are queued for retry.
   `StoredWhileItFits` is what remains of the promise; without `Fits` it is refuted.
6. `FallbackLogsEvents` in `ingest`: "After 10 consecutive failures, the extension
   falls back to `elog(LOG)`". With `EAGAIN` it logs how often it failed, and not the
   event. With `log` in place of `log \union busy` the property is refuted.
7. `ImagesExact` in `wal_parser`: "Full before/after". Columns whose type has several
   words (`character varying`, `timestamp with time zone`) are in neither image.
   Without `OneWordType` the property is refuted.

**Bounds.** In `Forwarder` 100, 3,640 and 10,000 shrink to batch 2, statement 4 and
retry queue 5, in the code's order (`OrderAssumption`), so that a queue can outgrow
the statement while it is within its own limit; the channel, 10,000 too, is 2, so that
it fills. With six events a batch can fail, be queued, meet a full queue and be
evicted from it, fail again together with the next batch and be replayed; two
restarts give three chains in one table. The failure threshold of `Ingest` is 2
instead of 10 with three emissions a backend, so that it is reached, exceeded and
reset. `VerifyChain` has three rows, two alterations and a restart: deletion in front,
in the middle and at the end, a change hidden by another, a row rewritten with its
hash and the one after it too. `WalCapture` has four transactions, a limit (4 lines)
that cuts inside the second, one failed query, one lost reply or restart and one crash
of the server, which can fall between a poll and the sending of its lines.
`WalParser` has every quoted text of up to three atoms (word,
space, quote, bracket, colon) in front of a second column, with types of one and of
two words, and updates in which old and new key hold markers or end in quotes.
`JsonEscape` has all texts of up to four characters and buffers from none to 14
bytes, so that every escape meets every distance from the end. `Telemetry` has two
handlers, one row change, a line after it with a smaller LSN, one datagram and one
heartbeat on a channel of one: the reads of both handlers can lie anywhere in that.
`Storage` has two connections for four tasks, three of which want the one that the
capture leaves, three days of which two make a month, one outage, and batch 1,
statement 2 and retry queue 3 with up to three events a day: a day without a
partition can make the queue too long for a statement, and evict from it.

**Known limits** that follow from the models and contradict no document.

1. When `pool.get` fails, the events that `write_batch` had taken from the retry queue
   are dropped without a message (`LossHasCause` names the place; the warning "retry
   queue full" of `writer.rs` covers evictions only).
2. Queued events are retried with the next batch and not before: the timer writes
   nothing while the batch is empty, so on an idle system they stay in memory
   (`StoredWhileItFits` speaks of events that come, and `StoredAcrossMonths` lets a
   day without further events leave them in the queue).
3. The turn of a busy month loses events. Between midnight and the daily tick, up to
   24 hours, every `INSERT` fails; past 3,640 waiting events none succeeds after the tick
   either, past 10,000 the oldest are evicted. `StoredAcrossMonths` has `Fits` as its
   premise.
4. Only changed fields are looked up in the registry: a marked field that an
   `UPDATE` leaves alone is shown in clear (`ChangedFieldsRedacted`).
5. After a crash of PostgreSQL changes that were stored come again as new events
   (`SentInOrderOnce`); nothing in the table marks them as repeated.
6. A quoted value that ends
   in a quote swallows what follows it, a `new-tuple:` included, and a table name with
   a colon is cut there (`Clear`, `PlainTable`). The text `'null'` is recorded as
   JSON null and an unchanged TOAST value as the text `unchanged-toast-datum`;
   runs of whitespace become one space.
7. A query that is cut inside a multi-byte character makes a datagram that is not
   UTF-8, and the listener drops the event (`ReadsBack` allows the cut at the end).
8. `wal_lsn` of `/health` can go back while the capture goes forward, and row changes with
   smaller LSNs than it need not be counted (`ResponseConsistent`, `ResponsesMonotone`).
9. A month whose every `ensure_partition` call failed has no partition later
   either: its events stay in the retry queue and make every later statement fail
   (`PartitionToCome` in `StoredAcrossMonths`).
10. With a single connection the capture would keep it and all other tasks wait for
    ever: `PoolAssumption` asks for two (the pool's default is a multiple of the
    number of cores).
11. `udp_host` and `udp_port` can be reloaded, but the socket address is computed when
    the extension is loaded.

**Deadlock** is checked in every run but `wal_parser` and `json_escape`, which model
functions that return; elsewhere the timers make stopping impossible.

**Fairness.** `Forwarder`: `tokio::select!` polls its branches in random order, so
of two branches that are ready again and again both are taken (strong fairness of
`Recv` and `Tick`); the awaits inside a branch end (weak fairness; for `pool.get`
and `execute` this assumes that a dead connection is noticed, the code sets no
timeout). Nothing is assumed about events arriving, the database coming back, or
crashes. `Sensitive`: the refresh timer and the channel make progress.
`WalCapture`: the task runs, queries are answered in the end, the processor
drains the channel. `Ingest`: listener and processor run. `WalParser`: a function that
has been called goes on. `Storage`: tasks that are ready are polled, `pool.get` and
statements end with an answer or with the connection's error, timers fire, days
pass, and the events of a day arrive while the database is up (how many is open,
none included); the database need not come back.

## Proofs

TLAPS checks these for every value of the constants that satisfies the named
assumptions. Each proof module has one lemma per part of its inductive invariant,
with one step per action; TLC checked every strengthening on the run's instance
as well. The strengthenings stand at the end of the component's module, or in the
proof module where no one else needs them (`JsonEscapeProofs`, `StorageProofs`).

**Assumptions.** Sizes are positive, kinds and faults are from their sets, the
registry is finite, the pool has at least two connections. Some say more.
`Forwarder` (`OrderAssumption`) and `Storage` (`SizesAssumption`): a batch fits into a
statement and a full retry queue does not, as 100, 3,640 and 10,000 do.
`VerifyChain`: rows hold texts and hashes, forged ones too (`EventsAssumption`,
`ForgeriesAssumption`). `Telemetry`: LSNs are positive, in any order
(`LinesAssumption`). `JsonEscape`: the other fields of an event take at least one byte
(`SizesAssumption`; its frame alone does, and with none at all `QueryNeverDrops` would
fail at a buffer of no bytes), and a query is valid in its encoding
(`EncodingAssumption`: PostgreSQL has checked this before a hook sees the text).
Nothing is assumed about the order or the number of events, failures, restarts,
alterations or refreshes.

**The pipeline** (`ForwarderProofs`)

- `RequeueIsTheLoop`: `Requeue` takes the newest `MaxRetry` events at once; the code
  pushes one after the other and removes the oldest of a full queue
  (`PushEvicting`). Both give the same queue, for every queue within the limit and
  any number of events: after each round the queue holds the newest of what it
  has been given (`NewestOf`).
- `AuditTrailInv`: `AuditTrail`'s actions keep `Inv`. It is stated for the instance `AT`
  of the pipeline, and its proof never expands the mapping (`Received`, `ChainHead`,
  `Pending`). `ReplayOnly` and
  `ValidMeansComplete` are not inductive. What is missing: every record names the
  hash of the event directly before it (`AllChained`), the events held are
  linked and in order (`PendingIsChainRun`, `PendingOrdered`), and an event held
  that is not newer than all rows is a row already (`PendingNewOrStored`): that is
  what makes a second insertion of the same events a replay and nothing worse.
- `TypeCorrect`: types and limits.
- `Refinement`: the pipeline implements `AuditTrail`. The mapping needs
  `ChannelNumbered` (what has been received is what is not in the channel) and,
  from `TypeOK`, which buffer is empty in which phase. `PoolGetErr` and `InsertErr`
  map to `Forget`, `InsertOk` and `InsertLostReply` to `Commit`.
- `HeldIsChainRun`, `TableReplayOnly`, `ValidIsComplete`: three invariants of the
  pipeline, from `Refinement` and `AuditTrailInv`.
- `BreakCause`: in a table only the forwarder writes, a row that `verify_chain()`
  rejects is next to missing or repeated events, or begins a restarted chain.
  `FirstRunUnbroken` helps to make it inductive: before the first restart every
  record's hash is that of all events up to it. For later chains `AuditTrail`'s
  `Follows` is used: a row with a previous hash names that of the event before it.
- `LossCause`: an action property, from the types and `ChannelNumbered`: each action
  shows where every event of `Pending` goes.
- `OverlongStays`: once `MaxInsertRows` events wait for a retry, a statement has more
  rows than it may, since a batch is never empty when it is written, and what an
  error leaves in the queue is at least as long, since the queue holds more than a
  statement.

**Verification** (`VerifyChainProofs`)

- `TypeCorrect` and `VerdictIsCorrect`: `verify_chain()` says what its
  documentation says, for tables of any length and any tampering. The loop
  invariant: the rows read so far are good, and `prev` is the hash of the last.
- `KnownHashProtects`: what an accepted table proves. `HonestChain`: the hash the
  forwarder gave an event is the list of the payloads of its chain up to it.
  `RowsCovered`: the hash of a row that passed the loop's tests is the list of the
  payloads of all rows up to it, whoever wrote them. If the two hashes are equal, so
  are the lists, and with them the rows and the events.

**Redaction** (`SensitiveProofs`)

- `TypeCorrect`, and `RedactionIsSafe`: a changed field that is global, or that
  all cached entries for it ask to redact, is hidden in both images of every
  event. The cache is a sequence of registry entries (`CacheOK`); the first
  matching entry exists because indices are well-founded, and agrees with the rest.

**WAL capture** (`WalCaptureProofs`), from one invariant:

- `TypeCorrect` and `InCommitOrder` (`SentInOrderOnce`). Neither is inductive: that
  `wal_lsn` never runs ahead of the WAL depends on the lines still to be processed,
  and the order of what was sent on everything still to be sent. `CaptureInOrder`
  says that what was sent, the event in `tx.send`, the lines of the last poll and
  what is left in the slot follow each other in the order of handing out, and
  `UnsavedInOrder` that what a crash of the server would put back comes before what
  is in the slot. The hard step is the poll: the lines it returns are the first transactions', in order and all of
  them (`Decoded`, by induction over their number as in `JsonEscapeProofs`), and it
  takes at least one and no more than there are (`PollCountInRange`).
- `NoChangeDropped`: the action property `ChangesKept`, the safety half of
  `EveryChangeSent`. A poll overwrites `rows`; nothing is lost with them because they
  are used up by then (`LinesUsedUp`).

TLC confirmed `CaptureInOrder`, `UnsavedInOrder`, `LinesUsedUp` and `ChangesKept` on the instance of
`wal_capture`; the run itself keeps `EveryChangeSent`, which says more.

**The way in** (`IngestProofs`)

- `TypeCorrect`: the limits of kernel buffer, listener and channel.
- `FallbackIsLogged`: failure counter, log and `busy` agree for every backend; with
  `LoggedAreEmitted`, that both hold only events already emitted.
- `ArrivesInOrder`: order and no duplicates per backend. `WayInOrder` says it of
  everything on the way (received, held by the listener, in the kernel), and that
  nothing on the way is newer than the backend's counter; a lost datagram leaves a
  subsequence.

**Escaping** (`JsonEscapeProofs`)

- `TypeCorrect` and `TerminatorFits`: no text and no size makes
  `vibe_json_escape` write outside its buffer or leave no byte for the zero. The
  invariant adds that a buffer of no bytes stays empty; each escape's own test
  together with the loop's condition is enough.
- `QueryFits`: from the same invariant and the share of the buffer a query gets.
- `CopiesLongestPrefix`: the text written is the concatenation of the escapes of the
  bytes read (`CopyInv`), and when the loop ended early the next escape did not fit.
- `TextReadsBack`: the reader's state after the bytes written is the text read
  (`ReadInv`). Concatenation and reader are recursive functions. That they are
  defined for all lengths is shown with `AllNaturals`, induction stated for a set of
  numbers instead of a predicate, which follows from the well-foundedness of `<`;
  after that only "one more byte" is used (`EscapedOneMore`, `ReaderOneMore`).

**Health and GELF** (`TelemetryProofs`), all from one invariant, `Inv`:

- `TypeCorrect`: the channel's limit holds although two tasks send.
- `ResponsesAreConsistent`, `ResponsesGrow`. `Counted` relates the counters to each
  other: what was taken from the channel, plus the capture's events still in it,
  is what the entrances counted, but for the one event the capture has counted and
  not sent. `HandlerInv` keeps what each handler has read in relation to what it has
  yet to read: health first, `wal_events` after the LSN, `udp_events` last. That
  order of the reads is why the response makes sense. `LsnInv` ties `wal_lsn` to a
  line decoded so far, whatever its number, and `Kept` says that what had been
  answered when a handler began is not more than the counters it reads.
- `StreamIsChain`: the event waiting in `gelf.send` is the chain's newest, and a
  heartbeat that was read and not sent is at most one ahead of the copies
  (`StreamInv`). Numbers of copies, of row changes and of waiting events are
  cardinalities of sets of positions, so that each step adds or removes one element.

**Pool and partitions** (`StorageProofs`)

- `TypeCorrect`: connections in use, waiting tasks (each once, and exactly those in
  `pool.get`), the limits of batch and retry queue, months. `PoolInv` adds that no other task has begun while `main()` is in
  its first call; `CalendarInv` is that no event and no partition is of a month to come.
- `PoolNeverStops`: `PoolFlows` for every pool of at least two connections. The
  invariant is that only the capture keeps a connection.

Only model-checked:

- The liveness properties (`StoredWhileItFits`, `EveryChangeSent`, `DatagramReceived`,
  `TagTakesEffect`, `Terminates`, `EveryWaiterServed`, `StoredAcrossMonths`), which need fairness.
- `WalParser`: its words and images are made with `SelectSeq` and other functions
  of whole texts, about which the provers know nothing; each property would be an
  induction over the text.

## Not modelled

- The JSON text of events other than the query's; nested JSONB fields.
- The fields of a GELF message other than the hash, its compression, and whether
  the datagram arrives.
- A reload of the socket address (limit 11): there is one assignment to it.
- Configuration, start-up, packaging: straight-line code without state of its own.
- The whole as one state machine. The components meet in the channel, the pool and
  the table, and each module has the side of its neighbours that it needs; a
  composition of all of them is far beyond what TLC can enumerate.
- External behaviour is taken from how the code uses it. Whether PostgreSQL and
  the driver accept the statement text at all (`session_user` is a reserved word;
  string parameters with casts; `digest` needs pgcrypto) is outside: the model
  has the statement succeed when its rows are acceptable.
- Events without `event_type` or `event_time` (the writer fills in defaults after
  hashing) and JSON that is not an object (`apply` panics, which is a `Restart`
  here): no sender in the repository makes them.

## Plan

1. Done: the pipeline, its abstraction, verification, redaction, capture, ingest;
   the parser, the escaping, health and GELF, pool and partitions; the proofs above.
2. Next theorems: the parser's types and `ImagesExact`, once facts about `SelectSeq`
   are at hand.
3. Composition: `Ingest` and `WalCapture` feeding `Forwarder` through one channel,
   as a refinement that hides the producers.
