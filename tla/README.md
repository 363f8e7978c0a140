# Verification of the Horstmann DNP3 gateway

The gateway reads DNP3 devices, turns changed points into telemetry messages
and sends them to a NATS JetStream stream, with an SQLite outbox for the time
the broker is away. Its configuration comes from a backend over HTTP. Paths
below are relative to `src/src/dnp3_gateway/`.

The modules model the code, not its documentation. Everything here is checked
by TLC on small instances; what the `*_proofs` modules state is proved by TLAPS
for every value of the constants.

## 1. Inventory

### Threads

| Thread | Code | What it touches |
|---|---|---|
| main loop | `main.run` | refresh-all dispatch, one poll cycle after the other, shutdown |
| pool workers | `poller.run_poll_cycle` | `poll_device`: `read_device`, then `publish` per reading |
| config-refresh | `main._run_config_refresh` | `GatewayState`, the cache file |
| outbox-retrier | `OutboxRetrier._run` | outbox rows, broker, circuit breaker |
| JetStream loop | `JetStreamPublisher` | connection, `_ready` |
| OpenDNP3 | `_MasterApp`, `_CacheSOEHandler` | one `_DeviceCache` per device |
| health-http | `health_server.py` | reads the state of all others |

### Components

| Component | State | Operations | Correct when |
|---|---|---|---|
| Outbox, `messaging/outbox.py` | two tables, in-memory row counter | enqueue, fetch_batch, delete, mark_retry, move_to_dead_letter | no row lost or doubled, counter agrees with the table |
| OutboxRetrier, `messaging/outbox.py` | fetched batch, backoff | `_run`, start, stop | oldest first; refused messages set aside; outages not held against a message; drains in the end |
| ResilientPublisher, `messaging/resilient_publisher.py` | circuit breaker flag | publish, publish_outbox_row | a publish that returned is durable; the breaker opens again |
| JetStreamPublisher, `messaging/jetstream_publisher.py` | connection, `_ready`, loop | publish, callbacks, `_background_reconnect`, close | not-ready is told apart from refusal; nothing is left after close |
| Poll cycle, `poller.py` | futures, timeouts | run_poll_cycle, poll_device | every due device is polled; a hung device delays no other |
| Device cache, `adapters/dnp3_yadnp3_master.py` | values, dirty marks, recovery state machine | set, OnOpen/OnClose, read_device | SCADA sees current values of online devices and comm_lost of others |
| Master registry, same file | masters by device code | `_ensure_master`, forget_devices, close, refresh_all_devices | one master per configured device, none after close |
| GatewayState, `state.py` | configuration, cache file, refresh counter, read times | update, load_from_cache, take_refresh_request, mark_read, due_devices | a restart continues with the configuration in force; a request is served |
| Config client, `backend/config_client.py` | none | fetch_config, parser | an answer is complete or an error |
| Health server, `health_server.py` | metrics | `/health`, `/refresh-all` | the status names the worst problem |
| Legacy adapter, `adapters/dnp3_master.py` | sessions by device code, one lock each and one for the table; event cache per device | read_device, `_get_session`, `_evict_session`, forget_devices, close; four read strategies | no connection left behind or closed under a read; what is reported as good is true |
| Settings, identity, logging, mock adapter, `rabbit_publisher.py` | start-up values | | see section 7 |

### What is hard here

The hazards are listed one by one, with their lines, in `PROJECT.json`. They
fall into six groups.

1. The hand-over between three stores (stream, outbox, dead-letter table) by
   several threads that may die between any two steps.
2. A cache whose methods are atomic one at a time and are called in sequences:
   `get`, `is_dirty`, `clear_dirty`; `state`, `consume_recovery_publish`,
   `mark_all_dirty`. OpenDNP3 calls back between any two of them.
3. A flag set in one place and cleared in another (breaker, `_stale_announced`,
   `_refresh_pending`, `_ready`): the last event that could clear it may be past.
4. What a restart forgets (counter, pending request, breaker) and what it finds
   on disk.
5. Polls that outlive their cycle: `fut.cancel()` does not stop a running one. It
   meets the next poll of its device in the master registry, the session table
   and the cache, also after `forget_devices` or `close`.
6. Damage that is partial: one device of a list, one chunk of a range, one group
   of a baseline.

## 2. Modules

| Module | Models | Extends |
|---|---|---|
| `Outbox` | class `Outbox`: its tables and each method as one operator | |
| `Delivery` | `poll_device`, `ResilientPublisher`, `OutboxRetrier`, the broker as its callers see it, shutdown, restart | `Outbox` |
| `AtLeastOnce` | the promise of the delivery path, without threads, breaker or restarts; `Delivery` implements it | |
| `Connection` | the life of `JetStreamPublisher`: connect, background reconnect, callbacks, close | |
| `BrokerLink` | what `Delivery` assumes of a publisher: usable or not, and unusable once closed; `Connection` implements it | |
| `DeviceCache` | one `_DeviceCache`, its callbacks, `read_device` and the publish loop | |
| `Polling` | the main loop, `run_poll_cycle` with its pool, `due_devices`/`mark_read`, the registry of masters and its close | |
| `ConfigState` | `_run_config_refresh`, the configuration part of `GatewayState`, the cache file, the refresh-all counter | |
| `LegacySessions` | the session table of `Dnp3TelemetryReader`, its two kinds of lock, evictions, forget_devices, close | |
| `LegacyRead` | what `read_device` of the legacy adapter reports, poll after poll, in the four strategies | |
| `ReadPlan` | the direct reads of one object group: sparse, range, chunks, fallback | |
| `Health` | status and HTTP code of `/health` as functions of the snapshots | |
| `ConfigParse` | `_parse_gateway_config` and its helpers | |
| `Operators` | the last three applied to sets of inputs | `ReadPlan`, `Health`, `ConfigParse` |
| `MC...` | instances and symmetry sets for TLC | the module named |
| `..._proofs` | the theorems about the module named: every module with state has one, and `Operators` for its functions (`Outbox` is part of `Delivery`) | the module named, and TLAPS |

How they fit together: `Polling` decides which device is polled when, `DeviceCache`
(or `LegacySessions` and `LegacyRead`) what a poll reads, `Delivery` what becomes of
the readings, `Connection` when the broker can be used, `ConfigState` which
configuration all of them see. Each module keeps of its neighbours only what they
can do to it, as a nondeterministic step: `BreakerSkips` in `Polling` stands for the
breaker of `Delivery`, `Publish` in `DeviceCache` for a publish that may fail,
`BrokerNotReady` in `Delivery` for an unusable `Connection`.

Definitions named "Mutant of ..." are plausible mistakes in the code. Replacing
the definition after them by the mutant must break the property `PROJECT.json`
pairs it with; they take no part in any specification.

### Delivery

A step ends where another thread can see a difference: at the broker call, at an
`Outbox` method (each holds the lock and is one transaction) and at a write of
the breaker flag. `publish` is thus up to three steps: `PublishAcked`,
`PublishNotReady` or `PublishFailed`; then `EnqueueFailed` or `EnqueueRaises`;
then `ClearBreaker`, `TripOnFull` or `TripOnIoError`. `_run` is modelled the
same way, and `RetrierDies` is the sqlite3.Error nothing catches.

- Messages stand for `message_id`s, which are fresh uuid4 values. A poll turns
  any non-empty set of new ones into readings, published in any order.
- An element of `Devices` is a running `poll_device` task. A cycle that gives up
  on a task leaves it running, so a device polled twice at once is two elements.
- `BrokerError` covers refusal and timeout: the stream may hold the message. A
  copy that reaches the stream after the timeout is not a step of its own; `stored`
  only grows and no guard depends on it.
- `run_poll_cycle` tests the breaker before it submits the tasks. `PollDevice` is
  that test and the read; the task may stay behind it while the breaker trips.
- In WAL mode a failing statement or commit is rolled back, so a method that
  raises leaves the tables alone. A crash keeps what was committed. A power loss
  under `synchronous=NORMAL` may undo commits; the comment in `_open_connection`
  accepts that, and it is not modelled.
- AUTOINCREMENT never reuses an id. Lengths of backoffs and waits are left out.
- The secondary publisher is never passed by `main.py` and is left out.
- `refusals` is a history variable: errors other than not-ready, per message.

### DeviceCache

Every method holds the cache's lock and is one step. `read_device` is one step
per call, with `pc` naming the next one; locals go back to their initial value
where the code uses them no more. `published` is what SCADA was last told.

- One device, and one poll task at a time. OpenDNP3 serialises the callbacks of
  a channel; frames come only between OnOpen and OnClose; OnOpen may come again
  without OnClose.
- Time is what the code compares: `last_update` is recent or old, `grace` running
  or expired. The clock does not step back, so the anchor comparison in `set`
  is always true.
- `overwritten`, `dropped` and `raced` are history variables. They name the three
  windows in which the code loses something, so that the properties say exactly
  that nothing is lost outside them.

### ConfigState

`update` is one step up to the release of the lock; the file is written after it
(`Persist`), and an OSError is swallowed (`PersistFails`) while any other
exception reaches the thread's handler (`PersistRaises`).

- A configuration is its `config_version`: devices, signals and `is_active` are
  replaced together with it. That the backend changes the version with the
  content is an assumption about the backend.
- `os.replace` is atomic. `Restart` may come at any point.
- Taking the request and `refresh_all_devices` are one step: the adapter catches the errors
  of each device. Any other exception between the two, which `main.py` logs, would lose
  the request; it is not modelled, nor is the dnp3py adapter, which ignores requests.
- The clock, the counter and `consecutive_failures` are bounded by constants.

### Polling

The main thread is a sequence of steps between the locks it takes: `state.devices()`,
`forget_devices`, `due_devices`, then the serial or the parallel path. A pool thread
polls by `Lookup` (without the lock), `EnsureMaster` (with it) and the end of its read.
Devices are their codes; the registry never compares addresses, so they are left out.
The order of the configuration's list is the constant `Order`.

- A poll given up by its cycle (`lost`) runs on, and so does one of a pool that was
  replaced by a larger one (`old`). `NWorkers` bounds the threads alive at once.
- `device_timeout_sec` counts from the submission, which all polls of a cycle share, so
  it ends the wait for all of them at once, just as `cycle_timeout_sec` does.
- A device may hang: its read never returns (`hung`, chosen at the start). Reads of
  the others end. The interval of a device, a timeout and a read take any time.
- `is_active` and the test for readable signals are one flag. Updates end with the
  last cycle, after which nobody reads the configuration.
- The registry creates a channel and its master in one go or not at all. (An error
  between `AddTCPClient` and the entry into `_masters` would leave a channel open
  until `close`; that is not modelled.)

### Connection

Between two awaits a coroutine is one step. The main thread's waits may time out, which
is an action of its own (`StartReturns`, `CancelTimesOut`, `DisconnectFails`). The
connection of `_nc` is open, lost (not yet reported), reconnecting, reopened (not yet
reported) or closed. `close()` may leave one open: the first connect may end under it
(`_connect_safe` is never cancelled), or one of its two waits may time out. It is the test
of `_loop` in `publish` that keeps such a client from being used (`ImplementsLink`).

### LegacySessions and LegacyRead

`LegacySessions` is about one device: sessions of different devices share nothing but
`_sessions_lock`. Every lock is modelled; a read is two steps, so that anything may happen
while it holds the session's lock. `LegacyRead` leaves the threads out and follows the
data: `value` is what the outstation has, `cache` the event cache, `reported` what the
backend was last told. A read brings any subset of the points, which covers failing
chunks, missing indices and groups not asked for after the link broke; which subsets the
chunking really brings is `ReadPlan`'s subject. A single read is taken to be answered with
the point it asks for. Strings (group 110), which are always reported as 0.0, are left
out. A publish may fail for any of the readings, as it may when `OutboxFullError` ends the
loop: the event cache has absorbed them by then, and later polls say no_change until the
point changes or a baseline comes. `hidden` is a history variable: the cached points nobody
has been told of. `Inactive` in `LegacySessions` is a configuration that `run_poll_cycle`
does not act on (not active, or without signals): it forgets nothing then.

### Operators

`ReadPlan`, `Health` and `ConfigParse` have no state. `Operators` picks any input of a
bounded set and its invariants compare the result with what the function is for. In
`ConfigParse` a raw field is a number, missing, garbage on which `int()` raises a TypeError
or ValueError (an empty list is told apart, because `or` replaces it), or infinite: `1e999` is
valid JSON, and `int()` of it raises an OverflowError, as `float()` does on a whole number
beyond its range. Fields are evaluated in the code's order, and the first error decides: a
ValueError costs the item, an OverflowError the whole configuration. The run enumerates the inputs of the bounds in `MCOperators.cfg`;
the theorems (section 5) hold for inputs of any size.

## 3. Runs

Passing runs:

| Run | Instance | Distinct states | Question |
|---|---|---|---|
| `delivery` | 3 messages (1 always refused), 2 tasks, 2 rows, 2 retries, batch 2, failing SQLite | 750 000 | is anything lost, doubled, reordered, set aside without cause; is the promise implemented; does the outbox drain |
| `device_cache` | 2 points, 2 values, failing publish | 1 660 000 | is SCADA's view right outside the named windows |
| `device_cache_live` | 1 point, 2 values, failing publish | 82 000 | are values published and silences announced |
| `config` | 2 versions, counter to 2, 3 instants, failing disk, counter resets | 220 000 | do disk, age and error agree with what was fetched; do configurations and requests get through, once |
| `polling` | 2 devices (1 may hang), 2 pool threads | 270 000 | do cycles and the shutdown end, is every device read, does the registry own its channels |
| `connection` | the publisher itself, no parameters | 242 | is it usable only over a client, does it reconnect, does it stay closed |
| `legacy_sessions` | 2 polls, 2 addresses | 209 000 | are connections closed once and not under a read; can the two locks deadlock |
| `legacy_read` | 2 points, 2 values, 2 addresses, 4 strategies, failing publish | 12 400 | is what is reported true, kept and up to date in the end |
| `operators` | see `MCOperators.cfg` | 762 000 | do plan, status and parser do what they are for |

Why these bounds: two rows fill the outbox with one message left to overflow it;
two retries make a first and a last failure; a batch of two has a row behind the
failing one. Two points allow one received and one not, two values a change and a
change back. Two requests allow one while the other is pending; three instants
tell change, refresh and restart apart. Two devices make a cycle parallel, one of
them due alone makes it serial; two threads allow a given-up poll beside a new one.
Two polls of one device and two addresses allow a late poll of the former address.
`Indices` in `operators` reaches past a chunk of group 30 and past the sparse ratio, and
the raw numbers lie at and beside the ends of every range; both lists of a payload reach
one item past their limit. Deadlock is checked
except in `polling`, `legacy_sessions` (the process ends) and `operators`.

What the properties say:

- `NoSilentLoss`, `ImplementsPromise`: after `publish` returned, the message is in the
  stream, the outbox or the dead-letter table, through every failure.
- `QuarantineEarned`, `OldestFirst`, `Drains`: the retrier, which works on rows fetched
  many broker calls ago, sets aside only what was refused `MaxRetries` times, keeps the
  order, and gets past a message that is always refused, unless an SQLite error has ended
  its thread.
- `EstimateNeverOver`: enqueue never refuses while there is room.
- `OnlineIsCurrent`, `LossAnnounced`: SCADA's view of an online and of a lost device.
- `ValueIsPublished`, `SilenceIsAnnounced`: a value of an online device reaches SCADA or is
  replaced; a device that falls silent is reported even if OnClose never comes. Both
  except what a refused publish or a named window of the code loses.
- `DiskFollows`, `AgeNeverUnderstated`: what a restart finds and what `/health` reports.
- `RequestServed`, `ServedOnce`, `Converges`: no request is lost, one that was served is
  served again only by a process that has served none, and both requests and
  configurations get through across restarts.
- `ChannelsOwned`, `ZombieGone`, `LinkKept`: whatever polls that were given up do to the
  registry, a device has at most one channel, a removed device loses it, a configured
  one keeps it, and none is open after `close`.
- `CycleEnds`, `EveryDeviceRead`, `StopEnds`: a parallel cycle ends although a device
  hangs; without hanging devices all are read for ever, and a stop request ends
  everything.
- `UsableIsBacked`, `OneReconnect`, `ImplementsLink`, `Reconnects`: two
  mechanisms reconnect (the client's own, and a task before the first success); they
  never run side by side, one is always at work unless the server has closed the
  client, and nothing makes a closed publisher usable.
- `ConnectionsOwned`, `NotClosedUnderRead`, `ReadsItsAddress`, `NobodyWaitsForever`,
  `TableFollows`, `DeadLinkReplaced`: the session table under late polls. Evictions go
  by device code and may hit a newer session; they still close it properly.
- `CacheIsReported`, `NewsIsTrue`, `GoodIsKept`, `Converges` (in `LegacyRead`): no_change is
  said only of what is known, what changes the backend's view is true, and failing reads
  do not spoil it; a value whose publish was refused is the main exception to the first two.
- `FillsWhatAnswers`, `RequestsBounded`: every index the outstation has is read, within
  the limits on the size and number of points asked for.
- `WorseNeverBetter`; `DeviceUsable`, `DamageIsLocal`: the status never improves with one
  more problem; the parser's numbers fit DNP3, and a damaged item costs only itself,
  unless a number in it overflows.

The type invariant of every module with state, and the invariants the others rest on, are
not repeated in the runs: they are proved (section 5).

Runs that show a difference between the code and what it says of itself (the
quotations are in `PROJECT.json`, "findings"):

| Run | What happens |
|---|---|
| `breaker` | an SQLite error in `enqueue` sets the breaker over an empty outbox; nothing publishes any more, so nothing clears it and polling stays off |
| `needless_refresh` | a refresh-all request is served, the process restarts with the counter at 0, and the first reply has the request served again |
| `others_unaffected` | a device that hangs while it alone is due holds the main thread, which has no timeout on the serial path; in the pool, hung reads keep their threads |

More differences follow from the models. They have no run of their own: the
properties above name them as exceptions, or TLC shows them when an assumption is
lifted.

- An SQLite error in `delete`, `mark_retry` or `move_to_dead_letter` is outside the try
  blocks of `_run` and ends the retrier thread; the outbox is not drained until a restart
  (the exception in `Drains`).
- A value stored between `get` and `clear_dirty` loses its mark unpublished (`overwritten`
  in `OnlineIsCurrent`), although the class calls itself lossless.
- A reading `publish` refuses is not read again, since its mark is cleared before the
  publish (`dropped`), although a comment says it is cleared after a successful one.
- A link that closes between `state` and `consume_recovery_publish` leaves good values
  of a lost device, and later reads say no_change (`raced` in `LossAnnounced`).
- After `fail_recovery` with the link open, frames no longer bring the device online;
  only another OnOpen does.
- A reading that `publish` refuses stays in the event cache of the legacy adapter, which
  takes it for known (`hidden` in `CacheIsReported`).
- An infinite number, or a factor beyond the range of a float, in one device or signal
  raises an OverflowError that neither `_safe_int`, `_safe_finite_float` nor the loops
  catch (`config_client.py`, lines 336, 352, 452, 515): the whole answer is refused and the
  gateway stays with the configuration it has (`DeviceTooLarge` and `SignalTooLarge` in
  `DamageIsLocal`). The docstring of `_safe_int` promises the default.
- The file is written only when the version changes, so after a restart the reported
  age counts from that change: `AgeNeverUnderstated` is an inequality. A write that
  failed is not repeated by later refreshes of the same version (`unwritten`).
- Masters of the yadnp3 adapter are keyed by device code. A changed address of a known
  device is not applied until it is removed or the process restarts; the legacy
  adapter compares the address and does follow (`TableFollows`).
- When the server closes the NATS client, nothing reconnects it (`Reconnects`).
- A baseline whose reads all fail counts the cache as absorbed and publishes the old
  values as good; the branch for that case cannot be reached. They are no news to
  the backend (`NewsIsTrue`), but they are said to be good.
- `forget_devices` of the legacy adapter leaves the cache of a device whose session was
  evicted, though its comment says it cleans both (`hidden`).
- `/health` says starting, with 200, as long as no configuration has come, also when the
  outbox is full (`config_ready` in `Health`).
- Codes longer than the limit are cut, so two devices may end up with one code.

## 4. Fairness

- `Delivery`: weak fairness of the retrier and of each task: their loops run and
  every broker call has a timeout. `Settles` says of the surroundings that from
  some point on the connection is up and the process runs. Fairness of acks is
  not assumed: a message refused again and again is set aside in the end. Nor is a
  working SQLite: `Drains` excepts a retrier that an SQLite error has ended.
- `DeviceCache`: weak fairness of the poll task (the main loop polls for ever), of
  the second half of an OnOpen that has begun, and of the passage of time. Not
  assumed: that links open, that frames come or that publishes succeed; a refused reading
  or comm_lost is not sent again, so the properties except it (`dropped`).
- `ConfigState`: weak fairness of the thread and of the main loop, which calls
  `take_refresh_request` before every cycle; strong fairness of `FetchConfig`: a
  backend asked again and again answers in the end. Finitely many restarts.
- `Polling`: weak fairness of the main thread, of the pool (a free thread takes a queued
  poll), of each running poll unless its device hangs, and of the intervals. A
  cycle that times out is not excluded: `EveryDeviceRead` is about behaviours in which
  cycles stop timing out.
- `Connection`: weak fairness of callbacks and of the task's steps; strong fairness of
  attempts on a broker that is reachable again and again. Not assumed: that links hold.
- `LegacySessions`: strong fairness of each poll and of the main thread, because a lock
  that is free again and again is taken in the end; the library's calls return.
- `LegacyRead`: time passes, removed devices are forgotten, and a device polled again
  and again in the end answers completely and has all its readings published (strong
  fairness of such a read).

## 5. Proofs

Assumptions: `MaxPendingAssumption`, `DeliveryAssumption`, `DeviceCacheAssumption`,
`ConfigStateAssumption`, `PollingAssumption`, `ConnectionAssumption`,
`LegacyAssumption`, `IdsAssumption`, `LegacyReadAssumption`, `ParseAssumption`,
`OperatorsAssumption`; they give the constants their types and keep the special values
apart. `OperatorsAssumption` also says what the callers guarantee: indices as the parser
lets them through, chunks of at least one point and a sparse ratio of at least 2, as the
settings force. Where a count over rows is involved, finiteness of the table
follows from the type invariant (`Pending \subseteq 1 .. next_id - 1`).

Each proof shows that Init implies an inductive invariant and that every action
keeps it, one step per action and, below it, one per conjunct the action can
disturb; the theorems follow by PTL. The invariant is written in the component's own
module, as a conjunction of named parts, so that TLC can check it too.

- `DeliveryInv`. `NoSilentLoss` needs that an acked reading is in the stream when
  its publish returns (`TaskInv`) and that an acked row is when it is deleted
  (`RetrierInv`). `OnePlace` (a message has at most one row) needs that only returned
  messages have rows and that readings in a task's hands have not returned.
  `QuarantineEarned` needs `SnapshotFresh`: the count that was fetched is the one in the
  table and is smaller than `refusals` after a failure. `OldestFirst` needs that the batch
  is the oldest part of the table. `Refinement` maps every action to a step of
  `AtLeastOnce` or to a stutter. `Counted` and `CountedExactly` have an invariant of
  their own, which keeps the arithmetic on cardinalities out of the other proofs; the
  second says that without SQLite errors the counter equals the number of rows, so that
  the limit holds for any number of tasks.
- `CacheInv`. `OnlineIsCurrent` needs that a read that took the device for lost
  finds every point dirty if a frame confirms the recovery meanwhile (`DirtyInv`),
  and that the branch of `read_device` fits the state it saw (`BranchInv`).
  `LossAnnounced` needs that while SCADA has been told comm_lost an online device
  still has its recovery to be consumed (`AnnounceInv`). `RecoveryConfirmed`: a pending
  recovery belongs to an online device over an open link.
- `ConfigInv`. `DiskFollows` needs what the thread holds while it writes
  (`DiskInv`); `RequestKept` (a request that was seen is pending or served) and
  `NoneServedTwice` that, without resets, replies never go back and a process that has
  served a request knows its counter (`NonceInv`); `ErrorMatchesBackoff` that an error is
  recorded with every failure and cleared with every success.
- `PollingInv`. `ChannelsOwned` is inductive once it is known that the manager runs until
  `close()` is over: `EnsureMaster` looks again under the lock, and `ShutdownManager` is
  the last step. `OnePollPerDevice` (two polls of a device overlap only when one was given
  up) needs `CycleInv`: every poll in the pool that was not given up belongs to the
  waiting cycle, is still pending and no longer queued, and devices are queued once.
  That the next poll is one of the queue's rests on the order of `Nat` (`FirstIn`).
  `LinkIsKept` proves the temporal property `LinkKept`, and without fairness: while a
  device stays configured, only a cycle that had read the configuration before can forget
  it. Once the codes `forget_devices` is about to keep have it (`KnownAhead`) they always
  will; a cycle that never gets that far takes nothing away.
- `ConnectionInv`. `UsableIsBacked` needs that `_ready` follows the client's reports, and
  `OneReconnect` that nothing else exists before the first connect has ended.
  `LinkRefinement` maps every step to one of `BrokerLink`; it needs that `_loop` is
  emptied by `close()` alone. `SomeoneReconnects` (`OneAtWork`) is the safety part of
  `Reconnects`: until `close()`, or until the server closes the client, the publisher is
  usable or exactly one of the first connect, the background task and the client's own
  reconnect is at work. It needs `AttemptInv`: no attempt ends without a client or a
  successor.
- `SessionsInv`. `NotClosedUnderRead` needs that a session's lock is held by exactly the
  poll that reads from it (`LockInv`), `ReadsItsAddress` that a session somebody is
  about to read has not been given to another address meanwhile (`AddressInv`), and
  `ConnectionsOwned` that the table is empty when a new session is entered (`StepInv`).
  That there is always an unused identity for a new session is a pigeonhole argument over
  the threads (`SlotFree`): the bound on identities hides no behaviour. `NoDeadlock`
  (`NoCircularWait`) is the safety part of `NobodyWaitsForever`: the holder of
  `_sessions_lock` waits at most for a read, and a read needs no lock, so chains of waiting
  threads end. `WaitersStandStill` says that `WaitsFor` is what it is called: a thread that
  waits for another takes no step.
- `LegacyReadInv`. `GoodIsKept` needs, of the event-driven strategy, that every point
  whose value was reported is in the cache, and `NewsIsTrue` needs `CacheIsReported`. A
  refused publish is covered: its points are hidden until they are published.
- `Operators` needs no invariant beyond `TypeOK`; its theorems are about functions, for
  all catalogues, snapshots and lists. Inductions are on a set of numbers
  (`NatSetInduction`, from the least element of its complement), and the recursive
  functions are first shown to exist (`ChunksExist`, `FlattenExists`).
  `EveryAnswerIsCached` and `RequestsStayBounded` rest on the chunks covering the range
  (`ChunksCover`), `NoIssueHidesAnother` on the severity of `/health` depending on the set of
  issues alone (`SeverityIs`), `DevicesAreUsable` on an item without a raised error having
  none in its numbers (`NoErrorLeft`). `SoundDevicesComeOut` is about lists of any items:
  the raw fields decide what the loop makes of an item (`SoundDeviceIsKept`), and sequences
  of at most one element flatten to what there is, in order (`FlattenInOrder`, by counting
  the places before each). `DamageStaysLocal` follows from it and its counterpart for signals.

Only model-checked: liveness under fairness, that is every liveness property but
`LinkKept` (WF, SF and ENABLED are out of the prover's reach), and the three violations.

## 6. Plan

Done: all components with state are modelled, checked and have their safety properties
proved, and so are the functions of `Operators`. What could follow:

1. A composition of `DeviceCache` and `Delivery`: from a frame to the stream.
2. Two reads of one `_DeviceCache` at once, as given-up polls make possible. Their
   effects on the registry and the session table are in `Polling` and `LegacySessions`.

## 7. Not modelled

- `rabbit_publisher.py`: not constructed by `main.py`.
- The mock adapter, the adapter base class and the factory: random test data and a
  constructor choice, no state a property could be about.
- Settings, identity, headers and logging: read once at start, string handling.
- The start-up order of `main.run`, its wait for the first configuration, and the joins
  of the refresh and health threads, which are daemons: straight-line code.
- HTTP serving, authentication and the metrics counters of the health server; DNP3
  framing, link set-up and the NATS client: I/O and library code.
- Power loss under `synchronous=NORMAL`. A wall clock that steps back, which delays the
  confirmation of a recovery (`dnp3_yadnp3_master.py`, line 158).
- The order in which SCADA sees a reading published directly and older readings of the
  same point that wait in the outbox (`resilient_publisher.py`, line 124): `Delivery` does
  not relate messages to points. Consumers have the time stamp in the message.
