# Specifications of rszigbee

TLA+ specifications of rszigbee, a Zigbee stack in Rust, checked with TLC and
proved with TLAPS. Paths below are relative to the repository; `core` stands
for `src/crates/rszigbee-core/src`.

## The system

One coordinator stick (an EmberZNet NCP on a serial line) speaks for a Zigbee
network. The adapter crate turns its protocol into a small trait; the core
runtime owns the adapter, keeps the devices, and answers application handles;
an MQTT layer and a gateway sit on top.

| Component | State | Operations | Talks to |
|---|---|---|---|
| Runtime task (`core/runtime/task/mod.rs`) | the device table, two ledgers of pending requests, sequence numbers, counters | one `select!` over requests, adapter events and a one-second tick; start; shutdown | handles by an mpsc channel of 64, subscribers by a broadcast channel, the adapter by calls and an event channel |
| Device table (`runtime/inventory.rs`, `task/devices.rs`) | records by IEEE address, a reverse index by short address | joined, left, address moved, persist, restore | adapter events, the store, events |
| Request correlation (`task/transport.rs`, `task/inbound.rs`) | pending ZDO requests and ZCL reads by (cluster, sequence), one-byte counters | send, answer, expire, drain at shutdown | callers by oneshot channels |
| Network record (`task/provisioning.rs`, `store.rs`) | network identity and frame counter on disk, the task's copy of the latter | record at start, top up at ticks and at shutdown, refuse a foreign coordinator | the store, the adapter |
| File store (`store/file.rs`) | one file per record | atomic write, delete, load with quarantine | the file system |
| Interview (`runtime/interview.rs`, `task/provisioning.rs`) | what is learned of a device; its interview state in the table and the store | node descriptor, endpoints, simple descriptors, basic attributes; updates to the task | a task of its own, using a handle like any caller |
| Reachability (`reachability.rs`, `task/availability.rs`) | per device evidence, verdict and next check | traffic, command results, probes, ticks; the policy is injected | events |
| Commands (`task/commands.rs`, `definitions/`, `tuya.rs`) | none of its own | plan a capability command, send it, report the outcome; read reports and datapoints | the adapter, events |
| Configure plan (`task/provisioning.rs`) | none of its own | bind and configure reporting, counting what failed | the adapter |
| Adapter helpers (`rszigbee-adapter`) | the correlator's waiters | register, resolve, cancel | adapters |
| Ember adapter link (`connection.rs`, `lib.rs` of `rszigbee-adapter-ember`) | session, command, callback and event channels | one command at a time, poll, forward and translate callbacks, stop | the EZSP driver (an external crate), the runtime |
| Ember bring-up (`bringup.rs`, `form.rs`, `session.rs`) | none of its own | open and negotiate, configure, resume or form | the link |
| Device definitions (`rszigbee-devices`, `runtime/definitions/mod.rs`) | a static catalogue and its index | match what an interview learned to a definition | the runtime |
| Codecs (`rszigbee-spec`) | none | ZCL, ZDO and Tuya encode and decode | everything |
| MQTT layer and gateway (`rszigbee-mqtt`, `rszigbee-gateway`) | the state cache, the queue of the client | events to payloads, messages to calls, a loop over the broker and the runtime's events, a will | broker, runtime |

What is hard in it: the task is a single loop, but it awaits the adapter and
the store inside its handlers while channels fill; answers come late, twice or
never and are matched by a byte that wraps; addresses move between devices;
interviews run beside the loop and may be two at a time for one device;
everything stored may be half-done at a crash.

What makes each component correct:

* device table: an event is attributed to the device that caused it or to
  nobody; the reverse index never contradicts a record; what subscribers are
  told adds up to the table; a restart loses and resurrects nobody, the
  coordinator least of all.
* correlation: a call is settled once, with the answer to its own frame, and
  never left hanging, whatever the radio and its caller do.
* network record: a record never changes hands, and the stored counter never
  falls and is above what was sent, which the code keeps up to the last tick.
* store: a record is the old one or the new one.
* interview: a success has endpoints, they are what one interview found, and
  every device that is interviewed is left with a verdict, unless a crash
  comes between.
* reachability: a verdict rests on frames heard by this process, is told to
  subscribers, and is looked at again in time.
* adapter link: callbacks arrive once and in order; nothing waits for ever, and
  the port is closed in the end.
* definitions and commands: a device is read and commanded by the definition
  that is its own by what is known of it; nothing is sent that its definition
  does not allow; what was commanded reads back as what was asked, which the
  covers of one kind do not.
* gateway: what it shows of a device adds up to what was reported; requests to
  the bridge are answered; a gateway that is gone is not shown as online.

`PROJECT.json` lists every hazard at its source line, with the properties that
cover it or why none does yet.

## Modules

| Module | Models | Abstract specification |
|---|---|---|
| `Inventory` | operators of `runtime/inventory.rs` | |
| `DeviceTable` | joins, moves, leaves, frames, persistence, restart | |
| `Calls` | what a handle promises its callers | is one |
| `Requests` | both pending ledgers | implements `Calls` |
| `AtomicStore` | what a store promises | is one |
| `FileStore` | `store/file.rs`, step by step | implements `AtomicStore` |
| `NetworkRecord` | network identity and frame counter | |
| `Interview` | interview tasks, their updates and the records | |
| `Reachability` | evidence, verdicts, checks, two clocks | |
| `EmberLink` | connection task, callback pump, runtime, and the channels between them | |
| `Matching` | the index of definitions and which of them a device has | |
| `Definitions` | operators: sources, scales, names, and a command over clusters | |
| `Datapoints` | operators: Tuya datapoints both ways, and behaviours | |
| `Commands` | interviews, commands, reports and configure plans of one device; composes the three above | |
| `Gateway` | the gateway's loop, between the event stream and a broker | |
| `*Proofs` | theorems of `DeviceTable`, `Requests`, `FileStore`, `NetworkRecord`, `Interview`, `Reachability`, `Commands`; `EventPathProofs` has those of `EmberLink` and `Gateway` | |
| `MC*` | values of the constants for TLC | |

The modules share the runtime loop and split its state: each has the handlers
that read or write its own variables, and takes from the others only what it
needs to know. `Interview` relies on questions being answered or timing out,
which `Requests` shows; `DeviceTable` and `Interview` let a store write happen
or fail as a whole, which `FileStore` shows; `Reachability` takes joins and
leaves by the device, which `DeviceTable` attributes. All of them assume that a
command to the adapter returns, which `EmberLink` looks into, and that the
events of the radio come through a channel in order, which it shows.
`Commands` takes what an interview learns as it is, whole or in part, and
`Gateway` takes a stream of events as `runtime.rs` promises one, gaps included.

An operator or action that a comment calls a slip is not part of any
specification: it is a plausible mistake, used to show that a property would
notice it (`PROJECT.json`, "mutants").

### Inventory, DeviceTable

A table is a record of the address each device's record holds and the reverse
index; `Insert`, `SetNwk`, `Remove` translate the three operations, `Restored`
the loop in `spawn`. In `DeviceTable` the network is external: a device takes
a free short address, leaves, or loses power silently, and the adapter reports
joins, leaves and frames through a FIFO channel. `OnJoined`, `OnLeft` and
`OnZcl` are the handlers, `Persist` the write that ends every interview
update, `Restart` a new process on the same store. Every store write may fail.

* `device_table`: the coordinator keeps its record (a part of
  `TypeOK`); the index stays sound; a
  subscriber folding the events has the table's addresses; an event from an address that one record holds goes
  to its sender or nobody; a device whose latest write went through is in the
  store exactly if it is in the table.
* `resolve_known` (violation): a frame from the address in its sender's own
  record may resolve to nobody, because a device that moved away deleted the
  index entry. The property fails in a second way, by a device that returns to
  its address and is taken for the one that borrowed it (`inventory.rs:107`).

Two devices are enough for the index to be contended, two free addresses for
moves; two events in flight let a join, a frame or a leave of one device
overlap with those of the other. The two address properties that restarts
would void for want of the events missed speak of a runtime that missed none
(`downtime`).

### Requests, Calls

A call goes from `new` to `queued` to `waiting` to an outcome, or to `gone`.
`Send` is `send_zdo`/`zcl_read` from the lookup of the device to the ledger
entry; it is one action because the loop handles no event while it awaits the
adapter. `Receive` is an answer to any frame ever sent, so loss, delay,
repetition and reordering need no actions of their own. `SendOther` and
`Probe` are the frames nothing waits on: they take sequence numbers, or use 0,
and their answers arrive too. `Expire` is the tick, `Shutdown` and `TaskEnds`
the two halves of the end of the task.

* `requests`: what a caller is given is the answer to a frame that carried the
  number of its own, never its own request looped back (`AnswersAreOwn`); it is
  told of a stop only when there was one, or when a later request took its
  number (`StoppedOnlyWhenStopped`); it does not wait on a stopped runtime; it
  is answered at most once and never differently (`Answers`, the safety part of
  `Calls`); every call settles, and the entries of callers that went away drain.

Two calls and one other frame, over sequence numbers of two values, which wrap
under pending entries after two frames, and a queue with room for both calls:
replaced entries and late answers to a number used again both occur. What the
code promises of a number used again is what the two exceptions say: a late
answer of one device does settle the request to another
(`task/inbound.rs:123` looks at cluster and sequence number alone).

The run may stop (`CHECK_DEADLOCK FALSE`): a task that returned does nothing.

### FileStore, AtomicStore

A write is five steps (create or truncate the temporary file, write, fsync,
rename, fsync the directory). Any of the first four may fail and end it; the
fifth may fail too, and the code ignores that. A power loss picks, for each
name, one of the inodes it may stand for since its directory was last fsynced,
and for each inode one of the contents since its own fsync. Deletions, and the
quarantine of a record that cannot be read, are not followed by an fsync.
`AtomicStore` has a record that changes in one step and a set of values a
power loss may leave.

* `file_store`: every reader, and every power loss at every step, finds what
  the record last certainly held or what was put in its place since; and the
  directory implements `AtomicStore`.

Two records show that one is not disturbed by the fsync of the other; four
inodes are those in place, the one being written, and one more whose rename a
power loss may undo. One writer, because the runtime task writes one record
at a time. Two handles on one directory would share the temporary name
(`store/file.rs:333`): the model takes any number of `Writer`s, with two of
them `OldOrNew` fails, and the theorems assume one (`OneHandle`).

### NetworkRecord

`stick` is the coordinator with its network and live counter, `store` the
record, `known` and `persisted` the task's fields. `Transmit` advances the
live counter, also while the process is down. `Start` forms a network when
there is none and the policy allows it, then refuses a foreign record. `Reset`
erases or swaps the stick. Any call to the store or the adapter may fail.

* `network_record`: the task's copy of the stored counter is the stored
  counter; after a tick without a failing call the stored counter is above the
  live one, and until the next it falls behind only by frames sent since
  (`LagBounded`); the counter stored for the network in use never falls; a
  record is never overwritten on behalf of another coordinator. Of the network
  in use: after a stick formed a new network, the record of the old one stays,
  and the first tick writes the new, lower counter into it.

A margin of two frames, three frames per tick and counters up to twelve use
the margin up several times and reach the top, where the addition saturates;
two sticks and two networks swap both.

### Interview

A job is an interview: its device, where it is (`Update` or `Question`) and
what it found; `queue` is the request channel, with room for one. An interview
never waits for an update to be applied, only for room. `OnJoined` may start a
second interview beside a first; `OnLeft` does not end any; `Down` takes the
channel away, and with it every interview at its next call.

* `interview`: the endpoints of a record change only to all those that one
  interview of the device found, and not to none (`EndpointsComeWhole`); a device
  is not left marked as being interviewed by nobody, but by a restart
  (`MarksAreEnded`); and
  a device that was interviewed settles, also over a full channel, unless the
  runtime stops. A later interview that could describe fewer endpoints does
  replace more by fewer (`provisioning.rs:288`): the property allows it.

Two interviews of one device are what can interleave; a second device shares
nothing with the first but the channel, which room for one request contends.
Two endpoints let one be described and the other not.

### Reachability

`entry` has the evidence the policy sees, the verdict and the next check;
`due` is the list of checks a tick collected. Both clocks are relative to the
present: silence is an age on the wall clock, which `SetClock` moves, a check
a time to wait on the monotonic one. The default policy is `Silence`; devices
outside `BySilence` are judged and probed in every way a policy could, so what
holds of them holds under any injected policy. A probe is awaited, so nothing
else is handled while `due` is not empty.

* `reachability`: a subscriber's belief is the runtime's; a verdict of the
  default policy rests on a frame this process heard; a reachable device is
  looked at when its silence reaches the limit, give or take the steps of the
  wall clock; a device that falls silent does not stay reachable.

A limit of two units separates "just heard", "in between" and "silent"; one
step of the clock is enough for an age below zero and beyond the limit; one
device of each kind, because devices share only the tick.

### EmberLink

`task`, `conn` and `pump` say what the three tasks are doing, `ncp`,
`batch`, `callbacks`, `held` and `events` hold the callbacks on their way, by
number. The specification is `LinkSpec`, or `LinkFairSpec` with fairness. The connection task serves the one command the runtime can have on its
way, or polls; then it forwards what it read. `ConnPollFails` is the port going
away, also while a command is being queued. `Started` spawns the pump, so
during the bring-up nobody drains the callbacks. `BeginStop` drops the session
and `FinishStop` sends the last event.

* `ember_link`: callbacks reach the runtime once and in order; a command and a
  stop return, and callbacks arrive, unless a full channel holds them up; the
  port is closed after the runtime ended, whatever is left in the channels.
* `ember_link_stuck` (violation): a stop waits for room in the channel that its
  caller should empty, where a comment says that a full channel drops.

Room for two in each channel, and seven callbacks: enough to fill both
channels and the pump, with one more to wait for and one that is dropped, so
that `Circle` and `StopWaits` both occur. In the code the rooms are 64 and
512: the circle needs as many callbacks within one handler, which a handler
that waits out several timeouts in a busy network may see.

### Matching, Definitions, Datapoints, Commands

`Matching` has the index (`ByModel`, `Candidates`), fingerprints (`Matches`)
and who wins (`Resolve`): the best claim of a fingerprint (`Best`, `BestWith`),
or the first that lists the model (`Listing`). A string is a name, with or without capitals, padded
or not. `Definitions` has what the entries of a definition read and allow,
`Datapoints` the Tuya ones, in both directions. `Commands` puts them on one
device: `identity` and `layout` are what it is, `basic` and `known` what the
inventory has learned, `def` the definition that is due by that; `mem` is what
the device has at each place, an attribute or a datapoint, `wanted` what was
commanded of it, `shown` what subscribers were told. `Interviewed` learns some
or all and starts the plan that follows a success; `RunCommand` plans and sends a
command, which the device obeys as the standard says; `Changes` is somebody at
the device, `Report` a report in due course; `Configure` starts a plan on
demand and `Step` carries out one entry of it, or fails.

* `commands`: the definition in use is the one whose position in the catalogue
  is `Rightful` for what is known (`ItsOwnDefinition`), which says who wins
  without the index, the order of its candidates or a loop; no command
  becomes a frame the definition does not allow, nor a schedule one without a
  day (`NothingGuessed`); what a device was told reads back as what was asked
  (`CommandsReadBack`); and a plan asks for everything it should, whatever of
  it fails (`PlanIsWhole`).
* `commands_mirrored` (violation): a cover reads back the position it was
  commanded (`CoversReadBack`). "A caller asking for a position means
  'percentage open'" (`definitions/commands.rs:58`): the value is flipped on the
  way out for a cover that is not inverted, and what it reports is passed on as
  it is (`sources.rs:181`), so that it is told to be open when it was closed.

The catalogue of the runs (`MCCommands`) has a definition of each kind and of
every way to be found, two that the index must refuse and one that nothing
finds; the layouts suit them or lack what they name; the identities differ in
padding, capitals, maker and version. Percentages go to 2, a byte to 4, a
two-byte value to 8: zero, the top and the value above the top that means "no
reading" are all different, and so are a value and its mirror. A temperature,
or a number somebody sets, may lie between two whole ones; a name that is set
may be any of those for "on", "off" and "toggle", or none. `Days` are the names
of a schedule that end in a day.

What was asked (`Asks`) is taken from the caller's command, before anything is
rounded or flipped: a temperature with its fraction, how far open a cover
should be, and all of the way for one told to open or close. What is told has to
be that to the nearest unit (`Near`), which is what the code rounds to before a
datapoint's scale is applied (`tuya.rs:224`). A cover that is not inverted, and
it alone, is told of as the mirror (`Told`): the property says that it is
exactly the mirror, `CoversReadBack` that it should not be. Levels above the top
are cut to the top, which is where the command types put them (`command.rs:28`,
`:132`).
`CommandsReadBack` is stated for definitions that say one thing of each place a
command writes (`Unambiguous`). Seventeen of the 4473 in the catalogue do not:
fourteen number a datapoint twice, one gives a number two names, two read the
attribute that an extension of theirs commands. Somebody changes the
device only when no plan is under way, and its report is read by the
definition of that moment: reports in flight across a change of definition are
not modelled. An interview, or a plan asked for, comes before the first
command. A scale above one stands for the scales of the code, which are powers
of ten: what is checked is the order of the operations and the direction, not
the arithmetic of large numbers.

### Gateway

`feed` is the stream of events with its gap (`lagged`), `todo` what the handler
under way still has to queue, `queue` the client's queue, `link` the connection
and `connected` what the client believes of it, `subscribed`, `retained` and
`shown` what the broker has. `Receive` and the `Poll` actions are the branches
of the loop; a handler queues (`Queue`) and, for a message, calls the runtime
(`CallReturns`) before the loop goes on. The client library and the broker are
external: the queue is drained by polls alone, a lost connection takes it with
it, a new connection starts without subscriptions.

* `gateway`: once all is quiet the last payload of a device has all its
  readings, but for those whose report fell into a gap, and a payload that was
  lost is made up for by the next of its device (`PayloadsAreComplete`); a
  gateway that is gone or waits for ever is not shown as online
  (`GoneIsShown`); the end of the runtime ends it, everything received
  (`StopEndsIt`); a request to the bridge is answered, also one it refuses
  (`RequestsAreAnswered`). The last two except a gateway that is stuck on its
  own queue, which is what happens when the broker is away for long.

One device with two readings, so that a payload can be incomplete; a stream
with room for two (1024 in the code) and three events, so that a gap occurs; a
queue with room for three (64), which two subscriptions fill but for the
message that it is online, so that the loop gets stuck; one lost connection
and one message. The gateway may end, hence `CHECK_DEADLOCK FALSE`.

## Fairness

Weak fairness of the runtime's own steps: tokio's `select!` picks at random
among ready branches, so a branch that stays ready is taken. It is assumed
that the calls of the adapter and the store return, as the code does (no
timeout guards them; `EmberLink` shows when one does not), and that time
passes: deadlines, ticks and checks come.
Room in the request channel is given to waiting senders by turns (tokio's
semaphore is fair), which is strong fairness of an interview's sends. Nothing
is assumed of devices, callers, the radio or the application, and restarts and
crashes are never forced. In `EmberLink` a handler and a bring-up send finitely many
commands, and a ready branch of the `select!` is taken again and again, which
is strong fairness of their ends and of taking an event. In `Gateway` fairness
is weak throughout: polls make progress, a broker that is away comes back, and
it notices a client that sends no pings; lost connections, messages and the
end of the runtime are never forced. `network_record`, `device_table`,
`file_store` and `commands` check safety only and assume no fairness.

## Theorems

All are for any values of the constants, from the assumptions named in the
modules (`ASSUME`) and, where a theorem says `ASSUME ... PROVE`, from what is
said there. None assumes fairness. What fairness is needed for has a safety
half: that nothing is forgotten on the way, or that only what is named can stand
in the way. Those halves are proved too. Where no run checks them, they, and that
a verdict stands on endpoints (`SuccessHasEndpoints`), are
stated in the proof module, beside their theorem (`HeldOnce`,
`OnlyFullChannelsStop`, `FullChannelsStayFull`, `OnlineIsConnected`, `EndsLast`,
`RequestsAreKept`, `SilentForGood`), after TLC found each to hold on the instance
of its component's run.

* `DeviceTableProofs`: `TypeCorrect` (with the coordinator's record, which no
  address a device may take displaces), `IndexIsSound`, `EventsTellTheTable` by
  one inductive invariant, the conjunction of the three; each operation of the
  table has a lemma that it keeps the table's type and a sound index.
  `StoreAndTableAgree` is inductive beside it. `NobodyElsesFrame` is for
  adapters that name the IEEE address in joins and leaves, as the Ember adapter
  does. It needs to know what the channel will have done to the table by the
  time an event is handled (`Follows`): every frame follows its sender's join
  at that address, in the channel or handled already, with nothing of the same
  device between, which each new event and each handled one preserve.
* `RequestsProofs`: `Typed`, `AnswersOwn`, `ToldStopped`, `NobodyWaits`,
  `HoldsWhatItOwes` and `KeepsThePromise`, the refinement of `Calls`. The
  invariant says that a call is in the channel exactly while it is queued
  (`QueueInv`) and in the ledgers exactly while it waits, under one key, the
  number of a frame sent for it (`LedgerInv`). The step that replaces an entry
  is the one that needs the exception of `StoppedOnlyWhenStopped`.
  `HoldsWhatItOwes` reads the two together: a call that is owed an answer is
  held in exactly one place, an answered one in none, which is what
  `EveryCallSettles` starts from. For the refinement, every step leaves the
  calls alone, moves one of them, or answers some that were open.
* `FileStoreProofs`, for one handle: `NeverTorn` and `ActsAtomically`, the
  refinement of `AtomicStore`. The invariant says that the inode under a
  temporary name has no other name (`Apart`), and that every inode a name may
  stand for, now or after a power loss, is whole, durable and one of the
  contents expected (`Named`); the fsync before the rename is what makes the
  second survive the rename. Two handles break `Apart`.
* `NetworkRecordProofs`: `TypeCorrect`, `PersistedCorrect`,
  `RecordKeepsCoordinator`, `CounterNeverFalls`, `LagIsBounded`. The inductive
  invariant adds what holds between the phases (a running task has a network and
  its record's coordinator) and `RecordWithinMargin`: the record of the present
  network is never further ahead than the margin, which is why the value written
  next is not below it. `LagIsBounded` is what holds of the claim of
  `store.rs:170`: `burst` counts the frames since the last
  tick, and starts from a stored counter above the live one.
* `InterviewProofs`: `SuccessIsUsable`, `EndpointsAreOneInterviews`, `Typed`,
  `MarksEnd`. A verdict is computed from the endpoints in the same step that
  stores them, and a concluded record keeps those it has when none were found;
  the invariant says so of the table and the store, and is inductive together
  with the shape of the records. `EndpointsAreOneInterviews` adds that the last
  update in the channel is of an interview that is over and has what it found:
  interviews side by side do not mix in a record. Types
  rest on the channel and the interviews agreeing: a question in the channel is
  the one its interview waits for, and is there once. `MarksEnd` says that a
  device is marked "in progress" only as long as an interview of it goes on or
  its last update is in the channel. The invariant under it (`StartsEnd`): when
  the update that marks a device is in the channel, its interview goes on or its
  last update is behind it. A restart is excepted, and has to be: TLC finds that
  a record restored as "in progress" has no interview.
* `ReachabilityProofs`: `TypeCorrect`, `BeliefsAreTold`, `UnheardIsUnknown`,
  `ChecksAreTimely`. `WatchedInTime` is not inductive alone: a step of the clock
  moves an age and not the check, so the invariant also has that no age is below
  minus the steps taken, and that a frame in a record was heard by this process.
  The case that needs care is the age that has stopped growing: by then it is
  past the limit, and the bound says nothing more.
* `CommandsProofs`: `Allowed`, `Own`, `Whole`, `ReadBack`, from assumptions on
  the types of what a definition and a command list (`DefinitionsAreLists`,
  `CommandsAreTyped`, `MatchingAssumption`).
  For `Allowed` every way to plan a command (a datapoint, a behaviour, an
  extension) has a lemma that what it returns is allowed; the definition may
  name a capability or number a datapoint twice.
  `Own` is `Follows`, that the definition is what resolves by what is known at
  every step, and that what resolves is rightful: the index lists under a key
  those that have it, the last one first, so that the first to be as good is the
  last registered; a sole candidate of the index is a sole rival; and the best
  claim of a candidate's fingerprints, and then of all candidates, is none that
  another beats.
  `Whole` adds `Underway`: after some number of steps of the plan there is,
  those steps have been tried, asked for and counted, and the rest of the plan
  is what is left (`Done`). It rests on what the plan is: one step for each
  cluster that is bound or implied, and no source without one.
  `ReadBack` adds `ReadsBack`, that what was told is a reading of what a place
  had, and that what a place has reads as what was commanded of it. Between what
  the caller asked (`Asks`) and what a planned command says stands one rounding
  (`Stands`, `NearestIsNear`, `Decodes`); the lemmas
  under it take a capability both ways, by kind: the table by names, numbers,
  scales and offsets, where `Unambiguous` gives the entry back, and the
  extensions through levels, positions and locks (`CoverIsTold`, which is where
  a cover that is not inverted gets its mirror). That `Scale` is a multiple of
  every divisor is assumed; a catalogue has finitely many, so there is such a
  `Scale`, and readings are then whole numbers.
* `EventPathProofs`, of `EmberLink`: `CallbacksInOrder`,
  `StoppedByFullChannels`, `StoppedForGood`. For the first, with what the
  runtime was given, what is in the channels, in the pump and in the connection
  task is all that the stick produced, less what means nothing, in order
  (`AllOnTheWay`), as long as the runtime and the pump live; who holds nothing
  when (`Turns`) makes each step move the front of one part to the end of the
  next.
  The others bound what `NeverStuck` shows: a command, a stop or the closing of
  the port waits only while the connection task or the pump has a step to take,
  except in the circle of full channels (or the stop without room for its
  event), and that one is permanent, since nobody else reads the channels. The
  invariant (`WaitInv`) adds the bounds of the channels and who holds what
  (`Hands`); that a channel has room for one is assumed (`LinkAssumption`).
  The same module, of `Gateway`: `Complete`, `OnlineOnly`, `EndsAfter`,
  `Remembered`, `NeverPolledAgain`. For the first, of each reading the last
  event in the feed that carries it has its last value, and with none there and
  no gap the state does (`LastIsTrue`, `HeardIsTrue`); and the same again of
  each device, between the state, the last payload queued for it, and the broker
  (`LastIsState`, `ShownIsState`). A call to the runtime is awaited with nothing
  left to queue (`Calm`), so that no handler overtakes another.
  The others are what `GoneIsShown`, `StopEndsIt` and `RequestsAreAnswered` rest
  on: the broker shows "online" only over a connection that is up, the gateway
  says goodbye only after the runtime ended and everything it emitted was
  received, a request stays cared for while the connection holds (answered,
  being acted on, or its response on the way), and a gateway that stopped
  polling never polls again, which is why it is the will that must show it gone.
  Their invariant (`Shape`) adds that a disconnect is queued only once the loop
  is over, and that a client takes a lost connection for a live one only until
  its next poll. They assume that what the broker shows before anything was
  published, and the absent message, are none of the messages (`NoneIsApart`).

What a loop computes is a recursive function in the models. That there is one,
and that it comes to what the proofs use, is shown by induction over the set of
the numbers it holds for (`LeastNatural`, `Induction`, `UpTo`), from the
well-foundedness of `<`; the library's own theorems of induction take an
operator as a parameter, which the provers cannot be given.

Only model-checked: what needs fairness, that what is held is also let go
(`EveryCallSettles`, `LedgerDrains`, `InterviewSettles`, `SilenceIsNoticed`,
`RuntimeProceeds`, `EventsArrive`, `PortCloses`, `GoneIsShown`, `StopEndsIt`,
`RequestsAreAnswered`), which the prover cannot do. Every other property of a
run that passes is a theorem.

## Where the code and its comments differ

Each is a run that is expected to be violated, with the counterexample as the
evidence, and a finding in `PROJECT.json`: `resolve_known`,
`ember_link_stuck`, `commands_mirrored`.

Facts met on the way that no run shows, by component.

* Store: the directory fsync's error is dropped (`store/file.rs:354`), so an
  acknowledged write may still be undone; a record that cannot be read at the
  moment is quarantined like a broken one (`store/file.rs:157`).
* Requests: the sequence number wraps under a pending entry, and the caller of
  the entry it replaces is told that the runtime stopped
  (`task/transport.rs:48`); a late answer of one device settles the request to
  another that has its number by then (`task/inbound.rs:123`).
* Network record: "after a crash the counter resumes above anything actually
  transmitted" (`store.rs:168`). It need not: the margin is topped up by a tick
  that finds it used up (`task/provisioning.rs:100`), and what is sent between two
  ticks may be above the stored counter, also with a margin larger than what a
  tick sends. `LagBounded` bounds it by the frames of that tick.
* Interviews: "`InProgress` is never persisted" (`device.rs:45`, and
  `store.rs:202` of the record). It is, as it stands (`inventory.rs:166`), by the
  first update of every interview; a comment at `task/provisioning.rs:263` has it
  resume as `InProgress`, and nothing resumes it: a record so restored stays that
  way until the device joins again or somebody asks. `to_persisted`, which would
  turn it into `Pending`, is called by tests only.
  A later interview that describes fewer endpoints replaces more by fewer
  (`task/provisioning.rs:288`).
* Records: an interview of the coordinator
  persists its record, which the next start keeps (`task/devices.rs:89`); the
  sleepy flag is not restored (`inventory.rs:153`), and a definition that forces
  the power source the record already has leaves it alone
  (`task/devices.rs:183`).
* Runtime: the task holds a handle of its own, so the branch for "all handles
  dropped" (`task/mod.rs:180`) is never taken; `Started` may be emitted before
  anybody subscribes. When the port goes away the Ember adapter's own sender
  keeps the event channel open, so the runtime is not told and goes on with
  commands that fail (`adapter-ember/src/lib.rs:733`, `task/mod.rs:189`).
* Correlator: a waiter that was replaced deregisters the newer one when it is
  dropped (`adapter/src/correlator.rs:129`); nothing in the workspace uses it.
* Matching: the interview trims a model and drops its control characters before
  anything is matched (`interview.rs:252`), where `index.rs:137` keeps two
  definitions apart that differ in their padding so that a device resolves "by
  what it actually reported": it gets the definition of the trimmed model, and
  more than forty models and fingerprints of the catalogue with a blank, a zero or
  another control character in them resolve to no definition or to another one
  than the string as it is reported; `device_match` never fills in a manufacturer code, a power source
  or a device type, so the fingerprints that need one never match; four
  definitions have only fingerprints without a model, which `insert` accepts
  and no lookup reaches; models match in any case when there is one candidate,
  and in the exact case among several; a sole candidate that lists any model
  wins even when it was reached through a fingerprint's; `matcher.rs` speaks of
  the first that wins, and the index puts the last registered first.
* Planning: `Set` of a Tuya switch is not planned as `SetOn` is, because
  `intent_of` has nothing for it (`tuya.rs:214`); a target temperature is
  rounded to whole degrees before it is scaled (`tuya.rs:224`), so that a
  divisor of ten does not give tenths; a comment has a level nobody asked for
  refused rather than clamped (`definitions/commands.rs:139`), and a brightness
  of 255 or a position above 100 is clamped (`command.rs:28`, `:132`); the schedule
  behaviour writes the first day alone and does not look at its access; every
  datapoint of the catalogue is report-only, so that no catalogue device takes a
  capability command through its datapoints; an attribute of a single-precision
  type is never reported, as neither integer reading accepts it
  (`sources.rs:171`).
* Configure plan: steps that the extensions imply go to endpoint 1 even if the
  device has none; what counts as bound is the adapter's `Ok` (`runtime.rs:243`);
  a command's outcome is never `Queued`.
* Gateway: at a clean stop the goodbye and the disconnect are queued and the
  loop that would send them ends (`lib.rs:127`), so that it is the will that
  says it; after a lost connection it is connected again without subscriptions
  and shown as offline, as both were queued once (`lib.rs:109`); stuck on a
  full queue (`lib.rs:135`) it does not see the runtime end either; the readings
  of a device outlive its leave (`state.rs:200`).

## Not modelled

* Data and text: `rszigbee-devices/src/generated.rs` and
  `rszigbee-spec/src/zcl/generated.rs` are tables of 154,000 lines, almost nine
  in ten of the implementation's; what the code does with an entry is modelled, the
  entries are not. Byte layouts (ZCL, ZDO, Tuya), topics and payloads as text.
* Matching: prefixes of addresses, white labels, custom clusters and the
  extensions that stand for further clusters.
* Commands: colour and colour temperature, transition times, raw commands;
  text, raw and bitmap datapoints; the text of a schedule; the OTA and time
  answers, and attributes nothing in a definition reads.
* In `FileStore`: the schema marker, backups of several generations, quarantine
  names; the memory store. In `Reachability`: what only an injected policy reads
  (the time of the last command, the reason of a failed probe), and the sleepy
  flag. In `Interview`: progress events.
* Which commands the bring-up of the Ember adapter sends, and its key material;
  that it may fail at any of them is in `EmberLink`, what it decides in
  `NetworkRecord`.
* The correlator, whose state is that of callers that do not exist; the mock
  adapter, the facade, examples, fuzz targets and scripts.

What would be next: the bring-up command by command, and reports in flight
across a change of definition.

## Running

In this directory, `tlc -config DeviceTable.cfg MCDeviceTable` and so on with
the modules and configurations listed under "runs" in `PROJECT.json`;
`tlapm DeviceTableProofs.tla` and so on for the proofs. The largest run,
`file_store`, has 400,000 distinct states and takes about a minute; none takes
longer.
