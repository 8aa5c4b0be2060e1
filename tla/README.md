# A TLA+ development of trex-client

trex-client is a Go client of the TRex traffic generator: a command line
(`cmd/trexc`, `pkg/cli`), a dashboard (`pkg/tui`), a session with the server
(`pkg/session`, `pkg/rpc`, `pkg/stats`), stream profiles (`pkg/stl`) and a
no-drop-rate search (`pkg/ndr`).  This directory models the parts that keep
state, checks them with TLC on small instances, and proves the safety of eight of
them for every instance with TLAPS.

    tlc -workers 2 -config MCNdrSearch.cfg MCNdrSearch    # one run
    tlapm NdrSearchProofs.tla                             # one proof module

`PROJECT.json` gives, for every definition that models code, the lines it
models; the hazards of the code with the properties aimed at them; and for every
checked property a mutant of the code's model that violates it.

## 1. Inventory

| Component | State | Operations | Interacts with | What is hard | Correct when |
|---|---|---|---|---|---|
| NDR search (`pkg/ndr/engine.go`, `config.go`) | bracket, best run, results | `Find`, `optBinarySearch`, `binarySearch`, `search` | calls the measurement | three ways to widen a window, a noisy device, clamping, an iteration cap, errors | every bracket has a measured passing floor and a measured failing ceiling; the report separates the runs; it ends |
| NDR measurement (`engine.go`, `pkg/stats/pgid.go`) | baselines, ramp step, traffic on the ports | `perfRun`, `rampTo`, `stopAll`, `evaluate` | ports by RPC, the stats store | partial failures in the ramp, Ctrl-C in a sleep, stolen ports, packets in flight, stale statistics, a crash | traffic stops on every return path; a verdict counts its own packets; it returns |
| CLI commands and session ports (`pkg/cli/commands.go`, `pkg/session/port.go`) | `Context.Ports`, port handlers | `streams`, `start`, `stop`, `ndr`, exit | server ports, other sessions | a loop of RPCs that fails half way, ports taken by force, a process killed with traffic running | "loaded" and "stopped" are true when printed; a search measures its own streams; the exit releases what was acquired |
| Event bus (`pkg/session/events.go`, `port.go`) | subscriptions, channels | `Subscribe`, cancel, `Publish`, `WaitJobDone`, `WaitOnTraffic` | fed by the subscriber goroutine | close racing send, full buffers, events before the subscription | no send on a closed channel, no leaked goroutine, a wait ends |
| RPC connection (`pkg/rpc/connection.go`, `jsonrpc.go`) | REQ socket, mutex, request ids | `Call`, `Batch`, `Close` | main, pollers, the subscriber's pull | replies are not matched by id | a caller reads the reply to its own request |
| Client life cycle (`pkg/session/client.go`, `pkg/cli/shell.go`, `cmd/trexc/main.go`) | contexts, subscriber goroutine | `Connect`, `Close`, `Dispatch`, SIGINT | all of the above | an interrupt for a command reaches the whole process | `Close` returns; the subscriber outlives a command |
| Subscriber, store, Barrier (`pkg/rpc/subscriber.go`, `pkg/stats`, `client.go`) | expected sequence number, latest and reference statistics, generation | `handle`, `pull`, `checkSeq`, `Dispatch`, `Clear`, `GlobalDelta`, `Barrier` | publisher channel, RPC | messages on their way, lost events, retries | Barrier ends with fresh data; deltas count from the clear; a loss is noticed |
| Profiles (`pkg/stl/stream.go`) | streams, ids, groups | `EnsureFlowStats`, `Resolve`, `ForPort` | loaders, commands | forced ids, references across the split by direction | distinct ids, references resolved in the same upload |
| Profile loaders (`pkg/stl/loaders`, `pkg/stl/dsl`) | a profile | `Load`, `LoadPcap`, `Parse`, `buildImix`, `LoadSnapshot` | the server replays the chain; a snapshot of an upload is a file again | clamped and truncated gaps, frame sizes, names inside or outside a snapshot object | replay in order and on time; frames have their size; an upload survives its snapshot |
| Packets and field engine (`pkg/stl/packet.go`, `pkg/stl/dsl/layers.go`, `srh.go`, `vm.go`) | layer offsets, instructions, two flow variables | `buildLayers`, `decodeLayerStarts`, `ResolveOffset`, `buildVM`, `checksum_sweep` | gopacket encodes and decodes; the server steps the variables | tunnels that repeat a layer, headers of variable length, counters that wrap at their own ends | an instruction writes into the header it names; the checksum stays right, never zero |
| Dashboard input (`pkg/tui/app.go`, `view.go`, `pkg/cli/history.go`) | line, menu, history, console | key handling, completion, recall, `runInput` | commands run inside the loop | keys queued behind a command, menu geometry, the history cursor | the line shown is the line run; Escape restores it; a recall is in step; the history survives |
| Completion (`pkg/cli/completion.go`) | none; the words typed so far | `completeArgs`, `fileCompletions`, `bashComplete` | kong's grammar, readline | a second parser of the command line beside kong's | what is offered is something kong accepts there |
| Session status, results table, colours, framing, rates | none, or a copy | queries, formatting, parsing | | | not modelled, see section 7 |

The interactions: `main` runs a command, which makes RPCs under the mutex of the
one `Connection`; the subscriber goroutine receives what the server publishes,
pulls events over that same connection and feeds the store and the event bus;
`perfRun` and `Barrier` read the store; `WaitJobDone` listens to the bus.

## 2. Modules

Each component module holds state, one action per operation and its properties,
with the mutated forms of its operators beside the originals.  `MC*` modules
only give values to constants.

**NdrSearch.**  `pc` follows `Find`; `Discover`, `Probe`, `OptLo`, `OptHi`,
`Bisect` are the measurements it makes and `LoopExit` the end of `search`'s
loop.  Rates are integers `0..Full`; a midpoint between two adjacent rates
rounds either way.  A device is consistent (a threshold) or `noisy` (any answer
each time).  A measurement is one step, and may fail (`MeasureError`).

**PerfRun.**  The inside of that step.  `stopAll` (three uses), `ReadBase`,
`ReadBaseQF`, `Ramp` and `RampSleep` (`rampTo`), `Hold`, `Drain`, `ReadFinal`,
`Evaluate`, `ErrorReturn` are one RPC or one sleep each, so Ctrl-C, a thief of ports, a
crash, packets and publications come between any two.  Ctrl-C may or may not break the
socket the stops go out on (`sockOpen`).  A packet stands for a burst.  The variables
`sent`, `lost`, `bad`, `full`, `stolen` record what really happened and are never read
by the engine.

**CliPorts.**  `StreamsCmd`, `StartCmd`, `StopCmd`, `NDRCmd` begin a command;
`acquirePorts`, `RemoveAllStreams`, `AddStreams`, `Start`, `Stop`, `ReleasePorts` are its RPCs,
one per port, with the error paths of the code.  `Find`, `stopAll`, `Baseline`, `rampTo`,
`Hold`, `Drain` and `Verdict` are what a search does to the ports.  A port's handler is a
token; the other session acquires by force, loads and starts.  `Killed` ends the
process between any two calls, without its deferred ones, and `NewProcess` is the
next invocation, another session to the server.  `unrecorded` has the ports the process
was granted and does not have in `Context.Ports`; nothing reads it.

**EventBus.**  `Subscribe`, `Unsubscribe`, `Publish` of the bus, the goroutine of
`WaitJobDone`, and its two kinds of callers.  `own` has the run each caller started.

**Connection** and **RpcService.**  `Connection` has the mutex, the socket, the
subscriber, `Connect`, `Close` and SIGINT.  `RpcService` is the abstract promise
of a call: executed at most once, answered by its own execution or an error,
whatever other goroutines do.  `Connection` implements it under the mapping
`CallView` (property `ImplementsRpcService`).

**AsyncStats.**  The server's publisher and event queue, `handle`, `pull`,
`checkSeq`, the store, `Barrier`, `clear` and `stats`.  An RPC is one step here,
which `Connection` justifies.

**Packets**, **Profile**, **Loaders**: operators without state.  `Packets` has the layer
lists that build, their lengths, `decodeLayerStarts`, `ResolveOffset` and `buildVM`; a
layer is its kind and what decides how the next one is found.  The length of an SRv6
header is written to a byte and read back from it (`DecodedLen`), so a decoder may go on
inside it.  `Profile` has the functions of `stream.go`.  `Loaders` has `LoadPcap`,
`Parse` with `buildImix`, and `LoadSnapshot`.  Two loops over a list that they and
`TuiInput` share are in **Lists** (`Kept`, `Total`).  A loop is a recursive function on
the number of entries it has seen, so that the proofs can go by induction on it.

**Upload.**  The way of a profile from a file to the ports and back: `Load` by the kind of
the file, then the sequence of `streams` or `ndr` (`Tag`, `CheckProfile`, `loadPort` for each
port), the server's replay of a capture (`Play`, `SendBurst`), and `Export`, a snapshot
of a port's streams that a second command loads.

**ChecksumSweep.**  `buildChecksumSweep` and the server's stepping of its two
variables, on words of any width.  Its specification is `SweepSpec`: the module is extended
together with `Upload` by `UploadProofs`.

**TuiInput.**  The event loop with the queue of keys, one action per kind of key,
history in memory and on disk, the completion menu and the rows `drawMenu` shows.
`typed` and `walk` record what the user did and are not read by the code's actions.

**Completion.**  `completeArgs` with its walk over the grammar (`Walk`), its candidates and
the three front ends; `kong` is a model of the parser that reads the finished line.
The grammar is a constant, an excerpt of `CLI` and `Commands`.

**NdrSearchProofs**, **ConnectionProofs**, **EventBusProofs**, **PerfRunProofs**,
**CliPortsProofs**, **AsyncStatsProofs**, **TuiInputProofs**, **UploadProofs.**  The
theorems about the component they are named after, section 5; `UploadProofs` has those
of `ChecksumSweep` too.

## 3. Runs

Twelve runs: one per component, and two that exhibit a disagreement between the code and
what it says of itself.  Nine more configurations exhibit one each (section 6).

| Run | Distinct states | Shows |
|---|---|---|
| `search` | 52 000 | Plain, windowed and capped searches on 13 rates, every threshold and every noisy device: `BracketSound`, `ReportSeparates`, `AccurateReport` (at most the device's rate, within PDRError of it), `BracketShrinks`, `Terminates`. |
| `run` | 413 000 | `StoppedOnReturn`, `VerdictExact`, `MeasurementReturns` over two measurements, with every interruption. |
| `ports` | 710 000 | `LoadedExactly`, `StoppedMeansIdle`, `MeasuresOwnTraffic`, `NoOrphanPorts`, `CommandReturns`. |
| `bus` | 61 000 | `NoSendOnClosed`, `DoneMeansFinished`, `NoGoroutineLeak`, `WaitReturns`. |
| `connection` | 99 000 | `LockStep`, `ImplementsRpcService`, `CloseReturns`. |
| `stats` | 454 000 | `BarrierFreshWhenQuiet`, `DeltaSinceClear`, `EventsAccounted`, `BarrierEnds`. |
| `upload` | 360 000 | `WireConsistent`, `TagsDistinct`, `ReplayOnTime`, `ImixFrameSize`, `WritesWhereNamed`, `SnapshotFaithful`, `ReplayCompletes`. |
| `sweep` | 8 000 | `AlignedChecksumValid`, `ChecksumNeverZero`. |
| `tui` | 796 000 | `MenuPreview`, `SelectionVisible`, `HistoryDurable`, `RecallInStep`, `EscRestores`, `QuitHonoured`. |
| `completion` | 152 000 | `OffersFit`. |
| `run_stale` | violation | `PassMeansGeneratorHealthy`, section 6. |
| `connection_interrupt` | violation | `SubscriberOutlivesCommand`, section 6. |

`TypeOK` is stated in every module with state (`SweepTypeOK` in `ChecksumSweep`).  It is
proved for the nine components of section 5; for `Completion` it is a line to add to the
cfg's `INVARIANTS` after a change, and holds at these bounds.

Bounds, and why they are enough:

- `search`: 13 rates leave room for four bisections and for a window (half-width
  2 or 3) that hits either end of the range, so every branch of
  `optBinarySearch` is taken with and without clamping; a zero `pdrError` leaves
  only the cap to end the loop.
- `run`: two ports (one can fail after the other), two ramp steps (`Start` and
  `Update`), two measurements (baselines matter), two packets or queue-full events
  in all, so that one can be lost and one received or one fall into each
  measurement; the queue-full counter may be non-zero before the first.
- `ports`: two ports, two profiles, one of which has nothing for the second port's
  direction, three commands, searches of two measurements, two processes.  A command
  never looks further back than the state the previous one left, and three are needed
  to load, start and stop; the second process is the one that meets what the first
  left behind.  Every command names both ports; that `NoOrphanPorts` holds as well when a
  later one names others is part of `NothingOrphaned` (section 5).
- `bus`: two waiters, on one port or two, buffers of two events (8 in the code),
  each port run at most twice, so buffers overflow and events go stale.
- `connection`: main, subscriber and one poller, four requests, two messages:
  three callers can contend for the mutex with a reply outstanding.
- `stats`: three events are what it takes to lose the one in the middle; two commands are
  a clear and a stats; a channel of four messages holds one batch and an older message.
  The answers of two rounds of `Barrier` at once are left to the proofs, which have no bound
  on the channel.
- `upload`: captures of three packets with every order of four timestamps, and some
  between two microseconds; fourteen layer stacks (plain, VLAN, VXLAN over either IP
  version, SRv6 with 2, 127 and 128 segments, and broken ones) with every reference in
  them; imix rows of three
  sizes; two entries that name each other; profiles of three streams: two that clash
  and a third whose automatic id must avoid both.
- `sweep`: words of four bits, every packet, sweeps that wrap.
- `completion`: four words: a command, a flag, its value and a positional.
- `tui`: six keys (enter two commands, recall and edit), two queued, two console lines
  (200 in the code), two starts; terminals down to one menu row of one column.

The proofs remove the bounds of `search`, `run`, `ports`, `bus`, `connection`, `stats`,
`sweep` and `tui` for everything but liveness: section 5.

Deadlock is checked for `search`.  The others may stop: a session that was
closed, a profile that was loaded, a bound that was reached.

Fairness: `search` assumes that measurements return, which `run` checks; `run` that
the engine's goroutine runs, RPCs are answered and packets arrive or are lost;
`ports` and `stats` that RPCs are answered and the subscriber runs; `bus` that
timed traffic ends, events are dispatched and goroutines scheduled; `connection`
that the server answers, and strong fairness of each caller's steps in `Call`
(`sync.Mutex` grants in order once a waiter starves); `upload` that the server
goes on playing a chain; `tui` that the loop runs and commands return
(`CommandReturns`, `MeasurementReturns`).  No fairness is assumed of the user, of
other sessions, of interrupts, of deadlines or of periodic publications.

Assumptions about what is not in the repository: after its context is cancelled the REQ
socket either works or is broken for good, nondeterministically, in `Connection` and in
`PerfRun` (in `CliPorts`, where only the server's refusals matter, it works); publisher
messages are well formed, except for a pull whose reply does not decode; one tick of the
publisher sends the global statistics before the others; gopacket pads an Ethernet frame
to 60 bytes; the server steps both variables of a sweep once per packet.

## 4. What the conditions in properties mean

Some properties hold under a condition that the code does not ensure; section 6 says
what happens outside it, and where a doc or a comment claims the property without the
condition a configuration of its own refutes that (its property is in parentheses).
`StoppedOnReturn`: Ctrl-C did not break the socket, or the measurement has a verdict.
`NoOrphanPorts`: ports in `unrecorded` excepted, that is those an acquire was granted
before it was refused, or a later acquire replaced (`ExitLeavesNoPort`).  `WaitReturns`:
the event did not meet a full buffer (`NeverMissed`), nor was it dispatched before a
`WaitOnTraffic` subscribed (`LateWaitReturns`).  `DoneMeansFinished`: the port ran once
(`DoneMeansOwnRun`). `BarrierFreshWhenQuiet` and `DeltaSinceClear`: no older publication
on its way (`BarrierFresh`).  `TagsDistinct`: among the groups handed out
(`GroupsUnique`). `ReplayOnTime`: whole microseconds.  `ImixFrameSize`: headers of known
length. `WritesWhereNamed`: the packet starts with Ethernet and no SRv6 header has more
than 127 segments (`WritesBehindSegments`).  `SnapshotFaithful`: the profile came from a
file and is loaded again by `streams` (`ndr` adds groups).  `OffersFit`: kong's
conversion of values is left out, and bash offers files once the word has begun like
one.  `RecallInStep`: until the recalled line is edited (`EnterEndsRecall`).
`HistoryDurable`: the disk works, no other process appends to the file, and no line is
longer than the scanner reads. `AlignedChecksumValid`: the sweep starts at the built
packet's value.

## 5. Proofs

All constants are arbitrary; the only assumptions are the `ASSUME`s of the
component modules (types and signs of the constants).  Every safety property that a run checks
of these nine components is a theorem.  Each proof module has an inductive invariant
`IInv`, the three facts that make it one (`InitInv`, `StepInv`, `Invariance`; the last is
`SearchInvariant` in `NdrSearchProofs` and `UploadInv` in `UploadProofs`), and a short
theorem per property.
`StepInv` goes action by action.  Each `IInv` says of the code what a reader has to
know to believe the property:

**NdrSearchProofs.**  `BracketSound` is not inductive: the bracket that
`optBinarySearch` hands to `search` gets its ceiling from the probe at 100% and
its floor from the run at the window's lower edge, both measured several steps
earlier.  `IInv` therefore also says that from `optLo` on the probe has failed,
that at `optHi` the lower edge has passed and was recorded, and that all runs
recorded so far are separated by the bracket (`Separated`).  Theorems:
`SearchTypeCorrect`, `SearchBracketSound`, `SearchReportSeparates`,
`SearchBracketShrinks`.  `SearchAccurate` (`AccurateReport`) needs more (`AccInv`):
every run of a device with a fixed rate tells on which side of that rate it is
(`Truthful`), and the width of the bracket is at most `PDRError` times 2 to the number
of turns left (`Narrowed`), so the loop cannot end by its cap with a wide bracket.

**ConnectionProofs.**  `LockStep` says nothing of the mutex or of a caller that has
sent and not read.  `IInv` adds that the mutex is held exactly by who is between
`Lock` and `Unlock`, that request ids are drawn once, and what the wire carries: a
caller in `recv` finds its own request or its reply there and nothing else, and an
open socket without such a caller is empty.  Theorems: `LockStepHolds`, and
`CallImplementsRpcService`, the refinement of `RpcService` under `CallView`: the
initial state maps to an initial state, and every step to a step of one call or to a
stutter (`StepRefines`).  For any set of goroutines and any number of calls.

**EventBusProofs.**  `NoSendOnClosed` rests on `Registered`: deleting the entry and
closing the channel are one critical section, so what `Publish` finds in the registry
is open.  `DoneMeansFinished` needs that every event on its way, in a buffer or
turned into a signal is about a run that ended (`EventsTrue`).  Theorems:
`PublishSafe`, `WaitMeansFinished`, `TypeCorrect` (no buffer exceeds its capacity) and
`EventNotMissed`: a caller that waits has its event ahead of it or in its buffer with the
goroutine alive, unless the buffer was full or it subscribed after the event.  That is what
`WaitReturns` rests on; that the goroutine then runs is fairness.

**PerfRunProofs.**  `IInv` has the progress of the three `stopAll` loops
(`StopProgress`), for `StoppedOnReturn`: on a broken socket they stop nothing, but then
either nothing was started or no verdict is reached; and an account of the packets by the place
`perfRun` is at (`Accounting`), for `VerdictExact`: the counters have moved since the
baseline by what was sent, less what was lost or is under way, and a measurement
begins with nothing under way because the previous one ended so.  The account holds
until a port is stolen.  Theorems: `StoppedOnEveryReturn`, `VerdictCountsExactly`, and
`PassIsSound`: a run that passes really lost no more than the PDR, which is the half
of the comment at `engine.go:305` that is true (section 6 has the other half).

**CliPortsProofs.**  A command's loop over ports is behind or ahead of each of them:
`LoadInv` says that a port that is behind holds exactly its part of the profile under
a current handler, and from the search's first call on every port does; `StopInv`
that a port behind a stop is idle; both of the ports no other session touched.
Theorems: `LoadedIsExact`, `StoppedIsIdle`, `MeasuresOwn`, and `NoTrafficLeft`: a
measurement of a search leaves no traffic, also when it fails.  `NothingOrphaned`
(`NoOrphanPorts`) is for any lists of ports, overlapping or not, and any other session.
Its invariant `OwnedInv` says that a port the server thinks is ours either has its current
handle where `ReleasePorts` will find it, also while it works through the list and another
session takes ports from under it, or is one that `acquirePorts` did not record.

**AsyncStatsProofs.**  The counter only grows and the channel keeps its order, so the
reference, the latest value, the values on their way and the server's are in this
order (`Monotone`).  `BarrierInv` says of a `Barrier` called with the channel empty
that all it can meet was counted after the call, and that the first statistics to
arrive are global ones; `DeltaInv` relates the two reads of `stats` to the clear;
`EventInv` orders the events dispatched, pulled and queued.  Theorems:
`BarrierIsFresh`, `DeltaIsSinceClear`, `EventsAreAccounted`.

**TuiInputProofs.**  `MenuPreview` needs that every candidate, not only the selected
one, extends the word typed; `EscRestores` that the menu remembers the line as typed;
`RecallInStep` that no line the history shows lies under an open menu (`MenuInv`).
`HistoryDurable` needs that no blank entry is ever written, so that `NewHistory` drops
nothing (`HistInv`).  Theorems: `TypeCorrect`, `PreviewIsSelection`, `EscapeRestores`,
`RecallKeepsStep`, `HistoryIsDurable`, and `SelectionIsVisible` for every terminal of
at least three columns and five rows: with fewer rows `drawMenu` draws nothing, with
two columns it divides by zero (section 6).

**UploadProofs**, for every list of ports, capture, file, snapshot and profile.  No property
of `Upload` is inductive: each compares what a port holds, what was sent or what was
exported with a file read several steps, or a whole export and reload, before.  The parts
of `IInv` follow the profile along that way:

- `Phases`: the profile is the one loaded, with `EnsureFlowStats` applied once after the tag
  step of `ndr` and not at all otherwise; a profile loaded after an export is
  `LoadSnapshot` of it.  `WireInv`: the ports before `k` hold `Resolve` of their part of it.
  These two give `WireConsistent` and `TagsDistinct`, from two lemmas about the
  functions of `stream.go`: `IdsDistinct` (ids forced or counted, the loop over the ids in
  use never hands one out twice) and `Tagging` (no group is given twice, and those
  set before are kept).
- `FileInv`: no stream of a file forces an id; hence `SnapInv`: an export numbers the
  streams in order and its references agree with the names, whether the names are
  inside the streams or outside.  With the lemma `Resolved` that gives `SnapshotFaithful`.
- `ChainInv`: a capture is a chain of one stream per packet, each with its gap, in the
  profile, on the port and in an export, so that a reload is again a chain.  `PlayInv`:
  the server has sent the first packets of the capture, each its gap after the one before,
  and plays the next.  `ReplayOnTime` follows by induction on the packets sent, the gaps
  adding up to the timestamps without loss when these are whole microseconds
  (`MicrosExact`).  `UploadReplayInOrder` is the safety half of `ReplayCompletes`.
- `VmInv`: an instruction made from a field reference writes in the header it names, of
  the packet it is sent with, also after an export; `ResolvedInHeader` says so of
  `ResolveOffset` for every stack of layers that builds and whose segment lists have at most
  127 segments, since then a header is taken to be as long as it is (`FoundWhereBuilt`).
- `DslInv`: before it is tagged the profile is `Parse` of its file.  `ImixFrameSize` then is
  about one row of one entry (`FlattenAt`), whose padding makes up for the headers
  (`SimpleLength`).

`UploadAssumption` has the types of the inputs; that a snapshot not made by an export, and
a profile built by a program, have plain byte offsets in their instructions, since a
reference is resolved in `buildVM` and nowhere else; and that a speedup divides the
ticks of a microsecond, which keeps the model's time whole.  Theorems: `UploadTypeOK`,
`UploadWireConsistent`, `UploadTagsDistinct`, `UploadReplayOnTime`, `UploadReplayInOrder`,
`UploadWritesWhereNamed`, `UploadImixFrameSize`, `UploadSnapshotFaithful`.

The same module has the checksum sweep (`SweepInv` = `SweepTypeOK` and `LockStep`).  The two
variables have ranges of equal length and stay equally far from their starts, so they
wrap in the same step.  Theorems: `SweepLockStep`, `SweepChecksumValid`,
`SweepChecksumNeverZero`, for words of any width.

Where an argument is by induction (`pow2` in `NdrSearchProofs`; `Kept` and the widest
candidate in `TuiInputProofs`; the loops of `Profile`, `Packets` and `Loaders` in
`UploadProofs`) it is by the least counterexample: a non-empty set of naturals has a least
member (`LeastNumber`, `Induct`), which comes from the well-foundedness of `<`, and the
existence of the function that a recursive definition stands for is a lemma of its own
(`PowExists`, `UptoExists`, `Recursion`), from which each loop gets its equations (`KeptDef`,
`TotalDef`, `FlattenDef`, `SerializedLenDef`).

Only model-checked: all liveness (`Terminates`, `MeasurementReturns`, `CommandReturns`,
`NoGoroutineLeak`, `WaitReturns`, `CloseReturns`, `BarrierEnds`, `ReplayCompletes`,
`QuitHonoured`), since the prover has neither fairness nor ENABLED; and `OffersFit` of
`Completion`, which compares two walks over a line, the completer's and the parser's, on one
given grammar: it is a statement about that excerpt of the commands and not about every
grammar.  What section 6 refutes is refuted by TLC.

## 6. Disagreements between the code and what it says

Exhibited by a run:

- `run_stale` (`PassMeansGeneratorHealthy`): `evaluate` subtracts two readings of the
  store, which the publisher feeds about once a second, so queue-full events not yet
  published when the final value is read are not counted and a run that sent packets
  passes (`src/pkg/ndr/engine.go:267`).  Line 305: "A run passes only if the DUT (not
  the generator) stayed healthy."
- `connection_interrupt` (`SubscriberOutlivesCommand`): the client is connected with the context of
  `signal.NotifyContext`, which the SIGINT meant for a command cancels too
  (`src/cmd/trexc/main.go:121`); the subscriber exits and the shell goes on without
  statistics or events.  `src/pkg/cli/shell.go:73`: "so an interrupt stops the
  running command (e.g. NDR traffic) without tearing down the shell".

Exhibited by a configuration beside the runs, each with one property that TLC refutes
within seconds (`tlc -config MCPerfRun_silent.cfg MCPerfRun`):

- `MCPerfRun_silent.cfg` (`PassMeansWithinLimits`): with nothing transmitted both percentages stay 0
  (`engine.go:301`), and a run in which only the queues filled up passes; line 305 again.
- `MCCliPorts_orphan.cfg` (`ExitLeavesNoPort`): `acquirePorts` returns at the first port that is
  refused and forgets the ones it was granted (`src/pkg/cli/commands.go:38`), so they stay
  owned after the exit.  Lines 46-48: "ReleasePorts relinquishes every acquired port ... so
  ports are not left owned by a session that is going away."
- `MCEventBus_dropped.cfg` (`NeverMissed`): a buffer full of other ports' events drops
  the one waited for (`src/pkg/session/events.go:95`); `port.go:205`: "Subscribe before
  calling Start so the event cannot be missed."
- `MCEventBus_late.cfg` (`LateWaitReturns`): `WaitOnTraffic` subscribes when it is
  called, and waits for ever when the traffic has finished before
  (`src/pkg/session/port.go:222`); line 220: "blocks until this port's timed traffic
  finishes or ctx is done".
- `MCEventBus_earlier.cfg` (`DoneMeansOwnRun`): the event of an earlier run ends the
  wait for the next (`port.go:211`); lines 203-204: "a channel that receives once this
  port's timed traffic finishes".
- `MCAsyncStats_older.cfg` (`BarrierFresh`): a publication already on its way ends `Barrier`
  (`src/pkg/session/client.go:181`); lines 161-162: "waits until the subscriber records it,
  guaranteeing the stats store holds current data".
- `MCUpload_segments.cfg` (`WritesBehindSegments`): the length of an SRv6 header is cut to a byte
  (`src/pkg/stl/dsl/srh.go:58`), so from 128 segments on the layer behind it is looked for
  among them and an instruction overwrites a segment; lines 70-71: "decodes an SRH so the
  packet walker can record the offsets of the layers that follow it".
- `MCUpload_groups.cfg` (`GroupsUnique`): groups are handed out from 1 whatever groups the profile
  sets (`src/pkg/stl/stream.go:106`); `commands.go:216`: "Tag before splitting by direction
  so pg ids stay unique across ports."
- `MCTuiInput_erased.cfg` (`EnterEndsRecall`): Enter on a recalled and erased line
  leaves the history cursor where it was (`src/pkg/tui/app.go:266`); line 40: "cursor
  into the shared command history (== len when not recalling)".

Known limits met while modelling, outside the conditions of section 4:

- `engine.go:331`: traffic has no duration and the client times the hold; a client
  that dies leaves the ports transmitting, owned by a dead session, until another one
  takes them by force.  `config.go:4` says "a client-side,
  server-timed no-drop-rate search".
- `commands.go:42`: a new port list replaces the old one without releasing it, which also
  leaves ports owned; `unrecorded` counts them.
- `engine.go:356`: the deferred stop ignores its errors.  When Ctrl-C breaks the socket
  nothing stops the traffic.
- `commands.go:141`: `stop` returns at the first port that refuses.  Line 24: "Stop
  traffic on all acquired ports."
- `commands.go:69`: the whole profile is checked, but a reference to a stream of the
  other direction dangles only when a port's part is resolved, after the ports were
  taken; line 68: "Resolve once up front so a broken profile fails before ports are
  taken."
- `stream.go:143`: a forced id in use is replaced, not refused; lines 130-131: "It
  errors on duplicate names/ids".
- `pcap.go:105`: gaps are truncated to microseconds; lines 22-23: "when zero the gaps
  from the capture timestamps are used".
- `dsl.go:280`: VXLAN and SRv6 headers count as nothing in `payloadForSize`.
- `dsl.go:240`: rows of an imix copy a burst mode; line 205: "expands an imix entry
  into one continuous stream per size row".
- `vm.go:114`, `vm.go:119`: a sweep that starts elsewhere than at the built packet's
  value sends wrong checksums, and its upper bound may exceed 16 bits.
- `snapshot.go:119`: the `flags` of a snapshot (MAC override, dummy) are parsed and
  dropped, and an id forced before the export becomes positional.
- `load.go:41`: a file is a snapshot when it holds the text "binary" and not the text
  "layers", wherever they are.
- `packet.go:139`: `dot1q` is a layer of a packet (`layers.go:102`) but no name in a field
  reference.
- `packet.go:67`: a packet whose first layer is not Ethernet is decoded as if it were;
  "Ether" resolves to byte 0 and the other names to nothing.
- `packet.go:68`: a frame one of whose layers gopacket takes for a known protocol and
  cannot decode (a UDP payload on port 53) is refused, from a capture as well.
- `layers.go:59`: the UDP checksum behind an SRv6 header is computed with the IPv6
  destination, not with the last segment.
- `completion.go:52`: file candidates are dropped in bash because "bash falls back to
  readline's native filename completion"; it does so only when nothing else matches, and
  after `trexc streams ` the flags match.
- `completion.go:118`: joined short flags (`-fp 0`) are not split, and the value counts as
  a positional; `findFlag` takes a name with any number of dashes; a file that begins
  with a dash is offered and refused by kong; `--tunables`, which may be repeated, is
  offered once.
- `view.go:126`: a terminal two columns wide makes the divisor zero; the widths
  checked start at three.

## 7. Not modelled

The results table, colours, panels and other output (no state); framing (zlib over one
message); parameters, templates and rates of a YAML profile (conversions of one
document, and floating-point shares); addresses, ports and flags in packet headers
(copied to gopacket); `Pause` and `Resume` (no caller); `version`, `sysinfo` and `ping`
(one query each); the text of JSON-RPC requests; the conversion of command-line values
by kong.  Counters that go backwards or wrap (a server that resets them while a run
measures); a receive that fails on a socket that can still be used, which is up to the
ZMQ library; a server that starts its event numbers again, which has forgotten the
session too; a second process that appends to the history file.  Of a packet, what a
decoder makes of the bytes of a segment taken for a header is reduced to that header
being there, and stacks gopacket would refuse to decode after building them count as
built.  That a port's part of a profile does not resolve is an error in `Upload`, not in
`CliPorts`.  `TuiInput` keeps a fixed set `Words` for what `Completion` offers: its
properties are about the menu, whatever is in it.

## 8. Plan

Done: the modules above, in the order NdrSearch, PerfRun, CliPorts, Connection,
EventBus, AsyncStats, Profile, TuiInput, Loaders, ChecksumSweep, then Packets, Upload
(loaders, profiles and commands composed), Completion, and the search, the kill and
the second process in CliPorts.

Next, modelling:

1. PerfRun composed under NdrSearch: one measurement step refined by `perfRun`, so
   that a search on live ports stops its traffic and reports separated runs.
2. EventBus and AsyncStats joined to Connection's subscriber: one goroutine that
   pulls, dispatches and publishes.

Done, proofs: every safety property of NdrSearch, ChecksumSweep, Connection (with its
refinement of RpcService), EventBus, PerfRun, CliPorts, AsyncStats, TuiInput and Upload.

Next, proofs: `OffersFit` for every grammar in which no two flags share a name; action
properties of `PerfRun` and `CliPorts` (no step starts a port after its last stop).
