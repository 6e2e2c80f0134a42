# Verification of the AIS test bench

AIS test bench simulates vessels that broadcast AIS position reports, receiving
stations that hear some of them, and a browser display of what was heard. This
directory holds TLA+ modules translated from the source, TLC configurations that
check them on small instances, and TLAPS proofs of what matters most for every
size of instance.

Sections: [The system](#the-system), [Plan](#plan), [Modules](#modules),
[Runs](#runs), [Fairness](#fairness), [Proofs](#proofs),
[Limits](#limits-of-the-models), [Working with the project](#working-with-the-project).

## The system

```
browser: manager, stations, display pages (ui/internal/assets/static/js)
     | HTTP JSON, polling                    | HTTP JSON, polling
simulator API (simulator)               display API (display)
     | commands, reads                       | reads (in process or over HTTP)
real-time driver (internal/simdriver) <------+
     | Elapse, SetCount, SetSpeed, station edits
simulation engine (simulation)
HTTP server lifecycle (internal/httpserver) runs handlers next to the driver
```

| Component | State | Operations | What is hard | What makes it correct |
| --- | --- | --- | --- | --- |
| **Engine** `simulation/` | clock (elapsed, remainder, speed), fleet, report sequence, 1000-report history, stations with three kinds of revision, per-station statistics, rate buckets and reception rings, latest observation per station and target | `New`, `SetCount`, `Advance`, `Elapse`, `SetSpeed`, `AddStation`, `UpdateStation`, `RemoveStation`, reads | a call emits thousands of reports and may fail or be cancelled at any of them; bounded stores overwrite, evict and expire; results must not depend on how callers split time | all-or-nothing calls, contiguous history, exact clock, an observation store that holds exactly the newest observations |
| **Driver** `internal/simdriver` | baseline, stopped, one mutex | `Run` (heartbeat), `SetCount`, `SetSpeed`, three station edits | heartbeat and commands race for the mutex; a settlement is delivered in chunks and may be cut between them; the clock may regress | no real time is delivered twice or skipped, edits act on what they checked, nothing changes after the stop, everything returns |
| **HTTP server** `internal/httpserver` | listener, serving goroutine, work goroutine | `Serve`, `Run`, `Shutdown` | three reasons to stop, in any order, while requests use the work | work outlives requests, no error is lost, `Run` returns although a request hangs |
| **Simulator API** `simulator/` | none of its own | HTTP handlers over the driver | the answer to a command is read after the command | compare-and-set station edits, strict decoding |
| **Display** `display/` | none of its own | `Observations`, `ReceptionHistory` over a source | a snapshot must be rejected as a whole if it is not consistent with itself | no partial or mixed result is shown |
| **Browser runtime** `runtime.js` | mount marker, timers, requests, cleanups | `claim`, `later`, `fetch`, `destroy` | late callbacks after `destroy`, remount on the same root | nothing runs after `destroy` |
| **Display page** `display.js` | snapshot, selection, generation, history rows and cursor; map, coverage cache, tables, details | polls, selection, pause, map loading, resizing | late answers for an earlier selection or run; cursor gaps; layers cached by a revision that a restart brings again | what is shown belongs to the current run and selection |
| **Manager page** `manager.js` | run, dirty and saving flags, generation | polls, two writes | polls and writes overlap; three reads straddle a restart | no stale poll overwrites a newer write |
| **Station editor** `stations.js` | snapshot, draft, conflict, generation | edit, save, rebase, polls | another client edits the set while a draft is open | no lost update |
| Test bench, commands, UI templates, AIS sentences, contract types | none after construction | wiring, parsing, encoding | - | - |

Interactions: browser pages poll over HTTP and hold revisions and cursors between
requests; the API turns one request into one driver call; the driver is the only
caller of the engine's mutating methods and holds its own lock around settlement
and command; readers take only the engine's lock; the HTTP server keeps the
driver's `Run` alive until requests are drained. `PROJECT.json` lists every
component with its status and every hazard with its line and the properties that
would catch it.

## Plan

In order of importance; items 1 to 7 are modelled, checked and proved.

1. **Engine**: `Engine` (calls unrolled to single steps), with observers
   `EngineSplit` and `EngineRate`; the abstract `EngineCalls` and the refinement
   `EngineAtomic`. Proofs: `EngineProofs`, `EngineStoreProofs`. *Done.*
2. **Driver** over `EngineCalls`, with its liveness. Proofs: `DriverProofs`. *Done.*
3. **HTTP server** lifecycle, with liveness and proofs. *Done.*
4. **Reads and their projection**: `EngineReads` and, over it, `Projection`. Proofs:
   `EngineReadsProofs`. *Done.*
5. **Station editor** against the station API: `StationEditor`. Proofs:
   `StationEditorProofs`. *Done.*
6. **Display page** against reads of the simulator: `DisplayPage`, and what it draws,
   `DisplayView`. Proofs: `DisplayProofs`. *Done.*
7. **Manager page, its two write handlers, and page lifecycle** (`manager.js`, `api.go`,
   `runtime.js`): `PageRuntime`, `ManagerPage`. Proofs: `ManagerProofs`. *Done.*
8. **Composition**: the driver as the work of the HTTP server, so that a draining
   request's command still settles.

## Modules

`PROJECT.json` maps every definition to its source lines. Constants are named after the
code's constants. Every module keeps the code's order of checks and assignments; an
early return that changes nothing is the negation of an action's guard, so it is a
stuttering step.

### `Engine`: package `simulation`

`s.mu` serializes all methods, so readers cannot see the inside of a call; but a call is
long, and may end at any of its reports. The module therefore unrolls the loops, with `pc`
naming the loop and `pc # "idle"` meaning that the lock is held.

| Model | Code |
| --- | --- |
| `state`, `next` | the committed and the staged `state` struct (`stage` copies it) |
| `messages`, `reports` | `s.messages`; the reports of the call in progress |
| `stats`, `history`, `targets`, `totals` | `receptionStore`, by station ID and MMSI |
| `batch` | `receptionBatch` |
| `loop` | the loop variables and `target` |
| `BeginSetCount`, `Spawn`, `SpawnFails` | `SetCount` |
| `BeginAdvance`, `BeginElapse`, `StartAdvance`, `TickVessel`, `TickEnd`, `Cancel` | `Advance`, `Elapse`, `advance` |
| `Receive`, `ReceiveFails`, `ReceiveEnd` | `receive`, one station per step |
| `Commit`, `ApplyRecord`, `Finish` | `commit`, `applyReceptions`, one record per step |
| `SetSpeed`, `AddStation`, `UpdateStation`, `RemoveStation` | the methods of these names |

Initially `New` has built the state and runs its `SetCount`. `credited` is a history
variable: the virtual time that committed calls were asked for, which the code does not
store and `ClockExact` compares with the clock.

Abstractions: an instant is the time since the start; an MMSI is its offset from the first;
position and sentence are functions of vessel and instant and are dropped;
the receiver that a reception shows is a name, a site and whether the channel was enabled; the
floating-point link budget and the seeded draw become a choice among the outcomes
`decide` can return, with `LinkOutcomes` naming those a run allows. `Coverage` is
represented by the RF configuration it was computed for, which is what can be stale.

### `EngineSplit`, `EngineRate`: observers

Each adds variables that only watch the engine. `EngineSplit` keeps a second observation
store fed as if time had passed one unit per call. `EngineRate` keeps a log of every
opportunity to compare the reused rate buckets and lifetime counters with.

### `EngineReads`, `Projection`: what readers are told

A read holds the engine's lock and changes nothing, so it is an operator of the committed
state. `Observations(selection)` is the answer of the API for a selection of stations;
`ReceptionHistory(id, after, limit)` is a page after a cursor. IDs are text, so the API's
order of stations is not the engine's: `TextRank` gives the place of each ID, and the runs
let it reverse the order. `Sorted(S, before)` is the sequence of `S` in which each element
stands at the place of its rank, the number of elements before it.

An answer gives durations in whole milliseconds: the constant `Millisecond` is one in the model's
unit, and `Milliseconds` rounds down as the code does. A ratio or a rate is `Null` or a pair, the
quotient unreduced: the display tells its presence and whether it exceeds 1.

`Projection` is the display's side: `ProjectObservations` and `ProjectReceptionPage` are the
checks of package `display` that relate one part of an answer to another, or ask for what the
engine could fail to set: numbers, revisions, and the receiver of a reception, which must have had its
channel enabled. A failed check
drops the whole answer, so `AnswersAccepted` says that the simulator
never sends what the display refuses. The two programs share no code for this.

### `EngineCalls`, `EngineAtomic`: what the calls promise

`EngineCalls` has one record and one step per call, each taking effect at one instant:
how many reports a call emits, how far it moves time, what it does to revisions and
stations. `EngineAtomic` maps the engine's committed state to it (`visible`) and states
`Atomic`, that `Engine` implements `EngineCalls`. `Driver` is built on `EngineCalls`, so
the promise that is checked is also the one that is used.

### `Driver`: package `internal/simdriver`

One process for `Run`, one per client of the commands. `pc` is where a process is: before
the lock (`lock`), between two chunks (`deliver`), settled and about to call the engine
(`act`); `mu` is the lock. A chunk is one step, so that the context may end and real time
may pass between chunks. `ClockStep` moves the real clock by any of `ClockSteps`,
backwards too. Commands carry a run identity and a revision their client read at some
earlier time. `asked` and `owed` are history variables: the earliest clock reading since
a client's call, and the virtual time that is not explained by the current speed.

Durations are in one unit, so `Elapsed * speed` in the model is exact where the code
compares floating-point numbers; the limit is crossed or not in both.

### `HttpServer`: package `internal/httpserver`

`main` is the point where `Run` is. `net/http` is external: `Accept`, `Finish` and
`Drained` follow how `Serve` and `Shutdown` are used here. `HasWork = FALSE` is the
display server, which runs nothing next to it.

### `StationEditor`: `stations.js` and the station API

`server` is the simulator as the API shows it: run, revision and stations. The page's
variables have the names of its own; `generation` is the counter of the code, `poll` and
`save` are what `refresh` and `save` are waiting for. Each task between two awaits is one
action. A change that was sent is in `net` until the server handles it, and stays there
when the page gives up, so an answer may be lost although the change is applied later.
`attempt` numbers the decisions of the user (an opened form, a button of a row, a draft kept
after a conflict); sending one draft twice is one decision. `applied` is a history variable
with the definition that each change replaced and the one that its author had been shown.
`Destroy` ends the page at any point; the answers it still waits for then change nothing.

### `DisplayPage`: `display.js`

`main` and `hist` are the requests of the two loops, `timers` the armed timers of the first.
The code compares generation counters with a copy made at the request; the model clears the
request's `fresh` flag where the code increments the counter. `server` is the
simulator with a ring of `HistoryLimit` receptions per station. A reception is its sequence
number.

### `DisplayView`: what `display.js` draws

Each step of `DisplayPage` is taken together with its effect on what is drawn: the actions
named `...View` conjoin an action of `DisplayPage` with the rest of the same handler, and
`Invisible` lists the steps that draw nothing. The map's own steps come between: the library
loads late or never (`LibraryLoads`, `LibraryFails`), the host shows and hides the page
(`Resize`), and the size observer is called some time later (`Observe`). Leaflet is external;
what matters of it is which layers are on the map and which run it was fitted to. `coverage` is
the cache that `renderMap` keeps by station and RF revision, with the run and revision that
each entry was built from as history. Whatever `render` writes anew from the snapshot is
represented by the run it shows.

### `PageRuntime`, `ManagerPage`: `runtime.js` and `manager.js`

`PageRuntime` is the lifecycle of mounts on one root: `claim`, a start that throws, `later`,
`destroy` and a mount after it. Its actions are partial steps that a page's module joins with
its own, as the code's functions are called by the page. `ManagerPage` joins them with
the fleet part of the manager page: a record of variables, a poll and two writes for each mount.
A poll is three reads that are answered one by one. A write is `sent`, `commanded` when the
driver's command has returned, `answered` when the handler has read the state again, or `lost`
when the simulator restarted in between. The requests of a mount that has ended go on and end
like any other; when and how they are answered makes no difference then, so `Ended` takes their
answers for given.

### `MC` modules

`MCEngine`, `MCEngineAtomic`, `MCEngineShadow`, `MCProjection`, `MCDriver`, `MCHttpServer`,
`MCStationEditor`, `MCDisplayPage`, `MCDisplayView` and `MCManagerPage` define the constants of
the configurations.
`MCEngineShadow` composes the engine with both observers. Definitions that a comment calls a
mutant are deliberate mistakes, next to the definition they stand in for: a property is kept
only while one of them breaks it.

## Runs

All runs pass. Every limit of the code is a constant that a run sets low enough to be
reached. Calls stop at the limits of revision, sequence and time, which are the code's own
`ErrLimit` guards, so these also bound the state space; deadlock is not checked because a
run that has used up its revisions, or a server that has returned, really has stopped.

| Run | Question | Bounds and why they are enough |
| --- | --- | --- |
| `engine_calls` | Does each call happen at one instant or not at all, and do history, clock, fleet and channels stay exact over calls that may fail or be cancelled at any report? Are identifiers and derived data of stations right? `Atomic`, `HistoryContiguous`, `ClockExact`, `FleetExact`, `TypeOK`, `StationsCoherent`, `EditsAdvance` | 0-2 vessels, history of 2 (smaller than one call's reports), ticks of 2 units with calls of 0, 1 and 5, speeds 0, 1/2 and 3/2 so remainders carry, 4 MMSIs and 7 sequence numbers so both ranges run out inside a call; both vessel and station limits are reached. Every definition there is; 2 stations at a time and revisions up to 5, so an identifier could be reused after a removal. |
| `engine_store` | Does the store keep exactly the newest observations, and is every answer about it complete and accepted? `StoreExact`, `AnswersAccepted`, `PagingComplete` | 2 stations, 2 vessels at a time and 4 MMSIs over a run, 2 targets, rings of 2, ages fresh to 1, stale to 2, expiry at 4, a millisecond of 2 units so that durations are rounded: overwriting, eviction of one of several and expiry all happen, also between and around removals. Every selection, cursor and page size is asked for in every state. |
| `engine_shadow` | Does the observation store depend on how callers split time? Are the recent rate and the counters exact, and are snapshots across edits accepted? `SplitIndependent`, `RatesExact`, `SnapshotsAccepted` | One target allowed, calls of 1, 3 and 6 units over 8 units, expiry 4: one call contains reception, expiry and eviction in either order. 2 buckets and calls of up to 3 whole seconds: every bucket is reused, also after idle seconds (empty fleet). |
| `driver_time` | Is virtual time the integral of speed over real time? `TimeExact`, `CommandsSettled`, `StoppedFrozen` | Two interchangeable clients and `Run`; the clock moves by +2 or -1 up to 4; a chunk of 2 and a backlog limit of 5 virtual units: settlements of one and two chunks and beyond the limit; speed 3/2 leaves a remainder to carry and pausing drops time; a full chunk is exactly `MaxAdvance`. |
| `driver_edits` | Do the checks made before settling hold at the edit? `ChecksHold` | Two clients, one station, room for one, stale and current revisions, this run and an earlier one, valid and invalid definitions and counts. |
| `driver_live` | Does everything finish? `CatchesUp`, `CancelStops`, `CommandsReturn` | One client that may call for ever, clock up to 3. One client suffices to starve `Run` and to be starved; the safety runs have two. |
| `httpserver` | `WorkOutlivesRequests`, `ResultComplete`, `RunReturns` | Three requests, every order of cancellation, failures, ends and deadline; `Run` has no loop. |
| `editor` | Can a change overwrite what its author did not see, or be applied twice? Does the page go back? `NoBlindWrite`, `AppliedOnce`, `ConflictShown`, `SnapshotAdvances` | One site, two definitions, two station places, two runs with three and two revisions, two decisions and two sends: enough for a lost answer and a second send, for a conflict and a rebase, for two stale polls around a save, and for a restart that brings the same revision with another definition. |
| `editor_live` | Does the editor come to rest? `Converges` | The same with one decision and one send; the loop of polls itself is unbounded. |
| `display` | Does the page show what was chosen, in an unbroken history, with one loop? `SelectionShown`, `RowsContinue`, `OneLoop` | Two stations, two runs, ring and page of 1 so that a cursor is overtaken, two rows kept of three, two actions of the user between any two steps. |
| `display_view` | Does anything of another run or revision stay on the page? Is the map fitted whatever comes last? Does the page come to rest? `PageOfSnapshot`, `Framed`, `Converges` | One station, two runs of which the second brings the RF revisions of the first again, two revisions in the first, one click of the user between any two steps; the page starts shown or hidden and the host shows and hides it as often as it likes. Both loops are unbounded. |
| `manager` | Does a poll undo a write or mix runs? Is an answer that was read after its command one of the right run and time? Does a destroyed page stay quiet while its root is mounted again? `MountsExclusive`, `OneRun`, `AnswerFollowsCommand`, `PollsAdvance`, `DestroyedQuiet`, `Converges` | Each behaviour has one of three bounds, chosen initially: a restart, a second mount and one write; two commands, one of them another client's, and one write; two overlapping writes. Polls, failures and timers are unbounded. |

Symmetry is used for the driver's clients in the two safety runs only.

What the properties say, and which hazard each is for, is in the comments above them and
in `PROJECT.json`. The less obvious ones:

- `ClockExact`: `elapsed * SpeedScale + remainder` equals what committed calls were asked
  for. A remainder dropped at a failed call or kept by a rejected one breaks it.
- `TargetsComplete`: as long as nothing was evicted, an unexpired reception that a ring
  still holds and nothing newer replaced *is* the observation. It ties two stores that the
  code maintains separately.
- `StationsCoherent`: a reception shows the receiver as it was when it was made, although the
  station has been edited since; its revisions say which configuration that was. Under the present
  RF revision it was made on an enabled channel at the present site and not before that revision
  began, under an earlier one not after (`MadeUnder`). An edit that changes the RF configuration and
  leaves the revision breaks it at the receptions of before, or at the coverage.
- `EditsAdvance`: besides identifiers and the set's revision, a station's RF revision and its
  instant change exactly when its RF configuration does (`Advanced`): a rename leaves both alone.
- `TimeExact`: `owed` changes only when a command changes the speed, so the invariant says
  that between speed changes each unit of baseline moved the clock by exactly `speed`.
  Delivering a chunk twice after a cancellation, or moving the baseline past undelivered
  time, breaks it.
- `CommandsSettled`: a command's engine call never happens at a baseline older than the
  clock was throughout the call, so it cannot act before time that had already passed.
- `ChecksHold`: the comment on `prepareStationEdit` says that the checks stay valid
  because the driver is the only mutator; this is that claim.
- `NoBlindWrite`: relates what a row, form or conflict panel showed to what the server
  replaced, possibly long afterwards. It needs both halves: the server's compare-and-set,
  and a page that never pairs a revision with definitions of another one. The restart
  matters: two runs count revisions from the same number.
- `SnapshotAdvances`: an answer to a poll may be older than the answer to a save that was
  received in between; the page drops it by its generation.
- `StoreExact`, `FleetExact`, `RatesExact` and `AnswersAccepted` each join parts that have names
  and comments of their own; a reader of a counterexample evaluates the parts.
- `PollsAdvance`: what a poll shows was read no earlier than what it replaces, by run and then
  by time. It is the promise of the generation counter. It holds of polls only: two overlapping
  writes may be answered in the other order than they were read, so for up to one poll the clock
  may go back.
- `AnswerFollowsCommand`: the value in the answer to a write is the value asked for unless some
  other command followed. The page shows the answer, whatever it is.
- `PageOfSnapshot`: what is cached is what the snapshot says, although the cache is not looked at
  when the run changes but emptied in another function (`clearMap`).
- `OneLoop`, `SnapshotAdvances` and `DestroyedQuiet` also cover the destroyed page: no timer is
  armed and nothing changes although answers still arrive.
- `RowsContinue`: the rows of a station are one run of sequence numbers that ends at the
  cursor, whatever was reset, dropped or overtaken in between.

## Fairness

Only `driver_live`, `httpserver`, `editor_live`, `display_view` and `manager` assume any.

- `WF(Tick)`: the ticker of `Run` keeps firing (`time.Ticker`).
- `SF(Enter(p))`, `SF(Exit)`: a process that waits for the mutex gets it although others
  keep taking it. Strong fairness is what `sync.Mutex` gives: after a waiter has waited
  one millisecond the mutex is handed to it in order.
- `WF(Hold(p))`: a process that holds the lock goes on. Every step under the lock is
  computation, no I/O.
- Nothing is assumed of the clock or of clients, and none of `ContextDone`: `select` may
  prefer a due tick every time. `CancelStops` holds all the same, because a settlement
  under a cancelled context fails and ends `Run`.
- `HttpServer`: the main goroutine and `Serve` go on, the shutdown timer fires, and work
  that was cancelled returns (which `CancelStops` shows of the driver). Nothing is assumed
  of requests: a handler may hang.
- `StationEditor`: the refresh loop goes on (`runtime.later` in its `finally`), and every
  request ends because `runtime.fetch` aborts it at its timeout: weak fairness. Any poll may
  still be lost, so that some are answered is strong fairness of `PollServe` and
  `PollReceive`. Nothing is assumed of the changes in `net`.
- `DisplayPage`: both loops go on and requests end, as above. A failed read of one loop makes
  the other wait, so reads that fail for ever in turn would keep the history from its end;
  the assumption is that from some time on no read fails. The receipt of a page with no news
  changes exactly what a failed read of the history changes, and it goes on happening once the
  history has caught up. The assumption therefore excludes the failures that no receipt could be
  (`HistFails => HistReceive`), and a page whose history loop keeps polling is among those that
  `Converges` is checked on. Nothing is assumed of the user,
  nor in `DisplayView` of the map: the library may never load and the observer may never be called.
- `ManagerPage`: timers fire, the three reads and each write end, by their timeout at the latest
  (`runtime.fetch`), and from some time on no read of a poll fails, in the same sense: a poll that
  fails as a received one would end is not excluded. A write may fail every time.

## Proofs

`tlapm` checks every proof to its leaves. Assumptions are only those on the constants, named
next to their declarations (`LimitsAssumption`, `InputsAssumption`, `ConfigAssumption`,
`ReadsAssumption`, `TextAssumption`, `DriverAssumption`, `HasWorkAssumption`, `EditorAssumption`, `DisplayAssumption`, `RuntimeAssumption`,
`ManagerAssumption`); TLC evaluates them on every run.

| Theorem | Module | Says |
| --- | --- | --- |
| `TypeCorrect` | `EngineProofs` | `Spec => []TypeOK` |
| `HistoryCorrect` | `EngineProofs` | `Spec => []HistoryContiguous` |
| `ClockCorrect` | `EngineProofs` | `Spec => []ClockExact` |
| `EditsCorrect` | `EngineProofs` | `Spec => EditsAdvance` |
| `CoherentCorrect` | `EngineProofs` | `Spec => []StationsCoherent` |
| `FleetCorrect` | `EngineProofs` | `Spec => []FleetExact` |
| `StoreCorrect` | `EngineStoreProofs` | `Spec => []StoreExact` |
| `PagingCorrect` | `EngineReadsProofs` | `Spec => []PagingComplete` |
| `PagesCorrect` | `EngineReadsProofs` | `Spec => []PagesAccepted`, half of `AnswersAccepted` |
| `SnapshotsCorrect` | `EngineReadsProofs` | `Spec => []SnapshotsAccepted` |
| `AnswersCorrect` | `EngineReadsProofs` | `Spec => []AnswersAccepted` |
| `TimeCorrect` | `DriverProofs` | `Spec => []TimeExact` |
| `ChecksCorrect` | `DriverProofs` | `Spec => []ChecksHold` |
| `SettledCorrect` | `DriverProofs` | `Spec => CommandsSettled` |
| `FrozenCorrect` | `DriverProofs` | `Spec => StoppedFrozen` |
| `AtomicCorrect` | `EngineProofs` | `Spec => Atomic`, the refinement of `EngineCalls` |
| `WorkOutlives` | `HttpServerProofs` | `Spec => []WorkOutlivesRequests` |
| `ResultCorrect` | `HttpServerProofs` | `Spec => []ResultComplete` |
| `BlindCorrect` | `StationEditorProofs` | `Spec => []NoBlindWrite` |
| `OnceCorrect` | `StationEditorProofs` | `Spec => []AppliedOnce` |
| `ConflictCorrect` | `StationEditorProofs` | `Spec => []ConflictShown` |
| `ShownCorrect` | `StationEditorProofs` | `Spec => SnapshotAdvances` |
| `SplitCorrect` | `EngineStoreProofs` | `SplitSpec => []SplitIndependent` |
| `RatesCorrect` | `EngineReadsProofs` | `RateSpec => []RatesExact` |
| `SelectionCorrect` | `DisplayProofs` | `Spec => []SelectionShown` |
| `RowsCorrect` | `DisplayProofs` | `Spec => []RowsContinue` |
| `LoopCorrect` | `DisplayProofs` | `Spec => []OneLoop` |
| `ViewCorrect` | `DisplayProofs` | `ViewSpec => []PageOfSnapshot` |
| `FramedCorrect` | `DisplayProofs` | `ViewSpec => []Framed` |
| `PageUnderView` | `DisplayProofs` | `ViewSpec => [](SelectionShown /\ RowsContinue /\ OneLoop)` |
| `ExclusiveCorrect` | `ManagerProofs` | `Spec => []MountsExclusive` |
| `OneRunCorrect` | `ManagerProofs` | `Spec => []OneRun` |
| `AnswerCorrect` | `ManagerProofs` | `Spec => []AnswerFollowsCommand` |
| `QuietCorrect` | `ManagerProofs` | `Spec => DestroyedQuiet` |
| `AdvanceCorrect` | `ManagerProofs` | `Spec => PollsAdvance` |

The engine has three modules of proofs, each extending the one before: `EngineProofs` (the calls,
their atomicity, history, clock, fleet and stations), `EngineStoreProofs` (the reception store, splits of
time, and what all that is stored agrees on) and `EngineReadsProofs` (counters and answers).

`EngineProofs` first states what the helpers return (the maximum of a finite set, `RemoveAt`,
`Retain`, `Push`, `Count`, `RemoveObservations`, `Record`) and then proves one lemma per
action.

- **Types.** `TypeOK` is not inductive: a loop index must lie within the staged stations,
  the batch must have one entry per staged station, and a record of the batch must name a
  configured station, or `Commit` and `ApplyRecord` would apply functions outside their
  domains. `TypeInv` adds `StagedShape` (these facts, and that the staged stations are the
  committed ones), `ObservationsFinite` (so that a newest observation exists) and
  `StationIDsOrdered` (so that an ID names one station).
- **History.** `HistoryContiguous` says nothing of the call in progress, so `Commit` could
  append anything. `StagedReports` says that the staged reports continue the committed
  sequence one by one.
- **Clock.** `StagedClock` says that target and staged remainder of an advancing call equal
  the committed clock plus its credit; `Elapse` establishes it by the division law,
  which is the lemma `DivMod`.
- **Edits.** The theorem is an action property. It needs that a commit never lowers a revision,
  which is `StagedRevision`; an identifier is new because it comes from `lastStationID`, which
  no step lowers and every configured identifier is at most.
- **Stations.** `StationsCoherent` relates the receptions to their stations only between calls, and
  says nothing of what is staged. `BatchFits` says it of every staged reception, against the
  committed stations, which no edit can touch while the lock is held. `Decide` lets a reception
  through only on an enabled channel of an enabled station, which is what its receiver then shows. No
  reception is later than the committed instant (`HistoryDated`), which an edit makes the
  beginning of a new RF revision (`FitsEdited`). That a reception is
  not from before its station needs that a call reports no earlier instant than the one it began
  at (`ReportsLate`): the first tick of `advance` lies after it, by the division law, and `SetCount`
  reports at it. Commit moves the instant on, which is `StagedClock`; an edit keeps identity and
  birth of its station and takes no revision back, so old receptions still fit.
- **Fleet.** `FleetExact` speaks of the committed vessels between calls. `FleetInv` says the same
  of the staged vessels against the messages continued by the reports of the call in progress
  (`FleetSound`): each vessel shows its newest report there, unless the history has dropped it,
  and that report went out on the channel the vessel does not use next (`Alternates`). One report
  more keeps this (`OneMoreReport`), and so does dropping the oldest (`SuffixSound`), which is all
  that `Commit` does to the history; a failed call drops vessels and reports together. `TimesInv`
  adds the instants: while `advance` works on a tick, the vessels before the loop's are at that
  tick and the others at the one before (`Dated`), so all have the last tick when the call is done.
- **Store.** `StoreExact` speaks of the store between calls; inside one, receptions are staged,
  commit publishes the counters, and only then are the records applied one at a time.
  `StoreInv` therefore relates the store to what is `Pending`, the staged records not yet
  applied. `RingInv`: each ring is unbroken and ordered (`RingsExact`), the pending records
  continue it without a gap up to the counter that is or will be committed (`PendingComplete`),
  in the order of emission and after all that is stored (`PendingOrdered`), and a station still
  to be asked about the report in progress has not received it (`PendingBounded`).
  `ObservationsInv`: each target has one observation per station, the newest gives its
  instant, and none is later than a pending record, so that recording one replaces an older
  one. `CompleteInv`: the newest retained reception of an MMSI is its observation, until it
  expires or a target was evicted. `VictimExists` shows that eviction at the limit always has
  a target to remove, and `RemoveFits` that what is left keeps its provenance.
- **Pages.** A sound ring holds the sequences from `Dropped(id) + 1` to the counter, so a page is
  known in closed form (`PageFrom`, `PageTo`, `PageShape`): positions in the ring for any cursor,
  a tail included. `PagesComplete` compares that with what the cursor asks for, and `PagesValid`
  goes through the display's checks one by one, with the revisions and the receiver of each row from
  `CoherentInv` (`HistoryNamed`). No step
  of the engine is looked at again: both follow from the invariants above (`EngineInv`).
- **Snapshots.** `SnapshotInv` adds to the invariants above what the display takes for granted and
  the store does not need. `LimitsInv`: revisions and identifiers start at one and there are at most
  `MaxStations` stations. `TallyInv`: the counters of a station, committed or staged, add up to
  its opportunities, by outcome and by channel, and its rate buckets count no more than they do.
  `TotalsInv`, of the rates below: the run totals cover what the stations received. `SourceInv`: an
  observation is of a configured station, which has reached its revisions and sequence
  (`ObservedFits`); two receptions of one transmission agree on vessel, channel and instant, and a
  sequence names one transmission (`Agreement`). While a call runs this includes the receptions that
  wait to be applied, and those of the report in progress agree with it (`InProgress`). Then no
  step of the engine is looked at again. An answer consists of lists made by `Sorted`: under
  an order that is total on a set, ranks are distinct and leave no place empty, so the list has each
  element once and in order. `TextAssumption`, that distinct identifiers have distinct texts,
  makes the API's orders total. Each part of the display's checks has a lemma:
  `StoredKnown` (the receiver of whatever is stored had its channel enabled), `RatioAccepted`,
  `CountersAccepted`, `StationAccepted`, `TargetAccepted`, `ProvenanceCounted` (the statuses
  counted by station are those counted by target), `RecentListed` and `ReferencesAccepted`;
  `SnapshotAccepted` joins them.
- **Splits.** The reference expires at every instant, the engine only at instants of receptions and
  at the end of a call. Expiring twice is expiring at the later instant (`ExpireTwice`), so the
  fold over all instants is one expiry (`EachExpired`, by the least instant at which it were not),
  and none if the clock stands still (`ExpireNothing`). `SplitInv` says that store and reference
  are equal at every step, that the reference's clock is not behind what the loop expired and
  not ahead of any pending reception, and that nothing in the store is expired at it.
- **Rates.** A sum over a finite set is the number of cells in its columns (`SumIsCells`), so the sum
  of the sizes of sets that have nothing in common is the size of their union (`SumIsUnion`): facts
  about sums need no induction. `LogInv` says of a station, as committed and as staged by the call
  in progress, that its lifetime counters are the numbers of its log (`Accounts`) and that each
  bucket counts the entries of the second it was last used for, which is no older than any entry
  of its slot and not in the future (`Filed`). Two seconds of one slot are equal or a window apart
  (`SameSecond`), so the buckets in the window count each recent entry once and nothing else
  (`WindowCounted`); no clearing of idle buckets is needed. What is staged is filed for the
  report in progress and for the end of the call, as time only moves on in between. `TotalsInv`
  bounds the receptions of the configured stations by the run totals; removal only lowers the
  former, and a transmission counts once however many stations hear it.
- **Atomic calls.** `AtomicInv` says what a call has staged so far in terms of what it was checked
  for: a growing `SetCount` has one report per vessel it created (`CountStaged`), and `advance`
  one per vessel of every tick it is past, up to a target that its credit determines
  (`AdvancePlan`, `AdvanceProgress`). At the last step of either the sums are those of
  `EngineCalls`; the division law turns the time a caller sees back into instant and remainder.
  `NewStaged` shows that New cannot fail halfway: its fleet fits the MMSIs, and as a report is
  received at most once per station the receptions fit too (`ConfigAssumption`). Station edits
  map index by index, because ordered identifiers name one station.
- **Driver.** `DriverInv` ties the lock to the one process that delivers or acts, and says that nobody
  has it once `Run` stopped (`LockCoherent`); only the holder touches the engine, so nothing can
  come between a check and the act (`Checked`), and `StoppedFrozen` follows. `SettledSince` says
  that the instant to which the holder's settlement leads is not before its call, chunk by chunk.
  A chunk moves virtual time and the baseline together, and a new speed is set after all time
  at the old one was delivered, so `TimeExact` is kept.
- **HTTP server.** `Phases` says what is over once `Run` has passed a phase (not listening,
  no active request, work cancelled last); `Accounted` that a failure is in the result once
  the phase that joins it has passed. They hold with and without work, and for any set of
  requests, while TLC checks three requests with work.
- **Station editor.** `EditorInv` says of everything the page or a request holds that it is not ahead
  of the simulator and, if it has the simulator's run and revision, agrees with its stations
  (`Views`, `Informed`): once the simulator advances, what was held is out of date and nothing
  more need be known of it. So a change that is not refused replaces what its author saw.
  `Attempted` says that one attempt is against one revision, which its application ends.
  `Ordered` says that an answer that will be shown is not behind what is shown, which the
  generation ensures; a draft is then never ahead of the configuration shown, and `PanelTrue`
  that a rebase keeps the draft against the simulator's definition, or one that is refused.
- **Display page.** `PageInv` ties a request to what is shown while its `fresh` flag is set: a poll
  that will be shown asked for the selection that is chosen (`MainInv`), and a page of history that
  will be merged was asked for after the page's present cursor (`HistInv`). Rows are then in closed
  form, the sequences that end at the cursor (`RowsSound`): a page from the simulator is such a run
  (`PageFacts`) and either continues the cursor or says that there is a gap (`PageContinues`), in
  which case the rows are dropped first. While no station is chosen the rows are
  the snapshot's sample, a sequence only because `Stations` is finite.
- **Drawing.** `ViewInv` adds to `PageInv` what is on the page in terms of the snapshot alone
  (`MapInv`, `PaneInv`). Each step that shows a snapshot of another run empties the
  cache and the panes before it draws, so layers found in the cache are of the run and the RF
  revisions shown. A size or library that comes late leaves the map unfitted only until the next
  step that looks, which is what `Framed` excludes.
- **Manager page.** `PageInv` adds to the types that a mount never made has neither poll nor
  timer (`UnbornIdle`, `PollsBehind`), so that an answer arms a timer only of a mount that was
  made; that the poll of an ended mount is behind the generation that `destroy` advanced, which
  is why it is dropped (`PollsBehind`); and that the setting still has the value of a
  command that has returned, or the time has moved on (`CommandsKept`).
- **Order of what is shown.** `OrderInv` says that nothing read is ahead of the simulator, and that
  a poll whose generation is still current has read nothing older than what is shown: a write
  shows its answer only together with an advance of the generation.

Only model-checked: `CatchesUp`, `CancelStops`, `CommandsReturn`, `RunReturns` and the three
`Converges`. They are liveness under fairness, which is beyond the prover. Every invariant and
every action property that a run checks is stated by a theorem.

## Limits of the models

- Floating point: `normalizeSpeed`, the link budget, the random draw, the geodesic and the coverage
  contours are not modelled. Speeds are the integers the engine stores.
- `int64` and `uint64` ranges are the constants `MaxInt`, `MaxRevision`, `MaxSequence`, and
  the guards that the code puts before them are guards here. `MaxElapsed` stands for both
  limits on time, the duration range and year 9999, whichever comes first.
- Memory is not modelled: slices that a reader gets are copies in the code.
- Left out of `Projection`: the checks of metadata and settings, which are constants of a run, and of
  the run that a page names; presence of fields that are always sent; ranges of coordinates,
  decibels, link values and finite numbers; the geometry of the coverage; and the decoding of
  sentences.
- The pages have models of the simulator of their own, smaller than `Engine`: what they
  rely on (revisions that advance, runs of sequence numbers, gaps that are reported) is what
  `EditsAdvance`, `StoreExact` and `PagingComplete` establish for the engine.
- The station editor's form (fields, sectors, local validation) is one value, chosen when the
  draft is submitted: no await lies between reading the fields and sending them. The manager
  page's input limits, sorting, filtering, wording and the clipboard are left out.
- In `ManagerPage` a write that the page gave up and that is handled later is a command of some
  other client. A field that the user types in while its write is being saved takes the confirmed
  value when the answer comes, as the code has it.
- The fetch function of a host may ignore the abort signal, so a destroyed page's answers still
  arrive in the models; a host that never answers is covered by the timeout.

### Not modelled

- Vendored code. Leaflet is 14419 of the repository's 15467 lines of JavaScript; nothing in it is
  the program's own, and `DisplayView` models it from how `display.js` uses it. The share of mapped
  JavaScript lines is therefore low by construction: of the pages' own four files most functions are
  mapped, and the Go packages on top.
- UI templates, command lines, sentence encoding, contract types and the wiring of the test
  bench have no state worth a model.

## Working with the project

```
tlc -workers 2 -config MCDriverTime.cfg MCDriver
tlapm EngineProofs.tla
```

Each run's module, configuration and properties are in `PROJECT.json` under `runs`.
