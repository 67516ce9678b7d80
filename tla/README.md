# A TLA+ model of driftbrake

driftbrake is a circuit breaker for trading strategies that act on simulated
profit.  It simulates a transaction, lets the strategy submit it, waits for the
receipt, records the pair *(predicted, realized)* or the revert, and tells the
strategy to halt when the record shows that reality drifts from the simulation.
This directory models the parts of it that keep state or run concurrently,
checks them with TLC on small instances and proves the safety properties that the
passing runs check, invariants, action properties and the refinement, with TLAPS
for all instances (one, about bytes, is left to TLC).

Run everything from this directory, for example

    tlc -workers 2 -config Journal.cfg MCJournaledGuard
    tlapm JournalProofs.tla
    tlapm ToyStrategyProofs.tla

`PROJECT.json` lists the runs, the source lines behind each definition, the
mutants that each property catches, the findings and the hazards.

## 1. Inventory

| Component | State | Operations | What is hard |
|---|---|---|---|
| `core` (`ReconcileHistory`) | timeline, pairs, reverts | `append`, `record_revert`, windowed reads | three collections that must agree, windows that count different things |
| `reconcile` (`ReconcilePolicy`) | configuration only | `evaluate` | six guards, early returns, overflow, unusable pairs |
| `journal` (`JournaledHistory`) | lock file, journal file, `.compact` file, in-memory history | `open_or_create`, `append`, `record_revert`, `compact`, drop | kills between system calls, failing system calls, power cuts without a sync, two processes, compaction against windows |
| `receipt-poller` | deadline of one poll; the caller's history | `poll_until_settled` | late receipts, time-outs, re-polls, dropped futures, order of booking |
| `revm-backend` | semaphore, blocking jobs | `simulate` | permits held by jobs that outlive their caller, waiting outside the timeout, whose answer reaches whom |
| `examples/toy-arbitrage` | nonce, history, drift counter, pinned fork | the main loop; calldata, RLP and signing | lost answers, restarts, trades that confirm after their time-out, bytes that a strict node must accept |
| parameter sweeps (`driftbrake-py`, `benchmark`) | counters per grid point | `run_sweep_raw`, `run_to_first_halt` | counters over a policy whose guards hide one another, overflow |
| `driftbrake-py` bindings | the wrapped history and policy | constructors, `evaluate`, `details`, `unwrap_or_raise` | defaults kept twice, narrowing casts |
| `benchmark` generators, `driftbrake` facade, `core` traits | none | | |

How they interact: the strategy calls `SimEngine::simulate` (revm-backend) and
decodes a prediction; submits; awaits `poll_until_settled`, which writes the
history it borrows; then asks `HaltPolicy::evaluate` (reconcile), which reads
the history.  `JournaledHistory` wraps the history with a file; a strategy that
uses it calls its `append` and `record_revert` itself and passes `history()` to
`evaluate`.  There are no threads inside `core`, `reconcile` and `journal`;
concurrency comes from several processes on one journal path, several tasks on
one backend, and from everything that can happen while a poll awaits.

What makes each component correct:

* history: pairs and reverts are exactly the two kinds of timeline entries;
* policy: it halts exactly when one of the guard conditions holds, and a step
  that should be invisible to a guard is;
* journal: one writer; an acknowledged entry that compaction may not drop is
  there after any restart; a restart recovers a contiguous run of what was
  written, a power cut included; a journal whose process died can be opened again;
* poller: the history holds what the poll outcomes say, once each; a poll ends
  soon after its deadline; a receipt that was there in time is not missed; a
  caller that polls in order gets a history in the order of confirmations;
* backend: permits are neither leaked nor doubled; every call returns, with what
  its own job made of its own candidate;
* bindings: what Python is told of a halt is what the timeline shows;
* sweeps: a stricter configuration never reports fewer or later halts, and the
  two implementations agree;
* loop: it does not trade while its policy demands a halt; nonces are neither
  reused nor skipped; what reaches the chain is what was simulated.

## 2. Modules

| Module | Models | Extends |
|---|---|---|
| `ReconcileHistory` | `core/src/types.rs`: the history as a record, its operations as operators | |
| `ReconcilePolicy` | `reconcile/src/lib.rs`: one operator per guard, `evaluate` as the first check that trips | `ReconcileHistory` |
| `DriftGuard` | a growing history read by one policy, and reference definitions of the guards | `ReconcilePolicy` |
| `Sweep` | `run_sweep_raw` and `run_to_first_halt` over the rows of `DriftGuard` | `DriftGuard` |
| `PyBindings` | `driftbrake-py/src/lib.rs`: the policy's arguments, the decision and its dictionary | `DriftGuard` |
| `DurableLog` | what a journal promises: an abstract log that survives restarts | |
| `Journal` | `journal/src/lib.rs`, one action per system call | |
| `JournalPower` | the same across power cuts: what an unsynced file and rename may leave | `Journal` |
| `JournaledGuard` | the journal and the policy together: what a restart does to a decision | `Journal`, `ReconcilePolicy` |
| `ReceiptPoller` | `poll_until_settled` with a chain, a receipt source and a caller | `ReconcileHistory` |
| `SimOutput` | `convert_result` of revm-backend: one shape for success, revert and halt | |
| `RevmBackend` | `simulate` called by several tasks | `SimOutput` |
| `TxWire` | `rlp.rs` and the signing half of `rpc.rs`, byte by byte, and a strict node that reads the bytes | |
| `ToyStrategy` | the loop of `examples/toy-arbitrage`, with restarts | `ReconcilePolicy`, `SimOutput`, `TxWire` |
| `ReconcileHistoryProofs` | lemmas about the history's operators: induction, filtered sequences, the replay loop, sums over sets and the lists of them | `ReconcileHistory`, `TLAPS` |
| `ReconcilePolicyProofs` | lemmas about the guards and `evaluate` | `ReconcilePolicy`, `ReconcileHistoryProofs` |
| `DriftGuardProofs` | theorems about `DriftGuard`, `Sweep` and `PyBindings` | `Sweep`, `PyBindings`, `ReconcilePolicyProofs` |
| `JournalProofs` | theorems about `Journal`, that it implements `DurableLog`, and theorems about `JournalPower` | `JournalPower`, `TLAPS` |
| `JournaledGuardProofs` | theorems about `JournaledGuard` | `JournaledGuard`, `JournalProofs`, `ReconcilePolicyProofs` |
| `ReceiptPollerProofs` | theorems about `ReceiptPoller` | `ReceiptPoller`, `ReconcileHistoryProofs` |
| `RevmBackendProofs` | theorems about `RevmBackend` | `RevmBackend`, `TLAPS` |
| `ToyStrategyProofs` | theorems about `ToyStrategy` | `ToyStrategy`, `ReconcilePolicyProofs` |
| `MC*` | small instances: policies, outcomes, sets of processes | the module after `MC` (`MCDriftGuard` extends `Sweep` and `PyBindings`) |

Correspondence of state:

* A history is `[timeline, pairs, reverts]` as in the struct.  Money is an
  integer; `Width` is the width of `i128`/`u128` and matters where a guard adds
  up.  An `f64` ratio is the exact fraction `<<realized, predicted>>`.  A policy
  is a record with the struct's fields, an `Option` a set of at most one
  element.  `IsPolicy` is what the constructors accept in a debug build; in a
  release build the comparison of the two thresholds is not checked.
* A journal file is a header and a sequence of cells, one per frame, each whole
  or torn.  The header is `none` (empty or no file), `torn` (1 to 15 bytes),
  `overwritten` (with a frame) or `ok`; `Openable` is what an open does not refuse
  and `Recovered` what it has of the file.  `handle[p]` is where process `p` writes:
  at the `end` of the file at the path, or, after a `compact` whose last seek failed,
  at its `start`, or, after one whose reopen failed, to the `unlinked` file it
  replaced.  `pc[p]` is the
  next system call.  `inner[p]` is the timeline of the in-memory history.  CRC32
  is taken to reject every torn frame.
* In `JournalPower` nothing is ever synced, because the code never syncs: after a
  power cut any frames of the file at the path may be missing or torn, its header
  may be short or gone, and the lock file may be back or gone.  A step of writeback
  would add nothing: what a cut may leave after one it may leave without.  Nor would
  a rename of `compact` that did not reach the disk: it leaves what a cut before the
  rename may leave.  A cut counts as a kill.
* In `PyBindings` an argument that may be `None` is a set of at most one element;
  `Halt` builds the `HaltReason` of `evaluate` with its numbers, `details` casts
  them to `NarrowWidth` bits.  That the defaults written in the Python signatures
  are those of the Rust constructors is an assumption TLC evaluates
  (`PythonDefaultsAgree`).
* In `ReceiptPoller` a transaction stands for its prediction.  `Look` is the
  moment the source reads the chain, the `On...` actions are the branches the
  poller takes when it resumes.  The caller may have both transactions in flight
  and polls again after a time-out or a source error.  The interval is chosen
  once, as the configuration is; 0 is what a small fraction of a short block
  time rounds to.  `in_order` distinguishes a caller that sends from one account
  and waits for each outcome before it polls the next from one that does as it
  likes.
* In `RevmBackend` a call is idle, waiting for a permit, running, or joined;
  `orphans` counts jobs whose caller has left.  `job` is the candidate that was
  moved into the job of a call and how the job ended (any result of the EVM on
  that candidate, or an error), `answer` what `simulate` returned.
* In `ToyStrategy` the fork is chosen once per process because the code pins it
  at the start.  It holds the results of `getReserves` and of the simulated trade;
  the decoders keep the truncation of a word to `u128` and the cast to `i128`.  A
  price is a fraction, and comparing cross-multiplied fractions gives the answers
  of `f64` for empty pools too (infinities, and 0/0, for which it is false).  A
  receipt is what the node answers; `get_receipt` and `ToyArbRealized` turn it into
  a net profit, a revert or a decode failure.  A transaction is encoded, hashed and
  signed to bytes, for every signature of a small set (high and low `s`, leading
  zero bytes), and the node's side decodes them strictly: shortest encodings only,
  low `s`, the parity that recovers the account, over the hash of the same fields.
  The notional amount, the gas price and the length of `r` and `s` are smaller than
  in the code, the length of the calldata is the same; the order of the curve is a
  constant of which only its oddness matters.
* In `Sweep` one step replays one row at every grid point.  The code has the loops
  the other way round, with a history per point; the points do not affect one
  another.  Its windows of 3 and 20 are `FastWindow` and `SlowWindow`.

## 3. Runs that pass

| Run | Distinct states | Shows |
|---|---|---|
| `drift_guard` | 37 449 | `HistoryAgrees`; `HaltsExactlyWhenAGuardTrips`: the filters, windows and folds of `evaluate` against conditions stated with sets of timeline indices, in exact arithmetic; whitepaper Properties 4 and 5 and what may clear a halt, as action properties; `TighteningNeverMissesMore` (docs/BENCHMARK.md) and `SweepsAgreeOnFirstHalt` for the sweeps; `DetailsExplainTheHalt` for the Python bindings |
| `journal` | 317 846 | types, one writer, durability and the refinement of `DurableLog` under kills at every step; service resumes after kills if somebody removes stale locks; the revert guards decide the same before and after a restart, and so do all guards on timelines of usable pairs |
| `journal_faults` | 41 369 | with failing system calls and power cuts: one writer, no reordered or invented entries, and what a cut leaves, if an open accepts its header, replays as a contiguous run of the timeline |
| `receipt_poller` | 492 736 | history against outcomes and in confirmation order for callers in order; deadline overshoot; prompt receipts; every poll returns if the source answers, also with an interval of 0 |
| `revm_backend` | 19 603 | permits; a caller's answer is its own; no starvation if jobs end |
| `toy_strategy` | 1 090 009 | no trade while tripped; nonces; bytes that the node reads as the simulated trade; `--inject-drift` halts on schedule |

Bounds.  Histories have at most five entries and windows two or three, so every
window fills, slides, and is crossed by entries that it does not count; the
outcomes include values on both sides of and at each threshold, a loss, and an
unusable pair.  Integers have four bits there, so that two windfalls overflow the
sums of the drawdown guard: with overflow checks the decision is then a panic,
never a decision on a wrapped sum.  `HaltsExactlyWhenAGuardTrips` allows that panic;
that it happens at all, and what a release build does instead, is the run
`drift_guard_overflow` (section 4).  The sweep's grid has two values on each axis,
one combination of which must be skipped, and its sum of shortfalls overflows too.
`NarrowWidth` is three bits there, so that fees and losses of a halt lose bits on
their way to Python in some histories and keep them in others.
Journals have two processes (a competitor is enough for a lock), up to four
entries with two retained (so compaction runs with something to drop and again
after more appends), three kills; in `journal_faults` three entries of which one is
retained (so that there are appends after a compaction that failed), two faults (a
fault followed by a fault in the recovery from it) and two kills or power cuts (a
cut, and another in what follows it).  The poller has two transactions (one to be
overtaken by the other), an interval of 0 and one that ends after the deadline when
an answer came late, and a clock long enough for a time-out followed by another
poll at either interval.  The backend has more callers than permits.  The toy loop
has one trade more than its fast window needs to fill, a fork for every way an
iteration can end before a trade, and accounts whose nonces start at 0 (the empty
string in RLP) or cross 255 (where a nonce grows a byte); the signatures have
values on both sides of 127.  `CHECK_DEADLOCK FALSE` appears only where a bound on
the history, the clock or the trades stops the model, or where the finding is that
the system stops.

Fairness.  `Journal`: a process that has started an operation goes on, and
some process tries to open the journal again (a supervisor restarts it); the removal
of stale locks is fair only where `OperatorClears` says somebody does it.
`ReceiptPoller`: tokio resumes a task whose await is ready, and time passes; the
strong fairness of `Tick` says that a loop that never sleeps still takes time
(`RuntimeFairness`).  That the receipt source answers is a separate assumption
(`SourceFairness`), because the code awaits `get_receipt` without a timeout and
`RpcReceiptSource` sets none; `receipt_poller_hang` is the run without it.  `RoundTrip`,
by which an answer comes if it comes, is a parameter of `BoundedOvershoot` and
`PromptReceiptIsNotMissed`.
`RevmBackend`: the runtime polls ready tasks and timers; that jobs end is a
separate assumption (`JobFairness`), because the code cannot guarantee it.
Nothing is assumed of the chain: a transaction need not be settled.  No liveness is
claimed for `ToyStrategy`.

## 4. Runs that fail: where code and documents disagree

Each states what a document or comment says and TLC shows a behaviour of the
code against it; `PROJECT.json` quotes the lines.  Where one behaviour contradicts
two statements, the property is that at least one of them is kept.

| Run | Shows |
|---|---|
| `drift_guard_overflow` | two windfalls overflow the sum of the drawdown guard: with overflow checks `evaluate` panics, against whitepaper Property 4, and without them the wrapped sum halts a strategy that earned more than predicted |
| `journal_promise` | appends after a failed append are acknowledged and lost, and a killed process locks everybody out |
| `journal_power` | a power cut inside the header leaves a journal that is refused, not truncated, and takes entries that were acknowledged, since `flush` on a file does nothing |
| `journaled_guard_mixed` | compaction drops pairs a ratio guard still needs |
| `receipt_poller_hang` | a source that does not answer keeps a poll past its timeout, for ever |
| `revm_backend_hang` | hung jobs block later callers for ever |

Met while modelling and visible in the models, without a run of their own:

* `DrawdownConfig` adds up predicted minus realized over a window; whitepaper 4.6 and
  `CHANGELOG.md:15` have the fall of cumulative profit from its peak.
* A first open that fails inside the header write leaves 1 to 15 bytes that
  every later open rejects (`OpenFault`, then `RejectHeader` for ever), as the cut of
  `journal_power` does.
* A power cut that leaves an empty file leaves a journal that starts fresh without
  a word (`Leftovers`).
* `HaltDecision.details` casts wei to 64 bits (about 18.4 units of 10^18): the
  dictionary of a halt may show a loss below the limit that it exceeded.  The
  limit is cast as well: the proof of `PythonSeesTheHalt` needs that it is not
  below the least `i64`, since a limit further below zero is shown as another one
  even when the loss fits.
* The documentation of `DriftInjectingDecoder` has the multiplier act on gross
  profit; the code multiplies the profit net of gas.
* `read_reserves` decodes the data of a reverted `getReserves` like a result.
* A failed reopen after the rename of `compact` leaves the process on an unlinked
  file, and a failed seek after it at the start of the new one, so that the next
  append overwrites the header (`CompactFault`).  `AckedEntriesSurvive` fails with
  `FaultKinds = {"compact"}` as it does in `journal_promise`.
* `evaluate` tries drawdown and VWAR before the slow guard; whitepaper Equation 10
  has them after it.  The decision to halt is the same, its reason may differ.
* The revert budget is compared with fees (`gas_used * effective_gas_price`);
  whitepaper Equation 5 bounds gas units.
* With two transactions in flight the history is in the order of the polls;
  `core/src/types.rs` asks for the order of confirmations.
* The time spent waiting for a permit is not part of the latency budget of
  `simulate`.
* The example never looks again at a transaction whose poll timed out.

## 5. What is proved

All theorems hold for every value of the constants that the named assumptions of
the component's module allow; TLC evaluates those assumptions on every run.  They
say: bounds are natural numbers, windows and limits what the constructors accept
(`IsPolicy`), amounts integers, thresholds of the sweep fractions, the fee of a
revert a natural number (`EventsAssumption`), journal entries pairs of integers and
reverts (`EntriesAssumption`), a simulated trade one of the three shapes of
`ExecutionResult`, and `OverflowChecks` one of the two builds.  `PowerAssumption` is
a fact of arithmetic about 2^n that the provers do not know.  Each inductive
invariant was checked with TLC before it was proved.  A theorem with a further
hypothesis says so below; where the hypothesis is about a constant, the `MC` module
has TLC evaluate it on the instance of the run (`BuiltFromArgs`, `HealthyMarket`,
`SlowKeepsOut`).

### How the proofs argue about data

The library's induction theorems take an operator as a parameter, which the
provers cannot instantiate.  The proofs go around it with sets.  `LeastNat` (a
nonempty set of naturals has a least element, from the well-foundedness of `<`) gives
`RangeInduction`: a set that contains 0 and with `i - 1` also `i` contains `0..n`.  A
statement is proved by taking for the set the numbers of which it holds.
`Recursion` gives the function that a recursive definition over `0..n` names, from
which follow what the loops compute step by step: the replay (`FromTimeline`), the sums
(`SumLoop`), the mean (`MeanLoop`) and the benchmark's loop.  `SubsetInduction` does the
same for the subsets of a finite set; with it `SumGrows` and `ProductGrows` say that
`SumFunctionOnSet` and `FoldFunctionOnSet` over a set with one more element, taken in
any order, are the operation on that element and the rest.

### History and guards (`DriftGuardProofs`)

| Theorem | Property | Further hypothesis |
|---|---|---|
| `HistoryTypeCorrect` | `TypeOK` | |
| `CollectionsAgree` | `HistoryAgrees` | |
| `HaltsAsDocumented` | `HaltsExactlyWhenAGuardTrips` | a build with overflow checks |
| `ReleaseHaltsAsDocumented` | the same and `DetailsExplainTheHalt`, in every build, where no sum overflows | `BuiltFromArgs` |
| `RevertsStaySeparate` | `RevertSeparation` (whitepaper Property 5) | |
| `SkippedPairsAreInvisible` | `SkippedPairIsInvisible` (whitepaper Property 4) | |
| `HealthyPairsClearFast` | `OnlyAHealthyPairClearsFast` | |
| `RevertsNeverClear` | `RevertNeverClears` | a release build, or no gas budget |

The invariant is `DriftInv`: types, `HistoryAgrees`, and that the last pair has a
position.  The key is what one push does to a projection.  `ElementsAt(s, kept)`
keeps the elements of `s` at the positions `kept`, in order; it takes the element
whose rank among the kept positions is `i`.  `RankGrows` and `PlaceOfRank` make rank
and position inverse to one another, from which a push appends to the projection or
leaves it (`ElementsAtAppends`, `ElementsAtSkips`).
`ReconcilePolicyProofs` says what a guard can see: the ratio guards the usable pairs
(`RatioGuardsReadUsablePairs`), the drawdown guard the pairs (`PairGuardsReadPairs`);
`DecisionIsFirstStop` and `HaltsAtATrippedCheck` reduce `evaluate` to its six checks.
The hypothesis of `RevertsNeverClear` is needed: in a debug build the fee of one
more revert may overflow the sum of the gas guard, and `evaluate` then panics before
it reaches the guard that was tripped.  The fees of the run `drift_guard` do not
overflow.

`HaltsAsDocumented` relates two descriptions of each guard: the code's filters,
windows and loops over three sequences, and the reference conditions, which are sums
over sets of timeline indices.  Under `DriftInv` the sequence that a loop reads lists
the index set of the reference in order (`Listed`, `PairWindow`, `RecentListed`), so the
accumulator after `k` additions is the sum over the `k` newest indices (`AddsUp`,
`WindowSums`): the sums are equal and one leaves its integer type exactly when the other
does (`SumsLeave`).  The slow guard adds fractions one by one; `MeanEnumerated` puts the
result over the product of all denominators, which is how the reference states the
mean.  `ChecksMean` collects the six equivalences.  Without overflow checks the
property is false, since a wrapped sum may decide; `ReleaseHaltsAsDocumented` says that
this is the only way in which it fails.

### Python bindings (`DriftGuardProofs`)

`PythonSeesTheHalt` is `DetailsExplainTheHalt` for a build with overflow checks and a
policy that the constructors can build (`BuiltFromArgs`): at most one configuration
of each guard, an unsigned budget, and a drawdown limit not below the least `i64` (see
section 4).  Its lemmas have one part for each guard; those for the gas and the drawdown guard
use `UnsignedShows` and `SignedShows`, which say of the two casts that they keep what
fits and otherwise differ by a multiple of 2^64.

### Sweeps (`DriftGuardProofs`)

| Theorem | Property | Further hypothesis |
|---|---|---|
| `TighteningCatchesAsMuch` | `TighteningNeverMissesMore` | a build with overflow checks |
| `SweepsAgree` | `SweepsAgreeOnFirstHalt` | |

A guard that trips still trips when its threshold is raised (`FastRaised`,
`SlowRaised`), which for the mean is arithmetic on products; so a row that halts the looser policy
halts the tighter one.  In a release build the sum of the drawdowns may wrap and the
comparison with it fails.  `AgreeInv` says that the first halt of a point is the
least prefix of the rows at which its policy halts, which is what `run_to_first_halt`
computes (`BenchFirstHalt`).

### Journal (`JournalProofs`)

| Theorem | Property | Further hypothesis |
|---|---|---|
| `TypeCorrect` | `TypeOK` | |
| `MutualExclusion` | `SingleWriter`, faults and kills included | |
| `Durability` | `AckedEntriesSurvive`, any number of kills at any step | `FaultKinds = {}` |
| `JournalRefines` | `ImplementsDurableLog` | `FaultKinds = {}` |
| `PowerMutualExclusion` | `SingleWriter` across power cuts | |
| `RecoveryIsARun` | `RecoversContiguousRun` | |
| `PowerCutIsSafe` | `PowerCutLeavesARun` | |

Neither `SingleWriter` nor `AckedEntriesSurvive` is inductive.  `BaseInv` adds to
the types and `SingleWriter` that a process that is not closed implies the lock
file (`LockInv`), that a frame being written belongs to an entry (`FramingInv`),
that compaction runs only with more than `MaxRetained` entries in memory
(`CompactInv`), and that a replay is no longer than the file it read
(`OffsetInv`).  Every action preserves it; `SingleWriter` is kept because a second
process would need the lock file to be absent.  `DurableInv` adds that a file
without a complete header has no cells (`HeaderInv`) and, for each place a process
can be in, how the cells on disk relate to the in-memory timeline (`DiskInv`):
equal to it or to a long enough suffix, followed by at most one torn or one
unacknowledged cell, with the process's handle at the end of the file at the path.  The step
lemmas use `KeepsPrefix` and `KeepsAppend`, which say that whether the first `n`
cells keep a timeline depends on those cells alone, and that one more whole cell
keeps a timeline that is one entry longer.  `journal_promise` shows that the
hypothesis of `Durability` cannot be dropped.

`JournalRefines` maps the log to the timeline of the process that serves, or to
what a replay recovers when none does, and the pending entry to the one being
framed.  Under `DurableInv` each system call is then a step of `DurableLog` or a
stutter: starting a frame is `Begin`, pushing the entry to the history is `Commit`,
and a process that ends, by a kill or by a drop, is a `Restart`, since what a replay
recovers is a trimmed timeline, with or without the entry being framed.

With faults the file may hold a torn frame in the middle and a process may write to
an unlinked file, so `DiskInv` no longer holds.  `PowerInv` replaces it by `RunInv`:
what the file replays to is a contiguous run of the timeline of the process that
holds the journal, and it is the end of that timeline as long as no frame is torn
and the process still writes at the end of the file at the path, without which the next frame
could leave a hole in the run.  A replay depends on the whole frames before the first
torn one only (`ReplaySame`), so whatever a cut removes or tears leaves a run.
`PowerCutIsSafe` speaks of what the next open has of the file (`Recovered`), and only
of cuts after which it is not refused; that a cut may leave a header for which it is,
and take acknowledged entries, is the run `journal_power`.

### Restarts (`JournaledGuardProofs`)

| Theorem | Property | Further hypotheses |
|---|---|---|
| `RevertGuardsSurvive` | `RevertGuardsSurviveRestart` | `FaultKinds = {}`, `RevertWindowsFit` |
| `PairGuardsSurvive` | `PairGuardsSurviveRestart` | the same and `PairWindowsFit` |

The windows fit when `max_retained_entries` is at least each of them, the case that
the two properties speak of.  `Durability` says that a restart recovers an end of the acknowledged
timeline that compaction may not cut; the lemmas say that a guard whose window fits
reads no further back (`BurstOfEnd` for the burst guard; the gas guard adds up the same
fees) and that a replay rebuilds the collections the guards read.  The run
`journaled_guard_mixed` shows why the second theorem is about usable pairs: windows
of the ratio guards count usable pairs, `max_retained_entries` counts all entries.

### Poller (`ReceiptPollerProofs`)

| Theorem | Property |
|---|---|
| `PollerTypeCorrect` | `TypeOK` |
| `PollsEndSoonAfterDeadline` | `BoundedOvershoot` |
| `BooksMatchOutcomes` | `HistoryMatchesOutcomes` |
| `BooksInConfirmationOrder` | `ConfirmationOrder` |
| `PromptReceipts` | `PromptReceiptIsNotMissed` |

For any number of transactions in flight and any interval, timeout and round trip.
`PollerInv` adds to the types that awaits and sleeps end in time (`TimeInv`), that
nothing is known of a transaction before it is sent (`SentInv`), that an answer on
its way to the poller is still what the chain says, or was so when the source was
asked (`PollInv`), that what is booked has an outcome and what has an outcome is
settled (`BookInv`), and that for a caller in order the finished transactions were
sent before the unfinished ones (`OrderInv`).

### Backend (`RevmBackendProofs`)

`BackendTypeCorrect` (`TypeOK`), `PermitsConserved` (`PermitsMatchRunningJobs`) and
`OwnAnswers` (`AnswersTheCallersQuestion`), for any set of callers.  `BackendInv`
adds that finitely many calls run at once (without which their number means
nothing) and, for each call, which candidate is in its job and how an answer follows
from how the job ended (`JobInv`, `AnswerInv`).

### Example loop (`ToyStrategyProofs`)

`ToyTypeCorrect` (`TypeOK`), `NeverTradesTripped` (`NoTradeWhileTripped`) and
`NoncesAreConsecutive` (`NonceIsNext`), for any forks, receipts, accounts and number of trades, with
failures and restarts anywhere.  `ToyInv` adds that a running process knows the
next nonce (`LoopInv`), and that its history demands no halt (`HaltInv`): that holds
after a revert because the loop's policy has no guard that reads reverts
(`RevertDecidesNothing`), and would not with `institutional_default`, which is the
mutant of that property.

These theorems have one hypothesis, `WireFaithful`: of the bytes that `submit`
broadcasts, for every nonce, purchase and signature, the node makes the transaction
that was signed.  It is a statement about constants (the RLP encoder and decoder are
recursion over bytes).  The run `toy_strategy` establishes it on its instance, since
it submits with every nonce, purchase and signature there is and checks
`SentAsSimulated`.

`DriftIsCaughtOnSchedule` (`DriftHaltsOnSchedule`) needs two more, both about the
market: every outcome is at or above the fast threshold of every prediction and, damped
by `--inject-drift`, below it (`HealthyMarket`), and the slow guard does not halt first
(`SlowKeepsOut`).  Without them the loop may halt early or not at all, as it should.
`ScheduleInv` says that the pairs booked so far are healthy up to the first
drifting one and damped from there on.

### Only model-checked

* Liveness (`ServiceResumes`, `EveryPollReturns`, `EveryCallReturns`): the prover
  has no `ENABLED` and no fairness.
* `SentAsSimulated`, whose substance is that the bytes of `submit` are read as the
  simulated trade: the encoder is modelled down to its bytes.  For the same reason
  `WireFaithful`, a hypothesis of the theorems about the loop, is established for the
  nonces and signatures of the instance only.

## 6. Not modelled

* Rounding of `f64`; `i128` to `f64` conversions.
* The bytes of a journal frame and CRC collisions; hex and JSON; malformed answers
  of the node beyond an error.
* What the EVM, ECDSA and keccak256 compute: an EVM result is any of its three
  shapes, a signature any that recovers the account's key, a hash what was hashed.
* Chain reorganisations, and nodes that drop transactions they accepted: the code
  has nothing that would react to either.
* Two journals whose paths share a stem (and so a lock file): one path is modelled.
* The preparation of columns in `backtest.py`, the rates the benchmark computes,
  the synthetic data generators: straight-line code without state, mostly
  floating-point.
* The `driftbrake` facade and the traits and errors of `core`: re-exports and
  interfaces; what implements them is modelled.
* A strategy that books through `JournaledHistory`: the repository has none.

## 7. Plan

Done: the history and the policy, the journal with its power cuts, the journal with
the policy, the sweeps, the Python bindings, the poller, the backend with its
results, the example loop with its decoders and its wire format; proofs of the
safety of each component that section 5 lists.

Every invariant and action property of a passing run except `SentAsSimulated` is
stated by a theorem.  Left is the faithfulness of the RLP encoding for every nonce
(`WireFaithful`, and with it `SentAsSimulated`), for which the encoder of `TxWire` would
have to be stated without recursion over bytes.
