# TLA+ models of the locator and the hub's deal watcher

This directory holds TLA+ specifications of the concurrent parts of the
repository, TLC configurations that check them on small instances, and TLAPS
proofs, for every value of the constants, of the directory's and the deal
watcher's main invariants and of the locator's refinement of an abstract
directory.

## The system

| Part | Source | What it does |
|---|---|---|
| Identity Extractor | `src/insonmnia/locator/server.go` 86-98 | Derives the caller's wallet from the gRPC peer's `AuthInfo`. A missing peer gives `DataLoss`, a foreign AuthInfo gives `Unauthenticated`. |
| Node Directory | server.go 27-118 | `l.db` maps a wallet to a node (IPs and timestamp) under the mutex `l.mx`. `Announce` overwrites the peer's node and stamps it `time.Now()` under the lock. `Resolve` validates the hex address, then looks it up. |
| Directory Janitor | server.go 120-154 | A goroutine started by `NewLocator`. On every `CleanupPeriod` tick it takes `deadline = now - NodeTTL` *before* locking, then deletes every node with `ts.Before(deadline)`. |
| Locator constructor | server.go 156-183 | Checks the key, builds the TLS credentials and the gRPC server, starts the janitor. |
| Deal Discovery Engine | `src/insonmnia/hardware/gpu/device.go` 181-272 | `WaitForDealCreated` → `findDeals`: one immediate probe, then a probe on every 3 s tick until the `e.timeout` context expires. A probe is `GetOpenedDeal`, then `GetDealInfo` per id, keeping a PENDING deal with the requested spec hash. |
| Deal Lifecycle Tracker | device.go 186-219, 274-305 | `WaitForDealClosed` polls `GetClosedDeal` every 5 s until the awaited id is seen CLOSED or the caller cancels. `GetDeal` returns a deal only if this hub is its supplier and it is ACCEPTED. `AcceptDeal` forwards to the ledger. |
| Ledger (`blockchain.Blockchainer`) | not in src/ | Deal statuses and the per-address deal index. |
| GPU device description | device.go 1-142 | `gpu.NewDevice` applies options in order and stops at the first failing one. `WithOpenClDeviceVersion` parses `OpenCL <major>.<minor> <vendor>` with `fmt.Sscanf` into int32 fields. |
| CLI printers, hub.proto, hub.yaml | `src/cmd/cli/...`, `src/unnamed/*`, `src/hub.yaml` | Output formatting and its tests, the gRPC interface and a config file. |

The locator's handlers run concurrently (one goroutine per RPC) and
interact with the janitor only through `l.mx` and the timestamps in `l.db`.
The deal watcher runs one goroutine per call. Those goroutines interact with
the ledger, which they can only poll, and with contexts that the caller or
`e.ctx` may cancel.

## Modules

### `Locator.tla` (server.go)

State:

| Variable | Models |
|---|---|
| `db` | `l.db` |
| `calls` | each in-flight Announce handler: idle, or between `extractEthAddr` and `putAnnounce` |
| `sinceTick`, `tickPending` | the janitor's `time.Ticker`, with its one-slot channel |
| `jan` | janitor idle, or holding a deadline while waiting for `l.mx` |
| `lag` | how stale that deadline has become |
| `seen` | ghost: the age of each peer's last completed announce (what Freshness speaks of) |
| `reply` | the last RPC's answer |

Abstractions:

- **Time.** Absolute times become *ages* (now − ts), saturated at `AgeCap = NodeTTL + MaxLag + 1`. `ts.Before(now_then − NodeTTL)` is therefore `age > NodeTTL + lag`, where `lag` is the time that passed between the janitor's `time.Now()` and its acquisition of the lock.
- **Locking.** Each critical section under `l.mx` is one atomic action, so the lock itself needs no variable. Announce is split where the code leaves the lock:
  - `AnnounceBegin`: identity extraction and logging, outside the lock;
  - `AnnouncePut`: `putAnnounce`, under the lock.
- **Janitor.** `JanitorTick` receives a tick and takes the deadline. `JanitorSweep` is `traverseAndClean` under the lock.
- **Time passing.** `AdvanceTime` ages everything, advances the ticker and drops a tick while the channel is full.

`LocatorCtor.tla` models `NewLocator`'s result alone.

### `Directory.tla` (abstract directory, spec §4.2, 4.3, 5, 8)

The directory as the spec promises it, without locks, handlers or tickers: a
map `dir` from identity to its endpoints and the age of its last announce.

- `Announce(a, i)` overwrites one entry with age 0, atomically (last write wins).
- `Tick` ages every entry by one.
- `Evict(S)` removes any set `S` of entries older than NodeTTL (one sweep).
- Resolve changes nothing, so it is a stutter.
- Liveness: `WF_dir(Evict({a}))` for every identity, i.e. a stale entry does not stay forever.

`Locator.tla` instantiates it as `Dir == INSTANCE Directory WITH dir <- db,
Horizon <- AgeCap`: the refinement mapping is the identity on `l.db`, with the
model's age cap as the horizon. Every locator step maps as follows:

| Locator step | Directory step |
|---|---|
| `AnnouncePut` | `Announce(peer, ips)` |
| `AdvanceTime` | `Tick` |
| `JanitorSweep` (with any lag) | `Evict(S)` for the entries it deletes; they are all older than NodeTTL + lag ≥ NodeTTL |
| `AnnounceBegin`, `AnnounceRejected`, `Resolve`, `JanitorTick` | stutter |

`ImplementsDirectory == Dir!Spec` is the property; its liveness part holds
because the janitor's fairness makes it sweep every stale entry.

### `DealWatcher.tla` (device.go 143-323)

State:

| Variable(s) | Models |
|---|---|
| `fd` | `findDeals`/`findDealOnce`: the program counter, the ids still to inspect, and whether the last list call failed |
| `fdElapsed`, `fdSince` | its context deadline |
| `fdTick` | its ticker |
| `fdCtxErr` | its context's error |
| `wc` | `WaitForDealClosed`'s program counter and ids still to inspect |
| `wcSince`, `wcTick`, `wcCtxErr` | its ticker and its context |
| `fdResult`, `wcResult`, `rpcResult` | results |
| `status` | the ledger |

The ledger is modelled from the spec, because its code is not in src/:

- statuses only move NONE → PENDING → ACCEPTED → CLOSED (`LedgerAdvance`);
- `GetOpenedDeal`/`GetClosedDeal` return *any subset* of the deals they should list, because the index is eventually consistent;
- `GetDealInfo` is authoritative;
- every call may fail.

For the termination of `WaitForDealClosed` only, `LedgerRecovers` assumes
that the ledger recovers: a closed-index call that lists the awaited deal,
and an info call that succeeds, are each taken infinitely often if they are
possible infinitely often (strong fairness). This is an assumption about the
ledger collaborator, which the code cannot ensure; `FairLedgerSpec` is
`Spec /\ LedgerRecovers`.

Each `select` case is its own action: `FdOnTick`/`FdOnDone` and `WcOnTick`/`WcOnDone`. A probe's loop over ids is one action per id (`FdInfo`, `WcInfo`), so the ledger can move between the list call and each info call.

### `GpuDevice.tla` (device.go 40-100)

- **The option loop.** `NewDevice`'s `for _, option := range options` is a state machine with one step per option:
  - `opts` is the option list, `d` the `sonm.GPUDevice` being built, `i` the number of options already applied, `pc` is `"loop"` or `"done"`, and `result` is the returned `(Device, error)`;
  - `Init` is the literal of device.go 85-91 with every option list of at most `MaxOptions` options;
  - `RunOption` applies `opts[i + 1]` to `d` (`Apply` dispatches on the option's kind), and on an error returns `(nil, err)` at once, so no later option runs;
  - `ReturnDevice` returns `&device{d: d}` once every option ran.
- **The version string.** A `WithOpenClDeviceVersion` string is abstracted to the pieces that `Sscanf("OpenCL %d.%d %s")` consumes:
  - the prefix;
  - the first number token, which is an int32 numeral, `OutOfRange` or `NotANumber`;
  - the dot;
  - the second number token;
  - the vendor word.
- **The parse.** `ScanCount` is the number of items Sscanf stores before the first mismatch. `Sscanf` stores them one by one, as the real function does, so a failed scan may leave the major version written.
- **The state machine.** It has a single call. Its initial states are every option list of bounded length.

### MC modules

`MCLocator.tla`, `MCDealWatcher.tla` and `MCGpuDevice.tla` fix model values and small constant
functions (the three deals' supplier, buyer and spec hash).

## Runs

| Run | Checks | Shows |
|---|---|---|
| `locator` (MCLocator.cfg, pass) | TypeOK, Freshness, EventuallyEvicted | With two peers, two concurrent handlers and a janitor whose deadline goes stale while it waits for the lock: no peer that announced within NodeTTL is evicted; a stale entry is eventually evicted. |
| `locator_last_seen` (MCLocatorLastSeen.cfg, pass) | LastSeenMonotonic | On the same instance, with two handlers of one peer racing for `l.mx`: no step makes an entry in `l.db` older than the time the step takes, so last-seen never moves backwards across successive announces (spec §2). The only mutant that breaks it, a stamp taken when the request arrives, needs a second handler to overwrite the entry while the first waits. The property reads `l.db` alone, with no ghost. It allows one unit of aging in any step, because a step does not say whether time passed. |
| `locator_refinement` (MCLocatorRefinement.cfg, pass) | ImplementsDirectory | On the same instance, the locator implements the abstract directory: no step of the concurrent handlers and the stale-deadline janitor changes `l.db` in a way the directory forbids (an older stamp, a fresh entry removed), and stale entries are eventually removed. |
| `locator_resolve_codes` (MCLocatorCodes.cfg, violation) | ResolveErrorsDistinct | Resolve's two failures both reach the client as `Unknown`; spec §6 wants InvalidArgument and NotFound. |
| `locator_ctor` (LocatorCtor.cfg, violation) | LocatorOrError | `NewLocator(ctx, conf, nil)` returns `(nil, nil)`: `errors.Wrap(nil, …)` is nil. |
| `gpu_options` (MCGpuDevice.cfg, pass) | TypeOK, FailsExactlyOnMalformed, VersionOfLastOption | Over every list of up to two options, compared with reference definitions of the documented format: NewDevice fails only with `errMalformedOpenCLVersion`, exactly when some version string is malformed or out of int32 range (including a string *after* which valid options follow); otherwise the device carries the version of the last version option, with no half-written version. A string without the vendor word is accepted. The run stops after the call, so deadlock is not checked. |
| `deals` (MCDealWatcher.cfg, pass) | TypeOK, ClosedMeansClosed, GetDealOwned, DiscoveryTerminates, FoundDealMatches | Against a lagging, failing, advancing ledger:<br>• a deal is returned only in a step where it is PENDING with the requested hash. This is an action property: the deal may be accepted between the list call and the info read, and it is checked at the return step. Its hash and status come from `findDealOnce`'s checks; its supplier and buyer come from what the `GetOpenedDeal` index lists.<br>• A close is reported only for the awaited id once CLOSED.<br>• GetDeal returns only this hub's accepted deals.<br>• Discovery always returns. |
| `deals_closed_terminates` (MCDealWatcherClosed.cfg, pass) | WaitClosedTerminates | Under `FairLedgerSpec`, with the awaited deal and another closed deal of the same buyer: once the awaited deal is CLOSED, `WaitForDealClosed` returns (success, a ledger error or the cancellation), whatever the closed index lists first. |
| `deals_cancel_priority` (violation) | CancelWins | `WaitForDealClosed` can report success after cancellation, because `select` picks a ready tick at random; spec §5 says cancellation wins. |
| `deals_timeout_error` (violation) | TimeoutReportsLedgerError | At its deadline `findDeals` returns `ctx.Err()` even when the last probe failed on the ledger, whose error `findDealOnce` swallows; spec §4.4 says that error propagates. |

`PROJECT.json` lists, for every property of a passing run, a mutant of the
mapped code (an inclusive `Before`, a stamp taken at request arrival, a janitor
never started, a probe matching any hash, …) that TLC finds violating it.

### Bounds

- **Locator.** NodeTTL = 1, CleanupPeriod = 2, MaxLag = 1, two peers, two IP lists, two handlers.
  - This is enough for an announce to complete while the janitor holds a stale deadline.
  - It is enough for two handlers of the same peer to race.
  - It is enough for ticks to be dropped and for an entry to sit exactly on the `Before` boundary.
  - The VIEW leaves out `reply`, which nothing reads; this cuts the run from minutes to about 20 s.
- **Deal watcher.** Three deals:
  - one owned by the hub with the requested hash;
  - the awaited one, with another hash;
  - one of another supplier with the requested hash.

  DealTimeout = 3, and the tickers fire every 1 and 2 time units. This lets several probes happen before the deadline and the ledger move between probes.
- **Deal watcher, termination run.** Two deals of the same buyer: the awaited one and another, so the closed index can list a wrong id before the right one. The third deal only matters to discovery; leaving it out keeps the liveness check at about 30 s.

### Fairness

- The clock and the janitor are weakly fair. The janitor goroutine is started unconditionally by `NewLocator` and loops forever. A handler that holds a node is weakly fair to take the lock, because Go's mutex starvation mode eventually serves every waiter.
- In the deal watcher, the `ctx.Done()` cases are **strongly** fair. Go's `select` chooses uniformly among ready cases, so a case that is ready infinitely often is taken with probability 1. Weak fairness would allow `findDeals` to pick the tick forever after its deadline.
- The steps `FdList`, `FdInfo`, `WcOnTick` and `WcInfo` are weakly fair. Each is a ledger call followed by the code's reaction to it. The fairness assumes a ledger call returns, with a result or an error. The code passes these calls no context, so a ledger that hangs would hang the poll too. That case is outside the model.
- Eviction is only checked to happen *eventually*. The real-time bound of spec §8 (NodeTTL plus one sweep period) is not checked: dropped ticks and lock waits delay it by an amount that depends on scheduling, which the model does not bound.
- The ledger has no fairness in `Spec`. It may never list a deal and may fail forever, and then `WaitForDealClosed` waits until cancelled: that is the code's behaviour (spec §4.5, no overall timeout). Its termination is therefore checked only under `FairLedgerSpec`, which adds the ledger assumption `LedgerRecovers`.

## Proofs (TLAPS)

### `LocatorProofs.tla`

The proofs assume only the `ASSUME`s of `Locator.tla`:

- NodeTTL, CleanupPeriod and MaxLag are naturals, with CleanupPeriod ≥ 1;
- `NoNode` and `Malformed` are not nodes or addresses;
- the sets of peers and IP lists are non-empty.

They establish:

- **TypeCorrect** — `Spec => []TypeOK`. It rests on the lemmas `AgeOfType` and `IdleCallType`.
- **NoPrematureEviction** — `Spec => []Freshness`, for every TTL, period, lag bound and number of peers and handlers.
  - Freshness alone is not inductive. The sweep keeps a fresh peer's entry only because the entry's age *is* the peer's last announce age.
  - The inductive invariant is therefore `IInv == TypeOK /\ StampIsLastAnnounce /\ Freshness`. `StampIsLastAnnounce` says an entry's age equals the ghost `seen` of its peer, and is defined in the proof module.
  - `AdvanceTime` preserves it because both ages saturate through the same `AgeOf` (lemma `AgedRecord`).
  - `JanitorSweep` preserves it because a fresh age `<= NodeTTL` is never `> NodeTTL + lag`.
- **Refinement** — `Spec => Dir!SafetySpec`: the safety part of `ImplementsDirectory`.
  - Initial states map to the empty directory.
  - Lemma `RefinementStep`: under `TypeOK`, every step of `Next` is a `Dir!Next` step or leaves `db` unchanged, one case per action as in the table above. The sweep's deleted set is shown to be a subset of `Dir!Stale`, since `NodeTTL + lag >= NodeTTL`.
  - Lemma `AgingAgrees`: the model's saturating `AgeOf(n + 1)` is the directory's `Older(n)`.
- **LastSeenMonotonicHolds** — `Spec => LastSeenMonotonic`, the action property. Lemma `DirStepMonotonic` shows that no abstract directory step makes an entry older than one unit of aging. With `RefinementStep` and `TypeCorrect`, that holds for every step of the code.

### `DealWatcherProofs.tla`

The proofs assume the `ASSUME`s of `DealWatcher.tla`: the deal attributes are functions on `Deals`, `WaitID` is a deal and `BadID` is not, no deal is one of the result constants, and the timeout and ticker periods are positive naturals.

- **TypeCorrect** — `Spec => []TypeOK`. It needs the strengthening `TypeInv`: the caller's context of `WaitForDealClosed` is only ever cancelled, so its error is `"none"` or `"Canceled"`.
- **ClosedMeansClosedHolds**, **GetDealOwnedHolds** — `Spec => []ClosedMeansClosed` and `Spec => []GetDealOwned`, both from lemma `DealInvHolds` (`Spec => []DealInv`).
  - The inductive invariant is `DealInv`: `TypeInv`, the two properties, and `Candidates`.
  - `Candidates` says that every id a probe still has to read is this hub's deal with the requested buyer and is on the ledger. Without it, `FdInfo` could return a deal of another supplier, because the index the ids came from is not re-read.
  - Lemma `StatusForward`: ledger steps and `AcceptDeal` only move a status forward. This keeps every returned deal's checked status true after the return.
- **FoundDealPending** — `Spec => FoundDealMatches`, the action property. Lemma `FoundStepHolds` shows that under `DealInv` only `FdInfo`'s match step gives `fdResult` a new deal. That step's `ProbeMatch` gives the PENDING status and the hash. `Candidates` gives the supplier and the buyer of the id being read. `FdOnDone` returns a context error, which is not a deal.

### `GpuDeviceProofs.tla`

The proofs assume `OptionsAssumption`: `MaxOptions` is a natural, the versions given to `WithOpenClDeviceVersionSpec` are numerals, the numerals are integers, and `OutOfRange` and `NotANumber` are distinct non-integers. They hold for option lists of every length, not only the two options the run enumerates.

- **TypeCorrect**, **FailsIffMalformed**, **LastVersionWins** — `Spec => []TypeOK`, `Spec => []FailsExactlyOnMalformed` and `Spec => []VersionOfLastOption`.
  - The properties speak only of the returned result, so they are not inductive. The inductive invariant `LoopInv` adds what holds *while the loop runs*: no result yet, none of the options applied so far is malformed, and `d`'s version is `VersionAt(opts, i)`, the version of the last version-setting option among the first `i` (or (0, 0)).
  - Lemma `ApplyOptionEffect` states what one option does to a well-typed device: it keeps the type, fails exactly on a malformed version string, and on success sets the version to its own or leaves it alone. This is where the half-written major version of a failed `Sscanf` is dealt with: it is only ever in the device of a failed step, which `RunOption` never returns.
  - Lemma `VersionAtStep` is the one-step recurrence of `VersionAt`; lemma `RefVersionIsVersionAt` identifies `VersionAt(opts, Len(opts))` with the reference definition (`SelectLastInSeq`) that `VersionOfLastOption` uses.
  - Modelling the loop as one step per option, rather than as a recursive function over the list, is what puts these properties within reach: the induction over the list becomes the induction over behaviours that `[]` gives.

## Checked only by TLC

- **Liveness.** `EventuallyEvicted`, `DiscoveryTerminates`, `WaitClosedTerminates` and the fairness part of `ImplementsDirectory` depend on fairness and ENABLED, which TLAPS does not handle here. `Refinement` proves only the safety part of `ImplementsDirectory`.
- **The violation runs.** `ResolveErrorsDistinct`, `LocatorOrError`, `CancelWins` and `TimeoutReportsLedgerError` are false of the code; TLC's counterexamples are the evidence.

Every safety invariant and action property of a passing run is stated by a theorem.

## Not modelled

- **Serve, the TLS certificate rotator and gRPC transport.** I/O.
- **The GPU device's getters, `Hash` and `GetGPUDevices`.** Pure reads, a hash library, and OpenCL enumeration whose code is not in src/.
- **CLI printers (`src/cmd/cli/commands/printers.go`) and their tests.** Spec §1 puts CLI output formatting out of scope. Each function only formats its argument (simple or JSON output), holds no state and calls nothing that does, so a model would transliterate format strings and check nothing.
- **hub.proto, hub.yaml.** Interface declarations and configuration, with no behaviour.
- **`NewETH`.** It stores its arguments and builds a default ledger client, which is I/O.
- **Logging.** Everywhere left out.

## Possible extensions

1. A finer model of the version string: Sscanf's treatment of spaces and of signs. This would be a sequence of lexemes, with `ScanCount` written as a recursive function over it.
2. Larger instances of the locator (three peers) with a symmetry set, where run time allows.
