# A verification development for hol-hearth

hol-hearth runs HOL Light proofs warm. A profile is built once, checkpointed
with CRIU, restored on demand, and every proof attempt is evaluated in a
disposable child forked from the restored basis. This directory models the
parts of that machinery in which several processes, files and locks have to
agree, and the parts whose judgement everything rests on: which sources an
attempt consists of, and what may be said of its transcript. TLC checks the
models on small instances; TLAPS proves for every instance the safety of the
lease table and its refinement of an abstract lease service, of the shelf and
its retirement, the broker, the restore transaction, the lazy-pages daemon, the
cache of prepared bases and the process groups.

Paths below are relative to `src/hol-workbench/hol_workbench/` unless they start
with `src/`.

## 1. The system

### Components

The package has three layers (`src/docs/architecture.md`): the *warm runtime*,
*source capture* and *evidence*. State that outlives a process is in files.

| Component | Code | State | Operations | Modules |
| --- | --- | --- | --- | --- |
| Warm pool | `pools/` | `pool.json` under `pool.lock`: pool status, one row per seat (status, lease, stop receipt) | check out, release, reclaim, quarantine | `WarmPool` |
| Pool lifecycle | `fork_pool_lifecycle`, `criu_pool_restore`, `cli/orbstack_criu_restore`, `proof_run_warm_stop` | the same file, `lifecycle.lock`, the processes it names | stop, demote, restore, publish ready | `WarmPool`, `RestoreTransaction` |
| Attempts | `hot_profile_session`, `cli/orbstack_criu_vanilla` | a lease, a connection, a transcript | restore, check out, dispatch, wait, verify, release | `WarmPool`, `Evidence` |
| Shelf | `criu_shelf_admission`, `criu_shelf_demand`, `criu_shelf_owner`, `criu_shelf_capacity` | one lock file per slot and a legacy one, demand and owner records | queue, take a slot, expand, record, unwind | `ShelfAdmission` |
| Cancellation | `cli/prove_cancel`, `criu_shelf_owner` | none of its own | list, match, signal, wait | `ShelfCancel` |
| Idle retirement | `orbstack_idle_retirement` | `runtime-cache.json`, the activity file, a monitor process | schedule, watch, close the shelf, stop, reopen | `IdleRetirement`, `ShelfAdmission` |
| Broker | `proof_run_fork_broker*`, `fork_child_ocaml`, `proof_run_fork_phrase` | session locks, active attempts, the child registry, the pipe to the basis | spawn, acknowledge, serve, cancel, recover, reap, stop | `ForkBroker` |
| Restore transaction | `criu_restore_*`, phases of `cli/orbstack_criu_restore` | pid file, launcher, process tree, staging directory | launch, bind, validate, resume, commit, recover, clean up | `RestoreTransaction` |
| Lazy pages | `criu_lazy_pages_*` | intent, owner record, socket, daemon | launch, release, commit, retire | `LazyPages` |
| Process groups | `process_groups`, `criu_build_pool`, `proof_run_warm_stop` | an ownership record, `pool.json` of a build pool, `/proc` | spawn, own, transfer, end, look, signal | `OwnedProcesses` |
| Readiness | `cli/orbstack_criu_vanilla_readiness*` | a report, a worker process | probe, recover, stop the profile root | `ReadinessProbe`, `RestoreTransaction` |
| Project basis | `project_basis` | bounded LRU cache of live generations under a lock | look up, adopt, retire, make room | `ProjectBasis` |
| Build, publication, admission | `cli/orbstack_criu_build`, `criu_snapshot_*`, `criu_publication_provenance` | an image, its manifest and provenance, the published results | build, probe, publish, select, admit | `ShelfBuild` |
| Source capture | `source_dependency_*`, `proofs/` | a captured closure and its package | scan, resolve, record, compare, package, load | `LoaderScan`, `SourceClosure` |
| Profile answers | `profile_satisfied_dependencies` | the inventory of what a basis loaded | decide, revalidate, answer | `ProfileSatisfaction` |
| Evidence | `vanilla_claims`, `proof_diagnostics`, `foundation_delta`, `cli/orbstack_criu_vanilla_semantics` | transcripts, receipts | instrument, read the transcript, account, judge | `Evidence` |
| Watch loop | `cli/prove_loop`, `cli/prove_replay` | the revision it launched and the one it last saw checked, its replay's process, receipts below its run root | poll, launch, read the receipt, report, stop | `WatchLoop` |
| Front door | the rest of `cli/prove*`, `machine_client` | none of its own | dispatch, report | |

### How they interact

An attempt captures its sources into a package, decides which imports the
shelf's basis answers, asks for a shelf slot (file locks), restores the pool
under `lifecycle.lock` and `pool.lock` if it is not live, checks out a seat (a
row of `pool.json`), and sends a spawn request to the seat's socket. The broker
writes a phrase to the basis, which forks; broker and child hand over
responsibility through two files (ACK, ownership) and a process group. The
child loads the instrumented source, whose `needs` are answered from the
package or the basis; the reader judges the transcript. The final event lets
the client release its seat; leaving the shelf schedules a monitor that later
takes every slot and stops the runtime. `hearth stop-profile` may stop the
runtime at any time without asking the shelf, `hearth cancel` interrupts the
process of one attempt by its id, and a build publishes the images that all
this restores. `hearth prove --loop` runs one attempt after the other as the
sources change, and learns what each was of from its receipt.

### What is hard

- **Several writers of one record.** `pool.json` is read and replaced under
  `pool.lock`, but the protocols span many such sections; `runtime-cache.json` is
  replaced without a lock.
- **Death at any point.** A killed client leaves its lease, demand and owner
  record; a killed restore leaves a launcher and a tree; a killed operator
  leaves rows relabelled; a broker's children outlive it; a second Ctrl-C
  interrupts a `finally` clause.
- **Generations.** A client, a child or a release may outlive the runtime it
  belongs to and meet the next one; a number in a record may belong to another
  process by the time it is signalled.
- **Late answers.** A fork that comes after its spawn timed out, an
  acknowledgement after its deadline, a cancel after the attempt is over.
- **Checked, then used.** The monitor's decision to retire, the expander's count
  of demands, a source that changes between capture and use, a shelf whose
  sources changed since it was dumped.
- **Two readers of one text.** A Python scanner decides what OCaml will load, and
  a reader of a transcript that may be cut anywhere decides what was proved.

### What makes each component correct

- Warm pool: a seat has one owner, a live owner keeps it, a dead one's comes
  back; a quarantined generation is never used again; the record is never
  half-way between two lifecycle states.
- Lifecycle: no child of an old generation beside a new one; stop and restore
  do not block each other.
- Shelf: one user per slot, also across releases of the program; records that
  name the true owner; the shelf serves somebody while anybody waits.
- Cancellation: what it tells the user of an attempt is so.
- Retirement: never under an attempt; always in the end; exactly one monitor.
- Broker: every child in a group of its own is in the registry; "completed"
  means gone; an idle broker admits nobody beside an orphan; a stopped pool is
  quiet; every request is answered.
- Restore transaction: a crash at any point is recovered or refused, never
  adopted; nothing it started survives a failure it reports as clean; the pool
  is not stuck for good.
- Process groups: verified means gone, and no signal reaches a stranger.
- Readiness, project basis: no restored basis is forgotten, none in use is
  retired, the cache stays bounded.
- Build and admission: what is published is what was tested, what is admitted
  is what the records describe.
- Source capture and profile answers: what is evaluated is what was captured, or
  the same bytes.
- Evidence: no claim without its nonce-bound probe, no success without the end
  of the source.
- Watch loop: what it calls current and accepted was evaluated; when the edits
  are over, the inputs on disk have been checked.

The hazards, each at its line, and the properties aimed at them are in
`PROJECT.json`.

## 2. Modules

| Module | Models | Variables |
| --- | --- | --- |
| `SeatLease` | abstract specification: a table of seats that running processes own, give back, and lose when they stop running or when the service closes | 3 |
| `WarmPool`, `WarmPoolProofs` | lease table, attempts, restore, stop; theorems, among them that it implements `SeatLease` | 15 |
| `ShelfAdmission` | slots, demands, owner records, old clients, the monitor's way in | 11 |
| `IdleRetirement` | the schedule record and its monitors | 6 |
| `ShelfProofs` | theorems about these two | |
| `ShelfCancel` | the cancel command beside attempts that unwind | 15 |
| `ForkBroker`, `ForkBrokerProofs` | broker, basis, children, controllers, stop command; theorems | 15 |
| `RestoreTransaction`, `RestoreTransactionProofs` | one image, its restores, the recovery of what they leave; theorems | 15 |
| `LazyPages` | the daemon that serves memory pages | 11 |
| `ReadinessProbe` | the readiness matrix and its report | 9 |
| `RecoveryProofs` | theorems about `LazyPages` and `ReadinessProbe` | |
| `ProjectBasis` | the cache of prepared bases | 11 |
| `OwnedProcesses` | one process group from start to end | 17 |
| `SignalProofs` | theorems about `OwnedProcesses`, `ShelfCancel` and `ProjectBasis` | |
| `LoaderScan` | the scanner of OCaml text against what HOL does with it | 8 |
| `SourceClosure` | capture, package and loads of a closure | 16 |
| `ProfileSatisfaction` | which imports a basis answers | 10 |
| `ShelfBuild` | build, publication, selection, admission | 7 |
| `PublicationProofs` | theorems about `SourceClosure` and `ShelfBuild` | |
| `Evidence` | instrumented source, transcript, reader | 18 |
| `EvidenceProofs` | theorems about `Evidence` and `ProfileSatisfaction` | |
| `WatchLoop` | the watch loop beside its replay and an editor | 7 |
| `MCWarmPool`, `MCForkBroker` | maps for TLC | |
| `MCSeatsBroker` | `WarmPool` and `ForkBroker` side by side | |
| `MCShelf` | `ShelfAdmission`, `IdleRetirement` and `WatchLoop` side by side | |
| `MCControllers` | `LazyPages`, `ReadinessProbe`, `ProjectBasis`, `OwnedProcesses`, `ShelfCancel` side by side | |
| `MCLoaderScan`, `MCSourceClosure` | sources and file trees for TLC | |
| `MCPublication` | `SourceClosure`, `ShelfBuild`, `ProfileSatisfaction`, `Evidence`, `LoaderScan` side by side | |

The modules "side by side" are disjoint sums: a variable `part` says which of
the instances a behaviour belongs to, and the others keep their initial state.
The components of one sum share no file and no lock while they run (or meet
only in a finished file, whose possible contents are then inputs of the one
that reads it), so a product of them would only multiply states; every safety
property of a part is about that part's own steps, and fairness is stated for
each part where it runs. A sum extends the parts that have theorems, so that
TLC evaluates their assumptions and checks the very definitions the theorems
name; in those modules the names that would clash are qualified (`LazyInit`,
`CacheNext`, `brokerVars`, `AnswerSpec`, `AttemptSpec`). `LoaderScan` is an
instance.

`PROJECT.json` maps every definition to the lines it models. Definitions whose
comment starts with "Fault:" are mutated forms of the operator that follows
them; they are used only to see that a property notices a plausible bug.
The `TypeOK` of a module documents its state; TLC checks the one of `WarmPool`,
TLAPS proves it for every module with theorems (of `CacheTypeOK`, all but the
conjuncts on the LRU order and `child`, which no theorem needs).

### WarmPool

`pool` is `pool.json`: status, one status and one lease per row, and whether a
verified stop receipt is present. Each helper (`ReclaimStaleLeases`,
`Candidates`, `Granted`, `Released`, `Quarantine`, `Demotable`, `Activatable`)
translates one function of `pools/leases.py` or `criu_pool_restore.py`; the
actions are the critical sections of a client: `TakeLifecycleLock`,
`TakePoolLock`, `RestoreStep`, `Checkout`, `Dispatch`, `ReleaseByPath` (vanilla
clients) or `FinalizeLease` (hot clients), with kills, interruptions, lost
contact and pid reuse; and the two phases of `stop_pool_runtime` with the
operator's death in between.

- A *generation* is not a number: `child` and `fresh` say whether a child or a
  lease belongs to the current one, `quarantined` is a history variable.
- Admission is left out (the number of clients bounds the attempts); the shelf
  is `ShelfAdmission`.
- One CRIU restore is one step that succeeds or fails; `RestoreTransaction` has
  what happens inside it.
- A vanilla client's checkout, like the code's, is identified by the session path
  it returns later; a hot client's by its lease id.
- `release_after_lease_status` is written by the code and never read; it is not in
  the model. `allow_dirty` is never passed.

### ShelfAdmission

Files 0 (the legacy `admission.lock`) and 1..Capacity. Slot 1 needs files 0
and 1, taken one after the other and given back when the second is busy. The
order in which files are unlocked (from the highest) and closed (from the
lowest) is that of the code, because a waiter or the monitor can see the
difference. An attempt writes its demand before it queues, an owner record
after it is admitted, and unwinds in the order of the `finally` clauses;
`InterruptClosing` is the second Ctrl-C, `Kill` an outright kill, after which
the kernel closes the files one at a time. The monitor looks, takes every file
without waiting, looks again, and stops.

- `Leave` merges three steps of a leaving route (renew the activity, schedule,
  clear the demand); what interleaves with scheduling is `IdleRetirement`.
- The capacity is a constant: pools of the current topology are not expanded.
- An error while the monitor asks whether the pool is live only makes it reopen
  the shelf, which `RecheckFails` covers.
- With `Capacity = 1` waiting is not starvation free: an endless stream of
  attempts, each interrupted between the two files of slot 1, keeps the shelf
  from serving anybody. The run uses two slots.

### IdleRetirement

A route that leaves reads the record (`Renew`), and if it names no live monitor
replaces it (`WritePending`), starts a monitor (`Spawn`) and replaces it again
with the monitor's identity (`WriteRecord`), without a lock. Monitors leave when
the token is not theirs (`Superseded`); the one in charge closes the shelf,
reads the record once more, stops the runtime and amends the record it read.

- `TimePasses` assumes that the idle period (600 s by default) is longer than it
  takes a route to schedule.
- A monitor exits when it has given up the shelf; the model joins the two, so a
  whole route fits between them only in the code.

### ShelfCancel

The command reads owner records, then demand records, of live processes;
matches one attempt; checks that the record still names it; sends a SIGINT; and
waits for the record to go. Clients queue, are admitted, check out, evaluate and
unwind nested `finally` clauses, in which another SIGINT skips the rest of a
clause. A project-basis replay runs two attempts in one process, the
preparation and the leaf.

- Locks, queue order and monitor are `ShelfAdmission`'s, the lease's reclaim is
  `WarmPool`'s; here a slot is free or held and a lease there or not.
- "attempt-mismatch" and "not-running" are one answer; several profiles are read
  one after the other in the code, one profile here.
- Nobody passes `route_receipt`, so the `verified_quiescent` and `seat_reusable` of
  a cancellation are always absent and are not in the model.

### ForkBroker

`client` is `run_broker_attempt`, `handler` one thread of the broker with
`recovering` telling the second connection of a timed-out spawn, `phrases` and
`printed` the pipe to and from the basis, `forked`, `acked`, `registry` the
processes and files of the hand-over, `stopper` the command
`stop_warm_session`. Two details carry the interesting behaviour: tokens that a
reader does not recognise are dropped (`ReadTokens`), and a child has a process
group of its own only from `TakeOwnership` on, so that a termination before
that point signals nobody (`AfterTerm`).

- An attempt id is used for one spawn and its recoveries, as in the code, where
  it is random.
- A child's steps from seeing its ACK to publishing ownership are one action.
- The snapshot an error event carries is taken together with the release of the
  session lock.
- `SlowOwnership` = FALSE says that an acknowledged child answers within the
  spawn timeout (15 to 60 s against a poll of 10 ms); see section 4.

### RestoreTransaction

A controller holds `lifecycle.lock` for its whole operation, so controllers run
one after the other; beside them run the launcher, which outlives a killed
controller, and the tree. CRIU gives the tree the PIDs of the dump, so all
transactions aim at the same numbers, and `tree.of` says whose tree has them.
Phases: demote the record, stage, launch, bind the pidfile, capture the tree,
validate, record its identities (`StageSession`, `StagePool`), continue it
(`Resume`), publish; each failure leads
to the cleanup its place in the code prescribes. The readiness controller
recovers what a dead one left; `StartStop` to `PublishStop` are `stop-profile`.

- `StopInFlight` = FALSE: the stop finds no launcher in flight (section 4).
- `MaxSurvivals` bounds terminations that leave the tree behind, `MaxForeign`
  unrelated processes that get the numbers.

### LazyPages

Intent, gated launcher, daemon, owner record, socket and pidfiles of a launch;
retirement verifies identity before it removes anything. A pending intent
without the daemon's identity blocks for good: the code is fail-closed there,
and the model says so. The public command keeps the lazy-pages route closed; it
is reached behind an acceptance flag.

### ReadinessProbe and ProjectBasis

`ReadinessProbe` has the run-root lock, the report, the probe of each profile
(primary, then reuse), group failures, interruptions, the recovery of an
interrupted run and the settlement of a restored basis. What a probe proves is
one outcome. `ProjectBasis` has the cache lock, the index, the LRU order,
adoption with its deadline, retirement and making room. Which bases make room
is said by what they are: as many of the live ones as exceed the limit, each
used before every one that stays (`LeastRecent`). The replay of the
project's sources is one outcome. `WorkersOutlive` and `KillInAdoption` are FALSE
in the runs and assumed so by the theorems that need it (section 4).

### OwnedProcesses

One group: `OwnedProcessSet` of the starter until readiness (`Spawn` to `Commit`)
or the end it brings about (`FirstSignal` to `EndTermination`), and the stop
command, which lists `/proc`, reads process by process, requests, waits, and
signals by number. Processes fork, leave the group, become zombies, are reaped
and free their numbers at any step. Left out: the fallback without `/proc`, the
descendants of a zombie (the kernel reparents them, so that check finds
nobody), `commit_all`, which nobody calls, and a killed starter. A check of the
identity and the signal that follows it, microseconds apart, are one step.
Three flags, FALSE in the run and assumed so by the theorems, name what the
code does not defend against (section 4).

### LoaderScan

A file is a sequence of phrases; each is a sequence of lexemes and what it does
when evaluated. The scanner's tokens, its handling of comments, quotations,
strings and characters, of calls, aliases, `open`, and of claim and prove rows
are translated; what HOL does is the phrase's deeds. `MCLoaderScan` builds
programs from a phrase and a wrapping, so that text and deeds belong together
by construction. Left out: limits on size, tokens and nesting, encodings,
`# use` with a blank, `let open M in`, a general `open` of a basis module that
re-exports a loader; a dependency's own `define_from_elf` is taken for the
decoder's helper. The scanner of the model was compared with the Python
functions on all file texts of the instance and on mutated token sequences of
them, without a difference.

### SourceClosure

Discovery from the entrypoint (`needs`, `loadt`, `loads`), resolution against
siblings, package root, worktree, HOLDIR and a logical root; the digest of each
file, the second read when it is copied, staging and the publishing rename; and
what the child's prelude answers for each literal, where the system follows a path
through directories of the package (`FoundBeside`). Files are edited at any
step. The assumptions on the constants are the file system's: paths are normalised
(`Path.resolve`), no file is above the entrypoint (`PathsAssumption`), a marker or a
repository is found upwards from it, and no literal is empty (`WorldsAssumption`). Symlinks (refused), object files and other loaders are left out. The
entrypoint is packaged with its captured bytes; in a warm replay it is written
from bytes read before the capture, which `WatchLoop` has.

### ProfileSatisfaction

The decision which imports the basis answers (basename and digest it has
loaded, and the closure below it), its revalidation before the evaluation, and
the prelude that holds `needs` to it, beside edits. HOLDIR of host and shelf are
one, the capture is one step, logical roots, ELF artifacts, symlinks and
ambiguous entries are left out. `OneMeaning` and `FromProfile` say what the worlds
of the run leave out; section 4 has why.

### ShelfBuild

A build allocates a root and, for each profile of its plan, starts a basis,
records what it loaded, dumps, stops and verifies, restores, probes, stops, and
writes the manifest; a complete batch is checked twice and published by one
rename. A route selects a row and admits it against the checkout and the
sources of that moment. Left out: the OCaml runtime's files, guard wording,
kernel and package identities, timings and CRIU's own dump.

### Evidence

A child's evaluation (axioms, loads, the wrapped `prove` and its activity
records, exceptions, the completion marker, the wrapper's accounting) printed
into a transcript that any end cuts, and the reader: claims, foundation delta,
verdict, failing and running binding; with a project basis, the preparation and
the leaf. A quotation is the term; no other text imitates a record, as records
carry the attempt's nonce. A phrase of an included file whose exception nobody
catches ends that file alone (`Uncaught`): `use_file` prints and returns, and the
file that included it goes on with its next phrase. What the reader does line by
line (`Frames`, `Activities`, `Scanned`) is a function on the positions of the
transcript. Left out: goals and tactic lines, `loadt` itself
raising, receipts of the first protocol. Bounds are scaled: depth 1 for 64,
events 2 for 8.

### WatchLoop

`loop` is the watcher: it digests the source (`PollSource`), then what it imports
(`PollImports`), and decides (`KeepWaiting`, `Report`, `Settle`, `Launch`). A
revision polled twice is launched; when the replay is over, `Answered` says which
inputs it was of: those its receipt names, if it is a receipt of this source and
names any, or else those it was launched for. `replay` is the process it runs, as
far as its receipt depends on the files: pin, capture for the basis, the basis
and its own receipt, read, capture, package, evaluate, and every end without a
receipt. `Edit` changes, removes or writes a file at any step.

- A source and one import stand for the closure, a content is a number; what the
  child does with the package is one outcome.
- The profile is resolved once, as in the code; that a later publication may
  change what its roots mean is left out (section 4).
- `EditInCapture` = FALSE in `shelf`: no edit of the source falls between its read
  and its capture.

## 3. Runs

| Run | Instance | Shows |
| --- | --- | --- |
| `leases_broker` | 1 hot client that may be killed, 2 vanilla clients, no operator; 3 seats, two of them aliases; at most 2 attempts; the runtime lives; and 2 attempts on 2 broker sessions, a stubborn child, a killable controller, late children, crashes, stops | `OneHolderPerControl`, `OwnerKeepsSeat`, `LeaseService` (the table implements `SeatLease`), `StaleLeaseReclaimed`; `CompletedMeansGone`, `OwnersRegistered`, `StoppedMeansQuiet`, `IdleBrokerReaps`, `EveryRequestAnswered` |
| `mixed` | 1 hot and 1 vanilla client, 1 operator; 3 seats, one without its preload; kills, runtime crashes | `TypeOK`, `TableShape`, `OneGeneration`, `QuarantineSticks`, `LifecycleLockReleased` |
| `shelf` | 2 attempts (one may be killed and counts demands), an old client, the monitor, 2 slots; 3 routes that schedule together, 2 of which may be killed; and the watch loop with a basis, 2 contents, 2 edits | `SlotExclusion`, `RetirementQuiescent`, `OwnerRecordsTrue`, `ShelfServes`, `IdleRuntimeRetired`, `RetiredRecordTrue`, `EditsChecked` |
| `restore` | 3 transactions, 2 killed controllers, 1 unrelated process, 1 termination that fails | `TreeAnchored`, `StatusTrue`, `RecoverySparesLease`, `PoolNotWedged` |
| `controllers` | 3 launches with 2 kills and 2 faults; 3 readiness runs over 2 profiles, 2 killable; 2 controllers, 3 keys, a cache of 2; a group of up to 4 processes; 2 attempts (a replay, a killable one) on 1 slot, the command and one Ctrl-C | `DaemonsAnchored`, `RestoredBasesReported`, `LiveBasesBounded`, `UseNotEvicted`, `ReportedGroupGone`, `ForeignGroupSpared`, `CancelTold` |
| `sources` | trees of up to 10 paths with 1 edit, imports that leave and enter the root; 2 builds with plans of up to 2 profiles, 1 edit; worlds of an entrypoint and three imports in three trees; attempts of up to 3 proofs; programs of up to 2 phrases in a file or in two files | `PackageTrue`, `ImportsAnswered`, `PublishedIsTested`, `AdmittedMeansSame`, `SkippedMeansSame`, `PassedMeansProved`, `AttributionTrue`, `ScanTold` |
| `late_release`, `stale_lease_dead_runtime`, `retirement_two_schedule`, `broker_recovery`, `watch_capture`, `sources_shadow` | small instances | violations, section 4 |

Why these bounds are enough to be interesting: a stale release needs two
generations and two clients; a lost update needs two writers and a third
process that believes the record; a stolen token needs two attempts that talk
to the basis one after the other; a half-taken slot needs a contender for each
of its files; a recovery that is itself killed needs a third controller; an
eviction needs one key more than the cache holds; a survivor that outlives its
leader needs a fork of a fork; a shadowed import needs a literal with files in
two places and an importer of each. Clients and operators of `WarmPool` repeat
for ever, so the number of operations is not bounded there; elsewhere the
bounds are the constants named `Max...`. There are no state constraints.

**Fairness.** Processes that run keep running (weak fairness of each process's
step), children end by their budget, a recovery ends at its deadline, time
passes. In `RestoreTransaction`, `PoolNotWedged` also assumes that the readiness
command is run again and again (strong fairness of `StartReadiness`), as it
speaks of what a further run does about a pool; nothing makes the code run it by
itself; there, live lease owners and the unrelated process end some time.
Nothing is assumed of kills, crashes, operators' decisions, or of any
process winning a lock. `StaleLeaseReclaimed` and `ShelfServes` speak of a
system in which `prove` goes on being called; clients of `WarmPool` start again
under weak fairness, attempts of `ShelfAdmission` need not. Deadlock is
checked in `mixed`, whose clients never stop for good; the bounded routes,
attempts, transactions and builds of the others end.

## 4. Where code and documentation disagree

### Runs that TLC ends with a counterexample

- **`late_release`**: `docs/usage.md` promises that a live owner keeps its seat. A
  vanilla client whose runtime was stopped and restored under it releases by
  session path and frees the seat of whoever leased it since.
- **`stale_lease_dead_runtime`**: the next `prove` reclaims a dead owner's lease,
  unless the runtime is dead too: then the demotion before the restore refuses
  the leased row, and no checkout is reached.
- **`retirement_two_schedule`**: "renew one monitor" fails when two routes schedule
  together: the second record's monitor reads the first record and leaves, then
  the second route names it.
- **`broker_recovery`**: a recovered spawn is reported as
  `broker_registered_then_quiesced`, but the child has no process group yet, so
  that nothing was signalled and the check of the group finds nobody. The child
  ends by itself when its ACK does not come.
- **`watch_capture`**: "edits during evaluation mark that result stale and schedule
  another check". A warm replay reads the bytes it instruments
  (`cli/orbstack_criu_vanilla.py:356`), compares them with the pin, and then
  captures the closure from the disk (413); the package is compared with the
  closure only, and its entrypoint is written from the bytes read first
  (`source_dependency_package.py:692-706`). After an edit in between the receipt
  names the new source, the old one was evaluated, and the loop says
  "CURRENT: accepted" of the new source and never checks it. The cold route
  compares the two (`validate_vanilla_source_snapshot`).
- **`sources_shadow`**: "route supported imports to their captured files" fails for
  two files that import different sources under one literal. TLC shows (1); in the
  worlds without HOLDIR it shows (2).
  (1) `sub/e` imports `y`, found from the package root, and `z`, which HOLDIR
  supplies and the package puts at `sub/z`; `z` imports HOLDIR's `y`, packaged at
  `sub/y`. The child maps the pair of directory `sub` and literal `y` to the
  package root's `y` (`source_execution_plan.py:150-156`), so `z` loads that one.
  (2) `sub/e` imports `y`, a file next to it, and a file of the logical root that
  imports its own `y`. The child maps the literal `y` to the logical root's file
  for every file (`mounted_source_package_prelude`), so `e` loads that one.
  The property speaks of imports that stand in place (`InPlace`, below) and of
  packages built while nothing was edited, so the other two gaps of this section, a
  path that leaves the package or goes through a directory it lacks, do not
  count. In every counterexample of the instance the answer is a captured file
  of the same literal.

### Constants that are FALSE in the passing runs

Each names a condition under which a property fails; set it to TRUE in the
module's own configuration and TLC shows how.

- `SlowOwnership` (`ForkBroker`): the failure path of
  `acknowledge_registered_child` unregisters a child and then removes the file
  whose removal lets it go on, so that `OwnersRegistered` fails for a child
  slower than its deadline.
- `StopInFlight` (`RestoreTransaction`): a launcher still in flight when its
  controller dies may bring its tree up after a stop has been verified, so
  `StatusTrue` fails. `ForeignNeverKilled` fails as well, without any
  flag: the cleanup by pidfile signals the recorded number, and an unrelated
  process may have it by then.
- `EditInCapture` (`WatchLoop`): the subject of `watch_capture`; `EditsChecked` fails
  under it too.
- `KillInAdoption` (`ProjectBasis`): a controller killed between the start of an
  adopted basis and its entry in the index leaves a basis the cache does not
  count.
- `WorkersOutlive` (`ReadinessProbe`): a worker that outlives its controller may
  restore a basis after the report that named its profile was replaced.
- `SpawnMayFail` (`OwnedProcesses`): where the birth identity or the ownership
  record of a new process is not to be had, `spawn` ends the process itself and
  raises; `start_pool` then has no object to ask and reports
  `process_started: false` and `verified_quiescent: true` although descendants may
  run.
- `ReuseWhileOwned` (`OwnedProcesses`): `OwnedProcess._identity_failure` checks
  nothing once the leader is reaped, so the SIGKILL after the grace may reach a
  group that got the number since. `terminate_process_group`, which a stop uses,
  checks again, in a step with its signal: a change of hands between the two
  system calls is not modelled. `ForeignGroupSpared` therefore shows only that each
  signal of a stop has a check of its own, and there is no theorem about it;
  `ReportedGroupGone` holds with either value.
- `ForkInListing` (`OwnedProcesses`): `read_linux_process_snapshot` lists the
  names in `/proc` and then reads each; a member that forks and exits in between
  is not missed but its child is, and the stop says verified.
- `CutsInName` (`Evidence`): `proof_diagnostics.py:629` finds a cut record only if the
  line already holds the whole literal `__HOL_PROOF_ACTIVITY__`; a cut within it
  leaves an earlier call looking current, which the comment at 631 excludes.

### Seen while modelling, and no run's subject

- The reason recorded for a release as "dirty" is that the child exited; a client
  that lost its connection releases while it runs, and the hot route reports
  `seat_reusable` with survivors.
- The final event reaches the client before the session lock is released, so
  that the session's next attempt can be refused. A quarantine between the two
  phases of a stop clears a sibling's lease.
- `cancel` says "interrupted" of an attempt that a second SIGINT hit between its
  checkout and its `try` clause, or in the clause that releases the seat. The seat
  stays leased until a later checkout reclaims it, while the help text speaks of
  waiting "for the attempt to release its seat or queue slot". A SIGINT meant
  for the preparation of a basis replay may hit its leaf. `CancelTold` allows both.
- `_captured_warm_sources` (`profile_satisfied_dependencies.py`, about 555) skips every
  edge in `satisfied_external_indexes`, including those with the resolution
  `profile_runtime_fallback`, although its comment speaks of "existing
  absolute-HOLDIR edges" only: below a skipped parent such an edge is not
  compared. Where no host HOLDIR is configured, and the basis took a file from
  its own HOLDIR that the profile directory has now too, with other bytes, the
  import counts as loaded and is not. `FromProfile` excludes it; without that
  hypothesis TLC finds a counterexample to `SkippedMeansSame`.
- `profile_satisfied_needs_prelude` (957-1008) looks edges up by the declared
  path, not by the declaring file, which `source_load_transport.py:12` excludes.
  `OneMeaning` excludes two files that declare one literal for different sources;
  without that hypothesis TLC finds a counterexample to `SkippedMeansSame`.
- The cleanup record of a failed build start says "refused before any pool
  process started" and `verified_quiescent` whenever no pool path is known
  (`cli/orbstack_criu_build.py`, 871-881), also after a start that failed or timed out
  with its basis running.
- The watch loop: a replay that ends without naming its inputs counts for those it
  was launched for. If the source was edited and reverted meanwhile, the loop says
  "CURRENT: not accepted" of a source nobody evaluated, and rests; `EditsChecked`
  allows it. "STALE: the finished result is for earlier inputs" is also printed
  when the replay captured later inputs than the poll before. The loop resolves
  the profile once, the replay each time: after a publication that changes the
  profile's roots the two digests may differ for good, and the loop checks again
  without end.
- An import that leaves the package root and comes back by the directory's own
  name (`../../pkg/y` from a file of `pkg/sub`), or that a mounted or HOLDIR file
  takes into the package root by `..`, is captured and copied, but the child
  looks for it outside of the package, where HOL's own load path answers;
  `docs/architecture.md:62` promises that supported imports are routed to their
  captured files. `ImportsAnswered` speaks of files that stand in the package as
  they do in the root (`InPlace`), and of the other kinds of import.
- The capture normalises a path before it looks for the file, the child leaves that
  to the system (`source_load_transport.py:48`), which goes through the directories
  that the path names. An import `t/../y` whose `t` has no captured file is
  captured and copied, but the package has no directory `t`, so that HOL's own load
  path answers it. `ImportsAnswered` speaks of literals that go up first (`UpFirst`);
  without that TLC finds this import.
- A package answers a literal by the directory of the importing file. Of two files
  of one directory that import one literal, between which a file next to them was
  created, both load what was captured for the first, from the root
  (`Alike` in `ImportsAnswered`).
- A source edited between its load by HOL and the capture of the loaded closure,
  with a copy of its old bytes elsewhere, is recorded under the copy's name.

## 5. Proofs

Every theorem holds for all values of the constants that the assumption of its
module allows (`ConstantsAssumption`, `BuildAssumption` and so on: numbers are
naturals, sets of processes do not contain `None`), and, where the table says
so, under one hypothesis more. Each of these hypotheses is the constant of a
run that TLC ends with a counterexample, or one that section 4 names: the
property does fail without it, in the code as in the model. TLC evaluates them
in the passing runs. TLC has checked
each invariant on the run of its module before it was proved.

| Module | Theorem | States | Hypothesis |
| --- | --- | --- | --- |
| `WarmPoolProofs` | `TypeCorrect`, `TableShapeHolds`, `OneGenerationHolds`, `QuarantineSticksHolds` | `[]TypeOK`, `[]TableShape`, `[]OneGeneration`, `[]QuarantineSticks` | |
| | `OwnerKeepsSeatHolds` | `[]OwnerKeepsSeat` | no operator, or no vanilla client |
| | `Invariance` | the inductive invariant they follow from | |
| | `OneHolderPerControlHolds` | `[]OneHolderPerControl` | no operator, or no vanilla client |
| | `LeaseServiceHolds` | `WarmPool` implements `SeatLease` | the same |
| `ShelfProofs` | `SlotExclusionHolds`, `RetirementQuiescentHolds`, `OwnerRecordsTrueHolds` | `[]SlotExclusion`, `[]RetirementQuiescent`, `[]OwnerRecordsTrue` | |
| | `RetiredRecordTrueHolds` | `[]RetiredRecordTrue` | |
| `ForkBrokerProofs` | `CompletedMeansGoneHolds` | `[]CompletedMeansGone` | |
| | `OwnersRegisteredHolds`, `StoppedMeansQuietHolds`, `IdleBrokerReapsHolds` | `[]OwnersRegistered`, `[]StoppedMeansQuiet`, the action property `IdleBrokerReaps` | `SlowOwnership = FALSE` |
| `RestoreTransactionProofs` | `RestoreInvariance` | its inductive invariant | `StopInFlight = FALSE` |
| | `TreeAnchoredHolds`, `StatusTrueHolds` | `[]TreeAnchored`, `[]StatusTrue` | `StopInFlight = FALSE` |
| | `RecoverySparesLeaseHolds` | the action property `RecoverySparesLease` | |
| `RecoveryProofs` | `DaemonsAnchoredHolds` | `[]DaemonsAnchored` | |
| | `RestoredBasesReportedHolds` | `RestoredBasesReported`: `[]RestoredBasisAnchored` and the action property `UnsettledReportKept` | `WorkersOutlive = FALSE` |
| | `UnsettledReportKeptHolds` | the action property alone | |
| `SignalProofs` | `LiveBasesBoundedHolds` | `[]LiveBasesBounded` | `KillInAdoption = FALSE` |
| | `UseNotEvictedHolds` | the action property `UseNotEvicted` | |
| | `ReportedGroupGoneHolds` | `[]ReportedGroupGone` | `ForkInListing = FALSE`, `SpawnMayFail = FALSE` |
| | `CancelToldHolds` | `[]CancelTold` | |
| `PublicationProofs` | `PublishedIsTestedHolds`, `AdmittedMeansSameHolds` | `[]PublishedIsTested`, `[]AdmittedMeansSame` | |
| | `PackageTrueHolds`, `ImportsAnsweredHolds` | `[]PackageTrue`, `[]ImportsAnswered` | |
| `EvidenceProofs` | `SkippedMeansSameHolds` | `[]SkippedMeansSame` | `OneMeaning`, `FromProfile` |
| | `AttemptPassedMeansProved` | `[]PassedMeansProved` | |
| | `AttemptAttributionTrue` | `[]AttributionTrue` | `CutsInName = FALSE` |

All follow one pattern: an inductive invariant in named parts, for each part a
lemma that every step keeps it, with one step per action, and facts about the
module's operators as lemmas of their own. What each needs beside its property:

- **Warm pool.** `IInv` is `TypeOK`, `TableShape`, `OneGeneration` and
  `QuarantineSticks` with four strengthenings. `LockInv` ties the control points to
  the holders of the two locks: without it two processes could be in the middle
  of a restore. `LaunchInv` says what a client that is about to restore knows of
  the table, `StopInv` what an operator between its two writes does, and
  `HoldInv` that a client that works has a seat. `OwnerKeepsSeatHolds` adds
  `PidInv` (a client at work has a live pid, so no reclaim touches it) and
  `ServeInv` (the lease of a client that works is its own as long as its
  generation lasts); its hypothesis is exactly what `late_release` shows to be
  needed.
- **Lease service.** From `OwnInv`, which `OwnerKeepsSeatHolds` rests on,
  `NoEarlyLease` (a row names a client past its checkout, or one that is gone)
  and `StopClosed`. No operation on the table but a grant gives a row to
  anybody, and a grant is to a seat whose control session nobody holds:
  `OneHolderPerControl`. The same lemmas make each action a step of `SeatLease` or
  a stutter under the refinement mapping of `WarmPool`.
- **Shelf.** `Must` and `May` say for each control point which admission files
  its process holds for certain, and which at most; one process holds a file, so
  two attempts in one slot, or one beside the monitor, would be two holders of
  file 1 or k. `DecisionHolds` carries what the monitor saw to the stop: nobody
  gets in while it has every file. `RecordInv` ties owner records to slots.
- **Retirement schedule.** A record that says "retired" was written by the
  monitor it names, which has exited by then; only a route that has not
  scheduled yet can have restored since (`RetiredInv`).
- **Broker.** An attempt's phrase is queued once and forks one child
  (`SpawnInv`); the ACK file is written once and never for a recovered attempt
  (`AckInv`); a child that may take ownership is registered (`RegistryInv`); a stop
  sweeps only when broker and basis are down (`StopInv`). The hypothesis keeps
  the failure path of the hand-over from unregistering a child that goes on.
- **Restore transaction.** Only the newest transaction has a launcher or the
  dump's PIDs (`NewestOnly`); `LauncherAt`, `StagedAt`, `ReadinessAt` and
  `VerifiedAt` say at each control point what has been recorded; `QuietAt`, that
  no launcher is in flight when a pool is admitted or stopped, is what
  `StopInFlight = FALSE` is for. `RecoverySparesLease` needs none of it but the
  state of the record under which a recovery was begun.
- **Lazy pages.** Intent and owner record name the last launch (`RecordsAt`), only
  it is at work, and its parent may fork only while an intent without a daemon
  is there (`ProcessesAt`); artifacts are removed in an order in which what
  is left is always named (`RetireAt`).
- **Readiness.** One run at a time has the run-root lock (`LockAt`) and the report
  is its own while it probes (`ReportAt`); the report names the profile before
  its worker starts and after it has ended, and a worker ends with its run
  (`WorkerAt`). So a profile is restored only while it is named, and the report
  of a run before is left alone or settled. Without the hypothesis a worker
  may restore a profile that the report no longer names.
- **Project basis.** The flock says who may change the cache (`LockAt`), a basis
  is prepared for a key without a ready record (`KeyAt`), a broker that can still
  attach belongs to an adoption (`FreshAt`). So when room is made the live bases
  are those of the ready records, no more than there are such keys;
  stopping `Excess` of them leaves one place, and `CountAt` keeps it for the
  adoption.
- **Process groups.** `TypeOK` and `ControlInv`, four facts that need each other.
  `ForeignInv`: when the number is somebody else's, after the start or while the
  starter still ends the group, nothing of the group has it, so that no process of
  the group can fork again. `StarterInv`: what the starter has
  and has recorded at each control point, so that a failed start cannot report
  more than it knows. `ListingInv`: a running member has been seen or is still to
  be read, in the middle of a look at `/proc`; this is why a quiet look means a
  quiet group although it was not taken at one moment. `GoneInv` is the property.
- **Cancellation.** How far an attempt has come never goes back: `Begun`,
  `Admitted`, `Past`, `Over` (`Progress`). Each record of a live process implies one
  of them, and its absence the next (`Unlisted`): an attempt that was admitted
  and whose owner record is gone is past its seat, one that began and whose
  demand is gone is over. `TargetAt` carries that from the reading of the
  records over the signal to the answer; `LeaseAt` says that a seat still busy
  then is one that somebody reclaims. "no match" is right because an attempt
  under way has its demand record until its admission is over (`DemandAt`).
- **Build and publication.** A root belongs to one build (`RootsApart`), so what a
  build finds in it at a control point is what it put there itself. `TestOf` says
  for each control point what the tests of the profile under way have shown: a
  closure that covers what the live pool has loaded, an image of that very pool,
  a pool restored from that image, a probe that ran in it, a pool that is gone.
  A plan may name a profile twice and the second dump replaces the image of the
  first; so a row that says ok promises only what outlives that (`RowTrue`), and
  it is the check of the whole batch that refuses it (`CompleteAt`, from
  `BatchCheck`). A published root is that of a build that is done (`Published`), and
  such a build writes nothing more; that is why what the route selected cannot
  change before it is admitted (`RouteAt`), and why the closure that admission
  compares with the disk is the one that covers the image it will restore.
- **Source capture.** A digest is of what a file held when it was recorded
  (`RecordedBefore`), the reading that is analysed comes after it and before the
  capture ends (`StartsAt`, `VisitedAt`), and the copy has the bytes of the
  digest (`CopiedAt`). Versions only grow, so the digest, the reading, the content
  at the end of the capture and the copy are all equal: a package is a snapshot
  although nothing was locked. Complete it is because an import of an analysed
  file is recorded, or ahead of a visit that goes on, or the one in hand
  (`WalkAt`), and every captured record is an input of the package.
- **Loads of a package.** `AnswerInv` adds to that invariant where things stand: the
  root is above the entrypoint, however it was inferred (`RootAt`); a record says
  whether its file was found from the root or next to the importing one, and the
  package path is made accordingly (`RightOf`, `StillOf`); an importing file is
  recorded under the entrypoint's package path or that of a captured import
  (`KnownAt`), so that it is in the package itself; and a copy never has `.` or `..`
  in its path (`SafeAt`). What is left is about paths, by induction over their
  components: normalising what follows a directory is normalising it by itself, as
  long as it does not leave that directory (`NormalUnder`), so the capture, which
  looks below the root, and the child, which looks below the package, find the
  same; and a literal that goes up first passes only directories above where it
  began (`UpInside`), which the package has (`FolderAbove`). So where no map of the
  prelude answers, the copy next to the importing file does; and a map answers with
  a captured file (`NeverOutside`), in one tree with one captured for that literal
  in that directory (`OneTree`).
- **Profile answers.** The decision compared every captured source imported by
  `needs`, and everything recorded below one that the inventory has, and it kept
  an edge for every import that the package does not hold (`DecisionTrue`). What
  the basis loaded and what was captured do not change after it, so that it is
  as true of the child, whatever is edited (`DecidedRight`). An import that HOL is
  told is loaded is in `mem` under the name and the bytes of an edge, or of a
  captured file (`SkippedRight`), and an edge has the name and the bytes recorded
  for every import of its literal (`EdgeIdentity`, which needs `OneMeaning`). What is
  below it the decision followed along the imports of the captured files: they
  have the bytes of files of the inventory, so they import what the basis
  imported, and what the package does not hold of that the basis found in the
  place that the edge names (`AnsweredBelow`, by induction along the imports,
  `Reached`; `FromProfile` rules out another place).
- **Evidence.** The invariant says what the lines printed so far are, read from the
  first to the last as the reader will, and what state of the evaluation they
  are of. For the verdict (`PassedInv`): the files still to be evaluated end in the
  probes and the completion marker of the entrypoint (`Shaped`), a probe that
  printed its answer told what the name is bound to for good (`ProbesTrue`, for
  which two theorems of one name must be refused), every exception that ended a
  phrase left its two lines (`FailuresTold`), and the delta is that of the axioms
  (`DeltaTrue`). One marker and no such line therefore mean that nothing was
  skipped. For the attribution (`AttributionInv`): the calls that run are
  those entered and not left among the lines, down to the depth that is
  recorded, and beyond it an overflow is open (`ActivityRight`); a frame is open
  exactly while one is being printed (`Paired`, `OpenFrame`); a frame at the end of
  the transcript is of the phrase under way (`Ending`), and one right before the
  first uncaught exception is of the phrase that it ended (`Failing`). A cut leaves a prefix of those lines, the last of them in part; what
  the reader refuses as incomplete is every such part but the one that
  `CutsInName` stands for. Folding a line in is `FrameStep` or `ActivityStep`
  whatever comes before it (`ActivitiesAppend`, `FramesRight`), which is what lets
  one step of the evaluation be matched with one step of the reader.

Only model-checked: every liveness property (TLAPS does not reason about
fairness and ENABLED in the version used), and `ScanTold`, which compares two
readings of a text that `LoaderScan` defines by recursive operators, which the prover
does not accept.

## 6. Not modelled

- `cli/prove*` beyond the replay, `cancel` and the watch loop, reports, export,
  doctor: they read receipts and print.
- `machine_client` installs and dispatches a frozen client taken from a git revision;
  the launchers it checks for are not in the repository, so that its install
  refuses at this commit. `controller_runtime_bundle` is, by its docstring, the
  graph of the older final-evidence workflow, which warm authoring does not use.
- Pool reset and the fork children of pools built before the mechanical broker: the
  published route does not reach them.
- The fake HOL, self-tests and developer tools: read as documentation.
- Host preflight, kernel and package compatibility (`criu_snapshot_compat`): equality
  tests of values that do not change while a route runs.
- Physical expansion of a pool's capacity: pools of the current topology are not
  expanded.

## 7. What is left

1. The nested signal windows of one client (`hot_profile_session`), as a refinement
   of the client of `WarmPool`.
2. The watch loop beside a publication that changes its profile.
