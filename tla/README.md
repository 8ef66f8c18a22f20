# TLA+ verification of Your Cloud

Your Cloud lets one owner watch and change their own machines. A *Daemon* on every
machine measures it and publishes observations to a *Relay*; a *Controller* reads the
Relay and launches signed plans on the machines; an *Auxiliary* on each machine verifies a
signed approval, spends it and performs it; the *App* is where the owner reads, decides and
signs, and its *Assistant* installs the rest over the owner's own SSH access.

This directory models the two trajectories on which everything else depends, an observation
on its way up (Daemon, network, Relay) and an approval on its way down (App, Controller,
SSH, Auxiliary), and the whole of what the App and its Assistant do on the owner's machine:
native sessions, personal SSH access, installation, enrolment, replacement of a Controller,
vault, association, and the documents a human is asked to sign. TLC checks the modules on
small instances, TLAPS proves the central invariants for every value of the constants.
`PROJECT.json` holds the list of components, runs, mutants, findings, hazards and theorems,
and the source lines behind each definition.

To repeat the checks: `tlc -config X.cfg MCY` for each run below, `tlapm XProofs.tla` for
the proof modules.

## 1. Inventory

Paths are relative to the repository. "Hard" names what tests hardly reach.

### Observation chain (Go)

| Component | State | Operations | Hard | Correct when |
|---|---|---|---|---|
| Daemon queue, `internal/buffer` | one JSON state: next sequence, pending envelopes, waiting gaps, delivery state; a copy in memory | `Enqueue`, `Peek`, `Acknowledge`, `SetDeliveryState`, `openAt`, each a whole-file durable write | a write that fails after its rename; eviction while a request is in flight; gaps carried by an envelope that is itself evicted | no sequence disappears without being declared lost; bytes once shown never change |
| Collector and Publisher, `internal/daemon/observer.go` | where `SendOnce` is | 30 s tick; peek, POST, acknowledge, delivery state; retry with backoff | two goroutines on one queue; a request given up on that still arrives; a crash between acceptance and acknowledgement | the queue drains |
| Relay store, `internal/relay/observation_store.go` | per machine: last envelope, merged gaps; a copy in memory | `Save`, `OpenObservationStore` | replay, collision, reordering, an evicted envelope that was accepted | below its sequence, everything is accepted or declared lost, never both |
| Relay ingestion, `observation_http.go` | the enrolment set | `receive` | reload of enrolments during a request | an unknown machine never writes |
| Relay reader, Controller cache and projection | last snapshot, single-flight read, ages | snapshot service; refresh, transition rule | a late answer overtaken by a newer one; several readers | a snapshot never goes back; ages never shrink by themselves |
| Enrolments | the enrolled keys | reload as a whole | reload under traffic | all or nothing |

### Command path (Go, TypeScript, Rust)

| Component | State | Operations | Hard | Correct when |
|---|---|---|---|---|
| Anti-replay, `internal/approval` | anchor file, `approval-state.json`, lock file | `Accept`, `Consume` | two processes; power loss around the rename; the anchor rotated or rolled back meanwhile | an accepted position is after all earlier ones and survives a power loss |
| Auxiliary process, `cmd/your-cloud/auxiliary.go` | one process per launch | read input, read anchor, accept, apply, report | refusal after consumption; death anywhere; death while reporting | what it reports is what it did |
| Auxiliary operations, `internal/auxiliary` | image, quadlet, unit, rollback material | deploy, remove, approved rollback over an `Executor` | a failure between two acts and a failure of the way back | applied, rolled back or *said* to be partial |
| Dispatch registry, `dispatch_registry.go` | bounded list of dispatch records; a copy in memory | `Accept`, `Conclude`, `AlreadySpent`, `HighestReportedSequence`, requalification at startup | separate lock acquisitions; the bound; a restart with an open record | recorded before launched, one conclusion per dispatch |
| Approval submission and launch, `plan_approvals_http.go`, `command_launch*.go` | one handler per open request, the derived known_hosts | `servePlanApprovals`, `Dispatch`, `concludeLaunch`, `ingestReport` | an SSH client that dies while the machine goes on; its deadline | the record claims no more than is known |
| Decision view and signature, `plans-view.tsx`, `submit_plan_decision` | the pair (plan, position) held by the view | read pair, confirm, sign, submit | a position read earlier and used later | one signature per confirmation |
| Plan documents, service definitions | immutable documents; a bounded inventory | canonicalise, validate, freeze | inverse plans | the rollback is the inverse |
| Controller authority, pairing, sessions | windows, candidates, active owner, challenges, sessions | open, claim, activate, rotate; challenge, accept, expire, logout | two claims in one window; expiry during a request | one owner; no request outlives its session |
| Inventory, external elements | revisioned declarations | put, remove | stale revisions | one revision, one content |

### App and Assistant (Rust)

| Component | State | Operations | Hard | Correct when |
|---|---|---|---|---|
| App commands, `src/lib.rs`, `bootstrap.rs`, `plan_consent.rs` | lock, bootstrap session, plan pair, consent session | some twenty synchronous commands, called by the WebView in any order | a pair replaced under an open window; expiry between two polls; a command of an earlier session | what is signed or shown as verified was answered for, in time |
| Helper supervisor, `native_helper.rs` | the one active child, the reaper's queue | start, poll, stop, defer, reconcile | a child that does not end in the bounded wait | one helper at a time |
| Assistant process, `lease.rs`, `watchdog.rs`, `framing.rs` | lease, deadline, the one frame | serve, expire, force | everyone blocked; a frame cut; a byte after the frame | it ends, and says one thing at most |
| Assistant session, `lib.rs`, `personal_access/` | target, credential, SSH session and its budget, password, policy | window, dial, attest, authenticate, list, elevate | the deadline, the lease, the agent, the file and the target each failing anywhere | it reaches only what was approved, changes nothing without proof |
| Installation, `installation/` | position in the plan, ledger | deposits, acts, constats, unwinding | an operation that may have taken effect | what was changed is recorded; verified is whole |
| Machine identity, `machine_identity/` | what the machine holds | eight steps with a judgement after each | partial writers; something already there | the account is bounded before a role starts |
| Replacement, `replacement/` | per machine: key file, what sshd answers; the reader | a plan of eleven steps and the reconstruction of each machine | runs cut anywhere, writes that land late, no journal | never no authority, never two readers |
| Vault, `vault.rs` | metadata file, snapshots | initialize, unlock, change phrase, commit | power loss around a rename | it opens, and keeps what was answered for |
| Association, `network.rs` | associations, pending rotations, code rotation | pair, recover, activate, rotate | lost answers, half commits, receipts that lapse | the human's code works |
| Documents, `bootstrap-protocol`, `publication_plan.rs`, `service_definition.rs` | plans, definitions, drafts | verify, present, freeze, sign | widths, encodings, two readings of one contract | what is signed was shown |
| App views, Diagnose, transport, packaging, LAB | none that matters here | rendering, read-only reports, TLS policy, build tooling | | |

### How they interact

The Daemon calls the Relay (mTLS POST); the Controller polls the Relay; the App calls the
Controller over an authenticated session; the Controller runs an SSH client whose forced
command starts one Auxiliary process per launch, and learns only its exit status and its
standard output; Assistant and Auxiliary share files on the machine (the anchor). Nothing
is shared in memory between programs. Every durable store uses the same commit: write a
temporary file, sync it, rename it, sync the directory, and only then move memory on. An
error before the rename leaves everything as it was; an error after it leaves the new file
on disk and the old state in memory. The stores of both trajectories and the two stores of the App
model that middle case. `ControllerIdentity` does not: memory and files of the authority and of
its candidate are one record there.

## 2. Modules

```
DaemonBuffer   RelayStore            MachineApproval   DispatchRegistry
        \       /                            \            /
     ObservationDelivery ..implements..       CommandPath ..implements.. MachineApproval
        |        \       ObservationLedger     |       \
  MCDelivery   DeliveryProofs               MCCommand  CommandProofs
                                            MCMachine (MachineApproval alone)

NativeAssistant            AccessJudges    MachineAudit        ServiceDefinitions
      |                      |        \      /                    |          \
HelperSupervisor      MachineIdentity  InstallPlan           PlanDocuments  DefinitionPaste
      |                 |        \      /     |                   |           |
AppSessions  ControllerReplacement  Enrolment  AssistantSession  PlanConfirmation
      |                 |            |             |              |          /
 MCSessions      AuthorityTransfer MCEnrolment InstallSequence   PlanApproval
 SessionProofs          |          EnrolmentProofs |                 |
                  MCAuthority               MCInstallation      MCDocuments
                  AuthorityProofs           InstallProofs       AppProofs

AppVault -- MCVault        ControllerIdentity -- AppAssociation -- MCAssociation
        \-- AppProofs                                            \-- AssociationProofs
```

An arrow downwards is EXTENDS; `AppProofs` is about two components that share no state, the
vault and the plans. Judgements, functions of what was observed that say "ok" or
name a refusal, are kept in modules of their own (`AccessJudges`, `MachineAudit`,
`MachineIdentity`, `ControllerReplacement`, `InstallPlan`, `PlanDocuments`,
`PlanConfirmation`, `ServiceDefinitions`, `DefinitionPaste`); the modules below them take the
steps. `FirstRefusal` is the shape of most of the code: the first check that fails is the
answer.

### DaemonBuffer (`internal/buffer/buffer.go`)

`memory` is `Buffer.state`, `disk` the file. `Enqueue`, `PeekOk/PeekFails`,
`AcknowledgeOk/Fails`, `SetDeliveryStateOk/Fails`, `Stop` and `Open` are its operations;
`CommitOk` and `CommitFails` are `commit` with `persistState`. `Enforce` is `enforce` with
`dropOldest` and `addGap`. A gap list is kept sorted and merged, and what a queue has lost is
one run of consecutive sequences, so it is represented by the set of those sequences and the
`span` of time that its one gap declares: from the oldest loss to the last envelope dropped.
`Instant` is what the wall clock may show, in any order. A gap that ends before it begins
(`~InOrder`) is refused by `Gap.Validate`, hence by `Peek`, which encodes the envelope
(`ValidEnvelope`), and by the start of a Daemon (`ValidState`). `MaxRecords` is exact; the age and byte limits may require more
evictions and become a choice of how many of the oldest leave (`DropCounts`), which includes
every outcome of the clock and of encoded sizes. One thing they cannot do is evict the
envelope just enqueued: `validateLimits` makes the byte limit larger than that.

### RelayStore (`internal/relay/observation_store.go`)

`stored` and `storedDisk` hold the entry of one machine: the file has one entry per machine
and `Save` reads and writes only its own. `AlreadyPresent`, `Saves` and
`GapsMatchSkippedRange` are the three verdicts of `Save`. `accepted` is a history field no
guard reads. `RelayRestart` is the process starting again on the file as it is: a power loss of
the Relay's machine, which could take back a rename that was not synced, is not modelled.

### ObservationDelivery (`internal/daemon/observer.go`, `internal/relay/observation_http.go`)

Composes both with the Publisher (`phase`, `sent`) and the network (`late`, the requests
nobody waits for any more; delivered in any order, or lost). `SendPeek` ...
`SendFailed` are the steps of `SendOnce` and of `Run` around it; `Receive`,
`ReceiveRefused` and `ReceiveLate` are the handler, whose other refusals (authorization,
malformed body) look the same from the Publisher's side. The two goroutines of the Daemon
interleave freely; delays are left to the interleaving.

### ObservationLedger

The abstract promise: collections are numbered 1, 2, 3, ...; each is settled once, in
order, as accepted or as lost. `ImplementsLedger` is the refinement, with
`numbered <- Working.next - 1`, `accepted <- stored.accepted`, `lost <- stored.gaps`.

### MachineApproval (`internal/approval/{anchor,accept,replay}.go`, `runAuxiliary`)

`anchor` is the epoch the anchor file names, `position` the state file as the next reader
sees it, `synced` the same file as it comes back from a power loss, `lock` the holder of the
flock, `run` the Auxiliary processes. A process goes anchored, locked, decided, accepted,
touched, done, exactly in `runAuxiliary`'s order, so another process or a rotation
of the anchor fits between any two of them. Any envelope may arrive, any number of times:
the machine trusts no caller. The signature, the subject and the clock window depend on the
envelope and the moment only; `Refuse` may always take their way out. What an operation does
to the machine is reduced here to `Touch`, its first effect.

### DispatchRegistry (`internal/controller/dispatch_registry.go`)

`registry` and `registryDisk`. A digest of signed bytes is the approval itself.
`BoundDispatchRecords` keeps the open records and the `MaxTerminal` last terminal ones, as the
code's walk from the end does, and gives each kept record its rank in the code's final sort,
with the order that gives to records accepted within one second. The rank, rather than a
sorted sequence chosen among all, is what the proofs can reason about. `Requalified` is what
`OpenDispatchRegistryStore` makes of a record left open by a life that was cut.

### CommandPath (`plan_approvals_http.go`, `command_launch*.go`, `command_report.go`, `plans-view.tsx`)

Composes the machine and the registry with the handlers of the Controller (`handler`), the
approvals signed so far, and the derived known_hosts file. `Check` is everything up to
`AlreadySpent`; `AcceptDispatch` takes the lock again, so two requests may pass `Check`
together. `Launch`, `Connect`, `ChannelLost`, `Deadline`, `ClientErrs`, `ClientFails` and
`Answer` are the SSH client as the Controller sees it, and `ConclusionOf` the verdict of
`concludeLaunch` and `ingestReport`. The Auxiliary outlives its client. `SubmitDecision`
signs the successor of a position read now or earlier; the same signed bytes may be
submitted again. `changed`, `cut`, `spent` and `twice` are history variables no guard reads.

Assumed: the wrapper fits the pipe of the client (it is smaller than the pipe's
capacity), so writing it never blocks; the Controller drives one machine at a time, since
records of different machines meet only in the registry's bound.

### NativeAssistant, HelperSupervisor, AppSessions (`lease.rs`, `watchdog.rs`, `native_helper.rs`, `lib.rs` of the App)

`procs` holds one incarnation of the helper per request: its phase, what the window answered,
its lease (the standard input it inherited), its deadline. `sup` is the supervisor: the
active session and the children left to the reaper. `vault`, `boot`, `narrow`, `pair` and `consent` are the
App's. The commands are synchronous functions that Tauri runs one at a time on its main
thread, so each is one action, with what the operating system decides inside it (does the
child end within the grace, does `waitpid` answer) as a choice. A verdict is read when the helper
ends, so that a refusal whose pipe a descendant still holds, which the code ends as unavailable,
is a refusal here. The helper, its watchdog, the
reaper and the clock run beside them. What a session inside the helper decides is `Answer`, a
choice here; the next modules take it apart.

### AccessJudges, MachineAudit, InstallPlan, AssistantSession, InstallSequence (the Assistant's crate)

One bootstrap session as `serve_personal_access` and `serve_root_access` run it, on both
platforms: the name is resolved, judged and frozen; the agent is opened or not; the window
answers; the key file is opened, read, confirmed and unlocked; one address is dialled, the host key attested, one
signature asked for, the budget of channels adopted; then identity, policy, password,
elevation, observation, placement, bundle, and the sequence of deposits, acts and constats.
`live.spent` counts channels as `run_channel` does, spent before they are opened. `target` is
what the machine holds, item by item; a command that succeeds left what it is for or something
close to it, one that fails or is not heard left anything down to nothing (`Left`).
`write_terminal` with the protocol's own validation of an event is `Resolve`.
Three branches that a scope which validated cannot reach are left out (a scope without a declared
target, one that no longer validates with the frozen addresses, a payload without its
configuration); the reader's certificate and its key are one item of the ledger.
The platforms differ in two places. The agent is a socket attested by its owner and its directory
on Linux, a named pipe attested by its server process and checked again once it is open on
Windows (`OpenPipe`, `StillServing`); on Windows there is no key file to fall back on, so an agent
that is missing or offers nothing usable ends the administrator's route. The window is GTK's modal
loop or a Win32 dialog whose visible texts and edit control are checked before an answer is taken
(`GtkDialog`, `Win32Dialog`, `SurfaceIntact`, `CaptureSecret`); both read the lease and the deadline
before they open and when they answer.

### MachineIdentity, Enrolment (`machine_identity/`)

The steps of `plan.rs` in their order, each followed by the judgement the crate gives of what
is on the machine. Who writes (the LAB fixtures today) is external: a step leaves any of the things
a writer can leave. An undone run is `Unwind` of its ledger. An elevation rule's `defaults` are the
settings as they are spelled, each a list of words bound to the account, to another or to everyone;
`ReadSettings` is what `judge` makes of them, the last word of each.

### ControllerReplacement, AuthorityTransfer (`replacement/`)

`entries` and `serving` are each machine's key file and what its sshd answers to; `flight` the
writes that may still land; `reader` the Relay's manifest and socket. A run knows nothing of
an earlier one: it rebuilds each machine's state with `Reconstruct` and asks `NextFor` what to
do. Both journeys (loss, compromise with its isolation) are modelled, and the residual grants
that `SweepResidualAuthority` must find.

### AppVault (`vault.rs`)

`dir` is the directory as the kernel shows it, `past` every directory a power loss may bring
back: the one last synced and those since. An end of the process keeps `dir` and forgets memory;
a power loss may bring back any directory of `past`. A command is cut where its writes are:
`confirm_initialization` writes the snapshot, renames the metadata and syncs, three actions,
and removes the snapshot, if it can, on any error, one after the rename included
(`UndoInitialization`); a phrase change writes, publishes and retires. `told` is what the App
answered: that there is a vault, and the last document a synced commit stored.
`confirm_phrase_change` decides whether it published by `read_metadata(...).ok()`: where that read
fails after the rename (`PublicationMisread`), it removes the snapshot the metadata now names.
`misread` remembers it, and what is said of the vault is said as long as it did not happen.
`sync_directory` does nothing on Windows, so what is said of a power loss is said of the other
platforms.

### ControllerIdentity, AppAssociation (`network.rs`, the identity side of the Controller)

A certificate is a number that is never issued twice, a recovery key the code it derives from
and its epoch. A command is a chain of requests and vault commits, one step each; a request is
refused, served, or served with its answer lost; a commit is done, not done, or done and
reported as failed. What follows the Controller's durable commit of an activation (the removal of
the candidate's file) is taken as done with it. The human is assumed to enter the newest code they hold when they enrol a
further Controller, to revoke a device with the service stopped, and a pairing window opens
only when the Controller starts.

### ServiceDefinitions, DefinitionPaste, PlanDocuments, PlanConfirmation, PlanApproval

The documents of schemas 1, 2 and 3 as records of their fields, so that an unknown or missing
field shows in a record's domain; texts are names with a length and, where it matters, the
parts that splitting them gives. SHA-256 is taken to be injective: a digest is the transcript
it is taken over. The mirror's two readings of a definition (`HoldsTheContract` for yes or no,
`Refusals` for the faults) are both written out, and so are the lines, bytes and folded columns
of a consent frame. The Controller may serve any documents under any digests. The presenters
of schemas 1 and 3 are unused by the App's commands today (`allow(dead_code)`); they are
modelled and checked as the functions they are. A pasted name is cut to a slug, so the suggestion
may be empty or a reserved name; both are refused as they would be if typed.

Definitions whose comment starts with "Mutant:" are the code with one plausible bug. No
specification uses them; `PROJECT.json` says which property each one must break, which is
how we know that the property can be broken at all.

## 3. Runs

Passing:

| Run | Config | Shows |
|---|---|---|
| `delivery` | `Delivery.cfg` | `NoSilentLoss`: every number given out is waiting, declared, or below what the Relay answers for; `RelayAccounting`: the Relay's record is a partition into accepted and lost; `ImmutableBytes`: two requests with one sequence are equal, across crashes; `ImplementsLedger`; `DrainsUnlessStuck`: the queue drains, unless it declares lost what the Relay holds or holds a gap that ends before it begins |
| `machine` | `Machine.cfg` | `AcceptedInOrder`: nothing is performed twice, under any arrivals, kills, power losses and anchors; `SpentSurvives`: what was accepted is durably spent; `LockIsFreed` |
| `command` | `Command.cfg` | two requests at once: `LaunchIsRecorded`, `OneLaunchAtATime`, `EffectIsOwned`, `HistoryIsFinal` |
| `command_orphans` | `CommandOrphans.cfg` | two Auxiliaries, one of them orphaned: `AttestedIsSpent`; `LaunchIsBounded`: a request ends though the machine may never answer |
| `sessions` | `Sessions.cfg` | `OneHelperAlive`; `VerifiedIsProved`; `SignedWasConfirmed`: one signature per confirmed window, on the pair it showed, in time; `HelpersEnd`: again and again no helper is alive |
| `installation` | `Installation.cfg` | `NeverDialsItself`; `BudgetNeverShort`; `EarlierEffectsAreRecorded`: save for the step that went unanswered, what was changed is in the ledger; `ChangesNeedProof`; `VerifiedIsWhole`, both ways |
| `authority` | `Authority.cfg` | `AuthorityNeverLost`; `OneReader`; `SecuredIsExclusive`; `RunSecures` |
| `enrolment` | `Enrolment.cfg` | `StartedIsBounded`; `UndoneIsHonest` |
| `vault` | `Vault.cfg` | `VaultOpens`; `StoredSurvives` |
| `association` | `Association.cfg` | `RecoveryCodeWorks`; `ActivatedIsHeld` |
| `documents` | `Documents.cfg` | `SignedWasShown`; `NothingIsUnshown`; `EveryPlanCanBeShown`; `RefusalsAreTheContract`; `OneDefinitionPerDigest`; `PanelShowsTheDefinition`; `PastesReadBack` |

Violated, by what the code does against a sentence of the repository (quoted in
`PROJECT.json`, "findings"):

| Run | Sentence | What happens |
|---|---|---|
| `delivery_wedge` | after saturation, the queue resumes in order and returns to zero (`docs/lab/v0.0.2-observation.md`) | the Relay stored an observation, its acknowledgement was lost, the full queue then dropped that observation: the next envelope declares lost what the Relay holds, and the Relay refuses it and all that follow |

The machine itself never performs a position twice, whatever the Controller believes.

### Bounds

- `Delivery.cfg`: `MaxRecords` 2, `MaxSequence` 4, two readings of the clock, one late request.
  Eviction needs one more collection than `MaxRecords`; evicting an envelope that carries a gap
  needs two more; two readings are what a clock set back needs, and they make two contents of one
  sequence, which is what a collision needs. `DeliveryWedge.cfg` has three collections and one
  reading, enough for the acknowledged-but-evicted case it is about.
- `Machine.cfg`: two processes, two epochs of two sequences: replay, skipping, rotation and
  rollback of the anchor all happen. Positions are bounded by the envelopes themselves.
- `Command*.cfg`: `MaxTerminal` stands for 32 and is 1, so that the bound evicts a record
  during the run; two requests stand for the four a device may have; two approvals make one
  evictable and one current. The two questions need two instances: with one request there is
  no race to lose, and two requests, two Auxiliaries and fairness together are out of reach.
  `MaxClock` is 1: records of one second
  already meet in the sort. With `MaxClock` 2, seconds read in any order, `Command.cfg` also
  passes, over 6,436,229 states and in more time than a routine run has.
- `Sessions.cfg`: two sessions over four instants, in which the second may open before or after
  the first ended; a lifetime, a grace and an authority of one, one and two instants keep their
  order. Two pairs are what a replacement under an open window needs.
- `Installation.cfg`: both platforms, five beginnings of the target, eight resolutions, one change of the key
  file. `MaxAddresses` is 1 so that a resolution can exceed it.
- `Authority.cfg`: two machines, so that a cut can fall between them; one cut and one write in
  flight are what the disagreement between file and wire needs.
- `Enrolment.cfg`: two runs over every beginning, so that the second finds what the first left;
  the rule files hold settings with one word and with several, bound to the account and to another.
- `Vault.cfg`: three phrases and four names, for a change that fails and one that follows it.
- `Association.cfg`: three certificates and two codes, for a rotation of the device to meet one
  of the code, with one lapse, one revocation and two starts of each Controller.
- `Documents.cfg`: two digests and the widest and narrowest text of each kind, over all
  operations.
- `Run`, `Request` and the Controllers are symmetric in `command` and `association`; runs under
  fairness use no symmetry. `HistoryIsFinal` and `ActivatedIsHeld` are action properties whose
  formulas are symmetric.

Deadlock is checked in the runs of the two trajectories and in `vault` and `documents`. The
other runs say `CHECK_DEADLOCK FALSE`: a session, a replacement or an enrolment really ends, and
the bounded clock and the certificates run out.

### Fairness

- Observation chain: `Publisher.Run` retries for ever with a bounded delay and its client
  has a timeout, hence weak fairness of the failing ends and of what follows them. Strong
  fairness of `SendPeek`, `Receive`, `SendAcknowledge` and of a successful `DaemonOpens`
  says that neither the network, nor a disk, nor crashes defeat *every* attempt; systemd
  restarts the Daemon. Nothing is assumed of the Collector, which may go on evicting.
- Machine: weak fairness of the steps of each process. The lock is taken with `LOCK_NB`:
  nobody waits for it.
- Command path: weak fairness of the handler's own steps, the deadline among them. Nothing is
  assumed of the machine, the network or the human.
- Sessions: the clock runs, and the watchdog thread of a live process is scheduled. Nothing is
  assumed of the human, the WebView, the polling or the main thread of the helper. A process that
  hangs before it starts that thread is outside the model.
- Replacement: weak fairness of each step of a run and of each machine's reload of its keys,
  which is what a run that is not cut means; strong fairness of trying both identities on a
  machine, since no machine stays unreachable for ever; cuts and the release of the isolation are
  exceptions of the property itself. The steps of a run include those a human takes for it (a
  revocation, say): `RunSecures` is about a run somebody goes on with.

## 4. What the model showed beyond its runs

Places where the code does something else than a sentence of the repository says. Each was
reached by TLC with a property that states the sentence, or read off the code while writing the
module; only `delivery_wedge` is kept as a run.

- `docs/lab/v0.0.2-observation.md`, "lacune persistée puis reprise ordonnée": when the clock is set
  back between two records that a full queue then drops, the gap that stands for them ends before it
  begins. `Gap.Validate` refuses it, so the Daemon cannot encode the envelope that carries it nor,
  once restarted, read its own state: the queue is never sent again, although the Relay holds
  nothing of what it declares lost. This is `Backwards`, the second exception of
  `DrainsUnlessStuck`; without it TLC finds such a behaviour within the bounds of `Delivery.cfg`.
- `docs/objectifs/v1/CONTRAT-V0.0.3.md`, a phrase change publishes by an atomic replacement, "puis
  seulement retire l'ancien": when the metadata was renamed and cannot be read back,
  `confirm_phrase_change` takes the change for unpublished and removes the snapshot that the
  metadata names; the vault no longer opens once it is locked. This is `misread`, the exception of
  `VaultOpens` and `StoredSurvives`; without it TLC finds the case at depth 8.
- `elevation_rule.rs`, "`SETENV` is refused, and so is anything that preserves an environment.":
  `judge` keeps the last word of each segment of a `Defaults` line, so a setting spelled with spaces
  is judged by its value, and one bound to another account counts as one of this account. This is
  why `StartedIsBounded` speaks of settings of one word; asked of every setting that applies to the
  account, TLC finds a role started beside one that keeps a variable.
- `plan_approvals_http.go`, "One submission per signed bytes, durably.": a second request that
  passed `AlreadySpent` early is accepted once the first has concluded.
- `dispatch_registry.go`, `machine_refused`: "it changed nothing" and "the machine consumed
  nothing": a client killed by the deadline leaves exit code -1 and no output, which reads as
  a refusal while the Auxiliary goes on; and `Apply` may refuse after `Consume`.
- `dispatch_registry.go`, `not_launched`: "No effect exists anywhere.": a connection lost after
  the forced command started looks the same.
- `TRAJET-DE-COMMANDE.md`, one wasted approval, never two: the App always signs the attested
  position's successor, which a refusal does not change.
- `docs/objectifs/v1/CONTRAT-V0.0.3.md`, the two phases of a rotation are there so that a lost
  answer never locks the App out: a persisted rotation whose candidate (10 minutes) or receipt
  (24 hours) lapsed can be neither activated nor dropped (`active_association`).
- The same contract on pairing again, against `store_association`, which refuses a Controller
  it already holds.
- `lib.rs` of the Assistant, the ledger "est EXPORTÉ dans les deux cas": a sequence that goes
  unanswered ends unavailable, and `write_terminal` drops the ledger of such an event.
- `incident.rs` on a rebuilt host, against `authorize` in `replacement/plan.rs`, which refuses it.
- `vault.rs`, `confirm_initialization`: when only the sync after the rename failed, the snapshot
  that the metadata now names is removed. `VaultOpens` holds because the App has not yet said
  that the vault exists; the vault on disk stays unusable.
- `submit_plan_decision` says the session is closed whatever happens; a signature that fails
  returns before that.
- The expiry of a concluded bootstrap stops whatever helper is active, an approval window
  included (`clear_if_expired`).
- `read_plan_pair` never compares the served plan's definition with the revision that was asked
  for; the window shows the plan's own.

## 5. Proofs

Constants are assumed only what the named `ASSUME`s say, which TLC evaluates in the runs:
`BufferAssumption`, `MaxLateAssumption`, `MachineAssumption`, `RegistryAssumption`,
`CommandAssumption`, `TimeAssumption`, `SessionsAssumption`, `SessionAssumption`,
`TransferAssumption`, `VaultAssumption`, `AssociationAssumption` (naturals, non-empty sets, the
names a set may hold, a list without repetition, `NoRun` outside `Run`, `NoController` outside
`Controllers`); and `AddressAssumption`: only an IPv4 address is a broadcast one, and a host this
machine has is one address in whichever of its two forms it is written; `DraftsAreForms`: the form
holds its four lists as lists of texts, and the size of a document is a natural; `EnrolmentAssumption`:
a machine is the record of its parts, what is listed on it is a list, and the pinned key is a usable
one; and `NumeralsAreApart`: there are as many numerals as ports. Bounds are any naturals, so the theorems hold of behaviours of any length.

Each proof follows one pattern. An invariant of a run is seldom inductive; the strengthening that
is was checked with TLC first, then proved with one step per action; the invariant and the action
properties are read off it.

**DeliveryProofs.** `TypeCorrect` is proved first, with a lemma per operation of the queue.
`RelayIsHonest` (`RelayAccounting`) and `RelayOnlyAdvances` follow from `RelayInvariant`: memory
and file both account for `1..seq`, and the file extends the memory (a longer sequence, more gaps,
more acceptances), which is what makes a restart an advance although a commit failed after its
rename. `NothingLostSilently` and `GapCarrierUnique` follow from `QueueInvariant`: every queue the
machine can go on from is one consecutive run that ends before `next`, its gaps have one carrier,
everything before the run is declared or below the Relay's sequence, and a request being answered
is covered by the Relay before `Acknowledge` may remove it. It needs `RelayOnlyAdvances`, since
the Relay may have restarted since it answered. `WireInvariant` says that every envelope that left
the Daemon, or that the Relay holds, is remembered by every queue the Daemon can go on from: its
sequence is never given out again, and where it is still queued it is first, unchanged, with no gap
left to attach to it. The Daemon's file is the memory after one operation at most (`Follows`), and
the Relay's is one envelope ahead at most (`FileIsOneAhead`). `BytesAreImmutable`
(`ImmutableBytes`) is read off it, and `DeliveryImplementsLedger`: every step of the chain is a
step of `ObservationLedger` or a stutter.

**CommandProofs, the machine.** `MachineInvariant` is the conjunction of the types and of: the holder of
the lock is the one process between lock and consumption (`HolderHolds`); what a decided
process read is still the position (`DecisionIsFresh`); the synced copy is never ahead of
the visible one (`SyncedIsBehind`); `AcceptedInOrder`; `SpentSurvives`. `AcceptedInOrder`
alone is not inductive: `Consume` appends an envelope judged against a position read earlier,
so freshness is needed, and freshness is what the lock gives. `SpentSurvives` carries it
across a power loss. The theorems read off it are `MachineTypeCorrect`,
`NothingIsReplayed` and `AcceptedStaysSpent`.

**CommandProofs, the path.** `PathImplementsMachine`: the command path implements `MachineSpec`, that is,
whatever Controller and App do, the machine sees nothing but arrivals of envelopes. It
rests on `CarriesSigned`: every open request carries a signed approval, hence an envelope.
`PathNeverReplays` and `PathKeepsSpent` follow, for every number of requests, processes and
approvals. The rest is about the registry:

- Lemmas about its operators. `RankIsOnto`: ranks are an injection of the kept records into as
  many positions, hence onto, so bounding a registry loses terminal records only and invents none
  (`BoundKeeps`); from it, what accepting, concluding and requalifying keep.
- `RegistryInv`: memory and file both hold an open record of every launch under way, the memory is
  a valid registry, no two launches are under way for one approval, and the file `Follows` the
  memory. The last clause is why a restart after a commit that failed past its rename loses nothing. From it:
  `LaunchIsAlwaysRecorded`, `OneLaunchEver`, and the action property `HistoryIsAlwaysFinal`.
- `AttestedInv`: a process that consumed, and a report the Controller took in, each have their
  envelope in the machine's history; a request listens to the process that carries its own
  approval. From it `AttestedIsAlwaysSpent`.
- `OwnedInv`: six facts about each approval whose client was not cut and that was not dispatched
  twice: nothing acts for bytes the registry never accepted, nor before the client connects; one
  process at most acts, the one the request listens to; what it has not said it did, it did not do;
  a disowned approval is untouched and stays so. From it `EffectIsAlwaysOwned`.

**AppProofs, the vault.** `VaultInv`: the types, which names a command acts on (`ActsOnNames`), and,
unless a phrase change misread its publication, `VaultSound`: every directory of `past` is `Good` (it
holds snapshots under copied phrases only, under names drawn already, and opens on what the App
answered for); the unlocked vault is the one on disk; and where a command stands between two writes (`Initializing`, `Named`,
`Publishing`, `Retiring`). That `past = {dir}` while a phrase change publishes is the point: the
snapshot it may then retire is named by no directory that can come back. From it `VaultIsTyped`,
`VaultAlwaysOpens`, `StoredAlwaysSurvives` and `MemoryIsAlwaysDisk`, which no run lists, all three
under that exception: between two commands the App shows the document it would read back, though a commit failed half way.

**AppProofs, the plans.** `PlanInv`: what is held is the pair its own documents present, the session's
consent is about the pair held, an open session's window is its own, and a confirmed session or
window answer is in `agreed`. Replacing the pair drops session and window, which is what keeps
it. From it `SignedIsAlwaysShown`. `NothingIsEverUnshown` rests on `VerifiedInv` (whatever a window
shows is a pair that verified, of this infrastructure) and on three lemmas about documents: lines
that read the same are of plans that agree field by field (`PlanReads`: the opening lines give
machine and operation, an operation is of one schema and group, and each of the twelve groups has a
lemma that reads its fields off its lines); plans that agree are undone by documents that agree
(`SameInverse`); and documents that agree have one digest (`SameDigest`). An image reference is read
as the text it is written as, which is also what the transcript takes, so no theory of texts is
needed; ports are numerals, hence `NumeralsAreApart`.

**AppProofs, the definitions.** `RefusalsAreAlwaysTheContract`: group by group, the faults named are
empty exactly when the contract holds (`HeadMeansTheContract`, `MountsMeanTheContract`,
`EnvironmentMeansTheContract`), and the size is blamed only for a size. The two readings are written
differently, one stopping at the first fault and ordering pairs, the other naming them all.

**EnrolmentProofs.** `EnrolmentInv` adds four things to the types. `Judgements`: a run that goes on
past a step holds, on the machine as it is now, the judgement that step ended with, because no later
step writes what was judged. `NothingEarly`: no role was started before the new path was verified.
`LedgerTells`: what is there now and was not found is listed, as created or unknown, what is listed
as created was absent, and nothing found was removed. And `UndoneIsHonest` itself, since an undone
run is what `Unwind` left of that ledger. Lemmas say what each judgement's "ok" implies (`AccountOk`,
`CustodyOk`, `RuleOk`, ...), through the first refusal of a list, and what `Unwind` leaves
(`LeavesSomething`), by induction on the length of the ledger. What is proved of the environment of
an elevation is what `judge` can tell: no setting of one word preserves
it (`ElevatesOnlyApprove`). From it `StartedIsAlwaysBounded` and
`UndoneIsAlwaysHonest`, for any machine a run may find.

**AuthorityProofs.** `TransferInv` is the types, `Keys` and `Order`. On a machine the new identity
is never removed and the old one never comes back, so what a run read of a key file stays true
however late it is used; a withdrawal in flight finds the new identity in place
(`LateWithdrawal`); what a run has seen as "new only" is (`NewOnlyIsNewOnly`); and the position in
the plan tells what was closed or swept. From it `TransferIsTyped`, `AuthorityIsNeverLost`,
`OneReaderAlways`, `SecuredIsAlwaysExclusive`, for any number of machines, cuts and late writes.

**SessionProofs.** `SessionInv`: what each process's own history says (`Honest`), the supervisor's
order (`Supervised`: a process that is up is the active one, the one being reaped, or one whose end
was given up, after which nothing starts), and what the bootstrap session and the consent session
may still conclude from (`BootIsHonest`, `ConsentIsHonest`: a confirmed consent is of a process that
exited, on the pair held, in time, with no signature yet). From it `SessionsAreTyped`,
`OneHelperAlways`, `VerifiedIsAlwaysProved`, `SignedWasAlwaysConfirmed`.

**InstallProofs.** Two invariants. `AccessInv` is about access: nothing dialled is this machine,
the target is untouched until its phase comes, a change has its proof, and the channels spent leave
enough for what the plan still has to do (the plan's operations are numbered 0 to 17). From it
`NeverDialsItselfEver`, `BudgetAlwaysSuffices`, `ChangesAlwaysNeedProof`. `SequenceInv` is about the
sequence: three tables derived from the plan say at which operation an item is written, noted and
established; what is not yet written is as it was found, what is noted is in the ledger or awaited
by a step under way, what is established is right. From it `EarlierEffectsAlwaysRecorded` and
`VerifiedIsAlwaysWhole`. The ledger is put together by recursive functions; what they compute is
proved by induction on sets of numbers (`SetInduction`, from the well-foundedness of the naturals).

**AssociationProofs.** `RecoveryCodeWorks` is not inductive: a candidate carries a recovery key of
its own, which becomes the Controller's when it is activated, and the human destroys every code
but the new one when a rotation is called complete. `AssociationInv` says which candidates matter:
those whose certificate the App still holds, in the vault or in the command under way (`Reaches`).
Their key and the active one are under a code that is kept, and under the new code wherever the
rotation will not come back to (`Kept`). Three facts make it inductive: a receipt the App may ask
for again tells the Controller's present key (`ReceiptsAreTrue`), a candidate was never active
and has no receipt (`Sound`), and a command is where its record says (`CommandStands`), so that a key
is never rotated under a candidate the App can still activate. From it `AssociationIsTyped`,
`RecoveryCodeAlwaysWorks` and the action property `ActivatedIsAlwaysHeld`.

Only model-checked:

- everything under fairness: `DrainsUnlessStuck`, `LockIsFreed`, `LaunchIsBounded`,
  `HelpersEnd`, `RunSecures` (liveness and `ENABLED` are out of the prover's reach);
- `OneDefinitionPerDigest` and `PanelShowsTheDefinition`: that two lists of texts, each after its
  length, are told apart by what they are put together into is an induction over the lists and over
  the characters of a text, and a text is a value without structure to the provers;
- `EveryPlanCanBeShown`: it adds up the widths of texts, character by character, and the digits of
  a port;
- `PastesReadBack`: it cuts texts at their marks.

## 6. Not modelled

- Cryptography, TLS policy and strict decoding: functions of one input, without state. Where they
  refuse, the modules have a refusal that may always happen.
- Rendering, Diagnose, packaging, LAB, release tools.
- `podman`, systemd, sshd and sudo themselves: choices over what they may answer.
- On Windows, the job object that ends a helper with the App, the approval window's own toolkit calls
  and the hardening of the process: platform calls that give what the modules take from Linux.
- Splitting a pasted command line into tokens and a compose text into lines.
- Several machines in one Relay file or one registry; the bound of the registry is shared
  by machines, which can only make a terminal record leave earlier.
- The Auxiliary's operations, the Relay's reader side and the Controller's cache, the Controller's
  inventories: see the plan.

## 7. Plan

In order of what would hurt most if it were wrong:

1. **AuxiliaryOperations**: deploy, remove and approved rollback over an executor that may
   fail at every call, refining `Touch ... Report` of `MachineApproval`. Properties: a
   report of *applied* or *rolled back* matches the machine; *partial* is said whenever it is
   true; an image left behind by an early return; a second run over a half-finished one.
2. **ReaderSide**: the Relay's snapshot service, enrolment reload during ingestion, the
   Controller's single-flight cache and its transition rule, composed with `RelayStore`.
   Property: a projection never goes back.
3. **Sessions of the Controller**: challenge, expiry, logout and their race against open requests.
4. **GapList**: `addGap` and the merge as operators on sequences of intervals, checked
   against the sets that `DaemonBuffer` uses.

Hazards that wait for these modules: a power loss of the Relay's machine after a rename it had not
synced (`observation_store.go`); a snapshot past its bound of gaps (`snapshot_http.go`); the state lock held
while a body is read (`observation_http.go`); a reload that fails half way (`relay.go`); the
eight-bit failure counter (`reader.go`); one known_hosts path shared by concurrent launches
(`command_launch.go`); the highest reported sequence, which ignores the epoch
(`dispatch_registry.go`); the rollback of a deployment cut between pull and unit (`apply.go`); a
stale token that ends a live session (`session.go`).
