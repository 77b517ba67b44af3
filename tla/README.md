# Jyth in TLA+

Jyth builds kernels and root file systems, launches Linux virtual machines on
Windows HCS, runs commands in them over one-shot authenticated connections, and
cleans up after itself, also after a crash. This directory models the parts of
it that keep state, run concurrently, survive crashes or compute something that
is easy to get wrong. All paths below are under `src/libs/`.

## 1. The system and its parts

| Part | State it keeps | Who it meets | What is hard |
|---|---|---|---|
| hypervisor-hcs, a VM (`vm.rs`, `hns.rs`, `cs/`) | compute system, HNS network, VHDX files, one journal record | the journal, other VMs on a disk path, the user's files | a crash between any effect and its commit, removals that fail or lie, bounded retries, identity-checked deletion |
| hypervisor-hcs, sessions (`journal.rs`) | one redb file per process, its lock, records, abandoned inventory | other processes in the same state root | the lock as a lease, snapshots of a changing directory, a half-made database |
| scheduler | states of the actions, cap semaphore, `Notify` | actions and triggers that may never end | abort against publication, lost wakeups |
| guest-client, dispatcher (`transport.rs`, `client.rs`) | channel, queue, two permit lanes, running tasks | every caller, the guest | limits, deadlines at every stage, answers after the caller gave up |
| guest-client, processes (`process.rs`, `direct.rs`, `cleanup.rs`) | the handle of a run, its output drains and capture buffers, the registry of cleanups | dispatcher, VM shutdown, the guest's relays | retries of what was done, bytes cut anywhere, first error wins, cleanups racing shutdown |
| init (PID 1 of the guest) | boot stages, network, mounts, admission permits, process table | the host over COM1 and TCP | hangs instead of failures, handlers that outlive their connection |
| jyth-runtime and the jyth facade | launch pipeline, READY, lifecycle, live VM | backend, guest, the user who may drop any future | rollback of every step, retries on the same disks, who is told what |
| protocol, com | frames, challenge and answer | both ends | damaged frames, an address that moves to another machine |
| image-core, kernel, rootfs, boot-image | index and files of one cache, build locks, derived boot cache | several tasks in several processes, registries | publication by rename, records that outlive their file, cancelled blocking work, whiteouts and hard links |

## 2. Modules

| Module | Models | Correspondence |
|---|---|---|
| `HcsVm` | a VM's resources, record and recovery | `compute`, `network`, `file`, `ace` are the host; `rec`, `inventory`, `db` the committed journal; `pc`, `cur`, `why`, `res` the place in `from_conf` or in a pass; `unjournaled` the guard's list. One action per fallible step and per commit. |
| `HcsSessions` | the state root shared by processes | `file` is how far a database was made, `lock` the redb lock, `todo` the snapshot of `session_paths`, `path` the session in hand. |
| `Scheduler` | `scheduler/src/lib.rs` | `pc` is where a job's task is suspended, `coord` the coordinator, `notified` a tokio `Notified`. |
| `GuestBus` | the guest's dispatcher and process manager | `conn` is a connection and its handler; `process`, `table`, `stop` the process manager; `woken` its `Notify`. `Completion::wait` is three steps (enable, look, await) and `record` two (store, notify and unlock), as the code's locks allow them to interleave. |
| `Dispatcher` (extends `GuestBus`) | the host's end of the commands | `sending`, `channel`, `pending`, `running`, `holding` are where a request is; `receiver` and `reply` its oneshot. |
| `GuestCommands` (extends `Dispatcher`) | runs, cleanups and the VM's shutdown | `runner` is the await point of a run, that of `finish_output_drains` included; `vm` that of `LiveVm::shutdown`. |
| `GuestBoot` | PID 1 from its first mount to serving commands | `guest` is the step of `run_init`, `nic` and `mounted` what it has set up, `toHost` and `toGuest` COM1. |
| `VmLaunch` (extends `GuestBoot`) | launch, bootstrap, rollback, live VM, observer | `pc` is the await point of the builder's future, `observer` the lifecycle watch, `fs` and `owned` the disks, `staging` and `output` the bootstrap's files. |
| `Wire` | frames of the boot exchange and the handshake | one operator per validator, encoder and decoder. |
| `LaunchPlan` (extends `Wire`) | checks of a builder, translation to a boot configuration | one operator per check. |
| `GuestSession` (extends `LaunchPlan`) | COM1 exchange, connection, challenge, one command | `call` is the command in flight, `peer` the machine that answers at the address. |
| `Capture` | `CaptureOptions`, `CaptureAccumulator` | `push` and what it calls, and beside it what the documentation promises of the whole output (`Kept`, `Boundary`). |
| `ProcessIo` (extends both) | one run with output drains, relays, timeout, cancel, observer | `pc` is the await point of `run_direct_process`; `pipe`, `link`, `capture` are where the bytes of a stream are. The connection of a guest that is gone is broken or silent. |
| `Archive` | TAR to CPIO, whiteouts, hard links, overlay | operators; `IsOverlay` and `KeepsBytes` are the reference. |
| `ImageStore` (extends `Archive`) | index, files, staged publication, disturbances | `index`, `file` and `blueprints` are the cache; `bd` the tasks; `stray` what an abandoned blocking operation may still publish. |
| `Registry`, `IndexCodec`, `Materialize` | references, manifests, tokens; the blueprint codec; from a source to a CPIO | one operator per parser and check, one action per step of a task. |
| `KernelSpec`, `KernelService` | specifications and digests of kernels; their materialization and the build lock | `inproc` and `xproc` are the two halves of the lock. |
| `KernelCache` | abstract: what the custom-kernel cache promises | what `Images` refines: one user compiles at a time, an answer is the kernel cached at that moment or the user's own. |
| `BootImage`, `Images` | root file system and boot cache; the composition | `derived` is the boot cache. |
| `SeqOps` | operators on sequences for the image pipeline | no code. |
| `MC*` | instances for TLC | values, scenarios and symmetry sets only |
| `*Proofs` | theorems | section 5 |

Abstractions. Identifiers, JSON, SIDs and file contents are model values or short
sequences that say how they came about; a file in `HcsVm` is an identity, as in the
code's `FileIdentity`. Every call to Windows can succeed, fail without effect or,
where HCS and HNS allow it, fail after its effect. Time is a choice: a deadline may
pass whenever the code has armed it. Steps between two await points, or
between two effects visible to others, are one action. A crash loses everything but
files, HCS and HNS objects and committed journal transactions. A message
authentication code is the sequence of its inputs. Of the finished tasks of the
dispatcher's `JoinSet` only those that end while a request is queued are kept
(`joinable`): joining any other starts nothing.

Interfaces. `HcsVm` assumes that a record has one actor at a time; `HcsSessions` checks
and proves it (`RecoversAlone`). Removing a network joins the errors of endpoint and
network into one text, in which `resource_is_absent` looks for a not-found code; `HcsVm`
assumes that no such code comes from closing a handle or listing names, so that a failed
removal is not called done. `VmLaunch` has the backend's cleanup as one step
(`Teardown`) that may leave disks behind; `HcsVm` has it step by step. `Dispatcher` has
queues and permits but opaque commands; `GuestSession` and `ProcessIo` have one command
at a time with its frames and bytes.

## 3. Runs

| Run | Expected | States | Question |
|---|---|---|---|
| `hcs_vm_recovery` | pass | 434,260 | One VM through failures of its steps and one crash, no launch future dropped during HCS create: nothing leaks without a trace, only own disks are deleted, a dropped record leaves no disk, recovery ends. |
| `hcs_vm_dropped` | violation | | The same with such a drop: the compute system appears after the rollback and no record names it. |
| `hcs_sessions` | pass | | Exclusive recovery, honest collection, collection in the end. |
| `hcs_sessions_concurrent` | violation | | Concurrent opens are documented; one may fail on a file the other collected. |
| `scheduler` | pass | | Cap, final outcomes, end after cancel, no lost wakeup. |
| `guest_commands` | pass | 225,820 | A run and a VM shutdown with a mishap anywhere, a mute guest included. |
| `guest_lanes` | pass | 354,324 | Two runs and two file commands for one permit in each lane: neither lane is exceeded. |
| `vm_launch` | pass | 94,061 | Two launches or bootstraps after one another on the same disks. |
| `images` | pass | 111,785 | Up to three builders in two processes over one cache, every kind of source and registry; custom builds refine `KernelCache`. |
| `images_hardlinks` | violation | | A hidden name takes the body of its hard-link group with it. |
| `process_io` | pass | 152,507 | From the plan to the captured output, with damaged frames, broken connections and a moved address. |
| `process_wait` | violation | | A wait documented as unlimited ends after the reply deadline. |

Further configurations are kept beside these and can be run with
`tlc -config X.cfg M`; they repeat a question on other constants or show a
disagreement noted in section 4: `MCHcsVm_sharing` (two VMs on one path,
passes), `MCHcsVm_reclaimed`, `MCHcsVm_retained`, `MCScheduler_capped`,
`MCGuestCommands_starve` and `MCImages_pinned` (violations).

Bounds, and why they are enough.

* `hcs_vm_recovery`: one VM, one disk and one NIC make every kind of resource
  present; `MAX_CLEANUP_ATTEMPTS` is the real 3, so passes by rollback, close, drop
  and recovery all occur before abandonment; two file identities allow one
  replacement; one crash or failed commit can fall at any step, and ordinary removal
  failures are not bounded.
* `hcs_sessions`: two processes and four files let a walk meet a live, a dead, a
  damaged and a vanished session; one crash falls anywhere, orderly ends are free.
* `scheduler`: two tasks and a cap of one are the least in which the cap matters; one
  task has a deadline, grace is on or off, two observers come at any time.
* `guest_commands`: one process, one permit per lane, one channel slot, one mishap
  (timeout, error, refusal, guest that dies or hangs, dropped future). A guest that has
  fallen mute is up and takes no further step; then every deadline may pass. With fewer
  than three guest connections, handlers of abandoned requests may refuse the cleanup
  and `ProcessesReclaimed` fails: a condition of that property.
* `guest_lanes`: two processes and two file commands are the least with which both lanes
  of one permit are full at once and a request of each is queued behind them. It has no
  mishaps and ends where the VM begins to shut down (`WhileLive`); the theorem
  `LanesHold` has neither bound.
* `vm_launch`: a second launch meets the disks the first left; two mishaps let a
  step fail and its cleanup fail too; four machines differ in what their kernel has
  built in.
* `images`: `MCScenarios` lists the combinations of jobs. Where several builders race
  one mishap may happen, where one works alone two may, so that a second build meets
  the remains of the first.
* `process_io`: the frame limit is just above a plan's frame, so that both sides of it
  occur; pipes hold one byte and connections two, so that both fill; outputs
  are cut into every sequence of chunks.

Fairness. Tokio and smol poll what is ready and their timers fire, hence weak
fairness of the steps of jobs, coordinator, dispatcher, handlers, cleanup passes,
launch and builders. Nothing is assumed of actions, triggers or processes, which may
never end, nor of a guest that has fallen mute. Nothing makes an output end either:
`finish_output_drains` reads without a deadline, so `ShutdownCompletes` lets a run that
the scheduler does not own stay in its drains, and `RunEnds` one whose connection has
fallen silent (`Unheard`). Both say that nothing else is left waiting. A builder that waits for a lock need not move. `RecoveryTerminates` and
`DeadSessionsCollected` assume that sessions keep being opened: the code recovers on
open only. In `GuestCommands`, `VmLaunch` and `ProcessIo` no state repeats, so that
weak fairness of the disjunction of the steps that must go on is as strong as one
condition for each.

Two windows are constants of `HcsVm` because the properties do not survive them.
`UserRaces` lets the user replace a file between an identity check and the deletion: with
it TLC finds `DeletesOnlyOwnDisks` violated. (Outside that window the user replaces
files in every run.) `DropsInFlight` lets the launch future be dropped while the
blocking HCS create runs, after which the rollback may finish before the system
appears: `NoSilentLeak` fails, which the run `hcs_vm_dropped` shows. It is FALSE in
every other run, and what they and the theorems say of leaks, of collected
sessions, of the inventory and of dropped records holds for launches that are not
dropped there.

## 4. Where the code and its documentation disagree

The four violation runs are described in PROJECT.json under `findings`. The
configurations without a run show:

* `MCHcsVm_reclaimed`: the guard's comment says that the window between creating a
  disk and committing its identity is covered; half of it is not;
* `MCHcsVm_retained`: an existing disk is documented as retained; the VM that created
  it may still delete it;
* `MCScheduler_capped`: the cap is documented for running actions; it also counts those
  that wait for a trigger;
* `MCImages_pinned`: a tag that moves between two requests leaves the new manifest's
  layers under the old digest, although the resolver's comment says that the source
  identity never depends on a mutable tag;
* `MCGuestCommands_starve`: waits fill the guest's admission, which the separate lane
  was to prevent.

Seen while modelling, without a configuration:

* a start whose reply is lost leaves a guest process without a handle;
* the guest handler of an abandoned wait holds its permit until the process exits;
* the dispatcher does not stop when "every pending request expires"
  (`guest-client/src/transport.rs:146`);
* a file left by a crash inside `create_current` fails every later `Session::open`;
* `scsi_device_name(27)` (`init/src/ops/disks.rs:84`) is `/dev/sdba`; its test expects
  `/dev/sdab`;
* `finish_output_drains` is not bounded in time: a daemon that keeps a pipe open, or a
  guest that is gone without a word, keeps the run, also after the VM was shut down;
* `encoded_len` of a boot configuration is one less than the frame when it has a
  bootstrap command;
* `PortBind` closes its connection without a reply;
* external kernels and layers are built without a lock, so that an abandoned blocking
  load may publish after a later build; `open_shared` gives up after ten attempts;
* a kernel that is asked for a second time may come without its modules: they are only
  extracted when the root file system is still cached;
* an error of the build disk's `finish` leaves the staged kernel, and a dropped
  bootstrap future its `.part` file;
* a raw HTTP source is keyed by its URL and size, not its bytes;
* `BearerChallenge::parse` rejects a scope with a comma;
* a Kconfig fragment that differs from the default never reaches the build.

## 5. What is proved

All theorems hold for every value of the constants: any sets of VMs, disks, processes,
sessions, tasks, requests, plans, runs, outputs and machines, any capacities and any
number of mishaps, under the named assumptions of the modules (those about the cap
and the lanes use that permits are natural numbers). Each safety theorem
rests on an inductive invariant, which TLC was made to check before it was proved.

* `HcsVmProofs`: `TypeCorrect`; and, assuming `~DropsInFlight`, `NoLeak`,
  `CollectionSafe` and `InventoryHonest`. `NoSilentLeak` is not inductive: a step that
  marks a resource Removed keeps it only if the resource is gone at that stage, and a
  step that drops the record only if the record is complete. `LeakInv` adds, per stage
  (`StageInv`), what the launch or the pass has established, and (`HonestInv`) that a
  state in the record is true of the host and that abandoned resources are listed.
* `HcsVmProofs`, disks, assuming `~UserRaces`: `OwnDisksOnly` and `PersistentDisksKept` from
  `DiskInv`: identities are never handed out twice (`FreshInv`), whatever the record or
  the guard calls created by a launch was created by it, and a file about to be
  deleted is the recorded one (`OwnInv`), and a published record keeps what the request
  asked to keep (`KeepInv`). With `~DropsInFlight` as well, `DroppedDisksGone`: the
  journal drops a record only when each of its deletable disks is gone from its path or
  is in the inventory. `RemovalInv` adds that a disk called removed, or passed by the
  pass in progress, is cleared (`ClearInv`, `Settled`), which stays true because
  identities are fresh.
* `HcsSessionsProofs`: `RecoveryIsExclusive` and `CollectionHonest` from `LeaseInv`: who
  creates or recovers holds the lock; a new id is in nobody's walk; a file about to be
  removed, after its lock was given up, still holds nothing.
* `SchedulerProofs`: `FinishedIsFinal`, `CapHolds` and `OutcomesAreKept`: the coordinator is
  past its loop only when all jobs are joined, a job with an outcome published
  has nothing left to publish, and permit holders do not exceed the cap.
* `GuestCommandsProofs`: `TypesAreKept`, `NothingIsLost`, `WakeupsArrive`, `LanesHold`,
  `CleanupsComeFirst`, `FinishedIsOver`, from `PlaceInv` (where an unanswered request is),
  `PermitInv` (who holds a permit), `OrderInv` (the registry of cleanups is closed before
  the guest is asked to stop), `SleepInv` (only a wait or a stop sleeps, and none is forgotten) and
  `GoneInv`. The last is the hard one: a run
  learns that its process exited and is forgotten from two answers, and both stay true
  only because the start of a process is in one place at a time and executed once.
* `VmLaunchProofs`: `ReadyIsTrue`, `NoBlankDisks`, `ObserverIsRight`, `OutputIsWhole` and
  `DataIsKept`, from `LaunchInv` in six parts: which mode reaches which stage, what the
  observer was told there, the bootstrap's files, what the guest has established, that a
  READY on its way is true, and who made a disk and what it may hold.
* `ProcessIoProofs`: `ServedByItsGuest`, from `SessionInv`: a connection past its
  authentication is one whose answer was computed with the peer's own capability
  and identity. It also holds the lemmas on where a run stands (`OpInv`, `PastInv`), what
  it was told (`FateInv`, `ToldInv`), its drains (`DrainInv`) and its pipes (`BindInv`).
* `CaptureProofs`: `CapturesTheWhole` and `FailsOnlyOverTheLimit`, about the accumulator
  alone: for every output, every options and every cutting into chunks it holds what is
  promised of the whole output. Then `CapturedWhenFinished`, from `RunInv`: the parts
  above and, for each stream, `FlowInv`: the bytes given to the accumulator, those on
  the connection and those in the pipe are, in this order, what the process wrote.
* `ImagesProofs`, for any builders, processes, scenarios and mishaps: `CacheInvariant`;
  `CustomBuildsAreSingleFlight`, the refinement of `KernelCache` by the custom builds of
  one request (`CustomBuildsImplementCache`, the property TLC checks as well); and
  `CustomAnswers`: a custom job of that request that succeeds has a kernel compiled from
  its own specification by its own compiler, the part of `AnswersRight` about custom
  kernels. The request is any one the constants name (`Requested`, `Compiler`); jobs for
  other requests run beside it. The mapping reads the cached kernel off the index and the
  file (`InCache`), and the compiling user and what it made off the places of the tasks
  (`TheCompiler`, `Made`). Three
  things make `CacheInv` more than the lock. A custom kernel is published in three steps
  (rename, check, record), so a task past the second look at the cache must hold the
  lock file until it ends (`Holds`, `Making`), and no step of another kind of job may
  write in the request's slot (`External`, `Elsewhere`). A cancelled task leaves a
  blocking publication behind that may put an older kernel over a newer one: the result
  is a miss and never a wrong hit only because the record never names a kernel whose
  publication was abandoned (`Unrecorded`, `Strays`), which needs that no task compiles
  the same kernel twice. And every record is of a kernel compiled for the digest
  (`Recorded`, `Asked`), so that a hit is as good as the task's own compilation.

Only model-checked:

* every liveness property and the fairness behind it, which are out of the prover's
  reach, as is ENABLED;
* `ConfigArrivesIntact` and `RefusedForAReason`: the codec is a fold over the fields of a
  frame, and what a fold computes for every input needs an induction over data. The
  first is moreover not a theorem for every number of mishaps: with an ideal MAC
  that is the sequence of its inputs, two damages of one frame may cancel out;
* the rest of the image pipeline: `AnswersRight` for the other kernels and for root file
  systems, and `LoneBuildRight`, speak of what parsers, digests and folds over layers
  compute, and `RootfsIsOverlay` compares two such computations.

## 6. Not modelled

HCS and HNS documents and calls, ACL construction, redb itself (an exclusive lock and
atomic commits), the byte layout of CPIO headers, HTTP below its answers, the codecs of
the index tables other than blueprints and the migration of an old index, building
`init` with cargo, interactive stdin (`ProcessBind`) and `PortBind`, a process handle
dropped outside a Tokio runtime (its cleanup is a `try_send` that a full channel loses),
the serde envelopes of commands, the blocking variants of com, trigger combinators of the facade, listing,
consent and service restart of hcs-admin, the KVM stub, logging, end-to-end tests.
PROJECT.json lists every component with what is left out of it, and the
hazards that no property covers with the reason.
