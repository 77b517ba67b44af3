------------------------------- MODULE VmLaunch -------------------------------
(***************************************************************************)
(* The host half of a launch, composed with the booting guest (GuestBoot): *)
(* VmBuilder::launch and launch_com1_bootstrap (libs/jyth), the runtime's  *)
(* Launcher, LiveVm and observer (libs/jyth-runtime) and the HCS adapters  *)
(* between them.                                                           *)
(*                                                                         *)
(* A failing step returns through every `?` up to the builder: the         *)
(* instance is dropped on the way, which runs the backend's synchronous    *)
(* cleanup (HcsVm models that pass step by step; here it is Teardown, and  *)
(* a disk it could not delete is a leftover), and the observer is told.    *)
(* A user may drop any future they are awaiting.  Timeouts are always      *)
(* possible while a step waits for the guest.                              *)
(***************************************************************************)
EXTENDS GuestBoot

CONSTANTS
    Requests,      \* what a builder asks for: [mode, net, policy, retention, scheduled]
    MaxAttempts,   \* RetryPolicy::max_attempts (6 in the code)
    MaxLaunches    \* bound: builders launched one after the other on the same disks

ASSUME VmLaunchAssumption ==
    /\ MaxAttempts \in Nat \ {0} /\ MaxLaunches \in Nat \ {0}
    /\ \A r \in Requests :
          /\ r.mode \in {"hcs", "hcs-bootstrap"} /\ r.net \in BOOLEAN /\ r.scheduled \in BOOLEAN
          /\ r.policy \in [Disk -> {"Error", "Reuse"}]
          /\ r.retention \in [Disk -> {"Ephemeral", "Persistent"}]

VARIABLES
    pc,            \* where the launch, or the live VM, is
    request,       \* the member of Requests being launched
    launches,      \* builders made so far
    attempt,       \* create_and_start's attempt
    owned,         \* disks the current instance created
    published,     \* mark_published succeeded
    sent,          \* the BootConfigV1 the host built
    failed,        \* an earlier part of this ending failed
    outcome,       \* what the builder's future returned
    observer,      \* the VmState the watch channel holds
    scheduled,     \* the shutdown_on action: "none" | "armed" | "done"
    staging,       \* the bootstrap's .part file: a sequence of chunks, or None
    output,        \* the bootstrap's output file, or None while it is the old one
    leftover       \* disks a cleanup pass could not delete

None == <<ArtifactLen + 1>>   \* no sequence of received chunks
lvars == <<request, launches, attempt, sent>>
files == <<staging, output>>
vars == <<boot, gvars, com1, fs, mishaps, pc, lvars, owned, published, failed, outcome,
          observer, scheduled, files, leftover>>

Preparing == {"validate", "artifacts", "create", "start", "backoff", "config"}
Waiting == {"connect", "marker", "write", "ready"}
Launching == Preparing \cup Waiting \cup {"probe", "publish"}
Transferring == {"result", "staging", "transfer", "sync"}

VmState == {"Pending", "Launching", "Running", "Shutdown", "Dropped",
            "FailedLaunch", "FailedShutdown"}
is_terminal(state) == state \in {"Shutdown", "Dropped", "FailedLaunch", "FailedShutdown"}

\* VmObserver::started and finished: what a waiter gets; the channel closes with the last
\* owner of the lifecycle.
Resolves(done) == IF observer \in done THEN "ok"
                  ELSE IF is_terminal(observer) \/ pc = "ended" THEN "err" ELSE "waits"
started == Resolves({"Running", "Shutdown", "Dropped"})
finished == Resolves({"Shutdown", "Dropped"})

\* Mutant: the latest state wins, also over a terminal one.
set_latest(next) == observer' = next

\* VmLifecycle::set: a terminal state is never replaced.
set(next) == observer' = IF is_terminal(observer) THEN observer ELSE next

Init ==
    /\ request \in Requests /\ mode = request.mode /\ machine \in Machines
    /\ fs \in [Disk -> {"absent", "user"}]
    /\ guest = "off" /\ config = NoConfig /\ drivers = {} /\ mounted = {}
    /\ nic = [up |-> FALSE, addrs |-> {}, gateway |-> "none"]
    /\ listening = FALSE /\ streamed = 0 /\ toGuest = <<>> /\ toHost = <<>> /\ mishaps = 0
    /\ pc = "built" /\ launches = 1 /\ attempt = 1 /\ owned = {} /\ published = FALSE
    /\ sent = NoConfig /\ failed = FALSE /\ outcome = "none" /\ observer = "Pending"
    /\ scheduled = "none" /\ staging = None /\ output = None /\ leftover = {}

\* The user makes another builder on the same disks.  Its staging file has a name of its own
\* (the VM's uuid): one that a dropped future left behind is not met again.
NextBuilder ==
    /\ pc = "ended" /\ launches < MaxLaunches
    /\ pc' = "built" /\ launches' = launches + 1 /\ attempt' = 1
    /\ observer' = "Pending" /\ outcome' = "none" /\ scheduled' = "none"
    /\ published' = FALSE /\ failed' = FALSE /\ sent' = NoConfig /\ staging' = None
    /\ UNCHANGED <<boot, gvars, com1, fs, mishaps, request, owned, output, leftover>>

(***************************************************************************)
(* Endings.  Dropping or closing an instance powers the VM off and removes *)
(* the disks it created, unless they are published and persistent.         *)
(***************************************************************************)
\* Mutant: a persistent disk is kept although no VM was ever published on it.
Deletable_ephemeral_only(d) == d \in owned /\ request.retention[d] = "Ephemeral"

Deletable(d) == d \in owned /\ (request.retention[d] = "Ephemeral" \/ ~published)

Teardown ==
    /\ \E left \in SUBSET {d \in Disk : Deletable(d)} :
          /\ IF left = {} THEN UNCHANGED mishaps ELSE Mishap
          /\ fs' = [d \in Disk |-> IF Deletable(d) /\ d \notin left THEN "absent" ELSE fs[d]]
          /\ leftover' = leftover \cup left
    /\ owned' = {} /\ PowerOff

\* VmBuilder::launch's error arm and LaunchObserverGuard's drop.
Ended(result, state) == /\ pc' = "ended" /\ outcome' = result /\ set(state)
                        /\ scheduled' = IF scheduled = "armed" THEN "done" ELSE scheduled

\* A launch step fails: the instance, if there is one, is dropped on the way out.
Abort == Teardown /\ Ended("err", "FailedLaunch") /\ UNCHANGED <<boot, lvars, published, failed, files>>
AbortBefore == /\ Ended("err", "FailedLaunch")
               /\ UNCHANGED <<boot, gvars, com1, fs, mishaps, lvars, owned, published, failed, files,
                              leftover>>

Calm == UNCHANGED <<outcome, observer, scheduled, leftover>>
Go(next) == pc' = next /\ Calm

(***************************************************************************)
(* The builder.                                                            *)
(***************************************************************************)
launch ==
    /\ pc = "built" /\ pc' = "validate" /\ set("Launching")
    /\ UNCHANGED <<boot, gvars, com1, fs, mishaps, lvars, owned, published, failed, outcome,
                   scheduled, files, leftover>>

DropBuilder ==
    /\ pc = "built" /\ pc' = "ended" /\ set("FailedLaunch")
    /\ UNCHANGED <<boot, gvars, com1, fs, mishaps, lvars, owned, published, failed, outcome,
                   scheduled, files, leftover>>

\* Dropping the launch future: only the guard is left to tell the observer.
CancelLaunch ==
    /\ pc \in Launching \cup Transferring \/ (pc = "closing" /\ mode = "hcs-bootstrap")
    /\ Teardown /\ Ended("cancelled", "FailedLaunch")
    /\ UNCHANGED <<boot, lvars, published, failed, files>>

\* A normal launch requires a network; a bootstrap does not.
launch_inner == request.net \/ mode = "hcs-bootstrap"

\* validate_disks, the build, the scheduled processes.
prepare_launch ==
    /\ pc = "validate"
    /\ \/ /\ launch_inner
          /\ Go("artifacts")
          /\ UNCHANGED <<boot, gvars, com1, fs, mishaps, lvars, owned, published, failed, files>>
       \/ AbortBefore

(***************************************************************************)
(* Launcher::prepare.                                                      *)
(***************************************************************************)
prepare_artifacts ==
    /\ pc = "artifacts"
    /\ \/ /\ Go("create")
          /\ UNCHANGED <<boot, gvars, com1, fs, mishaps, lvars, owned, published, failed, files>>
       \/ AbortBefore

Retryable == attempt < MaxAttempts

\* VmFactory::create: a missing disk is created blank and owned by the instance.
create ==
    /\ pc = "create"
    /\ \/ /\ \A d \in Disk : fs[d] # "absent" => request.policy[d] = "Reuse"
          /\ owned' = {d \in Disk : fs[d] = "absent"}
          /\ fs' = [d \in Disk |-> IF fs[d] = "absent" THEN "blank" ELSE fs[d]]
          /\ Go("start")
          /\ UNCHANGED <<boot, gvars, com1, mishaps, lvars, published, failed, files>>
       \/ /\ Retryable /\ Go("backoff")
          /\ UNCHANGED <<boot, gvars, com1, fs, mishaps, lvars, owned, published, failed, files>>
       \/ AbortBefore

\* VmInstance::start; a failed attempt's instance is dropped before the next.
start ==
    /\ pc = "start"
    /\ \/ /\ PowerOn /\ Go("config")
          /\ UNCHANGED <<boot, fs, mishaps, lvars, owned, published, failed, files>>
       \/ /\ Retryable /\ Teardown /\ pc' = "backoff"
          /\ UNCHANGED <<boot, lvars, published, failed, outcome, observer, scheduled, files>>
       \/ Abort

create_and_start_again ==
    /\ pc = "backoff" /\ attempt' = attempt + 1 /\ Go("create")
    /\ UNCHANGED <<boot, gvars, com1, fs, mishaps, request, launches, sent, owned, published,
                   failed, files>>

\* Mutant: the guest is asked to format every disk it is given.
build_boot_config_formats_all ==
    [net |-> request.net, initialize |-> Disk, bootstrap |-> mode = "hcs-bootstrap"]

build_boot_config ==
    [net |-> request.net, initialize |-> owned, bootstrap |-> mode = "hcs-bootstrap"]

prepare_config ==
    /\ pc = "config"
    /\ \/ /\ sent' = build_boot_config /\ Go("connect")
          /\ UNCHANGED <<boot, gvars, com1, fs, mishaps, request, launches, attempt, owned,
                         published, failed, files>>
       \/ Abort

(***************************************************************************)
(* The COM1 exchange of a normal launch.                                   *)
(***************************************************************************)
exchange_ready == mode = "hcs"
TakeFrame == toHost # <<>> /\ toHost' = Tail(toHost) /\ UNCHANGED <<toGuest, gvars>>
StillThere == UNCHANGED <<boot, fs, mishaps, lvars, owned, published, failed, files>>

connect ==
    /\ exchange_ready /\ pc = "connect" /\ Go("marker") /\ UNCHANGED <<gvars, com1>> /\ StillThere

read_ready_marker ==
    /\ exchange_ready /\ pc = "marker" /\ toHost # <<>>
    /\ IF Head(toHost)[1] = "marker" THEN TakeFrame /\ Go("write") /\ StillThere ELSE Abort

SendFrame(frame) == toGuest' = Append(toGuest, frame)

write_boot_config ==
    /\ exchange_ready /\ pc = "write" /\ SendFrame(<<"boot", sent>>)
    /\ Go("ready") /\ UNCHANGED <<toHost, gvars>> /\ StillThere

\* ReadyV1::verify: the proof is over the boot frame that the host sent.
verify(frame) == frame = <<"ready", sent>>

read_ready_frame ==
    /\ exchange_ready /\ pc = "ready" /\ toHost # <<>>
    /\ IF verify(Head(toHost)) THEN TakeFrame /\ Go("probe") /\ StillThere ELSE Abort

\* Mutant: nothing bounds the wait for the READY frame itself.
ready_timeout_not_last == exchange_ready /\ pc \in Waiting \ {"ready"} /\ Abort

\* Any wait of the exchange runs out, or the pipe breaks.
ready_timeout == exchange_ready /\ pc \in Waiting /\ Abort

(***************************************************************************)
(* The rest of Launcher::launch.                                           *)
(***************************************************************************)
\* TcpGuestClientFactory::create: an authenticated Ping must answer VMReady.
probe ==
    /\ pc = "probe"
    /\ \/ guest = "serving" /\ Go("publish") /\ UNCHANGED <<gvars, com1>> /\ StillThere
       \/ Abort

\* LiveVm::new starts the scheduler, before anybody announced that the VM runs.
LiveVm_new == scheduled' = IF request.scheduled THEN "armed" ELSE "none"

mark_published ==
    /\ pc = "publish"
    /\ \/ /\ published' = TRUE /\ pc' = "announce" /\ LiveVm_new
          /\ UNCHANGED <<boot, gvars, com1, fs, mishaps, lvars, owned, failed, outcome, observer,
                         files, leftover>>
       \/ Abort

announce ==
    /\ pc = "announce" /\ pc' = "live" /\ outcome' = "ok" /\ set("Running")
    /\ UNCHANGED <<boot, gvars, com1, fs, mishaps, lvars, owned, published, failed, scheduled,
                   files, leftover>>

(***************************************************************************)
(* The live VM.                                                            *)
(***************************************************************************)
\* shutdown_action: the guest answers Shutdowned and halts, or does not.
shutdown_action ==
    /\ scheduled = "armed" /\ pc \in {"announce", "live"} /\ scheduled' = "done"
    /\ \/ guest = "serving" /\ guest' = "exited" /\ set("Shutdown") /\ UNCHANGED mishaps
       \/ guest # "serving" /\ set("FailedShutdown") /\ UNCHANGED <<guest, mishaps>>
       \/ Mishap /\ set("FailedShutdown") /\ UNCHANGED guest
    /\ UNCHANGED <<boot, config, drivers, nic, mounted, listening, streamed, com1, fs, pc, lvars,
                   owned, published, failed, outcome, files, leftover>>

\* Processes of the guest write to a mounted disk.
GuestWrites ==
    /\ pc = "live" /\ guest = "serving"
    /\ \E d \in mounted : fs[d] = "ext" /\ fs' = [fs EXCEPT ![d] = "user"]
    /\ UNCHANGED <<boot, gvars, com1, mishaps, pc, lvars, owned, published, failed, outcome,
                   observer, scheduled, files, leftover>>

shutdown ==
    /\ pc = "live" /\ pc' = "request" /\ failed' = FALSE
    /\ scheduled' = IF scheduled = "armed" THEN "done" ELSE scheduled
    /\ UNCHANGED <<boot, gvars, com1, fs, mishaps, lvars, owned, published, outcome, observer,
                   files, leftover>>

request_shutdown ==
    /\ pc = "request" /\ pc' = "closing"
    /\ \/ guest = "serving" /\ guest' = "exited" /\ failed' = FALSE /\ UNCHANGED mishaps
       \/ guest # "serving" /\ failed' = TRUE /\ UNCHANGED <<guest, mishaps>>
       \/ Mishap /\ failed' = TRUE /\ UNCHANGED guest
    /\ UNCHANGED <<boot, config, drivers, nic, mounted, listening, streamed, com1, fs, lvars,
                   owned, published, outcome, observer, scheduled, files, leftover>>

close ==
    /\ pc = "closing" /\ mode = "hcs" /\ Teardown /\ pc' = "ended"
    /\ set(IF failed \/ mishaps' # mishaps THEN "FailedShutdown" ELSE "Shutdown")
    /\ UNCHANGED <<boot, lvars, published, failed, outcome, scheduled, files>>

\* LiveVm::drop, also of a shutdown() future dropped before it took the instance.
drop ==
    /\ pc \in {"live", "request"} /\ Teardown /\ Ended(outcome, "Dropped")
    /\ UNCHANGED <<boot, lvars, published, failed, files>>

\* A shutdown() future dropped inside close(): the instance goes, nobody tells the observer.
CancelClose ==
    /\ pc = "closing" /\ mode = "hcs" /\ Teardown /\ pc' = "ended"
    /\ UNCHANGED <<boot, lvars, published, failed, outcome, observer, scheduled, files>>

(***************************************************************************)
(* The COM1-only bootstrap.  Whatever happens in run_com1_bootstrap, the   *)
(* instance is closed afterwards and the staging file is removed if the    *)
(* transfer failed.                                                        *)
(***************************************************************************)
TransferFails ==
    /\ pc' = "closing" /\ failed' = TRUE /\ staging' = None
    /\ UNCHANGED <<boot, gvars, com1, fs, mishaps, lvars, owned, published, output>> /\ Calm

connect_com1 ==
    /\ mode = "hcs-bootstrap" /\ pc = "connect" /\ Go("marker")
    /\ UNCHANGED <<gvars, com1>> /\ StillThere

exchange_boot_and_ready ==
    /\ mode = "hcs-bootstrap"
    /\ \/ /\ pc = "marker" /\ toHost # <<>>
          /\ IF Head(toHost)[1] = "marker" THEN TakeFrame /\ Go("write") /\ StillThere
                                           ELSE TransferFails
       \/ /\ pc = "write" /\ SendFrame(<<"boot", sent>>) /\ Go("ready")
          /\ UNCHANGED <<toHost, gvars>> /\ StillThere
       \/ /\ pc = "ready" /\ toHost # <<>>
          /\ IF verify(Head(toHost)) THEN TakeFrame /\ Go("result") /\ StillThere
                                     ELSE TransferFails

read_result ==
    /\ pc = "result" /\ toHost # <<>>
    /\ IF Head(toHost) = <<"result", "success">> THEN TakeFrame /\ Go("staging") /\ StillThere
                                                 ELSE TransferFails

create_staging ==
    /\ pc = "staging"
    /\ \/ /\ staging' = <<>> /\ Go("transfer")
          /\ UNCHANGED <<boot, gvars, com1, fs, mishaps, lvars, owned, published, failed, output>>
       \/ TransferFails

\* A chunk is written and hashed whatever it holds; a wrong length ends the transfer.
read_chunk ==
    /\ pc = "transfer" /\ Len(staging) < ArtifactLen /\ toHost # <<>>
    /\ \/ /\ TakeFrame /\ staging' = Append(staging, Head(toHost)[2])
          /\ pc' = IF Len(staging') = ArtifactLen THEN "sync" ELSE "transfer"
          /\ UNCHANGED <<boot, fs, mishaps, lvars, owned, published, failed, output>> /\ Calm
       \/ Head(toHost)[1] # "chunk" /\ TransferFails

Artifact == [i \in 1..ArtifactLen |-> i]

\* Mutant: the digest of the result envelope is not compared.
publish_output_unchecked ==
    /\ pc = "sync" /\ output' = staging /\ staging' = None /\ pc' = "closing" /\ Calm
    /\ UNCHANGED <<boot, gvars, com1, fs, mishaps, lvars, owned, published, failed>>

\* The strict replacement: the staged file takes the output's place in one step of
\* the file system, and the output is never removed first.
replace_file_atomically == output' = staging /\ staging' = None

\* flush, sync, compare the digest, replace the output; an error of any of them, the
\* replacement included, leaves the output as it was.
publish_output ==
    /\ pc = "sync"
    /\ \/ /\ staging = Artifact
          /\ replace_file_atomically /\ pc' = "closing" /\ Calm
          /\ UNCHANGED <<boot, gvars, com1, fs, mishaps, lvars, owned, published, failed>>
       \/ TransferFails

transfer_timeout == mode = "hcs-bootstrap" /\ pc \in Waiting \cup Transferring /\ TransferFails

close_bootstrap ==
    /\ pc = "closing" /\ mode = "hcs-bootstrap" /\ Teardown
    /\ IF failed \/ mishaps' # mishaps THEN Ended("err", "FailedLaunch") ELSE Ended("ok", "Shutdown")
    /\ UNCHANGED <<boot, lvars, published, failed, files>>

(***************************************************************************)
(* The composition.                                                        *)
(***************************************************************************)
Launcher == \/ prepare_launch \/ prepare_artifacts \/ create \/ start \/ create_and_start_again
            \/ prepare_config \/ connect \/ read_ready_marker \/ write_boot_config
            \/ read_ready_frame \/ ready_timeout \/ probe \/ mark_published \/ announce
Bootstrap == \/ connect_com1 \/ exchange_boot_and_ready \/ read_result \/ create_staging
             \/ read_chunk \/ publish_output \/ transfer_timeout \/ close_bootstrap
Host == Launcher \/ Bootstrap \/ shutdown_action \/ request_shutdown \/ close
User == \/ launch \/ DropBuilder \/ CancelLaunch \/ shutdown \/ drop \/ CancelClose \/ NextBuilder
        \/ GuestWrites
hostvars == <<pc, lvars, owned, published, failed, outcome, observer, scheduled, files, leftover>>
Guest == run_init /\ UNCHANGED hostvars
Line == Garble /\ UNCHANGED hostvars
Done == pc = "ended" /\ launches = MaxLaunches /\ UNCHANGED vars

Next == Host \/ User \/ Guest \/ Line \/ Done

\* The tokio runtime runs every task that is ready and fires every timer that is due;
\* nothing is assumed of the guest or of the user.
Fairness == WF_vars(Host)
Spec == Init /\ [][Next]_vars /\ Fairness

(***************************************************************************)
(* Properties.                                                             *)
(***************************************************************************)
\* READY is "a strict guarantee that the configured guest control plane is up"
\* (adapters/runtime.rs, wait_for_ready): once the host has accepted it, the guest applied
\* exactly the configuration that was sent: its network is the requested one, every disk is
\* mounted and holds a file system, and a normal guest has bound its command listener.
ReadyMeansServing ==
    pc \in {"probe", "publish", "result"} =>
        /\ config = sent
        /\ sent.net => nic.up /\ "ours" \in nic.addrs /\ nic.gateway = "ours"
        /\ mounted = Disk /\ \A d \in Disk : fs[d] \in {"ext", "user"}
        /\ mode = "hcs" => listening

\* classify_disks: what the VM reports as the effective retention of a disk.
classify_disks(d) == IF d \notin owned THEN "Persistent" ELSE request.retention[d]

\* Data on a disk is never lost against what the launch reports: a disk that holds data is
\* never formatted, by whichever retry or later launch meets it, and it is deleted only by the
\* instance that created it and reported it as Ephemeral (build_boot_config, apply_disks,
\* classify_disks).
DataKept ==
    [][\A d \in Disk : fs[d] = "user" /\ fs'[d] # "user" =>
          fs'[d] = "absent" /\ classify_disks(d) = "Ephemeral" /\ published]_vars

\* A launch never leaves an unformatted disk behind that the next one would take for an
\* existing disk, not format and so never mount, except one its cleanup could not delete.
NoBlankDiskLeft ==
    pc = "ended" => \A d \in Disk : fs[d] = "blank" => d \in leftover

\* The observer agrees with the builder's future, whatever a scheduled shutdown does in
\* between and wherever the future is dropped (LaunchObserverGuard, VmLifecycle::set): a
\* launch that did not succeed fails started() and finished(), one that did never leaves
\* started() waiting and is never FailedLaunch, and a scheduled shutdown that ran is not overwritten by a late Running.
ObserverTellsOutcome ==
    /\ outcome \in {"err", "cancelled"} => started = "err" /\ finished = "err"
    /\ outcome = "ok" => started # "waits" /\ observer # "FailedLaunch"
    /\ pc = "live" /\ scheduled = "done" => is_terminal(observer)

\* run_com1_bootstrap: the output is replaced only by the whole artifact whose digest the
\* guest announced, a success has replaced it, and no staging file outlives a returned call.
OutputWholeOrUntouched ==
    /\ output # None => output = Artifact
    /\ outcome = "ok" /\ mode = "hcs-bootstrap" => output = Artifact
    /\ outcome \in {"ok", "err"} => staging = None

\* Every launch ends: in a live VM or with an error, whether the guest hangs, stays silent or
\* answers nonsense (the timeouts of wait_for_ready and run_com1_bootstrap).
LaunchEnds == (pc = "validate") ~> (pc \in {"live", "ended"})
==============================================================================
