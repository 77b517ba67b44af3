------------------------------- MODULE HcsVm -------------------------------
(***************************************************************************)
(* The life of one HCS virtual machine's host resources, and the durable   *)
(* journal that owns them (hypervisor-hcs: vm.rs, journal.rs, hns.rs).     *)
(*                                                                         *)
(* Every VM v has one journal record.  `from_conf` commits it before any   *)
(* side effect, then creates the HNS network and endpoint, each VHDX and   *)
(* the compute system, committing each outcome after the fact.  Cleanup    *)
(* passes (rollback of a failed launch, close, Drop, recovery of a dead    *)
(* session) walk the record, remove what it names and retry; the third     *)
(* failed pass moves what is left to the abandoned inventory.              *)
(*                                                                         *)
(* One VM stands for one session here, so the actor of v is the process    *)
(* that launched it or, after that process died, the one recoverer that    *)
(* holds the session's lease (module HcsSessions).  A pass therefore never *)
(* races another pass over the same record, and the record snapshot the    *)
(* code takes at the start of a pass equals the record whenever the pass   *)
(* reads a resource's state.  VMs do meet on disk paths.                   *)
(***************************************************************************)
EXTENDS Integers, FiniteSets

CONSTANTS
    VM,              \* virtual machines
    Path,            \* host paths of VHDX files
    User,            \* the creator of files Jyth did not create
    Free,            \* no VM: the holder of a free path lock
    NumDisks,        \* disks per VM
    MaxFiles,        \* bound: file identities ever handed out
    MaxUserOps,      \* bound: files the user creates or removes
    MaxFaults,       \* bound: crashes and failed journal commits
    MAX_CLEANUP_ATTEMPTS,
    Policies,        \* existing-file policies a launch may ask for
    Nics,            \* whether a launch may ask for a NIC, or not to have one
    UserRaces,       \* may the user replace a file inside Jyth's own windows
    DropsInFlight    \* may the launch future be dropped during HCS create

ASSUME VmAssumption ==
    /\ User \notin VM /\ Free \notin VM /\ Path # {}
    /\ NumDisks \in Nat /\ MaxFiles \in Nat
    /\ MaxUserOps \in Nat /\ MaxFaults \in Nat
    /\ MAX_CLEANUP_ATTEMPTS \in Nat
    /\ Policies \subseteq {"Error", "ReuseAndKeep"}
    /\ Nics \subseteq BOOLEAN
    /\ UserRaces \in BOOLEAN /\ DropsInFlight \in BOOLEAN

Disk == 1..NumDisks
FileId == 1..MaxFiles
NoFile == 0

ResourceState == {"Planned", "Created", "Removed", "RemovalFailed", "Abandoned"}

VmResourcePhase ==
    {"Planned", "Starting", "Published", "CleanupPending", "Complete"}

\* What HCS holds of a VM; a started system has its VHDX files open.
SystemState == {"absent", "created", "started"}

Retention == {"Ephemeral", "Persistent"}

\* What the caller asks of one disk: its path, retention and the policy for a
\* path that already holds a file.
DiskSpec ==
    [path : Path, retention : Retention, onExisting : {"Error", "ReuseAndKeep"}]

DiskResource ==
    [state : ResourceState, origin : {"CreatedByLaunch", "PreExisting"},
     retention : Retention, identity : FileId \cup {NoFile},
     ace : BOOLEAN, published : BOOLEAN]

\* The journal record.  `network` is "None" when no NIC was requested; paths
\* and requested retentions are those of spec[v], written once.
VmResourceRecord ==
    [phase : VmResourcePhase, published : BOOLEAN, compute : ResourceState,
     network : ResourceState \cup {"None"}, disks : [Disk -> DiskResource],
     attempts : Nat]

\* Entries of the abandoned inventory: a kind, and the index of a disk.
ComputeEntry == <<"compute", 0>>
NetworkEntry == <<"network", 0>>
DiskEntry(k) == <<"disk", k>>
Entry == {ComputeEntry, NetworkEntry} \cup {DiskEntry(k) : k \in Disk}

VARIABLES
    \* the host
    compute,      \* v's compute system in HCS
    network,      \* which of v's HNS objects exist
    file,         \* identity of the file at each path
    creator,      \* who created each file identity
    nextId,       \* the next fresh file identity
    ace,          \* files that carry v's access-control entry
    \* the journal (durable)
    hasRec, rec, inventory,
    db,           \* does v's session database file exist
    \* the process acting for v (lost in a crash)
    spec, pc,
    cur,          \* the disk being materialized or removed
    why,          \* what the running cleanup pass is for
    res,          \* outcome of the removal just attempted, not yet journaled
    cls,          \* classification of the disk being materialized
    captured,     \* its file identity
    unjournaled,  \* the provisioning guard's created disks
    worker,       \* the blocking HcsCreateComputeSystem worker
    pathLock,     \* holder of each per-path mutex
    \* bounds
    userOps, faults

hostVars == <<compute, network, file, creator, nextId, ace>>
journalVars == <<hasRec, rec, inventory, db>>
localVars == <<spec, pc, cur, why, res, cls, captured, unjournaled, worker>>
boundVars == <<userOps, faults>>
vars == <<compute, network, file, creator, nextId, ace, hasRec, rec, inventory,
          db, spec, pc, cur, why, res, cls, captured, unjournaled, worker,
          pathLock, userOps, faults>>

Provisioning ==
    {"network", "endpoint", "network_journal", "disk", "classify", "capture",
     "disk_journal", "grant", "ace_journal", "await", "compute_journal"}

Cleaning ==
    {"begin", "rm_compute", "rm_network", "rm_disk", "rm_file", "verdict",
     "remove_vm", "remove_abandoned", "put_abandoned", "mark_abandoned"}

Stage == {"idle", "created", "running", "unjournaled", "ended", "dead", "gc", "gone"}
         \cup Provisioning \cup Cleaning

\* A record as it is planned: nothing exists yet, every disk is presumed to be
\* created by this launch with the retention it asked for.
PlannedRecord(sp, nic) ==
    [phase |-> "Planned", published |-> FALSE, compute |-> "Planned",
     network |-> IF nic THEN "Planned" ELSE "None",
     disks |-> [k \in Disk |->
                  [state |-> "Planned", origin |-> "CreatedByLaunch",
                   retention |-> sp[k].retention, identity |-> NoFile,
                   ace |-> FALSE, published |-> FALSE]],
     attempts |-> 0]

Terminal == {"Removed", "Abandoned"}

is_complete(r) ==
    \/ r.phase = "Complete"
    \/ /\ r.compute \in Terminal
       /\ r.network \in Terminal \cup {"None"}
       /\ \A k \in Disk : r.disks[k].state \in Terminal

\* The network forgotten when a pass looks for what is left.
AllButNetworkRemoved(r) ==
    /\ r.compute = "Removed"
    /\ \A k \in Disk : r.disks[k].state = "Removed"

AllRemoved(r) ==
    /\ r.compute = "Removed"
    /\ r.network \in {"Removed", "None"}
    /\ \A k \in Disk : r.disks[k].state = "Removed"

\* A value for spec and rec where there is none.
BlankSpec == [k \in Disk |-> [path |-> CHOOSE p \in Path : TRUE,
                              retention |-> "Ephemeral", onExisting |-> "Error"]]
BlankRecord == PlannedRecord(BlankSpec, FALSE)

\* Two disks of one VM never share a path (VmConfig validation).
Specs == {s \in [Disk -> DiskSpec] :
            /\ \A j, k \in Disk : s[j].path = s[k].path => j = k
            /\ \A k \in Disk : s[k].onExisting \in Policies}

Init ==
    /\ compute = [v \in VM |-> "absent"]
    /\ network = [v \in VM |-> {}]
    /\ file = [p \in Path |-> NoFile]
    /\ creator = [i \in FileId |-> User]
    /\ nextId = 1
    /\ ace = [v \in VM |-> {}]
    /\ hasRec = [v \in VM |-> FALSE]
    /\ rec = [v \in VM |-> BlankRecord]
    /\ inventory = [v \in VM |-> {}]
    /\ db = [v \in VM |-> TRUE]
    /\ spec = [v \in VM |-> BlankSpec]
    /\ pc = [v \in VM |-> "idle"]
    /\ cur = [v \in VM |-> 1]
    /\ why = [v \in VM |-> "none"]
    /\ res = [v \in VM |-> "none"]
    /\ cls = [v \in VM |-> "none"]
    /\ captured = [v \in VM |-> NoFile]
    /\ unjournaled = [v \in VM |-> {}]
    /\ worker = [v \in VM |-> "none"]
    /\ pathLock = [p \in Path |-> Free]
    /\ userOps = 0
    /\ faults = 0

-----------------------------------------------------------------------------
At(v, stage) == pc[v] = stage
Goto(v, stage) == pc' = [pc EXCEPT ![v] = stage]
PathOf(v) == spec[v][cur[v]].path
Unlock(v) == pathLock' = [p \in Path |-> IF pathLock[p] = v THEN Free
                                         ELSE pathLock[p]]

\* Replace v's record.
Journal(v, r) == rec' = [rec EXCEPT ![v] = r]

\* Replace disk k of record r.
SetDisk(r, k, d) == [r EXCEPT !.disks[k] = d]

\* An error in from_conf: the path lock is released with materialize_disk's
\* frame, then the armed ProvisioningGuard starts its synchronous pass.
Rollback(v) ==
    /\ Goto(v, "begin")
    /\ why' = [why EXCEPT ![v] = "rollback"]
    /\ Unlock(v)

-----------------------------------------------------------------------------
(* Vm::from_conf                                                           *)

\* Commit the whole plan before the first side effect.
PutVm(v, sp, nic) ==
    /\ At(v, "idle")
    /\ hasRec' = [hasRec EXCEPT ![v] = TRUE]
    /\ Journal(v, PlannedRecord(sp, nic))
    /\ spec' = [spec EXCEPT ![v] = sp]
    /\ Goto(v, IF nic THEN "network" ELSE "disk")
    /\ UNCHANGED <<hostVars, inventory, db, cur, why, res, cls, captured,
                   unjournaled, worker, pathLock, boundVars>>

\* HcnCreateNetwork.  Its id was planned, so journaling it changes nothing.
CreateNetwork(v) ==
    /\ At(v, "network")
    /\ \/ /\ network' = [network EXCEPT ![v] = {"network"}]
          /\ Goto(v, "endpoint")
          /\ UNCHANGED <<why, pathLock>>
       \/ /\ Rollback(v)
          /\ UNCHANGED network
    /\ UNCHANGED <<compute, file, creator, nextId, ace, journalVars, spec, cur,
                   res, cls, captured, unjournaled, worker, boundVars>>

\* HcnCreateEndpoint and the query of its GUID.  A failure runs
\* rollback_network_creation, which deletes what it can.
CreateEndpoint(v) ==
    /\ At(v, "endpoint")
    /\ \/ /\ network' = [network EXCEPT ![v] = {"network", "endpoint"}]
          /\ Goto(v, "network_journal")
          /\ UNCHANGED <<why, pathLock>>
       \/ /\ \E left \in SUBSET {"network", "endpoint"} :
                network' = [network EXCEPT ![v] = left]
          /\ Rollback(v)
    /\ UNCHANGED <<compute, file, creator, nextId, ace, journalVars, spec, cur,
                   res, cls, captured, unjournaled, worker, boundVars>>

\* on_endpoint_created: the network resource is Created.
JournalNetwork(v) ==
    /\ At(v, "network_journal")
    /\ Journal(v, [rec[v] EXCEPT !.network = "Created"])
    /\ Goto(v, "disk")
    /\ UNCHANGED <<hostVars, hasRec, inventory, db, spec, cur, why, res, cls,
                   captured, unjournaled, worker, pathLock, boundVars>>

\* PathLock::acquire: wait for the per-path mutex, at most PATH_LOCK_WAIT_MS.
LockPath(v) ==
    /\ At(v, "disk") /\ cur[v] <= NumDisks
    /\ \/ /\ pathLock[PathOf(v)] = Free
          /\ pathLock' = [pathLock EXCEPT ![PathOf(v)] = v]
          /\ Goto(v, "classify")
          /\ UNCHANGED why
       \/ Rollback(v)
    /\ UNCHANGED <<hostVars, journalVars, spec, cur, res, cls, captured,
                   unjournaled, worker, boundVars>>

classify_disk(exists, retention, onExisting) ==
    CASE ~exists -> "Create"
      [] exists /\ onExisting = "Error" -> "RejectExisting"
      [] exists /\ onExisting # "Error" /\ retention = "Ephemeral"
            -> "ReuseAndReclassify"
      [] exists /\ onExisting # "Error" /\ retention # "Ephemeral" -> "Reuse"

\* New-VHD leaves a fresh file at the path.
NewVhd(v) ==
    /\ nextId <= MaxFiles
    /\ file' = [file EXCEPT ![PathOf(v)] = nextId]
    /\ creator' = [creator EXCEPT ![nextId] = v]
    /\ nextId' = nextId + 1

\* The rejected policy ignored: a launch goes on with a file it must not use.
ProceedRejected(v, c) ==
    /\ cls' = [cls EXCEPT ![v] = c]
    /\ Goto(v, "capture")
    /\ UNCHANGED <<why, pathLock>>

\* Go on with the classified disk, unless its policy rejects the file.
Proceed(v, c) ==
    /\ c # "RejectExisting"
    /\ cls' = [cls EXCEPT ![v] = c]
    /\ Goto(v, "capture")
    /\ UNCHANGED <<why, pathLock>>

\* Classify the path under its lock and create or validate the VHDX.  New-VHD
\* may also report failure with a file at the path (its own, when the bounded
\* PowerShell run was cut off): the existing-file policy then applies to it.
Materialize(v) ==
    LET d == spec[v][cur[v]]
        found == classify_disk(file[PathOf(v)] # NoFile, d.retention, d.onExisting)
        again == classify_disk(TRUE, d.retention, d.onExisting)
    IN
    /\ At(v, "classify")
    /\ \/ /\ found = "Create"
          /\ NewVhd(v)
          /\ \/ Proceed(v, "Create")
             \/ Proceed(v, again)
             \/ Rollback(v) /\ UNCHANGED cls
       \/ /\ found \in {"Reuse", "ReuseAndReclassify"}
          /\ Proceed(v, found)
          /\ UNCHANGED <<file, creator, nextId>>
       \/ Rollback(v) /\ UNCHANGED <<file, creator, nextId, cls>>
    /\ UNCHANGED <<compute, network, ace, journalVars, spec, cur, res, captured,
                   unjournaled, worker, boundVars>>

\* file_identity of what is at the path now; a created disk enters the guard.
CaptureIdentity(v) ==
    LET p == PathOf(v) IN
    /\ At(v, "capture")
    /\ \/ /\ file[p] # NoFile
          /\ captured' = [captured EXCEPT ![v] = file[p]]
          /\ unjournaled' = IF cls[v] = "Create"
                            THEN [unjournaled EXCEPT ![v] = @ \cup {<<p, file[p]>>}]
                            ELSE unjournaled
          /\ Goto(v, "disk_journal")
          /\ UNCHANGED <<why, pathLock>>
       \/ Rollback(v) /\ UNCHANGED <<captured, unjournaled>>
    /\ UNCHANGED <<hostVars, journalVars, spec, cur, res, cls, worker, boundVars>>

\* A created disk has the retention it asked for, a reused one is kept.
Materialized(d, made, retention, id) ==
    [d EXCEPT !.state = "Created",
              !.origin = IF made THEN "CreatedByLaunch" ELSE "PreExisting",
              !.retention = IF made THEN retention ELSE "Persistent",
              !.identity = id]

\* Commit origin, effective retention and identity before the disk is used.
JournalDisk(v) ==
    /\ At(v, "disk_journal")
    /\ Journal(v, SetDisk(rec[v], cur[v],
                    Materialized(rec[v].disks[cur[v]], cls[v] = "Create",
                                 spec[v][cur[v]].retention, captured[v])))
    /\ cls' = [cls EXCEPT ![v] = "none"]
    /\ captured' = [captured EXCEPT ![v] = NoFile]
    /\ Goto(v, "grant")
    /\ UNCHANGED <<hostVars, hasRec, inventory, db, spec, cur, why, res,
                   unjournaled, worker, pathLock, boundVars>>

\* grant_vm_identity_access on the file now at the path.
GrantAccess(v) ==
    LET p == PathOf(v) IN
    /\ At(v, "grant")
    /\ \/ /\ file[p] # NoFile
          /\ ace' = [ace EXCEPT ![v] = @ \cup {file[p]}]
          /\ Goto(v, "ace_journal")
          /\ UNCHANGED <<why, pathLock>>
       \/ Rollback(v) /\ UNCHANGED ace
    /\ UNCHANGED <<compute, network, file, creator, nextId, journalVars, spec,
                   cur, res, cls, captured, unjournaled, worker, boundVars>>

\* Commit vm_ace_added, release the path lock, go to the next disk.
JournalAce(v) ==
    /\ At(v, "ace_journal")
    /\ Journal(v, SetDisk(rec[v], cur[v], [rec[v].disks[cur[v]] EXCEPT !.ace = TRUE]))
    /\ cur' = [cur EXCEPT ![v] = @ + 1]
    /\ Goto(v, "disk")
    /\ Unlock(v)
    /\ UNCHANGED <<hostVars, hasRec, inventory, db, spec, why, res, cls,
                   captured, unjournaled, worker, boundVars>>

\* Set up the pipes and hand the configuration to the blocking worker.
SubmitCreate(v) ==
    /\ At(v, "disk") /\ cur[v] > NumDisks
    /\ \/ /\ worker' = [worker EXCEPT ![v] = "running"]
          /\ Goto(v, "await")
          /\ UNCHANGED <<why, pathLock>>
       \/ Rollback(v) /\ UNCHANGED worker
    /\ UNCHANGED <<hostVars, journalVars, spec, cur, res, cls, captured,
                   unjournaled, boundVars>>

\* The worker's HcsCreateComputeSystem.  A create whose 30 s wait expired
\* reports an error although the system may exist; once its future is dropped
\* the worker runs on by itself.
WorkerCreates(v) ==
    /\ worker[v] = "running"
    /\ \/ /\ compute' = [compute EXCEPT ![v] = "created"]
          /\ worker' = [worker EXCEPT ![v] = IF At(v, "await") THEN "made" ELSE "none"]
       \/ /\ \E there \in {"absent", "created"} :
                compute' = [compute EXCEPT ![v] = there]
          /\ worker' = [worker EXCEPT ![v] = IF At(v, "await") THEN "error" ELSE "none"]
    /\ UNCHANGED <<network, file, creator, nextId, ace, journalVars, spec, pc,
                   cur, why, res, cls, captured, unjournaled, pathLock, boundVars>>

\* The launch future resumes with the worker's result.
JoinCreate(v) ==
    /\ At(v, "await") /\ worker[v] \in {"made", "error"}
    /\ \/ /\ worker[v] = "made"
          /\ Goto(v, "compute_journal")
          /\ UNCHANGED <<why, pathLock>>
       \/ worker[v] = "error" /\ Rollback(v)
    /\ worker' = [worker EXCEPT ![v] = "none"]
    /\ UNCHANGED <<hostVars, journalVars, spec, cur, res, cls, captured,
                   unjournaled, boundVars>>

\* The caller drops the launch future at its one await point.  The guard's
\* drop (the rollback pass) runs before the cancel token fires.
DropFuture(v) ==
    /\ At(v, "await")
    /\ DropsInFlight \/ worker[v] # "running"
    /\ worker' = [worker EXCEPT ![v] = IF @ = "running" THEN @ ELSE "none"]
    /\ Rollback(v)
    /\ UNCHANGED <<hostVars, journalVars, spec, cur, res, cls, captured,
                   unjournaled, boundVars>>

\* Commit the compute system, disarm the guard, return the Vm.
JournalCompute(v) ==
    /\ At(v, "compute_journal")
    /\ Journal(v, [rec[v] EXCEPT !.compute = "Created", !.phase = "Starting"])
    /\ unjournaled' = [unjournaled EXCEPT ![v] = {}]
    /\ Goto(v, "created")
    /\ UNCHANGED <<hostVars, hasRec, inventory, db, spec, cur, why, res, cls,
                   captured, worker, pathLock, boundVars>>

\* HcsStartComputeSystem opens the VHDX files; a failed start changes nothing.
\* The phase is Starting already, so the journal update of a start is void.
start(v) ==
    /\ At(v, "created") /\ compute[v] = "created"
    /\ \A k \in Disk : file[spec[v][k].path] # NoFile
    /\ compute' = [compute EXCEPT ![v] = "started"]
    /\ Goto(v, "running")
    /\ UNCHANGED <<network, file, creator, nextId, ace, journalVars, spec, cur,
                   why, res, cls, captured, unjournaled, worker, pathLock, boundVars>>

\* The guest proved READY: the launch publishes itself and its disks.
Published(r) ==
    [r EXCEPT !.phase = "Published", !.published = TRUE,
              !.disks = [k \in Disk |-> [r.disks[k] EXCEPT !.published = TRUE]]]

mark_published(v) ==
    /\ At(v, "running") /\ ~rec[v].published
    /\ Journal(v, Published(rec[v]))
    /\ UNCHANGED <<hostVars, hasRec, inventory, db, localVars, pathLock, boundVars>>

-----------------------------------------------------------------------------
(* Cleanup passes: cleanup_record_async_with and cleanup_record_sync_with  *)

close(v) ==
    /\ pc[v] \in {"created", "running"}
    /\ Goto(v, "begin")
    /\ why' = [why EXCEPT ![v] = "close"]
    /\ UNCHANGED <<hostVars, journalVars, spec, cur, res, cls, captured,
                   unjournaled, worker, pathLock, boundVars>>

drop(v) ==
    /\ pc[v] \in {"created", "running"}
    /\ Goto(v, "begin")
    /\ why' = [why EXCEPT ![v] = "drop"]
    /\ UNCHANGED <<hostVars, journalVars, spec, cur, res, cls, captured,
                   unjournaled, worker, pathLock, boundVars>>

\* Where a pass returns to.  A failed close leaves cleanup_completed unset, so
\* Drop runs a second pass; recovery ignores the outcome and looks at the file.
PassReturns(v, ok) ==
    /\ pc' = [pc EXCEPT ![v] =
                CASE why[v] = "rollback" -> "unjournaled"
                  [] why[v] = "close" /\ ~ok -> "begin"
                  [] why[v] = "recover" -> "gc"
                  [] OTHER -> "ended"]
    /\ why' = [why EXCEPT ![v] = IF @ = "close" /\ ~ok THEN "drop" ELSE "none"]

\* A pass that forgets to count itself.
AttemptUncounted(r) == [r EXCEPT !.phase = "CleanupPending"]

Attempted(r) == [r EXCEPT !.phase = "CleanupPending", !.attempts = r.attempts + 1]

\* Count the attempt; update_vm fails when the record is already gone.
BeginPass(v) ==
    /\ At(v, "begin")
    /\ \/ /\ hasRec[v]
          /\ Journal(v, Attempted(rec[v]))
          /\ Goto(v, "rm_compute")
          /\ UNCHANGED why
       \/ /\ ~hasRec[v]
          /\ PassReturns(v, FALSE)
          /\ UNCHANGED rec
    /\ cur' = [cur EXCEPT ![v] = 1]
    /\ cls' = [cls EXCEPT ![v] = "none"]
    /\ captured' = [captured EXCEPT ![v] = NoFile]
    /\ UNCHANGED <<hostVars, hasRec, inventory, db, spec, res,
                   unjournaled, worker, pathLock, boundVars>>

\* Terminate by handle or by recorded id; an absent system is success.  A
\* failure may have terminated the system all the same.
RemoveCompute(v) ==
    /\ At(v, "rm_compute") /\ res[v] = "none" /\ rec[v].compute # "Removed"
    /\ \E left \in {"absent", compute[v]}, r \in {"ok", "fail"} :
          /\ left # "absent" => r = "fail"
          /\ compute' = [compute EXCEPT ![v] = left]
          /\ res' = [res EXCEPT ![v] = r]
    /\ UNCHANGED <<network, file, creator, nextId, ace, journalVars, spec, pc,
                   cur, why, cls, captured, unjournaled, worker, pathLock, boundVars>>

\* Endpoint and network, each tried; success means that both are gone.  The
\* errors of both are joined into one text, in which resource_is_absent looks
\* for a not-found code: closing a handle and listing names are assumed never
\* to answer with one.
RemoveNetwork(v) ==
    /\ At(v, "rm_network") /\ res[v] = "none"
    /\ rec[v].network \notin {"None", "Removed"}
    /\ \E left \in SUBSET network[v], r \in {"ok", "fail"} :
          /\ left # {} => r = "fail"
          /\ network' = [network EXCEPT ![v] = left]
          /\ res' = [res EXCEPT ![v] = r]
    /\ UNCHANGED <<compute, file, creator, nextId, ace, journalVars, spec, pc,
                   cur, why, cls, captured, unjournaled, worker, pathLock, boundVars>>

\* Publication ignored: a persistent disk is deleted like an unpublished one.
DeletableThoughPublished(d) == d.origin = "CreatedByLaunch"

\* Origin ignored: a disk the launch only attached is deleted.
DeletableThoughAttached(d) == d.retention = "Ephemeral" \/ ~d.published

\* remove_disk's deletion predicate, before the file is looked at.
Deletable(d) ==
    /\ d.origin = "CreatedByLaunch"
    /\ d.retention = "Ephemeral" \/ ~d.published

\* remove_disk up to the identity check: skip a planned disk, revoke the ACE,
\* apply the deletion predicate.
RemoveDisk(v) ==
    LET d == rec[v].disks[cur[v]]
        p == PathOf(v)
        Revoked == ace' = IF d.ace THEN [ace EXCEPT ![v] = ace[v] \ {file[p]}] ELSE ace
        Result(r) == res' = [res EXCEPT ![v] = r] /\ UNCHANGED pc
    IN
    /\ At(v, "rm_disk") /\ cur[v] <= NumDisks /\ res[v] = "none"
    /\ d.state # "Removed"
    /\ \/ d.state = "Planned" /\ Result("ok") /\ UNCHANGED ace
       \/ /\ d.state # "Planned" /\ d.ace /\ file[p] # NoFile
          /\ Result("fail")
          /\ UNCHANGED ace
       \/ /\ d.state # "Planned"
          /\ Revoked
          /\ ~Deletable(d) \/ file[p] = NoFile
          /\ Result("ok")
       \/ /\ d.state # "Planned" /\ Deletable(d) /\ file[p] # NoFile
          /\ Revoked
          /\ \/ file[p] # d.identity /\ Result("fail")
             \/ file[p] = d.identity /\ Goto(v, "rm_file") /\ UNCHANGED res
    /\ UNCHANGED <<compute, network, file, creator, nextId, journalVars, spec,
                   cur, why, cls, captured, unjournaled, worker, pathLock, boundVars>>

\* A started compute system holds the file open: it can be neither deleted nor
\* replaced.
InUse(p) ==
    \E v \in VM : compute[v] = "started" /\ \E k \in Disk : spec[v][k].path = p

\* remove_file at the path whose identity was just checked.
DeleteFile(v) ==
    LET p == PathOf(v) IN
    /\ At(v, "rm_file")
    /\ \/ /\ ~InUse(p)
          /\ file' = [file EXCEPT ![p] = NoFile]
          /\ res' = [res EXCEPT ![v] = "ok"]
       \/ /\ file[p] # NoFile
          /\ res' = [res EXCEPT ![v] = "fail"]
          /\ UNCHANGED file
    /\ Goto(v, "rm_disk")
    /\ UNCHANGED <<compute, network, creator, nextId, ace, journalVars, spec,
                   cur, why, cls, captured, unjournaled, worker, pathLock, boundVars>>

\* A failed removal recorded as done.
OutcomeLost(r) == "Removed"

\* apply_resource_outcome
Outcome(r) == IF r = "ok" THEN "Removed" ELSE "RemovalFailed"

\* A failed disk removal recorded as done.
DiskOutcomeLost(d, r) == [d EXCEPT !.state = "Removed", !.ace = FALSE]

\* A removed disk carries no ACE any more.
DiskOutcome(d, r) == [d EXCEPT !.state = Outcome(r), !.ace = d.ace /\ r # "ok"]

ApplyCompute(v) ==
    /\ At(v, "rm_compute")
    /\ \/ /\ res[v] = "none" /\ rec[v].compute = "Removed"
          /\ UNCHANGED rec
       \/ /\ res[v] # "none"
          /\ Journal(v, [rec[v] EXCEPT !.compute = Outcome(res[v])])
    /\ res' = [res EXCEPT ![v] = "none"]
    /\ Goto(v, "rm_network")
    /\ UNCHANGED <<hostVars, hasRec, inventory, db, spec, cur, why, cls,
                   captured, unjournaled, worker, pathLock, boundVars>>

ApplyNetwork(v) ==
    /\ At(v, "rm_network")
    /\ \/ /\ res[v] = "none" /\ rec[v].network \in {"None", "Removed"}
          /\ UNCHANGED rec
       \/ /\ res[v] # "none"
          /\ Journal(v, [rec[v] EXCEPT !.network = Outcome(res[v])])
    /\ res' = [res EXCEPT ![v] = "none"]
    /\ Goto(v, "rm_disk")
    /\ UNCHANGED <<hostVars, hasRec, inventory, db, spec, cur, why, cls,
                   captured, unjournaled, worker, pathLock, boundVars>>

ApplyDisk(v) ==
    /\ At(v, "rm_disk") /\ cur[v] <= NumDisks
    /\ \/ /\ res[v] = "none" /\ rec[v].disks[cur[v]].state = "Removed"
          /\ UNCHANGED rec
       \/ /\ res[v] # "none"
          /\ Journal(v, SetDisk(rec[v], cur[v],
                          DiskOutcome(rec[v].disks[cur[v]], res[v])))
    /\ res' = [res EXCEPT ![v] = "none"]
    /\ cur' = [cur EXCEPT ![v] = @ + 1]
    /\ UNCHANGED <<hostVars, hasRec, inventory, db, spec, pc, why, cls,
                   captured, unjournaled, worker, pathLock, boundVars>>

GivesUp(r) == r.attempts >= MAX_CLEANUP_ATTEMPTS

\* After the last disk: complete the record, retry later, or give up.  No
\* failure in this pass is the same as every resource being Removed.
Verdict(v) ==
    /\ At(v, "rm_disk") /\ cur[v] > NumDisks
    /\ \/ /\ AllRemoved(rec[v])
          /\ Journal(v, [rec[v] EXCEPT !.phase = "Complete"])
          /\ Goto(v, "remove_vm")
          /\ UNCHANGED why
       \/ /\ ~AllRemoved(rec[v]) /\ GivesUp(rec[v])
          /\ Goto(v, "put_abandoned")
          /\ UNCHANGED <<rec, why>>
       \/ /\ ~AllRemoved(rec[v]) /\ ~GivesUp(rec[v])
          /\ PassReturns(v, FALSE)
          /\ UNCHANGED rec
    /\ UNCHANGED <<hostVars, hasRec, inventory, db, spec, cur, res, cls,
                   captured, unjournaled, worker, pathLock, boundVars>>

RemoveVm(v) ==
    /\ At(v, "remove_vm")
    /\ hasRec' = [hasRec EXCEPT ![v] = FALSE]
    /\ Journal(v, BlankRecord)
    /\ Goto(v, "remove_abandoned")
    /\ UNCHANGED <<hostVars, inventory, db, spec, cur, why, res, cls, captured,
                   unjournaled, worker, pathLock, boundVars>>

RemoveAbandoned(v) ==
    /\ At(v, "remove_abandoned")
    /\ inventory' = [inventory EXCEPT ![v] = {}]
    /\ PassReturns(v, TRUE)
    /\ UNCHANGED <<hostVars, hasRec, rec, db, spec, cur, res, cls, captured,
                   unjournaled, worker, pathLock, boundVars>>

\* abandon_remaining, first commit: merge what is left into the inventory.
PutAbandoned(v) ==
    /\ At(v, "put_abandoned")
    /\ inventory' = [inventory EXCEPT ![v] = @ \cup
          {e \in {ComputeEntry} : rec[v].compute # "Removed"} \cup
          {e \in {NetworkEntry} : rec[v].network \notin {"None", "Removed"}} \cup
          {DiskEntry(k) : k \in {j \in Disk : rec[v].disks[j].state # "Removed"}}]
    /\ Goto(v, "mark_abandoned")
    /\ UNCHANGED <<hostVars, hasRec, rec, db, spec, cur, why, res, cls,
                   captured, unjournaled, worker, pathLock, boundVars>>

Abandon(s) == IF s \in {"Removed", "None"} THEN s ELSE "Abandoned"

Abandoned(r) ==
    [r EXCEPT !.compute = Abandon(r.compute), !.network = Abandon(r.network),
              !.disks = [k \in Disk |->
                 [r.disks[k] EXCEPT !.state = Abandon(r.disks[k].state)]]]

\* abandon_remaining, second commit: the record becomes terminal.
MarkAbandoned(v) ==
    /\ At(v, "mark_abandoned")
    /\ Journal(v, Abandoned(rec[v]))
    /\ PassReturns(v, TRUE)
    /\ UNCHANGED <<hostVars, hasRec, inventory, db, spec, cur, res, cls,
                   captured, unjournaled, worker, pathLock, boundVars>>

\* ProvisioningGuard::drop, after its pass: delete each created disk that still
\* has the identity the guard saw.
RollbackUnjournaled(v) ==
    /\ At(v, "unjournaled")
    /\ \/ /\ unjournaled[v] = {}
          /\ Goto(v, "ended")
          /\ UNCHANGED <<file, unjournaled>>
       \/ \E x \in unjournaled[v] :
            /\ unjournaled' = [unjournaled EXCEPT ![v] = @ \ {x}]
            /\ file' \in {file} \cup
                 (IF file[x[1]] = x[2] /\ ~InUse(x[1]) THEN {[file EXCEPT ![x[1]] = NoFile]} ELSE {})
            /\ UNCHANGED pc
    /\ UNCHANGED <<compute, network, creator, nextId, ace, journalVars, spec,
                   cur, why, res, cls, captured, worker, pathLock, boundVars>>

-----------------------------------------------------------------------------
(* Recovery of a dead session: reconcile_stale_sessions for one file       *)

Recover(v) ==
    /\ At(v, "dead")
    /\ \/ /\ hasRec[v] /\ ~is_complete(rec[v])
          /\ Goto(v, "begin")
          /\ why' = [why EXCEPT ![v] = "recover"]
          /\ UNCHANGED <<hasRec, rec>>
       \/ /\ hasRec[v] /\ is_complete(rec[v])
          /\ hasRec' = [hasRec EXCEPT ![v] = FALSE]
          /\ Journal(v, BlankRecord)
          /\ Goto(v, "gc")
          /\ UNCHANGED why
       \/ /\ ~hasRec[v]
          /\ Goto(v, "gc")
          /\ UNCHANGED <<hasRec, rec, why>>
    /\ UNCHANGED <<hostVars, inventory, db, spec, cur, res, cls, captured,
                   unjournaled, worker, pathLock, boundVars>>

\* The abandoned inventory forgotten when the session file is collected.
KeptForRecords(v) == hasRec[v] /\ ~is_complete(rec[v])

Kept(v) == (hasRec[v] /\ ~is_complete(rec[v])) \/ inventory[v] # {}

\* Remove the session file unless it still holds an incomplete record or an
\* abandoned inventory.
CollectSession(v) ==
    /\ At(v, "gc")
    /\ db' = [db EXCEPT ![v] = Kept(v)]
    /\ Goto(v, IF Kept(v) THEN "dead" ELSE "gone")
    /\ UNCHANGED <<hostVars, hasRec, rec, inventory, spec, cur, why, res, cls,
                   captured, unjournaled, worker, pathLock, boundVars>>

-----------------------------------------------------------------------------
(* Faults and the world outside Jyth                                       *)

\* A journal commit fails.  While provisioning this is one more `?` under the
\* guard (the network creation also deletes what it can of its own); in a
\* pass it ends the pass with an error; recovery gives the session up.
JournalFails(v) ==
    /\ faults < MaxFaults
    /\ faults' = faults + 1
    /\ \/ /\ pc[v] \in {"disk_journal", "ace_journal", "compute_journal"}
          /\ Rollback(v)
          /\ UNCHANGED <<network, res>>
       \/ /\ At(v, "network_journal")
          /\ \E left \in SUBSET network[v] :
                network' = [network EXCEPT ![v] = left]
          /\ Rollback(v)
          /\ UNCHANGED res
       \/ /\ \/ pc[v] \in {"begin", "remove_vm", "remove_abandoned",
                           "put_abandoned", "mark_abandoned"}
             \/ pc[v] \in {"rm_compute", "rm_network", "rm_disk"} /\ res[v] # "none"
             \/ At(v, "rm_disk") /\ cur[v] > NumDisks
          /\ PassReturns(v, FALSE)
          /\ res' = [res EXCEPT ![v] = "none"]
          /\ UNCHANGED <<network, pathLock>>
       \/ /\ At(v, "gc")
          /\ Goto(v, "dead")
          /\ UNCHANGED <<network, why, res, pathLock>>
    /\ UNCHANGED <<compute, file, creator, nextId, ace, journalVars, spec, cur,
                   cls, captured, unjournaled, worker, userOps>>

\* The process acting for v goes away: its memory, its blocking workers and
\* its named mutexes with it.  The host resources and the journal stay.
Gone(v) ==
    /\ Goto(v, "dead")
    /\ cur' = [cur EXCEPT ![v] = 1]
    /\ why' = [why EXCEPT ![v] = "none"]
    /\ res' = [res EXCEPT ![v] = "none"]
    /\ cls' = [cls EXCEPT ![v] = "none"]
    /\ captured' = [captured EXCEPT ![v] = NoFile]
    /\ unjournaled' = [unjournaled EXCEPT ![v] = {}]
    /\ worker' = [worker EXCEPT ![v] = "none"]
    /\ Unlock(v)
    /\ UNCHANGED <<hostVars, journalVars, spec>>

Exit(v) ==
    /\ At(v, "ended")
    /\ Gone(v)
    /\ UNCHANGED boundVars

Crash(v) ==
    /\ pc[v] \notin {"ended", "dead", "gone"}
    /\ faults < MaxFaults
    /\ faults' = faults + 1
    /\ Gone(v)
    /\ UNCHANGED userOps

\* Jyth is between looking at the file of path p and acting on it.
InWindow(p) ==
    \E v \in VM :
      /\ pc[v] \in {"capture", "disk_journal", "grant", "rm_file"}
      /\ PathOf(v) = p

\* The user creates, replaces or removes the file at a path.
UserChanges(p) ==
    /\ userOps < MaxUserOps
    /\ userOps' = userOps + 1
    /\ UserRaces \/ ~InWindow(p)
    /\ ~InUse(p)
    /\ \/ /\ nextId <= MaxFiles
          /\ file' = [file EXCEPT ![p] = nextId]
          /\ nextId' = nextId + 1
       \/ /\ file' = [file EXCEPT ![p] = NoFile]
          /\ UNCHANGED nextId
    /\ UNCHANGED <<compute, network, creator, ace, journalVars, localVars,
                   pathLock, faults>>

\* The guest powers itself off.
GuestStops(v) ==
    /\ compute[v] = "started"
    /\ compute' = [compute EXCEPT ![v] = "absent"]
    /\ UNCHANGED <<network, file, creator, nextId, ace, journalVars, localVars,
                   pathLock, boundVars>>

\* The operator removes an abandoned resource through hcs-admin.
OperatorRemoves(v) ==
    /\ \/ /\ ComputeEntry \in inventory[v] /\ compute[v] # "absent"
          /\ compute' = [compute EXCEPT ![v] = "absent"]
          /\ UNCHANGED network
       \/ /\ NetworkEntry \in inventory[v] /\ network[v] # {}
          /\ network' = [network EXCEPT ![v] = {}]
          /\ UNCHANGED compute
    /\ UNCHANGED <<file, creator, nextId, ace, journalVars, localVars, pathLock,
                   boundVars>>

\* Every session ended and was collected.
Finished == (\A v \in VM : At(v, "gone")) /\ UNCHANGED vars

Provision(v) ==
    \/ \E sp \in Specs, nic \in Nics : PutVm(v, sp, nic)
    \/ CreateNetwork(v) \/ CreateEndpoint(v) \/ JournalNetwork(v)
    \/ LockPath(v) \/ Materialize(v) \/ CaptureIdentity(v) \/ JournalDisk(v)
    \/ GrantAccess(v) \/ JournalAce(v)
    \/ SubmitCreate(v) \/ WorkerCreates(v) \/ JoinCreate(v) \/ DropFuture(v)
    \/ JournalCompute(v)

Clean(v) ==
    \/ BeginPass(v)
    \/ RemoveCompute(v) \/ ApplyCompute(v)
    \/ RemoveNetwork(v) \/ ApplyNetwork(v)
    \/ RemoveDisk(v) \/ DeleteFile(v) \/ ApplyDisk(v)
    \/ Verdict(v) \/ RemoveVm(v) \/ RemoveAbandoned(v)
    \/ PutAbandoned(v) \/ MarkAbandoned(v) \/ RollbackUnjournaled(v)

VmNext(v) ==
    \/ Provision(v)
    \/ start(v) \/ mark_published(v) \/ GuestStops(v) \/ close(v) \/ drop(v)
    \/ Clean(v)
    \/ Recover(v) \/ CollectSession(v)
    \/ JournalFails(v) \/ Exit(v) \/ Crash(v) \/ OperatorRemoves(v)

Next == (\E v \in VM : VmNext(v)) \/ (\E p \in Path : UserChanges(p)) \/ Finished

Spec == Init /\ [][Next]_vars

\* A running cleanup pass goes on, an ended process exits, and sessions keep
\* being opened, so that recovery reaches every dead session again.
Fairness == \A v \in VM : WF_vars(Clean(v)) /\ WF_vars(Exit(v))
                          /\ WF_vars(Recover(v)) /\ WF_vars(CollectSession(v))

FairSpec == Spec /\ Fairness

-----------------------------------------------------------------------------
(* The inductive invariant behind the leak theorems                        *)

\* Stages in which the acting process relies on its record being there.
NeedsRecord == (Provisioning \cup Cleaning \cup {"created", "running"})
               \ {"begin", "remove_abandoned"}

\* Where a launch or a pass stands, and what its record says there.
StageInv(v) ==
    /\ pc[v] \in NeedsRecord => hasRec[v]
    /\ pc[v] \in Provisioning => rec[v].phase = "Planned" /\ rec[v].compute = "Planned"
    /\ pc[v] \in {"network", "endpoint", "network_journal"}
         => rec[v].network = "Planned"
    /\ pc[v] \in {"rm_compute", "rm_network", "rm_disk", "rm_file",
                  "put_abandoned", "mark_abandoned"}
         => rec[v].phase = "CleanupPending"
    /\ At(v, "remove_vm") => rec[v].phase = "Complete"
    /\ At(v, "idle") => ~hasRec[v] /\ inventory[v] = {}
    /\ At(v, "remove_abandoned") => ~hasRec[v] /\ compute[v] = "absent"
                                    /\ network[v] = {}
    /\ worker[v] # "none" => At(v, "await")
    /\ res[v] # "none" => \/ pc[v] \in {"rm_compute", "rm_network"}
                          \/ At(v, "rm_disk") /\ cur[v] <= NumDisks
    /\ ~db[v] => /\ At(v, "gone")
                 /\ inventory[v] = {}
                 /\ hasRec[v] => is_complete(rec[v])

\* The journal never claims more than the host granted: Removed means absent,
\* Abandoned means listed, no record and no entry means absent.
HonestInv(v) ==
    /\ At(v, "rm_compute") /\ res[v] = "ok" => compute[v] = "absent"
    /\ At(v, "rm_network") /\ res[v] = "ok" => network[v] = {}
    /\ hasRec[v] /\ rec[v].compute = "Removed" => compute[v] = "absent"
    /\ hasRec[v] /\ rec[v].network \in {"None", "Removed"} => network[v] = {}
    /\ hasRec[v] /\ rec[v].phase = "Complete" => AllRemoved(rec[v])
    /\ hasRec[v] /\ rec[v].compute = "Abandoned" => ComputeEntry \in inventory[v]
    /\ hasRec[v] /\ rec[v].network = "Abandoned" => NetworkEntry \in inventory[v]
    /\ At(v, "mark_abandoned") =>
         /\ rec[v].compute # "Removed" => ComputeEntry \in inventory[v]
         /\ rec[v].network \notin {"None", "Removed"} => NetworkEntry \in inventory[v]
    /\ ~hasRec[v] /\ ComputeEntry \notin inventory[v] => compute[v] = "absent"
    /\ ~hasRec[v] /\ NetworkEntry \notin inventory[v] => network[v] = {}

LeakInv == \A v \in VM : StageInv(v) /\ HonestInv(v)

(* The inductive invariant behind the deletion theorems                    *)

\* The file identities v refers to were handed out before.
FreshInv(v) ==
    /\ captured[v] < nextId
    /\ \A x \in unjournaled[v] : x[2] < nextId
    /\ \A k \in Disk : rec[v].disks[k].identity < nextId

\* What v's guard, launch and record call created by v was created by v; and a
\* file about to be deleted is the recorded one, and deletable.
OwnInv(v) ==
    /\ \A x \in unjournaled[v] : creator[x[2]] = v
    /\ At(v, "capture") /\ cls[v] = "Create"
         => file[PathOf(v)] # NoFile /\ creator[file[PathOf(v)]] = v
    /\ At(v, "disk_journal") => captured[v] # NoFile
    /\ At(v, "disk_journal") /\ cls[v] = "Create" => creator[captured[v]] = v
    /\ \A k \in Disk :
         LET d == rec[v].disks[k] IN
         d.origin = "CreatedByLaunch" /\ d.identity # NoFile => creator[d.identity] = v
    /\ At(v, "rm_file") =>
         LET d == rec[v].disks[cur[v]] IN
         Deletable(d) /\ d.identity # NoFile /\ file[PathOf(v)] = d.identity

\* The record agrees with the request on what must be kept.
KeepInv(v) ==
    /\ rec[v].published => /\ \A k \in Disk : rec[v].disks[k].published
                           /\ unjournaled[v] = {}
    /\ pc[v] \in Provisioning => ~rec[v].published
    /\ pc[v] \in {"created", "running"} => unjournaled[v] = {}
    /\ hasRec[v] => \A k \in Disk : spec[v][k].retention = "Persistent"
                                      => rec[v].disks[k].retention = "Persistent"
    /\ hasRec[v] => \A j, k \in Disk : spec[v][j].path = spec[v][k].path => j = k

DiskInv ==
    /\ \A p \in Path : file[p] < nextId
    /\ \A v \in VM : FreshInv(v) /\ OwnInv(v) /\ KeepInv(v)

(* The inductive invariant behind the theorem on dropped records           *)

\* Disk k of v's record is no file that its removal should have deleted.
Cleared(v, k) ==
    LET d == rec[v].disks[k] IN
    Deletable(d) /\ d.identity # NoFile => file[spec[v][k].path] # d.identity

\* What the state of disk k in v's record stands for.
Settled(v, k) ==
    LET d == rec[v].disks[k] IN
    /\ d.state = "Planned" => d.identity = NoFile
    /\ d.state = "Removed" => Cleared(v, k)
    /\ d.state = "Abandoned" => DiskEntry(k) \in inventory[v]

\* A removal that reports success has left no file of its own, and the record
\* becomes terminal only after the inventory lists what is left.
ClearInv(v) ==
    /\ hasRec[v] => \A k \in Disk : Settled(v, k)
    /\ At(v, "rm_disk") /\ res[v] = "ok" => Cleared(v, cur[v])
    /\ At(v, "mark_abandoned") =>
         \A k \in Disk : rec[v].disks[k].state # "Removed" => DiskEntry(k) \in inventory[v]

RemovalInv == \A v \in VM : ClearInv(v)

-----------------------------------------------------------------------------
(* Properties                                                              *)

HostType ==
    /\ compute \in [VM -> SystemState]
    /\ network \in [VM -> SUBSET {"network", "endpoint"}]
    /\ file \in [Path -> FileId \cup {NoFile}]
    /\ creator \in [FileId -> VM \cup {User}]
    /\ nextId \in 1..(MaxFiles + 1)
    /\ ace \in [VM -> SUBSET FileId]

JournalType ==
    /\ hasRec \in [VM -> BOOLEAN]
    /\ rec \in [VM -> VmResourceRecord]
    /\ inventory \in [VM -> SUBSET Entry]
    /\ db \in [VM -> BOOLEAN]

\* Stages that work on the disk cur[v].
DiskStages ==
    {"classify", "capture", "disk_journal", "grant", "ace_journal", "rm_file"}

StepType ==
    /\ pc \in [VM -> Stage]
    /\ cur \in [VM -> 1..(NumDisks + 1)]
    /\ why \in [VM -> {"none", "rollback", "close", "drop", "recover"}]
    /\ res \in [VM -> {"none", "ok", "fail"}]
    /\ worker \in [VM -> {"none", "running", "made", "error"}]
    /\ \A v \in VM : pc[v] \in DiskStages => cur[v] \in Disk

LaunchType ==
    /\ spec \in [VM -> [Disk -> DiskSpec]]
    /\ cls \in [VM -> {"none", "Create", "Reuse", "ReuseAndReclassify"}]
    /\ captured \in [VM -> FileId \cup {NoFile}]
    /\ unjournaled \in [VM -> SUBSET (Path \X FileId)]
    /\ pathLock \in [Path -> VM \cup {Free}]

BoundType == userOps \in 0..MaxUserOps /\ faults \in 0..MaxFaults

\* Every value stays in its type, and a stage that works on a disk has one: no
\* pass or launch walks past the end of its disk list.
TypeOK == HostType /\ JournalType /\ StepType /\ LaunchType /\ BoundType

\* A compute system or HNS object that exists on the host is either named by a
\* live journal record that does not call it Removed, so that a later pass will
\* try it, or listed in the abandoned inventory: whatever crashed, failed or
\* was retried, nothing leaks without a trace (put_vm before every side effect,
\* apply_resource_outcome after it, abandon_remaining's two commits).
NoSilentLeak ==
    \A v \in VM :
      /\ compute[v] # "absent" => \/ hasRec[v] /\ rec[v].compute # "Removed"
                                \/ ComputeEntry \in inventory[v]
      /\ network[v] # {} => \/ hasRec[v] /\ rec[v].network \notin {"None", "Removed"}
                            \/ NetworkEntry \in inventory[v]

\* A session file is garbage-collected only when its VM left no compute system
\* and no network behind (the last test of reconcile_stale_sessions).
CollectedSessionLeavesNothing ==
    \A v \in VM : ~db[v] => compute[v] = "absent" /\ network[v] = {}

\* A step of Jyth, not of the user, makes the file at p disappear.
JythDeletes(p) ==
    file[p] # NoFile /\ file'[p] # file[p] /\ userOps' = userOps

StepOf(v) == <<pc[v], res[v], unjournaled[v]>> # <<pc'[v], res'[v], unjournaled'[v]>>

\* Jyth only ever deletes a VHDX that the very VM being cleaned up created, over
\* any history of crashes, recoveries, reuse of a path by another VM and files
\* replaced by the user (remove_disk and the guard compare file identities).
DeletesOnlyOwnDisks ==
    [][\A p \in Path : JythDeletes(p) =>
         \E v \in VM : creator[file[p]] = v /\ StepOf(v)]_vars

\* A persistent disk of a launch that reached publication survives every pass
\* over its record (remove_disk's `deletable`, mark_published).
PublishedPersistentKept ==
    [][\A p \in Path : JythDeletes(p) =>
         \A v \in VM, k \in Disk :
           ~ /\ hasRec[v] /\ rec[v].published
             /\ spec[v][k].path = p /\ spec[v][k].retention = "Persistent"
             /\ rec[v].disks[k].identity = file[p]
             /\ StepOf(v)]_vars

\* A record leaves the journal only when each disk it recorded as its own to
\* delete, with the identity of its file, is gone from its path or listed in the
\* abandoned inventory (remove_vm in a finished pass and in
\* reconcile_stale_sessions).  A disk whose identity was never committed is the
\* subject of EphemeralDisksReclaimed.
DroppedRecordLeavesNoDisk ==
    [][\A v \in VM : hasRec[v] /\ ~hasRec'[v] =>
         \A k \in Disk :
           LET d == rec[v].disks[k] IN
           /\ Deletable(d) /\ d.identity # NoFile
           /\ file[spec[v][k].path] = d.identity
           => DiskEntry(k) \in inventory[v]]_vars

\* The abandoned inventory of a VM is only ever cleared once its compute system
\* and its network are gone (remove_abandoned comes last in a finished pass).
InventoryClearedOnlyWhenGone ==
    [][\A v \in VM : inventory[v] # {} /\ inventory'[v] = {} =>
         compute[v] = "absent" /\ network[v] = {}]_vars

\* Recovery does not retry for ever: the record of a dead session is eventually
\* removed or terminal, even if every removal keeps failing
\* (MAX_CLEANUP_ATTEMPTS).
RecoveryTerminates ==
    \A v \in VM :
      (At(v, "dead") /\ hasRec[v]) ~> (~hasRec[v] \/ is_complete(rec[v]))

\* What the provisioning guard's comment promises: creating a disk and crashing
\* or failing before its identity is committed loses nothing, so that once the
\* session is collected no ephemeral disk of its VM is left.
EphemeralDisksReclaimed ==
    \A v \in VM, k \in Disk :
      LET p == spec[v][k].path IN
      At(v, "gone") /\ spec[v][k].retention = "Ephemeral" /\ file[p] # NoFile
        => creator[file[p]] # v

\* What the materialization matrix promises ("Existing | Persistent | Validate
\* and attach, never initialize, retain"): Jyth does not delete a file that a
\* running VM attached as an existing disk.
AttachedDiskRetained ==
    [][\A p \in Path : JythDeletes(p) =>
         ~\E v \in VM, k \in Disk :
            /\ pc[v] \in {"created", "running"} /\ spec[v][k].path = p
            /\ rec[v].disks[k].origin = "PreExisting"
            /\ rec[v].disks[k].identity = file[p]]_vars

=============================================================================
