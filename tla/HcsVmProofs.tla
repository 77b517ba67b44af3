----------------------------- MODULE HcsVmProofs -----------------------------
(***************************************************************************)
(* Type correctness of HcsVm, the fact that a step of one VM leaves the    *)
(* state of every other VM alone, and that no compute system or HNS object *)
(* of a VM is lost: every one that exists is named by the VM's journal     *)
(* record or by the abandoned inventory, for all values of the constants.  *)
(*                                                                         *)
(* The inductive invariant is LeakInv.  StageInv ties the step of a launch *)
(* or a pass to what its record says there, HonestInv says that the        *)
(* journal never claims more than the host granted.  The assumption is     *)
(* that a launch future is not dropped while HcsCreateComputeSystem runs   *)
(* in its blocking worker: without it NoSilentLeak does not hold.          *)
(*                                                                         *)
(* Jyth deletes only files it owns: a cleanup pass or a rollback deletes a *)
(* VHDX only if the VM it runs for created it, and never the persistent    *)
(* disk of a published launch.                                             *)
(*                                                                         *)
(* The inductive invariant is DiskInv: identities in use were handed out   *)
(* before (FreshInv), what a launch, its guard and its record call created *)
(* by the VM was created by it (OwnInv), and the record agrees with the    *)
(* request on what must be kept (KeepInv).  The path lock is not needed:   *)
(* the identity check carries the proof.  The assumption is that the user  *)
(* does not replace a file between Jyth's look at it and its use.          *)
(*                                                                         *)
(* And Jyth leaves no file of its own behind: when a record is dropped     *)
(* from the journal, each of its deletable disks is gone or listed in the  *)
(* abandoned inventory.  RemovalInv carries this: a removed disk is gone   *)
(* from its path for good, because identities are never handed out twice.  *)
(***************************************************************************)
EXTENDS HcsVm, TLAPS

\* A leaf that names no prover is one for Zenon.
USE Zenon

\* Abbreviations that every step expands.
USE DEF At, Goto, Journal, Attempted, hostVars, journalVars, localVars, boundVars

-----------------------------------------------------------------------------
(* The values that the operators build                                     *)

\* A fresh record is a record.
LEMMA PlannedRecordType ==
    ASSUME NEW sp \in [Disk -> DiskSpec], NEW nic \in BOOLEAN
    PROVE  PlannedRecord(sp, nic) \in VmResourceRecord
  <1>1. [k \in Disk |->
            [state |-> "Planned", origin |-> "CreatedByLaunch",
             retention |-> sp[k].retention, identity |-> NoFile,
             ace |-> FALSE, published |-> FALSE]] \in [Disk -> DiskResource]
    BY DEF DiskResource, DiskSpec, ResourceState, NoFile, Retention
  <1>. QED  BY <1>1 DEF PlannedRecord, VmResourceRecord, VmResourcePhase, ResourceState

\* The values a VM starts with have their types.
LEMMA BlankTypes ==
    /\ BlankSpec \in [Disk -> DiskSpec]
    /\ BlankRecord \in VmResourceRecord
  <1>1. (CHOOSE p \in Path : TRUE) \in Path
    BY VmAssumption
  <1>2. BlankSpec \in [Disk -> DiskSpec]
    BY <1>1 DEF BlankSpec, DiskSpec, Retention
  <1>. QED  BY <1>2, PlannedRecordType DEF BlankRecord

\* The updates the passes make to a record keep it a record.
LEMMA RecordUpdates ==
    ASSUME NEW r \in VmResourceRecord, NEW s \in ResourceState
    PROVE  /\ [r EXCEPT !.network = s] \in VmResourceRecord
           /\ [r EXCEPT !.compute = s] \in VmResourceRecord
           /\ [r EXCEPT !.compute = s, !.phase = "Starting"] \in VmResourceRecord
           /\ [r EXCEPT !.phase = "Complete"] \in VmResourceRecord
           /\ [r EXCEPT !.phase = "CleanupPending", !.attempts = r.attempts + 1]
                \in VmResourceRecord
  <1>1. [r EXCEPT !.network = s] \in VmResourceRecord
    BY DEF VmResourceRecord
  <1>2. [r EXCEPT !.compute = s] \in VmResourceRecord
    BY DEF VmResourceRecord
  <1>3. [r EXCEPT !.compute = s, !.phase = "Starting"] \in VmResourceRecord
    BY DEF VmResourceRecord, VmResourcePhase
  <1>4. [r EXCEPT !.phase = "Complete"] \in VmResourceRecord
    BY DEF VmResourceRecord, VmResourcePhase
  <1>5. [r EXCEPT !.phase = "CleanupPending", !.attempts = r.attempts + 1]
           \in VmResourceRecord
    <2>1. r.attempts + 1 \in Nat
      BY SMT DEF VmResourceRecord
    <2>2. \A n \in Nat : [r EXCEPT !.phase = "CleanupPending", !.attempts = n]
             \in VmResourceRecord
      BY DEF VmResourceRecord, VmResourcePhase
    <2>. QED  BY <2>1, <2>2
  <1>. QED  BY <1>1, <1>2, <1>3, <1>4, <1>5

\* Updates of one disk, or of all, keep a record a record.
LEMMA DiskUpdates ==
    ASSUME NEW r \in VmResourceRecord
    PROVE  /\ \A k \in Disk, d \in DiskResource : SetDisk(r, k, d) \in VmResourceRecord
           /\ Published(r) \in VmResourceRecord
           /\ Abandoned(r) \in VmResourceRecord
  <1>1. \A k \in Disk, d \in DiskResource : SetDisk(r, k, d) \in VmResourceRecord
    BY DEF SetDisk, VmResourceRecord
  <1>2. \A k \in Disk : r.disks[k] \in DiskResource
    BY DEF VmResourceRecord
  <1>3. Published(r) \in VmResourceRecord
    <2>1. \A k \in Disk : [r.disks[k] EXCEPT !.published = TRUE] \in DiskResource
      BY <1>2 DEF DiskResource
    <2>2. \A f \in [Disk -> DiskResource] :
             [r EXCEPT !.phase = "Published", !.published = TRUE, !.disks = f]
               \in VmResourceRecord
      BY DEF VmResourceRecord, VmResourcePhase
    <2>. QED  BY <2>1, <2>2 DEF Published
  <1>4. Abandoned(r) \in VmResourceRecord
    <2>1. \A k \in Disk : [r.disks[k] EXCEPT !.state = Abandon(r.disks[k].state)]
                            \in DiskResource
      BY <1>2, SMT DEF DiskResource, ResourceState, Abandon
    <2>2. /\ Abandon(r.compute) \in ResourceState
          /\ Abandon(r.network) \in ResourceState \cup {"None"}
      BY DEF VmResourceRecord, ResourceState, Abandon
    <2>3. \A f \in [Disk -> DiskResource], s \in ResourceState,
             n \in ResourceState \cup {"None"} :
             [r EXCEPT !.compute = s, !.network = n, !.disks = f] \in VmResourceRecord
      BY DEF VmResourceRecord
    <2>. QED  BY <2>1, <2>2, <2>3 DEF Abandoned
  <1>. QED  BY <1>1, <1>3, <1>4

\* A disk after materialization or removal is a disk.
LEMMA DiskTypes ==
    ASSUME NEW d \in DiskResource
    PROVE  /\ \A made \in BOOLEAN, t \in Retention, id \in FileId \cup {NoFile} :
                Materialized(d, made, t, id) \in DiskResource
           /\ [d EXCEPT !.ace = TRUE] \in DiskResource
           /\ \A x \in {"none", "ok", "fail"} : DiskOutcome(d, x) \in DiskResource
  BY ZenonT(30) DEF DiskResource, Materialized, DiskOutcome, Outcome, ResourceState, Retention

\* What classifying and creating the VHDX comes to.
LEMMA MaterializeSteps ==
    ASSUME NEW v \in VM, Materialize(v)
    PROVE  /\ At(v, "classify")
           /\ \/ NewVhd(v) /\ file[PathOf(v)] = NoFile
              \/ UNCHANGED <<file, creator, nextId>>
           /\ \/ \E c \in {"Create", "Reuse", "ReuseAndReclassify"} :
                   Proceed(v, c) /\ (c = "Create" => NewVhd(v))
              \/ Rollback(v) /\ UNCHANGED cls
           /\ UNCHANGED <<compute, network, ace, journalVars, spec, cur, res,
                          captured, unjournaled, worker, boundVars>>
  <1>. DEFINE d == spec[v][cur[v]]
              found == classify_disk(file[PathOf(v)] # NoFile, d.retention, d.onExisting)
              again == classify_disk(TRUE, d.retention, d.onExisting)
  <1>1. found = "Create" => file[PathOf(v)] = NoFile
    BY DEF classify_disk
  <1>2. again # "RejectExisting" => again \in {"Reuse", "ReuseAndReclassify"}
    BY DEF classify_disk
  <1>3. /\ At(v, "classify")
        /\ \/ /\ found = "Create"
              /\ NewVhd(v)
              /\ \/ Proceed(v, "Create")
                 \/ Proceed(v, again)
                 \/ Rollback(v) /\ UNCHANGED cls
           \/ /\ found \in {"Reuse", "ReuseAndReclassify"}
              /\ Proceed(v, found)
              /\ UNCHANGED <<file, creator, nextId>>
           \/ Rollback(v) /\ UNCHANGED <<file, creator, nextId, cls>>
        /\ UNCHANGED <<compute, network, ace, journalVars, spec, cur, res,
                       captured, unjournaled, worker, boundVars>>
    BY DEF Materialize
  <1>4. Proceed(v, again) => again # "RejectExisting"
    BY DEF Proceed
  <1>. HIDE DEF found, again
  <1>. QED  BY <1>1, <1>2, <1>3, <1>4

\* Every step of a VM keeps the types: one case per action.
LEMMA VmStepType ==
    ASSUME TypeOK, NEW v \in VM, VmNext(v)
    PROVE  TypeOK'
  <1>a. HostType /\ JournalType /\ StepType /\ LaunchType /\ BoundType
    BY DEF TypeOK
  <1>1. ASSUME NEW sp \in Specs, NEW nic \in Nics, PutVm(v, sp, nic)
        PROVE  TypeOK'
    <2>1. sp \in [Disk -> DiskSpec] /\ nic \in BOOLEAN
      BY VmAssumption DEF Specs
    <2>2. PlannedRecord(sp, nic) \in VmResourceRecord
      BY <2>1, PlannedRecordType
    <2>3. HostType' /\ BoundType'
      BY <1>a, <1>1 DEF HostType, BoundType, PutVm
    <2>4. JournalType'
      BY <1>a, <1>1, <2>2 DEF JournalType, PutVm
    <2>5. StepType'
      BY <1>a, <1>1 DEF StepType, PutVm, Stage, Provisioning, DiskStages
    <2>6. LaunchType'
      BY <1>a, <1>1, <2>1 DEF LaunchType, PutVm
    <2>. QED  BY <2>3, <2>4, <2>5, <2>6 DEF TypeOK
  <1>2. CASE CreateNetwork(v)
    <2>1. JournalType' /\ BoundType'
      BY <1>a, <1>2 DEF JournalType, BoundType, CreateNetwork
    <2>2. HostType'
      BY <1>a, <1>2, SMT DEF HostType, CreateNetwork, Rollback
    <2>3. StepType'
      BY <1>a, <1>2, SMT DEF StepType, Stage, Provisioning, Cleaning, DiskStages,
        Disk, CreateNetwork, Rollback
    <2>4. LaunchType'
      BY <1>a, <1>2 DEF LaunchType, CreateNetwork, Rollback, Unlock
    <2>. QED  BY <2>1, <2>2, <2>3, <2>4 DEF TypeOK
  <1>3. CASE CreateEndpoint(v)
    <2>1. JournalType' /\ BoundType'
      BY <1>a, <1>3 DEF JournalType, BoundType, CreateEndpoint
    <2>2. HostType'
      <3>1. \E left \in SUBSET {"network", "endpoint"} :
              network' = [network EXCEPT ![v] = left]
        BY <1>3 DEF CreateEndpoint
      <3>2. network' \in [VM -> SUBSET {"network", "endpoint"}]
        BY <1>a, <3>1 DEF HostType
      <3>3. UNCHANGED <<compute, file, creator, nextId, ace>>
        BY <1>3 DEF CreateEndpoint
      <3>. QED  BY <1>a, <3>2, <3>3 DEF HostType
    <2>3. StepType'
      BY <1>a, <1>3, SMT DEF StepType, Stage, Provisioning, Cleaning, DiskStages,
        Disk, CreateEndpoint, Rollback
    <2>4. LaunchType'
      BY <1>a, <1>3 DEF LaunchType, CreateEndpoint, Rollback, Unlock
    <2>. QED  BY <2>1, <2>2, <2>3, <2>4 DEF TypeOK
  <1>4. CASE JournalNetwork(v)
    <2>1. HostType' /\ BoundType'
      BY <1>a, <1>4 DEF HostType, BoundType, JournalNetwork
    <2>2. JournalType'
      <3>0. rec[v] \in VmResourceRecord
        BY <1>a DEF JournalType
      <3>1. [rec[v] EXCEPT !.network = "Created"] \in VmResourceRecord
        BY <3>0, RecordUpdates DEF ResourceState
      <3>. QED  BY <1>a, <1>4, <3>1 DEF JournalType, JournalNetwork
    <2>3. StepType'
      BY <1>a, <1>4 DEF StepType, Stage, Provisioning, Cleaning, DiskStages,
        Disk, JournalNetwork
    <2>4. LaunchType'
      BY <1>a, <1>4 DEF LaunchType, JournalNetwork
    <2>. QED  BY <2>1, <2>2, <2>3, <2>4 DEF TypeOK
  <1>5. CASE LockPath(v)
    <2>1. HostType' /\ JournalType' /\ BoundType'
      BY <1>a, <1>5, ZenonT(30) DEF HostType, JournalType, BoundType, LockPath
    <2>2. StepType'
      BY <1>a, <1>5, SMT DEF StepType, Stage, Provisioning, Cleaning, DiskStages,
        Disk, LockPath, Rollback, PathOf
    <2>3. LaunchType'
      BY <1>a, <1>5, ZenonT(30) DEF LaunchType, LockPath, Rollback, PathOf, Unlock
    <2>. QED  BY <2>1, <2>2, <2>3 DEF TypeOK
  <1>6. CASE Materialize(v)
    <2>0. /\ pc[v] = "classify" /\ cur[v] \in Disk /\ PathOf(v) \in Path
      BY <1>a, <1>6, MaterializeSteps, SMT DEF PathOf, StepType, LaunchType, DiskStages, DiskSpec
    <2>1. JournalType' /\ BoundType'
      BY <1>a, <1>6, MaterializeSteps DEF JournalType, BoundType
    <2>2. HostType'
      <3>1. UNCHANGED <<file, creator, nextId>> \/ NewVhd(v)
        BY <1>6, MaterializeSteps
      <3>2. UNCHANGED <<compute, network, ace>>
        BY <1>6, MaterializeSteps
      <3>3. CASE UNCHANGED <<file, creator, nextId>>
        BY <1>a, <3>2, <3>3 DEF HostType
      <3>4. CASE NewVhd(v)
        <4>1. nextId \in FileId /\ nextId' \in 1..(MaxFiles + 1)
          BY <1>a, <3>4, VmAssumption, SMT DEF HostType, NewVhd, FileId
        <4>2. file' \in [Path -> FileId \cup {NoFile}]
          BY <1>a, <2>0, <3>4, <4>1 DEF HostType, NewVhd
        <4>3. creator' \in [FileId -> VM \cup {User}]
          BY <1>a, <3>4, <4>1 DEF HostType, NewVhd
        <4>. QED  BY <1>a, <3>2, <4>1, <4>2, <4>3 DEF HostType
      <3>. QED  BY <3>1, <3>3, <3>4
    <2>3. StepType'
      <3>1. /\ \E s \in {"capture", "begin"} : pc' = [pc EXCEPT ![v] = s]
            /\ why' = why \/ why' = [why EXCEPT ![v] = "rollback"]
            /\ UNCHANGED <<cur, res, worker>>
        BY <1>6, MaterializeSteps DEF Proceed, Rollback
      <3>. QED  BY <1>a, <2>0, <3>1, SMT DEF StepType, Stage, Provisioning, Cleaning, DiskStages
    <2>4. LaunchType'
      <3>1. \/ cls' = cls
            \/ \E c \in {"Create", "Reuse", "ReuseAndReclassify"} :
                  cls' = [cls EXCEPT ![v] = c]
        BY <1>6, MaterializeSteps DEF Proceed
      <3>2. pathLock' = pathLock \/ Unlock(v)
        BY <1>6, MaterializeSteps DEF Proceed, Rollback
      <3>3. UNCHANGED <<spec, captured, unjournaled>>
        BY <1>6, MaterializeSteps
      <3>. QED  BY <1>a, <3>1, <3>2, <3>3 DEF LaunchType, Unlock
    <2>. QED  BY <2>1, <2>2, <2>3, <2>4 DEF TypeOK
  <1>7. CASE CaptureIdentity(v)
    <2>1. HostType' /\ JournalType' /\ BoundType'
      BY <1>a, <1>7, ZenonT(30) DEF HostType, JournalType, BoundType, CaptureIdentity
    <2>2. StepType'
      BY <1>a, <1>7, ZenonT(30) DEF StepType, Stage, Provisioning, Cleaning, DiskStages,
        Disk, CaptureIdentity, Rollback, PathOf
    <2>3. LaunchType'
      <3>1. PathOf(v) \in Path
        BY <1>a, <1>7, SMT DEF CaptureIdentity, PathOf, StepType, LaunchType, DiskStages, DiskSpec
      <3>2. file[PathOf(v)] \in FileId \cup {NoFile}
        BY <1>a, <3>1 DEF HostType
      <3>3. captured' \in [VM -> FileId \cup {NoFile}]
        BY <1>a, <1>7, <3>2, ZenonT(30) DEF LaunchType, CaptureIdentity
      <3>4. unjournaled' \in [VM -> SUBSET (Path \X FileId)]
        BY <1>a, <1>7, <3>1, <3>2, SMT DEF LaunchType, CaptureIdentity
      <3>5. pathLock' \in [Path -> VM \cup {Free}]
        BY <1>a, <1>7, ZenonT(30) DEF LaunchType, CaptureIdentity, Rollback, Unlock
      <3>. QED  BY <1>a, <1>7, <3>3, <3>4, <3>5, ZenonT(30) DEF LaunchType, CaptureIdentity
    <2>. QED  BY <2>1, <2>2, <2>3 DEF TypeOK
  <1>8. CASE JournalDisk(v)
    <2>1. HostType' /\ BoundType'
      BY <1>a, <1>8, ZenonT(30) DEF HostType, BoundType, JournalDisk
    <2>2. JournalType'
      <3>0. rec[v] \in VmResourceRecord
        BY <1>a DEF JournalType
      <3>1. cur[v] \in Disk /\ rec[v].disks[cur[v]] \in DiskResource
        BY <1>a, <1>8, <3>0 DEF JournalDisk, StepType, DiskStages,
          VmResourceRecord
      <3>2. captured[v] \in FileId \cup {NoFile} /\ spec[v][cur[v]].retention \in Retention
        BY <1>a, <3>1, SMT DEF LaunchType, DiskSpec
      <3>3. Materialized(rec[v].disks[cur[v]], cls[v] = "Create",
                     spec[v][cur[v]].retention, captured[v]) \in DiskResource
        BY <3>1, <3>2, DiskTypes
      <3>4. SetDisk(rec[v], cur[v],
              Materialized(rec[v].disks[cur[v]], cls[v] = "Create",
                           spec[v][cur[v]].retention, captured[v])) \in VmResourceRecord
        BY <3>0, <3>1, <3>3, DiskUpdates
      <3>. QED  BY <1>a, <1>8, <3>4 DEF JournalType, JournalDisk
    <2>3. StepType'
      BY <1>a, <1>8 DEF StepType, Stage, Provisioning, Cleaning, DiskStages,
        Disk, JournalDisk
    <2>4. LaunchType'
      BY <1>a, <1>8 DEF LaunchType, JournalDisk
    <2>. QED  BY <2>1, <2>2, <2>3, <2>4 DEF TypeOK
  <1>9. CASE GrantAccess(v)
    <2>1. JournalType' /\ BoundType'
      BY <1>a, <1>9 DEF JournalType, BoundType, GrantAccess
    <2>2. HostType'
      <3>1. PathOf(v) \in Path
        BY <1>a, <1>9, SMT DEF GrantAccess, PathOf, StepType, LaunchType, DiskStages, DiskSpec
      <3>2. file[PathOf(v)] \in FileId \cup {NoFile}
        BY <1>a, <3>1 DEF HostType
      <3>3. ace' \in [VM -> SUBSET FileId]
        BY <1>a, <1>9, <3>2, SMT DEF HostType, GrantAccess
      <3>. QED  BY <1>a, <1>9, <3>3, ZenonT(30) DEF HostType, GrantAccess
    <2>3. StepType'
      BY <1>a, <1>9, ZenonT(30) DEF StepType, Stage, Provisioning, Cleaning, DiskStages,
        Disk, GrantAccess, Rollback, PathOf
    <2>4. LaunchType'
      BY <1>a, <1>9, ZenonT(30) DEF LaunchType, GrantAccess, Rollback, PathOf, Unlock
    <2>. QED  BY <2>1, <2>2, <2>3, <2>4 DEF TypeOK
  <1>10. CASE JournalAce(v)
    <2>1. HostType' /\ BoundType'
      BY <1>a, <1>10 DEF HostType, BoundType, JournalAce
    <2>2. JournalType'
      <3>0. rec[v] \in VmResourceRecord
        BY <1>a DEF JournalType
      <3>1. cur[v] \in Disk /\ rec[v].disks[cur[v]] \in DiskResource
        BY <1>a, <1>10, <3>0 DEF JournalAce, StepType, DiskStages,
          VmResourceRecord
      <3>2. SetDisk(rec[v], cur[v], [rec[v].disks[cur[v]] EXCEPT !.ace = TRUE])
              \in VmResourceRecord
        BY <3>0, <3>1, DiskTypes, DiskUpdates
      <3>. QED  BY <1>a, <1>10, <3>2 DEF JournalType, JournalAce
    <2>3. StepType'
      BY <1>a, <1>10, VmAssumption, SMT DEF StepType, Stage, Provisioning, Cleaning,
        DiskStages, Disk, JournalAce
    <2>4. LaunchType'
      BY <1>a, <1>10, ZenonT(30) DEF LaunchType, JournalAce, Unlock
    <2>. QED  BY <2>1, <2>2, <2>3, <2>4 DEF TypeOK
  <1>11. CASE SubmitCreate(v)
    <2>1. HostType' /\ JournalType' /\ BoundType'
      BY <1>a, <1>11 DEF HostType, JournalType, BoundType, SubmitCreate
    <2>2. StepType'
      BY <1>a, <1>11, ZenonT(30) DEF StepType, Stage, Provisioning, Cleaning, DiskStages,
        Disk, SubmitCreate, Rollback
    <2>3. LaunchType'
      BY <1>a, <1>11, ZenonT(30) DEF LaunchType, SubmitCreate, Rollback, Unlock
    <2>. QED  BY <2>1, <2>2, <2>3 DEF TypeOK
  <1>12. CASE WorkerCreates(v)
    <2>1. JournalType' /\ BoundType'
      BY <1>a, <1>12 DEF JournalType, BoundType, WorkerCreates
    <2>2. HostType'
      BY <1>a, <1>12, SMT DEF HostType, WorkerCreates, SystemState
    <2>3. StepType'
      BY <1>a, <1>12 DEF StepType, Stage, Provisioning, Cleaning, DiskStages,
        Disk, WorkerCreates
    <2>4. LaunchType'
      BY <1>a, <1>12, ZenonT(30) DEF LaunchType, WorkerCreates
    <2>. QED  BY <2>1, <2>2, <2>3, <2>4 DEF TypeOK
  <1>13. CASE JoinCreate(v)
    <2>1. HostType' /\ JournalType' /\ BoundType'
      BY <1>a, <1>13 DEF HostType, JournalType, BoundType, JoinCreate
    <2>2. StepType'
      BY <1>a, <1>13, SMT DEF StepType, Stage, Provisioning, Cleaning, DiskStages,
        Disk, JoinCreate, Rollback
    <2>3. LaunchType'
      BY <1>a, <1>13, ZenonT(30) DEF LaunchType, JoinCreate, Rollback, Unlock
    <2>. QED  BY <2>1, <2>2, <2>3 DEF TypeOK
  <1>14. CASE DropFuture(v)
    <2>1. HostType' /\ JournalType' /\ BoundType'
      BY <1>a, <1>14 DEF HostType, JournalType, BoundType, DropFuture
    <2>2. StepType'
      BY <1>a, <1>14, ZenonT(30) DEF StepType, Stage, Provisioning, Cleaning, DiskStages,
        Disk, DropFuture, Rollback
    <2>3. LaunchType'
      BY <1>a, <1>14 DEF LaunchType, DropFuture, Rollback, Unlock
    <2>. QED  BY <2>1, <2>2, <2>3 DEF TypeOK
  <1>15. CASE JournalCompute(v)
    <2>1. HostType' /\ BoundType'
      BY <1>a, <1>15 DEF HostType, BoundType, JournalCompute
    <2>2. JournalType'
      <3>0. rec[v] \in VmResourceRecord
        BY <1>a DEF JournalType
      <3>1. [rec[v] EXCEPT !.compute = "Created", !.phase = "Starting"] \in VmResourceRecord
        BY <3>0, RecordUpdates DEF ResourceState
      <3>. QED  BY <1>a, <1>15, <3>1 DEF JournalType, JournalCompute
    <2>3. StepType'
      BY <1>a, <1>15 DEF StepType, Stage, Provisioning, Cleaning, DiskStages,
        Disk, JournalCompute
    <2>4. LaunchType'
      BY <1>a, <1>15, ZenonT(30) DEF LaunchType, JournalCompute
    <2>. QED  BY <2>1, <2>2, <2>3, <2>4 DEF TypeOK
  <1>16. CASE start(v)
    <2>1. JournalType' /\ BoundType'
      BY <1>a, <1>16 DEF JournalType, BoundType, start
    <2>2. HostType'
      BY <1>a, <1>16, ZenonT(30) DEF HostType, start, SystemState
    <2>3. StepType'
      BY <1>a, <1>16, ZenonT(30) DEF StepType, Stage, Provisioning, Cleaning, DiskStages,
        Disk, start
    <2>4. LaunchType'
      BY <1>a, <1>16 DEF LaunchType, start
    <2>. QED  BY <2>1, <2>2, <2>3, <2>4 DEF TypeOK
  <1>17. CASE mark_published(v)
    <2>1. HostType' /\ StepType' /\ BoundType'
      BY <1>a, <1>17, ZenonT(30) DEF HostType, StepType, BoundType, mark_published
    <2>2. JournalType'
      <3>0. rec[v] \in VmResourceRecord
        BY <1>a DEF JournalType
      <3>1. Published(rec[v]) \in VmResourceRecord
        BY <3>0, DiskUpdates
      <3>. QED  BY <1>a, <1>17, <3>1, ZenonT(30) DEF JournalType, mark_published
    <2>3. LaunchType'
      BY <1>a, <1>17, ZenonT(30) DEF LaunchType, mark_published
    <2>. QED  BY <2>1, <2>2, <2>3, ZenonT(30) DEF TypeOK
  <1>18. CASE close(v)
    <2>1. HostType' /\ JournalType' /\ BoundType'
      BY <1>a, <1>18, ZenonT(30) DEF HostType, JournalType, BoundType, close
    <2>2. StepType'
      BY <1>a, <1>18 DEF StepType, Stage, Provisioning, Cleaning, DiskStages,
        Disk, close
    <2>3. LaunchType'
      BY <1>a, <1>18, ZenonT(30) DEF LaunchType, close
    <2>. QED  BY <2>1, <2>2, <2>3 DEF TypeOK
  <1>19. CASE drop(v)
    <2>1. HostType' /\ JournalType' /\ BoundType'
      BY <1>a, <1>19, ZenonT(30) DEF HostType, JournalType, BoundType, drop
    <2>2. StepType'
      BY <1>a, <1>19 DEF StepType, Stage, Provisioning, Cleaning, DiskStages,
        Disk, drop
    <2>3. LaunchType'
      BY <1>a, <1>19 DEF LaunchType, drop
    <2>. QED  BY <2>1, <2>2, <2>3 DEF TypeOK
  <1>20. CASE BeginPass(v)
    <2>1. HostType' /\ BoundType'
      BY <1>a, <1>20 DEF HostType, BoundType, BeginPass
    <2>2. JournalType'
      <3>0. rec[v] \in VmResourceRecord
        BY <1>a DEF JournalType
      <3>1. [rec[v] EXCEPT !.phase = "CleanupPending", !.attempts = rec[v].attempts + 1]
              \in VmResourceRecord
        BY <3>0, RecordUpdates DEF ResourceState
      <3>. QED  BY <1>a, <1>20, <3>1 DEF JournalType, BeginPass, PassReturns
    <2>3. StepType'
      BY <1>a, <1>20, VmAssumption, SMT DEF StepType, Stage, Provisioning, Cleaning,
        DiskStages, Disk, BeginPass, PassReturns
    <2>4. LaunchType'
      BY <1>a, <1>20, ZenonT(30) DEF LaunchType, BeginPass, PassReturns, NoFile
    <2>. QED  BY <2>1, <2>2, <2>3, <2>4 DEF TypeOK
  <1>21. CASE RemoveCompute(v)
    <2>1. JournalType' /\ BoundType'
      BY <1>a, <1>21, ZenonT(30) DEF JournalType, BoundType, RemoveCompute
    <2>2. HostType'
      BY <1>a, <1>21, ZenonT(30) DEF HostType, RemoveCompute, SystemState
    <2>3. StepType'
      BY <1>a, <1>21, SMT DEF StepType, Stage, Provisioning, Cleaning, DiskStages,
        Disk, RemoveCompute
    <2>4. LaunchType'
      BY <1>a, <1>21 DEF LaunchType, RemoveCompute
    <2>. QED  BY <2>1, <2>2, <2>3, <2>4 DEF TypeOK
  <1>22. CASE ApplyCompute(v)
    <2>1. HostType' /\ BoundType'
      BY <1>a, <1>22 DEF HostType, BoundType, ApplyCompute
    <2>2. JournalType'
      <3>0. rec[v] \in VmResourceRecord
        BY <1>a DEF JournalType
      <3>1. Outcome(res[v]) \in ResourceState
        BY DEF Outcome, ResourceState
      <3>2. [rec[v] EXCEPT !.compute = Outcome(res[v])] \in VmResourceRecord
        BY <3>0, <3>1, RecordUpdates
      <3>. QED  BY <1>a, <1>22, <3>2 DEF JournalType, ApplyCompute
    <2>3. StepType'
      BY <1>a, <1>22 DEF StepType, Stage, Provisioning, Cleaning, DiskStages,
        Disk, ApplyCompute
    <2>4. LaunchType'
      BY <1>a, <1>22, ZenonT(30) DEF LaunchType, ApplyCompute
    <2>. QED  BY <2>1, <2>2, <2>3, <2>4 DEF TypeOK
  <1>23. CASE RemoveNetwork(v)
    <2>1. JournalType' /\ BoundType'
      BY <1>a, <1>23 DEF JournalType, BoundType, RemoveNetwork
    <2>2. HostType'
      <3>1. \E left \in SUBSET network[v] : network' = [network EXCEPT ![v] = left]
        BY <1>23 DEF RemoveNetwork
      <3>2. network' \in [VM -> SUBSET {"network", "endpoint"}]
        BY <1>a, <3>1, ZenonT(30) DEF HostType
      <3>3. UNCHANGED <<compute, file, creator, nextId, ace>>
        BY <1>23, ZenonT(30) DEF RemoveNetwork
      <3>. QED  BY <1>a, <3>2, <3>3 DEF HostType
    <2>3. StepType'
      BY <1>a, <1>23, SMT DEF StepType, Stage, Provisioning, Cleaning, DiskStages,
        Disk, RemoveNetwork
    <2>4. LaunchType'
      BY <1>a, <1>23, ZenonT(30) DEF LaunchType, RemoveNetwork
    <2>. QED  BY <2>1, <2>2, <2>3, <2>4 DEF TypeOK
  <1>24. CASE ApplyNetwork(v)
    <2>1. HostType' /\ BoundType'
      BY <1>a, <1>24 DEF HostType, BoundType, ApplyNetwork
    <2>2. JournalType'
      <3>0. rec[v] \in VmResourceRecord
        BY <1>a DEF JournalType
      <3>1. Outcome(res[v]) \in ResourceState
        BY DEF Outcome, ResourceState
      <3>2. [rec[v] EXCEPT !.network = Outcome(res[v])] \in VmResourceRecord
        BY <3>0, <3>1, RecordUpdates
      <3>. QED  BY <1>a, <1>24, <3>2 DEF JournalType, ApplyNetwork
    <2>3. StepType'
      BY <1>a, <1>24 DEF StepType, Stage, Provisioning, Cleaning, DiskStages,
        Disk, ApplyNetwork
    <2>4. LaunchType'
      BY <1>a, <1>24 DEF LaunchType, ApplyNetwork
    <2>. QED  BY <2>1, <2>2, <2>3, <2>4 DEF TypeOK
  <1>25. CASE RemoveDisk(v)
    <2>1. JournalType' /\ BoundType'
      BY <1>a, <1>25 DEF JournalType, BoundType, RemoveDisk
    <2>2. HostType'
      <3>1. UNCHANGED <<compute, network, file, creator, nextId>>
        BY <1>25 DEF RemoveDisk
      <3>2. \/ ace' = ace
            \/ ace' = [ace EXCEPT ![v] = ace[v] \ {file[PathOf(v)]}]
        BY <1>25 DEF RemoveDisk
      <3>3. ace' \in [VM -> SUBSET FileId]
        BY <1>a, <3>2 DEF HostType
      <3>. QED  BY <1>a, <3>1, <3>3 DEF HostType
    <2>3. StepType'
      <3>1. cur[v] \in Disk
        <4>1. cur[v] <= NumDisks
          BY <1>25 DEF RemoveDisk
        <4>2. cur[v] \in 1..(NumDisks + 1)
          BY <1>a DEF StepType
        <4>. QED  BY <4>1, <4>2, VmAssumption, SMT DEF Disk
      <3>2. pc' = pc \/ pc' = [pc EXCEPT ![v] = "rm_file"]
        BY <1>25 DEF RemoveDisk
      <3>3. \/ res' = res
            \/ \E r \in {"ok", "fail"} : res' = [res EXCEPT ![v] = r]
        BY <1>25 DEF RemoveDisk
      <3>4. UNCHANGED <<cur, why, worker>>
        BY <1>25 DEF RemoveDisk
      <3>. QED  BY <1>a, <3>1, <3>2, <3>3, <3>4, SMT DEF StepType, Stage, Cleaning, DiskStages
    <2>4. LaunchType'
      BY <1>a, <1>25 DEF LaunchType, RemoveDisk, PathOf
    <2>. QED  BY <2>1, <2>2, <2>3, <2>4 DEF TypeOK
  <1>26. CASE DeleteFile(v)
    <2>1. JournalType' /\ BoundType'
      BY <1>a, <1>26 DEF JournalType, BoundType, DeleteFile
    <2>2. HostType'
      BY <1>a, <1>26 DEF HostType, DeleteFile, PathOf, NoFile
    <2>3. StepType'
      BY <1>a, <1>26, ZenonT(30) DEF StepType, Stage, Provisioning, Cleaning, DiskStages,
        Disk, DeleteFile, PathOf
    <2>4. LaunchType'
      BY <1>a, <1>26, ZenonT(30) DEF LaunchType, DeleteFile, PathOf
    <2>. QED  BY <2>1, <2>2, <2>3, <2>4 DEF TypeOK
  <1>27. CASE ApplyDisk(v)
    <2>1. HostType' /\ BoundType'
      BY <1>a, <1>27, ZenonT(30) DEF HostType, BoundType, ApplyDisk
    <2>2. JournalType'
      <3>0. rec[v] \in VmResourceRecord
        BY <1>a DEF JournalType
      <3>1. cur[v] \in Disk /\ rec[v].disks[cur[v]] \in DiskResource
        BY <1>a, <1>27, <3>0, VmAssumption, SMT DEF ApplyDisk, StepType, Disk,
          VmResourceRecord
      <3>2. SetDisk(rec[v], cur[v], DiskOutcome(rec[v].disks[cur[v]], res[v]))
              \in VmResourceRecord
        BY <1>a, <3>0, <3>1, DiskTypes, DiskUpdates DEF StepType
      <3>. QED  BY <1>a, <1>27, <3>2, ZenonT(30) DEF JournalType, ApplyDisk
    <2>3. StepType'
      <3>1. cur' \in [VM -> 1..(NumDisks + 1)]
        <4>1. cur[v] \in 1..(NumDisks + 1) /\ cur[v] <= NumDisks
          BY <1>a, <1>27, ZenonT(30) DEF StepType, ApplyDisk
        <4>2. cur[v] + 1 \in 1..(NumDisks + 1)
          BY <4>1, VmAssumption, SMT
        <4>3. cur' = [cur EXCEPT ![v] = cur[v] + 1]
          BY <1>27 DEF ApplyDisk
        <4>. QED  BY <1>a, <4>2, <4>3, ZenonT(30) DEF StepType
      <3>2. /\ pc[v] = "rm_disk" /\ UNCHANGED <<pc, why, worker>>
            /\ res' = [res EXCEPT ![v] = "none"]
            /\ \A w \in VM \ {v} : cur'[w] = cur[w]
        BY <1>a, <1>27 DEF StepType, ApplyDisk
      <3>. QED  BY <1>a, <3>1, <3>2, ZenonT(30) DEF StepType, DiskStages
    <2>4. LaunchType'
      BY <1>a, <1>27 DEF LaunchType, ApplyDisk
    <2>. QED  BY <2>1, <2>2, <2>3, <2>4 DEF TypeOK
  <1>28. CASE Verdict(v)
    <2>1. HostType' /\ BoundType'
      BY <1>a, <1>28 DEF HostType, BoundType, Verdict
    <2>2. JournalType'
      <3>0. rec[v] \in VmResourceRecord
        BY <1>a DEF JournalType
      <3>1. [rec[v] EXCEPT !.phase = "Complete"] \in VmResourceRecord
        BY <3>0, RecordUpdates DEF ResourceState
      <3>. QED  BY <1>a, <1>28, <3>1 DEF JournalType, Verdict, PassReturns
    <2>3. StepType'
      BY <1>a, <1>28, SMT DEF StepType, Stage, Provisioning, Cleaning, DiskStages,
        Disk, Verdict, PassReturns
    <2>4. LaunchType'
      BY <1>a, <1>28, ZenonT(30) DEF LaunchType, Verdict, PassReturns
    <2>. QED  BY <2>1, <2>2, <2>3, <2>4 DEF TypeOK
  <1>29. CASE RemoveVm(v)
    <2>1. HostType' /\ BoundType'
      BY <1>a, <1>29 DEF HostType, BoundType, RemoveVm
    <2>2. JournalType'
      BY <1>a, <1>29, BlankTypes, ZenonT(30) DEF JournalType, RemoveVm
    <2>3. StepType'
      BY <1>a, <1>29, ZenonT(30) DEF StepType, Stage, Provisioning, Cleaning, DiskStages,
        Disk, RemoveVm
    <2>4. LaunchType'
      BY <1>a, <1>29, ZenonT(30) DEF LaunchType, RemoveVm
    <2>. QED  BY <2>1, <2>2, <2>3, <2>4 DEF TypeOK
  <1>30. CASE RemoveAbandoned(v)
    <2>1. HostType' /\ BoundType'
      BY <1>a, <1>30 DEF HostType, BoundType, RemoveAbandoned
    <2>2. JournalType'
      BY <1>a, <1>30 DEF JournalType, RemoveAbandoned, PassReturns
    <2>3. StepType'
      BY <1>a, <1>30 DEF StepType, Stage, Provisioning, Cleaning, DiskStages,
        Disk, RemoveAbandoned, PassReturns
    <2>4. LaunchType'
      BY <1>a, <1>30 DEF LaunchType, RemoveAbandoned, PassReturns
    <2>. QED  BY <2>1, <2>2, <2>3, <2>4 DEF TypeOK
  <1>31. CASE PutAbandoned(v)
    <2>1. HostType' /\ BoundType'
      BY <1>a, <1>31 DEF HostType, BoundType, PutAbandoned
    <2>2. JournalType'
      BY <1>a, <1>31 DEF JournalType, PutAbandoned, Entry
    <2>3. StepType'
      BY <1>a, <1>31 DEF StepType, Stage, Provisioning, Cleaning, DiskStages,
        Disk, PutAbandoned
    <2>4. LaunchType'
      BY <1>a, <1>31 DEF LaunchType, PutAbandoned
    <2>. QED  BY <2>1, <2>2, <2>3, <2>4 DEF TypeOK
  <1>32. CASE MarkAbandoned(v)
    <2>1. HostType' /\ BoundType'
      BY <1>a, <1>32 DEF HostType, BoundType, MarkAbandoned
    <2>2. JournalType'
      <3>0. rec[v] \in VmResourceRecord
        BY <1>a DEF JournalType
      <3>1. Abandoned(rec[v]) \in VmResourceRecord
        BY <3>0, DiskUpdates
      <3>. QED  BY <1>a, <1>32, <3>1 DEF JournalType, MarkAbandoned, PassReturns
    <2>3. StepType'
      BY <1>a, <1>32 DEF StepType, Stage, Provisioning, Cleaning, DiskStages,
        Disk, MarkAbandoned, PassReturns
    <2>4. LaunchType'
      BY <1>a, <1>32, ZenonT(30) DEF LaunchType, MarkAbandoned, PassReturns
    <2>. QED  BY <2>1, <2>2, <2>3, <2>4 DEF TypeOK
  <1>33. CASE RollbackUnjournaled(v)
    <2>1. JournalType' /\ BoundType'
      BY <1>a, <1>33, ZenonT(30) DEF JournalType, BoundType, RollbackUnjournaled
    <2>2. HostType'
      BY <1>a, <1>33, ZenonT(30) DEF HostType, RollbackUnjournaled, NoFile
    <2>3. StepType'
      BY <1>a, <1>33, ZenonT(30) DEF StepType, Stage, Provisioning, Cleaning, DiskStages,
        Disk, RollbackUnjournaled
    <2>4. LaunchType'
      BY <1>a, <1>33, SMT DEF LaunchType, RollbackUnjournaled
    <2>. QED  BY <2>1, <2>2, <2>3, <2>4 DEF TypeOK
  <1>34. CASE Recover(v)
    <2>1. HostType' /\ BoundType'
      BY <1>a, <1>34 DEF HostType, BoundType, Recover
    <2>2. JournalType'
      BY <1>a, <1>34, BlankTypes, ZenonT(30) DEF JournalType, Recover
    <2>3. StepType'
      BY <1>a, <1>34, ZenonT(30) DEF StepType, Stage, Provisioning, Cleaning, DiskStages,
        Disk, Recover
    <2>4. LaunchType'
      BY <1>a, <1>34, ZenonT(30) DEF LaunchType, Recover
    <2>. QED  BY <2>1, <2>2, <2>3, <2>4 DEF TypeOK
  <1>35. CASE CollectSession(v)
    <2>1. HostType' /\ BoundType'
      BY <1>a, <1>35, ZenonT(30) DEF HostType, BoundType, CollectSession
    <2>2. JournalType'
      BY <1>a, <1>35, ZenonT(30) DEF JournalType, CollectSession, Kept
    <2>3. StepType'
      BY <1>a, <1>35 DEF StepType, Stage, Provisioning, Cleaning, DiskStages,
        Disk, CollectSession
    <2>4. LaunchType'
      BY <1>a, <1>35 DEF LaunchType, CollectSession
    <2>. QED  BY <2>1, <2>2, <2>3, <2>4 DEF TypeOK
  <1>36. CASE JournalFails(v)
    <2>1. JournalType'
      BY <1>a, <1>36 DEF JournalType, JournalFails
    <2>2. HostType'
      BY <1>a, <1>36, SMT DEF HostType, JournalFails, Rollback, PassReturns
    <2>3. StepType'
      BY <1>a, <1>36, SMT DEF StepType, Stage, Provisioning, Cleaning, DiskStages,
        Disk, JournalFails, Rollback, PassReturns
    <2>4. LaunchType'
      BY <1>a, <1>36 DEF LaunchType, JournalFails, Rollback, PassReturns, Unlock
    <2>5. BoundType'
      BY <1>a, <1>36, VmAssumption, SMT DEF BoundType, JournalFails, Rollback,
        PassReturns
    <2>. QED  BY <2>1, <2>2, <2>3, <2>4, <2>5, ZenonT(30) DEF TypeOK
  <1>37. CASE Exit(v)
    <2>1. BoundType'
      BY <1>a, <1>37, ZenonT(30) DEF BoundType, Exit, Gone
    <2>2. HostType'
      BY <1>a, <1>37 DEF HostType, Exit, Gone
    <2>3. JournalType'
      BY <1>a, <1>37, ZenonT(30) DEF JournalType, Exit, Gone
    <2>4. StepType'
      BY <1>a, <1>37, VmAssumption, SMT DEF StepType, Stage, Provisioning, Cleaning,
        DiskStages, Disk, Exit, Gone
    <2>5. LaunchType'
      BY <1>a, <1>37 DEF LaunchType, Exit, Gone, NoFile, Unlock
    <2>. QED  BY <2>1, <2>2, <2>3, <2>4, <2>5, ZenonT(30) DEF TypeOK
  <1>38. CASE Crash(v)
    <2>1. HostType'
      BY <1>a, <1>38 DEF HostType, Crash, Gone
    <2>2. JournalType'
      BY <1>a, <1>38, ZenonT(30) DEF JournalType, Crash, Gone
    <2>3. StepType'
      BY <1>a, <1>38, VmAssumption, SMT DEF StepType, Stage, Provisioning, Cleaning,
        DiskStages, Disk, Crash, Gone
    <2>4. LaunchType'
      BY <1>a, <1>38 DEF LaunchType, Crash, Gone, NoFile, Unlock
    <2>5. BoundType'
      BY <1>a, <1>38, VmAssumption, SMT DEF BoundType, Crash, Gone
    <2>. QED  BY <2>1, <2>2, <2>3, <2>4, <2>5, ZenonT(30) DEF TypeOK
  <1>39. CASE GuestStops(v)
    <2>1. JournalType' /\ StepType' /\ BoundType'
      BY <1>a, <1>39 DEF JournalType, StepType, BoundType, GuestStops
    <2>2. HostType'
      BY <1>a, <1>39, ZenonT(30) DEF HostType, GuestStops, SystemState
    <2>3. LaunchType'
      BY <1>a, <1>39, ZenonT(30) DEF LaunchType, GuestStops
    <2>. QED  BY <2>1, <2>2, <2>3, ZenonT(30) DEF TypeOK
  <1>40. CASE OperatorRemoves(v)
    <2>1. JournalType' /\ StepType' /\ BoundType'
      BY <1>a, <1>40, ZenonT(30) DEF JournalType, StepType, BoundType, OperatorRemoves
    <2>2. HostType'
      BY <1>a, <1>40, ZenonT(30) DEF HostType, OperatorRemoves, SystemState
    <2>3. LaunchType'
      BY <1>a, <1>40 DEF LaunchType, OperatorRemoves
    <2>. QED  BY <2>1, <2>2, <2>3 DEF TypeOK
  <1>. QED  BY <1>1, <1>2, <1>3, <1>4, <1>5, <1>6, <1>7, <1>8,
    <1>9, <1>10, <1>11, <1>12, <1>13, <1>14, <1>15, <1>16, <1>17, <1>18, <1>19,
    <1>20, <1>21, <1>22, <1>23, <1>24, <1>25, <1>26, <1>27, <1>28, <1>29, <1>30,
    <1>31, <1>32, <1>33, <1>34, <1>35, <1>36, <1>37, <1>38, <1>39, <1>40, ZenonT(30)
         DEF VmNext, Provision, Clean

\* A change of a host file by its user keeps the types.
LEMMA UserStepType ==
    ASSUME TypeOK, NEW p \in Path, UserChanges(p)
    PROVE  TypeOK'
  <1>a. HostType /\ JournalType /\ StepType /\ LaunchType /\ BoundType
    BY DEF TypeOK
  <1>1. HostType'
    <2>1. UNCHANGED <<compute, network, creator, ace>>
      BY DEF UserChanges
    <2>2. \/ /\ nextId <= MaxFiles /\ nextId' = nextId + 1
             /\ file' = [file EXCEPT ![p] = nextId]
          \/ nextId' = nextId /\ file' = [file EXCEPT ![p] = NoFile]
      BY DEF UserChanges
    <2>3. nextId' \in 1..(MaxFiles + 1)
      BY <1>a, <2>2, VmAssumption, SMT DEF HostType
    <2>4. nextId <= MaxFiles => nextId \in FileId
      BY <1>a, VmAssumption, SMT DEF HostType, FileId
    <2>5. file' \in [Path -> FileId \cup {NoFile}]
      BY <1>a, <2>2, <2>4, ZenonT(30) DEF HostType
    <2>. QED  BY <1>a, <2>1, <2>3, <2>5 DEF HostType
  <1>2. JournalType' /\ StepType'
    BY <1>a, ZenonT(30) DEF JournalType, StepType, UserChanges
  <1>3. LaunchType'
    BY <1>a DEF LaunchType, UserChanges
  <1>4. BoundType'
    BY <1>a, VmAssumption, SMT DEF BoundType, UserChanges
  <1>. QED  BY <1>1, <1>2, <1>3, <1>4 DEF TypeOK

\* Init starts with typed values.
LEMMA InitType == Init => TypeOK
  <1>. SUFFICES ASSUME Init PROVE TypeOK
    BY ZenonT(30)
  <1>1. HostType
    BY VmAssumption, SMT DEF Init, HostType, SystemState, FileId, NoFile
  <1>2. JournalType
    BY BlankTypes, ZenonT(30) DEF Init, JournalType
  <1>3. StepType
    BY VmAssumption, SMT DEF Init, StepType, Stage, DiskStages
  <1>4. LaunchType
    BY BlankTypes DEF Init, LaunchType, NoFile
  <1>5. BoundType
    BY VmAssumption, SMT DEF Init, BoundType
  <1>. QED  BY <1>1, <1>2, <1>3, <1>4, <1>5 DEF TypeOK

\* Every step of the specification keeps the types.
LEMMA NextType == TypeOK /\ [Next]_vars => TypeOK'
  <1>. SUFFICES ASSUME TypeOK, [Next]_vars PROVE TypeOK'
    OBVIOUS
  <1>1. CASE \E v \in VM : VmNext(v)
    BY <1>1, VmStepType
  <1>2. CASE \E p \in Path : UserChanges(p)
    BY <1>2, UserStepType, ZenonT(30)
  <1>3. CASE UNCHANGED vars
    BY <1>3 DEF vars, TypeOK, HostType, JournalType, StepType, LaunchType, BoundType
  <1>. QED  BY <1>1, <1>2, <1>3 DEF Next, Finished

\* Type correctness: whatever is launched, fails, crashes or is recovered, the
\* journal record, the host and the acting process stay within their types.
THEOREM TypeCorrect == Spec => []TypeOK
  BY InitType, NextType, PTL DEF Spec

-----------------------------------------------------------------------------
(* One VM's step and the other VMs                                         *)

\* Everything that belongs to VM w alone.
View(w) == <<compute[w], network[w], hasRec[w], rec[w], inventory[w], db[w],
             spec[w], pc[w], cur[w], res[w], cls[w], captured[w],
             unjournaled[w], worker[w]>>

\* A step of v changes no other VM's resources, record or process state.
LEMMA OtherVms ==
    ASSUME TypeOK, NEW v \in VM, VmNext(v), NEW w \in VM \ {v}
    PROVE  View(w)' = View(w)
  <1>a. /\ compute \in [VM -> SystemState]
        /\ network \in [VM -> SUBSET {"network", "endpoint"}]
        /\ hasRec \in [VM -> BOOLEAN] /\ rec \in [VM -> VmResourceRecord]
        /\ inventory \in [VM -> SUBSET Entry] /\ db \in [VM -> BOOLEAN]
        /\ spec \in [VM -> [Disk -> DiskSpec]] /\ pc \in [VM -> Stage]
        /\ cur \in [VM -> 1..(NumDisks + 1)] /\ res \in [VM -> {"none", "ok", "fail"}]
        /\ cls \in [VM -> {"none", "Create", "Reuse", "ReuseAndReclassify"}]
        /\ captured \in [VM -> FileId \cup {NoFile}]
        /\ unjournaled \in [VM -> SUBSET (Path \X FileId)]
        /\ worker \in [VM -> {"none", "running", "made", "error"}]
    BY ZenonT(30) DEF TypeOK, HostType, JournalType, StepType, LaunchType
  <1>. USE DEF View
  <1>1. CASE \E sp \in Specs, nic \in Nics : PutVm(v, sp, nic)
    BY <1>a, <1>1, SMT DEF PutVm
  <1>2. CASE CreateNetwork(v)
    BY <1>a, <1>2, ZenonT(30) DEF CreateNetwork, Rollback
  <1>3. CASE CreateEndpoint(v)
    BY <1>a, <1>3 DEF CreateEndpoint, Rollback
  <1>4. CASE JournalNetwork(v)
    BY <1>a, <1>4, ZenonT(30) DEF JournalNetwork
  <1>5. CASE LockPath(v)
    BY <1>a, <1>5, ZenonT(30) DEF LockPath, Rollback
  <1>6. CASE Materialize(v)
    <2>1. UNCHANGED <<compute, network, journalVars, spec, cur, res, captured,
                      unjournaled, worker>>
      BY <1>6, MaterializeSteps
    <2>2. cls' = cls \/ \E c : cls' = [cls EXCEPT ![v] = c]
      BY <1>6, MaterializeSteps DEF Proceed
    <2>3. \E s : pc' = [pc EXCEPT ![v] = s]
      BY <1>6, MaterializeSteps, ZenonT(30) DEF Proceed, Rollback
    <2>. QED  BY <1>a, <2>1, <2>2, <2>3, ZenonT(30)
  <1>7. CASE CaptureIdentity(v)
    <2>1. UNCHANGED <<compute, network, journalVars, spec, cur, res, cls, worker>>
      BY <1>7 DEF CaptureIdentity, hostVars
    <2>2. captured' = captured \/ \E f : captured' = [captured EXCEPT ![v] = f]
      BY <1>7, ZenonT(30) DEF CaptureIdentity
    <2>3. unjournaled' = unjournaled \/ \E u : unjournaled' = [unjournaled EXCEPT ![v] = u]
      BY <1>7, ZenonT(30) DEF CaptureIdentity
    <2>4. \E s : pc' = [pc EXCEPT ![v] = s]
      BY <1>7 DEF CaptureIdentity, Rollback
    <2>. QED  BY <1>a, <2>1, <2>2, <2>3, <2>4, ZenonT(30) DEF journalVars
  <1>8. CASE JournalDisk(v)
    BY <1>a, <1>8 DEF JournalDisk
  <1>9. CASE GrantAccess(v)
    BY <1>a, <1>9 DEF GrantAccess, Rollback
  <1>10. CASE JournalAce(v)
    BY <1>a, <1>10 DEF JournalAce
  <1>11. CASE SubmitCreate(v)
    BY <1>a, <1>11, SMT DEF SubmitCreate, Rollback
  <1>12. CASE WorkerCreates(v)
    BY <1>a, <1>12, ZenonT(30) DEF WorkerCreates
  <1>13. CASE JoinCreate(v)
    BY <1>a, <1>13, ZenonT(30) DEF JoinCreate, Rollback
  <1>14. CASE DropFuture(v)
    BY <1>a, <1>14 DEF DropFuture, Rollback
  <1>15. CASE JournalCompute(v)
    BY <1>a, <1>15 DEF JournalCompute
  <1>16. CASE start(v)
    BY <1>a, <1>16 DEF start
  <1>17. CASE mark_published(v)
    BY <1>a, <1>17, ZenonT(30) DEF mark_published
  <1>18. CASE close(v)
    BY <1>a, <1>18, ZenonT(30) DEF close
  <1>19. CASE drop(v)
    BY <1>a, <1>19 DEF drop
  <1>20. CASE BeginPass(v)
    BY <1>a, <1>20, ZenonT(30) DEF BeginPass, PassReturns
  <1>21. CASE RemoveCompute(v)
    BY <1>a, <1>21 DEF RemoveCompute
  <1>22. CASE ApplyCompute(v)
    BY <1>a, <1>22, ZenonT(30) DEF ApplyCompute
  <1>23. CASE RemoveNetwork(v)
    BY <1>a, <1>23 DEF RemoveNetwork
  <1>24. CASE ApplyNetwork(v)
    BY <1>a, <1>24 DEF ApplyNetwork
  <1>25. CASE RemoveDisk(v)
    BY <1>a, <1>25, ZenonT(30) DEF RemoveDisk
  <1>26. CASE DeleteFile(v)
    BY <1>a, <1>26, ZenonT(30) DEF DeleteFile
  <1>27. CASE ApplyDisk(v)
    BY <1>a, <1>27 DEF ApplyDisk
  <1>28. CASE Verdict(v)
    BY <1>a, <1>28, ZenonT(30) DEF Verdict, PassReturns
  <1>29. CASE RemoveVm(v)
    BY <1>a, <1>29 DEF RemoveVm
  <1>30. CASE RemoveAbandoned(v)
    BY <1>a, <1>30 DEF RemoveAbandoned, PassReturns
  <1>31. CASE PutAbandoned(v)
    BY <1>a, <1>31 DEF PutAbandoned
  <1>32. CASE MarkAbandoned(v)
    BY <1>a, <1>32, ZenonT(30) DEF MarkAbandoned, PassReturns
  <1>33. CASE RollbackUnjournaled(v)
    BY <1>a, <1>33, ZenonT(30) DEF RollbackUnjournaled
  <1>34. CASE Recover(v)
    BY <1>a, <1>34, ZenonT(30) DEF Recover
  <1>35. CASE CollectSession(v)
    BY <1>a, <1>35 DEF CollectSession, Kept
  <1>36. CASE JournalFails(v)
    BY <1>a, <1>36, ZenonT(30) DEF JournalFails, Rollback, PassReturns
  <1>37. CASE Exit(v)
    BY <1>a, <1>37, ZenonT(30) DEF Exit, Gone
  <1>38. CASE Crash(v)
    BY <1>a, <1>38, ZenonT(30) DEF Crash, Gone
  <1>39. CASE GuestStops(v)
    BY <1>a, <1>39, ZenonT(30) DEF GuestStops
  <1>40. CASE OperatorRemoves(v)
    BY <1>a, <1>40, SMTT(20) DEF OperatorRemoves
  <1>. QED  BY <1>1, <1>2, <1>3, <1>4, <1>5, <1>6, <1>7, <1>8, <1>9, <1>10,
    <1>11, <1>12, <1>13, <1>14, <1>15, <1>16, <1>17, <1>18, <1>19, <1>20, <1>21,
    <1>22, <1>23, <1>24, <1>25, <1>26, <1>27, <1>28, <1>29, <1>30, <1>31, <1>32,
    <1>33, <1>34, <1>35, <1>36, <1>37, <1>38, <1>39, <1>40
         DEF VmNext, Provision, Clean

-----------------------------------------------------------------------------
(* Nothing leaks                                                           *)

\* The invariant of a VM looks only at what belongs to that VM.
LEMMA LeakFrame ==
    ASSUME NEW w \in VM, View(w)' = View(w), StageInv(w), HonestInv(w)
    PROVE  StageInv(w)' /\ HonestInv(w)'
  <1>1. /\ compute'[w] = compute[w] /\ network'[w] = network[w] /\ hasRec'[w] = hasRec[w]
        /\ rec'[w] = rec[w] /\ inventory'[w] = inventory[w] /\ db'[w] = db[w] /\ pc'[w] = pc[w]
        /\ cur'[w] = cur[w] /\ res'[w] = res[w] /\ worker'[w] = worker[w]
    BY DEF View
  <1>2. StageInv(w)'
    BY <1>1, ZenonT(30) DEF StageInv
  <1>3. HonestInv(w)'
    BY <1>1 DEF HonestInv
  <1>. QED  BY <1>2, <1>3, ZenonT(30)

\* A step of v keeps the invariant of v: one case per action.
LEMMA LeakStep ==
    ASSUME ~DropsInFlight, TypeOK, NEW v \in VM, VmNext(v), StageInv(v), HonestInv(v)
    PROVE  StageInv(v)' /\ HonestInv(v)'
  <1>a. HostType /\ JournalType /\ StepType
    BY DEF TypeOK
  <1>b. rec[v] \in VmResourceRecord
    BY <1>a DEF JournalType
  <1>1. CASE \E sp \in Specs, nic \in Nics : PutVm(v, sp, nic)
    <2>0. PICK sp \in Specs, nic \in Nics : PutVm(v, sp, nic)
      BY <1>1, ZenonT(30)
    <2>a. /\ rec'[v].phase = "Planned" /\ rec'[v].compute = "Planned"
          /\ rec'[v].network = IF nic THEN "Planned" ELSE "None"
      BY <1>a, <2>0, SMTT(20) DEF PutVm, PlannedRecord, JournalType
    <2>b. /\ pc[v] = "idle" /\ pc'[v] = (IF nic THEN "network" ELSE "disk")
          /\ hasRec'[v] /\ db'[v] = db[v] /\ inventory'[v] = inventory[v]
          /\ compute'[v] = compute[v] /\ network'[v] = network[v]
          /\ worker'[v] = worker[v] /\ res'[v] = res[v] /\ cur'[v] = cur[v]
      BY <1>a, <2>0, ZenonT(30) DEF PutVm, JournalType, StepType
    <2>1. StageInv(v)'
      BY <2>a, <2>b, ZenonT(30) DEF StageInv, NeedsRecord, Provisioning, Cleaning
    <2>2. HonestInv(v)'
      BY <2>a, <2>b DEF StageInv, HonestInv
    <2>. QED  BY <2>1, <2>2
  <1>2. CASE CreateNetwork(v)
    <2>1. StageInv(v)'
      BY <1>a, <1>2, ZenonT(30) DEF StageInv, NeedsRecord, Provisioning, Cleaning, HostType,
        JournalType, StepType, CreateNetwork, Rollback
    <2>2. HonestInv(v)'
      BY <1>a, <1>2, ZenonT(30) DEF HonestInv, StageInv, NeedsRecord, Provisioning,
        Cleaning, HostType, JournalType, StepType, CreateNetwork, Rollback
    <2>. QED  BY <2>1, <2>2
  <1>3. CASE CreateEndpoint(v)
    <2>1. StageInv(v)'
      BY <1>a, <1>3, SMTT(20) DEF StageInv, NeedsRecord, Provisioning, Cleaning, HostType,
        JournalType, StepType, CreateEndpoint, Rollback
    <2>2. HonestInv(v)'
      BY <1>a, <1>3, ZenonT(30) DEF HonestInv, StageInv, NeedsRecord, Provisioning,
        Cleaning, HostType, JournalType, StepType, CreateEndpoint, Rollback
    <2>. QED  BY <2>1, <2>2
  <1>4. CASE JournalNetwork(v)
    <2>0. rec'[v].phase = rec[v].phase /\ rec'[v].compute = rec[v].compute
          /\ rec'[v].network = "Created" /\ rec'[v].disks = rec[v].disks
      BY <1>a, <1>b, <1>4 DEF JournalType, VmResourceRecord, JournalNetwork
    <2>1. StageInv(v)'
      BY <1>a, <1>4, <2>0, SMT DEF StageInv, NeedsRecord, Provisioning, Cleaning,
        HostType, JournalType, StepType, JournalNetwork
    <2>2. HonestInv(v)'
      BY <1>a, <1>4, <2>0, SMTT(20) DEF HonestInv, StageInv, NeedsRecord, Provisioning,
        Cleaning, HostType, JournalType, StepType, JournalNetwork
    <2>. QED  BY <2>1, <2>2
  <1>5. CASE LockPath(v)
    <2>1. StageInv(v)'
      BY <1>a, <1>5, SMTT(20) DEF StageInv, NeedsRecord, Provisioning, Cleaning, HostType,
        JournalType, StepType, LockPath, Rollback
    <2>2. HonestInv(v)'
      BY <1>a, <1>5, ZenonT(30) DEF HonestInv, StageInv, NeedsRecord, Provisioning,
        Cleaning, HostType, JournalType, StepType, LockPath, Rollback
    <2>. QED  BY <2>1, <2>2
  <1>6. CASE Materialize(v)
    <2>0. /\ pc[v] = "classify" /\ pc'[v] \in {"capture", "begin"}
          /\ UNCHANGED <<compute, network, journalVars, res, cur, worker>>
      BY <1>a, <1>6, MaterializeSteps, SMT DEF Proceed, Rollback, StepType
    <2>1. StageInv(v)'
      BY <2>0, ZenonT(30) DEF StageInv, NeedsRecord, Provisioning, Cleaning
    <2>2. HonestInv(v)'
      BY <2>0, ZenonT(30) DEF StageInv, HonestInv
    <2>. QED  BY <2>1, <2>2
  <1>7. CASE CaptureIdentity(v)
    <2>1. StageInv(v)'
      BY <1>a, <1>7, SMTT(20) DEF StageInv, NeedsRecord, Provisioning, Cleaning, HostType,
        JournalType, StepType, CaptureIdentity, Rollback
    <2>2. HonestInv(v)'
      BY <1>a, <1>7, ZenonT(30) DEF HonestInv, StageInv, NeedsRecord, Provisioning,
        Cleaning, HostType, JournalType, StepType, CaptureIdentity, Rollback
    <2>. QED  BY <2>1, <2>2
  <1>8. CASE JournalDisk(v)
    <2>0. rec'[v].phase = rec[v].phase /\ rec'[v].compute = rec[v].compute
          /\ rec'[v].network = rec[v].network
      BY <1>a, <1>b, <1>8 DEF JournalType, VmResourceRecord, JournalDisk,
        SetDisk
    <2>1. StageInv(v)'
      BY <1>a, <1>8, <2>0, ZenonT(30) DEF StageInv, NeedsRecord, Provisioning, Cleaning,
        HostType, JournalType, StepType, JournalDisk
    <2>2. HonestInv(v)'
      BY <1>a, <1>8, <2>0, ZenonT(30) DEF HonestInv, StageInv, NeedsRecord, Provisioning,
        Cleaning, HostType, JournalType, StepType, JournalDisk
    <2>. QED  BY <2>1, <2>2
  <1>9. CASE GrantAccess(v)
    <2>1. StageInv(v)'
      BY <1>a, <1>9, SMTT(20) DEF StageInv, NeedsRecord, Provisioning, Cleaning, HostType,
        JournalType, StepType, GrantAccess, Rollback
    <2>2. HonestInv(v)'
      BY <1>a, <1>9, ZenonT(30) DEF HonestInv, StageInv, NeedsRecord, Provisioning,
        Cleaning, HostType, JournalType, StepType, GrantAccess, Rollback
    <2>. QED  BY <2>1, <2>2
  <1>10. CASE JournalAce(v)
    <2>0. rec'[v].phase = rec[v].phase /\ rec'[v].compute = rec[v].compute
          /\ rec'[v].network = rec[v].network
      BY <1>a, <1>b, <1>10 DEF JournalType, VmResourceRecord, JournalAce,
        SetDisk
    <2>1. StageInv(v)'
      BY <1>a, <1>10, <2>0, SMT DEF StageInv, NeedsRecord, Provisioning, Cleaning,
        HostType, JournalType, StepType, JournalAce
    <2>2. HonestInv(v)'
      BY <1>a, <1>10, <2>0, ZenonT(30) DEF HonestInv, StageInv, NeedsRecord, Provisioning,
        Cleaning, HostType, JournalType, StepType, JournalAce
    <2>. QED  BY <2>1, <2>2
  <1>11. CASE SubmitCreate(v)
    <2>1. StageInv(v)'
      BY <1>a, <1>11, SMTT(20) DEF StageInv, NeedsRecord, Provisioning, Cleaning,
        HostType, JournalType, StepType, SubmitCreate, Rollback
    <2>2. HonestInv(v)'
      BY <1>a, <1>11, ZenonT(30) DEF HonestInv, StageInv, NeedsRecord, Provisioning,
        Cleaning, HostType, JournalType, StepType, SubmitCreate, Rollback
    <2>. QED  BY <2>1, <2>2
  <1>12. CASE WorkerCreates(v)
    <2>1. StageInv(v)'
      BY <1>a, <1>12, ZenonT(30) DEF StageInv, NeedsRecord, Provisioning, Cleaning,
        HostType, JournalType, StepType, WorkerCreates
    <2>2. HonestInv(v)'
      BY <1>a, <1>12 DEF HonestInv, StageInv, NeedsRecord, Provisioning,
        Cleaning, HostType, JournalType, StepType, WorkerCreates
    <2>. QED  BY <2>1, <2>2
  <1>13. CASE JoinCreate(v)
    <2>1. StageInv(v)'
      BY <1>a, <1>13, SMTT(20) DEF StageInv, NeedsRecord, Provisioning, Cleaning,
        HostType, JournalType, StepType, JoinCreate, Rollback
    <2>2. HonestInv(v)'
      BY <1>a, <1>13, ZenonT(30) DEF HonestInv, StageInv, NeedsRecord, Provisioning,
        Cleaning, HostType, JournalType, StepType, JoinCreate, Rollback
    <2>. QED  BY <2>1, <2>2
  <1>14. CASE DropFuture(v)
    <2>1. StageInv(v)'
      BY <1>a, <1>14, ZenonT(30) DEF StageInv, NeedsRecord, Provisioning, Cleaning,
        HostType, JournalType, StepType, DropFuture, Rollback
    <2>2. HonestInv(v)'
      BY <1>a, <1>14, ZenonT(30) DEF HonestInv, StageInv, NeedsRecord, Provisioning,
        Cleaning, HostType, JournalType, StepType, DropFuture, Rollback
    <2>. QED  BY <2>1, <2>2
  <1>15. CASE JournalCompute(v)
    <2>0. rec'[v].phase = "Starting" /\ rec'[v].compute = "Created"
          /\ rec'[v].network = rec[v].network
      BY <1>a, <1>b, <1>15, ZenonT(30) DEF JournalType, VmResourceRecord, JournalCompute
    <2>1. StageInv(v)'
      BY <1>a, <1>15, <2>0, ZenonT(30) DEF StageInv, NeedsRecord, Provisioning, Cleaning,
        HostType, JournalType, StepType, JournalCompute
    <2>2. HonestInv(v)'
      BY <1>a, <1>15, <2>0, ZenonT(30) DEF HonestInv, StageInv, NeedsRecord, Provisioning,
        Cleaning, HostType, JournalType, StepType, JournalCompute
    <2>. QED  BY <2>1, <2>2
  <1>16. CASE start(v)
    <2>1. StageInv(v)'
      BY <1>a, <1>16, ZenonT(30) DEF StageInv, NeedsRecord, Provisioning, Cleaning,
        HostType, JournalType, StepType, start
    <2>2. HonestInv(v)'
      BY <1>a, <1>16, ZenonT(30) DEF HonestInv, StageInv, NeedsRecord, Provisioning,
        Cleaning, HostType, JournalType, StepType, start
    <2>. QED  BY <2>1, <2>2
  <1>17. CASE mark_published(v)
    <2>0. rec'[v].phase = "Published" /\ rec'[v].compute = rec[v].compute
          /\ rec'[v].network = rec[v].network
      BY <1>a, <1>b, <1>17 DEF JournalType, VmResourceRecord, mark_published,
        Published
    <2>1. StageInv(v)'
      BY <1>a, <1>17, <2>0, ZenonT(30) DEF StageInv, NeedsRecord, Provisioning, Cleaning,
        HostType, JournalType, StepType, mark_published
    <2>2. HonestInv(v)'
      BY <1>a, <1>17, <2>0, ZenonT(30) DEF HonestInv, StageInv, NeedsRecord, Provisioning,
        Cleaning, HostType, JournalType, StepType, mark_published
    <2>. QED  BY <2>1, <2>2
  <1>18. CASE close(v)
    <2>1. StageInv(v)'
      BY <1>a, <1>18, ZenonT(30) DEF StageInv, NeedsRecord, Provisioning, Cleaning,
        HostType, JournalType, StepType, close
    <2>2. HonestInv(v)'
      BY <1>a, <1>18, ZenonT(30) DEF HonestInv, StageInv, NeedsRecord, Provisioning,
        Cleaning, HostType, JournalType, StepType, close
    <2>. QED  BY <2>1, <2>2
  <1>19. CASE drop(v)
    <2>1. StageInv(v)'
      BY <1>a, <1>19, ZenonT(30) DEF StageInv, NeedsRecord, Provisioning, Cleaning,
        HostType, JournalType, StepType, drop
    <2>2. HonestInv(v)'
      BY <1>a, <1>19, ZenonT(30) DEF HonestInv, StageInv, NeedsRecord, Provisioning,
        Cleaning, HostType, JournalType, StepType, drop
    <2>. QED  BY <2>1, <2>2
  <1>20. CASE BeginPass(v)
    <2>0. /\ pc[v] = "begin"
          /\ UNCHANGED <<compute, network, hasRec, inventory, db, res, worker>>
      BY <1>20 DEF BeginPass
    <2>3. CASE hasRec[v]
      <3>0. /\ pc'[v] = "rm_compute"
            /\ rec'[v] = [rec[v] EXCEPT !.phase = "CleanupPending",
                                        !.attempts = rec[v].attempts + 1]
        BY <1>a, <1>20, <2>3 DEF BeginPass, JournalType, StepType
      <3>1. /\ pc'[v] = "rm_compute" /\ rec'[v].phase = "CleanupPending"
            /\ rec'[v].compute = rec[v].compute /\ rec'[v].network = rec[v].network
        BY <1>b, <3>0, ZenonT(30) DEF VmResourceRecord
      <3>2. StageInv(v)'
        BY <2>0, <2>3, <3>1, ZenonT(30) DEF StageInv, NeedsRecord, Provisioning, Cleaning
      <3>3. res[v] = "none"
        BY <2>0, ZenonT(30) DEF StageInv
      <3>4. HonestInv(v)'
        BY <2>0, <2>3, <3>1, <3>3 DEF StageInv, HonestInv
      <3>. QED  BY <3>2, <3>4
    <2>4. CASE ~hasRec[v]
      <3>1. rec' = rec /\ pc'[v] \in {"unjournaled", "begin", "gc", "ended"}
        BY <1>a, <1>20, <2>4, SMTT(20) DEF BeginPass, PassReturns, StepType
      <3>2. StageInv(v)'
        BY <2>0, <2>4, <3>1 DEF StageInv, NeedsRecord, Provisioning, Cleaning
      <3>3. HonestInv(v)'
        BY <2>0, <2>4, <3>1, ZenonT(30) DEF StageInv, HonestInv
      <3>. QED  BY <3>2, <3>3
    <2>. QED  BY <2>3, <2>4
  <1>21. CASE RemoveCompute(v)
    <2>1. StageInv(v)'
      BY <1>a, <1>21, ZenonT(30) DEF StageInv, NeedsRecord, Provisioning, Cleaning,
        HostType, JournalType, StepType, RemoveCompute
    <2>2. HonestInv(v)'
      BY <1>a, <1>21, ZenonT(30) DEF HonestInv, StageInv, NeedsRecord, Provisioning,
        Cleaning, HostType, JournalType, StepType, RemoveCompute
    <2>. QED  BY <2>1, <2>2
  <1>22. CASE ApplyCompute(v)
    <2>0. rec'[v].phase = rec[v].phase /\ rec'[v].network = rec[v].network
          /\ rec'[v].compute = IF res[v] = "none" THEN "Removed"
                              ELSE IF res[v] = "ok" THEN "Removed" ELSE "RemovalFailed"
      BY <1>a, <1>b, <1>22, SMT DEF JournalType, VmResourceRecord, ApplyCompute,
        Outcome
    <2>1. StageInv(v)'
      BY <1>a, <1>22, <2>0, SMT DEF StageInv, NeedsRecord, Provisioning, Cleaning,
        HostType, JournalType, StepType, ApplyCompute
    <2>2. HonestInv(v)'
      BY <1>a, <1>22, <2>0, ZenonT(30) DEF HonestInv, StageInv, NeedsRecord, Provisioning,
        Cleaning, HostType, JournalType, StepType, ApplyCompute
    <2>. QED  BY <2>1, <2>2
  <1>23. CASE RemoveNetwork(v)
    <2>1. StageInv(v)'
      BY <1>a, <1>23, ZenonT(30) DEF StageInv, NeedsRecord, Provisioning, Cleaning,
        HostType, JournalType, StepType, RemoveNetwork
    <2>2. HonestInv(v)'
      BY <1>a, <1>23, ZenonT(30) DEF HonestInv, StageInv, NeedsRecord, Provisioning,
        Cleaning, HostType, JournalType, StepType, RemoveNetwork
    <2>. QED  BY <2>1, <2>2
  <1>24. CASE ApplyNetwork(v)
    <2>0. rec'[v].phase = rec[v].phase /\ rec'[v].compute = rec[v].compute
          /\ rec'[v].network = IF res[v] = "none" THEN rec[v].network
                              ELSE IF res[v] = "ok" THEN "Removed" ELSE "RemovalFailed"
      BY <1>a, <1>b, <1>24, SMT DEF JournalType, VmResourceRecord, ApplyNetwork,
        Outcome
    <2>1. StageInv(v)'
      BY <1>a, <1>24, <2>0, SMT DEF StageInv, NeedsRecord, Provisioning, Cleaning,
        HostType, JournalType, StepType, ApplyNetwork
    <2>2. HonestInv(v)'
      BY <1>a, <1>24, <2>0, ZenonT(30) DEF HonestInv, StageInv, NeedsRecord, Provisioning,
        Cleaning, HostType, JournalType, StepType, ApplyNetwork
    <2>. QED  BY <2>1, <2>2
  <1>25. CASE RemoveDisk(v)
    <2>0. /\ pc[v] = "rm_disk" /\ cur[v] <= NumDisks
          /\ \/ pc'[v] = "rm_disk"
             \/ pc'[v] = "rm_file" /\ res'[v] = "none"
          /\ UNCHANGED <<compute, network, journalVars, cur, worker>>
      BY <1>a, <1>25 DEF RemoveDisk, StepType
    <2>1. StageInv(v)'
      BY <2>0 DEF StageInv, NeedsRecord, Provisioning, Cleaning
    <2>2. HonestInv(v)'
      BY <2>0 DEF HonestInv
    <2>. QED  BY <2>1, <2>2
  <1>26. CASE DeleteFile(v)
    <2>0. /\ pc[v] = "rm_file" /\ pc'[v] = "rm_disk"
          /\ UNCHANGED <<compute, network, journalVars, cur, worker>>
      BY <1>a, <1>26, ZenonT(30) DEF DeleteFile, StepType
    <2>3. cur[v] <= NumDisks
      BY <1>a, <2>0, VmAssumption, SMTT(20) DEF StepType, DiskStages, Disk
    <2>1. StageInv(v)'
      BY <2>0, <2>3 DEF StageInv, NeedsRecord, Provisioning, Cleaning
    <2>2. HonestInv(v)'
      BY <2>0 DEF HonestInv
    <2>. QED  BY <2>1, <2>2
  <1>27. CASE ApplyDisk(v)
    <2>0. rec'[v].phase = rec[v].phase /\ rec'[v].compute = rec[v].compute
          /\ rec'[v].network = rec[v].network
      BY <1>a, <1>b, <1>27, SMTT(20) DEF JournalType, VmResourceRecord, ApplyDisk, SetDisk
    <2>1. StageInv(v)'
      BY <1>a, <1>27, <2>0, ZenonT(30) DEF StageInv, NeedsRecord, Provisioning, Cleaning,
        HostType, JournalType, StepType, ApplyDisk
    <2>2. HonestInv(v)'
      BY <1>a, <1>27, <2>0 DEF HonestInv, StageInv, NeedsRecord, Provisioning,
        Cleaning, HostType, JournalType, StepType, ApplyDisk
    <2>. QED  BY <2>1, <2>2
  <1>28. CASE Verdict(v)
    <2>0. /\ pc[v] = "rm_disk" /\ hasRec[v] /\ rec[v].phase = "CleanupPending"
          /\ UNCHANGED <<compute, network, hasRec, inventory, db, res, cur, worker>>
      BY <1>28 DEF Verdict, StageInv, NeedsRecord, Provisioning, Cleaning
    <2>1. res[v] = "none"
      <3>1. ~(cur[v] <= NumDisks)
        BY <1>a, <1>28, VmAssumption, SMT DEF Verdict, StepType
      <3>. QED  BY <2>0, <3>1 DEF StageInv
    <2>3. CASE AllRemoved(rec[v])
      <3>1. /\ pc'[v] = "remove_vm" /\ rec'[v] = [rec[v] EXCEPT !.phase = "Complete"]
        BY <1>a, <1>28, <2>3 DEF Verdict, JournalType, StepType
      <3>2. /\ rec'[v].phase = "Complete" /\ rec'[v].compute = rec[v].compute
            /\ rec'[v].network = rec[v].network /\ rec'[v].disks = rec[v].disks
        BY <1>b, <3>1, SMTT(20) DEF VmResourceRecord
      <3>3. AllRemoved(rec'[v])
        BY <2>3, <3>2 DEF AllRemoved
      <3>4. StageInv(v)'
        BY <2>0, <2>1, <3>1, <3>2, ZenonT(30) DEF StageInv, NeedsRecord, Provisioning, Cleaning
      <3>5. HonestInv(v)'
        BY <2>0, <3>1, <3>2, <3>3, ZenonT(30) DEF HonestInv
      <3>. QED  BY <3>4, <3>5
    <2>4. CASE ~AllRemoved(rec[v])
      <3>1. rec' = rec /\ pc'[v] \in {"put_abandoned", "unjournaled", "begin", "gc", "ended"}
        BY <1>a, <1>28, <2>4, SMTT(20) DEF Verdict, PassReturns, StepType
      <3>2. StageInv(v)'
        BY <2>0, <2>1, <3>1 DEF StageInv, NeedsRecord, Provisioning, Cleaning
      <3>3. HonestInv(v)'
        BY <2>0, <3>1, ZenonT(30) DEF HonestInv
      <3>. QED  BY <3>2, <3>3
    <2>. QED  BY <2>3, <2>4
  <1>29. CASE RemoveVm(v)
    <2>0. /\ pc[v] = "remove_vm" /\ pc'[v] = "remove_abandoned"
          /\ hasRec[v] /\ ~hasRec'[v] /\ rec[v].phase = "Complete"
          /\ UNCHANGED <<compute, network, inventory, db, res, cur, worker>>
      BY <1>a, <1>29 DEF RemoveVm, StageInv, NeedsRecord, Provisioning, Cleaning,
                        JournalType, StepType
    <2>3. compute[v] = "absent" /\ network[v] = {}
      BY <2>0 DEF HonestInv, AllRemoved
    <2>1. StageInv(v)'
      BY <2>0, <2>3 DEF StageInv, NeedsRecord, Provisioning, Cleaning
    <2>2. HonestInv(v)'
      BY <2>0, <2>3 DEF HonestInv
    <2>. QED  BY <2>1, <2>2
  <1>30. CASE RemoveAbandoned(v)
    <2>1. StageInv(v)'
      BY <1>a, <1>30, ZenonT(30) DEF StageInv, NeedsRecord, Provisioning, Cleaning,
        HostType, JournalType, StepType, RemoveAbandoned, PassReturns
    <2>2. HonestInv(v)'
      BY <1>a, <1>30, ZenonT(30) DEF HonestInv, StageInv, NeedsRecord, Provisioning,
        Cleaning, HostType, JournalType, StepType, RemoveAbandoned, PassReturns
    <2>. QED  BY <2>1, <2>2
  <1>31. CASE PutAbandoned(v)
    <2>1. StageInv(v)'
      BY <1>a, <1>31 DEF StageInv, NeedsRecord, Provisioning, Cleaning,
        HostType, JournalType, StepType, PutAbandoned
    <2>2. HonestInv(v)'
      BY <1>a, <1>31 DEF HonestInv, StageInv, NeedsRecord, Provisioning,
        Cleaning, HostType, JournalType, StepType, PutAbandoned
    <2>. QED  BY <2>1, <2>2
  <1>32. CASE MarkAbandoned(v)
    <2>0. rec'[v].phase = rec[v].phase /\ rec'[v].compute = Abandon(rec[v].compute)
          /\ rec'[v].network = Abandon(rec[v].network)
      BY <1>a, <1>b, <1>32 DEF JournalType, VmResourceRecord, MarkAbandoned,
        Abandoned
    <2>1. StageInv(v)'
      BY <1>a, <1>32, <2>0, ZenonT(30) DEF StageInv, NeedsRecord, Provisioning, Cleaning,
        HostType, JournalType, StepType, MarkAbandoned, PassReturns, Abandon
    <2>2. HonestInv(v)'
      BY <1>a, <1>32, <2>0, ZenonT(30) DEF HonestInv, StageInv, NeedsRecord, Provisioning,
        Cleaning, HostType, JournalType, StepType, MarkAbandoned, PassReturns,
        Abandon
    <2>. QED  BY <2>1, <2>2
  <1>33. CASE RollbackUnjournaled(v)
    <2>0. /\ pc[v] = "unjournaled" /\ pc'[v] \in {"unjournaled", "ended"}
          /\ UNCHANGED <<compute, network, journalVars, res, cur, worker>>
      BY <1>a, <1>33 DEF RollbackUnjournaled, StepType
    <2>1. StageInv(v)'
      BY <2>0 DEF StageInv, NeedsRecord, Provisioning, Cleaning
    <2>2. HonestInv(v)'
      BY <2>0 DEF HonestInv
    <2>. QED  BY <2>1, <2>2
  <1>34. CASE Recover(v)
    <2>0. /\ pc[v] = "dead" /\ pc'[v] \in {"begin", "gc"}
          /\ UNCHANGED <<compute, network, inventory, db, res, cur, worker>>
      BY <1>a, <1>34, ZenonT(30) DEF Recover, StepType
    <2>3. \/ UNCHANGED <<hasRec, rec>>
          \/ hasRec[v] /\ is_complete(rec[v]) /\ ~hasRec'[v]
      BY <1>a, <1>34, SMTT(20) DEF Recover, JournalType
    <2>4. ASSUME hasRec[v], is_complete(rec[v])
          PROVE  /\ ComputeEntry \notin inventory[v] => compute[v] = "absent"
                 /\ NetworkEntry \notin inventory[v] => network[v] = {}
      <3>1. CASE rec[v].phase = "Complete"
        BY <2>4, <3>1, ZenonT(30) DEF HonestInv, AllRemoved
      <3>2. CASE rec[v].phase # "Complete"
        <4>1. /\ rec[v].compute \in {"Removed", "Abandoned"}
              /\ rec[v].network \in {"Removed", "Abandoned", "None"}
          BY <2>4, <3>2, ZenonT(30) DEF is_complete, Terminal
        <4>2. ComputeEntry \notin inventory[v] => compute[v] = "absent"
          BY <2>4, <4>1 DEF HonestInv
        <4>3. NetworkEntry \notin inventory[v] => network[v] = {}
          BY <2>4, <4>1, ZenonT(30) DEF HonestInv
        <4>. QED  BY <4>2, <4>3, ZenonT(30)
      <3>. QED  BY <3>1, <3>2
    <2>1. StageInv(v)'
      BY <2>0, <2>3 DEF StageInv, NeedsRecord, Provisioning, Cleaning
    <2>2. HonestInv(v)'
      <3>1. CASE UNCHANGED <<hasRec, rec>>
        BY <2>0, <3>1, ZenonT(30) DEF HonestInv
      <3>2. CASE hasRec[v] /\ is_complete(rec[v]) /\ ~hasRec'[v]
        BY <2>0, <2>4, <3>2, ZenonT(30) DEF HonestInv
      <3>. QED  BY <2>3, <3>1, <3>2, ZenonT(30)
    <2>. QED  BY <2>1, <2>2
  <1>35. CASE CollectSession(v)
    <2>1. StageInv(v)'
      BY <1>a, <1>35, ZenonT(30) DEF StageInv, NeedsRecord, Provisioning, Cleaning,
        HostType, JournalType, StepType, CollectSession, Kept
    <2>2. HonestInv(v)'
      BY <1>a, <1>35, ZenonT(30) DEF HonestInv, StageInv, NeedsRecord, Provisioning,
        Cleaning, HostType, JournalType, StepType, CollectSession,
        Kept
    <2>. QED  BY <2>1, <2>2
  <1>36. CASE JournalFails(v)
    <2>1. StageInv(v)'
      BY <1>a, <1>36, SMT DEF StageInv, NeedsRecord, Provisioning, Cleaning,
        HostType, JournalType, StepType, JournalFails, Rollback, PassReturns
    <2>2. HonestInv(v)'
      BY <1>a, <1>36, SMTT(20) DEF HonestInv, StageInv, NeedsRecord, Provisioning,
        Cleaning, HostType, JournalType, StepType, JournalFails, Rollback,
        PassReturns
    <2>. QED  BY <2>1, <2>2
  <1>37. CASE Exit(v)
    <2>1. StageInv(v)'
      BY <1>a, <1>37, ZenonT(30) DEF StageInv, NeedsRecord, Provisioning, Cleaning,
        HostType, JournalType, StepType, Exit, Gone
    <2>2. HonestInv(v)'
      BY <1>a, <1>37, ZenonT(30) DEF HonestInv, StageInv, NeedsRecord, Provisioning,
        Cleaning, HostType, JournalType, StepType, Exit, Gone
    <2>. QED  BY <2>1, <2>2
  <1>38. CASE Crash(v)
    <2>1. StageInv(v)'
      BY <1>a, <1>38, ZenonT(30) DEF StageInv, NeedsRecord, Provisioning, Cleaning,
        HostType, JournalType, StepType, Crash, Gone
    <2>2. HonestInv(v)'
      BY <1>a, <1>38, ZenonT(30) DEF HonestInv, StageInv, NeedsRecord, Provisioning,
        Cleaning, HostType, JournalType, StepType, Crash, Gone
    <2>. QED  BY <2>1, <2>2
  <1>39. CASE GuestStops(v)
    <2>1. StageInv(v)'
      BY <1>a, <1>39, ZenonT(30) DEF StageInv, NeedsRecord, Provisioning, Cleaning,
        HostType, JournalType, StepType, GuestStops
    <2>2. HonestInv(v)'
      BY <1>a, <1>39, ZenonT(30) DEF HonestInv, StageInv, NeedsRecord, Provisioning,
        Cleaning, HostType, JournalType, StepType, GuestStops
    <2>. QED  BY <2>1, <2>2
  <1>40. CASE OperatorRemoves(v)
    <2>1. StageInv(v)'
      BY <1>a, <1>40, ZenonT(30) DEF StageInv, NeedsRecord, Provisioning, Cleaning,
        HostType, JournalType, StepType, OperatorRemoves
    <2>2. HonestInv(v)'
      BY <1>a, <1>40, ZenonT(30) DEF HonestInv, StageInv, NeedsRecord, Provisioning,
        Cleaning, HostType, JournalType, StepType, OperatorRemoves
    <2>. QED  BY <2>1, <2>2
  <1>. QED  BY <1>1, <1>2, <1>3, <1>4, <1>5, <1>6, <1>7, <1>8, <1>9, <1>10,
    <1>11, <1>12, <1>13, <1>14, <1>15, <1>16, <1>17, <1>18, <1>19, <1>20, <1>21,
    <1>22, <1>23, <1>24, <1>25, <1>26, <1>27, <1>28, <1>29, <1>30, <1>31, <1>32,
    <1>33, <1>34, <1>35, <1>36, <1>37, <1>38, <1>39, <1>40, Zenon
         DEF VmNext, Provision, Clean

\* The leak invariant holds before the first launch.
LEMMA InitLeak == Init => LeakInv
  <1>. SUFFICES ASSUME Init, NEW v \in VM PROVE StageInv(v) /\ HonestInv(v)
    BY ZenonT(30) DEF LeakInv
  <1>1. StageInv(v)
    BY ZenonT(30) DEF Init, StageInv, NeedsRecord, Provisioning, Cleaning
  <1>2. HonestInv(v)
    BY DEF Init, HonestInv
  <1>. QED  BY <1>1, <1>2

\* Every step preserves the leak invariant when no future is dropped in flight.
LEMMA NextLeak ==
    ASSUME ~DropsInFlight
    PROVE  TypeOK /\ LeakInv /\ [Next]_vars => LeakInv'
  <1>. SUFFICES ASSUME TypeOK, LeakInv, [Next]_vars, NEW w \in VM
                PROVE  StageInv(w)' /\ HonestInv(w)'
    BY DEF LeakInv
  <1>0. StageInv(w) /\ HonestInv(w)
    BY DEF LeakInv
  <1>1. ASSUME NEW v \in VM, VmNext(v) PROVE StageInv(w)' /\ HonestInv(w)'
    <2>1. CASE w = v
      BY <1>0, <1>1, <2>1, LeakStep, ZenonT(30)
    <2>2. CASE w # v
      BY <1>0, <1>1, <2>2, OtherVms, LeakFrame, ZenonT(30)
    <2>. QED  BY <2>1, <2>2
  <1>2. ASSUME NEW p \in Path, UserChanges(p) PROVE StageInv(w)' /\ HonestInv(w)'
    <2>1. View(w)' = View(w)
      BY <1>2 DEF UserChanges, View
    <2>. QED  BY <1>0, <2>1, LeakFrame, ZenonT(30)
  <1>3. CASE UNCHANGED vars
    <2>1. View(w)' = View(w)
      BY <1>3, ZenonT(30) DEF vars, View
    <2>. QED  BY <1>0, <2>1, LeakFrame, ZenonT(30)
  <1>. QED  BY <1>1, <1>2, <1>3 DEF Next, Finished

\* The leak invariant holds in every reachable state.
THEOREM LeakInvariant ==
    ASSUME ~DropsInFlight
    PROVE  Spec => [](TypeOK /\ LeakInv)
  <1>1. TypeOK /\ LeakInv /\ [Next]_vars => LeakInv'
    BY NextLeak
  <1>. QED  BY <1>1, InitLeak, TypeCorrect, PTL DEF Spec

\* A compute system or network that exists is named by a journal record that
\* does not call it Removed or by the abandoned inventory, over every order of
\* launches, failing removals, journal failures, crashes and recoveries.
THEOREM NoLeak ==
    ASSUME ~DropsInFlight
    PROVE  Spec => []NoSilentLeak
  <1>1. TypeOK /\ LeakInv => NoSilentLeak
    <2>. SUFFICES ASSUME TypeOK, LeakInv, NEW v \in VM
                  PROVE /\ compute[v] # "absent" =>
                             \/ hasRec[v] /\ rec[v].compute # "Removed"
                             \/ ComputeEntry \in inventory[v]
                        /\ network[v] # {} =>
                             \/ hasRec[v] /\ rec[v].network \notin {"None", "Removed"}
                             \/ NetworkEntry \in inventory[v]
      BY ZenonT(30) DEF NoSilentLeak
    <2>. QED  BY ZenonT(30) DEF LeakInv, HonestInv
  <1>. QED  BY <1>1, LeakInvariant, PTL

\* reconcile_stale_sessions collects a session file only when its VM left no
\* compute system and no network on the host.
THEOREM CollectionSafe ==
    ASSUME ~DropsInFlight
    PROVE  Spec => []CollectedSessionLeavesNothing
  <1>1. TypeOK /\ LeakInv => CollectedSessionLeavesNothing
    <2>. SUFFICES ASSUME TypeOK, LeakInv, NEW v \in VM, ~db[v]
                  PROVE  compute[v] = "absent" /\ network[v] = {}
      BY DEF CollectedSessionLeavesNothing
    <2>0. StageInv(v) /\ HonestInv(v)
      BY ZenonT(30) DEF LeakInv
    <2>1. /\ ComputeEntry \notin inventory[v] /\ NetworkEntry \notin inventory[v]
          /\ hasRec[v] => is_complete(rec[v])
      BY <2>0, ZenonT(30) DEF StageInv
    <2>2. CASE ~hasRec[v]
      BY <2>0, <2>1, <2>2, ZenonT(30) DEF HonestInv
    <2>3. CASE hasRec[v] /\ rec[v].phase = "Complete"
      BY <2>0, <2>3 DEF HonestInv, AllRemoved
    <2>4. CASE hasRec[v] /\ rec[v].phase # "Complete"
      <3>1. /\ rec[v].compute \in {"Removed", "Abandoned"}
            /\ rec[v].network \in {"Removed", "Abandoned", "None"}
        BY <2>1, <2>4 DEF is_complete, Terminal
      <3>. QED  BY <2>0, <2>1, <2>4, <3>1, ZenonT(30) DEF HonestInv
    <2>. QED  BY <2>2, <2>3, <2>4
  <1>. QED  BY <1>1, LeakInvariant, PTL

\* The steps that touch the abandoned inventory.
LEMMA InventorySteps ==
    ASSUME NEW v \in VM, VmNext(v)
    PROVE  inventory' = inventory \/ RemoveAbandoned(v) \/ PutAbandoned(v)
  <1>1. Provision(v) => inventory' = inventory
    BY DEF Provision, PutVm, CreateNetwork, CreateEndpoint, JournalNetwork,
           LockPath, Materialize, CaptureIdentity, JournalDisk, GrantAccess,
           JournalAce, SubmitCreate, WorkerCreates, JoinCreate, DropFuture,
           JournalCompute
  <1>2. Clean(v) => inventory' = inventory \/ RemoveAbandoned(v) \/ PutAbandoned(v)
    BY DEF Clean, BeginPass, RemoveCompute, ApplyCompute, RemoveNetwork,
           ApplyNetwork, RemoveDisk, DeleteFile, ApplyDisk, Verdict, RemoveVm,
           MarkAbandoned, RollbackUnjournaled
  <1>. QED  BY <1>1, <1>2 DEF VmNext, start, mark_published, GuestStops, close,
                drop, Recover, CollectSession, JournalFails, Exit, Crash, Gone,
                OperatorRemoves

\* remove_abandoned runs only after the pass has seen the compute system and
\* the network gone, so the inventory never forgets a resource that exists.
THEOREM InventoryHonest ==
    ASSUME ~DropsInFlight
    PROVE  Spec => InventoryClearedOnlyWhenGone
  <1>1. TypeOK /\ LeakInv /\ [Next]_vars =>
          [\A v \in VM : inventory[v] # {} /\ inventory'[v] = {} =>
             compute[v] = "absent" /\ network[v] = {}]_vars
    <2>. SUFFICES ASSUME TypeOK, LeakInv, Next, NEW v \in VM,
                         inventory[v] # {}, inventory'[v] = {}
                  PROVE  compute[v] = "absent" /\ network[v] = {}
      BY DEF vars
    <2>1. ASSUME NEW w \in VM, VmNext(w)
          PROVE  compute[v] = "absent" /\ network[v] = {}
      <3>1. RemoveAbandoned(w) \/ PutAbandoned(w)
        BY <2>1, InventorySteps
      <3>2. CASE w # v
        BY <3>1, <3>2 DEF RemoveAbandoned, PutAbandoned, TypeOK, JournalType
      <3>3. CASE w = v /\ PutAbandoned(w)
        <4>1. inventory[v] \subseteq inventory'[v]
          BY <3>3 DEF PutAbandoned, TypeOK, JournalType
        <4>. QED  BY <4>1, ZenonT(30)
      <3>4. CASE w = v /\ RemoveAbandoned(w)
        BY <3>4 DEF RemoveAbandoned, LeakInv, StageInv
      <3>. QED  BY <3>1, <3>2, <3>3, <3>4
    <2>2. ASSUME NEW p \in Path, UserChanges(p) PROVE FALSE
      BY <2>2 DEF UserChanges
    <2>3. ~Finished
      BY DEF Finished, vars
    <2>. QED  BY <2>1, <2>2, <2>3 DEF Next
  <1>. QED  BY <1>1, LeakInvariant, PTL DEF Spec, InventoryClearedOnlyWhenGone

-----------------------------------------------------------------------------
(* What the journal commits keep of a record's disks                       *)

\* Records q and r agree on publication and on what remove_disk decides by.
SameDisks(q, r) ==
    /\ q.published = r.published
    /\ \A k \in Disk : /\ q.disks[k].identity = r.disks[k].identity
                       /\ q.disks[k].origin = r.disks[k].origin
                       /\ q.disks[k].retention = r.disks[k].retention
                       /\ q.disks[k].published = r.disks[k].published

\* Outcomes, phases, attempts and ACEs do not touch those facts.
LEMMA SameDisksUpdates ==
    ASSUME NEW r \in VmResourceRecord
    PROVE  /\ \A s : SameDisks([r EXCEPT !.network = s], r)
           /\ \A s : SameDisks([r EXCEPT !.compute = s], r)
           /\ \A s, t : SameDisks([r EXCEPT !.compute = s, !.phase = t], r)
           /\ \A s : SameDisks([r EXCEPT !.phase = s], r)
           /\ \A s, n : SameDisks([r EXCEPT !.phase = s, !.attempts = n], r)
           /\ \A k \in Disk : SameDisks(SetDisk(r, k, [r.disks[k] EXCEPT !.ace = TRUE]), r)
           /\ \A x : \A k \in Disk :
                SameDisks(SetDisk(r, k, DiskOutcome(r.disks[k], x)), r)
           /\ SameDisks(Abandoned(r), r)
  <1>0. \A k \in Disk : r.disks[k] \in DiskResource
    BY DEF VmResourceRecord
  <1>1. /\ \A s : SameDisks([r EXCEPT !.network = s], r)
        /\ \A s : SameDisks([r EXCEPT !.compute = s], r)
        /\ \A s, t : SameDisks([r EXCEPT !.compute = s, !.phase = t], r)
        /\ \A s : SameDisks([r EXCEPT !.phase = s], r)
        /\ \A s, n : SameDisks([r EXCEPT !.phase = s, !.attempts = n], r)
    BY DEF SameDisks, VmResourceRecord
  <1>2. ASSUME NEW k \in Disk, NEW d
        PROVE  /\ SetDisk(r, k, d).published = r.published
               /\ SetDisk(r, k, d).disks = [r.disks EXCEPT ![k] = d]
    BY DEF SetDisk, VmResourceRecord
  <1>3. r.disks \in [Disk -> DiskResource]
    BY ZenonT(30) DEF VmResourceRecord
  <1>7. ASSUME NEW k \in Disk, NEW d,
               d.identity = r.disks[k].identity, d.origin = r.disks[k].origin,
               d.retention = r.disks[k].retention, d.published = r.disks[k].published
        PROVE  SameDisks(SetDisk(r, k, d), r)
    <2>1. SetDisk(r, k, d).published = r.published
      BY <1>2
    <2>2. ASSUME NEW j \in Disk
          PROVE  /\ SetDisk(r, k, d).disks[j].identity = r.disks[j].identity
                 /\ SetDisk(r, k, d).disks[j].origin = r.disks[j].origin
                 /\ SetDisk(r, k, d).disks[j].retention = r.disks[j].retention
                 /\ SetDisk(r, k, d).disks[j].published = r.disks[j].published
      <3>0. SetDisk(r, k, d).disks = [r.disks EXCEPT ![k] = d]
        BY <1>2
      <3>1. SetDisk(r, k, d).disks[j] = IF j = k THEN d ELSE r.disks[j]
        BY <1>3, <3>0
      <3>. QED  BY <1>7, <3>1
    <2>. QED  BY <2>1, <2>2 DEF SameDisks
  <1>4. ASSUME NEW k \in Disk
        PROVE  SameDisks(SetDisk(r, k, [r.disks[k] EXCEPT !.ace = TRUE]), r)
    <2>1. /\ [r.disks[k] EXCEPT !.ace = TRUE].identity = r.disks[k].identity
          /\ [r.disks[k] EXCEPT !.ace = TRUE].origin = r.disks[k].origin
          /\ [r.disks[k] EXCEPT !.ace = TRUE].retention = r.disks[k].retention
          /\ [r.disks[k] EXCEPT !.ace = TRUE].published = r.disks[k].published
      BY <1>0, ZenonT(30) DEF DiskResource
    <2>. QED  BY <1>7, <2>1
  <1>5. ASSUME NEW k \in Disk, NEW x
        PROVE  SameDisks(SetDisk(r, k, DiskOutcome(r.disks[k], x)), r)
    <2>1. /\ DiskOutcome(r.disks[k], x).identity = r.disks[k].identity
          /\ DiskOutcome(r.disks[k], x).origin = r.disks[k].origin
          /\ DiskOutcome(r.disks[k], x).retention = r.disks[k].retention
          /\ DiskOutcome(r.disks[k], x).published = r.disks[k].published
      BY <1>0 DEF DiskOutcome, DiskResource
    <2>. QED  BY <1>7, <2>1
  <1>6. SameDisks(Abandoned(r), r)
    <2>1. /\ Abandoned(r).published = r.published
          /\ Abandoned(r).disks = [k \in Disk |->
               [r.disks[k] EXCEPT !.state = Abandon(r.disks[k].state)]]
      BY DEF Abandoned, VmResourceRecord
    <2>2. ASSUME NEW k \in Disk
          PROVE  /\ Abandoned(r).disks[k].identity = r.disks[k].identity
                 /\ Abandoned(r).disks[k].origin = r.disks[k].origin
                 /\ Abandoned(r).disks[k].retention = r.disks[k].retention
                 /\ Abandoned(r).disks[k].published = r.disks[k].published
      BY <1>0, <2>1, SMT DEF DiskResource
    <2>. QED  BY <2>1, <2>2 DEF SameDisks
  <1>. QED  BY <1>1, <1>4, <1>5, <1>6

\* A planned record knows no file.
LEMMA PlannedFacts ==
    ASSUME NEW sp, NEW nic
    PROVE  /\ ~PlannedRecord(sp, nic).published
           /\ \A k \in Disk : /\ PlannedRecord(sp, nic).disks[k].identity = NoFile
                              /\ PlannedRecord(sp, nic).disks[k].retention = sp[k].retention
                              /\ PlannedRecord(sp, nic).disks[k].state = "Planned"
  BY DEF PlannedRecord

\* The disks of a request have paths of their own (validate_disks).
LEMMA SpecsDistinct ==
    ASSUME NEW sp \in Specs
    PROVE  \A j, k \in Disk : sp[j].path = sp[k].path => j = k
  BY DEF Specs

\* A disk step that is not past the last disk is at a disk (apply_disk).
LEMMA DiskIndex ==
    ASSUME NEW n \in 1..(NumDisks + 1), n <= NumDisks
    PROVE  n \in Disk
  BY VmAssumption, SMT DEF Disk

\* The record of a VM that has none is unpublished and knows no file.
LEMMA BlankFacts ==
    /\ ~BlankRecord.published
    /\ \A k \in Disk : BlankRecord.disks[k].identity = NoFile
  BY PlannedFacts, ZenonT(30) DEF BlankRecord

\* The steps that write the record of their VM.
LEMMA RecordWriters ==
    ASSUME NEW v \in VM, VmNext(v)
    PROVE  \/ UNCHANGED <<hasRec, rec>>
           \/ \E sp \in Specs, nic \in Nics : PutVm(v, sp, nic)
           \/ JournalDisk(v) \/ mark_published(v)
           \/ JournalNetwork(v) \/ JournalAce(v) \/ JournalCompute(v) \/ BeginPass(v)
           \/ ApplyCompute(v) \/ ApplyNetwork(v) \/ ApplyDisk(v) \/ Verdict(v)
           \/ RemoveVm(v) \/ MarkAbandoned(v) \/ Recover(v)
  <1>1. Provision(v) =>
           \/ UNCHANGED <<hasRec, rec>>
           \/ \E sp \in Specs, nic \in Nics : PutVm(v, sp, nic)
           \/ JournalNetwork(v) \/ JournalDisk(v) \/ JournalAce(v) \/ JournalCompute(v)
    BY DEF Provision, CreateNetwork, CreateEndpoint, LockPath, Materialize,
           CaptureIdentity, GrantAccess, SubmitCreate, WorkerCreates, JoinCreate,
           DropFuture
  <1>2. Clean(v) =>
           \/ UNCHANGED <<hasRec, rec>>
           \/ BeginPass(v) \/ ApplyCompute(v) \/ ApplyNetwork(v) \/ ApplyDisk(v)
           \/ Verdict(v) \/ RemoveVm(v) \/ MarkAbandoned(v)
    BY DEF Clean, RemoveCompute, RemoveNetwork, RemoveDisk, DeleteFile,
           RemoveAbandoned, PutAbandoned, RollbackUnjournaled
  <1>. QED  BY <1>1, <1>2 DEF VmNext, start, GuestStops, close, drop,
                CollectSession, JournalFails, Exit, Crash, Gone, OperatorRemoves

\* What a step does to the disks of its VM's record.
LEMMA RecordSteps ==
    ASSUME TypeOK, NEW v \in VM, VmNext(v)
    PROVE  \/ SameDisks(rec'[v], rec[v]) /\ hasRec'[v] = hasRec[v]
           \/ \E sp \in Specs, nic \in Nics : PutVm(v, sp, nic)
           \/ JournalDisk(v)
           \/ mark_published(v)
           \/ rec'[v] = BlankRecord /\ ~hasRec'[v]
  <1>a. JournalType /\ StepType
    BY DEF TypeOK
  <1>b. rec[v] \in VmResourceRecord
    BY <1>a DEF JournalType
  <1>c. SameDisks(rec[v], rec[v])
    BY DEF SameDisks
  <1>1. \/ UNCHANGED <<hasRec, rec>>
        \/ \E sp \in Specs, nic \in Nics : PutVm(v, sp, nic)
        \/ JournalDisk(v) \/ mark_published(v)
        \/ JournalNetwork(v) \/ JournalAce(v) \/ JournalCompute(v) \/ BeginPass(v)
        \/ ApplyCompute(v) \/ ApplyNetwork(v) \/ ApplyDisk(v) \/ Verdict(v)
        \/ RemoveVm(v) \/ MarkAbandoned(v) \/ Recover(v)
    BY RecordWriters
  <1>2. CASE UNCHANGED <<hasRec, rec>>
    BY <1>2, <1>c
  <1>3. CASE JournalNetwork(v)
    BY <1>a, <1>b, <1>3, SameDisksUpdates DEF JournalNetwork, JournalType
  <1>4. CASE JournalAce(v)
    <2>1. cur[v] \in Disk
      BY <1>a, <1>4 DEF JournalAce, StepType, DiskStages
    <2>. QED  BY <1>a, <1>b, <1>4, <2>1, SameDisksUpdates DEF JournalAce, JournalType
  <1>5. CASE JournalCompute(v)
    BY <1>a, <1>b, <1>5, SameDisksUpdates DEF JournalCompute, JournalType
  <1>6. CASE BeginPass(v)
    <2>1. hasRec' = hasRec
      BY <1>6, ZenonT(30) DEF BeginPass
    <2>2. CASE rec' = rec
      BY <1>c, <2>1, <2>2
    <2>3. CASE rec' # rec
      <3>1. rec'[v] = [rec[v] EXCEPT !.phase = "CleanupPending",
                                     !.attempts = rec[v].attempts + 1]
        BY <1>a, <1>6, <2>3 DEF BeginPass, JournalType
      <3>2. \A n : SameDisks([rec[v] EXCEPT !.phase = "CleanupPending", !.attempts = n],
                            rec[v])
        BY <1>b, SameDisksUpdates
      <3>. QED  BY <2>1, <3>1, <3>2
    <2>. QED  BY <2>2, <2>3
  <1>7. CASE ApplyCompute(v)
    <2>1. SameDisks([rec[v] EXCEPT !.compute = Outcome(res[v])], rec[v])
      BY <1>b, SameDisksUpdates
    <2>. QED  BY <1>a, <1>c, <1>7, <2>1 DEF ApplyCompute, JournalType
  <1>8. CASE ApplyNetwork(v)
    <2>1. SameDisks([rec[v] EXCEPT !.network = Outcome(res[v])], rec[v])
      BY <1>b, SameDisksUpdates
    <2>. QED  BY <1>a, <1>c, <1>8, <2>1 DEF ApplyNetwork, JournalType
  <1>9. CASE ApplyDisk(v)
    <2>1. cur[v] \in Disk
      <3>1. cur[v] <= NumDisks
        BY <1>9, ZenonT(30) DEF ApplyDisk
      <3>2. cur[v] \in 1..(NumDisks + 1)
        BY <1>a DEF StepType
      <3>. QED  BY <3>1, <3>2, VmAssumption, SMT DEF Disk
    <2>2. SameDisks(SetDisk(rec[v], cur[v], DiskOutcome(rec[v].disks[cur[v]], res[v])),
                    rec[v])
      BY <1>b, <2>1, SameDisksUpdates
    <2>. QED  BY <1>a, <1>c, <1>9, <2>2, ZenonT(30) DEF ApplyDisk, JournalType
  <1>10. CASE Verdict(v)
    <2>1. SameDisks([rec[v] EXCEPT !.phase = "Complete"], rec[v])
      BY <1>b, SameDisksUpdates
    <2>. QED  BY <1>a, <1>c, <1>10, <2>1 DEF Verdict, JournalType
  <1>11. CASE RemoveVm(v)
    BY <1>a, <1>11 DEF RemoveVm, JournalType
  <1>12. CASE MarkAbandoned(v)
    BY <1>a, <1>b, <1>12, SameDisksUpdates DEF MarkAbandoned, JournalType
  <1>13. CASE Recover(v)
    BY <1>a, <1>c, <1>13 DEF Recover, JournalType
  <1>. QED  BY <1>1, <1>2, <1>3, <1>4, <1>5, <1>6, <1>7, <1>8, <1>9, <1>10,
               <1>11, <1>12, <1>13, ZenonT(30)

-----------------------------------------------------------------------------
(* What the other steps leave alone                                        *)

\* A step that picks no file, starts no launch and enters no disk stage.
Quiet(v) ==
    /\ spec'[v] = spec[v]
    /\ pc'[v] \in Provisioning => pc[v] \in Provisioning
    /\ pc'[v] \in {"created", "running"} =>
         pc[v] \in {"created", "running"} \/ unjournaled'[v] = {}
    /\ unjournaled'[v] \subseteq unjournaled[v]
    /\ captured'[v] \in {captured[v], NoFile}
    /\ pc'[v] \in {"capture", "disk_journal", "rm_file"} =>
         /\ pc'[v] = pc[v] /\ cur'[v] = cur[v] /\ cls'[v] = cls[v]
         /\ captured'[v] = captured[v] /\ rec'[v] = rec[v]

\* A step that neither reports the removal of a disk nor lists what is left.
Steady(v) ==
    /\ pc'[v] = "rm_disk" /\ res'[v] = "ok" =>
         \/ DeleteFile(v)
         \/ /\ pc'[v] = pc[v] /\ res'[v] = res[v]
            /\ cur'[v] = cur[v] /\ rec'[v] = rec[v]
    /\ pc'[v] = "mark_abandoned" =>
         PutAbandoned(v) \/ (pc'[v] = pc[v] /\ rec'[v] = rec[v])

\* Every other step of a VM is quiet: it moves no file and keeps what was
\* classified and captured.
LEMMA QuietSteps ==
    ASSUME TypeOK, NEW v \in VM, VmNext(v)
    PROVE  \/ \E sp \in Specs, nic \in Nics : PutVm(v, sp, nic)
           \/ Materialize(v) \/ CaptureIdentity(v) \/ RemoveDisk(v)
           \/ Quiet(v) /\ Steady(v)
  <1>a. JournalType /\ StepType /\ LaunchType
    BY ZenonT(30) DEF TypeOK
  <1>. USE DEF Quiet, Steady, Provisioning, JournalType, StepType, LaunchType
  <1>1. CASE CreateNetwork(v)
    BY <1>a, <1>1, ZenonT(30) DEF CreateNetwork, Rollback
  <1>2. CASE CreateEndpoint(v)
    BY <1>a, <1>2, SMT DEF CreateEndpoint, Rollback
  <1>3. CASE JournalNetwork(v)
    BY <1>a, <1>3 DEF JournalNetwork
  <1>4. CASE LockPath(v)
    BY <1>a, <1>4, ZenonT(30) DEF LockPath, Rollback
  <1>5. CASE JournalDisk(v)
    BY <1>a, <1>5, ZenonT(30) DEF JournalDisk
  <1>6. CASE GrantAccess(v)
    BY <1>a, <1>6, ZenonT(30) DEF GrantAccess, Rollback
  <1>7. CASE JournalAce(v)
    BY <1>a, <1>7 DEF JournalAce
  <1>8. CASE SubmitCreate(v)
    BY <1>a, <1>8, ZenonT(30) DEF SubmitCreate, Rollback
  <1>9. CASE WorkerCreates(v)
    BY <1>a, <1>9, ZenonT(30) DEF WorkerCreates
  <1>10. CASE JoinCreate(v)
    BY <1>a, <1>10, ZenonT(30) DEF JoinCreate, Rollback
  <1>11. CASE DropFuture(v)
    BY <1>a, <1>11 DEF DropFuture, Rollback
  <1>12. CASE JournalCompute(v)
    BY <1>a, <1>12, ZenonT(30) DEF JournalCompute
  <1>13. CASE start(v)
    BY <1>a, <1>13, ZenonT(30) DEF start
  <1>14. CASE mark_published(v)
    BY <1>a, <1>14, ZenonT(30) DEF mark_published
  <1>15. CASE close(v)
    BY <1>a, <1>15, ZenonT(30) DEF close
  <1>16. CASE drop(v)
    BY <1>a, <1>16 DEF drop
  <1>17. CASE BeginPass(v)
    BY <1>a, <1>17, SMT DEF BeginPass, PassReturns
  <1>18. CASE RemoveCompute(v)
    BY <1>a, <1>18 DEF RemoveCompute
  <1>19. CASE ApplyCompute(v)
    BY <1>a, <1>19, ZenonT(30) DEF ApplyCompute
  <1>20. CASE RemoveNetwork(v)
    BY <1>a, <1>20 DEF RemoveNetwork
  <1>21. CASE ApplyNetwork(v)
    BY <1>a, <1>21, ZenonT(30) DEF ApplyNetwork
  <1>22. CASE DeleteFile(v)
    BY <1>a, <1>22, ZenonT(30) DEF DeleteFile
  <1>23. CASE ApplyDisk(v)
    BY <1>a, <1>23, ZenonT(30) DEF ApplyDisk
  <1>24. CASE Verdict(v)
    BY <1>a, <1>24, SMT DEF Verdict, PassReturns
  <1>25. CASE RemoveVm(v)
    BY <1>a, <1>25 DEF RemoveVm
  <1>26. CASE RemoveAbandoned(v)
    BY <1>a, <1>26, ZenonT(30) DEF RemoveAbandoned, PassReturns
  <1>27. CASE PutAbandoned(v)
    BY <1>a, <1>27, ZenonT(30) DEF PutAbandoned
  <1>28. CASE MarkAbandoned(v)
    BY <1>a, <1>28, ZenonT(30) DEF MarkAbandoned, PassReturns
  <1>29. CASE RollbackUnjournaled(v)
    BY <1>a, <1>29, SMT DEF RollbackUnjournaled
  <1>30. CASE Recover(v)
    BY <1>a, <1>30, SMT DEF Recover
  <1>31. CASE CollectSession(v)
    BY <1>a, <1>31 DEF CollectSession
  <1>32. CASE JournalFails(v)
    BY <1>a, <1>32, SMT DEF JournalFails, Rollback, PassReturns
  <1>33. CASE Exit(v)
    BY <1>a, <1>33, ZenonT(30) DEF Exit, Gone
  <1>34. CASE Crash(v)
    BY <1>a, <1>34, ZenonT(30) DEF Crash, Gone
  <1>35. CASE GuestStops(v)
    BY <1>a, <1>35, ZenonT(30) DEF GuestStops
  <1>36. CASE OperatorRemoves(v)
    BY <1>a, <1>36 DEF OperatorRemoves
  <1>. QED  BY <1>1, <1>2, <1>3, <1>4, <1>5, <1>6, <1>7, <1>8, <1>9, <1>10,
    <1>11, <1>12, <1>13, <1>14, <1>15, <1>16, <1>17, <1>18, <1>19, <1>20, <1>21,
    <1>22, <1>23, <1>24, <1>25, <1>26, <1>27, <1>28, <1>29, <1>30, <1>31, <1>32,
    <1>33, <1>34, <1>35, <1>36
         DEF VmNext, Provision, Clean

\* The steps that create or delete files.
LEMMA FileSteps ==
    ASSUME NEW v \in VM, VmNext(v)
    PROVE  \/ UNCHANGED <<file, creator, nextId>>
           \/ Materialize(v) \/ DeleteFile(v) \/ RollbackUnjournaled(v)
  <1>1. Provision(v) => UNCHANGED <<file, creator, nextId>> \/ Materialize(v)
    BY DEF Provision, PutVm, CreateNetwork, CreateEndpoint, JournalNetwork,
           LockPath, CaptureIdentity, JournalDisk, GrantAccess, JournalAce,
           SubmitCreate, WorkerCreates, JoinCreate, DropFuture, JournalCompute
  <1>2. Clean(v) => \/ UNCHANGED <<file, creator, nextId>>
                    \/ DeleteFile(v) \/ RollbackUnjournaled(v)
    BY DEF Clean, BeginPass, RemoveCompute, ApplyCompute, RemoveNetwork,
           ApplyNetwork, RemoveDisk, ApplyDisk, Verdict, RemoveVm, PutAbandoned,
           RemoveAbandoned, MarkAbandoned
  <1>. QED  BY <1>1, <1>2 DEF VmNext, start, mark_published, GuestStops, close,
                drop, Recover, CollectSession, JournalFails, Exit, Crash, Gone,
                OperatorRemoves

-----------------------------------------------------------------------------
(* The invariant is preserved                                              *)

\* The disk a pass has reached.
LEMMA DiskReached ==
    ASSUME StepType, NEW w \in VM, cur[w] <= NumDisks
    PROVE  cur[w] \in Disk
  <1>1. cur[w] \in 1..(NumDisks + 1)
    BY DEF StepType
  <1>. QED  BY <1>1, VmAssumption, SMT DEF Disk

\* A disk of a launch has a path.
LEMMA DiskHasPath ==
    ASSUME LaunchType, NEW w \in VM, NEW k \in Disk
    PROVE  spec[w][k].path \in Path
  <1>1. spec[w][k] \in DiskSpec
    BY ZenonT(30) DEF LaunchType
  <1>. QED  BY <1>1 DEF DiskSpec

\* The types of what the invariant of w looks at.
LEMMA DiskFieldTypes ==
    ASSUME TypeOK, NEW w \in VM
    PROVE  /\ rec[w] \in VmResourceRecord /\ captured[w] \in FileId \cup {NoFile}
           /\ unjournaled[w] \in SUBSET (Path \X FileId)
           /\ nextId \in Nat /\ FileId \subseteq Nat /\ NoFile \in Nat
           /\ file \in [Path -> FileId \cup {NoFile}]
           /\ \A k \in Disk : rec[w].disks[k].identity \in FileId \cup {NoFile}
           /\ pc[w] \in DiskStages => cur[w] \in Disk /\ PathOf(w) \in Path
  <1>1. /\ rec[w] \in VmResourceRecord /\ captured[w] \in FileId \cup {NoFile}
        /\ unjournaled[w] \in SUBSET (Path \X FileId)
        /\ file \in [Path -> FileId \cup {NoFile}]
    BY DEF TypeOK, HostType, JournalType, LaunchType
  <1>2. nextId \in Nat /\ FileId \subseteq Nat /\ NoFile \in Nat
    BY VmAssumption, SMT DEF TypeOK, HostType, FileId, NoFile
  <1>3. \A k \in Disk : rec[w].disks[k].identity \in FileId \cup {NoFile}
    BY <1>1 DEF VmResourceRecord, DiskResource
  <1>4. pc[w] \in DiskStages => cur[w] \in Disk
    BY DEF TypeOK, StepType
  <1>5. spec[w] \in [Disk -> DiskSpec]
    BY DEF TypeOK, LaunchType
  <1>. QED  BY <1>1, <1>2, <1>3, <1>4, <1>5, ZenonT(30) DEF PathOf, DiskSpec

\* Creating a VHDX hands out a new identity and forgets no creator.
LEMMA CreatorsKept ==
    ASSUME TypeOK, NEW v \in VM, UNCHANGED <<nextId, creator>> \/ NewVhd(v)
    PROVE  /\ nextId' \in Nat /\ nextId <= nextId'
           /\ \A i \in FileId : i < nextId => creator'[i] = creator[i]
  <1>0. nextId \in Nat /\ creator \in [FileId -> VM \cup {User}]
    BY VmAssumption, SMT DEF TypeOK, HostType
  <1>1. CASE UNCHANGED <<nextId, creator>>
    BY <1>0, <1>1, SMT
  <1>2. CASE NewVhd(v)
    <2>1. nextId' = nextId + 1 /\ creator' = [creator EXCEPT ![nextId] = v]
      BY <1>2 DEF NewVhd
    <2>2. nextId' \in Nat /\ nextId <= nextId'
      BY <1>0, <2>1, SMT
    <2>3. \A i \in FileId : i # nextId => creator'[i] = creator[i]
      BY <1>0, <2>1
    <2>4. \A i \in FileId : i < nextId => i # nextId
      BY <1>0, SMT DEF FileId
    <2>. QED  BY <2>2, <2>3, <2>4
  <1>. QED  BY <1>1, <1>2

\* The invariant of w survives a step elsewhere that only adds file identities
\* and leaves w's own file alone while w is about to use it.
LEMMA OwnFrame ==
    ASSUME TypeOK, NEW w \in VM, View(w)' = View(w), FreshInv(w), OwnInv(w),
           \A p \in Path : file[p] < nextId,
           nextId' \in Nat, nextId <= nextId',
           \A i \in FileId : i < nextId => creator'[i] = creator[i],
           /\ pc[w] \in {"capture", "rm_file"} /\ file[PathOf(w)] # NoFile
           /\ creator[file[PathOf(w)]] = w
           => file'[PathOf(w)] = file[PathOf(w)]
    PROVE  FreshInv(w)' /\ OwnInv(w)'
  <1>c. /\ rec'[w] = rec[w] /\ captured'[w] = captured[w] /\ pc'[w] = pc[w]
        /\ unjournaled'[w] = unjournaled[w] /\ cls'[w] = cls[w]
        /\ cur'[w] = cur[w] /\ PathOf(w)' = PathOf(w)
    BY ZenonT(30) DEF View, PathOf
  <1>1. FreshInv(w)'
    <2>1. captured[w] < nextId'
      BY DiskFieldTypes, SMT DEF FreshInv
    <2>2. \A x \in unjournaled[w] : x[2] < nextId'
      BY DiskFieldTypes, SMT DEF FreshInv
    <2>3. \A k \in Disk : rec[w].disks[k].identity < nextId'
      BY DiskFieldTypes, SMT DEF FreshInv
    <2>. QED  BY <1>c, <2>1, <2>2, <2>3 DEF FreshInv
  <1>2. OwnInv(w)'
    <2>1. \A x \in unjournaled[w] : creator'[x[2]] = w
      BY DiskFieldTypes DEF FreshInv, OwnInv
    <2>2. At(w, "capture") /\ cls[w] = "Create"
            => file'[PathOf(w)] # NoFile /\ creator'[file'[PathOf(w)]] = w
      BY DiskFieldTypes DEF OwnInv, DiskStages
    <2>3. At(w, "disk_journal") =>
            captured[w] # NoFile /\ (cls[w] = "Create" => creator'[captured[w]] = w)
      BY DiskFieldTypes, ZenonT(30) DEF FreshInv, OwnInv
    <2>4. ASSUME NEW k \in Disk, rec[w].disks[k].origin = "CreatedByLaunch",
                 rec[w].disks[k].identity # NoFile
          PROVE  /\ creator[rec[w].disks[k].identity] = w
                 /\ creator'[rec[w].disks[k].identity] = w
      BY <2>4, DiskFieldTypes DEF FreshInv, OwnInv
    <2>5. ASSUME At(w, "rm_file")
          PROVE  /\ Deletable(rec[w].disks[cur[w]])
                 /\ rec[w].disks[cur[w]].identity # NoFile
                 /\ file'[PathOf(w)] = rec[w].disks[cur[w]].identity
      <3>1. /\ Deletable(rec[w].disks[cur[w]])
            /\ rec[w].disks[cur[w]].identity # NoFile
            /\ file[PathOf(w)] = rec[w].disks[cur[w]].identity
        BY <2>5, ZenonT(30) DEF OwnInv
      <3>2. cur[w] \in Disk
        BY <2>5, DiskFieldTypes, ZenonT(30) DEF DiskStages
      <3>3. creator[rec[w].disks[cur[w]].identity] = w
        BY <2>4, <3>1, <3>2 DEF Deletable
      <3>. QED  BY <2>5, <3>1, <3>3, ZenonT(30)
    <2>. QED  BY <1>c, <2>1, <2>2, <2>3, <2>4, <2>5 DEF OwnInv
  <1>. QED  BY <1>1, <1>2, ZenonT(30)

\* Nor does it disturb what w's record keeps.
LEMMA KeepFrame ==
    ASSUME NEW w \in VM, View(w)' = View(w), KeepInv(w)
    PROVE  KeepInv(w)'
  <1>1. /\ rec'[w] = rec[w] /\ hasRec'[w] = hasRec[w] /\ pc'[w] = pc[w]
        /\ spec'[w] = spec[w] /\ unjournaled'[w] = unjournaled[w]
    BY ZenonT(30) DEF View
  <1>2. rec'[w].published => /\ \A k \in Disk : rec'[w].disks[k].published
                             /\ unjournaled'[w] = {}
    BY <1>1, ZenonT(30) DEF KeepInv
  <1>3. /\ pc'[w] \in Provisioning => ~rec'[w].published
        /\ pc'[w] \in {"created", "running"} => unjournaled'[w] = {}
    BY <1>1, ZenonT(30) DEF KeepInv
  <1>4. hasRec'[w] => \A k \in Disk : spec'[w][k].retention = "Persistent"
                                     => rec'[w].disks[k].retention = "Persistent"
    BY <1>1, ZenonT(30) DEF KeepInv
  <1>5. hasRec'[w] => \A j, k \in Disk : spec'[w][j].path = spec'[w][k].path => j = k
    <2>1. hasRec[w] => \A j, k \in Disk : spec[w][j].path = spec[w][k].path => j = k
      BY DEF KeepInv
    <2>. QED  BY <1>1, <2>1, ZenonT(30)
  <1>. QED  BY <1>2, <1>3, <1>4, <1>5 DEF KeepInv

\* A step of v keeps what v's record and request agree on.
LEMMA KeepStep ==
    ASSUME TypeOK, NEW v \in VM, VmNext(v), KeepInv(v)
    PROVE  KeepInv(v)'
  <1>a. JournalType /\ StepType /\ LaunchType
    BY DEF TypeOK
  <1>b. rec[v] \in VmResourceRecord
    BY <1>a, ZenonT(30) DEF JournalType
  <1>1. CASE \E sp \in Specs, nic \in Nics : PutVm(v, sp, nic)
    <2>0. PICK sp \in Specs, nic \in Nics : PutVm(v, sp, nic)
      BY <1>1, ZenonT(30)
    <2>1. /\ rec'[v] = PlannedRecord(sp, nic) /\ spec'[v] = sp
          /\ pc'[v] \in {"network", "disk"}
      BY <1>a, <2>0, ZenonT(30) DEF PutVm, JournalType, StepType, LaunchType
    <2>2. /\ ~rec'[v].published
          /\ \A k \in Disk : rec'[v].disks[k].retention = spec'[v][k].retention
      <3>1. /\ ~PlannedRecord(sp, nic).published
            /\ \A k \in Disk : PlannedRecord(sp, nic).disks[k].retention = sp[k].retention
        BY PlannedFacts
      <3>. QED  BY <2>1, <3>1
    <2>3. \A j, k \in Disk : spec'[v][j].path = spec'[v][k].path => j = k
      BY <2>1, SpecsDistinct
    <2>. QED  BY <2>1, <2>2, <2>3, ZenonT(30) DEF KeepInv
  <1>2. CASE JournalDisk(v)
    <2>1. /\ pc[v] = "disk_journal" /\ pc'[v] = "grant"
          /\ spec' = spec /\ unjournaled' = unjournaled /\ hasRec' = hasRec
      BY <1>a, <1>2, ZenonT(30) DEF JournalDisk, StepType
    <2>2. cur[v] \in Disk
      BY <1>a, <2>1 DEF StepType, DiskStages
    <2>. DEFINE made == cls[v] = "Create"
    <2>3.   rec'[v] = SetDisk(rec[v], cur[v],
                        Materialized(rec[v].disks[cur[v]], made,
                                     spec[v][cur[v]].retention, captured[v]))
      BY <1>a, <1>2 DEF JournalDisk, JournalType
    <2>. HIDE DEF made
    <2>4. rec[v].disks \in [Disk -> DiskResource]
      BY <1>b DEF VmResourceRecord
    <2>5. Materialized(rec[v].disks[cur[v]], made, spec[v][cur[v]].retention,
                       captured[v]).retention
            = IF made THEN spec[v][cur[v]].retention ELSE "Persistent"
      BY <2>2, <2>4, ZenonT(30) DEF Materialized, DiskResource
    <2>6. ~rec'[v].published
      <3>1. rec'[v].published = rec[v].published
        BY <1>b, <2>3, ZenonT(30) DEF SetDisk, VmResourceRecord
      <3>. QED  BY <2>1, <3>1, ZenonT(30) DEF KeepInv, Provisioning
    <2>7. ASSUME NEW k \in Disk
          PROVE  rec'[v].disks[k].retention =
                   IF k # cur[v] THEN rec[v].disks[k].retention
                   ELSE IF made THEN spec[v][k].retention ELSE "Persistent"
      <3>1. rec'[v].disks = [rec[v].disks EXCEPT ![cur[v]] =
                               Materialized(rec[v].disks[cur[v]], made,
                                 spec[v][cur[v]].retention, captured[v])]
        BY <1>b, <2>3 DEF SetDisk, VmResourceRecord
      <3>. QED  BY <2>2, <2>4, <2>5, <3>1, ZenonT(30)
    <2>. QED  BY <2>1, <2>6, <2>7 DEF KeepInv
  <1>3. CASE mark_published(v)
    <2>1. /\ pc'[v] = pc[v] /\ pc[v] = "running" /\ spec' = spec
          /\ unjournaled' = unjournaled /\ hasRec' = hasRec
          /\ rec'[v] = Published(rec[v])
      BY <1>a, <1>3 DEF mark_published, JournalType
    <2>2. ASSUME NEW k \in Disk
          PROVE  /\ Published(rec[v]).disks[k].published
                 /\ Published(rec[v]).disks[k].retention = rec[v].disks[k].retention
      <3>1. rec[v].disks[k] \in DiskResource
        BY <1>b DEF VmResourceRecord
      <3>2. Published(rec[v]).disks[k] = [rec[v].disks[k] EXCEPT !.published = TRUE]
        BY <1>b, ZenonT(30) DEF Published, VmResourceRecord
      <3>. QED  BY <3>1, <3>2, ZenonT(30) DEF DiskResource
    <2>. QED  BY <2>1, <2>2 DEF KeepInv, Provisioning
  <1>4. CASE rec'[v] = BlankRecord /\ ~hasRec'[v] /\ Quiet(v)
    BY <1>4, BlankFacts, ZenonT(30) DEF KeepInv, Quiet
  <1>5. CASE SameDisks(rec'[v], rec[v]) /\ hasRec'[v] = hasRec[v] /\ Quiet(v)
    <2>1. /\ \A k \in Disk : rec[v].disks[k].published => rec'[v].disks[k].published
          /\ rec'[v].published = rec[v].published
          /\ \A k \in Disk : rec'[v].disks[k].retention = rec[v].disks[k].retention
      BY <1>5, ZenonT(30) DEF SameDisks
    <2>2. unjournaled'[v] \subseteq unjournaled[v] /\ spec'[v] = spec[v]
      BY <1>5 DEF Quiet
    <2>3. rec'[v].published => /\ \A k \in Disk : rec'[v].disks[k].published
                               /\ unjournaled'[v] = {}
      BY <2>1, <2>2, ZenonT(30) DEF KeepInv
    <2>4. pc'[v] \in Provisioning => ~rec'[v].published
      BY <1>5, <2>1 DEF KeepInv, Quiet
    <2>5. pc'[v] \in {"created", "running"} => unjournaled'[v] = {}
      BY <1>5, <2>2, ZenonT(30) DEF KeepInv, Quiet
    <2>6. hasRec'[v] => \A k \in Disk : spec'[v][k].retention = "Persistent"
                                       => rec'[v].disks[k].retention = "Persistent"
      BY <1>5, <2>1, <2>2, ZenonT(30) DEF KeepInv
    <2>7. hasRec'[v] => \A j, k \in Disk : spec'[v][j].path = spec'[v][k].path => j = k
      BY <1>5, <2>2, SMT DEF KeepInv
    <2>. QED  BY <2>3, <2>4, <2>5, <2>6, <2>7 DEF KeepInv
  <1>6. CASE Materialize(v)
    <2>0. /\ pc[v] = "classify"
          /\ \/ pc' = [pc EXCEPT ![v] = "capture"]
             \/ pc' = [pc EXCEPT ![v] = "begin"]
      BY <1>6, MaterializeSteps, ZenonT(30) DEF Proceed, Rollback
    <2>1. pc'[v] \in {"capture", "begin"}
      BY <1>a, <2>0, ZenonT(30) DEF StepType
    <2>2. UNCHANGED <<rec, hasRec, spec, unjournaled>>
      BY <1>6, MaterializeSteps
    <2>. QED  BY <2>0, <2>1, <2>2, ZenonT(30) DEF KeepInv, Provisioning
  <1>7. CASE CaptureIdentity(v)
    <2>1. pc[v] = "capture" /\ pc'[v] \in {"disk_journal", "begin"}
      BY <1>a, <1>7, ZenonT(30) DEF CaptureIdentity, Rollback, StepType
    <2>2. UNCHANGED <<rec, hasRec, spec>>
      BY <1>7, ZenonT(30) DEF CaptureIdentity
    <2>. QED  BY <2>1, <2>2 DEF KeepInv, Provisioning
  <1>8. CASE RemoveDisk(v)
    <2>1. pc[v] = "rm_disk" /\ pc'[v] \in {"rm_disk", "rm_file"}
      BY <1>a, <1>8 DEF RemoveDisk, StepType
    <2>2. UNCHANGED <<rec, hasRec, spec, unjournaled>>
      BY <1>8 DEF RemoveDisk
    <2>. QED  BY <2>1, <2>2 DEF KeepInv, Provisioning
  <1>. QED  BY <1>1, <1>2, <1>3, <1>4, <1>5, <1>6, <1>7, <1>8, RecordSteps, QuietSteps

\* A quiet step keeps v's invariant if the disks it records are v's own.
LEMMA QuietOwn ==
    ASSUME TypeOK, NEW v \in VM, Quiet(v), FreshInv(v), OwnInv(v),
           UNCHANGED <<creator, nextId>>,
           file' = file \/ pc'[v] \notin {"capture", "rm_file"},
           \A k \in Disk : rec'[v].disks[k].identity < nextId,
           \A k \in Disk :
             /\ rec'[v].disks[k].origin = "CreatedByLaunch"
             /\ rec'[v].disks[k].identity # NoFile
             => creator[rec'[v].disks[k].identity] = v
    PROVE  FreshInv(v)' /\ OwnInv(v)'
  <1>0. nextId \in Nat /\ nextId > NoFile
    BY VmAssumption, SMTT(20) DEF TypeOK, HostType, NoFile
  <1>1. FreshInv(v)'
    <2>1. captured'[v] < nextId
      BY <1>0 DEF Quiet, FreshInv
    <2>2. \A x \in unjournaled'[v] : x[2] < nextId
      BY DEF Quiet, FreshInv
    <2>. QED  BY <2>1, <2>2, ZenonT(30) DEF FreshInv
  <1>2. OwnInv(v)'
    <2>1. \A x \in unjournaled'[v] : creator[x[2]] = v
      BY DEF Quiet, OwnInv
    <2>2. ASSUME pc'[v] \in {"capture", "disk_journal", "rm_file"}
          PROVE  /\ pc'[v] = pc[v] /\ cur'[v] = cur[v] /\ cls'[v] = cls[v]
                 /\ captured'[v] = captured[v] /\ rec'[v] = rec[v]
                 /\ PathOf(v)' = PathOf(v)
      BY <2>2 DEF Quiet, PathOf
    <2>3. At(v, "capture")' /\ cls'[v] = "Create"
            => file'[PathOf(v)'] # NoFile /\ creator[file'[PathOf(v)']] = v
      BY <2>2, ZenonT(30) DEF OwnInv
    <2>4. At(v, "disk_journal")' =>
            captured'[v] # NoFile /\ (cls'[v] = "Create" => creator[captured'[v]] = v)
      BY <2>2 DEF OwnInv
    <2>5. At(v, "rm_file")' =>
            /\ Deletable(rec'[v].disks[cur'[v]])
            /\ rec'[v].disks[cur'[v]].identity # NoFile
            /\ file'[PathOf(v)'] = rec'[v].disks[cur'[v]].identity
      BY <2>2, ZenonT(30) DEF OwnInv
    <2>. QED  BY <2>1, <2>3, <2>4, <2>5 DEF OwnInv
  <1>. QED  BY <1>1, <1>2

\* The record after a step names only files that v created as its own.
LEMMA RecordOwn ==
    ASSUME TypeOK, NEW v \in VM, VmNext(v), FreshInv(v), OwnInv(v), NEW k \in Disk
    PROVE  /\ rec'[v].disks[k].identity < nextId
           /\ /\ rec'[v].disks[k].origin = "CreatedByLaunch"
              /\ rec'[v].disks[k].identity # NoFile
              => creator[rec'[v].disks[k].identity] = v
  <1>a. JournalType /\ StepType /\ LaunchType
    BY DEF TypeOK
  <1>b. /\ rec[v] \in VmResourceRecord /\ rec[v].disks \in [Disk -> DiskResource]
    BY <1>a DEF JournalType, VmResourceRecord
  <1>c. nextId \in Nat /\ NoFile < nextId
    BY VmAssumption, SMT DEF TypeOK, HostType, NoFile
  <1>1. CASE SameDisks(rec'[v], rec[v])
    BY <1>1 DEF SameDisks, FreshInv, OwnInv
  <1>2. CASE rec'[v].disks[k].identity = NoFile
    BY <1>2, <1>c
  <1>3. CASE \E sp \in Specs, nic \in Nics : PutVm(v, sp, nic)
    <2>1. PICK sp \in Specs, nic \in Nics : PutVm(v, sp, nic)
      BY <1>3, ZenonT(30)
    <2>2. rec'[v] = PlannedRecord(sp, nic)
      BY <1>a, <2>1, ZenonT(30) DEF PutVm, JournalType
    <2>3. rec'[v].disks[k].identity = NoFile
      BY <2>1, <2>2, PlannedFacts, SMTT(20)
    <2>. QED  BY <1>2, <2>3, ZenonT(30)
  <1>4. CASE rec'[v] = BlankRecord
    BY <1>2, <1>4, BlankFacts, ZenonT(30)
  <1>5. CASE JournalDisk(v)
    <2>. DEFINE new == Materialized(rec[v].disks[cur[v]], cls[v] = "Create",
                                    spec[v][cur[v]].retention, captured[v])
    <2>1. cur[v] \in Disk /\ pc[v] = "disk_journal"
      BY <1>a, <1>5 DEF JournalDisk, StepType, DiskStages
    <2>2. rec'[v] = SetDisk(rec[v], cur[v], new)
      BY <1>a, <1>5 DEF JournalDisk, JournalType
    <2>3. /\ new.identity = captured[v]
          /\ new.origin = IF cls[v] = "Create" THEN "CreatedByLaunch" ELSE "PreExisting"
      BY <1>b, <2>1, SMT DEF Materialized, DiskResource
    <2>. HIDE DEF new
    <2>4. rec'[v].disks[k] = IF k = cur[v] THEN new ELSE rec[v].disks[k]
      <3>1. rec'[v].disks = [rec[v].disks EXCEPT ![cur[v]] = new]
        BY <1>b, <2>2 DEF SetDisk, VmResourceRecord
      <3>. QED  BY <1>b, <3>1, ZenonT(30)
    <2>5. CASE k = cur[v]
      BY <2>1, <2>3, <2>4, <2>5 DEF FreshInv, OwnInv
    <2>6. CASE k # cur[v]
      BY <2>4, <2>6 DEF FreshInv, OwnInv
    <2>. QED  BY <2>5, <2>6, ZenonT(30)
  <1>6. CASE mark_published(v)
    <2>1. rec'[v] = Published(rec[v])
      BY <1>a, <1>6 DEF mark_published, JournalType
    <2>2. rec'[v].disks[k] = [rec[v].disks[k] EXCEPT !.published = TRUE]
      BY <1>b, <2>1, SMT DEF Published, VmResourceRecord
    <2>3. /\ rec'[v].disks[k].identity = rec[v].disks[k].identity
          /\ rec'[v].disks[k].origin = rec[v].disks[k].origin
      BY <1>b, <2>2, SMT DEF DiskResource
    <2>. QED  BY <2>3 DEF FreshInv, OwnInv
  <1>. QED  BY <1>1, <1>3, <1>4, <1>5, <1>6, RecordSteps

\* A step of v keeps v's invariant.
LEMMA OwnStep ==
    ASSUME TypeOK, NEW v \in VM, VmNext(v), FreshInv(v), OwnInv(v),
           \A p \in Path : file[p] < nextId
    PROVE  FreshInv(v)' /\ OwnInv(v)'
  <1>a. HostType /\ JournalType /\ StepType /\ LaunchType
    BY ZenonT(30) DEF TypeOK
  <1>b. \A k \in Disk :
          /\ rec'[v].disks[k].identity < nextId
          /\ /\ rec'[v].disks[k].origin = "CreatedByLaunch"
             /\ rec'[v].disks[k].identity # NoFile
             => creator[rec'[v].disks[k].identity] = v
    BY RecordOwn
  <1>1. CASE Materialize(v)
    <2>1. /\ pc[v] = "classify" /\ cur[v] \in Disk /\ PathOf(v) \in Path
          /\ UNCHANGED <<rec, captured, unjournaled, spec, cur>>
      BY <1>a, <1>1, MaterializeSteps, DiskFieldTypes, ZenonT(30) DEF DiskStages
    <2>2. PathOf(v)' = PathOf(v)
      BY <2>1 DEF PathOf
    <2>3. /\ nextId' \in Nat /\ nextId <= nextId'
          /\ \A i \in FileId : i < nextId => creator'[i] = creator[i]
      <3>1. UNCHANGED <<nextId, creator>> \/ NewVhd(v)
        BY <1>1, MaterializeSteps
      <3>. QED  BY <3>1, CreatorsKept, ZenonT(30)
    <2>4. FreshInv(v)'
      <3>0. nextId \in Nat /\ captured[v] \in Nat
            /\ \A x \in unjournaled[v] : x[2] \in Nat
        BY DiskFieldTypes, ZenonT(30)
      <3>1. captured[v] < nextId'
        <4>1. captured[v] < nextId
          BY ZenonT(30) DEF FreshInv
        <4>. QED  BY <2>3, <3>0, <4>1, SMT
      <3>2. \A x \in unjournaled[v] : x[2] < nextId'
        <4>1. \A x \in unjournaled[v] : x[2] < nextId
          BY ZenonT(30) DEF FreshInv
        <4>. QED  BY <2>3, <3>0, <4>1, SMT
      <3>3. \A k \in Disk : rec[v].disks[k].identity < nextId'
        <4>. TAKE k \in Disk
        <4>. DEFINE i == rec[v].disks[k].identity
        <4>1. i < nextId
          BY DEF FreshInv
        <4>2. i \in FileId \cup {NoFile} /\ FileId \subseteq Nat /\ NoFile \in Nat
          BY DiskFieldTypes
        <4>3. nextId' \in Nat /\ nextId <= nextId' /\ nextId \in Nat
          BY <2>3, <3>0
        <4>. HIDE DEF i
        <4>4. i \in Nat
          BY <4>2
        <4>5. i < nextId'
          BY <4>1, <4>3, <4>4, SMT
        <4>. QED  BY <4>5, ZenonT(30) DEF i
      <3>. QED  BY <2>1, <3>1, <3>2, <3>3 DEF FreshInv
    <2>5. OwnInv(v)'
      <3>1. \A x \in unjournaled[v] : creator'[x[2]] = v
        BY <2>3, DiskFieldTypes DEF FreshInv, OwnInv
      <3>2. \A k \in Disk : /\ rec[v].disks[k].origin = "CreatedByLaunch"
                            /\ rec[v].disks[k].identity # NoFile
                            => creator'[rec[v].disks[k].identity] = v
        BY <2>3, DiskFieldTypes DEF FreshInv, OwnInv
      <3>3. pc'[v] \in {"capture", "begin"}
        BY <1>a, <1>1, MaterializeSteps, SMT DEF Proceed, Rollback, StepType
      <3>4. ASSUME pc'[v] = "capture", cls'[v] = "Create"
            PROVE  file'[PathOf(v)] # NoFile /\ creator'[file'[PathOf(v)]] = v
        <4>1. PICK c : Proceed(v, c) /\ (c = "Create" => NewVhd(v))
          BY <1>a, <1>1, <3>4, MaterializeSteps DEF Rollback, StepType
        <4>2. NewVhd(v)
          BY <1>a, <3>4, <4>1, ZenonT(30) DEF Proceed, LaunchType
        <4>3. nextId \in FileId /\ nextId # NoFile
          BY <1>a, <4>2, VmAssumption, SMT DEF NewVhd, HostType, FileId, NoFile
        <4>. QED  BY <1>a, <2>1, <4>2, <4>3 DEF NewVhd, HostType
      <3>. QED  BY <2>1, <2>2, <3>1, <3>2, <3>3, <3>4 DEF OwnInv
    <2>. QED  BY <2>4, <2>5, ZenonT(30)
  <1>2. CASE CaptureIdentity(v)
    <2>1. /\ pc[v] = "capture" /\ PathOf(v) \in Path
          /\ UNCHANGED <<file, creator, nextId, rec, spec, cur, cls>>
      BY <1>2, DiskFieldTypes DEF CaptureIdentity, DiskStages
    <2>2. CASE captured' = captured /\ unjournaled' = unjournaled /\ pc'[v] = "begin"
      BY <2>1, <2>2 DEF FreshInv, OwnInv
    <2>3. CASE /\ file[PathOf(v)] # NoFile
               /\ captured' = [captured EXCEPT ![v] = file[PathOf(v)]]
               /\ unjournaled' = IF cls[v] = "Create"
                                 THEN [unjournaled EXCEPT ![v] = unjournaled[v] \cup
                                         {<<PathOf(v), file[PathOf(v)]>>}]
                                 ELSE unjournaled
               /\ pc'[v] = "disk_journal"
      <3>1. captured'[v] = file[PathOf(v)]
        BY <1>a, <2>3, ZenonT(30) DEF LaunchType
      <3>2. \A x \in unjournaled'[v] :
              x \in unjournaled[v] \/ (cls[v] = "Create" /\ x[2] = file[PathOf(v)])
        BY <1>a, <2>3, SMT DEF LaunchType
      <3>3. FreshInv(v)'
        BY <2>1, <3>1, <3>2 DEF FreshInv
      <3>4. OwnInv(v)'
        BY <2>1, <2>3, <3>1, <3>2 DEF OwnInv
      <3>. QED  BY <3>3, <3>4
    <2>. QED  BY <1>a, <1>2, <2>2, <2>3 DEF CaptureIdentity, Rollback, StepType
  <1>3. CASE RemoveDisk(v)
    <2>1. /\ pc[v] = "rm_disk"
          /\ UNCHANGED <<file, creator, nextId, rec, spec, cur, cls, captured, unjournaled>>
      BY <1>3 DEF RemoveDisk
    <2>2. PathOf(v)' = PathOf(v)
      BY <2>1, ZenonT(30) DEF PathOf
    <2>3. FreshInv(v)'
      BY <2>1 DEF FreshInv
    <2>4. \/ pc'[v] = "rm_disk"
          \/ /\ pc'[v] = "rm_file"
             /\ Deletable(rec[v].disks[cur[v]])
             /\ file[PathOf(v)] # NoFile
             /\ file[PathOf(v)] = rec[v].disks[cur[v]].identity
      BY <1>a, <1>3 DEF RemoveDisk, StepType
    <2>5. OwnInv(v)'
      BY <2>1, <2>2, <2>4 DEF OwnInv
    <2>. QED  BY <2>3, <2>5
  <1>4. CASE \E sp \in Specs, nic \in Nics : PutVm(v, sp, nic)
    <2>1. /\ UNCHANGED <<file, creator, nextId, captured, unjournaled>>
          /\ pc'[v] \in {"network", "disk"}
      BY <1>a, <1>4 DEF PutVm, StepType
    <2>2. FreshInv(v)'
      BY <1>b, <2>1 DEF FreshInv
    <2>3. OwnInv(v)'
      <3>1. \A k \in Disk : /\ rec'[v].disks[k].origin = "CreatedByLaunch"
                            /\ rec'[v].disks[k].identity # NoFile
                            => creator'[rec'[v].disks[k].identity] = v
        BY <1>b, <2>1
      <3>2. \A x \in unjournaled'[v] : creator'[x[2]] = v
        BY <2>1 DEF OwnInv
      <3>3. pc'[v] \notin {"capture", "disk_journal", "rm_file"}
        BY <2>1
      <3>. QED  BY <3>1, <3>2, <3>3 DEF OwnInv
    <2>. QED  BY <2>2, <2>3
  <1>5. CASE Quiet(v) /\ ~Materialize(v)
    <2>1. UNCHANGED <<creator, nextId>>
      BY <1>5, FileSteps DEF DeleteFile, RollbackUnjournaled
    <2>2. file' = file \/ pc'[v] \notin {"capture", "rm_file"}
      BY <1>a, <1>5, FileSteps, ZenonT(30) DEF DeleteFile, RollbackUnjournaled, StepType
    <2>. QED  BY <1>b, <1>5, <2>1, <2>2, QuietOwn
  <1>. QED  BY <1>1, <1>2, <1>3, <1>4, <1>5, QuietSteps, ZenonT(30)

\* A file that v deletes was created by v, and its deletion is a step of v.
LEMMA DeletedFiles ==
    ASSUME TypeOK, NEW v \in VM, VmNext(v), OwnInv(v), NEW p \in Path,
           file[p] # NoFile, file'[p] # file[p]
    PROVE  /\ creator[file[p]] = v
           /\ StepOf(v)
           /\ \/ /\ pc[v] = "rm_file" /\ p = PathOf(v)
                 /\ Deletable(rec[v].disks[cur[v]])
              \/ pc[v] = "unjournaled" /\ unjournaled[v] # {}
  <1>a. HostType /\ StepType /\ LaunchType
    BY DEF TypeOK
  <1>1. CASE DeleteFile(v)
    <2>1. pc[v] = "rm_file" /\ pc'[v] = "rm_disk" /\ p = PathOf(v)
      BY <1>a, <1>1 DEF DeleteFile, HostType, StepType
    <2>2. /\ Deletable(rec[v].disks[cur[v]]) /\ cur[v] \in Disk
          /\ creator[file[p]] = v
      BY <2>1, DiskFieldTypes DEF OwnInv, DiskStages, Deletable
    <2>. QED  BY <2>1, <2>2 DEF StepOf
  <1>2. CASE RollbackUnjournaled(v)
    <2>1. PICK x \in unjournaled[v] :
            /\ unjournaled' = [unjournaled EXCEPT ![v] = unjournaled[v] \ {x}]
            /\ file[x[1]] = x[2] /\ file' = [file EXCEPT ![x[1]] = NoFile]
      BY <1>2, ZenonT(30) DEF RollbackUnjournaled
    <2>2. p = x[1]
      BY <1>a, <2>1, ZenonT(30) DEF HostType
    <2>3. creator[file[p]] = v
      BY <2>1, <2>2, ZenonT(30) DEF OwnInv
    <2>4. unjournaled'[v] # unjournaled[v]
      BY <1>a, <2>1, ZenonT(30) DEF LaunchType
    <2>. QED  BY <1>2, <2>3, <2>4 DEF StepOf, RollbackUnjournaled
  <1>3. CASE Materialize(v)
    <2>1. NewVhd(v) /\ file[PathOf(v)] = NoFile
      BY <1>3, MaterializeSteps
    <2>. QED  BY <1>a, <2>1, ZenonT(30) DEF NewVhd, HostType
  <1>4. CASE UNCHANGED file
    BY <1>4
  <1>. QED  BY <1>1, <1>2, <1>3, <1>4, FileSteps

\* A step of v keeps the invariant of every other VM: v deletes only files it
\* created, and creates one only where there is none.
LEMMA OwnOthers ==
    ASSUME TypeOK, DiskInv, NEW v \in VM, VmNext(v), NEW w \in VM \ {v}
    PROVE  FreshInv(w)' /\ OwnInv(w)'
  <1>0. /\ FreshInv(w) /\ OwnInv(w) /\ OwnInv(v)
        /\ \A p \in Path : file[p] < nextId
    BY DEF DiskInv
  <1>1. View(w)' = View(w)
    BY OtherVms
  <1>2. /\ nextId' \in Nat /\ nextId <= nextId'
        /\ \A i \in FileId : i < nextId => creator'[i] = creator[i]
    <2>1. UNCHANGED <<nextId, creator>> \/ NewVhd(v)
      BY FileSteps, MaterializeSteps DEF DeleteFile, RollbackUnjournaled
    <2>. QED  BY <2>1, CreatorsKept
  <1>3. ASSUME pc[w] \in {"capture", "rm_file"}, file[PathOf(w)] # NoFile,
               creator[file[PathOf(w)]] = w
        PROVE  file'[PathOf(w)] = file[PathOf(w)]
    <2>1. PathOf(w) \in Path
      BY <1>3, DiskFieldTypes DEF DiskStages
    <2>. QED  BY <1>0, <1>3, <2>1, DeletedFiles
  <1>. QED  BY <1>0, <1>1, <1>2, <1>3, OwnFrame

\* The user changes no file that Jyth is about to use.
LEMMA UserDisk ==
    ASSUME ~UserRaces, TypeOK, DiskInv, NEW p \in Path, UserChanges(p), NEW w \in VM
    PROVE  FreshInv(w)' /\ OwnInv(w)' /\ KeepInv(w)'
  <1>0. /\ FreshInv(w) /\ OwnInv(w) /\ KeepInv(w)
        /\ \A q \in Path : file[q] < nextId
    BY ZenonT(30) DEF DiskInv
  <1>1. View(w)' = View(w)
    BY DEF UserChanges, View
  <1>2. /\ nextId' \in Nat /\ nextId <= nextId' /\ creator' = creator
    <2>1. nextId \in Nat
      BY DiskFieldTypes
    <2>2. nextId' \in {nextId, nextId + 1} /\ creator' = creator
      BY ZenonT(30) DEF UserChanges
    <2>. QED  BY <2>1, <2>2, SMT
  <1>3. ASSUME pc[w] \in {"capture", "rm_file"}
        PROVE  file'[PathOf(w)] = file[PathOf(w)]
    <2>1. PathOf(w) # p
      BY <1>3, ZenonT(30) DEF UserChanges, InWindow
    <2>2. PathOf(w) \in Path
      BY <1>3, DiskFieldTypes, ZenonT(30) DEF DiskStages
    <2>. QED  BY <2>1, <2>2, ZenonT(30) DEF UserChanges, TypeOK, HostType
  <1>4. FreshInv(w)' /\ OwnInv(w)'
    BY <1>0, <1>1, <1>2, <1>3, OwnFrame, ZenonT(30)
  <1>5. KeepInv(w)'
    BY <1>0, <1>1, KeepFrame
  <1>. QED  BY <1>4, <1>5

\* The disk invariant holds before the first launch.
LEMMA InitDisk == Init => DiskInv
  <1>. SUFFICES ASSUME Init PROVE DiskInv
    BY ZenonT(30)
  <1>1. \A p \in Path : file[p] < nextId
    BY SMT DEF Init, NoFile
  <1>2. ASSUME NEW v \in VM PROVE FreshInv(v) /\ OwnInv(v) /\ KeepInv(v)
    <2>1. rec[v] = BlankRecord /\ pc[v] = "idle" /\ unjournaled[v] = {}
          /\ captured[v] = NoFile /\ nextId = 1 /\ ~hasRec[v]
      BY ZenonT(30) DEF Init
    <2>2. FreshInv(v)
      <3>1. NoFile < nextId
        BY <2>1, SMT DEF NoFile
      <3>. QED  BY <2>1, <3>1, BlankFacts, ZenonT(30) DEF FreshInv
    <2>3. OwnInv(v)
      BY <2>1, BlankFacts, ZenonT(30) DEF OwnInv
    <2>4. KeepInv(v)
      BY <2>1, BlankFacts, ZenonT(30) DEF KeepInv, Provisioning
    <2>. QED  BY <2>2, <2>3, <2>4, ZenonT(30)
  <1>. QED  BY <1>1, <1>2 DEF DiskInv

\* Every step preserves the disk invariant when no user races a removal.
LEMMA NextDisk ==
    ASSUME ~UserRaces
    PROVE  TypeOK /\ TypeOK' /\ DiskInv /\ [Next]_vars => DiskInv'
  <1>. SUFFICES ASSUME TypeOK, TypeOK', DiskInv, [Next]_vars PROVE DiskInv'
    OBVIOUS
  <1>0. /\ \A p \in Path : file[p] < nextId
        /\ \A w \in VM : FreshInv(w) /\ OwnInv(w) /\ KeepInv(w)
    BY ZenonT(30) DEF DiskInv
  <1>a. HostType /\ nextId \in Nat /\ NoFile < nextId
    BY VmAssumption, SMT DEF TypeOK, HostType, NoFile
  <1>b. \A q \in Path : file[q] \in Nat
    BY <1>a, VmAssumption, SMT DEF HostType, FileId, NoFile
  <1>1. CASE UNCHANGED vars
    <2>1. UNCHANGED <<file, creator, nextId>>
      BY <1>1 DEF vars
    <2>2. ASSUME NEW w \in VM PROVE FreshInv(w)' /\ OwnInv(w)' /\ KeepInv(w)'
      <3>1. View(w)' = View(w)
        BY <1>1 DEF vars, View
      <3>2. FreshInv(w)' /\ OwnInv(w)'
        <4>1. /\ nextId' \in Nat /\ nextId <= nextId'
              /\ \A i \in FileId : i < nextId => creator'[i] = creator[i]
              /\ file'[PathOf(w)] = file[PathOf(w)]
          BY <1>a, <2>1, SMT
        <4>. QED  BY <1>0, <3>1, <4>1, OwnFrame
      <3>3. KeepInv(w)'
        BY <1>0, <3>1, KeepFrame
      <3>. QED  BY <3>2, <3>3, ZenonT(30)
    <2>3. \A p \in Path : file'[p] < nextId'
      BY <1>0, <2>1
    <2>. QED  BY <2>2, <2>3, ZenonT(30) DEF DiskInv
  <1>2. ASSUME NEW v \in VM, VmNext(v) PROVE DiskInv'
    <2>1. ASSUME NEW p \in Path PROVE file'[p] < nextId'
      <3>1. CASE NewVhd(v)
        <4>1. nextId' = nextId + 1 /\ file'[p] \in {file[p], nextId}
          BY <1>a, <3>1 DEF NewVhd, HostType
        <4>2. nextId \in Nat /\ file[p] \in Nat /\ file[p] < nextId
          BY <1>0, <1>a, <1>b, ZenonT(30)
        <4>. QED  BY <4>1, <4>2, SMT
      <3>2. CASE nextId' = nextId /\ file'[p] \in {file[p], NoFile}
        BY <1>0, <1>a, <3>2, ZenonT(30)
      <3>3. CASE DeleteFile(v)
        <4>1. nextId' = nextId /\ file'[p] \in {file[p], NoFile}
          BY <1>a, <3>3 DEF DeleteFile, HostType
        <4>. QED  BY <3>2, <4>1, ZenonT(30)
      <3>4. CASE RollbackUnjournaled(v)
        <4>1. /\ nextId' = nextId
              /\ file' = file \/ \E q : file' = [file EXCEPT ![q] = NoFile]
          BY <3>4, ZenonT(30) DEF RollbackUnjournaled
        <4>2. file'[p] \in {file[p], NoFile}
          BY <1>a, <4>1 DEF HostType
        <4>. QED  BY <3>2, <4>1, <4>2, ZenonT(30)
      <3>. QED  BY <1>2, <3>1, <3>2, <3>3, <3>4, FileSteps, MaterializeSteps, ZenonT(30)
    <2>2. ASSUME NEW w \in VM PROVE FreshInv(w)' /\ OwnInv(w)' /\ KeepInv(w)'
      <3>1. CASE w = v
        BY <1>0, <1>2, <3>1, OwnStep, KeepStep, ZenonT(30)
      <3>2. CASE w # v
        <4>1. FreshInv(w)' /\ OwnInv(w)'
          BY <1>2, <3>2, OwnOthers
        <4>2. View(w)' = View(w)
          BY <1>2, <3>2, OtherVms
        <4>3. KeepInv(w)'
          BY <1>0, <4>2, KeepFrame, ZenonT(30)
        <4>. QED  BY <4>1, <4>3
      <3>. QED  BY <3>1, <3>2, ZenonT(30)
    <2>. QED  BY <2>1, <2>2 DEF DiskInv
  <1>3. ASSUME NEW p \in Path, UserChanges(p) PROVE DiskInv'
    <2>1. ASSUME NEW q \in Path PROVE file'[q] < nextId'
      <3>1. \/ nextId' = nextId /\ file'[q] \in {file[q], NoFile}
            \/ nextId' = nextId + 1 /\ file'[q] \in {file[q], nextId}
        BY <1>a, <1>3 DEF UserChanges, HostType
      <3>2. /\ nextId \in Nat /\ file[q] \in Nat
            /\ file[q] < nextId /\ NoFile < nextId
        BY <1>0, <1>a, <1>b
      <3>. QED  BY <3>1, <3>2, SMT
    <2>2. \A w \in VM : FreshInv(w)' /\ OwnInv(w)' /\ KeepInv(w)'
      BY <1>3, UserDisk
    <2>. QED  BY <2>1, <2>2, ZenonT(30) DEF DiskInv
  <1>. QED  BY <1>1, <1>2, <1>3 DEF Next, Finished

-----------------------------------------------------------------------------
(* The theorems                                                            *)

\* The file-ownership invariant holds in every reachable state.
THEOREM DiskInvariant ==
    ASSUME ~UserRaces
    PROVE  Spec => [](TypeOK /\ DiskInv)
  <1>1. TypeOK /\ TypeOK' /\ DiskInv /\ [Next]_vars => DiskInv'
    BY NextDisk
  <1>. QED  BY <1>1, InitDisk, TypeCorrect, PTL DEF Spec

\* Who takes a step in which Jyth deletes the file at p.
LEMMA DeletingStep ==
    ASSUME TypeOK, Next, NEW p \in Path, JythDeletes(p)
    PROVE  \E v \in VM : VmNext(v)
  <1>1. ~Finished
    BY ZenonT(30) DEF Finished, vars, JythDeletes
  <1>2. ASSUME NEW q \in Path, UserChanges(q) PROVE FALSE
    BY <1>2, SMT DEF UserChanges, JythDeletes, TypeOK, BoundType
  <1>. QED  BY <1>1, <1>2, ZenonT(30) DEF Next

\* Cleanup and rollback delete a VHDX only if the VM they run for created it.
THEOREM OwnDisksOnly ==
    ASSUME ~UserRaces
    PROVE  Spec => DeletesOnlyOwnDisks
  <1>1. TypeOK /\ DiskInv /\ [Next]_vars =>
          [\A p \in Path : JythDeletes(p) =>
             \E v \in VM : creator[file[p]] = v /\ StepOf(v)]_vars
    <2>. SUFFICES ASSUME TypeOK, DiskInv, Next, NEW p \in Path, JythDeletes(p)
                  PROVE  \E v \in VM : creator[file[p]] = v /\ StepOf(v)
      BY DEF vars, JythDeletes
    <2>1. PICK v \in VM : VmNext(v)
      BY DeletingStep
    <2>2. OwnInv(v)
      BY DEF DiskInv
    <2>. QED  BY <2>1, <2>2, DeletedFiles DEF JythDeletes
  <1>. QED  BY <1>1, DiskInvariant, PTL DEF Spec, DeletesOnlyOwnDisks

\* A persistent disk of a published launch is never deleted on behalf of it.
THEOREM PersistentDisksKept ==
    ASSUME ~UserRaces
    PROVE  Spec => PublishedPersistentKept
  <1>1. TypeOK /\ DiskInv /\ [Next]_vars =>
          [\A p \in Path : JythDeletes(p) =>
             \A v \in VM, k \in Disk :
               ~ /\ hasRec[v] /\ rec[v].published
                 /\ spec[v][k].path = p /\ spec[v][k].retention = "Persistent"
                 /\ rec[v].disks[k].identity = file[p]
                 /\ StepOf(v)]_vars
    <2>. SUFFICES ASSUME TypeOK, DiskInv, Next, NEW p \in Path, JythDeletes(p),
                         NEW v \in VM, NEW k \in Disk,
                         hasRec[v], rec[v].published, spec[v][k].path = p,
                         spec[v][k].retention = "Persistent", StepOf(v)
                  PROVE  FALSE
      BY DEF vars, JythDeletes
    <2>0. OwnInv(v) /\ KeepInv(v)
      BY DEF DiskInv
    <2>1. PICK w \in VM : VmNext(w)
      BY DeletingStep
    <2>2. CASE w # v
      <3>1. View(v)' = View(v)
        BY <2>1, <2>2, OtherVms
      <3>. QED  BY <3>1 DEF View, StepOf
    <2>3. CASE w = v
      <3>1. \/ /\ pc[v] = "rm_file" /\ p = PathOf(v)
               /\ Deletable(rec[v].disks[cur[v]])
            \/ unjournaled[v] # {}
        <4>1. VmNext(v) /\ file[p] # NoFile /\ file'[p] # file[p]
          BY <2>1, <2>3 DEF JythDeletes
        <4>. QED  BY <2>0, <4>1, DeletedFiles, ZenonT(30)
      <3>2. pc[v] = "rm_file" /\ p = PathOf(v) /\ Deletable(rec[v].disks[cur[v]])
        BY <2>0, <3>1 DEF KeepInv
      <3>3. cur[v] \in Disk
        BY <3>2, DiskFieldTypes DEF DiskStages
      <3>4. cur[v] = k
        BY <2>0, <3>2, <3>3 DEF KeepInv, PathOf
      <3>5. rec[v].disks[k].published /\ rec[v].disks[k].retention = "Persistent"
        BY <2>0 DEF KeepInv
      <3>. QED  BY <3>2, <3>4, <3>5 DEF Deletable
    <2>. QED  BY <2>2, <2>3
  <1>. QED  BY <1>1, DiskInvariant, PTL DEF Spec, PublishedPersistentKept

-----------------------------------------------------------------------------
(* A dropped record leaves no disk behind                                  *)

\* A step of v deletes a file, or puts a file with a new identity at a path.
LEMMA FilesMove ==
    ASSUME TypeOK, NEW v \in VM, VmNext(v), NEW p \in Path
    PROVE  file'[p] \in {file[p], NoFile, nextId}
  <1>a. HostType
    BY DEF TypeOK
  <1>1. CASE NewVhd(v)
    BY <1>a, <1>1, ZenonT(30) DEF NewVhd, HostType
  <1>2. CASE DeleteFile(v)
    BY <1>a, <1>2, ZenonT(30) DEF DeleteFile, HostType
  <1>3. CASE RollbackUnjournaled(v)
    <2>1. file' = file \/ \E q : file' = [file EXCEPT ![q] = NoFile]
      BY <1>3 DEF RollbackUnjournaled
    <2>. QED  BY <1>a, <2>1, ZenonT(30) DEF HostType
  <1>4. CASE UNCHANGED file
    BY <1>4
  <1>. QED  BY <1>1, <1>2, <1>3, <1>4, FileSteps, MaterializeSteps

\* The next identity is none of those handed out.
LEMMA LessDiffers ==
    ASSUME NEW i \in Nat, NEW n \in Nat, i < n
    PROVE  i # n
  BY SMT

\* A file that is gone from its path does not come back: what appears there
\* later has a new identity.
LEMMA ClearedKept ==
    ASSUME TypeOK, NEW v \in VM, NEW k \in Disk, Cleared(v, k), FreshInv(v),
           spec'[v] = spec[v],
           \A p \in Path : file'[p] \in {file[p], NoFile, nextId},
           rec'[v].disks[k].identity = rec[v].disks[k].identity,
           Deletable(rec'[v].disks[k]) => Deletable(rec[v].disks[k])
    PROVE  Cleared(v, k)'
  <1>. DEFINE i == rec[v].disks[k].identity
              p == spec[v][k].path
  <1>1. i # nextId
    <2>1. i \in Nat /\ nextId \in Nat /\ i < nextId
      BY DiskFieldTypes, ZenonT(30) DEF FreshInv
    <2>. QED  BY <2>1, LessDiffers
  <1>2. p \in Path
    BY DiskHasPath DEF TypeOK
  <1>3. file'[p] \in {file[p], NoFile, nextId}
    BY <1>2, ZenonT(30)
  <1>4. ASSUME Deletable(rec[v].disks[k]), i # NoFile
        PROVE  file'[p] # i
    <2>1. file[p] # i
      BY <1>4 DEF Cleared
    <2>. QED  BY <1>1, <1>3, <1>4, <2>1
  <1>. QED  BY <1>4 DEF Cleared

\* The steps that write the disks of a record.
LEMMA DiskWriters ==
    ASSUME TypeOK, NEW v \in VM, VmNext(v)
    PROVE  \/ rec'[v].disks = rec[v].disks /\ hasRec'[v] = hasRec[v]
           \/ \E sp \in Specs, nic \in Nics : PutVm(v, sp, nic)
           \/ JournalDisk(v) \/ JournalAce(v) \/ mark_published(v)
           \/ ApplyDisk(v) \/ MarkAbandoned(v)
           \/ ~hasRec'[v]
  <1>a. JournalType /\ rec[v] \in VmResourceRecord
    BY DEF TypeOK, JournalType
  <1>1. \A s, t, n :
          /\ [rec[v] EXCEPT !.network = s].disks = rec[v].disks
          /\ [rec[v] EXCEPT !.compute = s].disks = rec[v].disks
          /\ [rec[v] EXCEPT !.compute = s, !.phase = t].disks = rec[v].disks
          /\ [rec[v] EXCEPT !.phase = t].disks = rec[v].disks
          /\ [rec[v] EXCEPT !.phase = t, !.attempts = n].disks = rec[v].disks
    BY <1>a, ZenonT(30) DEF VmResourceRecord
  <1>. USE DEF JournalType
  <1>2. CASE UNCHANGED <<hasRec, rec>>
    BY <1>2
  <1>3. CASE JournalNetwork(v)
    BY <1>a, <1>1, <1>3 DEF JournalNetwork
  <1>4. CASE JournalCompute(v)
    BY <1>a, <1>1, <1>4, ZenonT(30) DEF JournalCompute
  <1>5. CASE BeginPass(v)
    <2>1. /\ hasRec' = hasRec
          /\ rec' = rec \/ \E t, n : rec' = [rec EXCEPT ![v] =
                                     [rec[v] EXCEPT !.phase = t, !.attempts = n]]
      BY <1>5 DEF BeginPass
    <2>2. CASE rec' = rec
      BY <2>1, <2>2
    <2>3. ASSUME NEW t, NEW n, rec' = [rec EXCEPT ![v] = [rec[v] EXCEPT !.phase = t, !.attempts = n]]
          PROVE  rec'[v].disks = rec[v].disks
      <3>1. rec'[v] = [rec[v] EXCEPT !.phase = t, !.attempts = n]
        BY <1>a, <2>3
      <3>. QED  BY <1>a, <3>1 DEF VmResourceRecord
    <2>. QED  BY <2>1, <2>2, <2>3
  <1>6. CASE ApplyCompute(v)
    BY <1>a, <1>6, SMT DEF ApplyCompute, VmResourceRecord
  <1>7. CASE ApplyNetwork(v)
    BY <1>a, <1>7, SMT DEF ApplyNetwork, VmResourceRecord
  <1>8. CASE Verdict(v)
    <2>1. /\ hasRec' = hasRec
          /\ rec' = rec \/ \E t : rec' = [rec EXCEPT ![v] = [rec[v] EXCEPT !.phase = t]]
      BY <1>8 DEF Verdict
    <2>2. CASE rec' = rec
      BY <2>1, <2>2
    <2>3. ASSUME NEW t, rec' = [rec EXCEPT ![v] = [rec[v] EXCEPT !.phase = t]]
          PROVE  rec'[v].disks = rec[v].disks
      <3>1. rec'[v] = [rec[v] EXCEPT !.phase = t]
        BY <1>a, <2>3
      <3>. QED  BY <1>1, <3>1
    <2>. QED  BY <2>1, <2>2, <2>3
  <1>9. CASE RemoveVm(v)
    BY <1>a, <1>9 DEF RemoveVm
  <1>10. CASE Recover(v)
    BY <1>a, <1>10 DEF Recover
  <1>. QED  BY <1>2, <1>3, <1>4, <1>5, <1>6, <1>7, <1>8, <1>9, <1>10, RecordWriters, ZenonT(30)

\* What disk k of v's record says changes neither its state nor its identity,
\* and its removal is asked for by no more than before.
SameDisk(v, k) ==
    /\ rec'[v].disks[k].state = rec[v].disks[k].state
    /\ rec'[v].disks[k].identity = rec[v].disks[k].identity
    /\ Deletable(rec'[v].disks[k]) => Deletable(rec[v].disks[k])

\* Disk k is written by the journal commit of its materialization, by the
\* outcome of its removal and by the final commit of an abandoned record.
LEMMA DiskChanges ==
    ASSUME TypeOK, NEW v \in VM, VmNext(v), NEW k \in Disk, hasRec'[v]
    PROVE  \/ SameDisk(v, k) /\ hasRec[v]
           \/ \E sp \in Specs, nic \in Nics : PutVm(v, sp, nic)
           \/ JournalDisk(v) /\ rec'[v].disks[k].state = "Created"
           \/ /\ ApplyDisk(v) /\ k = cur[v] /\ res[v] # "none"
              /\ rec'[v].disks[k] = DiskOutcome(rec[v].disks[k], res[v])
           \/ /\ MarkAbandoned(v)
              /\ rec'[v].disks[k] =
                   [rec[v].disks[k] EXCEPT !.state = Abandon(rec[v].disks[k].state)]
  <1>a. JournalType /\ StepType /\ LaunchType /\ rec[v] \in VmResourceRecord
    BY ZenonT(30) DEF TypeOK, JournalType
  <1>b. rec[v].disks \in [Disk -> DiskResource] /\ rec[v].disks[k] \in DiskResource
    BY <1>a, ZenonT(30) DEF VmResourceRecord
  <1>c. ASSUME NEW j \in Disk, NEW d, rec'[v] = SetDisk(rec[v], j, d)
        PROVE  rec'[v].disks[k] = IF k = j THEN d ELSE rec[v].disks[k]
    <2>1. rec'[v].disks = [rec[v].disks EXCEPT ![j] = d]
      BY <1>a, <1>c DEF SetDisk, VmResourceRecord
    <2>. QED  BY <1>b, <2>1
  <1>1. CASE rec'[v].disks = rec[v].disks /\ hasRec'[v] = hasRec[v]
    BY <1>1 DEF SameDisk
  <1>2. CASE JournalDisk(v)
    <2>. DEFINE new == Materialized(rec[v].disks[cur[v]], cls[v] = "Create",
                                    spec[v][cur[v]].retention, captured[v])
    <2>1. cur[v] \in Disk /\ hasRec' = hasRec
      BY <1>a, <1>2 DEF JournalDisk, StepType, DiskStages
    <2>2. rec'[v] = SetDisk(rec[v], cur[v], new)
      BY <1>a, <1>2 DEF JournalDisk, JournalType
    <2>3. new.state = "Created"
      BY <1>b, <2>1 DEF Materialized, DiskResource
    <2>. HIDE DEF new
    <2>4. rec'[v].disks[k] = IF k = cur[v] THEN new ELSE rec[v].disks[k]
      BY <1>c, <2>1, <2>2
    <2>. QED  BY <1>2, <2>1, <2>3, <2>4 DEF SameDisk
  <1>3. CASE JournalAce(v)
    <2>. DEFINE new == [rec[v].disks[cur[v]] EXCEPT !.ace = TRUE]
    <2>1. cur[v] \in Disk /\ hasRec' = hasRec
      BY <1>a, <1>3 DEF JournalAce, StepType, DiskStages
    <2>2. rec'[v] = SetDisk(rec[v], cur[v], new)
      BY <1>a, <1>3 DEF JournalAce, JournalType
    <2>3. /\ new.state = rec[v].disks[cur[v]].state
          /\ new.identity = rec[v].disks[cur[v]].identity
          /\ Deletable(new) => Deletable(rec[v].disks[cur[v]])
      BY <1>b, <2>1 DEF DiskResource, Deletable
    <2>. HIDE DEF new
    <2>4. rec'[v].disks[k] = IF k = cur[v] THEN new ELSE rec[v].disks[k]
      BY <1>c, <2>1, <2>2
    <2>. QED  BY <2>1, <2>3, <2>4 DEF SameDisk
  <1>4. CASE mark_published(v)
    <2>1. rec'[v] = Published(rec[v]) /\ hasRec' = hasRec
      BY <1>a, <1>4 DEF mark_published, JournalType
    <2>2. rec'[v].disks[k] = [rec[v].disks[k] EXCEPT !.published = TRUE]
      BY <1>a, <2>1, SMT DEF Published, VmResourceRecord
    <2>3. SameDisk(v, k)
      BY <1>b, <2>2, SMT DEF SameDisk, DiskResource, Deletable
    <2>. QED  BY <2>1, <2>3
  <1>5. CASE ApplyDisk(v)
    <2>1. hasRec' = hasRec
      BY <1>5 DEF ApplyDisk
    <2>2. cur[v] \in Disk
      <3>1. cur[v] <= NumDisks
        BY <1>5 DEF ApplyDisk
      <3>. QED  BY <1>a, <3>1, DiskReached
    <2>3. CASE rec' = rec
      BY <2>1, <2>3 DEF SameDisk
    <2>4. CASE rec' # rec
      <3>1. /\ rec'[v] = SetDisk(rec[v], cur[v], DiskOutcome(rec[v].disks[cur[v]], res[v]))
            /\ res[v] # "none"
        BY <1>a, <1>5, <2>4 DEF ApplyDisk, JournalType
      <3>2. rec'[v].disks[k] = IF k = cur[v] THEN DiskOutcome(rec[v].disks[cur[v]], res[v])
                               ELSE rec[v].disks[k]
        BY <1>c, <2>2, <3>1
      <3>. QED  BY <1>5, <2>1, <3>1, <3>2 DEF SameDisk
    <2>. QED  BY <2>3, <2>4
  <1>6. CASE MarkAbandoned(v)
    <2>1. rec'[v] = Abandoned(rec[v])
      BY <1>a, <1>6 DEF MarkAbandoned, JournalType
    <2>2. rec'[v].disks[k] =
            [rec[v].disks[k] EXCEPT !.state = Abandon(rec[v].disks[k].state)]
      BY <1>a, <2>1, SMT DEF Abandoned, VmResourceRecord
    <2>. QED  BY <1>6, <2>2
  <1>. QED  BY <1>1, <1>2, <1>3, <1>4, <1>5, <1>6, DiskWriters

\* Only the planning of a launch writes the request, and only the end of a
\* pass that found nothing left clears the inventory.
LEMMA KeptByStep ==
    ASSUME TypeOK, NEW v \in VM, VmNext(v), StageInv(v)
    PROVE  /\ \/ spec'[v] = spec[v]
              \/ \E sp \in Specs, nic \in Nics : PutVm(v, sp, nic)
           /\ hasRec[v] => inventory[v] \subseteq inventory'[v]
  <1>1. Materialize(v) \/ CaptureIdentity(v) \/ RemoveDisk(v) => spec' = spec
    BY MaterializeSteps DEF CaptureIdentity, RemoveDisk
  <1>2. Quiet(v) => spec'[v] = spec[v]
    BY DEF Quiet
  <1>3. RemoveAbandoned(v) => ~hasRec[v]
    BY DEF RemoveAbandoned, StageInv
  <1>4. PutAbandoned(v) => inventory[v] \subseteq inventory'[v]
    BY DEF PutAbandoned, TypeOK, JournalType
  <1>. QED  BY <1>1, <1>2, <1>3, <1>4, QuietSteps, InventorySteps

\* A step of v leaves a disk of v's record in a state that says the truth.
LEMMA SettledStep ==
    ASSUME TypeOK, NEW v \in VM, VmNext(v), StageInv(v), FreshInv(v), ClearInv(v),
           NEW k \in Disk, hasRec'[v]
    PROVE  Settled(v, k)'
  <1>a. \A p \in Path : file'[p] \in {file[p], NoFile, nextId}
    BY FilesMove
  <1>b. rec[v].disks[k] \in DiskResource
    BY ZenonT(30) DEF TypeOK, JournalType, VmResourceRecord
  <1>1. CASE \E sp \in Specs, nic \in Nics : PutVm(v, sp, nic)
    <2>1. PICK sp \in Specs, nic \in Nics : PutVm(v, sp, nic)
      BY <1>1
    <2>2. rec'[v] = PlannedRecord(sp, nic)
      BY <2>1 DEF PutVm, TypeOK, JournalType
    <2>3. rec'[v].disks[k].identity = NoFile
      BY <2>2, PlannedFacts, ZenonT(30)
    <2>4. rec'[v].disks[k].state = "Planned"
      BY <2>2, PlannedFacts, ZenonT(30)
    <2>. QED  BY <2>3, <2>4, ZenonT(30) DEF Settled
  <1>2. CASE spec'[v] = spec[v] /\ SameDisk(v, k) /\ hasRec[v]
    <2>1. Settled(v, k) /\ inventory[v] \subseteq inventory'[v]
      BY <1>2, KeptByStep DEF ClearInv
    <2>2. Cleared(v, k) => Cleared(v, k)'
      BY <1>2, <1>a, ClearedKept DEF SameDisk
    <2>. QED  BY <1>2, <2>1, <2>2 DEF Settled, SameDisk
  <1>3. CASE JournalDisk(v) /\ rec'[v].disks[k].state = "Created"
    BY <1>3, ZenonT(30) DEF Settled
  <1>4. CASE /\ spec'[v] = spec[v] /\ ApplyDisk(v) /\ k = cur[v] /\ res[v] # "none"
             /\ rec'[v].disks[k] = DiskOutcome(rec[v].disks[k], res[v])
    <2>1. /\ rec'[v].disks[k].state = Outcome(res[v])
          /\ rec'[v].disks[k].identity = rec[v].disks[k].identity
          /\ Deletable(rec'[v].disks[k]) = Deletable(rec[v].disks[k])
      BY <1>4, <1>b, ZenonT(30) DEF DiskOutcome, DiskResource, Deletable
    <2>2. CASE res[v] = "ok"
      <3>1. Cleared(v, k)
        BY <1>4, <2>2 DEF ApplyDisk, ClearInv
      <3>2. Cleared(v, k)'
        BY <1>4, <1>a, <2>1, <3>1, ClearedKept
      <3>3. rec'[v].disks[k].state = "Removed"
        BY <2>1, <2>2 DEF Outcome
      <3>. QED  BY <3>2, <3>3, ZenonT(30) DEF Settled
    <2>3. CASE res[v] # "ok"
      <3>1. rec'[v].disks[k].state = "RemovalFailed"
        BY <2>1, <2>3 DEF Outcome
      <3>. QED  BY <3>1 DEF Settled
    <2>. QED  BY <2>2, <2>3, ZenonT(30)
  <1>5. CASE /\ spec'[v] = spec[v] /\ MarkAbandoned(v)
             /\ rec'[v].disks[k] =
                  [rec[v].disks[k] EXCEPT !.state = Abandon(rec[v].disks[k].state)]
    <2>1. /\ rec'[v].disks[k].state = Abandon(rec[v].disks[k].state)
          /\ rec'[v].disks[k].identity = rec[v].disks[k].identity
          /\ Deletable(rec'[v].disks[k]) = Deletable(rec[v].disks[k])
      BY <1>5, <1>b DEF DiskResource, Deletable
    <2>2. hasRec[v] /\ pc[v] = "mark_abandoned" /\ inventory' = inventory
      BY <1>5 DEF MarkAbandoned
    <2>3. CASE rec[v].disks[k].state = "Removed"
      <3>1. Cleared(v, k)
        BY <2>2, <2>3 DEF ClearInv, Settled
      <3>2. Cleared(v, k)'
        BY <1>5, <1>a, <2>1, <3>1, ClearedKept
      <3>3. rec'[v].disks[k].state = "Removed"
        BY <2>1, <2>3 DEF Abandon
      <3>. QED  BY <3>2, <3>3, ZenonT(30) DEF Settled
    <2>4. CASE rec[v].disks[k].state # "Removed"
      <3>1. DiskEntry(k) \in inventory'[v]
        BY <2>2, <2>4 DEF ClearInv
      <3>2. rec'[v].disks[k].state = "Abandoned"
        BY <1>b, <2>1, <2>4, ZenonT(30) DEF Abandon, DiskResource, ResourceState
      <3>. QED  BY <3>1, <3>2, ZenonT(30) DEF Settled, DiskEntry
    <2>. QED  BY <2>3, <2>4
  <1>. QED  BY <1>1, <1>2, <1>3, <1>4, <1>5, DiskChanges, KeptByStep, ZenonT(30)

\* remove_disk reports success only for a disk that was never made, that is not
\* Jyth's to delete, or whose file is gone.
LEMMA ReportedStep ==
    ASSUME TypeOK, NEW v \in VM, VmNext(v), StageInv(v), FreshInv(v), ClearInv(v),
           pc'[v] = "rm_disk", res'[v] = "ok"
    PROVE  Cleared(v, cur[v])'
  <1>a. HostType /\ StepType /\ LaunchType
    BY DEF TypeOK
  <1>b. \A p \in Path : file'[p] \in {file[p], NoFile, nextId}
    BY FilesMove
  <1>1. ASSUME NEW k, k = cur'[v], UNCHANGED <<rec, spec>>, PathOf(v) = spec[v][k].path,
               \/ ~Deletable(rec[v].disks[k])
               \/ rec[v].disks[k].identity = NoFile
               \/ file'[PathOf(v)] = NoFile
        PROVE  Cleared(v, cur[v])'
    BY <1>1 DEF Cleared
  <1>2. CASE RemoveDisk(v)
    <2>1. UNCHANGED <<rec, spec, cur, file>> /\ pc[v] = "rm_disk" /\ hasRec[v]
          /\ res[v] = "none" /\ cur[v] <= NumDisks
      BY <1>2 DEF RemoveDisk, StageInv, NeedsRecord, Cleaning
    <2>2. cur[v] \in Disk
      <3>1. cur[v] \in 1..(NumDisks + 1)
        BY <1>a DEF StepType
      <3>. QED  BY <2>1, <3>1, DiskIndex
    <2>3. Settled(v, cur[v])
      BY <2>1, <2>2 DEF ClearInv
    <2>4. \/ rec[v].disks[cur[v]].state = "Planned"
          \/ ~Deletable(rec[v].disks[cur[v]])
          \/ file[PathOf(v)] = NoFile
      BY <1>2, <1>a, <2>1 DEF RemoveDisk, StepType
    <2>5. \/ rec[v].disks[cur[v]].identity = NoFile
          \/ ~Deletable(rec[v].disks[cur[v]])
          \/ file'[PathOf(v)] = NoFile
      BY <2>1, <2>3, <2>4 DEF Settled
    <2>. QED  BY <1>1, <2>1, <2>5 DEF PathOf
  <1>3. CASE DeleteFile(v)
    <2>1. /\ UNCHANGED <<rec, spec, cur>> /\ pc[v] = "rm_file"
          /\ file' = [file EXCEPT ![PathOf(v)] = NoFile]
      BY <1>3, <1>a DEF DeleteFile, StepType
    <2>2. PathOf(v) \in Path
      BY <2>1, DiskFieldTypes DEF DiskStages
    <2>3. file'[PathOf(v)] = NoFile
      BY <1>a, <2>1, <2>2 DEF HostType
    <2>. QED  BY <1>1, <2>1, <2>3 DEF PathOf
  <1>4. CASE /\ pc'[v] = pc[v] /\ res'[v] = res[v] /\ cur'[v] = cur[v] /\ rec'[v] = rec[v]
             /\ Quiet(v)
    <2>1. Cleared(v, cur[v]) /\ cur[v] <= NumDisks
      BY <1>4, ZenonT(30) DEF ClearInv, StageInv
    <2>2. cur[v] \in Disk /\ spec'[v] = spec[v]
      BY <1>4, <1>a, <2>1, DiskReached DEF Quiet
    <2>. DEFINE k == cur[v]
    <2>3. Cleared(v, k) /\ k \in Disk /\ k = cur'[v]
      BY <1>4, <2>1, <2>2
    <2>. HIDE DEF k
    <2>4. /\ Deletable(rec'[v].disks[k]) => Deletable(rec[v].disks[k])
          /\ rec'[v].disks[k].identity = rec[v].disks[k].identity
      BY <1>4
    <2>5. /\ Deletable(rec'[v].disks[k]) /\ rec'[v].disks[k].identity # NoFile
          => file'[spec'[v][k].path] # rec'[v].disks[k].identity
      <3>1. file'[spec[v][k].path] \in {file[spec[v][k].path], NoFile, nextId}
        BY <1>a, <1>b, <2>3, DiskHasPath
      <3>2. rec[v].disks[k].identity \in Nat /\ nextId \in Nat
            /\ rec[v].disks[k].identity < nextId
        BY <2>3, DiskFieldTypes, ZenonT(30) DEF FreshInv
      <3>3. nextId # rec[v].disks[k].identity
        BY <3>2, SMT
      <3>4. /\ Deletable(rec[v].disks[k]) /\ rec[v].disks[k].identity # NoFile
            => file[spec[v][k].path] # rec[v].disks[k].identity
        BY <2>3 DEF Cleared
      <3>. QED  BY <2>2, <2>4, <3>1, <3>3, <3>4
    <2>. QED  BY <2>3, <2>5 DEF Cleared
  <1>5. CASE \E sp \in Specs, nic \in Nics : PutVm(v, sp, nic)
    BY <1>5, <1>a, ZenonT(30) DEF PutVm, StepType
  <1>6. CASE Materialize(v) \/ CaptureIdentity(v)
    <2>1. \/ pc' = [pc EXCEPT ![v] = "begin"] \/ pc' = [pc EXCEPT ![v] = "capture"]
          \/ pc' = [pc EXCEPT ![v] = "disk_journal"]
      BY <1>6, MaterializeSteps DEF CaptureIdentity, Rollback, Proceed
    <2>. QED  BY <1>a, <2>1, ZenonT(30) DEF StepType
  <1>. QED  BY <1>2, <1>3, <1>4, <1>5, <1>6, QuietSteps DEF Steady

\* When abandon_remaining marks the record terminal, the inventory lists every
\* disk that is not removed.
LEMMA ListedStep ==
    ASSUME TypeOK, NEW v \in VM, VmNext(v), StageInv(v), ClearInv(v),
           pc'[v] = "mark_abandoned", NEW k \in Disk,
           rec'[v].disks[k].state # "Removed"
    PROVE  DiskEntry(k) \in inventory'[v]
  <1>a. JournalType /\ StepType
    BY DEF TypeOK
  <1>1. CASE PutAbandoned(v)
    <2>1. rec' = rec
      BY <1>1 DEF PutAbandoned
    <2>2. inventory'[v] = inventory[v] \cup
            {e \in {ComputeEntry} : rec[v].compute # "Removed"} \cup
            {e \in {NetworkEntry} : rec[v].network \notin {"None", "Removed"}} \cup
            {DiskEntry(j) : j \in {j \in Disk : rec[v].disks[j].state # "Removed"}}
      BY <1>a, <1>1 DEF PutAbandoned, JournalType
    <2>. QED  BY <2>1, <2>2
  <1>2. CASE pc'[v] = pc[v] /\ rec'[v] = rec[v]
    <2>1. hasRec[v] /\ DiskEntry(k) \in inventory[v]
      BY <1>2, ZenonT(30) DEF ClearInv, StageInv, NeedsRecord, Cleaning
    <2>. QED  BY <2>1, KeptByStep
  <1>3. CASE \E sp \in Specs, nic \in Nics : PutVm(v, sp, nic)
    BY <1>3, <1>a, ZenonT(30) DEF PutVm, StepType
  <1>4. CASE Materialize(v) \/ CaptureIdentity(v)
    <2>1. \/ pc' = [pc EXCEPT ![v] = "begin"] \/ pc' = [pc EXCEPT ![v] = "capture"]
          \/ pc' = [pc EXCEPT ![v] = "disk_journal"]
      BY <1>4, MaterializeSteps DEF CaptureIdentity, Rollback, Proceed
    <2>. QED  BY <1>a, <2>1, ZenonT(30) DEF StepType
  <1>5. CASE RemoveDisk(v)
    <2>1. pc[v] = "rm_disk" /\ (pc' = pc \/ pc' = [pc EXCEPT ![v] = "rm_file"])
      BY <1>5 DEF RemoveDisk
    <2>. QED  BY <1>a, <2>1, ZenonT(30) DEF StepType
  <1>. QED  BY <1>1, <1>2, <1>3, <1>4, <1>5, QuietSteps DEF Steady

\* What another VM or the user does to files does not make v's record wrong.
LEMMA ClearFrame ==
    ASSUME TypeOK, NEW w \in VM, View(w)' = View(w), StageInv(w), FreshInv(w), ClearInv(w),
           \A p \in Path : file'[p] \in {file[p], NoFile, nextId}
    PROVE  ClearInv(w)'
  <1>1. /\ rec'[w] = rec[w] /\ hasRec'[w] = hasRec[w] /\ pc'[w] = pc[w] /\ res'[w] = res[w]
        /\ spec'[w] = spec[w] /\ cur'[w] = cur[w] /\ inventory'[w] = inventory[w]
    BY ZenonT(30) DEF View
  <1>2. ASSUME NEW k \in Disk, Cleared(w, k)
        PROVE  Cleared(w, k)'
    BY <1>1, <1>2, ClearedKept
  <1>3. ASSUME NEW k \in Disk, Settled(w, k)
        PROVE  Settled(w, k)'
    BY <1>1, <1>2, <1>3 DEF Settled
  <1>4. ASSUME pc[w] = "rm_disk", res[w] = "ok"
        PROVE  Cleared(w, cur[w])'
    <2>1. Cleared(w, cur[w]) /\ cur[w] <= NumDisks
      BY <1>4, ZenonT(30) DEF ClearInv, StageInv
    <2>2. cur[w] \in Disk
      <3>1. cur[w] \in 1..(NumDisks + 1)
        BY DEF TypeOK, StepType
      <3>. QED  BY <2>1, <3>1, DiskIndex
    <2>3. PICK k \in Disk : k = cur[w] /\ Cleared(w, k)
      BY <2>1, <2>2
    <2>4. Cleared(w, k)'
      BY <1>2, <2>3
    <2>. QED  BY <1>1, <2>3, <2>4 DEF Cleared
  <1>. QED  BY <1>1, <1>3, <1>4 DEF ClearInv

\* No record says anything before the first launch.
LEMMA InitRemoval == Init => RemovalInv
  BY ZenonT(30) DEF Init, RemovalInv, ClearInv

\* Every step keeps what the records say of removed and abandoned disks true.
LEMMA NextRemoval ==
    TypeOK /\ LeakInv /\ DiskInv /\ RemovalInv /\ [Next]_vars => RemovalInv'
  <1>. SUFFICES ASSUME TypeOK, LeakInv, DiskInv, RemovalInv, [Next]_vars, NEW w \in VM
                PROVE  ClearInv(w)'
    BY DEF RemovalInv
  <1>0. StageInv(w) /\ FreshInv(w) /\ ClearInv(w)
    BY DEF LeakInv, DiskInv, RemovalInv
  <1>1. CASE UNCHANGED vars
    <2>1. View(w)' = View(w) /\ \A p \in Path : file'[p] \in {file[p], NoFile, nextId}
      BY <1>1, ZenonT(30) DEF vars, View
    <2>. QED  BY <1>0, <2>1, ClearFrame
  <1>2. ASSUME NEW v \in VM, VmNext(v), v # w
        PROVE  ClearInv(w)'
    <2>1. View(w)' = View(w)
      BY <1>2, OtherVms
    <2>2. \A p \in Path : file'[p] \in {file[p], NoFile, nextId}
      BY <1>2, FilesMove
    <2>. QED  BY <1>0, <2>1, <2>2, ClearFrame
  <1>3. ASSUME VmNext(w)
        PROVE  ClearInv(w)'
    <2>1. \A k \in Disk : hasRec'[w] => Settled(w, k)'
      BY <1>0, <1>3, SettledStep
    <2>2. pc'[w] = "rm_disk" /\ res'[w] = "ok" => Cleared(w, cur[w])'
      BY <1>0, <1>3, ReportedStep
    <2>3. pc'[w] = "mark_abandoned" => \A k \in Disk :
            rec'[w].disks[k].state # "Removed" => DiskEntry(k) \in inventory'[w]
      BY <1>0, <1>3, ListedStep
    <2>. QED  BY <2>1, <2>2, <2>3 DEF ClearInv, DiskEntry
  <1>4. ASSUME NEW p \in Path, UserChanges(p)
        PROVE  ClearInv(w)'
    <2>1. View(w)' = View(w)
      BY <1>4, ZenonT(30) DEF UserChanges, View
    <2>2. \A q \in Path : file'[q] \in {file[q], NoFile, nextId}
      BY <1>4, ZenonT(30) DEF UserChanges, TypeOK, HostType
    <2>. QED  BY <1>0, <2>1, <2>2, ClearFrame
  <1>. QED  BY <1>1, <1>2, <1>3, <1>4 DEF Next, Finished

\* A record leaves the journal only when each disk that was its own to delete
\* is gone from its path or listed in the abandoned inventory.
THEOREM DroppedDisksGone ==
    ASSUME ~UserRaces, ~DropsInFlight
    PROVE  Spec => DroppedRecordLeavesNoDisk
  <1>1. TypeOK /\ LeakInv /\ DiskInv /\ RemovalInv /\ [Next]_vars =>
          [\A v \in VM : hasRec[v] /\ ~hasRec'[v] =>
             \A k \in Disk :
               LET d == rec[v].disks[k] IN
               /\ Deletable(d) /\ d.identity # NoFile
               /\ file[spec[v][k].path] = d.identity
               => DiskEntry(k) \in inventory[v]]_vars
    <2>. SUFFICES ASSUME TypeOK, LeakInv, RemovalInv, Next, NEW v \in VM,
                         hasRec[v], ~hasRec'[v], NEW k \in Disk, ~Cleared(v, k)
                  PROVE  DiskEntry(k) \in inventory[v]
      BY DEF vars, Cleared
    <2>0. StageInv(v) /\ HonestInv(v) /\ Settled(v, k)
      BY DEF LeakInv, RemovalInv, ClearInv
    <2>1. VmNext(v)
      <3>1. ASSUME NEW w \in VM, VmNext(w), w # v PROVE FALSE
        <4>1. View(v)' = View(v)
          BY <3>1, OtherVms
        <4>. QED  BY <4>1, ZenonT(30) DEF View
      <3>2. ASSUME NEW p \in Path, UserChanges(p) PROVE FALSE
        BY <3>2 DEF UserChanges
      <3>3. ~Finished
        BY DEF Finished, vars
      <3>. QED  BY <3>1, <3>2, <3>3 DEF Next
    <2>2. is_complete(rec[v])
      <3>1. CASE RemoveVm(v)
        BY <2>0, <3>1 DEF RemoveVm, StageInv, is_complete
      <3>2. CASE Recover(v)
        BY <3>2 DEF Recover
      <3>3. RemoveVm(v) \/ Recover(v)
        <4>1. hasRec' # hasRec
          BY ZenonT(30)
        <4>2. ASSUME NEW sp, NEW nic, PutVm(v, sp, nic) PROVE FALSE
          BY <4>2 DEF PutVm, TypeOK, JournalType
        <4>. QED  BY <2>1, <4>1, <4>2, RecordWriters DEF JournalDisk, mark_published, JournalNetwork, JournalAce,
                      JournalCompute, BeginPass, ApplyCompute, ApplyNetwork, ApplyDisk,
                      Verdict, MarkAbandoned
      <3>. QED  BY <3>1, <3>2, <3>3
    <2>3. rec[v].disks[k].state \in {"Removed", "Abandoned"}
      BY <2>0, <2>2 DEF is_complete, HonestInv, AllRemoved, Terminal
    <2>. QED  BY <2>0, <2>3, ZenonT(30) DEF Settled
  <1>2. TypeOK /\ LeakInv /\ DiskInv /\ RemovalInv /\ [Next]_vars => RemovalInv'
    BY NextRemoval
  <1>. QED  BY <1>1, <1>2, InitRemoval, LeakInvariant, DiskInvariant, PTL
            DEF Spec, DroppedRecordLeavesNoDisk
=============================================================================
