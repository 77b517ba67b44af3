-------------------------- MODULE SchedulerProofs --------------------------
(***************************************************************************)
(* For any number of actions and any cap: the end of a run is published    *)
(* after every job has ended, reported outcomes stay, and the cap holds.   *)
(***************************************************************************)
EXTENDS Scheduler, FiniteSetTheorems, TLAPS

USE DEF runVars, jobVars, coordVars, waitVars, SetState

\* The conjunction that every step preserves.
IInv == TypeOK /\ RunInv

\* The permits are finitely many, and no more when fewer jobs hold one.
LEMMA FewerHolders ==
  ASSUME Holders' \subseteq Holders, Cardinality(Holders) <= MaxConcurrent
  PROVE  Cardinality(Holders)' <= MaxConcurrent
<1>1. IsFiniteSet(Holders)
  BY SchedulerAssumption, FS_Subset DEF Holders
<1>2. Cardinality(Holders') <= Cardinality(Holders) /\ Cardinality(Holders) \in Nat
      /\ Cardinality(Holders') \in Nat
  BY <1>1, FS_Subset, FS_CardinalityType
<1>3. QED
  BY <1>2, SchedulerAssumption

\* Acquiring a permit takes one of those that are left.
LEMMA OneMoreHolder ==
  ASSUME TypeOK, NEW t \in Task, AcquirePermit(t)
  PROVE  Cardinality(Holders)' <= MaxConcurrent
<1>1. IsFiniteSet(Holders)
  BY SchedulerAssumption, FS_Subset DEF Holders
<1>2. Holders' = Holders \cup {t} /\ t \notin Holders
  BY DEF Holders, AcquirePermit, TypeOK
<1>3. Cardinality(Holders') = Cardinality(Holders) + 1
  BY <1>1, <1>2, FS_AddElement
<1>4. Cardinality(Holders) \in Nat
  BY <1>1, FS_CardinalityType
<1>5. Cardinality(Holders) < MaxConcurrent
  BY DEF AcquirePermit, PermitAvailable
<1>6. QED
  BY <1>3, <1>4, <1>5, SchedulerAssumption

\* The steps of the run, one job, observer or branch at a time.
AnyStep ==
    \/ \E t \in Task : JobStep(t) \/ Finish(t) \/ Resolve(t)
    \/ CoordStep
    \/ \E o \in Observer : WaitStep(o)
    \/ cancel

\* Every step preserves the types.
LEMMA StepType == IInv /\ AnyStep => TypeOK'
<1>. SUFFICES ASSUME IInv, AnyStep PROVE TypeOK'
  OBVIOUS
<1>. USE SchedulerAssumption DEF IInv, TypeOK, TaskState, InFlight
<1>1. ASSUME NEW t \in Task, JobStep(t) \/ Finish(t) \/ Resolve(t) PROVE TypeOK'
  <2>1. CASE AcquirePermit(t)
    BY <2>1 DEF AcquirePermit
  <2>2. CASE Triggered(t)
    BY <2>2 DEF Triggered
  <2>3. CASE Publish(t)
    BY <2>3 DEF Publish
  <2>4. CASE Notify(t)
    BY <2>4 DEF Notify, NotifyWaiters, RunInv
  <2>5. CASE Expire(t)
    BY <2>5 DEF Expire
  <2>6. CASE GraceOver(t)
    BY <2>6 DEF GraceOver
  <2>7. CASE Dropped(t)
    BY <2>7 DEF Dropped
  <2>8. CASE Finish(t)
    BY <2>8 DEF Finish
  <2>9. CASE Resolve(t)
    BY <2>9 DEF Resolve
  <2>10. QED
    BY <1>1, <2>1, <2>2, <2>3, <2>4, <2>5, <2>6, <2>7, <2>8, <2>9 DEF JobStep
<1>2. CASE CoordStep
  <2>1. CASE OnCancel \/ OnGrace
    <3>1. /\ coord' \in {"grace", "aborting"} /\ aborted' \in BOOLEAN
      BY <2>1 DEF OnCancel, OnGrace, AbortAll
    <3>2. UNCHANGED <<grace, tasks, finished, trigger, pc, out, cancelled,
                      waiter, notified>>
      BY <2>1 DEF OnCancel, OnGrace, runVars, jobVars, waitVars
    <3>3. QED
      BY <3>1, <3>2, Zenon
  <2>2. CASE LeaveLoop
    BY <2>2 DEF LeaveLoop
  <2>3. CASE Finalize
    BY <2>3 DEF Finalize, FinalStates, Terminal, RunInv, AllJoined
  <2>4. CASE NotifyFinished
    BY <2>4 DEF NotifyFinished, NotifyWaiters
  <2>5. QED
    BY <1>2, <2>1, <2>2, <2>3, <2>4 DEF CoordStep
<1>3. ASSUME NEW o \in Observer, WaitStep(o) PROVE TypeOK'
  BY <1>3 DEF WaitStep, Subscribe, Inspect, Woken
<1>4. CASE cancel
  BY <1>4 DEF cancel
<1>5. QED
  BY <1>1, <1>2, <1>3, <1>4 DEF AnyStep

\* Every step preserves the invariant of the run.
LEMMA StepRun == IInv /\ AnyStep => RunInv'
<1>. SUFFICES ASSUME IInv, AnyStep PROVE RunInv'
  OBVIOUS
<1>. USE SchedulerAssumption DEF IInv, TypeOK, TaskState, Terminal, AllJoined
<1>. DEFINE Rest ==
         /\ coord \in {"final", "notify", "done"} => AllJoined
         /\ finished <=> coord \in {"notify", "done"}
         /\ finished => \A t \in Task : tasks[t] \in Terminal
         /\ \A t \in Task :
              /\ pc[t] = "notify" => tasks[t] = out[t]
              /\ pc[t] \notin {"notify", "done"} => tasks[t] \notin Terminal
              /\ pc[t] = "notify" /\ out[t] \notin Terminal => out[t] = "Running"
              /\ pc[t] = "publish" => out[t] # "Pending"
<1>a. RunInv <=> Rest /\ Cardinality(Holders) <= MaxConcurrent
  BY DEF RunInv
<1>b. RunInv' <=> Rest' /\ Cardinality(Holders)' <= MaxConcurrent
  BY DEF RunInv
<1>1. ASSUME NEW t \in Task, JobStep(t) \/ Finish(t) \/ Resolve(t)
      PROVE  Rest' /\ Cardinality(Holders)' <= MaxConcurrent
  <2>1. CASE AcquirePermit(t)
    <3>1. Rest'
      BY <2>1, <1>a DEF AcquirePermit
    <3>2. QED
      BY <2>1, <3>1, OneMoreHolder
  <2>2. CASE Triggered(t)
    <3>1. Rest' /\ Holders' \subseteq Holders
      BY <2>2, <1>a DEF Triggered, Holders
    <3>2. QED
      BY <3>1, <1>a, FewerHolders
  <2>3. CASE Publish(t)
    <3>1. Rest' /\ Holders' \subseteq Holders
      BY <2>3, <1>a DEF Publish, Holders
    <3>2. QED
      BY <3>1, <1>a, FewerHolders
  <2>4. CASE Notify(t)
    <3>1. Rest' /\ Holders' \subseteq Holders
      BY <2>4, <1>a DEF Notify, Holders
    <3>2. QED
      BY <3>1, <1>a, FewerHolders
  <2>5. CASE Expire(t) \/ GraceOver(t) \/ Dropped(t) \/ Finish(t)
    <3>1. Rest' /\ Holders' \subseteq Holders
      BY <2>5, <1>a DEF Expire, GraceOver, Dropped, Finish, Holders
    <3>2. QED
      BY <3>1, <1>a, FewerHolders
  <2>6. CASE Resolve(t)
    <3>1. Rest' /\ Holders' \subseteq Holders
      BY <2>6, <1>a DEF Resolve, Holders
    <3>2. QED
      BY <3>1, <1>a, FewerHolders
  <2>7. QED
    BY <1>1, <2>1, <2>2, <2>3, <2>4, <2>5, <2>6 DEF JobStep
<1>2. ASSUME CoordStep \/ cancel \/ \E o \in Observer : WaitStep(o)
      PROVE  Rest' /\ Cardinality(Holders)' <= MaxConcurrent
  <2>1. Holders' \subseteq Holders
    BY <1>2 DEF CoordStep, OnCancel, OnGrace, LeaveLoop, Finalize, NotifyFinished,
       cancel, WaitStep, Subscribe, Inspect, Woken, Holders
  <2>2. CASE Finalize
    BY <2>1, <2>2, <1>a, FewerHolders DEF Finalize, FinalStates
  <2>3. CASE OnCancel \/ OnGrace \/ LeaveLoop \/ NotifyFinished
    BY <2>1, <2>3, <1>a, FewerHolders
    DEF OnCancel, OnGrace, LeaveLoop, NotifyFinished, AbortAll, JoinedNone
  <2>4. CASE cancel \/ \E o \in Observer : WaitStep(o)
    BY <2>1, <2>4, <1>a, FewerHolders
    DEF cancel, WaitStep, Subscribe, Inspect, Woken
  <2>5. QED
    BY <1>2, <2>2, <2>3, <2>4 DEF CoordStep
<1>3. QED
  BY <1>1, <1>2, <1>b DEF AnyStep

\* The initial state satisfies the invariant: nobody holds a permit.
LEMMA InitRun == Init => IInv
<1>. SUFFICES ASSUME Init PROVE IInv
  OBVIOUS
<1>1. TypeOK
  BY SchedulerAssumption DEF Init, TypeOK, TaskState, InFlight
<1>2. Holders = {}
  BY DEF Init, Holders
<1>3. Cardinality(Holders) <= MaxConcurrent
  BY <1>2, FS_EmptySet, SchedulerAssumption
<1>4. QED
  BY <1>1, <1>3 DEF Init, IInv, RunInv, Terminal, TaskState

\* Every step of the specification preserves the invariant.
LEMMA NextRun == IInv /\ [Next]_vars => IInv'
<1>1. ASSUME IInv, AnyStep PROVE IInv'
  BY <1>1, StepType, StepRun DEF IInv
<1>2. ASSUME IInv, UNCHANGED vars PROVE IInv'
  BY <1>2 DEF IInv, TypeOK, RunInv, AllJoined, Holders, InFlight, vars
<1>3. QED
  BY <1>1, <1>2 DEF Next, AnyStep, Over

\* The invariant holds in every reachable state.
THEOREM RunInvariant == Spec => []IInv
  BY InitRun, NextRun, PTL DEF Spec

\* States, places and permits stay what run_job and coordinate make of them.
THEOREM TypeCorrect == Spec => []TypeOK
<1>1. IInv => TypeOK
  BY DEF IInv
<1>2. QED
  BY <1>1, RunInvariant, PTL

\* When the snapshot says finished every job has ended and every state is
\* terminal (coordinate joins what it aborted).
THEOREM FinishedIsFinal == Spec => []FinishedMeansEnded
<1>1. IInv => FinishedMeansEnded
  BY DEF IInv, RunInv, FinishedMeansEnded
<1>2. QED
  BY <1>1, RunInvariant, PTL

\* Never more actions in flight than permits.
THEOREM CapHolds == Spec => []CapRespected
<1>1. IInv => CapRespected
  <2>. SUFFICES ASSUME IInv PROVE CapRespected
    OBVIOUS
  <2>1. IsFiniteSet(Holders) /\ InFlight \subseteq Holders
    BY SchedulerAssumption, FS_Subset DEF Holders, InFlight
  <2>2. /\ Cardinality(InFlight) <= Cardinality(Holders)
        /\ Cardinality(InFlight) \in Nat /\ Cardinality(Holders) \in Nat
    BY <2>1, FS_Subset, FS_CardinalityType
  <2>3. QED
    BY <2>2, SchedulerAssumption DEF IInv, RunInv, CapRespected
<1>2. QED
  BY <1>1, RunInvariant, PTL

\* One step does not replace an outcome: a job that published one publishes no
\* other, and the final sweep passes over it.
LEMMA OutcomeStep ==
  ASSUME IInv, Next, NEW t \in Task, tasks[t] \in Terminal
  PROVE  tasks'[t] = tasks[t]
<1>. USE DEF IInv, RunInv, TypeOK
<1>1. ASSUME NEW u \in Task, JobStep(u) \/ Finish(u) \/ Resolve(u)
      PROVE  tasks'[t] = tasks[t]
  BY <1>1 DEF JobStep, AcquirePermit, Triggered, Publish, Notify, Expire,
     GraceOver, Dropped, Finish, Resolve
<1>2. CASE CoordStep
  BY <1>2 DEF CoordStep, OnCancel, OnGrace, LeaveLoop, Finalize, NotifyFinished,
     FinalStates
<1>3. CASE cancel \/ Over \/ \E o \in Observer : WaitStep(o)
  BY <1>3 DEF cancel, Over, WaitStep, Subscribe, Inspect, Woken, vars
<1>4. QED
  BY <1>1, <1>2, <1>3 DEF Next

\* Reported outcomes are never replaced.
THEOREM OutcomesAreKept == Spec => OutcomesKept
<1>1. IInv /\ [Next]_vars =>
        [\A t \in Task : tasks[t] \in Terminal => tasks'[t] = tasks[t]]_vars
  BY OutcomeStep DEF vars
<1>2. QED
  BY <1>1, RunInvariant, PTL DEF Spec, OutcomesKept

=============================================================================
