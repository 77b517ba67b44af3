----------------------------- MODULE Scheduler -----------------------------
(***************************************************************************)
(* The conditional-action engine (scheduler/src/lib.rs): a coordinator, one *)
(* job per action, observers that wait for the run, and a caller who may   *)
(* cancel it.                                                              *)
(*                                                                         *)
(* A job holds a permit from before it waits for its trigger until it      *)
(* ends.  The state mutex is only ever held between two await points, so   *)
(* each of its critical sections is one step; the notification after it is *)
(* another.  An aborted job is dropped at its next await point.            *)
(***************************************************************************)
EXTENDS Naturals, FiniteSets

CONSTANTS
    Task,           \* the actions of the run
    Observer,       \* callers of RunObserver::wait
    MaxConcurrent,  \* the cap; at least the number of tasks when there is none
    Graces,         \* may a post-cancel grace be configured, or none
    Deadlines       \* the actions that have a deadline

ASSUME SchedulerAssumption ==
    /\ IsFiniteSet(Task)
    /\ MaxConcurrent \in Nat
    /\ Graces \subseteq BOOLEAN /\ Deadlines \subseteq Task

VARIABLES
    grace,      \* is a post-cancel grace configured
    tasks,      \* the retained TaskState of every action
    finished,   \* the snapshot's flag
    trigger,    \* what each trigger future resolved to
    pc,         \* where each job is
    out,        \* the state a job is about to publish
    cancelled,  \* the engine's cancellation token
    coord,      \* where the coordinator is
    aborted,    \* abort_all was called
    waiter,     \* where each observer's wait is
    notified    \* its Notified future

vars == <<grace, tasks, finished, trigger, pc, out, cancelled, coord, aborted,
          waiter, notified>>
runVars == <<grace, tasks, finished>>
jobVars == <<pc, out>>
coordVars == <<coord, aborted>>
waitVars == <<waiter, notified>>

TaskState ==
    {"Pending", "Running", "Succeeded", "Failed", "TimedOut", "Cancelled"}
Terminal == TaskState \ {"Pending", "Running"}

Init ==
    /\ grace \in Graces
    /\ tasks = [t \in Task |-> "Pending"]
    /\ finished = FALSE
    /\ trigger = [t \in Task |-> "unresolved"]
    /\ pc = [t \in Task |-> "permit"]
    /\ out = [t \in Task |-> "Pending"]
    /\ cancelled = FALSE
    /\ coord = "loop"
    /\ aborted = FALSE
    /\ waiter = [o \in Observer |-> "loop"]
    /\ notified = [o \in Observer |-> "none"]

\* Nobody is told of a change.
NobodyNotified == UNCHANGED notified

\* notify_waiters wakes every Notified future made before it.
NotifyWaiters ==
    notified' = [o \in Observer |-> IF notified[o] = "waiting" THEN "woken"
                                    ELSE notified[o]]

-----------------------------------------------------------------------------
(* The jobs                                                                *)

\* Jobs that hold a permit, actions that are in flight.
Holders == {t \in Task : pc[t] \notin {"permit", "done"}}
InFlight == {t \in Task : pc[t] \in {"action", "grace"}}

\* A permit that is dropped as soon as it was acquired.
AvailableAlways == TRUE

PermitAvailable == Cardinality(Holders) < MaxConcurrent

AcquirePermit(t) ==
    /\ pc[t] = "permit" /\ PermitAvailable
    /\ pc' = [pc EXCEPT ![t] = "trigger"]
    /\ UNCHANGED <<runVars, trigger, out, cancelled, coordVars, waitVars>>

\* Job t goes to set_state with state s.
SetState(t, s) ==
    /\ pc' = [pc EXCEPT ![t] = "publish"]
    /\ out' = [out EXCEPT ![t] = s]

\* The select between trigger and cancellation, in no order of preference.
Triggered(t) ==
    /\ pc[t] = "trigger"
    /\ \/ trigger[t] = "true" /\ SetState(t, "Running")
       \/ trigger[t] = "false" /\ SetState(t, "Cancelled")
       \/ cancelled /\ SetState(t, "Cancelled")
    /\ UNCHANGED <<runVars, trigger, cancelled, coordVars, waitVars>>

\* The state is not retained.
PublishLost(t) ==
    /\ pc[t] = "publish"
    /\ pc' = [pc EXCEPT ![t] = "notify"]
    /\ UNCHANGED <<runVars, trigger, out, cancelled, coordVars, waitVars>>

Publish(t) ==
    /\ pc[t] = "publish"
    /\ tasks' = [tasks EXCEPT ![t] = out[t]]
    /\ pc' = [pc EXCEPT ![t] = "notify"]
    /\ UNCHANGED <<grace, finished, trigger, out, cancelled, coordVars,
                   waitVars>>

\* After the notification the action is invoked, or the job returns.
Notify(t) ==
    /\ pc[t] = "notify"
    /\ NotifyWaiters
    /\ pc' = [pc EXCEPT ![t] = IF out[t] = "Running" THEN "action" ELSE "done"]
    /\ UNCHANGED <<runVars, trigger, out, cancelled, coordVars, waiter>>

\* The action reports an outcome, or panics, which ends the job as it is.
Finish(t) ==
    /\ pc[t] = "action"
    /\ \/ \E s \in {"Succeeded", "Failed"} : SetState(t, s)
       \/ pc' = [pc EXCEPT ![t] = "done"] /\ UNCHANGED out
    /\ UNCHANGED <<runVars, trigger, cancelled, coordVars, waitVars>>

\* The deadline elapsed: the action is cancelled and may get a grace.
Expire(t) ==
    /\ pc[t] = "action" /\ t \in Deadlines
    /\ \/ ~grace /\ SetState(t, "TimedOut")
       \/ grace /\ pc' = [pc EXCEPT ![t] = "grace"] /\ UNCHANGED out
    /\ UNCHANGED <<runVars, trigger, cancelled, coordVars, waitVars>>

\* The grace of a timed-out action ends, or the action panics in it.
GraceOver(t) ==
    /\ pc[t] = "grace"
    /\ \/ SetState(t, "TimedOut")
       \/ pc' = [pc EXCEPT ![t] = "done"] /\ UNCHANGED out
    /\ UNCHANGED <<runVars, trigger, cancelled, coordVars, waitVars>>

\* The runtime drops an aborted job where it awaits something, be it the state
\* mutex.
Dropped(t) ==
    /\ aborted /\ pc[t] \in {"permit", "trigger", "publish", "action", "grace"}
    /\ pc' = [pc EXCEPT ![t] = "done"]
    /\ UNCHANGED <<runVars, trigger, out, cancelled, coordVars, waitVars>>

-----------------------------------------------------------------------------
(* The coordinator                                                         *)

AllJoined == \A t \in Task : pc[t] = "done"

\* abort_all forgotten when no grace is configured.
AbortAfterGrace == coord' = "aborting" /\ aborted' = grace

\* coord "aborting" is the loop with grace_started set.
AbortAll == coord' = "aborting" /\ aborted' = TRUE

\* The cancellation branch of the select.
OnCancel ==
    /\ coord = "loop" /\ cancelled
    /\ \/ grace /\ coord' = "grace" /\ UNCHANGED aborted
       \/ ~grace /\ AbortAll
    /\ UNCHANGED <<runVars, trigger, jobVars, cancelled, waitVars>>

\* Every job joined within the grace, or the grace is over: abort_all.
OnGrace ==
    /\ coord = "grace"
    /\ AbortAll
    /\ UNCHANGED <<runVars, trigger, jobVars, cancelled, waitVars>>

\* Aborted jobs are not waited for.
LeaveOnceAborted == AllJoined \/ aborted

\* join_next answers None.
JoinedNone == AllJoined

LeaveLoop ==
    /\ coord \in {"loop", "aborting"} /\ JoinedNone
    /\ coord' = "final"
    /\ UNCHANGED <<runVars, trigger, jobVars, cancelled, aborted, waitVars>>

\* Every state marked cancelled, whatever was reported.
AllCancelled == [t \in Task |-> "Cancelled"]

FinalStates ==
    [t \in Task |-> IF tasks[t] \in Terminal THEN tasks[t] ELSE "Cancelled"]

Finalize ==
    /\ coord = "final"
    /\ tasks' = FinalStates
    /\ finished' = TRUE
    /\ coord' = "notify"
    /\ UNCHANGED <<grace, trigger, jobVars, cancelled, aborted, waitVars>>

NotifyFinished ==
    /\ coord = "notify"
    /\ NotifyWaiters
    /\ coord' = "done"
    /\ UNCHANGED <<runVars, trigger, jobVars, cancelled, aborted, waiter>>

-----------------------------------------------------------------------------
(* RunObserver::wait, and the caller                                       *)

\* changed.notified(): from here on a notification is not lost.
Subscribe(o) ==
    /\ waiter[o] = "loop"
    /\ waiter' = [waiter EXCEPT ![o] = "subscribed"]
    /\ notified' = [notified EXCEPT ![o] = "waiting"]
    /\ UNCHANGED <<runVars, trigger, jobVars, cancelled, coordVars>>

\* The snapshot under the state mutex.
Inspect(o) ==
    /\ waiter[o] = "subscribed"
    /\ waiter' = [waiter EXCEPT ![o] = IF finished THEN "returned" ELSE "await"]
    /\ UNCHANGED <<runVars, trigger, jobVars, cancelled, coordVars, notified>>

Woken(o) ==
    /\ waiter[o] = "await" /\ notified[o] = "woken"
    /\ waiter' = [waiter EXCEPT ![o] = "loop"]
    /\ notified' = [notified EXCEPT ![o] = "none"]
    /\ UNCHANGED <<runVars, trigger, jobVars, cancelled, coordVars>>

cancel ==
    /\ ~cancelled
    /\ cancelled' = TRUE
    /\ UNCHANGED <<runVars, trigger, jobVars, coordVars, waitVars>>

\* The outside world resolves a trigger.
Resolve(t) ==
    /\ trigger[t] = "unresolved"
    /\ \E b \in {"true", "false"} : trigger' = [trigger EXCEPT ![t] = b]
    /\ UNCHANGED <<runVars, jobVars, cancelled, coordVars, waitVars>>

JobStep(t) ==
    \/ AcquirePermit(t) \/ Triggered(t) \/ Publish(t) \/ Notify(t) \/ Expire(t)
    \/ GraceOver(t) \/ Dropped(t)

CoordStep == OnCancel \/ OnGrace \/ LeaveLoop \/ Finalize \/ NotifyFinished

WaitStep(o) == Subscribe(o) \/ Inspect(o) \/ Woken(o)

\* The run is over and everybody knows.
Over ==
    /\ coord = "done" /\ \A o \in Observer : waiter[o] = "returned"
    /\ UNCHANGED vars

Next ==
    \/ \E t \in Task : JobStep(t) \/ Finish(t) \/ Resolve(t)
    \/ CoordStep
    \/ \E o \in Observer : WaitStep(o)
    \/ cancel
    \/ Over

Spec == Init /\ [][Next]_vars

\* The runtime polls what is ready and fires its timers; triggers may never
\* resolve and actions may never end.
Fairness ==
    /\ \A t \in Task : WF_vars(JobStep(t))
    /\ WF_vars(CoordStep)
    /\ \A o \in Observer : WF_vars(WaitStep(o))

FairSpec == Spec /\ Fairness

\* Moreover actions do end.
EndingSpec == FairSpec /\ \A t \in Task : WF_vars(Finish(t))

-----------------------------------------------------------------------------
(* The inductive invariant behind the theorems                             *)

\* The coordinator is past its loop exactly when every job was joined; a job
\* whose outcome is published has nothing left to publish; permits are not
\* overdrawn.
RunInv ==
    /\ coord \in {"final", "notify", "done"} => AllJoined
    /\ finished <=> coord \in {"notify", "done"}
    /\ finished => \A t \in Task : tasks[t] \in Terminal
    /\ \A t \in Task :
         /\ pc[t] = "notify" => tasks[t] = out[t]
         /\ pc[t] \notin {"notify", "done"} => tasks[t] \notin Terminal
         /\ pc[t] = "notify" /\ out[t] \notin Terminal => out[t] = "Running"
         /\ pc[t] = "publish" => out[t] # "Pending"
    /\ Cardinality(Holders) <= MaxConcurrent

-----------------------------------------------------------------------------
(* Properties                                                              *)

\* Types; and an action in flight is reported as Running (set_state before the
\* action is polled).
TypeOK ==
    /\ grace \in BOOLEAN
    /\ tasks \in [Task -> TaskState]
    /\ finished \in BOOLEAN
    /\ trigger \in [Task -> {"unresolved", "true", "false"}]
    /\ pc \in [Task -> {"permit", "trigger", "publish", "notify", "action",
                        "grace", "done"}]
    /\ out \in [Task -> TaskState]
    /\ cancelled \in BOOLEAN
    /\ coord \in {"loop", "grace", "aborting", "final", "notify", "done"}
    /\ aborted \in BOOLEAN
    /\ waiter \in [Observer -> {"loop", "subscribed", "await", "returned"}]
    /\ notified \in [Observer -> {"none", "waiting", "woken"}]
    /\ \A t \in InFlight : tasks[t] = "Running"

\* At no time are more actions in flight than the cap allows, from whichever
\* jobs were cancelled, aborted, timed out or in their grace meanwhile (the
\* permit lives as long as the job).
CapRespected == Cardinality(InFlight) <= MaxConcurrent

\* No action is in flight any more once the snapshot says finished, so that the
\* snapshot RunHandle::wait returned is the last one (coordinate joins the jobs
\* it aborted before it publishes the end).
FinishedMeansEnded ==
    finished => AllJoined /\ \A t \in Task : tasks[t] \in Terminal

\* An outcome once reported is never replaced, by the job or by the final sweep
\* over the states.
OutcomesKept ==
    [][\A t \in Task : tasks[t] \in Terminal => tasks'[t] = tasks[t]]_vars

\* A cancelled run ends, although its actions may ignore the cancellation for
\* ever and its triggers may never resolve (abort_all, with or without grace).
CancelFinishes == cancelled ~> finished

\* Nobody waits for ever for a run that has finished (notified() is made before
\* the snapshot is looked at).
WaitReturns == \A o \in Observer : finished ~> (waiter[o] = "returned")

\* What the documentation of with_max_concurrent says, "Bound the number of
\* concurrently running actions": when actions end, an action whose trigger
\* resolved gets its turn whatever the others are still waiting for.
TriggeredActionsStart ==
    \A t \in Task :
      (trigger[t] = "true") ~> (pc[t] \notin {"permit", "trigger"})

=============================================================================
