---------------------------- MODULE GuestCommands ----------------------------
(***************************************************************************)
(* A live VM and the guest processes its host runs: run_direct_process     *)
(* (guest-client/src/direct.rs) over RunningProcess                        *)
(* (guest-client/src/process.rs), the registry of best-effort cleanups     *)
(* (guest-client/src/cleanup.rs), and the ordered shutdown of the VM       *)
(* (jyth-runtime/src/live_vm.rs, jyth-runtime/src/client.rs), on top of    *)
(* the dispatcher and the guest.                                           *)
(*                                                                         *)
(* A process is run once, a file command is one request.  Output routing   *)
(* is reduced to what it can do to a run: end the wait early with an       *)
(* error, and keep the run waiting for the end of an output after it.      *)
(***************************************************************************)
EXTENDS Dispatcher

VARIABLES
    scheduled,  \* the processes run by the scheduler, not by a caller
    runner,     \* what a caller awaits, or how its run ended
    outcome,    \* why the wait of the process ended, once it has a handle
    vm,         \* where LiveVm::shutdown is
    closed      \* CleanupTaskState::closed

runVars == <<scheduled, runner, outcome>>
vmVars == <<vm, closed>>
vars == <<guestVars, mishaps, hostVars, runVars, vmVars>>

Ended == {"finished", "failed"}

Caller == Process \cup File

Awaiting == {"start", "wait", "stop", "close", "file"}

\* The run awaits finish_output_drains, with its handle closed or still open.
Draining == {"drain", "drain_open"}

Init ==
    /\ GuestInit
    /\ HostInit
    /\ scheduled \in SUBSET Process
    /\ runner = [c \in Caller |-> "idle"]
    /\ outcome = [p \in Process |-> "none"]
    /\ vm = "live"
    /\ closed = FALSE

-----------------------------------------------------------------------------
(* Client::request_with_deadline *)

Cleanups == {<<"cleanup", p>> : p \in Process}

\* What the caller can observe of its request.
Observed(r) ==
    {result \in Result :
        \/ reply[r] = result
        \/ result = "timedout" /\ r \in late /\ Lane(r) = "normal"}

\* The caller lets go of the request it awaited, taking it back if its send
\* is still blocked, and submits others.
Submit(requests, over) ==
    /\ sending' = (sending \ {over}) \cup requests
    /\ receiver' = (receiver \ {over}) \cup (requests \ Cleanups)
    /\ reply' = IF over \in Request
                THEN [reply EXCEPT ![over] = "none"] ELSE reply
    /\ late' = IF over \in sending THEN late \ {over} ELSE late

-----------------------------------------------------------------------------
(* run_direct_process *)

\* Drop for RunningProcess: a best-effort ProcessClose, unless the registry
\* is closed.
DropUntracked(p) == {}

DropAnyway(p) == {<<"cleanup", p>>}

DropCleanup(p) == IF closed THEN {} ELSE {<<"cleanup", p>>}

FirstOp(c) == IF c \in Process THEN "start" ELSE "file"

Begin(c) ==
    /\ runner[c] = "idle"
    /\ vm = "live"
    /\ runner' = [runner EXCEPT ![c] = FirstOp(c)]
    /\ Submit({<<FirstOp(c), c>>}, None)
    /\ UNCHANGED <<scheduled, outcome, vmVars>>

Started(p) ==
    /\ runner[p] = "start"
    /\ \E result \in Observed(<<"start", p>>) :
         IF result = "event"
         THEN /\ runner' = [runner EXCEPT ![p] = "wait"]
              /\ outcome' = [outcome EXCEPT ![p] = "running"]
              /\ Submit({<<"wait", p>>}, <<"start", p>>)
         ELSE /\ runner' = [runner EXCEPT ![p] = "failed"]
              /\ Submit({}, <<"start", p>>)
              /\ UNCHANGED outcome
    /\ UNCHANGED <<scheduled, vmVars>>

\* The select of run_direct_process ends the wait, and RunningProcess::close
\* follows.
EndWait(p, why) ==
    /\ runner[p] = "wait"
    /\ outcome' = [outcome EXCEPT ![p] = why]
    /\ runner' = [runner EXCEPT ![p] = "stop"]
    /\ Submit({<<"stop", p>>}, <<"wait", p>>)
    /\ UNCHANGED <<scheduled, vmVars>>

WaitAnswered(p) ==
    \E result \in Observed(<<"wait", p>>) :
        EndWait(p, IF result = "event" THEN "exit" ELSE "other")

\* The timeout, the cancellation or an output error abandons the wait.
Interrupted(p) == EndWait(p, "other") /\ Mishap

FinishUnclosed(p, open) == outcome[p] = "exit"

\* The run finishes when the process exited and was closed.
MayFinish(p, open) == outcome[p] = "exit" /\ ~open

\* run_direct_process returns.  An exit with a failure status or an output
\* that failed fails the run as well; a handle still open is dropped.
Return(p, open, over) ==
    /\ \/ MayFinish(p, open) /\ runner' = [runner EXCEPT ![p] = "finished"]
       \/ runner' = [runner EXCEPT ![p] = "failed"]
    /\ Submit(IF open THEN DropCleanup(p) ELSE {}, over)

\* finish_output_drains: every output has ended, or the run waits for one.
Drain(p, open, over) ==
    \/ Return(p, open, over)
    \/ /\ runner' = [runner EXCEPT ![p] = IF open THEN "drain_open" ELSE "drain"]
       /\ Submit({}, over)

\* RunningProcess::close, first half.
StopAnswered(p) ==
    /\ runner[p] = "stop"
    /\ \E result \in Observed(<<"stop", p>>) :
         IF result = "event"
         THEN /\ runner' = [runner EXCEPT ![p] = "close"]
              /\ Submit({<<"close", p>>}, <<"stop", p>>)
         ELSE Drain(p, TRUE, <<"stop", p>>)
    /\ UNCHANGED <<scheduled, outcome, vmVars>>

\* RunningProcess::close, second half.
CloseAnswered(p) ==
    /\ runner[p] = "close"
    /\ \E result \in Observed(<<"close", p>>) :
         Drain(p, result # "event", <<"close", p>>)
    /\ UNCHANGED <<scheduled, outcome, vmVars>>

\* The last drain returns: its stream ended or broke.  The reads have no
\* deadline.
OutputDrained(p) ==
    /\ runner[p] \in Draining
    /\ Return(p, runner[p] = "drain_open", None)
    /\ UNCHANGED <<scheduled, outcome, vmVars>>

\* GuestFiles: one request, one answer.
FileAnswered(f) ==
    /\ runner[f] = "file"
    /\ \E result \in Observed(<<"file", f>>) :
         runner' = [runner EXCEPT ![f] =
                      IF result = "event" THEN "finished" ELSE "failed"]
    /\ Submit({}, <<"file", f>>)
    /\ UNCHANGED <<scheduled, outcome, vmVars>>

\* The scheduler drops its runs when the VM cancels it, not before.
NeverCancelled(c) == c \notin scheduled

Cancelled(c) == c \in scheduled => vm # "live"

\* The future of the run is dropped: by its owner, or by the scheduler.
Abort(c) ==
    /\ runner[c] \in Awaiting \cup Draining \cup {"idle"}
    /\ Cancelled(c)
    /\ runner' = [runner EXCEPT ![c] = "failed"]
    /\ Submit(IF c \in Process /\ outcome[c] # "none" /\ runner[c] # "drain"
              THEN DropCleanup(c) ELSE {},
              <<runner[c], c>>)
    /\ IF vm = "live" THEN Mishap ELSE UNCHANGED mishaps
    /\ UNCHANGED <<scheduled, outcome, vmVars>>

RunStep(c) ==
    IF c \in Process
    THEN Started(c) \/ WaitAnswered(c) \/ StopAnswered(c) \/ CloseAnswered(c)
    ELSE FileAnswered(c)

-----------------------------------------------------------------------------
(* LiveVm::shutdown and Drop for LiveVm *)

shutdown ==
    /\ vm = "live"
    /\ vm' = "joining"
    /\ UNCHANGED <<closed, hostVars>>

\* cancel_and_join_scheduler returns; close_and_join closes the registry.
SchedulerJoined ==
    /\ vm = "joining"
    /\ \A p \in scheduled : runner[p] \in Ended
    /\ vm' = "closing"
    /\ closed' = TRUE
    /\ UNCHANGED hostVars

CleanupSubmitted == sending \cap Cleanups = {}

CleanupJoined ==
    /\ vm = "closing"
    /\ CleanupSubmitted
    /\ vm' = "requesting"
    /\ Submit({Shutdown}, None)
    /\ UNCHANGED <<closed, running, channel, pending, holding, joinable, loop,
                   cancelled>>

\* Whatever the guest answered, stop_dispatcher cancels the dispatcher.
ShutdownAnswered ==
    /\ vm = "requesting"
    /\ Observed(Shutdown) # {}
    /\ vm' = "stopping"
    /\ Submit({}, Shutdown)
    /\ cancelled' = TRUE
    /\ UNCHANGED <<closed, running, channel, pending, holding, joinable, loop>>

ShutdownStep == SchedulerJoined \/ CleanupJoined \/ ShutdownAnswered

\* The dispatcher is joined and the backend instance closed.
Closed ==
    /\ vm = "stopping"
    /\ loop = "stopped"
    /\ vm' = "closed"
    /\ Vanish
    /\ UNCHANGED <<mishaps, hostVars, runVars, closed>>

\* abort_all: the cleanup tasks of the registry.  While close_and_join runs it
\* has taken them, and dropping it lets them go on.
Aborted == IF vm = "closing" THEN {} ELSE Cleanups

\* The VM, or the future of its shutdown, is dropped: abort_all, then the
\* synchronous cleanup of the instance.
Drop ==
    /\ vm \notin {"closed", "dropped"}
    /\ vm' = "dropped"
    /\ Mishap
    /\ closed' = TRUE
    /\ sending' = sending \ (Aborted \cup {Shutdown})
    /\ receiver' = receiver \ {Shutdown}
    /\ late' = late \ (sending \ sending')
    /\ reply' = [reply EXCEPT ![Shutdown] = "none"]
    /\ cancelled' = TRUE
    /\ Vanish
    /\ UNCHANGED <<running, channel, pending, holding, joinable, loop,
                   runVars>>

\* task.abort drops the dispatcher wherever it is.
DispatcherAborted ==
    /\ vm = "dropped"
    /\ loop # "stopped"
    /\ DropDispatcher
    /\ UNCHANGED <<mishaps, runVars, vmVars>>

-----------------------------------------------------------------------------
(* Composition *)

\* A step of a run or of the shutdown that only submits requests.
Submits ==
    UNCHANGED <<guestVars, running, channel, pending, holding, joinable, loop,
                cancelled>>

RunChoice(c) ==
    \/ (Begin(c) \/ RunStep(c)) /\ UNCHANGED mishaps
    \/ c \in Process /\ OutputDrained(c) /\ UNCHANGED mishaps
    \/ c \in Process /\ Interrupted(c)
    \/ Abort(c)

Run == \E c \in Caller : RunChoice(c) /\ Submits

VmStep ==
    \/ (shutdown \/ ShutdownStep) /\ UNCHANGED <<guestVars, mishaps, runVars>>
    \/ Closed
    \/ Drop
    \/ DispatcherAborted

HostStep ==
    /\ \/ LoopStep /\ UNCHANGED mishaps
       \/ \E r \in Request :
            \/ (SendStep(r) \/ TaskStep(r)) /\ UNCHANGED mishaps
            \/ Expire(r)
    /\ UNCHANGED <<runVars, vmVars>>

GuestStep == GuestNext /\ UNCHANGED <<hostVars, runVars, vmVars>>

\* Nothing is left to do once the VM is gone and every run has ended.
Over ==
    /\ vm \in {"closed", "dropped"}
    /\ loop = "stopped"
    /\ sending = {}
    /\ \A c \in Caller : runner[c] \in Ended \cup {"idle"}
    /\ UNCHANGED vars

Next == Run \/ VmStep \/ HostStep \/ GuestStep \/ Over

Spec == Init /\ [][Next]_vars

\* A process whose token is cancelled is killed and reaped.
Killed(p) == (p \in stop \/ guest = "cancelled") /\ Record(p)

\* The tasks of the host and, unless it is mute, those of the guest are polled,
\* deadlines pass, a cancelled token stops its process, and the scheduler the
\* VM has cancelled drops its runs.  Nothing makes a process exit by itself or
\* an output end, and nobody has to begin, interrupt, shut down or drop
\* anything.  No behaviour repeats a state, so it is enough that somebody who
\* can go on does.
Progress ==
    \/ HostStep
    \/ /\ \/ \E r \in Request : Accept(r) \/ GiveUp(r) \/ Handle(r)
          \/ \E p \in Process : Killed(p) \/ NotifyWaiters(p)
          \/ guest = "cancelled" /\ Down
       /\ UNCHANGED <<hostVars, runVars, vmVars>>
    \/ ShutdownStep /\ UNCHANGED <<guestVars, mishaps, runVars>>
    \/ Closed
    \/ DispatcherAborted
    \/ /\ \E c \in Caller :
            \/ RunStep(c) /\ UNCHANGED mishaps
            \/ c \in scheduled /\ vm # "live" /\ Abort(c)
       /\ Submits

Fairness == WF_vars(Progress)

FairSpec == Spec /\ Fairness

-----------------------------------------------------------------------------
(* Properties *)

\* Types; and a permit is held only by a request whose task is running, and the
\* channel never exceeds its capacity (execute_request, mpsc::channel).
TypeOK ==
    /\ GuestTypeOK
    /\ HostTypeOK
    /\ scheduled \subseteq Process
    /\ runner \in [Caller -> Awaiting \cup Draining \cup Ended \cup {"idle"}]
    /\ outcome \in [Process -> {"none", "running", "exit", "other"}]
    /\ vm \in {"live", "joining", "closing", "requesting", "stopping",
               "closed", "dropped"}
    /\ closed \in BOOLEAN

\* No request is lost: while a caller awaits an answer that has not come, its
\* request is in the hands of a sender, the channel, the queue or a task of
\* the dispatcher.  Every early return of the dispatcher has to keep this.
NoRequestLost ==
    \A r \in receiver : reply[r] = "none" => r \in Outstanding

\* The permit lanes bound what is in flight: ordinary requests and process
\* waits each by the permits of their own lane; only VMShutdown may exceed it.
LanesRespected ==
    \A lane \in {"normal", "wait"} :
        Cardinality({r \in running : Lane(r) = lane /\ r # Shutdown})
            <= LanePermits(lane)

\* A run that is reported as finished is really over: its process exited and
\* the guest has forgotten it, whatever timed out or was retried before.
FinishedMeansGone ==
    \A p \in Process :
        runner[p] = "finished" =>
            /\ p \notin table
            /\ process[p] = "exited" \/ guest = "down"

\* The ordered shutdown asks the guest to stop only after every cleanup that
\* the registry accepted has been handed to the dispatcher: none is still
\* blocked, and none can enter the channel behind VMShutdown.
CleanupBeforeShutdown ==
    vm \in {"requesting", "stopping", "closed"} => sending \cap Cleanups = {}

\* Nothing stays in the guest: a process whose run has ended, with whatever
\* result, is forgotten by the guest, provided not more than one thing went
\* wrong, the guest is not mute and it has a permit left for the cleanup.  (A
\* run without a handle, whose start was abandoned, gives no such promise.)
ProcessesReclaimed ==
    \A p \in Process :
        (runner[p] \in Ended /\ outcome[p] # "none")
            ~> (p \notin table \/ mishaps > 1 \/ guest = "mute")

\* The run of the caller is over, or has not begun; or, of a run that does not
\* belong to the scheduler, only the end of an output is still to come.
LetsGo(c) ==
    \/ runner[c] \in Ended \cup {"idle"}
    \/ runner[c] \in Draining /\ c \notin scheduled

\* A VM that begins to shut down, or is dropped, comes to its end even when
\* the guest answers nothing any more, and takes every caller along: the runs
\* of the scheduler end, and no other run still awaits an answer, although
\* ProcessWait has no deadline of its own.  Nothing bounds the drain of an
\* output, so a caller may be left in that.
ShutdownCompletes ==
    vm # "live" ~> /\ vm \in {"closed", "dropped"}
                   /\ \A c \in Caller : LetsGo(c)

\* No wakeup is lost, however the steps of the reaper fall between the
\* notified() of a handler, its look at the status and its await: a handler
\* that goes to sleep without having seen the status of a process which has
\* ended is woken, and so gives its admission permit back (Completion::wait,
\* Completion::record).
NoWakeupLost ==
    \A r \in Request :
        conn[r] \in {"unseen", "asleep"} /\ Recorded(r[2]) => r \in woken

\* Process waits "cannot starve normal command traffic": the guest refuses an
\* ordinary command only while it serves an ordinary command.
WaitsNeverStarve ==
    [][\A r \in Request :
          (/\ Lane(r) = "normal"
           /\ conn[r] = "dialed" /\ conn'[r] = "refused")
              => \E h \in Handlers : Lane(h) = "normal"]_vars
=============================================================================
