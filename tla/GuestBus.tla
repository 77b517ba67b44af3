------------------------------ MODULE GuestBus ------------------------------
(***************************************************************************)
(* The guest end of the command bus: PID 1 of the VM.  Its dispatcher      *)
(* (init/src/bus/dispatch.rs) accepts one connection per command, admits   *)
(* it against a fixed number of permits, authenticates it, reads one       *)
(* command, executes it against the process manager                        *)
(* (init/src/components/process_manager.rs) and writes one reply.          *)
(*                                                                         *)
(* A request is a pair of an operation and what it is about.  "close" and  *)
(* "cleanup" are the same command, ProcessClose, sent by                   *)
(* RunningProcess::close and by its Drop.  "file" stands for the file and  *)
(* directory commands and Ping, which change nothing a command can see.    *)
(***************************************************************************)
EXTENDS Naturals, FiniteSets

CONSTANTS
    Process,              \* the processes the host may start, by uuid
    File,                 \* the file commands of other callers
    None,                 \* what VMShutdown is about
    MaxGuestConnections,  \* MAX_GUEST_CONNECTIONS
    MaxMishaps            \* bound: how often something goes wrong

ASSUME GuestAssumption ==
    /\ None \notin Process \cup File
    /\ Process \cap File = {}
    /\ MaxGuestConnections \in Nat \ {0}
    /\ MaxMishaps \in Nat

VARIABLES
    running,  \* the connections whose host end is open: the request tasks
    conn,     \* the connection of each request, see Connection
    process,  \* the child of each process and what its reaper has stored of it
    table,    \* ProcessManager::inner, the processes a command can name
    stop,     \* the processes whose stop token is cancelled
    woken,    \* the handlers whose notified() notify_waiters has reached
    guest,    \* "up", "cancelled" (VMShutdown executed), "mute" or "down"
    mishaps   \* how often something has gone wrong so far

guestVars == <<conn, process, table, stop, woken, guest>>

Op == {"start", "wait", "stop", "close", "cleanup"}

Shutdown == <<"shutdown", None>>

Request == (Op \X Process) \cup ({"file"} \X File) \cup {Shutdown}

\* "dialed": in the accept backlog; "admitted": a handler authenticates it;
\* "sent": the command is on the wire; "looking": its handler has enabled its
\* notified() and is to look at the status; "unseen": it has seen none and is
\* to await; "asleep": it awaits; "event", "error": replied; "refused": closed
\* unanswered.
Connection ==
    {"none", "dialed", "admitted", "sent", "looking", "unseen", "asleep",
     "event", "error", "refused"}

\* "exited": the exit status is stored; "lost": an error is, because the
\* reaper could not learn it.  While it stores either ("exiting", "losing")
\* the reaper holds the lock of the status.
Child == {"none", "running", "exiting", "losing", "exited", "lost"}

GuestInit ==
    /\ running = {}
    /\ conn = [r \in Request |-> "none"]
    /\ process = [p \in Process |-> "none"]
    /\ table = {}
    /\ stop = {}
    /\ woken = {}
    /\ guest = "up"
    /\ mishaps = 0

\* Something goes wrong that neither the code nor a command asks for.
Mishap ==
    /\ mishaps < MaxMishaps
    /\ mishaps' = mishaps + 1

\* The connections that retain a handler, and with it an admission permit.
Served == {"admitted", "sent", "looking", "unseen", "asleep"}

Handlers == {r \in Request : conn[r] \in Served}

\* The handler leaves its connection in the given state, which nobody sees
\* once it has no handler and the host has hung up.
Leave(r, state) ==
    conn' = [conn EXCEPT ![r] =
               IF r \in running \/ state \in Served THEN state ELSE "none"]

\* The guest runs.  A mute one is up and does nothing more: no handler, no
\* reaper and no accept loop of it takes a step.
Works == guest \in {"up", "cancelled"}

Admits == Cardinality(Handlers) < MaxGuestConnections

\* The accept loop never waits for a permit: a connection beyond the bound is
\* shut down at once.
Accept(r) ==
    /\ guest = "up"
    /\ conn[r] = "dialed"
    /\ Leave(r, IF Admits THEN "admitted" ELSE "refused")
    /\ UNCHANGED <<process, table, stop, woken, guest, mishaps>>

\* Authentication or the first frame fails: its deadline passes, or the host
\* has hung up.
GiveUp(r) ==
    /\ Works
    /\ conn[r] = "admitted"
    /\ Leave(r, "refused")
    /\ IF r \in running THEN Mishap ELSE UNCHANGED mishaps
    /\ UNCHANGED <<process, table, stop, woken, guest>>

Reads(r, op) ==
    /\ Works
    /\ conn[r] = "sent"
    /\ r[1] = op

\* ProcessManager::spawn: the child, its table entry and its reaper, or an
\* error and none of them.
ProcessStart(r) ==
    /\ Reads(r, "start")
    /\ \/ /\ process' = [process EXCEPT ![r[2]] = "running"]
          /\ table' = table \cup {r[2]}
          /\ Leave(r, "event")
          /\ UNCHANGED mishaps
       \/ /\ Leave(r, "error")
          /\ Mishap
          /\ UNCHANGED <<process, table>>
    /\ UNCHANGED <<stop, woken, guest>>

\* The reply a recorded completion turns into.
ExitReply(p) == IF process[p] = "lost" THEN "error" ELSE "event"

Recorded(p) == process[p] \in {"exited", "lost"}

\* The reaper is inside record, between storing the status and releasing it.
Recording(p) == process[p] \in {"exiting", "losing"}

\* Completion::wait enables its notified() before it looks at the status.
AwaitExit(r) == Leave(r, "looking")

ProcessWait(r) ==
    /\ Reads(r, "wait")
    /\ IF r[2] \in table THEN AwaitExit(r) ELSE Leave(r, "error")
    /\ UNCHANGED <<process, table, stop, woken, guest, mishaps>>

\* ProcessManager::kill cancels the stop token, then waits like ProcessWait.
ProcessStop(r) ==
    /\ Reads(r, "stop")
    /\ IF r[2] \in table
       THEN stop' = stop \cup {r[2]} /\ AwaitExit(r)
       ELSE Leave(r, "error") /\ UNCHANGED stop
    /\ UNCHANGED <<process, table, woken, guest, mishaps>>

\* The look at the status, under its lock: a status is the reply.
Look(r) ==
    /\ Works
    /\ conn[r] = "looking"
    /\ ~Recording(r[2])
    /\ IF Recorded(r[2])
       THEN Leave(r, ExitReply(r[2])) /\ woken' = woken \ {r}
       ELSE Leave(r, "unseen") /\ UNCHANGED woken
    /\ UNCHANGED <<process, table, stop, guest, mishaps>>

\* Without a status the handler awaits its notified(), which returns at once
\* when notify_waiters has reached it meanwhile.
Sleep(r) ==
    /\ Works
    /\ conn[r] = "unseen"
    /\ Leave(r, "asleep")
    /\ UNCHANGED <<process, table, stop, woken, guest, mishaps>>

\* The notified() returns.  The loop goes round: a new notified(), a new look.
Wake(r) ==
    /\ Works
    /\ conn[r] = "asleep"
    /\ r \in woken
    /\ woken' = woken \ {r}
    /\ AwaitExit(r)
    /\ UNCHANGED <<process, table, stop, guest, mishaps>>

\* ProcessManager::close forgets the process and stops it, without waiting.
Closing(r) == Reads(r, "close") \/ Reads(r, "cleanup")

ProcessClose(r) ==
    /\ Closing(r)
    /\ Leave(r, IF r[2] \in table THEN "event" ELSE "error")
    /\ stop' = stop \cup ({r[2]} \cap table)
    /\ table' = table \ {r[2]}
    /\ UNCHANGED <<process, woken, guest, mishaps>>

FileCommand(r) ==
    /\ Reads(r, "file")
    /\ \/ Leave(r, "event") /\ UNCHANGED mishaps
       \/ Leave(r, "error") /\ Mishap
    /\ UNCHANGED <<process, table, stop, woken, guest>>

\* VMShutdown replies first and cancels the bus afterwards.
VMShutdown(r) ==
    /\ Reads(r, "shutdown")
    /\ Leave(r, "event")
    /\ guest' = "cancelled"
    /\ UNCHANGED <<process, table, stop, woken, mishaps>>

\* A child ends by itself, or because its token (or the parent token of the
\* bus) is cancelled.  Its reaper enters record and stores the status.
Record(p) ==
    /\ Works
    /\ process[p] = "running"
    /\ \/ process' = [process EXCEPT ![p] = "exiting"] /\ UNCHANGED mishaps
       \/ process' = [process EXCEPT ![p] = "losing"] /\ Mishap
    /\ UNCHANGED <<conn, table, stop, woken, guest>>

\* A notified() that is registered only by awaiting it.
NotifyAwaiting(p) == {r \in Request : r[2] = p /\ conn[r] = "asleep"}

\* notify_waiters reaches every notified() that is enabled.
Notified(p) ==
    {r \in Request : r[2] = p /\ conn[r] \in {"looking", "unseen", "asleep"}}

\* record notifies and releases the lock.
NotifyWaiters(p) ==
    /\ Works
    /\ Recording(p)
    /\ process' = [process EXCEPT ![p] = IF @ = "losing" THEN "lost" ELSE "exited"]
    /\ woken' = woken \cup Notified(p)
    /\ UNCHANGED <<conn, table, stop, guest, mishaps>>

\* Of a guest that is gone only the bytes on the wire remain.
Vanish ==
    /\ guest' = "down"
    /\ conn' = [r \in Request |->
                  IF conn[r] \in Served \cup {"dialed"} THEN "none" ELSE conn[r]]
    /\ process' = [p \in Process |-> "none"]
    /\ table' = {}
    /\ stop' = {}
    /\ woken' = {}

\* run_bus returns and PID 1 exits; or the VM dies.
Down ==
    /\ \/ guest = "cancelled" /\ UNCHANGED mishaps
       \/ guest \in {"up", "mute"} /\ Mishap
    /\ Vanish

\* The guest hangs.  Its connections stay open.
FallMute ==
    /\ Works
    /\ guest' = "mute"
    /\ Mishap
    /\ UNCHANGED <<conn, process, table, stop, woken>>

Handle(r) ==
    \/ ProcessStart(r)
    \/ ProcessWait(r)
    \/ ProcessStop(r)
    \/ ProcessClose(r)
    \/ FileCommand(r)
    \/ VMShutdown(r)
    \/ Look(r)
    \/ Sleep(r)
    \/ Wake(r)

GuestNext ==
    \/ \E r \in Request : Accept(r) \/ GiveUp(r) \/ Handle(r)
    \/ \E p \in Process : Record(p) \/ NotifyWaiters(p)
    \/ Down
    \/ FallMute

GuestTypeOK ==
    /\ running \subseteq Request
    /\ conn \in [Request -> Connection]
    /\ process \in [Process -> Child]
    /\ table \subseteq Process
    /\ stop \subseteq Process
    /\ woken \subseteq Request
    /\ guest \in {"up", "cancelled", "mute", "down"}
    /\ mishaps \in 0 .. MaxMishaps
=============================================================================
