----------------------------- MODULE Dispatcher -----------------------------
(***************************************************************************)
(* The host end of the command bus: the request queue of a VM              *)
(* (guest-client/src/transport.rs), the client that submits to it          *)
(* (guest-client/src/client.rs) and the connection each started request    *)
(* travels on (com/src/rpc.rs).  The guest is the module it extends.       *)
(*                                                                         *)
(* Time is the set `late` of the requests whose deadline has passed.  A    *)
(* ProcessWait has no request deadline: it becomes late when the reply     *)
(* deadline of its connection passes.                                      *)
(***************************************************************************)
EXTENDS GuestBus, Sequences

CONSTANTS
    Permits,      \* MAX_IN_FLIGHT_HOST_REQUESTS
    WaitPermits,  \* MAX_IN_FLIGHT_PROCESS_WAITS
    Capacity      \* the bound of the mpsc channel

ASSUME DispatcherAssumption ==
    /\ Permits \in Nat \ {0}
    /\ WaitPermits \in Nat \ {0}
    /\ Capacity \in Nat \ {0}

VARIABLES
    sending,    \* the requests whose sender is blocked in cmd_tx.send
    channel,    \* the mpsc channel
    pending,    \* Dispatcher::pending
    holding,    \* the running requests that hold a permit of their lane
    joinable,   \* whether join_next has a task that finished while requests
                \* were pending
    receiver,   \* the requests whose client still awaits the answer
    reply,      \* what the oneshot of each request carries
    late,       \* the requests whose deadline has passed
    loop,       \* Dispatcher::run: "run", "stopping" or "stopped"
    cancelled   \* the cancellation token of the dispatcher

hostVars ==
    <<running, sending, channel, pending, holding, joinable, receiver, reply,
      late, loop, cancelled>>

\* "shutdown" also stands for a oneshot whose sender was dropped.
Result == {"event", "error", "transport", "timedout", "shutdown"}

HostInit ==
    /\ sending = {}
    /\ channel = <<>>
    /\ pending = <<>>
    /\ holding = {}
    /\ joinable = FALSE
    /\ receiver = {}
    /\ reply = [r \in Request |-> "none"]
    /\ late = {}
    /\ loop = "run"
    /\ cancelled = FALSE

InQueue(q) == {q[i] : i \in DOMAIN q}

\* Every place a request that nobody has answered can be.
Outstanding == sending \cup InQueue(channel) \cup InQueue(pending) \cup running

-----------------------------------------------------------------------------
(* Permit lanes *)

Lane(r) == IF r[1] = "wait" THEN "wait" ELSE "normal"

LanePermits(lane) == IF lane = "wait" THEN WaitPermits ELSE Permits

AvailablePermits(lane) ==
    LanePermits(lane) - Cardinality({r \in holding : Lane(r) = lane})

AnyPermit(q, i) == AvailablePermits(Lane(q[i])) > 0

\* The permits of its lane reach the i-th request of the queue, when every
\* earlier request of the lane takes one.
PermitFor(q, i) ==
    Cardinality({j \in 1 .. i - 1 : Lane(q[j]) = Lane(q[i])})
        < AvailablePermits(Lane(q[i]))

\* next_start_index: VMShutdown may start without a permit.
MayStart(q, i) == PermitFor(q, i) \/ q[i] = Shutdown

\* reply.send, or the drop of the sender; nobody hears it when the receiver
\* is gone.  The deadline of an answered request no longer matters.
Answer(requests, result) ==
    /\ reply' = [r \in Request |->
                   IF r \in requests \cap receiver THEN result ELSE reply[r]]
    /\ late' = late \ requests

\* The host end of these connections closes; an unread reply is lost, and a
\* guest handler at work is not told.
HangUp(requests) ==
    conn' = [r \in Request |->
               IF r \in requests /\ conn[r] \in {"event", "error", "refused"}
               THEN "none" ELSE conn[r]]

\* How many of the first i requests of the queue are in the set.
Rank(q, keep, i) == Cardinality({j \in 1 .. i : q[j] \in keep})

\* The queue without the requests outside the set, in its order.
Retain(q, keep) ==
    [k \in 1 .. Rank(q, keep, Len(q)) |->
        q[CHOOSE i \in 1 .. Len(q) : q[i] \in keep /\ Rank(q, keep, i) = k]]

\* The synchronous pass at the head of every iteration: expire_pending, then
\* start every request that a permit allows, each on a new connection.  A
\* permit released meanwhile counts as released before or after the pass.
start_ready(queue) ==
    LET live == Retain(queue, Request \ late)
        started == {live[i] : i \in {i \in DOMAIN live : MayStart(live, i)}}
        permits == {live[i] : i \in {i \in DOMAIN live : PermitFor(live, i)}}
    IN  /\ Answer(InQueue(queue) \cap late, "timedout")
        /\ pending' = Retain(live, Request \ started)
        /\ running' = running \cup started
        /\ holding' = holding \cup permits
        /\ conn' = [r \in Request |->
                      IF r \in started THEN "dialed" ELSE conn[r]]
        /\ UNCHANGED <<process, table, stop, woken, guest, receiver, loop,
                       cancelled>>

-----------------------------------------------------------------------------
(* The client side of the channel *)

Send(r) ==
    /\ r \in sending
    /\ loop # "stopped"
    /\ Len(channel) < Capacity
    /\ sending' = sending \ {r}
    /\ channel' = Append(channel, r)
    /\ UNCHANGED <<guestVars, running, pending, holding, joinable, receiver,
                   reply, late, loop, cancelled>>

\* The receiver is gone: send returns an error.
SendFails(r) ==
    /\ r \in sending
    /\ loop = "stopped"
    /\ sending' = sending \ {r}
    /\ Answer({r}, "shutdown")
    /\ UNCHANGED <<guestVars, running, channel, pending, holding, joinable,
                   receiver, loop, cancelled>>

-----------------------------------------------------------------------------
(* Dispatcher::run: one iteration of the biased select per action *)

Recv ==
    /\ loop = "run" /\ ~cancelled
    /\ channel # <<>>
    /\ channel' = Tail(channel)
    /\ start_ready(Append(pending, Head(channel)))
    /\ UNCHANGED <<sending, joinable>>

Join ==
    /\ loop = "run" /\ ~cancelled
    /\ channel = <<>>
    /\ joinable
    /\ joinable' = FALSE
    /\ start_ready(pending)
    /\ UNCHANGED <<sending, channel>>

ExpirePending ==
    /\ loop = "run" /\ ~cancelled
    /\ channel = <<>>
    /\ ~joinable
    /\ InQueue(pending) \cap late # {}
    /\ start_ready(pending)
    /\ UNCHANGED <<sending, channel, joinable>>

\* The loop breaks; stop answers the queue.
Stop ==
    /\ loop = "run" /\ cancelled
    /\ loop' = "stopping"
    /\ Answer(InQueue(pending), "shutdown")
    /\ pending' = <<>>
    /\ UNCHANGED <<guestVars, running, sending, channel, holding, joinable,
                   receiver, cancelled>>

ForgetChannel == running \cup InQueue(pending)

\* Everything the dispatcher owns when it is dropped loses its reply sender.
Owned == running \cup InQueue(pending) \cup InQueue(channel)

DropDispatcher ==
    /\ loop' = "stopped"
    /\ Answer(Owned, "shutdown")
    /\ channel' = <<>>
    /\ pending' = <<>>
    /\ running' = {}
    /\ holding' = {}
    /\ joinable' = FALSE
    /\ HangUp(running)
    /\ UNCHANGED <<process, table, stop, woken, guest, sending, receiver,
                   cancelled>>

\* tasks.shutdown aborts and joins the request tasks; then run returns.
Stopped == loop = "stopping" /\ DropDispatcher

-----------------------------------------------------------------------------
(* A request task: execute_request over TcpEndpoint::command_async *)

\* The host answers the challenge of the guest and writes the command.
SendCommand(r) ==
    /\ r \in running
    /\ conn[r] = "admitted"
    /\ conn' = [conn EXCEPT ![r] = "sent"]
    /\ UNCHANGED <<process, table, stop, woken, guest, hostVars>>

\* What the task can report: the reply, a closed connection, or its deadline.
TaskResult(r) ==
    {result \in Result :
        \/ result = conn[r] /\ conn[r] \in {"event", "error"}
        \/ result = "transport" /\ (conn[r] = "refused" \/ guest = "down")
        \/ result = "transport" /\ r \in late /\ Lane(r) = "wait"
        \/ result = "timedout" /\ r \in late /\ Lane(r) = "normal"}

PermitReleased(r) == holding \ {r}

\* The task replies, releases its permit and ends with its connection.  The
\* iteration that joins it starts nothing when nothing was pending: a request
\* that comes later finds the permit in the iteration that receives it.
Finish(r) ==
    /\ r \in running
    /\ \E result \in TaskResult(r) : Answer({r}, result)
    /\ running' = running \ {r}
    /\ holding' = PermitReleased(r)
    /\ joinable' = (joinable \/ pending # <<>>)
    /\ HangUp({r})
    /\ UNCHANGED <<process, table, stop, woken, guest, sending, channel,
                   pending, receiver, loop, cancelled>>

\* Time passes.  An answer in time, or a connection that breaks, is the rule,
\* unless the guest is mute: nothing but its deadline then ends a request.
Expire(r) ==
    /\ r \in IF Lane(r) = "wait" THEN running ELSE Outstanding
    /\ r \notin late
    /\ late' = late \cup {r}
    /\ IF guest = "mute" THEN UNCHANGED mishaps ELSE Mishap
    /\ UNCHANGED <<guestVars, running, sending, channel, pending, holding,
                   joinable, receiver, reply, loop, cancelled>>

LoopStep == Recv \/ Join \/ ExpirePending \/ Stop \/ Stopped

TaskStep(r) == SendCommand(r) \/ Finish(r)

SendStep(r) == Send(r) \/ SendFails(r)

HostTypeOK ==
    /\ sending \subseteq Request
    /\ channel \in Seq(Request) /\ Len(channel) <= Capacity
    /\ pending \in Seq(Request)
    /\ holding \subseteq running
    /\ joinable \in BOOLEAN
    /\ receiver \subseteq Request
    /\ reply \in [Request -> Result \cup {"none"}]
    /\ late \subseteq Request
    /\ loop \in {"run", "stopping", "stopped"}
    /\ cancelled \in BOOLEAN
=============================================================================
