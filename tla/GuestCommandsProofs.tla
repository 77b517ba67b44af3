-------------------------- MODULE GuestCommandsProofs --------------------------
(***************************************************************************)
(* The commands of a VM, for any processes, files, permits and capacities  *)
(* and any number of mishaps.  Four invariants:                            *)
(*                                                                         *)
(*   PlaceInv  where a request is that nobody has answered;                *)
(*   PermitInv who holds a permit of the dispatcher;                       *)
(*   OrderInv  the registry of cleanups is closed before the VM asks the   *)
(*             guest to shut down;                                         *)
(*   GoneInv   what the guest has executed of a process, against what its  *)
(*             run has been told.  A run is told "exited" and "closed" in  *)
(*             answers to two requests; that both stay true needs that the *)
(*             start of the process is never executed a second time, and   *)
(*             so that it is in one place only.                            *)
(***************************************************************************)
EXTENDS GuestCommands, TLAPS

PlaceInv ==
    /\ sending \subseteq Request /\ running \subseteq Request
    /\ receiver \subseteq Request /\ receiver \cap Cleanups = {}
    /\ channel \in Seq(Request) /\ pending \in Seq(Request)
    /\ reply \in [Request -> Result \cup {"none"}]
    /\ NoRequestLost

InLane(requests, lane) == {r \in requests : Lane(r) = lane}

PermitInv ==
    /\ IsFiniteSet(holding)
    /\ running \subseteq Request
    /\ holding \subseteq running
    /\ running \ {Shutdown} \subseteq holding
    /\ \A lane \in {"normal", "wait"} :
          Cardinality(InLane(holding, lane)) <= LanePermits(lane)

OrderInv ==
    /\ vm \notin {"live", "joining"} => closed = TRUE
    /\ CleanupBeforeShutdown

\* The request is in the queue at most once.
Once(q, r) == \A i, j \in 1 .. Len(q) : q[i] = r /\ q[j] = r => i = j

Queued(r) == r \in sending \/ r \in InQueue(channel) \/ r \in InQueue(pending)

\* The start of a process is in one place, and is executed once.
StartInv(p) ==
    LET r == <<"start", p>> IN
    /\ Once(channel, r) /\ Once(pending, r)
    /\ r \in sending => r \notin InQueue(channel) /\ r \notin InQueue(pending)
    /\ r \in InQueue(channel) => r \notin InQueue(pending)
    /\ r \in running \/ conn[r] # "none" \/ process[p] # "none" => ~Queued(r)
    /\ process[p] # "none" => conn[r] \notin {"dialed", "admitted", "sent"}
    /\ runner[p] = "idle" =>
          ~Queued(r) /\ r \notin running /\ conn[r] = "none" /\ process[p] = "none"

\* The guest has answered that the process exited; that it is closed.
ToldExited(p) ==
    conn[<<"wait", p>>] = "event" \/ reply[<<"wait", p>>] = "event" \/ outcome[p] = "exit"

ToldClosed(p) ==
    \/ conn[<<"close", p>>] = "event" \/ reply[<<"close", p>>] = "event"
    \/ runner[p] \in {"finished", "drain"}

\* The answers of the guest are true, and stay true.
ExitInv(p) ==
    /\ ToldExited(p) => process[p] = "exited" \/ guest = "down"
    /\ ToldClosed(p) => p \notin table /\ (process[p] # "none" \/ guest = "down")
    /\ runner[p] = "finished" => outcome[p] = "exit"
    /\ p \in table => process[p] # "none"

\* The handler is in Completion::wait.
Waits(state) == state \in {"looking", "unseen", "asleep"}

\* Only those who await an exit wait for it, and none of them is forgotten.
SleepInv ==
    /\ \A r \in Request : Waits(conn[r]) => r[1] \in {"wait", "stop"}
    /\ NoWakeupLost

GoneInv ==
    /\ SleepInv
    /\ guest = "down" => table = {}
    /\ \A p \in Process : StartInv(p) /\ ExitInv(p)

-----------------------------------------------------------------------------
(* Where requests are *)

\* What one pass of start_ready does to the queue it is given.
Passed(queue, started) ==
    /\ started \subseteq InQueue(queue)
    /\ running' = running \cup started
    /\ pending' \in Seq(Request)
    /\ InQueue(pending') = (InQueue(queue) \ late) \ started
    /\ \A r : Once(queue, r) => Once(pending', r)
    /\ conn' = [r \in Request |-> IF r \in started THEN "dialed" ELSE conn[r]]
    /\ Answer(InQueue(queue) \cap late, "timedout")
    /\ UNCHANGED <<process, table, stop, woken, guest, receiver, loop, cancelled>>

\* What is shown below of every pass (lemma Pass), and used before.
Passes ==
    \A queue \in Seq(Request) :
        start_ready(queue) => \E started \in SUBSET Request : Passed(queue, started)

\* Appending a request adds it, and nothing else.
LEMMA AppendFacts ==
    ASSUME NEW q \in Seq(Request), NEW x \in Request
    PROVE  /\ Append(q, x) \in Seq(Request)
           /\ InQueue(Append(q, x)) = InQueue(q) \cup {x}
           /\ \A r : Once(q, r) /\ (r = x => r \notin InQueue(q)) => Once(Append(q, x), r)
<1> DEFINE a == Append(q, x)
<1>1. /\ a \in Seq(Request) /\ Len(a) = Len(q) + 1 /\ Len(q) \in Nat /\ a[Len(q) + 1] = x
      /\ \A i \in 1 .. Len(q) : a[i] = q[i]
    OBVIOUS
<1> HIDE DEF a
<1>2. DOMAIN a = 1 .. Len(a) /\ DOMAIN q = 1 .. Len(q)
    BY <1>1
<1>3. ASSUME NEW y PROVE y \in InQueue(a) <=> y \in InQueue(q) \/ y = x
    <2>1. y \in InQueue(a) <=> \E i \in 1 .. Len(q) + 1 : y = a[i]
        BY <1>1, <1>2 DEF InQueue
    <2>2. y \in InQueue(q) <=> \E i \in 1 .. Len(q) : y = q[i]
        BY <1>2 DEF InQueue
    <2> QED BY <2>1, <2>2, <1>1
<1>4. ASSUME NEW r, Once(q, r), r = x => r \notin InQueue(q) PROVE Once(a, r)
    <2>1. \A i \in 1 .. Len(q) : q[i] \in InQueue(q)
        BY <1>2 DEF InQueue
    <2> QED BY <1>1, <1>4, <2>1 DEF Once
<1> QED BY <1>1, <1>3, <1>4 DEF a

\* Taking the head leaves the rest, in its order.
LEMMA TailFacts ==
    ASSUME NEW q \in Seq(Request), q # <<>>
    PROVE  /\ Tail(q) \in Seq(Request) /\ Head(q) \in Request
           /\ InQueue(q) = {Head(q)} \cup InQueue(Tail(q))
           /\ \A r : Once(q, r) => Once(Tail(q), r) /\ (r = Head(q) => r \notin InQueue(Tail(q)))
<1> DEFINE t == Tail(q)
<1>1. /\ t \in Seq(Request) /\ Len(t) = Len(q) - 1 /\ Len(q) \in Nat \ {0} /\ Head(q) = q[1]
      /\ \A i \in 1 .. Len(t) : t[i] = q[i + 1]
    OBVIOUS
<1>2. Head(q) \in Request
    BY <1>1
<1> HIDE DEF t
<1>3. DOMAIN t = 1 .. Len(t) /\ DOMAIN q = 1 .. Len(q)
    BY <1>1
<1>4. ASSUME NEW y PROVE y \in InQueue(q) <=> y \in InQueue(t) \/ y = Head(q)
    <2>1. y \in InQueue(q) <=> \E i \in 1 .. Len(q) : y = q[i]
        BY <1>3 DEF InQueue
    <2>2. y \in InQueue(t) <=> \E i \in 1 .. Len(t) : y = t[i]
        BY <1>3 DEF InQueue
    <2>3. \A i \in 1 .. Len(q) : i = 1 \/ (i - 1 \in 1 .. Len(t) /\ t[i - 1] = q[i])
        BY <1>1
    <2>4. \A i \in 1 .. Len(t) : i + 1 \in 1 .. Len(q)
        BY <1>1
    <2>5. ASSUME y \in InQueue(q) PROVE y \in InQueue(t) \/ y = Head(q)
        BY <2>1, <2>2, <2>3, <2>5, <1>1
    <2>6. ASSUME y \in InQueue(t) \/ y = Head(q) PROVE y \in InQueue(q)
        BY <2>1, <2>2, <2>4, <2>6, <1>1
    <2> QED BY <2>5, <2>6
<1>5. ASSUME NEW r, Once(q, r) PROVE Once(t, r)
    BY <1>1, <1>5 DEF Once
<1>6. ASSUME NEW r, Once(q, r), r = Head(q) PROVE r \notin InQueue(t)
    <2>1. \A i \in 1 .. Len(t) : i + 1 \in 1 .. Len(q) /\ i + 1 # 1 /\ t[i] = q[i + 1]
        BY <1>1
    <2>2. \A i \in 1 .. Len(t) : t[i] # r
        BY <2>1, <1>1, <1>6 DEF Once
    <2> QED BY <2>2, <1>3 DEF InQueue
<1>7. InQueue(q) = {Head(q)} \cup InQueue(t)
    BY <1>4
<1> QED BY <1>1, <1>2, <1>5, <1>6, <1>7 DEF t

\* An iteration of Dispatcher::run that goes through start_ready.
Iteration(queue) ==
    /\ start_ready(queue)
    /\ sending' = sending
    /\ \/ queue = pending /\ channel' = channel
       \/ /\ channel # <<>> /\ channel' = Tail(channel)
          /\ queue = Append(pending, Head(channel))

\* The kinds of steps the dispatcher takes.
LEMMA LoopShape ==
    ASSUME LoopStep, pending \in Seq(Request), channel \in Seq(Request)
    PROVE  \/ \E queue \in Seq(Request) : Iteration(queue)
           \/ Stop
           \/ DropDispatcher
<1>1. CASE Recv
    <2>1. Append(pending, Head(channel)) \in Seq(Request)
        BY <1>1, AppendFacts, TailFacts DEF Recv
    <2> QED BY <1>1, <2>1, Zenon DEF Recv, Iteration
<1>2. CASE Join \/ ExpirePending
    BY <1>2 DEF Join, ExpirePending, Iteration
<1> QED BY <1>1, <1>2 DEF LoopStep, Stopped

\* A run that has asked everything of the guest returns, or waits for its output.
LEMMA DrainShape ==
    ASSUME NEW p, NEW open \in BOOLEAN, NEW over, Drain(p, open, over) \/ Return(p, open, over)
    PROVE  /\ \E state \in Draining \cup Ended :
                /\ runner' = [runner EXCEPT ![p] = state]
                /\ state \in {"finished", "drain"} => ~open
                /\ state = "finished" => outcome[p] = "exit"
           /\ Submit({}, over) \/ Submit(DropCleanup(p), over)
<1> DEFINE State(state) == /\ runner' = [runner EXCEPT ![p] = state]
                           /\ state \in {"finished", "drain"} => ~open
                           /\ state = "finished" => outcome[p] = "exit"
<1>1. CASE Return(p, open, over)
    <2>1. Submit({}, over) \/ Submit(DropCleanup(p), over)
        BY <1>1, ZenonT(30) DEF Return
    <2>2. State("finished") \/ State("failed")
        BY <1>1, ZenonT(30) DEF Return, MayFinish
    <2> QED BY <2>1, <2>2 DEF Ended
<1>2. CASE /\ runner' = [runner EXCEPT ![p] = IF open THEN "drain_open" ELSE "drain"]
           /\ Submit({}, over)
    <2>1. State("drain_open") \/ State("drain")
        BY <1>2, ZenonT(30)
    <2> QED BY <1>2, <2>1, ZenonT(30) DEF Draining
<1> QED BY <1>1, <1>2, ZenonT(30) DEF Drain

\* The same of its three ways there.
LEMMA EndShape ==
    ASSUME NEW p, StopAnswered(p) \/ CloseAnswered(p) \/ OutputDrained(p)
    PROVE  /\ \/ /\ runner' = [runner EXCEPT ![p] = "close"]
                /\ Submit({<<"close", p>>}, <<"stop", p>>)
              \/ /\ \E state \in Draining \cup Ended :
                       /\ runner' = [runner EXCEPT ![p] = state]
                       /\ state \in {"finished", "drain"} =>
                            runner[p] = "drain" \/ reply[<<"close", p>>] = "event"
                       /\ state = "finished" => outcome[p] = "exit"
                 /\ \E over : Submit({}, over) \/ Submit(DropCleanup(p), over)
           /\ runner[p] \in {"stop", "close"} \cup Draining
           /\ UNCHANGED <<scheduled, outcome, vm, closed>>
<1>1. CASE StopAnswered(p)
    <2>1. \/ /\ runner' = [runner EXCEPT ![p] = "close"]
             /\ Submit({<<"close", p>>}, <<"stop", p>>)
          \/ Drain(p, TRUE, <<"stop", p>>)
        BY <1>1, ZenonT(30) DEF StopAnswered
    <2>2. runner[p] = "stop" /\ UNCHANGED <<scheduled, outcome, vm, closed>>
        BY <1>1, ZenonT(30) DEF StopAnswered, vmVars
    <2>3. CASE Drain(p, TRUE, <<"stop", p>>)
        <3>1. TRUE \in BOOLEAN
            OBVIOUS
        <3> QED BY <2>2, <2>3, <3>1, DrainShape, ZenonT(30)
    <2> QED BY <2>1, <2>2, <2>3, ZenonT(30)
<1>2. CASE CloseAnswered(p)
    <2>1. PICK result \in Observed(<<"close", p>>) : Drain(p, result # "event", <<"close", p>>)
        BY <1>2, ZenonT(30) DEF CloseAnswered
    <2>2. runner[p] = "close" /\ UNCHANGED <<scheduled, outcome, vm, closed>>
        BY <1>2, ZenonT(30) DEF CloseAnswered, vmVars
    <2>3. ~(result # "event") => reply[<<"close", p>>] = "event"
        BY <2>1, ZenonT(30) DEF Observed
    <2>4. (result # "event") \in BOOLEAN
        OBVIOUS
    <2> QED BY <2>1, <2>2, <2>3, <2>4, DrainShape, ZenonT(30)
<1>3. CASE OutputDrained(p)
    <2>1. Return(p, runner[p] = "drain_open", None)
        BY <1>3, ZenonT(30) DEF OutputDrained
    <2>2. runner[p] \in Draining /\ UNCHANGED <<scheduled, outcome, vm, closed>>
        BY <1>3, ZenonT(30) DEF OutputDrained, vmVars
    <2>3. runner[p] # "drain_open" => runner[p] = "drain"
        BY <2>2 DEF Draining
    <2>4. (runner[p] = "drain_open") \in BOOLEAN
        OBVIOUS
    <2> QED BY <2>1, <2>2, <2>3, <2>4, DrainShape, ZenonT(30)
<1> QED BY <1>1, <1>2, <1>3, ZenonT(30)

\* What a step does to the run that takes it.
LEMMA RunnerShape ==
    ASSUME NEW c \in Caller, RunChoice(c)
    PROVE  /\ scheduled' = scheduled
           /\ \E state \in Awaiting \cup Draining \cup Ended : runner' = [runner EXCEPT ![c] = state]
           /\ \/ UNCHANGED outcome
              \/ \E why \in {"running", "exit", "other"} : outcome' = [outcome EXCEPT ![c] = why]
<1>1. CASE StopAnswered(c) \/ CloseAnswered(c) \/ OutputDrained(c)
    <2>1. UNCHANGED <<scheduled, outcome>>
        BY <1>1, EndShape, ZenonT(30)
    <2>2. \E state \in Awaiting \cup Draining \cup Ended : runner' = [runner EXCEPT ![c] = state]
        BY <1>1, EndShape, ZenonT(30) DEF Awaiting
    <2> QED BY <2>1, <2>2, ZenonT(30)
<1>2. CASE \/ Begin(c) \/ Started(c) \/ WaitAnswered(c) \/ FileAnswered(c) \/ Interrupted(c)
           \/ Abort(c)
    <2>1. scheduled' = scheduled
        BY <1>2, ZenonT(30) DEF Begin, Started, WaitAnswered, EndWait, FileAnswered, Interrupted, Abort
    <2>2. \E state \in Awaiting \cup Ended : runner' = [runner EXCEPT ![c] = state]
        BY <1>2, ZenonT(30) DEF Begin, Started, WaitAnswered, EndWait, FileAnswered, Interrupted, Abort,
           Awaiting, Ended, FirstOp
    <2>3. \/ UNCHANGED outcome
          \/ \E why \in {"running", "exit", "other"} : outcome' = [outcome EXCEPT ![c] = why]
        BY <1>2 DEF Begin, Started, WaitAnswered, EndWait, FileAnswered, Interrupted, Abort
    <2> QED BY <2>1, <2>2, <2>3, ZenonT(30)
<1> QED BY <1>1, <1>2, ZenonT(30) DEF RunChoice, RunStep

\* What a step of a run submits.
LEMMA RunShape ==
    ASSUME Run
    PROVE  \E requests \in SUBSET Request : \E over :
             /\ Submit(requests, over)
             /\ closed = TRUE => requests \cap Cleanups = {}
             /\ Shutdown \notin requests
             /\ Submits /\ UNCHANGED <<vm, closed>>
<1>1. PICK c \in Caller : RunChoice(c) /\ Submits
    BY DEF Run
<1> DEFINE Shape == \E requests \in SUBSET Request : \E over :
                       /\ Submit(requests, over)
                       /\ closed = TRUE => requests \cap Cleanups = {}
                       /\ Shutdown \notin requests
                       /\ Submits /\ UNCHANGED <<vm, closed>>
<1> SUFFICES Shape
    OBVIOUS
<1>2. ASSUME NEW requests \in SUBSET Request, NEW over, Submit(requests, over),
             closed = TRUE => requests \cap Cleanups = {}, Shutdown \notin requests,
             UNCHANGED <<vm, closed>>
      PROVE  Shape
    BY <1>1, <1>2
<1>3. ASSUME NEW op \in Op \ {"cleanup"}, NEW p \in Process
      PROVE  /\ {<<op, p>>} \in SUBSET Request
             /\ {<<op, p>>} \cap Cleanups = {} /\ Shutdown \notin {<<op, p>>}
    BY DEF Op, Request, Cleanups, Shutdown
<1>4. ASSUME NEW p \in Process
      PROVE  /\ DropCleanup(p) \in SUBSET Request /\ Shutdown \notin DropCleanup(p)
             /\ closed = TRUE => DropCleanup(p) \cap Cleanups = {}
    BY DEF DropCleanup, Op, Request, Shutdown
<1>5. {} \in SUBSET Request /\ {} \cap Cleanups = {} /\ Shutdown \notin {}
    OBVIOUS
<1> HIDE DEF Shape
<1>6. CASE Begin(c)
    <2>1. UNCHANGED <<vm, closed>>
        BY <1>6 DEF Begin, vmVars
    <2>2. CASE c \in Process
        <3>1. Submit({<<"start", c>>}, None)
            BY <1>6, <2>2 DEF Begin, FirstOp
        <3> QED BY <1>2, <1>3, <2>1, <2>2, <3>1, Zenon DEF Op
    <2>3. CASE c \notin Process
        <3>1. c \in File
            BY <2>3 DEF Caller
        <3>2. {<<"file", c>>} \in SUBSET Request /\ {<<"file", c>>} \cap Cleanups = {}
              /\ Shutdown \notin {<<"file", c>>}
            BY <3>1 DEF Request, Cleanups, Shutdown
        <3>3. Submit({<<"file", c>>}, None)
            BY <1>6, <2>3 DEF Begin, FirstOp
        <3> QED BY <1>2, <2>1, <3>2, <3>3, Zenon
    <2> QED BY <2>2, <2>3
<1>7. CASE c \in Process /\ Started(c)
    <2>1. UNCHANGED <<vm, closed>>
        BY <1>7 DEF Started, vmVars
    <2>2. Submit({<<"wait", c>>}, <<"start", c>>) \/ Submit({}, <<"start", c>>)
        BY <1>7 DEF Started
    <2> QED BY <1>2, <1>3, <1>5, <1>7, <2>1, <2>2, Zenon DEF Op
<1>8. CASE c \in Process /\ \E why : EndWait(c, why)
    <2>1. UNCHANGED <<vm, closed>>
        BY <1>8 DEF EndWait, vmVars
    <2>2. Submit({<<"stop", c>>}, <<"wait", c>>)
        BY <1>8 DEF EndWait
    <2> QED BY <1>2, <1>3, <1>8, <2>1, <2>2, Zenon DEF Op
<1>9. CASE c \in Process /\ (WaitAnswered(c) \/ Interrupted(c))
    BY <1>8, <1>9 DEF WaitAnswered, Interrupted
<1>10. CASE c \in Process /\ (StopAnswered(c) \/ CloseAnswered(c) \/ OutputDrained(c))
    <2>1. UNCHANGED <<vm, closed>>
        BY <1>10, EndShape, ZenonT(30)
    <2>2. \/ Submit({<<"close", c>>}, <<"stop", c>>)
          \/ \E over : Submit({}, over) \/ Submit(DropCleanup(c), over)
        BY <1>10, EndShape, ZenonT(30)
    <2> QED BY <1>2, <1>3, <1>4, <1>5, <1>10, <2>1, <2>2, Zenon DEF Op
<1>12. CASE FileAnswered(c)
    <2>1. UNCHANGED <<vm, closed>> /\ Submit({}, <<"file", c>>)
        BY <1>12 DEF FileAnswered, vmVars
    <2> QED BY <1>2, <1>5, <2>1, Zenon
<1>13. CASE Abort(c)
    <2>1. UNCHANGED <<vm, closed>>
        BY <1>13 DEF Abort, vmVars
    <2>2. \/ Submit({}, <<runner[c], c>>)
          \/ c \in Process /\ Submit(DropCleanup(c), <<runner[c], c>>)
        BY <1>13 DEF Abort
    <2> QED BY <1>2, <1>4, <1>5, <2>1, <2>2, Zenon
<1> QED BY <1>1, <1>6, <1>7, <1>9, <1>10, <1>12, <1>13, ZenonT(30) DEF RunChoice, RunStep

\* A caller that submits requests and lets go of one keeps the others.
LEMMA SubmitPlaces ==
    ASSUME PlaceInv, NEW requests \in SUBSET Request, NEW over, Submit(requests, over),
           UNCHANGED <<running, channel, pending>>
    PROVE  PlaceInv'
<1>1. /\ sending' \subseteq Request /\ running' \subseteq Request
      /\ receiver' \subseteq Request /\ receiver' \cap Cleanups = {}
      /\ channel' \in Seq(Request) /\ pending' \in Seq(Request)
    BY DEF PlaceInv, Submit
<1>2. /\ reply' \in [Request -> Result \cup {"none"}]
      /\ \A r \in Request : r # over => reply'[r] = reply[r]
    BY DEF PlaceInv, Submit
<1>3. NoRequestLost'
    <2>1. SUFFICES ASSUME NEW r \in receiver', reply'[r] = "none" PROVE r \in Outstanding'
        BY DEF NoRequestLost
    <2>2. CASE r \in requests
        BY <2>2 DEF Submit, Outstanding
    <2>3. CASE r \notin requests
        <3>1. r \in receiver /\ r # over
            BY <2>1, <2>3 DEF Submit
        <3>2. r \in Outstanding
            BY <3>1, <2>1, <1>1, <1>2 DEF NoRequestLost, PlaceInv
        <3> QED BY <3>1, <3>2 DEF Submit, Outstanding
    <2> QED BY <2>2, <2>3
<1> QED BY <1>1, <1>2, <1>3 DEF PlaceInv

\* An answer reaches those who still wait for it, and nobody else.
LEMMA AnswerPlaces ==
    ASSUME PlaceInv, NEW requests, NEW result \in Result, Answer(requests, result),
           receiver' = receiver
    PROVE  /\ reply' \in [Request -> Result \cup {"none"}]
           /\ \A r \in receiver' : reply'[r] = "none" => r \in Outstanding /\ r \notin requests
<1>1. "none" \notin Result
    BY DEF Result
<1> QED BY <1>1 DEF Answer, PlaceInv, NoRequestLost

\* Every step keeps every request in its place.
LEMMA PlaceStep ==
    ASSUME PlaceInv, [Next]_vars, Passes
    PROVE  PlaceInv'
<1> USE DEF Result
<1>1. CASE Run
    <2>1. UNCHANGED <<running, channel, pending>>
        BY <1>1 DEF Run, Submits
    <2>2. PICK requests \in SUBSET Request : \E over : Submit(requests, over)
        BY <1>1, RunShape, Zenon
    <2> QED BY <2>1, <2>2, SubmitPlaces
<1>2. CASE shutdown \/ SchedulerJoined \/ Over \/ UNCHANGED vars
    <2>1. UNCHANGED <<sending, running, receiver, channel, pending, reply>>
        BY <1>2 DEF shutdown, SchedulerJoined, Over, vars, hostVars
    <2> QED BY <2>1 DEF PlaceInv, NoRequestLost, Outstanding
<1>3. CASE CleanupJoined
    <2>1. UNCHANGED <<running, channel, pending>> /\ Submit({Shutdown}, None)
        BY <1>3 DEF CleanupJoined
    <2>2. {Shutdown} \in SUBSET Request
        BY DEF Request
    <2> QED BY <2>1, <2>2, SubmitPlaces
<1>4. CASE ShutdownAnswered
    <2>1. UNCHANGED <<running, channel, pending>> /\ Submit({}, Shutdown)
        BY <1>4 DEF ShutdownAnswered
    <2> QED BY <2>1, SubmitPlaces
<1>5. CASE Closed \/ GuestStep
    <2>1. UNCHANGED <<sending, running, receiver, channel, pending, reply>>
        BY <1>5 DEF Closed, GuestStep, hostVars
    <2> QED BY <2>1 DEF PlaceInv, NoRequestLost, Outstanding
<1>6. CASE Drop
    <2>1. /\ sending' = sending \ (Aborted \cup {Shutdown})
          /\ receiver' = receiver \ {Shutdown}
          /\ reply' = [reply EXCEPT ![Shutdown] = "none"]
          /\ UNCHANGED <<running, channel, pending>>
        BY <1>6 DEF Drop
    <2>2. receiver' \cap Cleanups = {} /\ \A r \in receiver' : r \notin Aborted
        BY <2>1, ZenonT(30) DEF PlaceInv, Aborted
    <2> QED BY <2>1, <2>2, Zenon DEF PlaceInv, NoRequestLost, Outstanding
<1>7. CASE Stop
    <2>1. Answer(InQueue(pending), "shutdown") /\ pending' = <<>>
          /\ UNCHANGED <<sending, running, receiver, channel>>
        BY <1>7 DEF Stop
    <2>2. /\ reply' \in [Request -> Result \cup {"none"}]
          /\ \A r \in receiver' :
                reply'[r] = "none" => r \in Outstanding /\ r \notin InQueue(pending)
        BY <2>1, AnswerPlaces
    <2>3. InQueue(pending') = {} /\ pending' \in Seq(Request)
        BY <2>1 DEF InQueue
    <2> QED BY <2>1, <2>2, <2>3 DEF PlaceInv, NoRequestLost, Outstanding
<1>8. CASE DropDispatcher
    <2>1. Answer(Owned, "shutdown") /\ pending' = <<>> /\ channel' = <<>> /\ running' = {}
          /\ UNCHANGED <<sending, receiver>>
        BY <1>8 DEF DropDispatcher
    <2>2. /\ reply' \in [Request -> Result \cup {"none"}]
          /\ \A r \in receiver' : reply'[r] = "none" => r \in Outstanding /\ r \notin Owned
        BY <2>1, AnswerPlaces
    <2>3. InQueue(pending') = {} /\ pending' \in Seq(Request) /\ channel' \in Seq(Request)
        BY <2>1 DEF InQueue
    <2> QED BY <2>1, <2>2, <2>3 DEF PlaceInv, NoRequestLost, Outstanding, Owned
<1>9. ASSUME NEW queue \in Seq(Request), Iteration(queue) PROVE PlaceInv'
    <2>1. PICK started \in SUBSET Request : Passed(queue, started)
        BY <1>9 DEF Iteration, Passes
    <2>2. /\ reply' \in [Request -> Result \cup {"none"}]
          /\ \A r \in receiver' :
                reply'[r] = "none" => r \in Outstanding /\ r \notin InQueue(queue) \cap late
        BY <2>1, AnswerPlaces DEF Passed
    <2>3. /\ channel' \in Seq(Request)
          /\ InQueue(pending) \cup InQueue(channel) = InQueue(queue) \cup InQueue(channel')
        <3>1. CASE queue = pending /\ channel' = channel
            BY <3>1 DEF PlaceInv
        <3>2. CASE channel # <<>> /\ channel' = Tail(channel)
                   /\ queue = Append(pending, Head(channel))
            <4>1. /\ channel' \in Seq(Request) /\ Head(channel) \in Request
                  /\ InQueue(channel) = {Head(channel)} \cup InQueue(channel')
                BY <3>2, TailFacts DEF PlaceInv
            <4>2. InQueue(queue) = InQueue(pending) \cup {Head(channel)}
                BY <3>2, <4>1, AppendFacts DEF PlaceInv
            <4> QED BY <4>1, <4>2
        <3> QED BY <1>9, <3>1, <3>2 DEF Iteration
    <2>4. /\ InQueue(pending') = (InQueue(queue) \ late) \ started
          /\ running' = running \cup started /\ sending' = sending /\ receiver' = receiver
          /\ pending' \in Seq(Request)
        BY <1>9, <2>1 DEF Passed, Iteration
    <2>5. NoRequestLost'
        BY <2>2, <2>3, <2>4 DEF NoRequestLost, Outstanding
    <2> QED BY <2>2, <2>3, <2>4, <2>5 DEF PlaceInv
<1>10. CASE LoopStep
    BY <1>7, <1>8, <1>9, <1>10, LoopShape DEF PlaceInv
<1>11. ASSUME NEW r \in Request, Send(r) PROVE PlaceInv'
    <2>1. /\ sending' = sending \ {r} /\ channel' = Append(channel, r)
          /\ UNCHANGED <<running, pending, receiver, reply>>
        BY <1>11 DEF Send
    <2>2. channel' \in Seq(Request) /\ InQueue(channel') = InQueue(channel) \cup {r}
        BY <2>1, AppendFacts DEF PlaceInv
    <2> QED BY <2>1, <2>2 DEF PlaceInv, NoRequestLost, Outstanding
<1>12. ASSUME NEW r \in Request, SendFails(r) PROVE PlaceInv'
    <2>1. Answer({r}, "shutdown") /\ sending' = sending \ {r}
          /\ UNCHANGED <<running, channel, pending, receiver>>
        BY <1>12 DEF SendFails
    <2>2. /\ reply' \in [Request -> Result \cup {"none"}]
          /\ \A x \in receiver' : reply'[x] = "none" => x \in Outstanding /\ x \notin {r}
        BY <2>1, AnswerPlaces
    <2> QED BY <2>1, <2>2 DEF PlaceInv, NoRequestLost, Outstanding
<1>13. ASSUME NEW r \in Request, Finish(r) PROVE PlaceInv'
    <2>1. PICK result \in Result : Answer({r}, result)
        BY <1>13 DEF Finish, TaskResult
    <2>2. running' = running \ {r} /\ UNCHANGED <<sending, channel, pending, receiver>>
        BY <1>13 DEF Finish
    <2>3. /\ reply' \in [Request -> Result \cup {"none"}]
          /\ \A x \in receiver' : reply'[x] = "none" => x \in Outstanding /\ x \notin {r}
        BY <2>1, <2>2, AnswerPlaces
    <2> QED BY <2>2, <2>3 DEF PlaceInv, NoRequestLost, Outstanding
<1>14. ASSUME NEW r \in Request, SendCommand(r) \/ Expire(r) PROVE PlaceInv'
    <2>1. UNCHANGED <<sending, running, receiver, channel, pending, reply>>
        BY <1>14 DEF SendCommand, Expire, hostVars
    <2> QED BY <2>1 DEF PlaceInv, NoRequestLost, Outstanding
<1>15. CASE HostStep
    BY <1>10, <1>11, <1>12, <1>13, <1>14, <1>15 DEF HostStep, SendStep, TaskStep
<1>16. CASE VmStep
    BY <1>2, <1>3, <1>4, <1>5, <1>6, <1>8, <1>16 DEF VmStep, ShutdownStep, DispatcherAborted
<1> QED BY <1>1, <1>2, <1>5, <1>15, <1>16 DEF Next

\* The registry is closed before the VM asks the guest to shut down, and no cleanup
\* enters it afterwards.
LEMMA OrderStep ==
    ASSUME OrderInv, [Next]_vars
    PROVE  OrderInv'
<1> USE DEF OrderInv, CleanupBeforeShutdown
<1>1. CASE Run
    <2>1. PICK requests \in SUBSET Request : \E over :
             /\ Submit(requests, over)
             /\ closed = TRUE => requests \cap Cleanups = {}
             /\ UNCHANGED <<vm, closed>>
        BY <1>1, RunShape, Zenon
    <2>2. UNCHANGED <<vm, closed>> /\ (closed = TRUE => requests \cap Cleanups = {})
          /\ sending' \subseteq sending \cup requests
        BY <2>1 DEF Submit
    <2> QED BY <2>2
<1>2. CASE shutdown
    BY <1>2 DEF shutdown
<1>3. CASE SchedulerJoined
    BY <1>3 DEF SchedulerJoined
<1>4. CASE CleanupJoined
    <2>1. sending' \cap Cleanups = {}
        BY <1>4 DEF CleanupJoined, CleanupSubmitted, Submit, Cleanups, Shutdown
    <2> QED BY <1>4, <2>1 DEF CleanupJoined
<1>5. CASE ShutdownAnswered
    BY <1>5 DEF ShutdownAnswered, Submit
<1>6. CASE Closed
    BY <1>6 DEF Closed, hostVars
<1>7. CASE Drop
    BY <1>7 DEF Drop
<1>8. CASE UNCHANGED <<vm, closed>> /\ sending' \subseteq sending
    BY <1>8
<1>9. CASE HostStep
    <2>1. UNCHANGED <<vm, closed>>
        BY <1>9 DEF HostStep, vmVars
    <2>2. sending' \subseteq sending
        BY <1>9, Zenon DEF HostStep, LoopStep, Recv, Join, ExpirePending, Stop, Stopped, DropDispatcher,
           SendStep, Send, SendFails, TaskStep, SendCommand, Finish, Expire, hostVars
    <2> QED BY <1>8, <2>1, <2>2
<1>10. CASE GuestStep \/ DispatcherAborted \/ Over \/ UNCHANGED vars
    <2>1. UNCHANGED <<vm, closed, sending>>
        BY <1>10, ZenonT(30) DEF GuestStep, DispatcherAborted, DropDispatcher, Over, vars, hostVars, vmVars
    <2> QED BY <1>8, <2>1
<1> QED BY <1>1, <1>2, <1>3, <1>4, <1>5, <1>6, <1>7, <1>9, <1>10, Zenon DEF Next, VmStep, ShutdownStep

-----------------------------------------------------------------------------
(* Types *)

\* Every step of the guest keeps its types.
LEMMA GuestTypes ==
    ASSUME GuestTypeOK, GuestNext, running' = running
    PROVE  GuestTypeOK'
<1> USE DEF GuestTypeOK
<1>1. ASSUME NEW r \in Request, NEW state \in Connection, Leave(r, state)
      PROVE  conn' \in [Request -> Connection]
    BY <1>1 DEF Leave, Connection
<1>2. Mishap \/ UNCHANGED mishaps => mishaps' \in 0 .. MaxMishaps
    BY GuestAssumption DEF Mishap
<1>3. ASSUME NEW r \in Request, Accept(r) \/ GiveUp(r) PROVE GuestTypeOK'
    <2>1. Leave(r, "admitted") \/ Leave(r, "refused")
        BY <1>3 DEF Accept, GiveUp
    <2>2. conn' \in [Request -> Connection]
        BY <2>1, <1>1 DEF Connection
    <2>3. UNCHANGED <<process, table, stop, woken, guest>> /\ (Mishap \/ UNCHANGED mishaps)
        BY <1>3 DEF Accept, GiveUp
    <2> QED BY <1>2, <2>2, <2>3
<1>4. ASSUME NEW r \in Request, ProcessStart(r) PROVE GuestTypeOK'
    <2>1. Leave(r, "event") \/ Leave(r, "error")
        BY <1>4 DEF ProcessStart
    <2>2. conn' \in [Request -> Connection]
        BY <2>1, <1>1 DEF Connection
    <2>3. r[2] \in Process
        BY <1>4 DEF ProcessStart, Reads, Request, Op, Shutdown
    <2>4. process' \in [Process -> Child] /\ table' \subseteq Process
        BY <1>4, <2>3 DEF ProcessStart, Child
    <2>5. UNCHANGED <<stop, woken, guest>> /\ (Mishap \/ UNCHANGED mishaps)
        BY <1>4 DEF ProcessStart
    <2> QED BY <1>2, <2>2, <2>4, <2>5
<1>5. ASSUME NEW r \in Request, ProcessWait(r) \/ ProcessStop(r) PROVE GuestTypeOK'
    <2>1. Leave(r, "error") \/ Leave(r, "looking")
        BY <1>5 DEF ProcessWait, ProcessStop, AwaitExit
    <2>2. conn' \in [Request -> Connection]
        BY <2>1, <1>1 DEF Connection
    <2>3. stop' \subseteq Process
        BY <1>5 DEF ProcessWait, ProcessStop
    <2>4. UNCHANGED <<process, table, woken, guest, mishaps>>
        BY <1>5 DEF ProcessWait, ProcessStop
    <2> QED BY <1>2, <2>2, <2>3, <2>4
<1>6. ASSUME NEW r \in Request, ProcessClose(r) PROVE GuestTypeOK'
    <2>1. Leave(r, "event") \/ Leave(r, "error")
        BY <1>6 DEF ProcessClose
    <2>2. conn' \in [Request -> Connection]
        BY <2>1, <1>1 DEF Connection
    <2>3. stop' \subseteq Process /\ table' \subseteq Process
        BY <1>6 DEF ProcessClose
    <2>4. UNCHANGED <<process, woken, guest, mishaps>>
        BY <1>6 DEF ProcessClose
    <2> QED BY <1>2, <2>2, <2>3, <2>4
<1>7. ASSUME NEW r \in Request, FileCommand(r) \/ VMShutdown(r) PROVE GuestTypeOK'
    <2>1. Leave(r, "event") \/ Leave(r, "error")
        BY <1>7 DEF FileCommand, VMShutdown
    <2>2. conn' \in [Request -> Connection]
        BY <2>1, <1>1 DEF Connection
    <2>3. /\ UNCHANGED <<process, table, stop, woken>> /\ (Mishap \/ UNCHANGED mishaps)
          /\ guest' \in {guest, "cancelled"}
        BY <1>7 DEF FileCommand, VMShutdown
    <2> QED BY <1>2, <2>2, <2>3
<1>8. ASSUME NEW r \in Request, Look(r) \/ Sleep(r) \/ Wake(r) PROVE GuestTypeOK'
    <2>1. \E state \in {"event", "error", "looking", "unseen", "asleep"} : Leave(r, state)
        BY <1>8 DEF Look, Sleep, Wake, AwaitExit, ExitReply
    <2>2. conn' \in [Request -> Connection]
        BY <2>1, <1>1 DEF Connection
    <2>3. UNCHANGED <<process, table, stop, guest, mishaps>> /\ woken' \subseteq woken
        BY <1>8 DEF Look, Sleep, Wake
    <2> QED BY <1>2, <2>2, <2>3
<1>9. ASSUME NEW p \in Process, Record(p) \/ NotifyWaiters(p) PROVE GuestTypeOK'
    <2>1. process' \in [Process -> Child] /\ woken' \subseteq Request
        BY <1>9 DEF Record, NotifyWaiters, Child, Notified
    <2>2. UNCHANGED <<conn, table, stop, guest>> /\ (Mishap \/ UNCHANGED mishaps)
        BY <1>9 DEF Record, NotifyWaiters
    <2> QED BY <1>2, <2>1, <2>2
<1>11. CASE FallMute
    BY <1>2, <1>11 DEF FallMute
<1>10. CASE Down
    <2>1. /\ process' \in [Process -> Child] /\ table' = {} /\ stop' = {} /\ woken' = {}
          /\ guest' = "down"
        BY <1>10 DEF Down, Vanish, Child
    <2>2. conn' \in [Request -> Connection]
        BY <1>10 DEF Down, Vanish, Connection
    <2>3. Mishap \/ UNCHANGED mishaps
        BY <1>10 DEF Down
    <2> QED BY <1>2, <2>1, <2>2, <2>3
<1> QED BY <1>3, <1>4, <1>5, <1>6, <1>7, <1>8, <1>9, <1>10, <1>11 DEF GuestNext, Handle

\* The types of the guest's variables, which the host's steps keep too.
GuestVarsOK ==
    /\ conn \in [Request -> Connection] /\ process \in [Process -> Child]
    /\ table \subseteq Process /\ stop \subseteq Process /\ woken \subseteq Request
    /\ guest \in {"up", "cancelled", "mute", "down"}

\* What the host does to a connection, or to a guest that is gone, has its type.
LEMMA HostOnGuestTypes ==
    ASSUME GuestVarsOK, [Run \/ VmStep \/ HostStep \/ Over]_vars, PlaceInv, Passes
    PROVE  GuestVarsOK'
<1> USE DEF GuestVarsOK
<1>1. CASE UNCHANGED guestVars
    BY <1>1 DEF guestVars
<1>2. CASE Vanish
    BY <1>2 DEF Vanish, Connection, Child
<1>3. ASSUME conn' \in [Request -> Connection], UNCHANGED <<process, table, stop, woken, guest>>
      PROVE  GuestVarsOK'
    BY <1>3
<1>4. CASE DropDispatcher
    <2>1. conn' \in [Request -> Connection]
        BY <1>4 DEF DropDispatcher, HangUp, Connection
    <2> QED BY <1>3, <1>4, <2>1 DEF DropDispatcher
<1>5. ASSUME NEW r \in Request, Finish(r) PROVE GuestVarsOK'
    <2>1. conn' \in [Request -> Connection]
        BY <1>5 DEF Finish, HangUp, Connection
    <2> QED BY <1>3, <1>5, <2>1 DEF Finish
<1>6. ASSUME NEW r \in Request, SendCommand(r) PROVE GuestVarsOK'
    BY <1>3, <1>6 DEF SendCommand, Connection
<1>7. ASSUME NEW queue \in Seq(Request), Iteration(queue) PROVE GuestVarsOK'
    <2>1. PICK started \in SUBSET Request : Passed(queue, started)
        BY <1>7 DEF Iteration, Passes
    <2>2. conn' \in [Request -> Connection]
        BY <2>1 DEF Passed, Connection
    <2> QED BY <1>3, <2>1, <2>2 DEF Passed
<1>8. CASE LoopStep
    <2>1. Stop => UNCHANGED guestVars
        BY DEF Stop
    <2> QED BY <1>1, <1>4, <1>7, <1>8, <2>1, LoopShape DEF PlaceInv
<1>9. ASSUME NEW r \in Request, SendStep(r) \/ Expire(r) PROVE UNCHANGED guestVars
    BY <1>9 DEF SendStep, Send, SendFails, Expire
<1>10. CASE HostStep
    BY <1>1, <1>5, <1>6, <1>8, <1>9, <1>10, ZenonT(30) DEF HostStep, TaskStep
<1>11. CASE VmStep
    BY <1>1, <1>2, <1>4, <1>11, ZenonT(30) DEF VmStep, Closed, Drop, DispatcherAborted
<1>12. CASE Run \/ Over \/ UNCHANGED vars
    BY <1>1, <1>12 DEF Run, Submits, Over, vars
<1> QED BY <1>10, <1>11, <1>12

\* Every step keeps the types.
LEMMA TypeStep ==
    ASSUME TypeOK, PlaceInv, PlaceInv', PermitInv', [Next]_vars, Passes
    PROVE  TypeOK'
<1>1. GuestVarsOK'
    <2>1. GuestVarsOK
        BY DEF TypeOK, GuestTypeOK, GuestVarsOK
    <2>2. CASE GuestStep
        <3>1. GuestTypeOK'
            BY <2>2, GuestTypes DEF TypeOK, GuestStep, hostVars
        <3> QED BY <3>1 DEF GuestTypeOK, GuestVarsOK
    <2> QED BY <2>1, <2>2, HostOnGuestTypes, ZenonT(30) DEF Next
<1>2. mishaps' \in 0 .. MaxMishaps
    <2>1. Mishap \/ UNCHANGED mishaps => mishaps' \in 0 .. MaxMishaps
        BY GuestAssumption DEF Mishap, TypeOK, GuestTypeOK
    <2>2. CASE Run
        BY <2>1, <2>2, ZenonT(30) DEF Run, RunChoice, Interrupted, Abort
    <2>3. CASE VmStep \/ Over \/ UNCHANGED vars
        BY <2>1, <2>3 DEF VmStep, Closed, Drop, DispatcherAborted, Over, vars
    <2>4. CASE HostStep
        BY <2>1, <2>4 DEF HostStep, Expire
    <2>5. CASE GuestStep
        <3>1. GuestTypeOK'
            BY <2>5, GuestTypes DEF TypeOK, GuestStep, hostVars
        <3> QED BY <3>1 DEF GuestTypeOK
    <2> QED BY <2>2, <2>3, <2>4, <2>5, ZenonT(30) DEF Next
<1>3. Len(channel') <= Capacity
    <2>1. Len(channel) <= Capacity /\ channel \in Seq(Request)
        BY DEF TypeOK, HostTypeOK
    <2>2. CASE UNCHANGED channel
        BY <2>1, <2>2
    <2>3. CASE channel' = <<>>
        BY <2>3, DispatcherAssumption
    <2>4. CASE channel # <<>> /\ channel' = Tail(channel)
        BY <2>1, <2>4, DispatcherAssumption
    <2>5. ASSUME NEW r \in Request, Send(r) PROVE Len(channel') <= Capacity
        BY <2>1, <2>5, DispatcherAssumption DEF Send
    <2>6. CASE LoopStep
        BY <2>2, <2>3, <2>4, <2>6, ZenonT(30) DEF LoopStep, Recv, Join, ExpirePending, Stop, Stopped,
           DropDispatcher
    <2>7. ASSUME NEW r \in Request, SendFails(r) \/ TaskStep(r) \/ Expire(r)
          PROVE  UNCHANGED channel
        BY <2>7 DEF SendFails, TaskStep, SendCommand, Finish, Expire, hostVars
    <2>8. CASE HostStep
        BY <2>2, <2>5, <2>6, <2>7, <2>8 DEF HostStep, SendStep
    <2>9. CASE DispatcherAborted
        BY <2>3, <2>9 DEF DispatcherAborted, DropDispatcher
    <2>10. CASE Run \/ shutdown \/ ShutdownStep \/ Closed \/ Drop \/ GuestStep \/ Over
                \/ UNCHANGED vars
        <3>1. UNCHANGED channel
            BY <2>10, Zenon DEF Run, Submits, shutdown, ShutdownStep, SchedulerJoined, CleanupJoined,
               ShutdownAnswered, Closed, Drop, GuestStep, Over, vars, hostVars
        <3> QED BY <2>2, <3>1
    <2> QED BY <2>8, <2>9, <2>10 DEF Next, VmStep
<1>4. late' \subseteq Request
    <2>1. late \subseteq Request
        BY DEF TypeOK, HostTypeOK
    <2>2. CASE LoopStep \/ DispatcherAborted
        BY <2>1, <2>2, Zenon DEF LoopStep, Recv, Join, ExpirePending, start_ready, Stop, Stopped,
           DropDispatcher, DispatcherAborted, Answer
    <2>3. ASSUME NEW r \in Request, SendStep(r) \/ TaskStep(r) \/ Expire(r)
          PROVE  late' \subseteq Request
        BY <2>1, <2>3 DEF SendStep, Send, SendFails, TaskStep, SendCommand, Finish, Expire,
           Answer, hostVars
    <2>4. CASE Run
        <3>1. PICK requests \in SUBSET Request : \E over : Submit(requests, over)
            BY <2>4, RunShape, Zenon
        <3> QED BY <2>1, <3>1 DEF Submit
    <2>5. CASE VmStep /\ ~DispatcherAborted
        BY <2>1, <2>5, ZenonT(30) DEF VmStep, shutdown, ShutdownStep, SchedulerJoined, CleanupJoined,
           ShutdownAnswered, Submit, Closed, Drop, hostVars
    <2>6. CASE GuestStep \/ Over \/ UNCHANGED vars
        BY <2>1, <2>6 DEF GuestStep, Over, vars, hostVars
    <2> QED BY <2>2, <2>3, <2>4, <2>5, <2>6 DEF Next, HostStep
<1>5. joinable' \in BOOLEAN /\ loop' \in {"run", "stopping", "stopped"} /\ cancelled' \in BOOLEAN
    <2>1. joinable \in BOOLEAN /\ loop \in {"run", "stopping", "stopped"} /\ cancelled \in BOOLEAN
        BY DEF TypeOK, HostTypeOK
    <2>2. /\ joinable' \in {joinable, TRUE, FALSE}
          /\ loop' \in {loop, "stopping", "stopped"}
          /\ cancelled' \in {cancelled, TRUE}
        <3>1. CASE LoopStep \/ DispatcherAborted
            BY <3>1, Zenon DEF LoopStep, Recv, Join, ExpirePending, start_ready, Stop, Stopped,
               DropDispatcher, DispatcherAborted
        <3>2. ASSUME NEW r \in Request, SendStep(r) \/ TaskStep(r) \/ Expire(r)
              PROVE  joinable' \in {joinable, TRUE, FALSE} /\ UNCHANGED <<loop, cancelled>>
            <4>1. joinable' = joinable \/ joinable' = (joinable \/ pending # <<>>)
                BY <3>2, Zenon DEF SendStep, Send, SendFails, TaskStep, SendCommand, Finish, Expire,
                   hostVars
            <4>2. UNCHANGED <<loop, cancelled>>
                BY <3>2, Zenon DEF SendStep, Send, SendFails, TaskStep, SendCommand, Finish, Expire,
                   hostVars
            <4> QED BY <4>1, <4>2, ZenonT(30)
        <3>3. CASE Run \/ GuestStep \/ Over \/ UNCHANGED vars
            BY <3>3, Zenon DEF Run, Submits, GuestStep, Over, vars, hostVars
        <3>4. CASE VmStep /\ ~DispatcherAborted
            BY <3>4, Zenon DEF VmStep, shutdown, ShutdownStep, SchedulerJoined, CleanupJoined,
               ShutdownAnswered, Closed, Drop, hostVars
        <3> QED BY <3>1, <3>2, <3>3, <3>4, Zenon DEF Next, HostStep
    <2> QED BY <2>1, <2>2, Zenon
<1>6. /\ scheduled' \subseteq Process
      /\ runner' \in [Caller -> Awaiting \cup Draining \cup Ended \cup {"idle"}]
      /\ outcome' \in [Process -> {"none", "running", "exit", "other"}]
    <2>1. /\ scheduled \subseteq Process
          /\ runner \in [Caller -> Awaiting \cup Draining \cup Ended \cup {"idle"}]
          /\ outcome \in [Process -> {"none", "running", "exit", "other"}]
        BY DEF TypeOK
    <2>2. CASE UNCHANGED runVars
        BY <2>1, <2>2 DEF runVars
    <2>3. CASE Run
        <3>1. PICK c \in Caller : RunChoice(c)
            BY <2>3, ZenonT(30) DEF Run
        <3>2. scheduled' = scheduled
            BY <3>1, RunnerShape
        <3>3. \E state \in Awaiting \cup Draining \cup Ended : runner' = [runner EXCEPT ![c] = state]
            BY <3>1, RunnerShape
        <3>4. \/ UNCHANGED outcome
              \/ \E why \in {"running", "exit", "other"} : outcome' = [outcome EXCEPT ![c] = why]
            BY <3>1, RunnerShape
        <3> QED BY <2>1, <3>2, <3>3, <3>4
    <2>4. CASE VmStep \/ HostStep \/ GuestStep \/ Over \/ UNCHANGED vars
        BY <2>2, <2>4, Zenon DEF VmStep, Closed, Drop, DispatcherAborted, HostStep, GuestStep, Over, vars
    <2> QED BY <2>3, <2>4 DEF Next
<1>7. /\ vm' \in {"live", "joining", "closing", "requesting", "stopping", "closed", "dropped"}
      /\ closed' \in BOOLEAN
    <2>1. CASE Run
        BY <2>1, RunShape, Zenon DEF TypeOK
    <2>2. CASE VmStep
        BY <2>2, Zenon DEF TypeOK, VmStep, shutdown, ShutdownStep, SchedulerJoined, CleanupJoined,
           ShutdownAnswered, Closed, Drop, DispatcherAborted, vmVars
    <2>3. CASE HostStep \/ GuestStep \/ Over \/ UNCHANGED vars
        BY <2>3, ZenonT(30) DEF TypeOK, HostStep, GuestStep, Over, vars, vmVars
    <2> QED BY <2>1, <2>2, <2>3 DEF Next
<1>8. GuestTypeOK'
    BY <1>1, <1>2, ZenonT(30) DEF GuestTypeOK, GuestVarsOK, PlaceInv
<1>9. HostTypeOK'
    BY <1>3, <1>4, <1>5 DEF HostTypeOK, PlaceInv, PermitInv
<1> QED BY <1>6, <1>7, <1>8, <1>9 DEF TypeOK

-----------------------------------------------------------------------------
(* The start of a process is executed once *)

\* A caller submits the start of a process when it begins the run, and then only.
LEMMA RunStarts ==
    ASSUME TypeOK, Run, NEW p \in Process
    PROVE  /\ <<"start", p>> \in sending' => <<"start", p>> \in sending \/ runner[p] = "idle"
           /\ runner'[p] = "idle" =>
                runner[p] = "idle" /\ (<<"start", p>> \in sending' => <<"start", p>> \in sending)
<1> DEFINE r == <<"start", p>>
           Goal == /\ r \in sending' => r \in sending \/ runner[p] = "idle"
                   /\ runner'[p] = "idle" =>
                        runner[p] = "idle" /\ (r \in sending' => r \in sending)
<1> SUFFICES Goal
    OBVIOUS
<1>1. PICK c \in Caller : RunChoice(c)
    BY DEF Run
<1>2. runner \in [Caller -> Awaiting \cup Draining \cup Ended \cup {"idle"}] /\ p \in Caller
    BY DEF TypeOK, Caller
<1>3. ASSUME NEW state, state # "idle", runner' = [runner EXCEPT ![c] = state]
      PROVE  runner'[p] = "idle" => runner[p] = "idle" /\ c # p
    BY <1>2, <1>3, ZenonT(30)
<1>4. CASE Begin(c)
    <2>1. sending' \subseteq sending \cup {<<FirstOp(c), c>>} /\ runner[c] = "idle"
        BY <1>4 DEF Begin, Submit
    <2>2. runner'[p] = "idle" => runner[p] = "idle" /\ c # p
        BY <1>3, <1>4, Zenon DEF Begin, FirstOp
    <2>3. c # p => <<FirstOp(c), c>> # r
        BY ZenonT(30)
    <2> QED BY <2>1, <2>2, <2>3
<1>5. ASSUME r \in sending' => r \in sending, runner'[p] = "idle" => runner[p] = "idle"
      PROVE  Goal
    BY <1>5
<1> HIDE DEF Goal
<1>6. CASE Started(c)
    <2>1. r \in sending' => r \in sending
        BY <1>6 DEF Started, Submit
    <2>2. runner'[p] = "idle" => runner[p] = "idle"
        BY <1>3, <1>6 DEF Started
    <2> QED BY <1>5, <2>1, <2>2, ZenonT(30)
<1>7. CASE \E why : EndWait(c, why)
    <2>1. r \in sending' => r \in sending
        BY <1>7 DEF EndWait, Submit
    <2>2. runner'[p] = "idle" => runner[p] = "idle"
        BY <1>3, <1>7, ZenonT(30) DEF EndWait
    <2> QED BY <1>5, <2>1, <2>2
<1>8. CASE StopAnswered(c) \/ CloseAnswered(c) \/ OutputDrained(c)
    <2>1. \/ Submit({<<"close", c>>}, <<"stop", c>>)
          \/ \E over : Submit({}, over) \/ Submit(DropCleanup(c), over)
        BY <1>8, EndShape, ZenonT(30)
    <2>2. r \in sending' => r \in sending
        BY <2>1 DEF DropCleanup, Submit
    <2>3. runner'[p] = "idle" => runner[p] = "idle"
        <3>1. PICK state \in Awaiting \cup Draining \cup Ended : runner' = [runner EXCEPT ![c] = state]
            BY <1>1, RunnerShape
        <3>2. state # "idle"
            BY DEF Awaiting, Draining, Ended
        <3> QED BY <1>3, <3>1, <3>2
    <2> QED BY <1>5, <2>2, <2>3
<1>10. CASE FileAnswered(c)
    <2>1. r \in sending' => r \in sending
        BY <1>10 DEF FileAnswered, Submit
    <2>2. runner'[p] = "idle" => runner[p] = "idle"
        BY <1>3, <1>10, ZenonT(30) DEF FileAnswered
    <2> QED BY <1>5, <2>1, <2>2
<1>11. CASE Abort(c)
    <2>1. r \in sending' => r \in sending
        BY <1>11 DEF Abort, DropCleanup, Submit
    <2>2. runner'[p] = "idle" => runner[p] = "idle"
        BY <1>3, <1>11, Zenon DEF Abort
    <2> QED BY <1>5, <2>1, <2>2
<1> QED BY <1>1, <1>4, <1>6, <1>7, <1>8, <1>10, <1>11, ZenonT(30)
      DEF RunChoice, RunStep, WaitAnswered, Interrupted

\* What the guest does to the start of a process and to the process.
LEMMA GuestStarts ==
    ASSUME TypeOK, GuestNext, NEW p \in Process
    PROVE  LET r == <<"start", p>> IN
           /\ \/ conn'[r] = conn[r]
              \/ conn'[r] = "none"
              \/ /\ r \in running \/ conn[r] # "none"
                 /\ conn'[r] \notin {"dialed", "sent"}
                 /\ conn'[r] = "admitted" => conn[r] = "dialed"
           /\ \/ process'[p] = process[p]
              \/ process'[p] = "none"
              \/ process[p] # "none"
              \/ conn[r] = "sent" /\ conn'[r] \notin {"dialed", "admitted", "sent"}
<1> DEFINE r == <<"start", p>>
           C == \/ conn'[r] = conn[r]
                \/ conn'[r] = "none"
                \/ /\ r \in running \/ conn[r] # "none"
                   /\ conn'[r] \notin {"dialed", "sent"}
                   /\ conn'[r] = "admitted" => conn[r] = "dialed"
<1>1. r \in Request /\ conn \in [Request -> Connection] /\ process \in [Process -> Child]
    BY DEF Request, Op, TypeOK, GuestTypeOK
<1>2. ASSUME NEW x \in Request, NEW state \in {"event", "error", "refused"}, Leave(x, state)
      PROVE  C /\ (x = r => conn'[r] \notin {"dialed", "admitted", "sent"})
    BY <1>1, <1>2 DEF Leave, Served
<1>3. ASSUME NEW x \in Request, NEW state \in {"admitted", "looking", "unseen", "asleep"},
             Leave(x, state),
             conn[x] # "none", state = "admitted" => conn[x] = "dialed"
      PROVE  C
    BY <1>1, <1>3, ZenonT(30) DEF Leave, Served
<1> HIDE DEF C
<1> DEFINE P == \/ process'[p] = process[p]
                \/ process'[p] = "none"
                \/ process[p] # "none"
                \/ conn[r] = "sent" /\ conn'[r] \notin {"dialed", "admitted", "sent"}
<1> SUFFICES C /\ P
    BY DEF C
<1>4. process' = process => P
    BY ZenonT(30)
<1>5. ASSUME NEW x \in Request, Accept(x) \/ GiveUp(x) PROVE C /\ P
    <2>1. process' = process
        BY <1>5 DEF Accept, GiveUp
    <2>2. Leave(x, "refused") \/ (Leave(x, "admitted") /\ conn[x] = "dialed")
        BY <1>5 DEF Accept, GiveUp
    <2> QED BY <1>2, <1>3, <1>4, <2>1, <2>2
<1>6. ASSUME NEW x \in Request, ProcessStart(x) PROVE C /\ P
    <2>1. Leave(x, "event") \/ Leave(x, "error")
        BY <1>6 DEF ProcessStart
    <2>2. C /\ (x = r => conn'[r] \notin {"dialed", "admitted", "sent"})
        BY <1>2, <2>1, ZenonT(30)
    <2>3. /\ conn[x] = "sent"
          /\ process' = process \/ process' = [process EXCEPT ![x[2]] = "running"]
        BY <1>6, ZenonT(30) DEF ProcessStart, Reads
    <2>4. x[2] = p => x = r
        BY <1>6 DEF ProcessStart, Reads, Request, Op, Shutdown
    <2> QED BY <1>1, <2>2, <2>3, <2>4
<1>7. ASSUME NEW x \in Request, ProcessWait(x) \/ ProcessStop(x) PROVE C /\ P
    <2>1. Leave(x, "error") \/ Leave(x, "looking")
        BY <1>7, ZenonT(30) DEF ProcessWait, ProcessStop, AwaitExit
    <2>2. process' = process /\ conn[x] # "none"
        BY <1>7, ZenonT(30) DEF ProcessWait, ProcessStop, Reads
    <2> QED BY <1>2, <1>3, <1>4, <2>1, <2>2, ZenonT(30)
<1>8. ASSUME NEW x \in Request, ProcessClose(x) \/ FileCommand(x) \/ VMShutdown(x)
      PROVE  C /\ P
    <2>1. Leave(x, "event") \/ Leave(x, "error")
        BY <1>8, Zenon DEF ProcessClose, FileCommand, VMShutdown
    <2>2. process' = process
        BY <1>8, ZenonT(30) DEF ProcessClose, FileCommand, VMShutdown
    <2> QED BY <1>2, <1>4, <2>1, <2>2
<1>11. ASSUME NEW x \in Request, Look(x) \/ Sleep(x) \/ Wake(x)
      PROVE  C /\ P
    <2>1. \/ Leave(x, "event") \/ Leave(x, "error")
          \/ Leave(x, "looking") \/ Leave(x, "unseen") \/ Leave(x, "asleep")
        BY <1>11, Zenon DEF Look, Sleep, Wake, AwaitExit, ExitReply
    <2>2. process' = process /\ conn[x] # "none"
        BY <1>11, ZenonT(30) DEF Look, Sleep, Wake
    <2> QED BY <1>2, <1>3, <1>4, <2>1, <2>2, ZenonT(30)
<1>9. ASSUME NEW q \in Process, Record(q) \/ NotifyWaiters(q) PROVE C /\ P
    <2>1. conn' = conn /\ process[q] # "none"
          /\ \E s : process' = [process EXCEPT ![q] = s]
        BY <1>9, ZenonT(30) DEF Record, NotifyWaiters, Recording
    <2> QED BY <1>1, <2>1, ZenonT(30) DEF C
<1>12. CASE FallMute
    <2>1. conn' = conn /\ process' = process
        BY <1>12 DEF FallMute
    <2> QED BY <1>4, <2>1, ZenonT(30) DEF C
<1>10. CASE Down
    <2>1. process'[p] = "none" /\ conn'[r] \in {conn[r], "none"}
        BY <1>1, <1>10 DEF Down, Vanish
    <2> QED BY <2>1 DEF C
<1> HIDE DEF P
<1> QED BY <1>5, <1>6, <1>7, <1>8, <1>9, <1>10, <1>11, <1>12, ZenonT(30) DEF GuestNext, Handle

\* A step that adds no request, and forgets some.
Shrinks(p) ==
    /\ sending' \subseteq sending \cup {Shutdown}
    /\ channel' = channel \/ channel' = <<>>
    /\ pending' = pending \/ pending' = <<>>
    /\ running' \subseteq running
    /\ conn'[<<"start", p>>] \in {conn[<<"start", p>>], "none"}
    /\ process'[p] \in {process[p], "none"}
    /\ runner' = runner

\* Such a step leaves the start of a process where it is, or nowhere.
LEMMA ShrinkStarts ==
    ASSUME NEW p \in Process, StartInv(p), Shrinks(p)
    PROVE  StartInv(p)'
<1> DEFINE r == <<"start", p>>
<1>1. r # Shutdown
    BY DEF Shutdown
<1>2. InQueue(<<>>) = {} /\ Once(<<>>, r)
    BY DEF InQueue, Once
<1>3. /\ r \in sending' => r \in sending
      /\ r \in InQueue(channel') => r \in InQueue(channel)
      /\ r \in InQueue(pending') => r \in InQueue(pending)
      /\ Once(channel', r) /\ Once(pending', r)
    BY <1>1, <1>2 DEF Shrinks, StartInv
<1>4. r \in running' => r \in running
    BY DEF Shrinks
<1> QED BY <1>3, <1>4, Zenon DEF Shrinks, StartInv, Queued

\* The start of a process is in one place, and is executed at most once.
LEMMA StartStep ==
    ASSUME TypeOK, PlaceInv, NEW p \in Process, StartInv(p), [Next]_vars, Passes
    PROVE  StartInv(p)'
<1> DEFINE r == <<"start", p>>
<1>0. /\ r \in Request /\ r # Shutdown /\ conn \in [Request -> Connection]
      /\ process \in [Process -> Child]
      /\ channel \in Seq(Request) /\ pending \in Seq(Request) /\ sending \subseteq Request
    BY DEF TypeOK, GuestTypeOK, PlaceInv, Request, Op, Shutdown
<1>1. CASE Run
    <2>1. UNCHANGED <<channel, pending, running, conn, process>>
        BY <1>1, ZenonT(30) DEF Run, Submits, guestVars
    <2>2. /\ r \in sending' => r \in sending \/ runner[p] = "idle"
          /\ runner'[p] = "idle" => runner[p] = "idle" /\ (r \in sending' => r \in sending)
        BY <1>1, RunStarts, ZenonT(30)
    <2> QED BY <2>1, <2>2, Zenon DEF StartInv, Queued
<1>2. ASSUME Vanish \/ UNCHANGED guestVars, UNCHANGED <<running, channel, pending, runner>>,
             sending' \subseteq sending \cup {Shutdown}
      PROVE  Shrinks(p)
    <2>1. conn'[r] \in {conn[r], "none"} /\ process'[p] \in {process[p], "none"}
        BY <1>0, <1>2 DEF Vanish, guestVars
    <2> QED BY <1>2, <2>1, ZenonT(30) DEF Shrinks
<1>3. CASE VmStep /\ ~DispatcherAborted
    <2>1. Vanish \/ UNCHANGED guestVars
        BY <1>3, SMTT(20) DEF VmStep, Closed, Drop
    <2>2. UNCHANGED <<running, channel, pending, runner>>
        BY <1>3, Zenon DEF VmStep, shutdown, ShutdownStep, SchedulerJoined, CleanupJoined,
           ShutdownAnswered, Closed, Drop, hostVars, runVars
    <2>3. sending' \subseteq sending \cup {Shutdown}
        BY <1>3, Zenon DEF VmStep, shutdown, ShutdownStep, SchedulerJoined, CleanupJoined,
           ShutdownAnswered, Submit, Closed, Drop, hostVars
    <2> QED BY <1>2, <2>1, <2>2, <2>3, ShrinkStarts, ZenonT(30)
<1>4. ASSUME DropDispatcher, UNCHANGED runner PROVE StartInv(p)'
    <2>1. conn'[r] \in {conn[r], "none"}
        BY <1>0, <1>4 DEF DropDispatcher, HangUp
    <2>2. Shrinks(p)
        BY <1>4, <2>1, ZenonT(30) DEF DropDispatcher, Shrinks
    <2> QED BY <2>2, ShrinkStarts, ZenonT(30)
<1>5. ASSUME Stop, UNCHANGED runner PROVE StartInv(p)'
    <2>1. Shrinks(p)
        BY <1>5, Zenon DEF Stop, guestVars, Shrinks
    <2> QED BY <2>1, ShrinkStarts
<1>6. ASSUME NEW queue \in Seq(Request), Iteration(queue), UNCHANGED runner PROVE StartInv(p)'
    <2>1. PICK started \in SUBSET Request : Passed(queue, started)
        BY <1>6, ZenonT(30) DEF Iteration, Passes
    <2>2. /\ started \subseteq InQueue(queue) /\ running' = running \cup started
          /\ InQueue(pending') = (InQueue(queue) \ late) \ started
          /\ Once(queue, r) => Once(pending', r)
          /\ process' = process /\ sending' = sending /\ runner' = runner
        BY <1>6, <2>1, ZenonT(30) DEF Passed, Iteration
    <2>3. conn'[r] = IF r \in started THEN "dialed" ELSE conn[r]
        BY <1>0, <2>1, SMTT(20) DEF Passed
    <2>4. /\ Once(channel', r) /\ Once(queue, r)
          /\ r \in InQueue(queue) => r \notin InQueue(channel')
          /\ r \in InQueue(queue) => r \in InQueue(pending) \/ r \in InQueue(channel)
          /\ r \in InQueue(channel') => r \in InQueue(channel)
        <3>1. CASE queue = pending /\ channel' = channel
            BY <3>1, Zenon DEF StartInv
        <3>2. CASE channel # <<>> /\ channel' = Tail(channel)
                   /\ queue = Append(pending, Head(channel))
            <4>1. /\ Head(channel) \in Request
                  /\ InQueue(channel) = {Head(channel)} \cup InQueue(channel')
                  /\ Once(channel, r) =>
                       Once(channel', r) /\ (r = Head(channel) => r \notin InQueue(channel'))
                BY <1>0, <3>2, TailFacts, Zenon
            <4>2. /\ InQueue(queue) = InQueue(pending) \cup {Head(channel)}
                  /\ Once(pending, r) /\ (r = Head(channel) => r \notin InQueue(pending))
                       => Once(queue, r)
                BY <1>0, <3>2, <4>1, AppendFacts
            <4> QED BY <4>1, <4>2, Zenon DEF StartInv
        <3> QED BY <1>6, <3>1, <3>2, Zenon DEF Iteration
    <2>5. CASE r \in started
        <3>1. /\ Queued(r) /\ r \notin sending
              /\ r \notin InQueue(channel') /\ r \notin InQueue(pending')
            BY <2>2, <2>4, <2>5, Zenon DEF Queued, StartInv
        <3>2. process[p] = "none" /\ runner[p] # "idle"
            BY <3>1, Zenon DEF StartInv
        <3> QED BY <2>2, <2>4, <3>1, <3>2, Zenon DEF StartInv, Queued
    <2>6. CASE r \notin started
        <3>1. conn'[r] = conn[r] /\ (r \in running' <=> r \in running)
            BY <2>2, <2>3, <2>6, Zenon
        <3>2. r \in InQueue(pending') => r \in InQueue(queue)
            BY <2>2
        <3> QED BY <2>2, <2>4, <3>1, <3>2, Zenon DEF StartInv, Queued
    <2> QED BY <2>5, <2>6
<1>7. CASE LoopStep /\ UNCHANGED runner
    BY <1>0, <1>4, <1>5, <1>6, <1>7, LoopShape, ZenonT(30)
<1>8. ASSUME NEW x \in Request, Send(x), UNCHANGED runner PROVE StartInv(p)'
    <2>1. /\ x \in sending /\ sending' = sending \ {x} /\ channel' = Append(channel, x)
          /\ UNCHANGED <<conn, process, running, pending, runner>>
        BY <1>8, ZenonT(30) DEF Send, guestVars
    <2>2. /\ InQueue(channel') = InQueue(channel) \cup {x}
          /\ Once(channel, r) /\ (r = x => r \notin InQueue(channel)) => Once(channel', r)
        BY <1>0, <2>1, AppendFacts
    <2>3. CASE x = r
        BY <2>1, <2>2, <2>3, Zenon DEF StartInv, Queued
    <2>4. CASE x # r
        BY <2>1, <2>2, <2>4, Zenon DEF StartInv, Queued
    <2> QED BY <2>3, <2>4, ZenonT(30)
<1>9. ASSUME NEW x \in Request, SendFails(x) \/ Expire(x), UNCHANGED runner PROVE StartInv(p)'
    <2>1. Shrinks(p)
        BY <1>9, Zenon DEF SendFails, Expire, guestVars, Shrinks
    <2> QED BY <2>1, ShrinkStarts
<1>10. ASSUME NEW x \in Request, Finish(x), UNCHANGED runner PROVE StartInv(p)'
    <2>1. conn'[r] \in {conn[r], "none"}
        BY <1>0, <1>10 DEF Finish, HangUp
    <2>2. Shrinks(p)
        BY <1>10, <2>1, Zenon DEF Finish, Shrinks
    <2> QED BY <2>2, ShrinkStarts
<1>11. ASSUME NEW x \in Request, SendCommand(x), UNCHANGED runner PROVE StartInv(p)'
    <2>1. /\ UNCHANGED <<sending, channel, pending, running, process, runner>>
          /\ conn[x] = "admitted" /\ conn' = [conn EXCEPT ![x] = "sent"]
        BY <1>11 DEF SendCommand, hostVars
    <2>2. conn'[r] = IF x = r THEN "sent" ELSE conn[r]
        BY <1>0, <2>1
    <2> QED BY <2>1, <2>2, Zenon DEF StartInv, Queued
<1>12. CASE HostStep
    <2>1. UNCHANGED runner
        BY <1>12 DEF HostStep, runVars
    <2> QED BY <1>7, <1>8, <1>9, <1>10, <1>11, <1>12, <2>1 DEF HostStep, SendStep, TaskStep
<1>13. CASE GuestStep
    <2>1. UNCHANGED <<sending, channel, pending, running, runner>>
        BY <1>13 DEF GuestStep, hostVars, runVars
    <2>2. /\ \/ conn'[r] = conn[r]
             \/ conn'[r] = "none"
             \/ /\ r \in running \/ conn[r] # "none"
                /\ conn'[r] \notin {"dialed", "sent"}
                /\ conn'[r] = "admitted" => conn[r] = "dialed"
          /\ \/ process'[p] = process[p]
             \/ process'[p] = "none"
             \/ process[p] # "none"
             \/ conn[r] = "sent" /\ conn'[r] \notin {"dialed", "admitted", "sent"}
        BY <1>13, GuestStarts, Zenon DEF GuestStep
    <2> QED BY <2>1, <2>2, Zenon DEF StartInv, Queued
<1>14. CASE DispatcherAborted
    BY <1>4, <1>14 DEF DispatcherAborted, runVars
<1>15. CASE Over \/ UNCHANGED vars
    <2>1. Shrinks(p)
        BY <1>15, Zenon DEF Over, vars, guestVars, hostVars, runVars, Shrinks
    <2> QED BY <2>1, ShrinkStarts
<1> QED BY <1>1, <1>3, <1>12, <1>13, <1>14, <1>15, ZenonT(30) DEF Next

-----------------------------------------------------------------------------
(* What the guest answers stays true *)

\* A step that tells the run of the process nothing new.
Untold(p) ==
    /\ conn'[<<"wait", p>>] = "event" => conn[<<"wait", p>>] = "event"
    /\ conn'[<<"close", p>>] = "event" => conn[<<"close", p>>] = "event"
    /\ UNCHANGED <<process, table, guest, runner, outcome>>

\* Such a step leaves what the run was told as true as it was.
LEMMA UntoldExits ==
    ASSUME NEW p \in Process, ExitInv(p), Untold(p),
           \A op \in {"wait", "close"} : reply'[<<op, p>>] = "event" =>
              reply[<<op, p>>] = "event" \/ conn[<<op, p>>] = "event"
    PROVE  ExitInv(p)'
BY ZenonT(30) DEF ExitInv, ToldExited, ToldClosed, Untold

\* A guest that is gone has no process.
LEMMA VanishExits ==
    ASSUME NEW p \in Process, ExitInv(p), Vanish, UNCHANGED <<runner, outcome>>
    PROVE  ExitInv(p)' /\ guest' = "down" /\ table' = {}
BY DEF ExitInv, ToldExited, ToldClosed, Vanish

\* What a run believes, it was told by the guest.
LEMMA RunExits ==
    ASSUME TypeOK, PlaceInv, Run, NEW p \in Process, ExitInv(p)
    PROVE  ExitInv(p)'
<1> DEFINE w == <<"wait", p>>
           k == <<"close", p>>
           Told == /\ outcome'[p] = "exit" => outcome[p] = "exit" \/ reply[w] = "event"
                   /\ runner'[p] = "finished" =>
                        \/ runner[p] = "finished" /\ outcome'[p] = outcome[p]
                        \/ outcome[p] = "exit" /\ outcome'[p] = "exit"
                   /\ runner'[p] \in {"finished", "drain"} =>
                        runner[p] \in {"finished", "drain"} \/ reply[k] = "event"
<1>0. UNCHANGED <<conn, process, table, guest>>
    BY DEF Run, Submits, guestVars
<1>1. reply'[w] \in {reply[w], "none"} /\ reply'[k] \in {reply[k], "none"}
    <2>1. PICK requests \in SUBSET Request : \E over : Submit(requests, over)
        BY RunShape, Zenon
    <2>2. w \in Request /\ k \in Request /\ reply \in [Request -> Result \cup {"none"}]
        BY DEF Request, Op, PlaceInv
    <2> QED BY <2>1, <2>2 DEF Submit
<1>2. PICK c \in Caller : RunChoice(c)
    BY DEF Run
<1>3. /\ runner \in [Caller -> Awaiting \cup Draining \cup Ended \cup {"idle"}] /\ p \in Caller
      /\ outcome \in [Process -> {"none", "running", "exit", "other"}]
    BY DEF TypeOK, Caller
<1>4. Told
    <2>1. CASE c # p
        <3>1. runner'[p] = runner[p]
            BY <1>2, <1>3, <2>1, RunnerShape, ZenonT(30)
        <3>2. outcome'[p] = outcome[p]
            BY <1>2, <1>3, <2>1, RunnerShape, ZenonT(30)
        <3> QED BY <3>1, <3>2
    <2>2. CASE c = p
        <3>2. CASE Begin(p) \/ Abort(p)
            <4>1. outcome' = outcome
                BY <3>2, ZenonT(30) DEF Begin, Abort
            <4>2. runner'[p] \notin {"finished", "drain"}
                BY <1>3, <3>2, ZenonT(30) DEF Begin, FirstOp, Abort
            <4> QED BY <4>1, <4>2, ZenonT(30)
        <3>3. CASE Started(p)
            <4>1. outcome' = outcome \/ outcome' = [outcome EXCEPT ![p] = "running"]
                BY <3>3 DEF Started
            <4>2. runner'[p] \notin {"finished", "drain"}
                BY <1>3, <3>3, ZenonT(30) DEF Started
            <4> QED BY <1>3, <4>1, <4>2, ZenonT(30)
        <3>4. CASE WaitAnswered(p)
            <4>1. PICK result \in Observed(w) :
                     EndWait(p, IF result = "event" THEN "exit" ELSE "other")
                BY <3>4 DEF WaitAnswered
            <4>2. outcome'[p] = "exit" => result = "event"
                BY <1>3, <4>1 DEF EndWait
            <4>3. result = "event" => reply[w] = "event"
                BY <4>1, Zenon DEF Observed
            <4>4. runner'[p] \notin {"finished", "drain"}
                BY <1>3, <4>1 DEF EndWait
            <4> QED BY <4>2, <4>3, <4>4
        <3>5. CASE Interrupted(p)
            <4>1. outcome'[p] = "other" /\ runner'[p] = "stop"
                BY <1>3, <3>5 DEF Interrupted, EndWait
            <4> QED BY <4>1
        <3>6. CASE StopAnswered(p) \/ CloseAnswered(p) \/ OutputDrained(p)
            <4>1. outcome' = outcome
                BY <3>6, EndShape, ZenonT(30)
            <4>2. PICK state : /\ runner' = [runner EXCEPT ![p] = state]
                               /\ state \in {"finished", "drain"} =>
                                    runner[p] = "drain" \/ reply[k] = "event"
                               /\ state = "finished" => outcome[p] = "exit"
                BY <3>6, EndShape, ZenonT(30)
            <4>3. runner'[p] = state
                BY <1>3, <4>2, ZenonT(30)
            <4> QED BY <4>1, <4>2, <4>3, Zenon
        <3> QED BY <1>2, <2>2, <3>2, <3>3, <3>4, <3>5, <3>6, ZenonT(30) DEF RunChoice, RunStep
    <2> QED BY <2>1, <2>2, Zenon
<1> QED BY <1>0, <1>1, <1>4, Zenon DEF ExitInv, ToldExited, ToldClosed

\* The guest answers what is so, and does not take it back.
LEMMA GuestExits ==
    ASSUME TypeOK, GuestNext, SleepInv, NEW p \in Process, ExitInv(p), StartInv(p),
           UNCHANGED <<reply, runner, outcome>>
    PROVE  ExitInv(p)'
<1> DEFINE w == <<"wait", p>>
           k == <<"close", p>>
<1>0. /\ w \in Request /\ k \in Request /\ conn \in [Request -> Connection]
      /\ process \in [Process -> Child] /\ table \subseteq Process
    BY DEF Request, Op, TypeOK, GuestTypeOK
<1>1. ASSUME NEW x \in Request, NEW state, Leave(x, state)
      PROVE  /\ conn'[w] = "event" => conn[w] = "event" \/ (x = w /\ state = "event")
             /\ conn'[k] = "event" => conn[k] = "event" \/ (x = k /\ state = "event")
    BY <1>0, <1>1 DEF Leave, Served
<1>a. ASSUME NEW x \in Request, Leave(x, "error")
      PROVE  /\ conn'[w] = "event" => conn[w] = "event"
             /\ conn'[k] = "event" => conn[k] = "event"
    BY <1>1, <1>a
<1>2. ASSUME Untold(p) PROVE ExitInv(p)'
    BY <1>2, UntoldExits, Zenon
<1>3. ASSUME NEW x \in Request, Accept(x) \/ GiveUp(x) PROVE ExitInv(p)'
    <2>1. Leave(x, "admitted") \/ Leave(x, "refused")
        BY <1>3 DEF Accept, GiveUp
    <2>2. UNCHANGED <<process, table, guest>>
        BY <1>3, ZenonT(30) DEF Accept, GiveUp
    <2>3. /\ conn'[w] = "event" => conn[w] = "event"
          /\ conn'[k] = "event" => conn[k] = "event"
        BY <1>1, <2>1
    <2>4. Untold(p)
        BY <2>2, <2>3 DEF Untold
    <2> QED BY <1>2, <2>4
<1>4. ASSUME NEW x \in Request, FileCommand(x) PROVE ExitInv(p)'
    <2>1. Leave(x, "event") \/ Leave(x, "error")
        BY <1>4, ZenonT(30) DEF FileCommand
    <2>2. UNCHANGED <<process, table, guest>> /\ x[1] = "file"
        BY <1>4 DEF FileCommand, Reads
    <2>3. x # w /\ x # k
        BY <2>2
    <2>4. Untold(p)
        BY <1>1, <2>1, <2>2, <2>3 DEF Untold
    <2> QED BY <1>2, <2>4
<1>5. ASSUME NEW x \in Request, VMShutdown(x) PROVE ExitInv(p)'
    <2>1. Leave(x, "event") /\ UNCHANGED <<process, table>> /\ x[1] = "shutdown"
          /\ guest # "down"
        BY <1>5 DEF VMShutdown, Reads, Works
    <2>2. x # w /\ x # k
        BY <2>1
    <2>3. /\ conn'[w] = "event" => conn[w] = "event"
          /\ conn'[k] = "event" => conn[k] = "event"
        BY <1>1, <2>1, <2>2, ZenonT(30)
    <2> QED BY <2>1, <2>3, Zenon DEF ExitInv, ToldExited, ToldClosed
<1>6. ASSUME NEW x \in Request, ProcessStart(x) PROVE ExitInv(p)'
    <2>1. Leave(x, "event") \/ Leave(x, "error")
        BY <1>6, ZenonT(30) DEF ProcessStart
    <2>2. /\ x[1] = "start" /\ conn[x] = "sent" /\ guest # "down"
          /\ UNCHANGED guest
          /\ \/ UNCHANGED <<process, table>>
             \/ /\ process' = [process EXCEPT ![x[2]] = "running"]
                /\ table' = table \cup {x[2]}
        BY <1>6, ZenonT(30) DEF ProcessStart, Reads, Works
    <2>3. x # w /\ x # k /\ (x[2] = p => x = <<"start", p>>)
        <3>1. x # w /\ x # k
            BY <2>2
        <3>2. x \in Op \X Process \/ x[1] # "start"
            BY DEF Request, Shutdown
        <3> QED BY <2>2, <3>1, <3>2
    <2>4. /\ conn'[w] = "event" => conn[w] = "event"
          /\ conn'[k] = "event" => conn[k] = "event"
        BY <1>1, <2>1, <2>3, Zenon
    <2>5. CASE UNCHANGED <<process, table>>
        BY <1>2, <2>2, <2>4, <2>5, Zenon DEF Untold
    <2>6. CASE /\ process' = [process EXCEPT ![x[2]] = "running"]
               /\ table' = table \cup {x[2]}
        <3>1. CASE x[2] # p
            <4>1. process'[p] = process[p] /\ (p \in table' <=> p \in table)
                BY <1>0, <2>6, <3>1
            <4> QED BY <2>2, <2>4, <4>1, Zenon DEF ExitInv, ToldExited, ToldClosed
        <3>2. CASE x[2] = p
            <4>1. process[p] = "none"
                BY <2>2, <2>3, <3>2, Zenon DEF StartInv
            <4>2. process'[p] = "running"
                BY <1>0, <2>6, <3>2
            <4>3. /\ conn[w] # "event" /\ reply[w] # "event" /\ outcome[p] # "exit"
                  /\ conn[k] # "event" /\ reply[k] # "event"
                  /\ runner[p] \notin {"finished", "drain"}
                BY <2>2, <4>1, Zenon DEF ExitInv, ToldExited, ToldClosed
            <4> QED BY <2>2, <2>4, <4>2, <4>3, Zenon DEF ExitInv, ToldExited, ToldClosed
        <3> QED BY <3>1, <3>2
    <2> QED BY <2>2, <2>5, <2>6
<1>7. ASSUME NEW x \in Request, ProcessWait(x) \/ ProcessStop(x) PROVE ExitInv(p)'
    <2>1. UNCHANGED <<process, table, guest>>
        BY <1>7, Zenon DEF ProcessWait, ProcessStop
    <2>2. Leave(x, "error") \/ Leave(x, "looking")
        BY <1>7, Zenon DEF ProcessWait, ProcessStop, AwaitExit
    <2>3. /\ conn'[w] = "event" => conn[w] = "event"
          /\ conn'[k] = "event" => conn[k] = "event"
        BY <1>1, <2>2
    <2>4. Untold(p)
        BY <2>1, <2>3 DEF Untold
    <2> QED BY <1>2, <2>4
<1>8. ASSUME NEW x \in Request, ProcessClose(x) PROVE ExitInv(p)'
    <2>1. /\ UNCHANGED <<process, guest>> /\ table' = table \ {x[2]}
          /\ x[1] \in {"close", "cleanup"}
          /\ Leave(x, IF x[2] \in table THEN "event" ELSE "error")
        BY <1>8, Zenon DEF ProcessClose, Closing, Reads
    <2>2. /\ conn'[w] = "event" => conn[w] = "event"
          /\ conn'[k] = "event" => conn[k] = "event" \/ (x[2] = p /\ p \in table)
        <3>1. CASE x[2] \notin table
            <4>1. Leave(x, "error")
                BY <2>1, <3>1, SMTT(20)
            <4> QED BY <1>a, <4>1, Zenon
        <3>2. CASE x[2] \in table
            <4>1. Leave(x, "event")
                BY <2>1, <3>2, ZenonT(30)
            <4>2. /\ conn'[w] = "event" => conn[w] = "event" \/ x = w
                  /\ conn'[k] = "event" => conn[k] = "event" \/ x = k
                BY <1>1, <4>1
            <4>3. x # w /\ (x = k => x[2] = p)
                BY <2>1
            <4> QED BY <3>2, <4>2, <4>3, Zenon
        <3> QED BY <3>1, <3>2, ZenonT(30)
    <2>3. p \in table' => p \in table /\ x[2] # p
        BY <2>1, ZenonT(30)
    <2> QED BY <2>1, <2>2, <2>3, Zenon DEF ExitInv, ToldExited, ToldClosed
<1>9. ASSUME NEW x \in Request, Sleep(x) \/ Wake(x) PROVE ExitInv(p)'
    <2>1. UNCHANGED <<process, table, guest>> /\ (Leave(x, "looking") \/ Leave(x, "asleep"))
        BY <1>9, Zenon DEF Sleep, Wake, AwaitExit
    <2>2. /\ conn'[w] = "event" => conn[w] = "event"
          /\ conn'[k] = "event" => conn[k] = "event"
        BY <1>1, <2>1
    <2>3. Untold(p)
        BY <2>1, <2>2 DEF Untold
    <2> QED BY <1>2, <2>3
<1>12. ASSUME NEW x \in Request, Look(x) PROVE ExitInv(p)'
    <2>1. /\ UNCHANGED <<process, table, guest>> /\ Waits(conn[x])
          /\ \/ Leave(x, "error") \/ Leave(x, "unseen")
             \/ Leave(x, "event") /\ process[x[2]] = "exited"
        BY <1>12, Zenon DEF Look, ExitReply, Recorded, Waits
    <2>2. x # k /\ (x = w => x[2] = p)
        BY <2>1 DEF SleepInv
    <2>3. /\ conn'[w] = "event" => conn[w] = "event" \/ process[p] = "exited"
          /\ conn'[k] = "event" => conn[k] = "event"
        <3>1. CASE Leave(x, "error") \/ Leave(x, "unseen")
            BY <1>1, <3>1
        <3>2. CASE Leave(x, "event") /\ process[x[2]] = "exited"
            <4>1. /\ conn'[w] = "event" => conn[w] = "event" \/ x = w
                  /\ conn'[k] = "event" => conn[k] = "event" \/ x = k
                BY <1>1, <3>2
            <4> QED BY <2>2, <3>2, <4>1, ZenonT(30)
        <3> QED BY <2>1, <3>1, <3>2, ZenonT(30)
    <2> QED BY <2>1, <2>3, Zenon DEF ExitInv, ToldExited, ToldClosed
<1>10. ASSUME NEW q \in Process, Record(q) \/ NotifyWaiters(q) PROVE ExitInv(p)'
    <2>1. /\ UNCHANGED <<conn, table, guest>> /\ guest # "down"
          /\ process[q] \notin {"none", "exited"}
          /\ \E s : s # "none" /\ process' = [process EXCEPT ![q] = s]
        BY <1>10, ZenonT(30) DEF Record, NotifyWaiters, Recording, Works
    <2>2. CASE q # p
        <3>1. process'[p] = process[p]
            BY <1>0, <2>1, <2>2
        <3> QED BY <2>1, <2>2, <3>1, Zenon DEF ExitInv, ToldExited, ToldClosed
    <2>3. CASE q = p
        <3>1. process[p] # "exited" /\ process'[p] # "none"
            BY <1>0, <2>1, <2>3
        <3> QED BY <2>1, <3>1, Zenon DEF ExitInv, ToldExited, ToldClosed
    <2> QED BY <2>2, <2>3
<1>13. CASE FallMute
    <2>1. UNCHANGED <<conn, process, table>> /\ guest # "down"
        BY <1>13 DEF FallMute, Works
    <2> QED BY <2>1, Zenon DEF ExitInv, ToldExited, ToldClosed
<1>11. CASE Down
    BY <1>11, VanishExits DEF Down
<1> QED BY <1>3, <1>4, <1>5, <1>6, <1>7, <1>8, <1>9, <1>10, <1>11, <1>12, <1>13, ZenonT(30)
      DEF GuestNext, Handle

\* Only ProcessWait and ProcessStop wait, and they are not forgotten.
LEMMA SleepStep ==
    ASSUME TypeOK, PlaceInv, SleepInv, [Next]_vars, Passes
    PROVE  SleepInv'
<1> DEFINE Dozes(state) == state \in {"unseen", "asleep"}
<1>0. conn \in [Request -> Connection] /\ process \in [Process -> Child]
    BY DEF TypeOK, GuestTypeOK
<1>a. \A r \in Request : r[1] \in {"wait", "stop"} => r[2] \in Process
    BY DEF Request, Op, Shutdown
<1>1. ASSUME \A r \in Request : Waits(conn'[r]) => Waits(conn[r]) \/ r[1] \in {"wait", "stop"},
             \A r \in Request : Dozes(conn'[r]) =>
                \/ Dozes(conn[r]) /\ (r \in woken => r \in woken')
                \/ ~Recorded(r[2]),
             \A q \in Process : Recorded(q)' => Recorded(q)
      PROVE  SleepInv'
    <2>1. \A r \in Request : Waits(conn'[r]) => r[1] \in {"wait", "stop"}
        BY <1>1, ZenonT(30) DEF SleepInv
    <2>2. ASSUME NEW r \in Request, Dozes(conn'[r]), Recorded(r[2])' PROVE r \in woken'
        <3>1. r[2] \in Process
            BY <1>a, <2>1, <2>2 DEF Waits
        <3>2. Recorded(r[2])
            BY <1>1, <2>2, <3>1
        <3> QED BY <1>1, <2>2, <3>2, ZenonT(30) DEF SleepInv, NoWakeupLost
    <2> QED BY <2>1, <2>2, ZenonT(30) DEF SleepInv, NoWakeupLost
<1>2. ASSUME \A r \in Request : Waits(conn'[r]) => conn'[r] = conn[r],
             woken' = woken, process' = process
      PROVE  SleepInv'
    <2>1. \A q \in Process : Recorded(q)' => Recorded(q)
        BY <1>2, ZenonT(30) DEF Recorded
    <2>2. \A r \in Request : Dozes(conn'[r]) => Dozes(conn[r])
        BY <1>2 DEF Waits
    <2>3. \A r \in Request : Waits(conn'[r]) => Waits(conn[r])
        BY <1>2 DEF Waits
    <2> QED BY <1>1, <1>2, <2>1, <2>2, <2>3, ZenonT(30)
<1>b. CASE Vanish
    <2>1. \A r \in Request : ~Waits(conn'[r])
        BY <1>0, <1>b DEF Vanish, Served, Waits
    <2> QED BY <2>1, ZenonT(30) DEF SleepInv, NoWakeupLost, Waits
<1>3. CASE UNCHANGED guestVars
    BY <1>2, <1>3, ZenonT(30) DEF guestVars
<1>4. CASE DropDispatcher
    <2>1. \A r \in Request : Waits(conn'[r]) => conn'[r] = conn[r]
        BY <1>4 DEF DropDispatcher, HangUp, Waits
    <2> QED BY <1>2, <1>4, <2>1 DEF DropDispatcher
<1>5. ASSUME NEW x \in Request, Finish(x) PROVE SleepInv'
    <2>1. \A r \in Request : Waits(conn'[r]) => conn'[r] = conn[r]
        BY <1>5 DEF Finish, HangUp, Waits
    <2> QED BY <1>2, <1>5, <2>1, Zenon DEF Finish
<1>6. ASSUME NEW x \in Request, SendCommand(x) PROVE SleepInv'
    <2>1. \A r \in Request : Waits(conn'[r]) => conn'[r] = conn[r]
        BY <1>0, <1>6, ZenonT(30) DEF SendCommand, Waits
    <2> QED BY <1>2, <1>6, <2>1 DEF SendCommand
<1>7. ASSUME NEW queue \in Seq(Request), Iteration(queue) PROVE SleepInv'
    <2>1. PICK started \in SUBSET Request : Passed(queue, started)
        BY <1>7, ZenonT(30) DEF Iteration, Passes
    <2>2. \A r \in Request : Waits(conn'[r]) => conn'[r] = conn[r]
        BY <2>1 DEF Passed, Waits
    <2> QED BY <1>2, <2>1, <2>2 DEF Passed
<1>8. CASE LoopStep
    <2>1. Stop => UNCHANGED guestVars
        BY DEF Stop
    <2> QED BY <1>3, <1>4, <1>7, <1>8, <2>1, LoopShape DEF PlaceInv
<1>9. CASE HostStep
    <2>1. ASSUME NEW x \in Request, SendStep(x) \/ Expire(x) PROVE UNCHANGED guestVars
        BY <2>1, ZenonT(30) DEF SendStep, Send, SendFails, Expire
    <2> QED BY <1>3, <1>5, <1>6, <1>8, <1>9, <2>1, ZenonT(30) DEF HostStep, TaskStep
<1>10. CASE Run \/ VmStep \/ Over \/ UNCHANGED vars
    BY <1>b, <1>3, <1>4, <1>10, ZenonT(30)
       DEF Run, Submits, VmStep, Closed, Drop, DispatcherAborted, Over, vars
<1>11. ASSUME NEW x \in Request, NEW state, Leave(x, state)
       PROVE  /\ \A r \in Request : r # x => conn'[r] = conn[r]
              /\ conn'[x] \in {state, "none"}
    BY <1>0, <1>11, ZenonT(30) DEF Leave
<1>c. ~Waits("none")
    BY DEF Waits
<1>12. ASSUME NEW x \in Request, ProcessWait(x) \/ ProcessStop(x) PROVE SleepInv'
    <2>1. x[1] \in {"wait", "stop"} /\ woken' = woken /\ process' = process
        BY <1>12, Zenon DEF ProcessWait, ProcessStop, Reads
    <2>2. conn'[x] \in {"looking", "error", "none"} /\ \A r \in Request : r # x => conn'[r] = conn[r]
        <3>1. Leave(x, "looking") \/ Leave(x, "error")
            BY <1>12, ZenonT(30) DEF ProcessWait, ProcessStop, AwaitExit
        <3> QED BY <1>11, <3>1, ZenonT(30)
    <2>3. \A r \in Request : Dozes(conn'[r]) => Dozes(conn[r])
        BY <2>2
    <2>4. \A r \in Request : Waits(conn'[r]) => Waits(conn[r]) \/ r[1] \in {"wait", "stop"}
        BY <2>1, <2>2, ZenonT(30)
    <2>5. \A q \in Process : Recorded(q)' => Recorded(q)
        BY <2>1, ZenonT(30) DEF Recorded
    <2> QED BY <1>1, <2>1, <2>3, <2>4, <2>5, ZenonT(30)
<1>13. ASSUME NEW x \in Request, Accept(x) \/ GiveUp(x) \/ ProcessClose(x) \/ FileCommand(x)
                                 \/ VMShutdown(x)
       PROVE  SleepInv'
    <2>1. woken' = woken /\ process' = process
        BY <1>13, Zenon DEF Accept, GiveUp, ProcessClose, FileCommand, VMShutdown
    <2>2. \E state \in {"admitted", "refused", "event", "error"} : Leave(x, state)
        BY <1>13, Zenon DEF Accept, GiveUp, ProcessClose, FileCommand, VMShutdown
    <2>3. \A r \in Request : Waits(conn'[r]) => conn'[r] = conn[r]
        BY <1>11, <2>2 DEF Waits
    <2> QED BY <1>2, <2>1, <2>3
<1>14. ASSUME NEW x \in Request, ProcessStart(x) PROVE SleepInv'
    <2>1. woken' = woken /\ (Leave(x, "event") \/ Leave(x, "error"))
        BY <1>14, ZenonT(30) DEF ProcessStart
    <2>2. process' = process \/ process' = [process EXCEPT ![x[2]] = "running"]
        BY <1>14, ZenonT(30) DEF ProcessStart
    <2>3. \A r \in Request : Waits(conn'[r]) => conn'[r] = conn[r]
        BY <1>11, <2>1 DEF Waits
    <2>4. \A q \in Process : Recorded(q)' => Recorded(q)
        BY <1>0, <2>2 DEF Recorded
    <2>5. /\ \A r \in Request : Dozes(conn'[r]) => Dozes(conn[r])
          /\ \A r \in Request : Waits(conn'[r]) => Waits(conn[r])
        BY <2>3 DEF Waits
    <2> QED BY <1>1, <2>1, <2>4, <2>5, ZenonT(30)
<1>15. ASSUME NEW x \in Request, Look(x) \/ Sleep(x) \/ Wake(x) PROVE SleepInv'
    <2>1. process' = process /\ Waits(conn[x]) /\ \A r \in Request : r # x /\ r \in woken => r \in woken'
        BY <1>15, Zenon DEF Look, Sleep, Wake, Waits
    <2>2. \A r \in Request : r # x => conn'[r] = conn[r]
        <3>1. \E state : Leave(x, state)
            BY <1>15, ZenonT(30) DEF Look, Sleep, Wake, AwaitExit
        <3> QED BY <1>11, <3>1
    <2>3. Dozes(conn'[x]) => \/ Dozes(conn[x]) /\ woken' = woken
                             \/ ~Recorded(x[2])
        <3>1. CASE Look(x)
            <4>1. \/ Leave(x, "event") \/ Leave(x, "error")
                  \/ ~Recorded(x[2])
                BY <3>1, ZenonT(30) DEF Look, ExitReply
            <4> QED BY <1>11, <4>1
        <3>2. CASE Sleep(x)
            BY <3>2 DEF Sleep
        <3>3. CASE Wake(x)
            <4>1. Leave(x, "looking")
                BY <3>3 DEF Wake, AwaitExit
            <4> QED BY <1>11, <4>1
        <3> QED BY <1>15, <3>1, <3>2, <3>3
    <2>4. \A r \in Request : Waits(conn'[r]) => Waits(conn[r])
        BY <2>1, <2>2, ZenonT(30)
    <2>5. \A r \in Request : Dozes(conn'[r]) =>
             (Dozes(conn[r]) /\ (r \in woken => r \in woken')) \/ ~Recorded(r[2])
        <3> HIDE DEF Dozes
        <3> QED BY <2>1, <2>2, <2>3, ZenonT(30)
    <2>6. \A q \in Process : Recorded(q)' => Recorded(q)
        BY <2>1, ZenonT(30) DEF Recorded
    <2> QED BY <1>1, <2>4, <2>5, <2>6, ZenonT(30)
<1>16. ASSUME NEW p \in Process, Record(p) PROVE SleepInv'
    <2>1. conn' = conn /\ woken' = woken
        BY <1>16 DEF Record
    <2>2. \A q \in Process : Recorded(q)' => Recorded(q)
        BY <1>0, <1>16 DEF Record, Recorded
    <2> QED BY <1>1, <2>1, <2>2, ZenonT(30)
<1>17. ASSUME NEW p \in Process, NotifyWaiters(p) PROVE SleepInv'
    <2>1. conn' = conn /\ woken' = woken \cup Notified(p)
        BY <1>17 DEF NotifyWaiters
    <2>2. \A q \in Process : q # p => (Recorded(q)' => Recorded(q))
        BY <1>0, <1>17 DEF NotifyWaiters, Recorded
    <2>3. \A r \in Request : Waits(conn'[r]) => r[1] \in {"wait", "stop"}
        BY <2>1, ZenonT(30) DEF SleepInv
    <2>4. ASSUME NEW r \in Request, Dozes(conn'[r]), Recorded(r[2])' PROVE r \in woken'
        <3>1. r[2] \in Process
            BY <1>a, <2>3, <2>4 DEF Waits
        <3>2. CASE r[2] = p
            BY <2>1, <2>4, <3>2 DEF Notified
        <3>3. CASE r[2] # p
            <4>1. Recorded(r[2])
                BY <2>2, <2>4, <3>1, <3>3
            <4> QED BY <2>1, <2>4, <4>1, ZenonT(30) DEF SleepInv, NoWakeupLost
        <3> QED BY <3>2, <3>3
    <2> QED BY <2>3, <2>4, ZenonT(30) DEF SleepInv, NoWakeupLost
<1>18. CASE FallMute
    BY <1>2, <1>18, ZenonT(30) DEF FallMute
<1>19. CASE GuestStep
    BY <1>b, <1>12, <1>13, <1>14, <1>15, <1>16, <1>17, <1>18, <1>19, ZenonT(30)
       DEF GuestStep, GuestNext, Handle, Down
<1> QED BY <1>9, <1>10, <1>19 DEF Next

\* The guest's answers, and what has been made of them, stay true in every step.
LEMMA GoneStep ==
    ASSUME TypeOK, PlaceInv, GoneInv, [Next]_vars, Passes
    PROVE  GoneInv'
<1>1. ASSUME NEW p \in Process PROVE StartInv(p)'
    BY StartStep DEF GoneInv
<1>2. SleepInv'
    BY SleepStep DEF GoneInv
<1>3. guest' = "down" => table' = {}
    <2>1. CASE Vanish
        BY <2>1 DEF Vanish
    <2>2. CASE UNCHANGED <<table, guest>>
        BY <2>2 DEF GoneInv
    <2>3. CASE GuestStep
        <3>1. guest' = "down" => Vanish \/ UNCHANGED <<table, guest>>
            BY <2>3, Zenon DEF GuestStep, GuestNext, Accept, GiveUp, Handle, Reads, ProcessStart,
               ProcessWait, ProcessStop, ProcessClose, Closing, FileCommand, VMShutdown, Look, Sleep,
               Wake, Record, NotifyWaiters, Works, Down, FallMute
        <3> QED BY <2>1, <2>2, <3>1
    <2>4. CASE HostStep
        <3>1. UNCHANGED <<table, guest>>
            BY <2>4, Zenon DEF HostStep, LoopStep, Recv, Join, ExpirePending, start_ready, Stop, Stopped,
               DropDispatcher, SendStep, Send, SendFails, TaskStep, SendCommand, Finish, Expire,
               guestVars
        <3> QED BY <2>2, <3>1
    <2>5. CASE Run \/ VmStep \/ Over \/ UNCHANGED vars
        <3>1. Vanish \/ UNCHANGED <<table, guest>>
            BY <2>5, Zenon DEF Run, Submits, VmStep, Closed, Drop, DispatcherAborted, DropDispatcher,
               Over, vars, guestVars
        <3> QED BY <2>1, <2>2, <3>1
    <2> QED BY <2>3, <2>4, <2>5 DEF Next
<1>4. ASSUME NEW p \in Process PROVE ExitInv(p)'
    <2> DEFINE w == <<"wait", p>>
               k == <<"close", p>>
    <2>0. /\ ExitInv(p) /\ StartInv(p) /\ SleepInv
          /\ w \in Request /\ k \in Request /\ reply \in [Request -> Result \cup {"none"}]
          /\ conn \in [Request -> Connection] /\ w # Shutdown /\ k # Shutdown
        BY Zenon DEF GoneInv, Request, Op, PlaceInv, TypeOK, GuestTypeOK, Shutdown
    <2>1. CASE Run
        BY <2>0, <2>1, RunExits, ZenonT(30)
    <2>2. CASE GuestStep
        BY <2>0, <2>2, GuestExits DEF GuestStep, hostVars, runVars
    <2>3. CASE Vanish /\ UNCHANGED <<runner, outcome>>
        BY <2>0, <2>3, VanishExits, ZenonT(30)
    <2>4. ASSUME Untold(p),
                 \A op \in {"wait", "close"} : reply'[<<op, p>>] = "event" =>
                    reply[<<op, p>>] = "event" \/ conn[<<op, p>>] = "event"
          PROVE  ExitInv(p)'
        BY <2>0, <2>4, UntoldExits, SMTT(20)
    <2>5. ASSUME UNCHANGED <<guestVars, runner, outcome>>,
                 \A op \in {"wait", "close"} : reply'[<<op, p>>] = "event" =>
                    reply[<<op, p>>] = "event"
          PROVE  ExitInv(p)'
        <3>1. Untold(p)
            BY <2>5, ZenonT(30) DEF guestVars, Untold
        <3> QED BY <2>4, <2>5, <3>1, Zenon
    <2>6. ASSUME NEW requests, NEW result, Answer(requests, result), result # "event"
          PROVE  \A op \in {"wait", "close"} : reply'[<<op, p>>] = "event" =>
                    reply[<<op, p>>] = "event"
        BY <2>0, <2>6, ZenonT(30) DEF Answer
    <2>7. ASSUME DropDispatcher, UNCHANGED <<runner, outcome>> PROVE ExitInv(p)'
        <3>1. Untold(p)
            BY <2>0, <2>7 DEF DropDispatcher, HangUp, Untold
        <3>2. Answer(Owned, "shutdown")
            BY <2>7, SMTT(20) DEF DropDispatcher
        <3> QED BY <2>4, <2>6, <3>1, <3>2, ZenonT(30)
    <2>8. ASSUME Stop, UNCHANGED <<runner, outcome>> PROVE ExitInv(p)'
        <3>1. Answer(InQueue(pending), "shutdown") /\ UNCHANGED guestVars
            BY <2>8, ZenonT(30) DEF Stop
        <3> QED BY <2>5, <2>6, <2>8, <3>1, Zenon
    <2>9. ASSUME NEW queue \in Seq(Request), Iteration(queue), UNCHANGED <<runner, outcome>>
          PROVE  ExitInv(p)'
        <3>1. PICK started \in SUBSET Request : Passed(queue, started)
            BY <2>9, SMTT(20) DEF Iteration, Passes
        <3>2. Untold(p)
            BY <2>0, <2>9, <3>1, ZenonT(30) DEF Passed, Untold
        <3>3. Answer(InQueue(queue) \cap late, "timedout")
            BY <3>1 DEF Passed
        <3> QED BY <2>4, <2>6, <3>2, <3>3, ZenonT(30)
    <2>10. CASE LoopStep /\ UNCHANGED <<runner, outcome>>
        BY <2>7, <2>8, <2>9, <2>10, LoopShape, ZenonT(30) DEF PlaceInv
    <2>11. ASSUME NEW x \in Request, Finish(x), UNCHANGED <<runner, outcome>> PROVE ExitInv(p)'
        <3>1. Untold(p)
            BY <2>0, <2>11 DEF Finish, HangUp, Untold
        <3>2. PICK result \in TaskResult(x) : Answer({x}, result)
            BY <2>11 DEF Finish
        <3>3. result = "event" => conn[x] = "event"
            BY <3>2 DEF TaskResult
        <3>4. \A op \in {"wait", "close"} : reply'[<<op, p>>] = "event" =>
                 reply[<<op, p>>] = "event" \/ conn[<<op, p>>] = "event"
            BY <2>0, <3>2, <3>3, ZenonT(30) DEF Answer
        <3> QED BY <2>4, <3>1, <3>4, ZenonT(30)
    <2>12. ASSUME NEW x \in Request, SendCommand(x), UNCHANGED <<runner, outcome>>
           PROVE  ExitInv(p)'
        <3>1. Untold(p) /\ reply' = reply
            BY <2>0, <2>12 DEF SendCommand, hostVars, Untold
        <3> QED BY <2>4, <3>1, ZenonT(30)
    <2>13. ASSUME NEW x \in Request, SendFails(x), UNCHANGED <<runner, outcome>>
           PROVE  ExitInv(p)'
        <3>1. Answer({x}, "shutdown") /\ UNCHANGED guestVars
            BY <2>13, ZenonT(30) DEF SendFails
        <3> QED BY <2>5, <2>6, <2>13, <3>1, Zenon
    <2>14. ASSUME NEW x \in Request, Send(x) \/ Expire(x), UNCHANGED <<runner, outcome>>
           PROVE  ExitInv(p)'
        <3>1. UNCHANGED guestVars /\ reply' = reply
            BY <2>14, ZenonT(30) DEF Send, Expire
        <3> QED BY <2>5, <2>14, <3>1, ZenonT(30)
    <2>15. CASE HostStep
        <3>1. UNCHANGED <<runner, outcome>>
            BY <2>15 DEF HostStep, runVars
        <3> QED BY <2>10, <2>11, <2>12, <2>13, <2>14, <2>15, <3>1 DEF HostStep, SendStep, TaskStep
    <2>16. CASE (shutdown \/ ShutdownStep) /\ UNCHANGED <<guestVars, runVars>>
        <3>1. UNCHANGED <<guestVars, runner, outcome>>
            BY <2>16 DEF runVars
        <3>2. reply'[w] \in {reply[w], "none"} /\ reply'[k] \in {reply[k], "none"}
            BY <2>0, <2>16, Zenon DEF shutdown, ShutdownStep, SchedulerJoined, CleanupJoined,
               ShutdownAnswered, Submit, hostVars
        <3> QED BY <2>5, <3>1, <3>2, Zenon
    <2>17. CASE VmStep
        BY <2>3, <2>7, <2>16, <2>17, ZenonT(30) DEF VmStep, Closed, Drop, DispatcherAborted, runVars
    <2>18. CASE Over \/ UNCHANGED vars
        <3>1. UNCHANGED <<guestVars, runner, outcome>> /\ reply' = reply
            BY <2>18 DEF Over, vars, hostVars, runVars
        <3> QED BY <2>5, <3>1, ZenonT(30)
    <2> QED BY <2>1, <2>2, <2>15, <2>17, <2>18 DEF Next
<1> QED BY <1>1, <1>2, <1>3, <1>4 DEF GoneInv

-----------------------------------------------------------------------------
(* Queues.  Only what follows counts, and needs the theorems of the library. *)

INSTANCE FiniteSetTheorems

\* A set of numbers that is not empty has a least member: what replaces an
\* induction below.
LEMMA LeastMember ==
    ASSUME NEW S, S \subseteq Nat, S # {}
    PROVE  \E n \in S : \A m \in S : n <= m
<1> DEFINE Less == {ss \in Nat \X Nat : ss[1] < ss[2]}
<1>1. IsWellFoundedOn(Less, Nat)
    BY NatLessThanWellFounded DEF Less, OpToRel
<1>2. PICK n \in S : \A m \in S : <<m, n>> \notin Less
    BY <1>1, WFMin, Zenon
<1>3. ASSUME NEW m \in S PROVE n <= m
    <2>1. n \in Nat /\ m \in Nat
        OBVIOUS
    <2>2. m < n => <<m, n>> \in Less
        BY <2>1, ZenonT(30)
    <2> QED BY <1>2, <2>1, <2>2
<1> QED BY <1>3

\* How many requests are retained, one more request at a time.
LEMMA RankStep ==
    ASSUME NEW q, NEW keep, NEW i \in Nat
    PROVE  /\ Rank(q, keep, 0) = 0
           /\ Rank(q, keep, i) \in Nat
           /\ Rank(q, keep, i + 1) =
                IF q[i + 1] \in keep THEN Rank(q, keep, i) + 1 ELSE Rank(q, keep, i)
<1> DEFINE S(n) == {j \in 1 .. n : q[j] \in keep}
<1>1. S(0) = {}
    OBVIOUS
<1>2. IsFiniteSet(S(i)) /\ Cardinality(S(i)) \in Nat
    <2>1. IsFiniteSet(1 .. i)
        BY FS_Interval
    <2>2. S(i) \in SUBSET (1 .. i)
        OBVIOUS
    <2>3. IsFiniteSet(S(i))
        BY <2>1, <2>2, FS_Subset, ZenonT(30)
    <2> QED BY <2>3, FS_CardinalityType
<1>3. CASE q[i + 1] \in keep
    <2>1. S(i + 1) = S(i) \cup {i + 1} /\ i + 1 \notin S(i)
        BY <1>3
    <2>2. Cardinality(S(i + 1)) = Cardinality(S(i)) + 1
        BY <1>2, <2>1, FS_AddElement, Zenon
    <2> QED BY <1>1, <1>2, <2>2, <1>3, FS_EmptySet, ZenonT(30) DEF Rank
<1>4. CASE q[i + 1] \notin keep
    <2>1. S(i + 1) = S(i)
        BY <1>4
    <2> QED BY <1>1, <1>2, <2>1, <1>4, FS_EmptySet, Zenon DEF Rank
<1> QED BY <1>3, <1>4

\* A longer part of the queue retains at least as much.
LEMMA RankGrows ==
    ASSUME NEW q, NEW keep, NEW i \in Nat, NEW j \in Nat, i <= j
    PROVE  Rank(q, keep, i) <= Rank(q, keep, j)
<1> DEFINE S(n) == {k \in 1 .. n : q[k] \in keep}
<1>1. IsFiniteSet(S(j))
    <2>1. IsFiniteSet(1 .. j)
        BY FS_Interval
    <2>2. S(j) \in SUBSET (1 .. j)
        OBVIOUS
    <2> QED BY <2>1, <2>2, FS_Subset, ZenonT(30)
<1>2. S(i) \subseteq S(j)
    OBVIOUS
<1>3. Cardinality(S(i)) <= Cardinality(S(j))
    BY <1>1, <1>2, FS_Subset, ZenonT(30)
<1> QED BY <1>3 DEF Rank

\* Every place of the retained queue comes from a place of the queue.
LEMMA RankHit ==
    ASSUME NEW q, NEW keep, NEW n \in Nat, NEW k \in 1 .. Rank(q, keep, n)
    PROVE  \E i \in 1 .. n : q[i] \in keep /\ Rank(q, keep, i) = k
<1> DEFINE Hit(m, l) == \E i \in 1 .. m : q[i] \in keep /\ Rank(q, keep, i) = l
           Bad == {m \in Nat : \E l \in 1 .. Rank(q, keep, m) : ~Hit(m, l)}
<1>1. SUFFICES ASSUME Bad # {} PROVE FALSE
    OBVIOUS
<1>2. PICK m \in Bad : \A o \in Bad : m <= o
    <2>1. Bad \subseteq Nat
        BY ZenonT(30)
    <2> HIDE DEF Bad
    <2> QED BY <1>1, <2>1, LeastMember, Zenon
<1>3. PICK l \in 1 .. Rank(q, keep, m) : ~Hit(m, l)
    BY <1>2, ZenonT(30)
<1> DEFINE o == m - 1
<1>4. m # 0
    BY <1>3, RankStep
<1>5. o \in Nat /\ o + 1 = m /\ o \notin Bad
    BY <1>2, <1>4
<1>6. \A x \in 1 .. Rank(q, keep, o) : Hit(o, x)
    BY <1>5, ZenonT(30)
<1>7. Rank(q, keep, o) \in Nat
      /\ Rank(q, keep, m) = IF q[m] \in keep THEN Rank(q, keep, o) + 1 ELSE Rank(q, keep, o)
    BY <1>5, RankStep
<1>8. CASE l <= Rank(q, keep, o)
    <2>1. Hit(o, l)
        BY <1>8, <1>6, <1>7, <1>3
    <2>2. Hit(m, l)
        BY <2>1, <1>5, SMTT(20)
    <2> QED BY <2>2, <1>3, ZenonT(30)
<1>9. CASE ~(l <= Rank(q, keep, o))
    <2>1. q[m] \in keep /\ Rank(q, keep, m) = l
        BY <1>9, <1>7, <1>3
    <2>2. Hit(m, l)
        BY <2>1, <1>5, <1>4
    <2> QED BY <2>2, <1>3
<1> QED BY <1>8, <1>9, ZenonT(30)

\* What expire_pending leaves in the queue: the requests it retains, no other,
\* each from a place of its own.
LEMMA RetainKeeps ==
    ASSUME NEW q \in Seq(Request), NEW keep
    PROVE  /\ Retain(q, keep) \in Seq(Request)
           /\ InQueue(Retain(q, keep)) = InQueue(q) \cap keep
           /\ \A r : Once(q, r) => Once(Retain(q, keep), r)
<1> DEFINE N == Rank(q, keep, Len(q))
           At(k) == CHOOSE i \in 1 .. Len(q) : q[i] \in keep /\ Rank(q, keep, i) = k
           R == Retain(q, keep)
<1>1. N \in Nat /\ Len(q) \in Nat
    BY RankStep
<1>2. R = [k \in 1 .. N |-> q[At(k)]]
    BY DEF Retain
<1>3. ASSUME NEW k \in 1 .. N
      PROVE  At(k) \in 1 .. Len(q) /\ q[At(k)] \in keep /\ Rank(q, keep, At(k)) = k
    <2>1. \E i \in 1 .. Len(q) : q[i] \in keep /\ Rank(q, keep, i) = k
        BY <1>1, RankHit
    <2> QED BY <2>1
<1> HIDE DEF At, N
<1>4. R \in Seq(Request) /\ Len(R) = N /\ DOMAIN R = 1 .. N
    <2>1. \A k \in 1 .. N : q[At(k)] \in Request
        BY <1>3
    <2>2. R \in [1 .. N -> Request]
        BY <2>1, <1>2, ZenonT(30)
    <2> HIDE DEF R
    <2> QED BY <2>2, <1>1
<1>5. InQueue(R) \subseteq InQueue(q) \cap keep
    BY <1>2, <1>3, SMTT(20) DEF InQueue
<1>6. ASSUME NEW i \in 1 .. Len(q), q[i] \in keep PROVE q[i] \in InQueue(R)
    <2> DEFINE k == Rank(q, keep, i)
               o == i - 1
    <2>1. o \in Nat /\ o + 1 = i /\ Rank(q, keep, o) \in Nat /\ k = Rank(q, keep, o) + 1
        BY <1>6, <1>1, RankStep
    <2>2. k <= N
        BY <1>1, RankGrows DEF N
    <2>3. k \in 1 .. N
        BY <2>1, <2>2, <1>1, SMTT(20)
    <2>4. At(k) \in 1 .. Len(q) /\ q[At(k)] \in keep /\ Rank(q, keep, At(k)) = k
        BY <2>3, <1>3, ZenonT(30)
    <2>5. ~(At(k) < i)
        <3>1. SUFFICES ASSUME At(k) < i PROVE FALSE
            BY ZenonT(30)
        <3>2. Rank(q, keep, At(k)) <= Rank(q, keep, o)
            BY <3>1, <2>1, <2>4, <1>1, RankGrows, SMTT(20)
        <3> QED BY <3>2, <2>1, <2>4
    <2>6. ~(i < At(k))
        <3>1. SUFFICES ASSUME i < At(k) PROVE FALSE
            BY ZenonT(30)
        <3> DEFINE a == At(k) - 1
        <3>2. a \in Nat /\ a + 1 = At(k) /\ i <= a
            BY <3>1, <2>4, <1>1
        <3>3. Rank(q, keep, a) \in Nat /\ Rank(q, keep, a + 1) = Rank(q, keep, a) + 1
            BY <3>2, <2>4, RankStep, Zenon
        <3>4. Rank(q, keep, i) <= Rank(q, keep, a)
            BY <3>2, <1>1, RankGrows
        <3> QED BY <3>2, <3>3, <3>4, <2>4, <2>1
    <2>7. At(k) = i
        BY <2>4, <2>5, <2>6, <1>1, SMTT(20)
    <2> QED BY <2>7, <2>3, <1>2, <1>4, ZenonT(30) DEF InQueue
<1>7. InQueue(q) \cap keep \subseteq InQueue(R)
    BY <1>6 DEF InQueue
<1>8. ASSUME NEW r, Once(q, r) PROVE Once(R, r)
    <2>1. SUFFICES ASSUME NEW k \in 1 .. N, NEW l \in 1 .. N, R[k] = r, R[l] = r
                   PROVE  k = l
        BY <1>4, ZenonT(30) DEF Once
    <2>2. q[At(k)] = r /\ q[At(l)] = r
        BY <2>1, <1>2, ZenonT(30)
    <2>3. At(k) = At(l)
        BY <2>2, <1>3, <1>8, ZenonT(30) DEF Once
    <2> QED BY <2>3, <1>3, ZenonT(30)
<1> QED BY <1>4, <1>5, <1>7, <1>8, ZenonT(30)

-----------------------------------------------------------------------------
(* Permits *)

\* The requests that next_start_index picks from a lane are not more than the
\* permits the lane has left.
LEMMA LaneCount ==
    ASSUME NEW q \in Seq(Request), NEW lane, NEW free \in Nat
    PROVE  LET I == {i \in 1 .. Len(q) :
                       /\ Lane(q[i]) = lane
                       /\ Cardinality({j \in 1 .. i - 1 : Lane(q[j]) = lane}) < free}
               P == {q[i] : i \in I}
           IN  IsFiniteSet(P) /\ Cardinality(P) <= free
<1> DEFINE keep == {r \in Request : Lane(r) = lane}
           Before(i) == {j \in 1 .. i - 1 : Lane(q[j]) = lane}
           I == {i \in 1 .. Len(q) : Lane(q[i]) = lane /\ Cardinality(Before(i)) < free}
           P == {q[i] : i \in I}
           f == [i \in I |-> Rank(q, keep, i)]
           g == [i \in I |-> q[i]]
<1>1. ASSUME NEW i \in I
      PROVE  /\ i \in 1 .. Len(q) /\ q[i] \in keep /\ i - 1 \in Nat
             /\ Rank(q, keep, i) \in 1 .. free
             /\ Rank(q, keep, i) = Rank(q, keep, i - 1) + 1
             /\ Rank(q, keep, i - 1) \in Nat
    <2>1. i \in 1 .. Len(q) /\ Len(q) \in Nat /\ q[i] \in keep /\ i - 1 \in Nat /\ (i - 1) + 1 = i
        OBVIOUS
    <2>2. Before(i) = {j \in 1 .. i - 1 : q[j] \in keep}
        BY <2>1
    <2>3. Rank(q, keep, i - 1) < free
        BY <2>2, ZenonT(30) DEF Rank
    <2>4. Rank(q, keep, i - 1) \in Nat /\ Rank(q, keep, (i - 1) + 1) = Rank(q, keep, i - 1) + 1
        BY <2>1, RankStep, ZenonT(30)
    <2> DEFINE x == Rank(q, keep, i - 1)
               y == Rank(q, keep, i)
    <2>5. x \in Nat /\ x < free /\ y = x + 1
        BY <2>1, <2>3, <2>4, Zenon
    <2> HIDE DEF I, keep, x, y
    <2>6. y \in 1 .. free
        BY <2>5
    <2> QED BY <2>1, <2>5, <2>6, ZenonT(30) DEF x, y
<1>2. ASSUME NEW i \in I, NEW j \in I, i < j PROVE f[i] # f[j]
    <2>a. /\ i \in 1 .. Len(q) /\ j \in 1 .. Len(q)
          /\ Rank(q, keep, j) = Rank(q, keep, j - 1) + 1
          /\ Rank(q, keep, j - 1) \in Nat /\ Rank(q, keep, i) \in 1 .. free
        BY <1>1, Zenon
    <2>1. /\ i \in Nat /\ j - 1 \in Nat /\ i <= j - 1
          /\ Rank(q, keep, j) = Rank(q, keep, j - 1) + 1
          /\ Rank(q, keep, j - 1) \in Nat /\ Rank(q, keep, i) \in Nat
        <3> HIDE DEF I, keep
        <3> QED BY <2>a, <1>2
    <2>2. Rank(q, keep, i) <= Rank(q, keep, j - 1)
        BY <2>1, RankGrows, ZenonT(30)
    <2> HIDE DEF I, keep
    <2> QED BY <2>1, <2>2
<1>3. I \subseteq Nat
    OBVIOUS
<1>4. f \in Injection(I, 1 .. free)
    <2> HIDE DEF I, keep
    <2>1. f \in [I -> 1 .. free]
        BY <1>1, ZenonT(30)
    <2>2. \A i, j \in I : f[i] = f[j] => i = j
        BY <1>2, <1>3
    <2> QED BY <2>1, <2>2, ZenonT(30) DEF Injection, IsInjective
<1>5. IsFiniteSet(1 .. free) /\ Cardinality(1 .. free) = free
    <2> HIDE DEF P, I, keep, f, g
    <2>1. 1 \in Int /\ free \in Int
        OBVIOUS
    <2>2. IsFiniteSet(1 .. free) /\ Cardinality(1 .. free) = IF 1 > free THEN 0 ELSE free - 1 + 1
        BY <2>1, FS_Interval, Zenon
    <2> QED BY <2>2
<1>6. IsFiniteSet(I) /\ Cardinality(I) <= free
    <2> HIDE DEF P, I, keep, f, g
    <2>1. IsFiniteSet(I) /\ Cardinality(I) <= Cardinality(1 .. free)
        BY <1>4, <1>5, FS_Injection, Zenon
    <2> QED BY <1>5, <2>1
<1>7. g \in Surjection(I, P)
    <2> HIDE DEF I
    <2> QED BY ZenonT(30) DEF Surjection
<1>8. IsFiniteSet(P) /\ Cardinality(P) <= Cardinality(I)
    <2> HIDE DEF P, I, g
    <2> QED BY <1>6, <1>7, FS_Surjection
<1>9. Cardinality(P) \in Nat /\ Cardinality(I) \in Nat
    BY <1>6, <1>8, FS_CardinalityType, Zenon
<1> HIDE DEF P, I
<1>10. IsFiniteSet(P) /\ Cardinality(P) <= free
    BY <1>6, <1>8, <1>9
<1> QED BY <1>10, ZenonT(30) DEF P, I

\* The lanes of a queue, and what they have left.
LEMMA LaneFacts ==
    ASSUME PermitInv, NEW lane \in {"normal", "wait"}
    PROVE  /\ IsFiniteSet(InLane(holding, lane))
           /\ AvailablePermits(lane) \in Nat
           /\ Cardinality(InLane(holding, lane)) + AvailablePermits(lane) = LanePermits(lane)
<1>1. InLane(holding, lane) \in SUBSET holding
    BY ZenonT(30) DEF InLane
<1>2. IsFiniteSet(InLane(holding, lane))
    BY <1>1, FS_Subset, ZenonT(30) DEF PermitInv
<1>3. Cardinality(InLane(holding, lane)) \in Nat
    BY <1>2, FS_CardinalityType
<1>4. LanePermits(lane) \in Nat
    BY DispatcherAssumption, ZenonT(30) DEF LanePermits
<1>5. Cardinality(InLane(holding, lane)) <= LanePermits(lane)
    BY DEF PermitInv
<1>6. AvailablePermits(lane) = LanePermits(lane) - Cardinality(InLane(holding, lane))
    BY DEF AvailablePermits, InLane
<1> QED BY <1>2, <1>3, <1>4, <1>5, <1>6

\* The pass, without its bookkeeping of permits.
LEMMA Pass ==
    ASSUME NEW queue \in Seq(Request), start_ready(queue)
    PROVE  \E started \in SUBSET Request : Passed(queue, started)
<1> DEFINE live == Retain(queue, Request \ late)
           started == {live[i] : i \in {i \in DOMAIN live : MayStart(live, i)}}
<1>1. live \in Seq(Request) /\ InQueue(live) = InQueue(queue) \cap (Request \ late)
      /\ \A r : Once(queue, r) => Once(live, r)
    BY RetainKeeps, ZenonT(30)
<1>2. InQueue(queue) \subseteq Request
    BY DEF InQueue
<1>3. started \subseteq InQueue(live)
    BY Zenon DEF InQueue
<1>4. pending' = Retain(live, Request \ started)
    BY Zenon DEF start_ready
<1>5. /\ running' = running \cup started
      /\ conn' = [r \in Request |-> IF r \in started THEN "dialed" ELSE conn[r]]
      /\ Answer(InQueue(queue) \cap late, "timedout")
      /\ UNCHANGED <<process, table, stop, woken, guest, receiver, loop, cancelled>>
    BY Zenon DEF start_ready
<1> HIDE DEF live, started
<1>7. pending' \in Seq(Request) /\ InQueue(pending') = InQueue(live) \cap (Request \ started)
      /\ \A r : Once(live, r) => Once(pending', r)
    BY <1>1, <1>4, RetainKeeps, ZenonT(30)
<1>8. /\ started \subseteq InQueue(queue) /\ started \in SUBSET Request
      /\ InQueue(pending') = (InQueue(queue) \ late) \ started
    BY <1>1, <1>2, <1>3, <1>7, ZenonT(30)
<1>9. \A r : Once(queue, r) => Once(pending', r)
    BY <1>1, <1>7, ZenonT(30)
<1>10. Passed(queue, started)
    BY <1>5, <1>7, <1>8, <1>9, ZenonT(30) DEF Passed
<1> QED BY <1>8, <1>10, ZenonT(30)

\* The pass never takes more permits than a lane has.
LEMMA PassPermits ==
    ASSUME PermitInv, NEW queue \in Seq(Request), start_ready(queue)
    PROVE  PermitInv'
<1> DEFINE live == Retain(queue, Request \ late)
           started == {live[i] : i \in {i \in DOMAIN live : MayStart(live, i)}}
           permits == {live[i] : i \in {i \in DOMAIN live : PermitFor(live, i)}}
           Taken(lane) == {i \in 1 .. Len(live) :
                             /\ Lane(live[i]) = lane
                             /\ Cardinality({j \in 1 .. i - 1 : Lane(live[j]) = lane})
                                  < AvailablePermits(lane)}
           P(lane) == {live[i] : i \in Taken(lane)}
<1>1. live \in Seq(Request) /\ DOMAIN live = 1 .. Len(live)
    BY RetainKeeps
<1>2. running' = running \cup started /\ holding' = holding \cup permits
    BY Zenon DEF start_ready
<1>3. permits \subseteq started /\ started \subseteq permits \cup {Shutdown}
    BY Zenon DEF MayStart
<1>4. started \subseteq Request
    <2>1. \A i \in DOMAIN live : live[i] \in Request
        BY <1>1
    <2> QED BY <2>1, Zenon
<1>5. permits \subseteq P("normal") \cup P("wait")
    BY <1>1, Zenon DEF PermitFor, Lane
<1>6. ASSUME NEW lane \in {"normal", "wait"}
      PROVE  InLane(permits, lane) = P(lane)
    BY <1>1, Zenon DEF InLane, PermitFor
<1>7. ASSUME NEW lane \in {"normal", "wait"}
      PROVE  IsFiniteSet(P(lane)) /\ Cardinality(P(lane)) <= AvailablePermits(lane)
    <2>1. AvailablePermits(lane) \in Nat
        BY LaneFacts, ZenonT(30)
    <2> HIDE DEF live
    <2> QED BY <1>1, <2>1, LaneCount, Zenon
<1> HIDE DEF P, permits, started, live
<1>8. ASSUME NEW lane \in {"normal", "wait"}
      PROVE  Cardinality(InLane(holding', lane)) <= LanePermits(lane)
    <2> DEFINE H == InLane(holding, lane)
    <2>1. InLane(holding', lane) = H \cup P(lane)
        BY <1>2, <1>6, ZenonT(30) DEF InLane
    <2>2. /\ IsFiniteSet(H) /\ AvailablePermits(lane) \in Nat
          /\ Cardinality(H) + AvailablePermits(lane) = LanePermits(lane)
        BY LaneFacts
    <2>3. H \cap P(lane) \in SUBSET H
        BY ZenonT(30)
    <2>4. IsFiniteSet(H \cap P(lane))
        BY <2>2, <2>3, FS_Subset, ZenonT(30)
    <2>5. Cardinality(H) \in Nat /\ Cardinality(P(lane)) \in Nat
          /\ Cardinality(H \cap P(lane)) \in Nat
        BY <2>2, <2>4, <1>7, FS_CardinalityType, ZenonT(30)
    <2> HIDE DEF H
    <2>6. Cardinality(H \cup P(lane))
            = Cardinality(H) + Cardinality(P(lane)) - Cardinality(H \cap P(lane))
        BY <2>2, <1>7, FS_Union, ZenonT(30)
    <2>7. Cardinality(P(lane)) <= AvailablePermits(lane)
        BY <1>7
    <2> QED BY <2>1, <2>2, <2>5, <2>6, <2>7
<1>9. IsFiniteSet(holding')
    <2>1. IsFiniteSet(P("normal") \cup P("wait"))
        BY <1>7, FS_Union, Zenon
    <2>2. permits \in SUBSET (P("normal") \cup P("wait"))
        BY <1>5, ZenonT(30)
    <2>3. IsFiniteSet(permits)
        BY <2>1, <2>2, FS_Subset, ZenonT(30)
    <2> QED BY <1>2, <2>3, FS_Union, Zenon DEF PermitInv
<1>10. /\ running' \subseteq Request /\ holding' \subseteq running'
       /\ running' \ {Shutdown} \subseteq holding'
    BY <1>2, <1>3, <1>4, ZenonT(30) DEF PermitInv
<1> QED BY <1>8, <1>9, <1>10, ZenonT(30) DEF PermitInv

\* Permits are taken by a pass of the loop, and given back when a task ends or the
\* dispatcher is dropped.
LEMMA PermitStep ==
    ASSUME PlaceInv, PermitInv, [Next]_vars
    PROVE  PermitInv'
<1>1. CASE UNCHANGED <<running, holding>>
    BY <1>1, ZenonT(30) DEF PermitInv
<1>2. CASE running' = {} /\ holding' = {}
    <2>1. \A lane : InLane({}, lane) = {}
        BY DEF InLane
    <2>2. IsFiniteSet({}) /\ Cardinality({}) = 0
        BY FS_EmptySet
    <2>3. \A lane : LanePermits(lane) \in Nat
        BY DispatcherAssumption DEF LanePermits
    <2> QED BY <1>2, <2>1, <2>2, <2>3 DEF PermitInv
<1>3. ASSUME NEW queue \in Seq(Request), Iteration(queue) PROVE PermitInv'
    BY <1>3, PassPermits, ZenonT(30) DEF Iteration
<1>4. CASE LoopStep
    <2>1. Stop => UNCHANGED <<running, holding>>
        BY DEF Stop
    <2>2. DropDispatcher => running' = {} /\ holding' = {}
        BY ZenonT(30) DEF DropDispatcher
    <2> QED BY <1>1, <1>2, <1>3, <1>4, <2>1, <2>2, LoopShape, ZenonT(30) DEF PlaceInv
<1>5. ASSUME NEW r \in Request, Finish(r) PROVE PermitInv'
    <2>1. running' = running \ {r} /\ holding' = holding \ {r}
        BY <1>5, ZenonT(30) DEF Finish, PermitReleased
    <2>2. holding' \in SUBSET holding /\ IsFiniteSet(holding')
        BY <2>1, FS_Subset, ZenonT(30) DEF PermitInv
    <2>3. ASSUME NEW lane \in {"normal", "wait"}
          PROVE  Cardinality(InLane(holding', lane)) <= LanePermits(lane)
        <3>1. InLane(holding', lane) \in SUBSET InLane(holding, lane)
            BY <2>2, ZenonT(30) DEF InLane
        <3>2. IsFiniteSet(InLane(holding, lane))
            BY LaneFacts, ZenonT(30)
        <3>3. Cardinality(InLane(holding', lane)) <= Cardinality(InLane(holding, lane))
              /\ IsFiniteSet(InLane(holding', lane))
            BY <3>1, <3>2, FS_Subset, ZenonT(30)
        <3>4. /\ Cardinality(InLane(holding', lane)) \in Nat
              /\ Cardinality(InLane(holding, lane)) \in Nat
            BY <3>2, <3>3, FS_CardinalityType, ZenonT(30)
        <3>5. Cardinality(InLane(holding, lane)) <= LanePermits(lane) /\ LanePermits(lane) \in Nat
            BY DispatcherAssumption, ZenonT(30) DEF PermitInv, LanePermits
        <3> QED BY <3>3, <3>4, <3>5
    <2>4. /\ running' \subseteq Request /\ holding' \subseteq running'
          /\ running' \ {Shutdown} \subseteq holding'
        BY <2>1, ZenonT(30) DEF PermitInv
    <2> QED BY <2>2, <2>3, <2>4, ZenonT(30) DEF PermitInv
<1>6. CASE HostStep
    <2>1. ASSUME NEW r \in Request, SendStep(r) \/ SendCommand(r) \/ Expire(r)
          PROVE  UNCHANGED <<running, holding>>
        BY <2>1, ZenonT(30) DEF SendStep, Send, SendFails, SendCommand, Expire, hostVars
    <2> QED BY <1>1, <1>4, <1>5, <1>6, <2>1, ZenonT(30) DEF HostStep, TaskStep
<1>7. CASE DispatcherAborted
    BY <1>2, <1>7 DEF DispatcherAborted, DropDispatcher
<1>8. CASE Run \/ shutdown \/ ShutdownStep \/ Closed \/ Drop \/ GuestStep \/ Over \/ UNCHANGED vars
    <2>1. UNCHANGED <<running, holding>>
        BY <1>8, Zenon DEF Run, Submits, shutdown, ShutdownStep, SchedulerJoined, CleanupJoined,
           ShutdownAnswered, Closed, Drop, GuestStep, Over, vars, hostVars
    <2> QED BY <1>1, <2>1
<1> QED BY <1>6, <1>7, <1>8, ZenonT(30) DEF Next, VmStep

\* A request that needs a permit has one while it runs, so that the lanes bound them.
LEMMA PermitsBound ==
    ASSUME PermitInv
    PROVE  LanesRespected
<1> SUFFICES ASSUME NEW lane \in {"normal", "wait"}
             PROVE  Cardinality({r \in running : Lane(r) = lane /\ r # Shutdown})
                      <= LanePermits(lane)
    BY DEF LanesRespected
<1> DEFINE S == {r \in running : Lane(r) = lane /\ r # Shutdown}
<1>1. S \in SUBSET InLane(holding, lane)
    BY DEF PermitInv, InLane
<1>2. IsFiniteSet(InLane(holding, lane))
    BY LaneFacts, ZenonT(30)
<1>3. Cardinality(S) <= Cardinality(InLane(holding, lane)) /\ IsFiniteSet(S)
    BY <1>1, <1>2, FS_Subset, ZenonT(30)
<1>4. Cardinality(S) \in Nat /\ Cardinality(InLane(holding, lane)) \in Nat
    BY <1>2, <1>3, FS_CardinalityType, ZenonT(30)
<1>5. Cardinality(InLane(holding, lane)) <= LanePermits(lane) /\ LanePermits(lane) \in Nat
    BY DispatcherAssumption DEF PermitInv, LanePermits
<1> HIDE DEF S
<1>6. Cardinality(S) <= LanePermits(lane)
    BY <1>3, <1>4, <1>5
<1> QED BY <1>6 DEF S

-----------------------------------------------------------------------------
(* The theorems *)

CommandsInv == TypeOK /\ PlaceInv /\ PermitInv /\ OrderInv /\ GoneInv

\* The invariants hold when a VM comes up.
LEMMA CommandsInvInit == Init => CommandsInv
<1> SUFFICES ASSUME Init PROVE CommandsInv
    OBVIOUS
<1>4. PermitInv
    <2>1. running = {} /\ holding = {}
        BY DEF Init, GuestInit, HostInit
    <2>2. \A lane : InLane({}, lane) = {}
        BY DEF InLane
    <2>3. IsFiniteSet({}) /\ Cardinality({}) = 0
        BY FS_EmptySet
    <2>4. \A lane : LanePermits(lane) \in Nat
        BY DispatcherAssumption DEF LanePermits
    <2>5. \A lane : Cardinality(InLane(holding, lane)) <= LanePermits(lane)
        BY <2>1, <2>2, <2>3, <2>4
    <2> QED BY <2>1, <2>3, <2>5, ZenonT(30) DEF PermitInv
<1> USE DEF Init, GuestInit, HostInit
<1>1. InQueue(<<>>) = {} /\ \A r : Once(<<>>, r)
    BY DEF InQueue, Once
<1>2. TypeOK
    <2>1. GuestTypeOK
        <3>1. /\ conn \in [Request -> Connection] /\ process \in [Process -> Child]
              /\ table = {} /\ woken = {}
            BY DEF Connection, Child
        <3> QED BY <3>1, GuestAssumption DEF GuestTypeOK
    <2>2. HostTypeOK
        <3>1. channel = <<>> /\ pending = <<>> /\ Len(channel) = 0 /\ Capacity \in Nat
            BY DispatcherAssumption, ZenonT(30)
        <3>2. channel \in Seq(Request) /\ pending \in Seq(Request) /\ Len(channel) <= Capacity
            BY <3>1
        <3> QED BY <3>2, Zenon DEF HostTypeOK, Result
    <2>3. /\ scheduled \subseteq Process
          /\ runner \in [Caller -> Awaiting \cup Draining \cup Ended \cup {"idle"}]
          /\ outcome \in [Process -> {"none", "running", "exit", "other"}]
          /\ vm \in {"live", "joining", "closing", "requesting", "stopping", "closed", "dropped"}
          /\ closed \in BOOLEAN
        BY Zenon
    <2> QED BY <2>1, <2>2, <2>3, ZenonT(30) DEF TypeOK
<1>3. PlaceInv
    <2>1. NoRequestLost
        BY <1>1 DEF NoRequestLost
    <2> QED BY <1>1, <2>1 DEF PlaceInv, Result
<1>5. OrderInv
    BY DEF OrderInv, CleanupBeforeShutdown
<1>6. GoneInv
    <2>1. ASSUME NEW p \in Process, NEW op \in Op PROVE <<op, p>> \in Request
        BY DEF Request
    <2>2. ASSUME NEW p \in Process PROVE StartInv(p)
        BY <1>1, <2>1, Zenon DEF StartInv, Queued, Op
    <2>3. ASSUME NEW p \in Process PROVE ExitInv(p)
        <3>1. <<"wait", p>> \in Request /\ <<"close", p>> \in Request /\ p \in Caller
            BY <2>1, Zenon DEF Op, Caller
        <3> QED BY <3>1 DEF ExitInv, ToldExited, ToldClosed
    <2>4. SleepInv
        BY DEF SleepInv, NoWakeupLost, Waits
    <2> QED BY <2>2, <2>3, <2>4, ZenonT(30) DEF GoneInv
<1> QED BY <1>2, <1>3, <1>4, <1>5, <1>6, ZenonT(30) DEF CommandsInv

\* Every step keeps them.
LEMMA CommandsInvStep == CommandsInv /\ [Next]_vars => CommandsInv'
<1> SUFFICES ASSUME CommandsInv, [Next]_vars PROVE CommandsInv'
    OBVIOUS
<1>0. Passes
    BY Pass DEF Passes
<1>1. PlaceInv'
    BY <1>0, PlaceStep DEF CommandsInv
<1>2. PermitInv'
    BY PermitStep DEF CommandsInv
<1>3. TypeOK'
    BY <1>0, <1>1, <1>2, TypeStep DEF CommandsInv
<1>4. OrderInv'
    BY OrderStep DEF CommandsInv
<1>5. GoneInv'
    BY <1>0, GoneStep DEF CommandsInv
<1> QED BY <1>1, <1>2, <1>3, <1>4, <1>5, ZenonT(30) DEF CommandsInv

\* All of them hold throughout the life of every VM.
LEMMA CommandsInvariant == Spec => []CommandsInv
BY CommandsInvInit, CommandsInvStep, PTL DEF Spec

\* The dispatcher, the guest and the runs keep their types, the channel its
\* capacity, and a permit is held by a running request only (Dispatcher::run,
\* execute_request, mpsc::channel).
THEOREM TypesAreKept == Spec => []TypeOK
<1>1. CommandsInv => TypeOK
    BY ZenonT(30) DEF CommandsInv
<1> QED BY <1>1, CommandsInvariant, PTL

\* No request is lost, whatever expires, fails or is dropped: while its caller
\* waits for an answer that has not come, the request is with a sender, in the
\* channel, in the queue or with a task (Dispatcher::run, expire_pending, stop).
THEOREM NothingIsLost == Spec => []NoRequestLost
<1>1. CommandsInv => NoRequestLost
    BY DEF CommandsInv, PlaceInv
<1> QED BY <1>1, CommandsInvariant, PTL

\* Ordinary requests and process waits never exceed the permits of their lanes,
\* for any number of permits (next_start_index, execute_request).
THEOREM LanesHold == Spec => []LanesRespected
<1>1. CommandsInv => LanesRespected
    BY PermitsBound DEF CommandsInv
<1> QED BY <1>1, CommandsInvariant, PTL

\* The ordered shutdown asks the guest to stop only after every cleanup that the
\* registry accepted has been handed over (LiveVm::shutdown, close_and_join).
THEOREM CleanupsComeFirst == Spec => []CleanupBeforeShutdown
<1>1. CommandsInv => CleanupBeforeShutdown
    BY ZenonT(30) DEF CommandsInv, OrderInv
<1> QED BY <1>1, CommandsInvariant, PTL

\* A run reported as finished is over in the guest, for any processes and any
\* number of mishaps: its process exited and is forgotten (run_direct_process,
\* ProcessManager::close).
THEOREM FinishedIsOver == Spec => []FinishedMeansGone
<1>1. CommandsInv => FinishedMeansGone
    <2> SUFFICES ASSUME CommandsInv, NEW p \in Process, runner[p] = "finished"
                 PROVE  p \notin table /\ (process[p] = "exited" \/ guest = "down")
        BY Zenon DEF FinishedMeansGone
    <2>1. ExitInv(p)
        BY DEF CommandsInv, GoneInv
    <2> QED BY <2>1 DEF ExitInv, ToldExited, ToldClosed
<1> QED BY <1>1, CommandsInvariant, PTL

\* However the steps of a reaper and of the handlers that await its process
\* interleave, a handler that sleeps on a process whose status is stored has
\* been notified (Completion::wait, Completion::record).
THEOREM WakeupsArrive == Spec => []NoWakeupLost
<1>1. CommandsInv => NoWakeupLost
    BY ZenonT(30) DEF CommandsInv, GoneInv, SleepInv
<1> QED BY <1>1, CommandsInvariant, PTL
=============================================================================
