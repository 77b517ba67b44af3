--------------------------- MODULE ProcessIoProofs ---------------------------
(***************************************************************************)
(* Proofs about ProcessIo and the GuestSession in it, for all plans, runs  *)
(* and capacities and any number of mishaps: a command is only executed by *)
(* the guest its endpoint was made for, and where a run stands, what it    *)
(* was told and what its streams are connected to.  CaptureProofs goes on  *)
(* from there to the bytes.                                                *)
(***************************************************************************)
EXTENDS ProcessIo, TLAPS, SequenceTheorems

\* What a drain has put together.
Accumulator == [bytes : Seq(Byte), end_reached : BOOLEAN]

\* A command in progress has all its fields.
CallShape ==
    call = [op |-> call.op, phase |-> call.phase, attempt |-> call.attempt, bytes |-> call.bytes,
            challenge |-> call.challenge, event |-> call.event]

Early == {"new", "unreachable", "ready", "refused", "built", "prepared", "spawning", "dropped"}
Unchecked == {"new", "unreachable", "ready", "refused"}
Over == call.phase \in {"done", "failed"}

AskedOK ==
    /\ {"stdout", "stderr", "executable"} \subseteq DOMAIN asked
    /\ asked = [x \in DOMAIN asked |-> asked[x]]
    /\ \A s \in Streams : asked[s] \in OutputOptions
HostOK ==
    /\ drain \in [Streams -> {"none", "reading", "failed", "taken", "done", "aborted"}]
    /\ capture \in [Streams -> Accumulator]
    /\ lifecycle = [state |-> lifecycle.state, stdout |-> lifecycle.stdout, stderr |-> lifecycle.stderr]
Conn == [bytes : Seq(Byte), state : {"none", "open", "eof", "broken", "silent", "dropped"}]
PipesOK ==
    /\ entry \in BOOLEAN
    /\ script \in [Streams -> Seq(Byte)]
    /\ written \in [Streams -> Seq(Byte)]
    /\ pipe \in [Streams -> Seq(Byte)]
    /\ reader \in [Streams -> {"none", "entry", "relay", "gone"}]
    /\ link \in [Streams -> Conn]
TypeOK == AskedOK /\ HostOK /\ PipesOK

\* What is asked of the guest at each point of the run.
OpInv ==
    /\ call.op = "start" => pc \in {"spawning", "dropped"}
    /\ pc = "spawning" => call.op = "start"
    /\ call.op \in Streams => pc = "binding" /\ Piped(call.op)
    /\ pc = "binding" => call.op \in Streams

\* What has not happened yet, and what was checked.
PastInv ==
    /\ pc \in Early \cup {"binding"} =>
          wait = "none" /\ cleanup = "none" /\ outcome = "none" /\ \A s \in Streams : drain[s] = "none"
    /\ pc \notin Unchecked => \A s \in Streams : validate_output(asked[s])

\* What the host was told about the process and its entry is still so.
FateInv ==
    /\ process \in {"none", "running", "exited", "killed"}
    /\ call.event = "exited" => process = "exited"
    /\ call.event = "closed" => ~entry
    /\ wait = "exited" => process = "exited"
    /\ cleanup = "ok" => ~entry

\* What an observer and the caller are told.
Won == outcome = "wait" /\ AllJoined /\ ~FirstError /\ cleanup = "ok" /\ wait = "exited"
ToldInv ==
    /\ pc \in {"retaining", "finishing"} \/ lifecycle.state = "finished" => Won
    /\ is_terminal(lifecycle.state) => pc \in {"returned", "cleaning", "cleaned"}
    /\ lifecycle.state = "finished" => pc = "returned"
    /\ answer = "ok" <=> lifecycle.state = "finished"
    /\ pc = "finishing" \/ lifecycle.state = "finished" =>
          \A s \in Streams : asked[s].route = "capture" => lifecycle[s] = {capture[s].bytes}

\* The drains of a run whose wait ended it, or may still.
DrainInv ==
    /\ pc = "waiting" \/ (outcome = "wait" /\ pc \notin {"released", "cleaning", "cleaned"}) =>
          FirstError \/ \A s \in Streams : Piped(s) => drain[s] \in {"reading", "done"}
    /\ \A s \in Streams : drain[s] = "done" /\ pc \notin {"released", "cleaning", "cleaned"} =>
          link[s] = [bytes |-> <<>>, state |-> "eof"]

\* The pipe of a stream waits for the bind that takes it.
BindInv ==
    /\ pc \in Early \ {"spawning", "dropped"} \/ (call.op = "start" /\ ~Over) =>
          \A s \in Streams : reader[s] = "none"
    /\ pc \in Early => \A s \in Streams : link[s].state = "none"
    /\ Mine /\ call.op = "start" /\ call.event = "started" =>
          entry /\ \A s \in Streams : Piped(s) => reader[s] = "entry"
    /\ Mine /\ call.op \in Streams =>
          /\ entry
          /\ ~Over => reader[call.op] = "entry" /\ link[call.op].state = "none"
          /\ call.op = "stdout" /\ Piped("stderr") => reader["stderr"] = "entry" /\ link["stderr"].state = "none"

-----------------------------------------------------------------------------
(* Sequences.                                                              *)

\* A prefix, and what it is a part of.
LEMMA PrefixFacts ==
    ASSUME NEW S, NEW a \in Seq(S), NEW n \in 0 .. Len(a)
    PROVE  /\ SubSeq(a, 1, n) \in Seq(S)
           /\ Len(SubSeq(a, 1, n)) = n
<1>1. \A i \in 1 .. n : a[i] \in S
    BY LenProperties, ElementOfSeq
<1> QED BY <1>1, SubSeqProperties, LenProperties

\* What is put in front of a sequence is taken off again.
LEMMA HeadersComeOff ==
    ASSUME NEW S, NEW h \in Seq(S), NEW x \in Seq(S)
    PROVE  /\ h \o x \in Seq(S) /\ Len(h \o x) = Len(h) + Len(x)
           /\ SubSeq(h \o x, Len(h) + 1, Len(h \o x)) = x
<1>1. Len(h) \in Nat /\ Len(x) \in Nat
    BY LenProperties
<1>2. h \o x \in Seq(S) /\ Len(h \o x) = Len(h) + Len(x)
    BY ConcatProperties
<1>3. CASE x = <<>>
    <2>1. Len(x) = 0
        BY <1>3, EmptySeq
    <2>2. SubSeq(h \o x, Len(h) + 1, Len(h \o x)) = <<>>
        BY <1>1, <1>2, <2>1, SubSeqEmpty
    <2> QED BY <1>2, <1>3, <2>2
<1>4. CASE x # <<>>
    <2>1. Len(h) + 1 \in Len(h) + 1 .. Len(h) + Len(x) /\ Len(h) + Len(x) \in Len(h) + 1 .. Len(h) + Len(x)
        BY <1>1, <1>4, EmptySeq
    <2>2. SubSeq(h \o x, Len(h) + 1, Len(h) + Len(x)) = SubSeq(x, Len(h) + 1 - Len(h), Len(h) + Len(x) - Len(h))
        BY <2>1, SubSeqOfConcat2
    <2>3. Len(h) + 1 - Len(h) = 1 /\ Len(h) + Len(x) - Len(h) = Len(x)
        BY <1>1
    <2> QED BY <1>2, <2>2, <2>3, SubSeqFull
<1> QED BY <1>3, <1>4

\* Where the elements of two sequences are in their concatenation.
LEMMA ElementsOfBoth ==
    ASSUME NEW S, NEW h \in Seq(S), NEW x \in Seq(S)
    PROVE  /\ \A i \in 1 .. Len(h) : (h \o x)[i] = h[i]
           /\ \A i \in 1 .. Len(x) : (h \o x)[Len(h) + i] = x[i]
<1>1. Len(h) \in Nat /\ Len(x) \in Nat
    BY LenProperties
<1>2. \A i \in 1 .. Len(h) + Len(x) : (h \o x)[i] = IF i <= Len(h) THEN h[i] ELSE x[i - Len(h)]
    BY ConcatProperties
<1>3. ASSUME NEW i \in 1 .. Len(h) PROVE (h \o x)[i] = h[i]
    <2>1. i \in 1 .. Len(h) + Len(x) /\ i <= Len(h)
        BY <1>1
    <2> QED BY <1>2, <2>1
<1>4. ASSUME NEW i \in 1 .. Len(x) PROVE (h \o x)[Len(h) + i] = x[i]
    <2>1. Len(h) + i \in 1 .. Len(h) + Len(x) /\ ~(Len(h) + i <= Len(h)) /\ Len(h) + i - Len(h) = i
        BY <1>1
    <2> QED BY <1>2, <2>1
<1> QED BY <1>3, <1>4

\* A chunk and what it leaves behind.
LEMMA ChunkFacts ==
    ASSUME NEW S, NEW a \in Seq(S), NEW n \in 1 .. Len(a)
    PROVE  /\ SubSeq(a, 1, n) \in Seq(S) /\ SubSeq(a, n + 1, Len(a)) \in Seq(S)
           /\ SubSeq(a, 1, n) \o SubSeq(a, n + 1, Len(a)) = a
<1>0. Len(a) \in Nat /\ n \in Nat /\ n \in 0 .. Len(a)
    BY LenProperties
<1>1. SubSeq(a, 1, n) \in Seq(S)
    BY <1>0, PrefixFacts
<1>2. SubSeq(a, n + 1, Len(a)) \in Seq(S)
    <2>1. \A i \in n + 1 .. Len(a) : a[i] \in S
        BY <1>0, ElementOfSeq
    <2> QED BY <1>0, <2>1, SubSeqProperties
<1>3. SubSeq(a, 1, n) \o SubSeq(a, n + 1, Len(a)) = SubSeq(a, 1, Len(a))
    <2>1. 1 \in 1 .. Len(a) + 1 /\ n \in 1 - 1 .. Len(a) /\ Len(a) \in n .. Len(a)
        BY <1>0
    <2> QED BY <2>1, ConcatAdjacentSubSeq
<1> QED BY <1>1, <1>2, <1>3, SubSeqFull

\* Three sequences, put together in either order.
Regroups(x, y, z) == (x \o y) \o z = x \o (y \o z)

\* Bytes that follow one another may be put together in either order.
LEMMA Regroup ==
    ASSUME NEW S
    PROVE  \A x, y, z \in Seq(S) : Regroups(x, y, z)
BY ConcatAssociative DEF Regroups

\* The relay moves a chunk of the pipe to the connection.
LEMMA ChunkRelayed ==
    ASSUME NEW S, NEW l \in Seq(S), NEW p \in Seq(S), NEW n \in 1 .. Len(p)
    PROVE  /\ l \o SubSeq(p, 1, n) \in Seq(S) /\ SubSeq(p, n + 1, Len(p)) \in Seq(S)
           /\ l \o p = (l \o SubSeq(p, 1, n)) \o SubSeq(p, n + 1, Len(p))
<1> DEFINE c == SubSeq(p, 1, n)
           r == SubSeq(p, n + 1, Len(p))
<1>1. c \in Seq(S) /\ r \in Seq(S)
    BY ChunkFacts
<1>2. c \o r = p
    BY ChunkFacts
<1> HIDE DEF c, r
<1>3. Regroups(l, c, r)
    BY <1>1, Regroup
<1>4. l \o c \in Seq(S)
    BY <1>1, ConcatProperties
<1> QED BY <1>1, <1>2, <1>3, <1>4, Zenon DEF c, r, Regroups

-----------------------------------------------------------------------------
(* The command.                                                            *)

\* A step of the session keeps what is asked for; an event may be lost.
LEMMA SessionCall ==
    ASSUME CallShape, SessionStep
    PROVE  /\ CallShape' /\ config' = config /\ peer' = peer
           /\ call'.op = call.op /\ call'.event \in {call.event, "none"}
           /\ Over => Over'
<1> USE DEF CallShape, Over, bvars, cvars, Fails
<1>1. CASE prepare \/ SendBootConfig \/ AnswerReady \/ wait_for_ready \/ ready_timeout
           \/ (\E r \in Results : SendResult(r)) \/ ReadResult \/ Disturb
    <2>1. call' = call /\ peer' = peer /\ config' = config
        BY <1>1 DEF prepare, SendBootConfig, AnswerReady, wait_for_ready, ready_timeout,
                    SendResult, ReadResult, Disturb
    <2> QED BY <2>1, ZenonT(30)
<1>2. CASE connect_async_bounded
    BY <1>2, Zenon DEF connect_async_bounded
<1>3. CASE SendChallenge
    BY <1>3, Zenon DEF SendChallenge
<1>4. CASE authenticate_async
    BY <1>4, Zenon DEF authenticate_async
<1>5. CASE authenticate_connection
    BY <1>5, Zenon DEF authenticate_connection
<1>6. CASE SendCommand
    BY <1>6, Zenon DEF SendCommand
<1>7. CASE Break
    BY <1>7, Zenon DEF Break
<1> QED BY <1>1, <1>2, <1>3, <1>4, <1>5, <1>6, <1>7 DEF SessionStep

-----------------------------------------------------------------------------
(* The steps of the run and of the guest, as the session sees them.        *)

\* Every step but those of the session and the loss of the guest.
RunStep ==
    \/ HostProgress \/ TimerFires \/ WaitDeadline \/ DropRun \/ cancel
    \/ ServePing \/ ServeStart \/ bind_output \/ ServeWait \/ kill \/ ServeClose
    \/ Exits \/ DaemonExits
    \/ \E s \in Streams :
          drain_host_output(s) \/ DrainEnds(s) \/ FileFails(s) \/ Write(s) \/ relay(s) \/ LinkBreaks(s)

CallFrame ==
    /\ CallShape' /\ config' = config /\ peer' = peer
    /\ call' = call \/ call'.phase \in {"idle", "dial", "accepted", "done", "failed"}
    /\ served' = served \/ (call.phase = "asked" /\ served' = served \cup {peer})

\* What becomes of the command in such a step.
Moves ==
    /\ config' = config /\ peer' = peer
    /\ \/ served' = served /\ (call' = call \/ call' = Idle \/ Fails \/ \E op : Ask(op))
       \/ \E event : Serve(event)

\* The host begins a command or is done with one, and a handler answers one
\* that was admitted.
LEMMA RunMoves ==
    ASSUME RunStep
    PROVE  Moves
<1> USE DEF bvars, cvars, gvars, HostOnly, Handler, GuestStep
<1>1. Connect => Moves
    BY DEF Moves, Connect
<1>2. Probed => Moves
    BY DEF Moves, Probed
<1>3. build => Moves
    BY DEF Moves, build
<1>4. into_prepared => Moves
    BY DEF Moves, into_prepared
<1>5. Begin => Moves
    BY DEF Moves, Begin, fail_direct_process
<1>6. spawn => Moves
    BY DEF Moves, spawn, BindNext, fail_direct_process
<1>7. start_output_drains => Moves
    BY DEF Moves, start_output_drains, BindNext
<1>8. WaitEnds => Moves
    BY DEF Moves, WaitEnds, Select
<1>9. DrainFails => Moves
    BY DEF Moves, DrainFails, Select
<1>10. CancelSeen => Moves
    BY DEF Moves, CancelSeen, Select
<1>11. close => Moves
    BY DEF Moves, close
<1>12. finish_output_drains => Moves
    BY DEF Moves, finish_output_drains
<1>13. run_direct_process => Moves
    BY DEF Moves, run_direct_process
<1>14. retain_captured_output => Moves
    BY DEF Moves, retain_captured_output
<1>15. finished => Moves
    BY DEF Moves, finished
<1>16. DropHandle => Moves
    BY DEF Moves, DropHandle
<1>17. Cleaned => Moves
    BY DEF Moves, Cleaned
<1>18. TimerFires => Moves
    BY DEF Moves, TimerFires, Select
<1>19. WaitDeadline => Moves
    BY DEF Moves, WaitDeadline
<1>20. DropRun => Moves
    BY DEF Moves, DropRun
<1>21. cancel => Moves
    BY DEF Moves, cancel
<1>22. ServePing => Moves
    BY DEF Moves, ServePing
<1>23. ServeStart => Moves
    BY DEF Moves, ServeStart
<1>24. bind_output => Moves
    BY DEF Moves, bind_output
<1>25. ServeWait => Moves
    BY DEF Moves, ServeWait
<1>26. kill => Moves
    BY DEF Moves, kill
<1>27. ServeClose => Moves
    BY DEF Moves, ServeClose
<1>28. Exits => Moves
    BY DEF Moves, Exits
<1>29. DaemonExits => Moves
    BY ZenonT(30) DEF Moves, DaemonExits
<1>30. (\E s \in Streams : drain_host_output(s)) => Moves
    BY DEF Moves, drain_host_output, DrainStep, Read
<1>31. (\E s \in Streams : DrainEnds(s)) => Moves
    BY DEF Moves, DrainEnds, DrainStep
<1>32. (\E s \in Streams : FileFails(s)) => Moves
    BY DEF Moves, FileFails
<1>33. (\E s \in Streams : Write(s)) => Moves
    BY DEF Moves, Write
<1>34. (\E s \in Streams : relay(s)) => Moves
    BY DEF Moves, relay
<1>35. (\E s \in Streams : LinkBreaks(s)) => Moves
    BY DEF Moves, LinkBreaks
<1> QED
    BY <1>1, <1>2, <1>3, <1>4, <1>5, <1>6, <1>7, <1>8, <1>9, <1>10, <1>11, <1>12, <1>13, <1>14,
       <1>15, <1>16, <1>17, <1>18, <1>19, <1>20, <1>21, <1>22, <1>23, <1>24, <1>25, <1>26,
       <1>27, <1>28, <1>29, <1>30, <1>31, <1>32, <1>33, <1>34, <1>35, ZenonT(30)
    DEF RunStep, HostProgress

\* Such a step leaves a command whole, and only a handler serves one.
LEMMA CallSteps ==
    ASSUME CallShape, RunStep
    PROVE  CallFrame
<1>1. Moves
    BY RunMoves, ZenonT(30)
<1>2. (\E event : Serve(event)) => CallFrame
    BY <1>1, ZenonT(30) DEF Moves, CallFrame, CallShape, Serve
<1>3. (\E op : Ask(op)) /\ served' = served => CallFrame
    BY <1>1, Zenon DEF Moves, CallFrame, CallShape, Ask, Idle
<1>4. call' = call /\ served' = served => CallFrame
    BY <1>1 DEF Moves, CallFrame, CallShape
<1>5. call' = Idle /\ served' = served => CallFrame
    BY <1>1 DEF Moves, CallFrame, CallShape, Idle
<1>6. Fails /\ served' = served => CallFrame
    BY <1>1, Zenon DEF Moves, CallFrame, CallShape, Fails
<1> QED BY <1>1, <1>2, <1>3, <1>4, <1>5, <1>6 DEF Moves

-----------------------------------------------------------------------------
(* Where the run stands and what it was told.                              *)

\* into_prepared replaces the executable and nothing else.
LEMMA Prepared ==
    ASSUME AskedOK, into_prepared
    PROVE  AskedOK' /\ \A s \in Streams : asked'[s] = asked[s]
<1> DEFINE m == materialize_process_executables(asked)
           Same(r) == /\ r = [x \in DOMAIN asked |-> r[x]]
                      /\ r["stdout"] = asked["stdout"] /\ r["stderr"] = asked["stderr"]
<1>1. Same(asked) /\ \A e : Same([asked EXCEPT !.executable = e])
    BY DEF AskedOK
<1>2. m = asked \/ \E e : m = [asked EXCEPT !.executable = e]
    BY DEF materialize_process_executables
<1>3. Same(m)
    BY <1>1, <1>2, Zenon
<1>4. asked' = asked \/ asked' = m \/ \E e : asked' = [m EXCEPT !.executable = e]
    BY DEF into_prepared
<1> HIDE DEF m
<1>5. \A e : Same([m EXCEPT !.executable = e])
    BY <1>3
<1> HIDE DEF Same
<1>6. Same(asked')
    BY <1>1, <1>3, <1>4, <1>5
<1>7. DOMAIN asked' = DOMAIN asked /\ asked' = [x \in DOMAIN asked' |-> asked'[x]]
    BY <1>6 DEF Same
<1>8. \A s \in Streams : asked'[s] = asked[s]
    BY <1>6 DEF Same, Streams
<1> QED BY <1>7, <1>8 DEF AskedOK

\* A step changes nothing else of what was asked for.
LEMMA AskedStep ==
    ASSUME AskedOK, Next
    PROVE  AskedOK' /\ \A s \in Streams : asked'[s] = asked[s]
<1> USE DEF hvars, HostOnly, Rest, Host, Handler, GuestStep, DrainStep
<1>1. (Connect \/ Probed \/ build \/ Begin \/ spawn \/ start_output_drains \/ WaitEnds) => asked' =
      asked
    BY ZenonT(30) DEF Connect, Probed, build, Begin, spawn, start_output_drains, WaitEnds
<1>2. (DrainFails \/ CancelSeen \/ close \/ finish_output_drains \/ run_direct_process \/
      retain_captured_output \/ finished) => asked' = asked
    BY ZenonT(30) DEF DrainFails, CancelSeen, close, finish_output_drains, run_direct_process,
           retain_captured_output, finished
<1>3. (DropHandle \/ Cleaned \/ TimerFires \/ WaitDeadline \/ DropRun \/ cancel) => asked' = asked
    BY ZenonT(30) DEF DropHandle, Cleaned, TimerFires, WaitDeadline, DropRun, cancel
<1>4. (ServePing \/ ServeStart \/ bind_output \/ ServeWait \/ kill \/ ServeClose \/ Exits \/
      DaemonExits \/ GuestLost) => asked' = asked
    BY ZenonT(30) DEF ServePing, ServeStart, bind_output, ServeWait, kill, ServeClose, Exits, DaemonExits,
           GuestLost
<1>5. ((\E s \in Streams : drain_host_output(s)) \/ (\E s \in Streams : DrainEnds(s)) \/ (\E s \in
      Streams : FileFails(s)) \/ (\E s \in Streams : Write(s)) \/ (\E s \in Streams : relay(s)) \/
      (\E s \in Streams : LinkBreaks(s))) => asked' = asked
    BY Zenon DEF drain_host_output, DrainEnds, FileFails, Write, relay, LinkBreaks
<1> QED BY <1>1, <1>2, <1>3, <1>4, <1>5, Prepared, ZenonT(30) DEF Next, HostProgress, AskedOK

\* The drains, the captures and the lifecycle stay what they are.
LEMMA HostStep ==
    ASSUME HostOK, Next
    PROVE  HostOK' \/ \E s \in Streams : drain_host_output(s)
<1> DEFINE D == drain \in [Streams -> {"none", "reading", "failed", "taken", "done", "aborted"}]
           C == capture \in [Streams -> Accumulator]
           L == lifecycle = [state |-> lifecycle.state, stdout |-> lifecycle.stdout, stderr |-> lifecycle.stderr]
<1>1. D /\ C /\ L
    BY DEF HostOK
<1>2. \A state : set(state) => L'
    BY <1>1 DEF set
<1>3. \A after : BindNext(after) => D'
    BY <1>1 DEF BindNext
<1> USE <1>1, <1>2, <1>3 DEF hvars, HostOnly, Rest, Host, Handler, GuestStep, DrainStep, fail_direct_process
<1> HIDE DEF L
<1>4. (Connect \/ Probed \/ build \/ WaitEnds \/ CancelSeen \/ close) => drain' = drain /\ capture'
      = capture /\ lifecycle' = lifecycle
    BY Zenon DEF Connect, Probed, build, WaitEnds, CancelSeen, close, Select
<1>5. (DropHandle \/ Cleaned \/ TimerFires \/ WaitDeadline \/ cancel) => drain' = drain /\ capture'
      = capture /\ lifecycle' = lifecycle
    BY Zenon DEF DropHandle, Cleaned, TimerFires, WaitDeadline, cancel, Select
<1>6. (ServePing \/ ServeStart \/ bind_output \/ ServeWait \/ kill \/ ServeClose \/ Exits \/
      DaemonExits \/ GuestLost) => drain' = drain /\ capture' = capture /\ lifecycle' = lifecycle
    BY Zenon DEF ServePing, ServeStart, bind_output, ServeWait, kill, ServeClose, Exits,
           DaemonExits, GuestLost
<1>7. ((\E s \in Streams : Write(s)) \/ (\E s \in Streams : relay(s)) \/ (\E s \in Streams :
      LinkBreaks(s))) => drain' = drain /\ capture' = capture /\ lifecycle' = lifecycle
    BY Zenon DEF Write, relay, LinkBreaks
<1>8. into_prepared => lifecycle' = lifecycle \/ set("failed")
    BY DEF into_prepared
<1>9. into_prepared => drain' = drain /\ capture' = capture
    BY Zenon DEF into_prepared
<1>10. Begin => L' /\ drain' = drain /\ capture' = capture
    BY DEF Begin
<1>11. run_direct_process => lifecycle' = lifecycle \/ set("failed")
    BY DEF run_direct_process
<1>12. finished => set("finished")
    BY DEF finished
<1>13. (run_direct_process \/ finished) => drain' = drain /\ capture' = capture
    BY Zenon DEF run_direct_process, finished
<1>14. retain_captured_output => L' /\ drain' = drain /\ capture' = capture
    BY Zenon DEF retain_captured_output, Streams, L
<1>15. spawn => L' /\ D' /\ capture' = capture
    BY ZenonT(30) DEF spawn
<1>16. start_output_drains => D' /\ capture' = capture /\ lifecycle' = lifecycle
    BY DEF start_output_drains
<1>17. DrainFails => D' /\ capture' = capture /\ lifecycle' = lifecycle
    BY ZenonT(30) DEF DrainFails
<1>18. finish_output_drains => D' /\ capture' = capture /\ lifecycle' = lifecycle
    BY ZenonT(30) DEF finish_output_drains
<1>19. DropRun => D' /\ capture' = capture /\ lifecycle' = lifecycle
    BY ZenonT(30) DEF DropRun
<1>20. (\E s \in Streams : DrainEnds(s)) => D' /\ capture' = capture /\ lifecycle' = lifecycle
    BY ZenonT(30) DEF DrainEnds
<1>21. (\E s \in Streams : FileFails(s)) => D' /\ capture' = capture /\ lifecycle' = lifecycle
    BY Zenon DEF FileFails
<1>22. SessionStep /\ UNCHANGED <<hvars, gvars>> => drain' = drain /\ capture' = capture /\ lifecycle' = lifecycle
    OBVIOUS
<1>23. lifecycle' = lifecycle => L'
    BY Zenon DEF L
<1>24. drain' = drain => D'
    BY Zenon
<1>25. capture' = capture => C'
    BY Zenon
<1> HIDE DEF D, C
<1>26. D' /\ C' /\ L' => HostOK'
    BY Zenon DEF HostOK, D, C, L
<1> QED BY <1>4, <1>5, <1>6, <1>7, <1>8, <1>9, <1>10, <1>11, <1>12, <1>13, <1>14, <1>15, <1>16,
      <1>17, <1>18, <1>19, <1>20, <1>21, <1>22, <1>23, <1>24, <1>25, <1>26, Zenon DEF Next, HostProgress

\* The steps of the guest, its process and the connections; those of the
\* host that touch neither.
GuestMoves ==
    \/ ServePing \/ ServeStart \/ bind_output \/ ServeWait \/ kill \/ ServeClose
    \/ Exits \/ DaemonExits \/ GuestLost
    \/ \E s \in Streams : Write(s) \/ relay(s) \/ LinkBreaks(s)
HostMoves ==
    \/ Connect \/ Probed \/ build \/ into_prepared \/ Begin \/ spawn
    \/ WaitEnds \/ DrainFails \/ CancelSeen \/ close \/ run_direct_process
    \/ retain_captured_output \/ finished \/ DropHandle \/ Cleaned
    \/ TimerFires \/ WaitDeadline \/ cancel

\* The guest does not touch the run.
LEMMA GuestMovesKeep ==
    ASSUME GuestMoves
    PROVE  /\ asked' = asked /\ pc' = pc /\ outcome' = outcome /\ cleanup' = cleanup /\ wait' = wait
           /\ drain' = drain /\ capture' = capture /\ answer' = answer /\ lifecycle' = lifecycle
<1> DEFINE K == /\ asked' = asked /\ pc' = pc /\ outcome' = outcome /\ cleanup' = cleanup /\ wait' = wait
                /\ drain' = drain /\ capture' = capture /\ answer' = answer /\ lifecycle' = lifecycle
<1> USE DEF hvars, Host, Handler, GuestStep
<1> (ServePing \/ ServeStart \/ bind_output \/ ServeWait \/ kill \/ ServeClose) => K
    BY Zenon DEF ServePing, ServeStart, bind_output, ServeWait, kill, ServeClose
<1> (Exits \/ DaemonExits \/ GuestLost \/ (\E s \in Streams : Write(s)) \/ (\E s \in Streams :
      relay(s)) \/ (\E s \in Streams : LinkBreaks(s))) => K
    BY Zenon DEF Exits, DaemonExits, GuestLost, Write, relay, LinkBreaks
<1> HIDE DEF K
<1> K
    BY Zenon DEF GuestMoves
<1> QED BY Zenon DEF K

\* These steps of the host do not touch the guest.
LEMMA HostMovesKeep ==
    ASSUME HostMoves
    PROVE  /\ process' = process /\ entry' = entry /\ written' = written /\ pipe' = pipe
           /\ reader' = reader /\ link' = link /\ peer' = peer /\ config' = config
<1> DEFINE K == /\ process' = process /\ entry' = entry /\ written' = written /\ pipe' = pipe
                /\ reader' = reader /\ link' = link /\ peer' = peer /\ config' = config
<1> USE DEF gvars, bvars, HostOnly
<1>1. (Connect \/ Probed \/ build \/ into_prepared \/ Begin \/ spawn) => K
    BY Zenon DEF Connect, Probed, build, into_prepared, Begin, spawn
<1>2. (WaitEnds \/ DrainFails \/ CancelSeen \/ close \/ run_direct_process \/
      retain_captured_output) => K
    BY Zenon DEF WaitEnds, DrainFails, CancelSeen, close, run_direct_process,
           retain_captured_output
<1>3. (finished \/ DropHandle \/ Cleaned \/ TimerFires \/ WaitDeadline \/ cancel) => K
    BY Zenon DEF finished, DropHandle, Cleaned, TimerFires, WaitDeadline, cancel
<1> HIDE DEF K
<1>4. K
    BY <1>1, <1>2, <1>3, Zenon DEF HostMoves
<1> QED BY <1>1, <1>2, <1>3, <1>4, Zenon DEF K

\* What becomes of the command.
LEMMA CallFacts ==
    ASSUME CallShape
    PROVE  /\ \A op : Ask(op) => call'.op = op /\ call'.phase = "dial" /\ call'.event = "none"
           /\ Fails => call'.op = call.op /\ call'.phase = "failed" /\ call'.event = "none"
           /\ \A event : Serve(event) =>
                 call'.op = call.op /\ call.phase = "asked" /\ call'.phase = "done" /\ call'.event = event
           /\ Idle.op = "none" /\ Idle.phase = "idle" /\ Idle.event = "none"
<1>1. \A op : Ask(op) => call'.op = op /\ call'.phase = "dial" /\ call'.event = "none"
    BY DEF Ask, Idle
<1>2. Fails => call'.op = call.op /\ call'.phase = "failed" /\ call'.event = "none"
    BY DEF Fails, CallShape
<1>3. \A event : Serve(event) =>
        call'.op = call.op /\ call.phase = "asked" /\ call'.phase = "done" /\ call'.event = event
    BY DEF Serve, CallShape
<1>4. Idle.op = "none" /\ Idle.phase = "idle" /\ Idle.event = "none"
    BY DEF Idle
<1> QED BY <1>1, <1>2, <1>3, <1>4

\* The guest answers a command and asks for none.
LEMMA GuestKeepsCall ==
    ASSUME CallShape, GuestMoves
    PROVE  call'.op = call.op /\ (Over => Over')
<1> USE CallFacts DEF cvars, Over, Handler, GuestStep
<1> (ServePing \/ ServeStart \/ bind_output \/ ServeWait \/ kill \/ ServeClose) => call' = call \/
      \E event : Serve(event)
    BY Zenon DEF ServePing, ServeStart, bind_output, ServeWait, kill, ServeClose
<1> (Exits \/ DaemonExits \/ (\E s \in Streams : Write(s)) \/ (\E s \in Streams : relay(s)) \/ (\E
      s \in Streams : LinkBreaks(s))) => call' = call
    BY Zenon DEF Exits, DaemonExits, Write, relay, LinkBreaks
<1> GuestLost => call' = call \/ Fails
    BY Zenon DEF GuestLost, Readdress
<1> QED BY DEF GuestMoves

\* Each point of the run has its command.
LEMMA OpStep ==
    ASSUME CallShape, AskedOK, OpInv, Next
    PROVE  OpInv'
<1>1. \A s \in Streams : Piped(s)' <=> Piped(s)
    BY AskedStep DEF Piped
<1>2. pc' = pc /\ call'.op = call.op => OpInv'
    BY <1>1 DEF OpInv
<1>3. \A op \in {"ping", "wait", "stop", "close"} : Ask(op) /\ pc' \notin {"spawning", "binding"} => OpInv'
    BY CallFacts DEF OpInv, Streams
<1>4. call' = Idle /\ pc' \notin {"spawning", "binding"} => OpInv'
    BY CallFacts DEF OpInv, Streams
<1>5. call' = call /\ pc \notin {"spawning", "binding", "dropped"} /\ pc' \notin {"spawning", "binding"} => OpInv'
    BY DEF OpInv
<1>6. \A after : BindNext(after) => OpInv'
    <2>1. \A after : Unbound(after) # {} => First(Unbound(after)) \in Streams /\ Piped(First(Unbound(after)))
        BY DEF Unbound, First, Streams
    <2>2. \A s \in Streams : Ask(s) /\ pc' = "binding" /\ Piped(s) => OpInv'
        BY <1>1, CallFacts DEF OpInv, Streams
    <2> QED BY <1>3, <2>1, <2>2, Zenon DEF BindNext
<1>7. GuestMoves => OpInv'
    BY <1>2, GuestMovesKeep, GuestKeepsCall, Zenon
<1>8. SessionStep /\ UNCHANGED <<hvars, gvars>> => OpInv'
    BY <1>2, SessionCall, Zenon DEF hvars
<1>9. Ask("start") /\ pc' = "spawning" => OpInv'
    BY CallFacts, SMTT(20) DEF OpInv, Streams
<1>10. DropRun => OpInv'
    BY <1>4, <1>5 DEF DropRun, OpInv
<1>11. Fails /\ pc' = pc => OpInv'
    BY <1>2, CallFacts, Zenon
<1> USE <1>2, <1>3, <1>4, <1>5, <1>6, <1>9, <1>11 DEF HostOnly, Rest, DrainStep
<1>12. ((\E s \in Streams : drain_host_output(s)) \/ (\E s \in Streams : DrainEnds(s)) \/ (\E s \in
      Streams : FileFails(s)) \/ cancel \/ finish_output_drains) => OpInv'
    BY Zenon DEF drain_host_output, DrainEnds, FileFails, cancel, finish_output_drains, cvars
<1>13. (Connect \/ Probed \/ build \/ WaitDeadline) => OpInv'
    BY Zenon DEF Connect, Probed, build, WaitDeadline
<1>14. into_prepared => pc = "built" /\ call' = call /\ pc' \in {"returned", "prepared"}
    BY DEF into_prepared, fail_direct_process
<1>15. (Begin \/ spawn \/ start_output_drains) => OpInv'
    BY Zenon DEF Begin, spawn, start_output_drains, fail_direct_process
<1>16. (WaitEnds \/ DrainFails \/ CancelSeen \/ TimerFires) => OpInv'
    BY Zenon DEF WaitEnds, DrainFails, CancelSeen, TimerFires, Select
<1>17. (close \/ DropHandle \/ Cleaned) => OpInv'
    BY Zenon DEF close, DropHandle, Cleaned
<1>18. (run_direct_process \/ retain_captured_output \/ finished) => OpInv'
    BY Zenon DEF run_direct_process, retain_captured_output, finished, fail_direct_process
<1> QED BY <1>12, <1>13, <1>14, <1>15, <1>16, <1>17, <1>18, <1>7, <1>8, <1>10, Zenon DEF Next, HostProgress, GuestMoves

\* Nothing happens before its time.
LEMMA PastStep ==
    ASSUME AskedOK, PastInv, Next
    PROVE  PastInv'
<1> DEFINE Quiet == wait' = wait /\ cleanup' = cleanup /\ outcome' = outcome /\ drain' = drain
           Then == Early \cup {"binding"}
           Checked == pc \notin Unchecked => \A s \in Streams : validate_output(asked[s])
           Yet == pc \in Then => wait = "none" /\ cleanup = "none" /\ outcome = "none"
                                 /\ \A s \in Streams : drain[s] = "none"
<1>1. Checked /\ Yet
    BY DEF PastInv
<1>2. \A s \in Streams : validate_output(asked[s])' <=> validate_output(asked[s])
    BY AskedStep
<1>3. (pc' = pc \/ pc \notin Unchecked \/ pc' \in Unchecked) => Checked'
    BY <1>1, <1>2, Zenon
<1>4. Quiet /\ (pc' = pc \/ pc \in Then) => Yet'
    BY <1>1, Zenon
<1>5. pc' \notin Then => Yet'
    BY Zenon
<1>6. DropRun => Yet' /\ Checked'
    <2> SUFFICES ASSUME DropRun PROVE Yet' /\ Checked'
        OBVIOUS
    <2>1. pc \notin Unchecked
        BY DEF DropRun, Unchecked
    <2>2. CASE pc # "spawning"
        BY <1>3, <1>5, <2>1, <2>2, ZenonT(30) DEF DropRun, Early
    <2>3. CASE pc = "spawning"
        <3>1. wait = "none" /\ cleanup = "none" /\ outcome = "none" /\ \A s \in Streams : drain[s] = "none"
            BY <1>1, <2>3, ZenonT(30) DEF Early
        <3> QED BY <1>3, <2>1, <3>1 DEF DropRun
    <2> QED BY <2>2, <2>3
<1>7. build => Yet' /\ Checked'
    BY <1>2, <1>4 DEF build, HostOnly, Rest, Early, Unchecked
<1> HIDE DEF Checked, Yet
<1>8. GuestMoves => Yet' /\ Checked'
    BY <1>3, <1>4, GuestMovesKeep, Zenon
<1>9. SessionStep /\ UNCHANGED <<hvars, gvars>> => Yet' /\ Checked'
    BY <1>3, <1>4, Zenon DEF hvars
<1> USE <1>3, <1>4, <1>5 DEF HostOnly, Rest, DrainStep
<1>10. ((\E s \in Streams : drain_host_output(s)) \/ (\E s \in Streams : DrainEnds(s)) \/ (\E s \in
      Streams : FileFails(s))) => Yet' /\ Checked'
    BY Zenon DEF drain_host_output, DrainEnds, FileFails, Reading, Early
<1>11. (finish_output_drains \/ cancel \/ Connect \/ Probed \/ WaitDeadline) => Yet' /\ Checked'
    BY Zenon DEF finish_output_drains, cancel, Connect, Probed, WaitDeadline, Early, Unchecked
<1>12. into_prepared => pc = "built" /\ (pc' = "returned" \/ pc' = "prepared")
    BY DEF into_prepared, fail_direct_process
<1>13. into_prepared => Quiet
    BY Zenon DEF into_prepared
<1>14. into_prepared => Yet' /\ Checked'
    BY <1>12, <1>13, Zenon DEF Early, Unchecked
<1>15. Begin => Yet' /\ Checked'
    BY Zenon DEF Begin, fail_direct_process, Early, Unchecked
<1>16. spawn => Yet' /\ Checked'
    BY Zenon DEF spawn, fail_direct_process, BindNext, Early, Unchecked
<1>17. start_output_drains => Yet' /\ Checked'
    BY Zenon DEF start_output_drains, BindNext, Early, Unchecked
<1>18. (WaitEnds \/ DrainFails \/ CancelSeen \/ TimerFires) => Yet' /\ Checked'
    BY Zenon DEF WaitEnds, DrainFails, CancelSeen, TimerFires, Select, Early, Unchecked
<1>19. (close \/ DropHandle \/ Cleaned) => Yet' /\ Checked'
    BY Zenon DEF close, DropHandle, Cleaned, Early, Unchecked
<1>20. (run_direct_process \/ retain_captured_output \/ finished) => Yet' /\ Checked'
    BY Zenon DEF run_direct_process, retain_captured_output, finished, fail_direct_process, Early,
           Unchecked
<1>21. Yet' /\ Checked' => PastInv'
    BY Zenon DEF PastInv, Yet, Checked
<1> QED BY <1>10, <1>11, <1>12, <1>13, <1>14, <1>15, <1>16, <1>17, <1>18, <1>19, <1>20, <1>21,
      <1>6, <1>7, <1>8, <1>9, Zenon DEF Next, HostProgress, GuestMoves

\* The host takes no answer of the guest for another.
LEMMA HostKeepsEvent ==
    ASSUME CallShape, HostMoves \/ start_output_drains \/ DropRun
    PROVE  call'.event \in {call.event, "none"}
<1> DEFINE K == call' = call \/ call' = Idle \/ Fails \/ \E op : Ask(op)
<1>1. K => call'.event \in {call.event, "none"}
    BY CallFacts
<1> USE DEF HostOnly
<1> (Connect \/ Probed \/ build \/ Begin \/ spawn \/ start_output_drains) => K
    BY Zenon DEF Connect, Probed, build, Begin, spawn, start_output_drains, fail_direct_process,
           BindNext
<1> (WaitEnds \/ DrainFails \/ CancelSeen \/ TimerFires \/ close) => K
    BY Zenon DEF WaitEnds, DrainFails, CancelSeen, TimerFires, close, Select
<1> (into_prepared \/ run_direct_process \/ retain_captured_output \/ finished \/ DropHandle \/
      Cleaned \/ WaitDeadline \/ cancel \/ DropRun) => K
    BY Zenon DEF into_prepared, run_direct_process, retain_captured_output, finished, DropHandle,
           Cleaned, WaitDeadline, cancel, DropRun
<1> HIDE DEF K
<1> QED BY <1>1, Zenon DEF HostMoves

\* A process that has exited stays so, and an entry that is gone stays gone.
LEMMA FateStep ==
    ASSUME CallShape, OpInv, PastInv, FateInv, Next
    PROVE  FateInv'
<1> DEFINE Told == (call.event = "exited" => process = "exited") /\ (call.event = "closed" => ~entry)
           Known == /\ process \in {"none", "running", "exited", "killed"}
                    /\ (wait = "exited" => process = "exited") /\ (cleanup = "ok" => ~entry)
           Lasting == /\ process' \in {process, "exited", "killed"}
                      /\ (process = "exited" => process' = "exited") /\ (~entry => ~entry')
<1>1. Told /\ Known
    BY DEF FateInv
<1>2. Lasting /\ call'.event \in {call.event, "none"} => Told'
    BY <1>1
<1>3. Lasting /\ wait' = wait /\ cleanup' = cleanup => Known'
    BY <1>1
<1>4. \A event : Serve(event) /\ Lasting /\ event \notin {"exited", "closed"} => Told'
    BY CallFacts
<1>5. WaitEnds \/ close => Known'
    <2>1. WaitEnds \/ close => process' = process /\ entry' = entry
        BY HostMovesKeep, Zenon DEF HostMoves
    <2>2. WaitEnds => wait' = call.event /\ cleanup' = cleanup
        BY DEF WaitEnds, Event
    <2>3. close => wait' = wait /\ (cleanup' \in {cleanup, "failed"} \/ call.event = "closed")
        BY DEF close, Event
    <2> QED BY <1>1, <2>1, <2>2, <2>3
<1>6. ServeStart => Told' /\ Known'
    <2> SUFFICES ASSUME ServeStart PROVE Told' /\ Known'
        OBVIOUS
    <2>1. \/ process' = process /\ entry' = entry /\ Serve("error")
          \/ process' = "running" /\ Serve("started")
        BY Zenon DEF ServeStart
    <2>2. wait' = wait /\ cleanup' = cleanup
        BY GuestMovesKeep DEF GuestMoves
    <2>3. wait = "none" /\ cleanup = "none"
        BY DEF ServeStart, OpInv, PastInv, Early
    <2> QED BY <1>1, <2>1, <2>2, <2>3, CallFacts, SMTT(20)
<1>7. ServeWait \/ kill => Told'
    <2>1. Exit = "exited" => process = "exited"
        BY DEF Exit
    <2>2. Serve(Exit) /\ Lasting => Told'
        <3>1. Serve(Exit) => call'.event = Exit
            BY CallFacts, Zenon
        <3>2. Exit # "closed"
            BY <1>1 DEF Exit
        <3> QED BY <2>1, <3>1, <3>2
    <2>3. ServeWait \/ kill => Lasting /\ (call' = call \/ Serve(Exit) \/ Serve("error"))
        BY DEF ServeWait, kill, Handler, gvars
    <2> HIDE DEF Told, Lasting
    <2> QED BY <1>2, <1>4, <2>2, <2>3, Zenon
<1>8. ServeClose => Told' /\ Lasting
    BY <1>1, <1>4, CallFacts, SMTT(20) DEF ServeClose
<1>9. (ServeWait \/ kill) => Lasting
    BY DEF ServeWait, kill, gvars
<1>10. process' = process /\ entry' = entry => Lasting
    OBVIOUS
<1> HIDE DEF Told, Known, Lasting
<1> USE <1>2, <1>3, <1>10, <1>4 DEF gvars, cvars, Handler, GuestStep, HostOnly, DrainStep
<1>11. (ServePing \/ bind_output) => Told' /\ Lasting
    BY ZenonT(30) DEF ServePing, bind_output
<1>12. (Exits \/ (\E s \in Streams : Write(s)) \/ GuestLost) => Lasting
    <2>1. Exits => Lasting
        <3>1. Exits => process' = "exited" /\ entry' = entry
            BY ZenonT(30) DEF Exits
        <3> QED BY <3>1, ZenonT(30) DEF Lasting
    <2>2. (\E s \in Streams : Write(s)) => Lasting
        <3>1. (\E s \in Streams : Write(s)) => process' = process \/ (process = "running" /\ process' = "killed")
            BY ZenonT(30) DEF Write
        <3>2. (\E s \in Streams : Write(s)) => entry' = entry
            BY ZenonT(30) DEF Write
        <3> QED BY <3>1, <3>2, ZenonT(30) DEF Lasting
    <2>3. GuestLost => Lasting
        <3>1. GuestLost => process' = process \/ (process = "running" /\ process' = "killed")
            BY ZenonT(30) DEF GuestLost
        <3>2. GuestLost => ~entry'
            BY ZenonT(30) DEF GuestLost
        <3> QED BY <3>1, <3>2, ZenonT(30) DEF Lasting
    <2> QED BY <2>1, <2>2, <2>3, ZenonT(30)
<1>13. (Exits \/ (\E s \in Streams : Write(s))) => call' = call
    BY Zenon DEF Exits, Write
<1>14. (DaemonExits \/ (\E s \in Streams : relay(s)) \/ (\E s \in Streams : LinkBreaks(s))) =>
      Lasting /\ call' = call
    BY Zenon DEF DaemonExits, relay, LinkBreaks
<1>15. GuestLost => call' = call \/ Fails
    BY Zenon DEF GuestLost, Readdress
<1>16. call' = call \/ Fails => call'.event \in {call.event, "none"}
    BY CallFacts
<1>17. ((\E s \in Streams : drain_host_output(s)) \/ (\E s \in Streams : DrainEnds(s)) \/ (\E s \in
      Streams : FileFails(s)) \/ finish_output_drains) => Told' /\ Known'
    BY Zenon DEF drain_host_output, DrainEnds, FileFails, finish_output_drains, cvars
<1>18. HostMoves \/ start_output_drains \/ DropRun => Lasting
    BY HostMovesKeep, Zenon DEF start_output_drains, DropRun
<1>19. HostMoves \/ start_output_drains \/ DropRun => Told'
    BY <1>18, HostKeepsEvent, Zenon
<1>20. (Connect \/ Probed \/ build \/ into_prepared \/ Begin \/ spawn \/ start_output_drains) =>
      Known'
    BY Zenon DEF Connect, Probed, build, into_prepared, Begin, spawn, start_output_drains, Rest
<1>21. (DrainFails \/ CancelSeen \/ TimerFires \/ run_direct_process \/ retain_captured_output \/
      finished) => Known'
    BY Zenon DEF DrainFails, CancelSeen, TimerFires, run_direct_process, retain_captured_output,
           finished
<1>22. (DropHandle \/ Cleaned \/ WaitDeadline \/ cancel \/ DropRun) => Known'
    BY Zenon DEF DropHandle, Cleaned, WaitDeadline, cancel, DropRun, Rest
<1>23. GuestMoves => ServeStart \/ Lasting
    BY <1>8, <1>9, <1>11, <1>12, <1>14, Zenon DEF GuestMoves
<1>24. GuestMoves => Known'
    BY <1>6, <1>23, GuestMovesKeep, Zenon
<1>25. SessionStep /\ UNCHANGED <<hvars, gvars>> => Told' /\ Known'
    BY SessionCall, Zenon DEF hvars
<1>26. Told' /\ Known' => FateInv'
    BY Zenon DEF FateInv, Told, Known
<1> QED BY <1>11, <1>12, <1>13, <1>14, <1>15, <1>16, <1>17, <1>18, <1>19, <1>20, <1>21, <1>22,
      <1>23, <1>24, <1>25, <1>26, <1>5, <1>6, <1>7, <1>8, Zenon DEF Next, HostProgress, GuestMoves, HostMoves

\* A success is told once, with the output retained before.
LEMMA ToldStep ==
    ASSUME AskedOK, HostOK, ToldInv, Next
    PROVE  ToldInv'
<1> DEFINE After == {"retaining", "finishing", "returned", "cleaning", "cleaned"}
           Life == lifecycle = [state |-> lifecycle.state, stdout |-> lifecycle.stdout, stderr |-> lifecycle.stderr]
           Untold == lifecycle.state \notin {"finished", "failed"}
<1>1. Life
    BY ZenonT(30) DEF HostOK
<1>2. pc \notin {"returned", "cleaning", "cleaned"} => Untold /\ answer # "ok"
    BY DEF ToldInv, is_terminal
<1>3. \A state : set(state) /\ Untold => lifecycle' = [lifecycle EXCEPT !.state = state]
    BY DEF set, is_terminal
<1>4. \A state : set(state) /\ Untold => lifecycle'.state = state
    BY <1>1, <1>3, ZenonT(30)
<1>5. pc \notin After /\ pc' \notin After /\ Untold' /\ answer' = answer => ToldInv'
    BY <1>2 DEF ToldInv, is_terminal
<1>6. \A error : error # "ok" /\ fail_direct_process(error) /\ pc \notin {"returned", "cleaning", "cleaned"} => ToldInv'
    <2>1. \A error : fail_direct_process(error) => answer' = error /\ pc' = "returned" /\ set("failed")
        BY ZenonT(30) DEF fail_direct_process
    <2>2. answer' # "ok" /\ pc' = "returned" /\ lifecycle'.state = "failed" => ToldInv'
        BY DEF ToldInv, is_terminal
    <2> QED BY <1>2, <1>4, <2>1, <2>2, Zenon
<1>7. ASSUME asked' = asked, pc' = pc, outcome' = outcome, cleanup' = cleanup, wait' = wait,
             drain' = drain, capture' = capture, answer' = answer, lifecycle' = lifecycle
      PROVE  ToldInv'
    BY <1>7, Zenon DEF ToldInv, Won, AllJoined, FirstError
<1>8. retain_captured_output => ToldInv'
    <2> SUFFICES ASSUME retain_captured_output PROVE ToldInv'
        OBVIOUS
    <2>1. /\ pc = "retaining" /\ pc' = "finishing" /\ UNCHANGED <<asked, outcome, cleanup, wait, drain, capture, answer>>
          /\ lifecycle' = [s \in {"state"} \cup Streams |->
                       IF s \in Streams /\ asked[s].route = "capture" THEN {capture[s].bytes} ELSE lifecycle[s]]
        BY Zenon DEF retain_captured_output
    <2>2. lifecycle'.state = lifecycle.state
        BY <2>1 DEF Streams
    <2>3. \A s \in Streams : asked[s].route = "capture" => lifecycle'[s] = {capture[s].bytes}
        BY <2>1, ZenonT(30)
    <2>4. Won' /\ Untold' /\ answer' # "ok"
        BY <1>2, <2>1, <2>2, ZenonT(30) DEF ToldInv, Won, AllJoined, FirstError
    <2>5. \A s \in Streams : asked'[s].route = "capture" => lifecycle'[s] = {capture'[s].bytes}
        BY <2>1, <2>3, ZenonT(30)
    <2> QED BY <2>1, <2>4, <2>5 DEF ToldInv, is_terminal
<1>9. finished => ToldInv'
    <2> SUFFICES ASSUME finished PROVE ToldInv'
        OBVIOUS
    <2>1. /\ pc = "finishing" /\ pc' = "returned" /\ UNCHANGED <<asked, outcome, cleanup, wait, drain, capture>>
          /\ answer' = "ok" /\ set("finished")
        BY Zenon DEF finished
    <2>2. lifecycle' = [lifecycle EXCEPT !.state = "finished"]
        BY <1>2, <1>3, <2>1
    <2>3. lifecycle'.state = "finished" /\ \A s \in Streams : lifecycle'[s] = lifecycle[s]
        BY <1>1, <2>2, ZenonT(30) DEF Streams
    <2>4. Won' /\ \A s \in Streams : asked[s].route = "capture" => lifecycle[s] = {capture[s].bytes}
        BY <2>1, ZenonT(30) DEF ToldInv, Won, AllJoined, FirstError
    <2>5. \A s \in Streams : asked'[s].route = "capture" => lifecycle'[s] = {capture'[s].bytes}
        BY <2>1, <2>3, <2>4, ZenonT(30)
    <2> QED BY <2>1, <2>3, <2>4, <2>5, ZenonT(30) DEF ToldInv, is_terminal
<1>10. DropHandle \/ Cleaned => ToldInv'
    <2> SUFFICES ASSUME DropHandle \/ Cleaned PROVE ToldInv'
        OBVIOUS
    <2>1. /\ UNCHANGED <<outcome, cleanup, wait, drain, capture, answer, lifecycle>>
          /\ pc' \in {"cleaning", "cleaned"} /\ (pc = "returned" => cleanup = "failed")
        BY DEF DropHandle, Cleaned, Rest
    <2>2. pc \in {"released", "returned", "cleaning"}
        BY DEF DropHandle, Cleaned
    <2>3. lifecycle.state # "finished" /\ answer # "ok"
        BY <2>1, <2>2 DEF ToldInv, Won
    <2> QED BY <2>1, <2>3 DEF ToldInv, is_terminal
<1>11. run_direct_process => ToldInv'
    <2> SUFFICES ASSUME run_direct_process PROVE ToldInv'
        OBVIOUS
    <2>1. \/ (\E error : error # "ok" /\ fail_direct_process(error))
          \/ Won /\ pc' = "retaining" /\ UNCHANGED <<answer, lifecycle>>
        BY DEF run_direct_process, Won
    <2>2. pc = "draining" /\ UNCHANGED <<asked, outcome, cleanup, wait, drain, capture>>
        BY Zenon DEF run_direct_process
    <2>3. Won => Won'
        BY <2>2, Zenon DEF Won, AllJoined, FirstError
    <2>4. CASE Won /\ pc' = "retaining" /\ UNCHANGED <<answer, lifecycle>>
        BY <1>2, <2>2, <2>3, <2>4 DEF ToldInv, is_terminal
    <2> QED BY <1>6, <2>1, <2>2, <2>4, ZenonT(30)
<1>12. GuestMoves => ToldInv'
    BY <1>7, GuestMovesKeep, Zenon
<1>13. SessionStep /\ UNCHANGED <<hvars, gvars>> => ToldInv'
    BY <1>7, Zenon DEF hvars
<1>14. pc \notin After /\ pc' \notin After /\ answer' = answer
          /\ (lifecycle' = lifecycle \/ set("starting") \/ set("running")) => ToldInv'
    BY <1>2, <1>4, <1>5
<1> HIDE DEF Life, Untold
<1> USE <1>6, <1>14 DEF HostOnly, Rest, DrainStep
<1>15. ((\E s \in Streams : drain_host_output(s)) \/ (\E s \in Streams : DrainEnds(s)) \/ (\E s \in
      Streams : FileFails(s))) => ToldInv'
    BY Zenon DEF drain_host_output, DrainEnds, FileFails, Reading
<1>16. (finish_output_drains \/ cancel \/ Connect \/ Probed \/ WaitDeadline \/ build) => ToldInv'
    BY Zenon DEF finish_output_drains, cancel, Connect, Probed, WaitDeadline, build
<1>17. into_prepared => pc = "built" /\ (fail_direct_process("unprepared") \/ (pc' = "prepared" /\ UNCHANGED <<answer, lifecycle>>))
    BY DEF into_prepared
<1>18. into_prepared => ToldInv'
    BY <1>17, Zenon
<1>19. Begin => ToldInv'
    BY Zenon DEF Begin
<1>20. (spawn \/ start_output_drains) => ToldInv'
    BY Zenon DEF spawn, start_output_drains, BindNext
<1>21. (WaitEnds \/ DrainFails \/ CancelSeen \/ TimerFires \/ close) => ToldInv'
    BY ZenonT(30) DEF WaitEnds, DrainFails, CancelSeen, TimerFires, close, Select
<1>22. DropRun => ToldInv'
    BY Zenon DEF DropRun
<1> QED BY <1>15, <1>16, <1>17, <1>18, <1>19, <1>20, <1>21, <1>22, <1>8, <1>9, <1>10, <1>11, <1>12, <1>13, Zenon DEF Next, HostProgress, GuestMoves

\* A drain is done at the end of its connection, and one that is not read
\* to its end is an error of the run.
LEMMA DrainsStep ==
    ASSUME CallShape, AskedOK, HostOK, PipesOK, OpInv, PastInv, DrainInv, Next
    PROVE  DrainInv'
<1> DEFINE Rel == {"released", "cleaning", "cleaned"}
           Fine == FirstError \/ \A s \in Streams : Piped(s) => drain[s] \in {"reading", "done"}
           Waited == pc = "waiting" \/ (outcome = "wait" /\ pc \notin Rel)
           End == [bytes |-> <<>>, state |-> "eof"]
           D1 == Waited => Fine
           D2 == \A s \in Streams : drain[s] = "done" /\ pc \notin Rel => link[s] = End
           Types == [Streams -> {"none", "reading", "failed", "taken", "done", "aborted"}]
<1> HIDE DEF Rel, Fine, Waited, End, D1, D2, Types
<1>1. D1 /\ D2 /\ drain \in Types /\ link \in [Streams -> Conn]
    BY DEF DrainInv, HostOK, PipesOK, D1, D2, Types, Rel, Fine, Waited, End
<1>2. \A s \in Streams : Piped(s)' <=> Piped(s)
    BY AskedStep DEF Piped
<1>3. pc' \in Rel => D1' /\ D2'
    BY DEF D1, D2, Waited, Rel
<1>4. ASSUME drain' = drain, outcome' = outcome, pc' # "waiting" \/ pc' = pc, pc \notin Rel PROVE D1'
    BY <1>1, <1>2, <1>4 DEF FirstError, D1, Waited, Fine
<1>5. outcome' # "wait" /\ pc' # "waiting" => D1'
    BY DEF D1, Waited
<1>6. drain' = drain /\ link' = link /\ pc \notin Rel => D2'
    BY <1>1 DEF D2, Types
<1>7. pc \in Early \cup {"binding"} => outcome = "none" /\ \A s \in Streams : drain[s] = "none"
    BY DEF PastInv
<1>8. ASSUME NEW after, BindNext(after), outcome' = outcome, outcome # "wait", link' = link, pc \notin Rel PROVE D1' /\ D2'
    <2>1. CASE Unbound(after) # {}
        BY <1>5, <1>6, <1>8, <2>1 DEF BindNext
    <2>2. CASE Unbound(after) = {}
        BY <1>2, <1>8, <2>2 DEF BindNext, D1, D2, Waited, Fine
    <2> QED BY <2>1, <2>2
<1>9. start_output_drains => D1' /\ D2'
    <2> SUFFICES ASSUME start_output_drains PROVE D1' /\ D2'
        OBVIOUS
    <2>1. outcome = "none" /\ (\A s \in Streams : drain[s] = "none") /\ pc = "binding"
        BY <1>7 DEF start_output_drains
    <2>2. CASE Event = "bound"
        BY <1>8, <2>1, <2>2, ZenonT(30) DEF start_output_drains, Rel
    <2>3. CASE Event # "bound"
        BY <2>1, <2>3, ZenonT(30) DEF start_output_drains, D1, D2, Waited
    <2> QED BY <2>2, <2>3
<1>10. finish_output_drains => D1' /\ D2'
    BY <1>1, ZenonT(30) DEF finish_output_drains, FirstError, D1, D2, Waited, Rel, Fine, Types
<1>11. DropRun => D1' /\ D2'
    BY <1>3, <1>7, ZenonT(30) DEF DropRun, Early, D1, D2, Waited, Rel, Types
<1>12. WaitEnds => D1' /\ D2'
    BY <1>1, <1>2, HostMovesKeep DEF HostMoves, WaitEnds, Select, FirstError, D1, D2, Waited, Fine, Rel
<1>13. DrainFails => D1' /\ D2'
    BY <1>1, HostMovesKeep, ZenonT(30) DEF HostMoves, DrainFails, Select, D1, D2, Waited, Rel, Types
<1>14. ASSUME NEW s \in Streams, drain_host_output(s) \/ DrainEnds(s) \/ FileFails(s) PROVE D1' /\ D2'
    <2>1. pc' = pc /\ outcome' = outcome /\ drain[s] = "reading"
        BY <1>14, ZenonT(30) DEF drain_host_output, DrainEnds, FileFails, DrainStep, Reading
    <2>2. \/ drain' = drain
          \/ drain' = [drain EXCEPT ![s] = "failed"]
          \/ drain' = [drain EXCEPT ![s] = "done"] /\ link[s].bytes = <<>> /\ link[s].state = "eof" /\ link' = link
        BY <1>14, ZenonT(30) DEF drain_host_output, DrainEnds, FileFails
    <2>3. \A t \in Streams : t # s => link'[t] = link[t]
        BY <1>1, <1>14, ZenonT(30) DEF drain_host_output, DrainEnds, FileFails, Read
    <2>4. link[s].bytes = <<>> /\ link[s].state = "eof" => link[s] = End
        BY <1>1, ZenonT(30) DEF Conn, End
    <2> QED BY <1>1, <1>2, <2>1, <2>2, <2>3, <2>4, ZenonT(30) DEF FirstError, D1, D2, Waited, Fine, Types
<1>15. GuestMoves => D1' /\ D2'
    <2> SUFFICES ASSUME GuestMoves PROVE D1' /\ D2'
        OBVIOUS
    <2>1. drain' = drain /\ outcome' = outcome /\ pc' = pc
        BY GuestMovesKeep
    <2>2. D1'
        BY <1>1, <1>2, <2>1 DEF FirstError, D1, Waited, Fine
    <2>3. ~bind_output => \A s \in Streams : link[s] = End => link'[s] = End
        <3> USE <1>1 DEF Handler, GuestStep, gvars
        <3>1. ServePing \/ ServeStart \/ ServeWait \/ kill \/ ServeClose \/ Exits \/ DaemonExits => link' = link
            BY Zenon DEF ServePing, ServeStart, ServeWait, kill, ServeClose, Exits, DaemonExits
        <3>2. ASSUME NEW s \in Streams, Write(s) \/ relay(s) \/ LinkBreaks(s)
              PROVE  \A t \in Streams : link[t] = End => link'[t] = End
            BY <3>2 DEF Write, relay, LinkBreaks, End
        <3>3. GuestLost => \A s \in Streams : link[s] = End => link'[s] = End
            <4>1. GuestLost => \A s \in Streams : link[s].state # "open" => link'[s] = link[s]
                BY ZenonT(30) DEF GuestLost
            <4> QED BY <4>1 DEF End
        <3> QED BY <3>1, <3>2, <3>3, Zenon DEF GuestMoves
    <2>4. bind_output => \A s \in Streams : drain[s] = "none"
        BY <1>7 DEF bind_output, OpInv
    <2> QED BY <1>1, <2>1, <2>2, <2>3, <2>4 DEF D2
<1>16. SessionStep /\ UNCHANGED <<hvars, gvars>> => D1' /\ D2'
    BY <1>1, <1>2 DEF hvars, gvars, FirstError, D1, D2, Waited, Fine
<1>17. spawn => D1' /\ D2'
    <2> SUFFICES ASSUME spawn PROVE D1' /\ D2'
        OBVIOUS
    <2>1. outcome = "none" /\ pc = "spawning" /\ outcome' = outcome /\ link' = link
        BY <1>7, HostMovesKeep DEF spawn, Early, HostMoves
    <2>2. BindNext("start") \/ (drain' = drain /\ pc' = "returned")
        BY Zenon DEF spawn, fail_direct_process
    <2> QED BY <1>5, <1>6, <1>8, <2>1, <2>2, ZenonT(30) DEF Rel
<1>18. HostMoves => link' = link
    BY HostMovesKeep
<1> USE <1>3, <1>4, <1>5, <1>6 DEF Rest, Rel
<1>19. (Connect \/ Probed \/ build \/ WaitDeadline \/ cancel) /\ HostMoves => D1' /\ D2'
    BY <1>18, Zenon DEF Connect, Probed, build, WaitDeadline, cancel
<1>20. (Begin \/ run_direct_process \/ retain_captured_output \/ finished \/ close) /\ HostMoves =>
      D1' /\ D2'
    BY <1>18, Zenon DEF Begin, run_direct_process, retain_captured_output, finished, close,
           fail_direct_process
<1>21. into_prepared => pc = "built" /\ (pc' = "returned" \/ pc' = "prepared")
    BY DEF into_prepared, fail_direct_process
<1>22. (into_prepared) /\ HostMoves => D1' /\ D2'
    BY <1>18, <1>21, Zenon DEF into_prepared
<1>23. (CancelSeen \/ TimerFires \/ DropHandle \/ Cleaned) /\ HostMoves => D1' /\ D2'
    BY <1>18, Zenon DEF CancelSeen, TimerFires, DropHandle, Cleaned, Select
<1>24. D1' /\ D2' => DrainInv'
    BY Zenon DEF DrainInv, D1, D2, Rel, Fine, Waited, End
<1> QED BY <1>18, <1>19, <1>20, <1>21, <1>22, <1>23, <1>24, <1>9, <1>10, <1>11, <1>12, <1>13, <1>14, <1>15, <1>16, <1>17, Zenon
    DEF Next, HostProgress, GuestMoves, HostMoves

\* The pipe of a stream is with the entry until the one bind that takes it.
LEMMA BindStep ==
    ASSUME CallShape, AskedOK, PipesOK, OpInv, BindInv, Next
    PROVE  BindInv'
<1> DEFINE Before == Early \ {"spawning", "dropped"}
           None == \A s \in Streams : reader[s] = "none"
           Unlinked == \A s \in Streams : link[s].state = "none"
           Held(s) == reader[s] = "entry" /\ link[s].state = "none"
           B1 == pc \in Before \/ (call.op = "start" /\ ~Over) => None
           B2 == pc \in Early => Unlinked
           B3 == Mine /\ call.op = "start" /\ call.event = "started" =>
                    entry /\ \A s \in Streams : Piped(s) => reader[s] = "entry"
           B4 == Mine /\ call.op \in Streams =>
                    entry /\ (~Over => Held(call.op)) /\ (call.op = "stdout" /\ Piped("stderr") => Held("stderr"))
           B == B1 /\ B2 /\ B3 /\ B4
           Stays(s) == /\ reader[s] \in {"none", "entry"} => reader'[s] = reader[s]
                       /\ link[s].state = "none" => link'[s].state = "none"
           Told == call.op = "start" /\ call'.event = "started" => call.event = "started"
<1> HIDE DEF Before, None, Unlinked, Held, B1, B2, B3, B4, B, Stays, Told
<1>1. B
    BY Zenon DEF BindInv, Before, None, Unlinked, Held, B1, B2, B3, B4, B
<1>2. \A s \in Streams : Piped(s)' <=> Piped(s)
    BY AskedStep DEF Piped
<1>3. /\ call'.op = "start" => pc' \in {"spawning", "dropped"}
      /\ call'.op \in Streams => pc' = "binding"
    BY OpStep DEF OpInv
<1>4. pc' \notin {"spawning", "dropped", "binding"} /\ pc' \notin Early => B'
    BY <1>3, ZenonT(30) DEF Early, Streams, Before, B, B1, B2, B3, B4
<1>5. ASSUME pc' \notin {"spawning", "dropped", "binding"}, pc \in Before, reader' = reader, link' = link PROVE B'
    BY <1>1, <1>3, <1>5 DEF Early, Before, B, B1, B2, B3, B4, None, Unlinked
<1>6. ASSUME pc' = pc, call'.op = call.op, Over => Over', Told, Mine' => Mine /\ entry' = entry,
             \A s \in Streams : Stays(s)
      PROVE  B'
    <2> USE <1>1, <1>2, <1>6 DEF B
    <2>1. B1' /\ B2'
        BY ZenonT(30) DEF B1, B2, None, Unlinked, Stays
    <2>2. B3'
        BY SMTT(20) DEF B3, Stays, Told
    <2>3. B4'
        BY DEF B4, Held, Stays, Streams
    <2> QED BY <2>1, <2>2, <2>3, ZenonT(30)
<1>7. SessionStep /\ UNCHANGED <<hvars, gvars>> => B'
    <2> SUFFICES ASSUME SessionStep, UNCHANGED <<hvars, gvars>> PROVE B'
        OBVIOUS
    <2>1. pc' = pc /\ entry' = entry /\ \A s \in Streams : Stays(s)
        BY DEF hvars, gvars, Stays
    <2>2. (Mine' => Mine) /\ call'.op = call.op /\ (Over => Over') /\ Told
        BY SessionCall DEF Mine, Told
    <2> QED BY <1>6, <2>1, <2>2, Zenon
<1>8. HostMoves => (Mine' => Mine /\ entry' = entry) /\ \A s \in Streams : Stays(s)
    BY HostMovesKeep DEF Mine, Stays
<1>9. Begin => B'
    <2> SUFFICES ASSUME Begin PROVE B'
        OBVIOUS
    <2>1. pc \in Before /\ reader' = reader /\ link' = link
        BY HostMovesKeep DEF Begin, Early, HostMoves, Before
    <2>2. pc' = "returned" \/ (pc' = "spawning" /\ Ask("start"))
        BY ZenonT(30) DEF Begin, fail_direct_process
    <2>3. call'.op = "start" /\ call'.event = "none" => B'
        BY <1>1, <2>1 DEF Streams, B, B1, B2, B3, B4, None, Unlinked, Before
    <2> QED BY <1>5, <2>1, <2>2, <2>3, CallFacts
<1>10. ASSUME NEW after, Unbound(after) # {} PROVE First(Unbound(after)) \in Unbound(after)
    BY <1>10 DEF First, Unbound, Streams
<1>11. ASSUME NEW after, BindNext(after), peer' = peer, config' = config, entry' = entry, reader' = reader, link' = link,
              Mine => entry /\ \A s \in Unbound(after) : Held(s),
              after \in {"start", "stdout", "stderr"}
       PROVE  B'
    <2>1. CASE Unbound(after) = {}
        BY <1>4, <1>11, <2>1 DEF BindNext, Early
    <2>2. CASE Unbound(after) # {}
        <3> DEFINE op == First(Unbound(after))
        <3>1. Ask(op) /\ pc' = "binding" /\ op \in Unbound(after) /\ op \in Streams
            BY <1>10, <1>11, <2>2, ZenonT(30) DEF BindNext, Unbound
        <3>2. call'.op = op /\ call'.event = "none"
            BY <3>1, CallFacts
        <3>3. op = "stdout" /\ Piped("stderr") => "stderr" \in Unbound(after)
            BY <3>1 DEF Unbound, Streams
        <3> HIDE DEF op
        <3>4. B1' /\ B2' /\ B3'
            BY <3>1, <3>2 DEF Early, Streams, B1, B2, B3, Before
        <3>5. Mine' => Mine
            BY <1>11 DEF Mine
        <3>6. B4'
            BY <1>2, <1>11, <3>1, <3>2, <3>3, <3>5 DEF Streams, B4, Held
        <3> QED BY <3>4, <3>6 DEF B
    <2> QED BY <2>1, <2>2
<1>12. spawn => B'
    <2> SUFFICES ASSUME spawn PROVE B'
        OBVIOUS
    <2>1. /\ peer' = peer /\ config' = config /\ entry' = entry /\ reader' = reader /\ link' = link
        BY HostMovesKeep DEF HostMoves
    <2>2. CASE call.event = "started"
        <3>1. BindNext("start") /\ call.op = "start" /\ pc = "spawning"
            BY <2>2 DEF spawn, OpInv, Event
        <3>2. Mine => entry /\ \A s \in Unbound("start") : Held(s)
            BY <1>1, <2>2, <3>1 DEF Unbound, Early, B, B2, B3, Unlinked, Held
        <3> QED BY <1>11, <2>1, <3>1, <3>2
    <2>3. CASE call.event # "started"
        BY <1>4, <2>3 DEF spawn, Event, fail_direct_process, Early
    <2> QED BY <2>2, <2>3
<1>13. start_output_drains => B'
    <2> SUFFICES ASSUME start_output_drains PROVE B'
        OBVIOUS
    <2>1. pc = "binding" /\ call.op \in Streams
        BY DEF start_output_drains, OpInv
    <2>2. CASE Event = "bound"
        <3>1. /\ BindNext(call.op) /\ link' = link
              /\ peer' = peer /\ config' = config /\ entry' = entry /\ reader' = reader
            BY <2>2, Zenon DEF start_output_drains, bvars
        <3>2. Mine => entry /\ \A s \in Unbound(call.op) : Held(s)
            BY <1>1, <2>1 DEF Unbound, Streams, B, B4, Held
        <3> QED BY <1>11, <2>1, <3>1, <3>2 DEF Streams
    <2>3. CASE Event # "bound"
        BY <1>4, <2>3 DEF start_output_drains, Early
    <2> QED BY <2>2, <2>3
<1>14. DropRun => B'
    <2> SUFFICES ASSUME DropRun PROVE B'
        OBVIOUS
    <2>1. CASE pc = "spawning"
        <3>1. Unlinked'
            BY <1>1, <2>1, ZenonT(30) DEF DropRun, Early, Free, B, B2, Unlinked
        <3>2. /\ pc' = "dropped" /\ call' = call /\ reader' = reader /\ entry' = entry
              /\ peer' = peer /\ config' = config /\ call.op = "start"
            BY <2>1, ZenonT(30) DEF DropRun, bvars, OpInv
        <3> QED BY <1>1, <1>2, <3>1, <3>2, ZenonT(30) DEF B, B1, B2, B3, B4, None, Before, Early, Streams, Mine, Over
    <2>2. CASE pc # "spawning"
        BY <1>4, <2>2 DEF DropRun, Early
    <2> QED BY <2>1, <2>2, ZenonT(30)
<1>15. ASSUME NEW s \in Streams, drain_host_output(s) \/ DrainEnds(s) \/ FileFails(s) PROVE B'
    <2>1. pc' = pc /\ pc \in {"waiting", "stopping", "closing", "draining"}
        BY <1>15, Zenon DEF drain_host_output, DrainEnds, FileFails, DrainStep, Reading
    <2> QED BY <1>4, <2>1 DEF Early
<1>16. ServeStart => B'
    <2> SUFFICES ASSUME ServeStart PROVE B'
        OBVIOUS
    <2>1. /\ pc' = pc /\ pc \in {"spawning", "dropped"} /\ call.op = "start"
          /\ \/ Serve("started") /\ entry' = TRUE /\ reader' = [s \in Streams |-> IF Piped(s) THEN "entry" ELSE "none"]
             \/ Serve("error")
          /\ link' = link
        BY Zenon DEF ServeStart, Host, OpInv
    <2>2. call'.op = "start" /\ call'.phase = "done" /\ (~Serve("started") => call'.event = "error")
        BY <2>1, CallFacts, ZenonT(30)
    <2>3. B1' /\ B2' /\ B4'
        BY <1>1, <2>1, <2>2, ZenonT(30) DEF Over, Streams, Early, B, B1, B2, B4, Before, Unlinked
    <2>4. Serve("error") => call'.event = "error"
        BY CallFacts
    <2>5. B3'
        BY <1>2, <2>1, <2>4, ZenonT(30) DEF B3
    <2> QED BY <2>3, <2>5 DEF B
<1>17. bind_output => B'
    <2> SUFFICES ASSUME bind_output PROVE B'
        OBVIOUS
    <2>1. pc' = pc /\ pc = "binding" /\ call.op \in Streams /\ Serve("bound") /\ entry' = entry /\ Mine
        BY ZenonT(30) DEF bind_output, Handler, Host, OpInv
    <2>2. call'.op = call.op /\ call'.phase = "done"
        BY <2>1, CallFacts
    <2>3. call.op = "stdout" => reader'["stderr"] = reader["stderr"] /\ link'["stderr"] = link["stderr"]
        BY ZenonT(30) DEF bind_output, PipesOK, Streams
    <2> QED BY <1>1, <1>2, <2>1, <2>2, <2>3, Zenon DEF Over, Streams, Early, B, B1, B2, B3, B4, Held, Before
<1>18. ServeClose => B'
    <2> SUFFICES ASSUME ServeClose PROVE B'
        OBVIOUS
    <2>1. pc' = pc /\ call.op = "close" /\ link' = link /\ \E event : Serve(event)
        BY Zenon DEF ServeClose, Handler, Host
    <2>2. call'.op = "close"
        BY <2>1, CallFacts
    <2>3. None => None'
        BY DEF ServeClose, None
    <2> QED BY <1>1, <2>1, <2>2, <2>3, Zenon DEF Streams, B, B1, B2, B3, B4, Unlinked
<1>19. GuestLost => B'
    <2> SUFFICES ASSUME GuestLost PROVE B'
        OBVIOUS
    <2>1. ~Mine' /\ pc' = pc /\ call'.op = call.op /\ (Over => Over')
        BY GuestMovesKeep, GuestKeepsCall, ZenonT(30) DEF GuestMoves, GuestLost, Readdress, Mine
    <2>2. (None => None') /\ (Unlinked => Unlinked')
        BY ZenonT(30) DEF GuestLost, None, Unlinked
    <2> QED BY <1>1, <2>1, <2>2, ZenonT(30) DEF B, B1, B2, B3, B4
<1>20. ASSUME NEW s \in Streams, Write(s) \/ relay(s) \/ LinkBreaks(s) PROVE B'
    <2>1. pc' = pc /\ call' = call /\ entry' = entry /\ peer' = peer /\ config' = config
        BY <1>20, Zenon DEF Write, relay, LinkBreaks, GuestStep, bvars, cvars, hvars
    <2>2. \A t \in Streams : t # s => reader'[t] = reader[t] /\ link'[t] = link[t]
        BY <1>20 DEF Write, relay, LinkBreaks, PipesOK
    <2>3. (reader[s] # "relay" => reader'[s] = reader[s]) /\ (link[s].state = "none" => link'[s].state = "none")
        BY <1>20, ZenonT(30) DEF Write, relay, LinkBreaks, PipesOK, Conn
    <2>4. \A t \in Streams : Stays(t)
        BY <2>2, <2>3, Zenon DEF Stays
    <2> QED BY <1>6, <2>1, <2>4 DEF Mine, Over, Told
<1>21. ServePing \/ ServeWait \/ kill \/ Exits \/ DaemonExits => B'
    <2> SUFFICES ASSUME ServePing \/ ServeWait \/ kill \/ Exits \/ DaemonExits PROVE B'
        OBVIOUS
    <2>1. entry' = entry /\ peer' = peer /\ config' = config /\ reader' = reader /\ link' = link
        BY Zenon DEF ServePing, ServeWait, kill, Exits, DaemonExits, Handler, GuestStep, gvars, cvars, bvars
    <2>2. call' = call \/ call.op # "start"
        BY ZenonT(30) DEF ServePing, ServeWait, kill, Exits, DaemonExits, GuestStep, cvars
    <2>3. pc' = pc /\ call'.op = call.op /\ (Over => Over')
        BY GuestMovesKeep, GuestKeepsCall, ZenonT(30) DEF GuestMoves
    <2>4. Told /\ (Mine' => Mine /\ entry' = entry) /\ \A s \in Streams : Stays(s)
        BY <2>1, <2>2, Zenon DEF Mine, Told, Stays
    <2> QED BY <1>6, <2>3, <2>4, Zenon
<1>22. ASSUME cancel \/ WaitDeadline PROVE B'
    <2>1. pc' = pc /\ call'.op = call.op /\ (Over => Over') /\ Told
        BY <1>22, CallFacts DEF cancel, WaitDeadline, Over, Told
    <2> QED BY <1>6, <1>8, <1>22, <2>1, Zenon DEF HostMoves
<1> DEFINE Q == pc \in Before /\ reader' = reader /\ link' = link
           N == pc' \notin {"spawning", "dropped", "binding"}
<1>23. N /\ Q => B'
    BY <1>5, Zenon
<1>24. N /\ pc' \notin Early => B'
    BY <1>4, Zenon
<1>25. HostMoves => reader' = reader /\ link' = link
    BY HostMovesKeep, Zenon
<1>26. (Connect \/ Probed \/ build) => N /\ pc \in Before
    BY DEF Connect, Probed, build, Early, Before
<1>27. into_prepared => N /\ pc \in Before
    BY ZenonT(30) DEF into_prepared, fail_direct_process, Early, Before
<1>28. (WaitEnds \/ DrainFails \/ CancelSeen \/ TimerFires \/ close) => N /\ pc' \notin Early
    BY ZenonT(30) DEF WaitEnds, DrainFails, CancelSeen, TimerFires, close, Select, Early
<1>29. (run_direct_process \/ retain_captured_output \/ finished \/ DropHandle \/ Cleaned \/ finish_output_drains)
       => N /\ pc' \notin Early
    BY Zenon DEF run_direct_process, retain_captured_output, finished, DropHandle, Cleaned, finish_output_drains,
           fail_direct_process, Early
<1> HIDE DEF N
<1>30. B' => BindInv'
    BY Zenon DEF BindInv, B, Before, B1, B2, B3, B4, None, Unlinked, Held
<1> QED BY <1>23, <1>24, <1>25, <1>26, <1>27, <1>28, <1>29, <1>30, <1>7, <1>9, <1>12, <1>13, <1>14, <1>15, <1>16, <1>17, <1>18, <1>19, <1>20, <1>21, <1>22, Zenon
    DEF Next, HostProgress, HostMoves

\* What a connection may be set to.
LEMMA ConnValues ==
    /\ Free \in Conn
    /\ \A state \in {"open", "eof", "broken", "silent", "dropped"} : [bytes |-> <<>>, state |-> state] \in Conn
<1> <<>> \in Seq(Byte)
    BY EmptySeq
<1> QED BY DEF Conn, Free

\* What is read from or written to a connection, and its end.
LEMMA ConnChanges ==
    ASSUME NEW c \in Conn
    PROVE  /\ c.bytes \in Seq(Byte)
           /\ \A bytes \in Seq(Byte) : [c EXCEPT !.bytes = bytes] \in Conn
           /\ [c EXCEPT !.state = IF c.state = "open" THEN "eof" ELSE c.state] \in Conn
BY DEF Conn

\* The pipes and the connections stay what they are.
LEMMA PipesStep ==
    ASSUME PipesOK, Next
    PROVE  PipesOK'
<1> DEFINE L == link \in [Streams -> Conn]
           R == reader \in [Streams -> {"none", "entry", "relay", "gone"}]
           P == pipe \in [Streams -> Seq(Byte)]
           W == script \in [Streams -> Seq(Byte)] /\ written \in [Streams -> Seq(Byte)]
           E == entry \in BOOLEAN
<1>1. L /\ R /\ P /\ W /\ E
    BY DEF PipesOK
<1>2. \A s \in Streams : drain_host_output(s) => L'
    <2> TAKE s \in Streams
    <2> DEFINE c == link[s]
    <2>1. c \in Conn
        BY <1>1
    <2>2. c.bytes \in Seq(Byte) /\ \A bytes \in Seq(Byte) : [c EXCEPT !.bytes = bytes] \in Conn
        BY <2>1, ConnChanges, Zenon
    <2>3. \A n \in 1 .. Len(c.bytes) : SubSeq(c.bytes, n + 1, Len(c.bytes)) \in Seq(Byte)
        BY <2>2, ChunkFacts
    <2>4. \A n \in 1 .. Len(c.bytes) : [c EXCEPT !.bytes = SubSeq(c.bytes, n + 1, Len(c.bytes))] \in Conn
        BY <2>2, <2>3, Zenon
    <2>5. \A n \in 1 .. Len(c.bytes) : Read(s, n) => L'
        BY <1>1, <2>4, Zenon DEF Read
    <2>6. drain_host_output(s) => \/ \E n \in 1 .. Len(c.bytes) : Read(s, n)
                                  \/ link' = [link EXCEPT ![s] = [bytes |-> <<>>, state |-> "dropped"]]
        BY DEF drain_host_output
    <2> HIDE DEF c
    <2> QED BY <1>1, <2>5, <2>6, ConnValues, Zenon
<1>3. \A s \in Streams : relay(s) => L' /\ R' /\ P'
    <2> TAKE s \in Streams
    <2> DEFINE c == link[s]
               p == pipe[s]
    <2>1. c \in Conn /\ p \in Seq(Byte) /\ <<>> \in Seq(Byte)
        BY <1>1, EmptySeq
    <2>2. /\ c.bytes \in Seq(Byte) /\ \A bytes \in Seq(Byte) : [c EXCEPT !.bytes = bytes] \in Conn
          /\ [c EXCEPT !.state = IF c.state = "open" THEN "eof" ELSE c.state] \in Conn
        BY <2>1, ConnChanges
    <2>3. \A n \in 1 .. Len(p) : c.bytes \o SubSeq(p, 1, n) \in Seq(Byte) /\ SubSeq(p, n + 1, Len(p)) \in Seq(Byte)
        BY <2>1, <2>2, ChunkRelayed
    <2>4. \A n \in 1 .. Len(p) : [c EXCEPT !.bytes = c.bytes \o SubSeq(p, 1, n)] \in Conn
        BY <2>2, <2>3, Zenon
    <2>5. relay(s) => R' /\ P'
        BY <1>1, <2>1, <2>3, Zenon DEF relay
    <2>6. relay(s) => L'
        <3>1. relay(s) => \/ link' = link
                          \/ link' = [link EXCEPT ![s] = [c EXCEPT !.state = IF c.state = "open" THEN "eof" ELSE c.state]]
                          \/ \E n \in 1 .. Len(p) :
                                link' = [link EXCEPT ![s] = [c EXCEPT !.bytes = c.bytes \o SubSeq(p, 1, n)]]
            BY Zenon DEF relay
        <3> HIDE DEF c, p
        <3> QED BY <1>1, <2>2, <2>4, <3>1, Zenon
    <2> QED BY <2>5, <2>6
<1>4. \A s \in Streams : Write(s) => P' /\ W'
    <2> TAKE s \in Streams
    <2> SUFFICES ASSUME Write(s) PROVE P' /\ W'
        OBVIOUS
    <2>1. script[s] \in Seq(Byte) /\ script[s] # <<>>
        BY <1>1 DEF Write
    <2>2. Head(script[s]) \in Byte /\ Tail(script[s]) \in Seq(Byte)
        BY <2>1, HeadTailProperties, ZenonT(30)
    <2>3. Append(written[s], Head(script[s])) \in Seq(Byte) /\ Append(pipe[s], Head(script[s])) \in Seq(Byte)
        BY <1>1, <2>2, AppendProperties, ZenonT(30)
    <2> QED BY <1>1, <2>2, <2>3, Zenon DEF Write
<1> USE <1>1, ConnValues DEF hvars, gvars, HostOnly, Host, Handler, GuestStep, DrainStep
<1>5. <<>> \in Seq(Byte)
    BY EmptySeq
<1>6. start_output_drains => L'
    BY ZenonT(30) DEF start_output_drains
<1>7. finish_output_drains => L'
    BY ZenonT(30) DEF finish_output_drains
<1>8. DropRun => L'
    BY DEF DropRun
<1>9. (\E s \in Streams : FileFails(s)) => L'
    BY Zenon DEF FileFails
<1>10. (\E s \in Streams : LinkBreaks(s)) => L'
    BY DEF LinkBreaks
<1>11. bind_output => L' /\ R'
    BY Zenon DEF bind_output
<1>12. ServeStart => R' /\ E'
    BY Zenon DEF ServeStart
<1>13. ServeClose => R' /\ E'
    BY Zenon DEF ServeClose
<1>14. GuestLost => L' /\ R' /\ P' /\ W' /\ E'
    <2>1. GuestLost => L'
        <3> SUFFICES ASSUME GuestLost PROVE L'
            OBVIOUS
        <3>1. PICK cut \in [Streams -> {"broken", "silent"}] :
                 link' = [s \in Streams |-> IF link[s].state = "open" THEN [bytes |-> <<>>, state |-> cut[s]]
                                            ELSE link[s]]
            BY Zenon DEF GuestLost
        <3>2. \A s \in Streams : [bytes |-> <<>>, state |-> cut[s]] \in Conn
            BY <3>1, Zenon
        <3> QED BY <3>1, <3>2, ZenonT(30)
    <2>2. GuestLost => R' /\ P' /\ W' /\ E'
        BY <1>5, Zenon DEF GuestLost
    <2> QED BY <2>1, <2>2, Zenon
<1> HIDE DEF L, R, P, W, E
<1>15. link' = link => L'
    BY Zenon DEF L
<1>16. reader' = reader => R'
    BY Zenon DEF R
<1>17. pipe' = pipe => P'
    BY Zenon DEF P
<1>18. script' = script /\ written' = written => W'
    BY Zenon DEF W
<1>19. entry' = entry => E'
    BY Zenon DEF E
<1>20. (Connect \/ Probed \/ build \/ into_prepared \/ Begin \/ spawn \/ WaitEnds) => link' = link /\
      reader' = reader /\ pipe' = pipe /\ entry' = entry /\ script' = script /\ written' = written
    BY Zenon DEF Connect, Probed, build, into_prepared, Begin, spawn, WaitEnds
<1>21. (DrainFails \/ CancelSeen \/ close \/ run_direct_process \/ retain_captured_output \/
      finished) => link' = link /\ reader' = reader /\ pipe' = pipe /\ entry' = entry /\ script' =
      script /\ written' = written
    BY Zenon DEF DrainFails, CancelSeen, close, run_direct_process, retain_captured_output,
           finished
<1>22. (DropHandle \/ Cleaned \/ TimerFires \/ WaitDeadline \/ cancel) => link' = link /\ reader' =
      reader /\ pipe' = pipe /\ entry' = entry /\ script' = script /\ written' = written
    BY Zenon DEF DropHandle, Cleaned, TimerFires, WaitDeadline, cancel
<1>23. (ServePing \/ ServeWait \/ kill \/ Exits \/ DaemonExits \/ (\E s \in Streams : DrainEnds(s)))
      => link' = link /\ reader' = reader /\ pipe' = pipe /\ entry' = entry /\ script' = script /\
      written' = written
    BY Zenon DEF ServePing, ServeWait, kill, Exits, DaemonExits, DrainEnds
<1>24. (start_output_drains \/ finish_output_drains \/ DropRun \/ (\E s \in Streams : FileFails(s))
      \/ (\E s \in Streams : LinkBreaks(s)) \/ (\E s \in Streams : drain_host_output(s))) =>
      reader' = reader /\ pipe' = pipe /\ entry' = entry /\ script' = script /\ written' = written
    BY Zenon DEF start_output_drains, finish_output_drains, DropRun, FileFails, LinkBreaks,
           drain_host_output
<1>25. bind_output => pipe' = pipe /\ entry' = entry /\ script' = script /\ written' = written
    BY Zenon DEF bind_output
<1>26. (ServeStart \/ ServeClose) => link' = link /\ pipe' = pipe /\ script' = script /\ written' =
      written
    BY Zenon DEF ServeStart, ServeClose
<1>27. (\E s \in Streams : Write(s)) => link' = link /\ reader' = reader /\ entry' = entry
    BY Zenon DEF Write
<1>28. (\E s \in Streams : relay(s)) => entry' = entry /\ script' = script /\ written' = written
    BY Zenon DEF relay
<1>29. SessionStep /\ UNCHANGED <<hvars, gvars>> => link' = link /\ reader' = reader /\ pipe' = pipe /\ entry' = entry /\ script' = script /\ written' = written
    BY Zenon
<1>30. L' /\ R' /\ P' /\ W' /\ E' => PipesOK'
    BY ZenonT(30) DEF PipesOK, L, R, P, W, E
<1> QED BY <1>5, <1>6, <1>7, <1>8, <1>9, <1>10, <1>11, <1>12, <1>13, <1>14, <1>15, <1>16, <1>17,
      <1>18, <1>19, <1>20, <1>21, <1>22, <1>23, <1>24, <1>25, <1>26, <1>27, <1>28, <1>29, <1>30,
      <1>2, <1>3, <1>4, Zenon DEF Next, HostProgress

\* A command keeps its fields.
LEMMA ShapeStep ==
    ASSUME CallShape, Next
    PROVE  CallShape'
<1>1. CASE SessionStep
    BY <1>1, SessionCall
<1>2. CASE RunStep
    BY <1>2, CallSteps DEF CallFrame
<1>3. CASE GuestLost
    BY <1>3, Zenon DEF CallShape, GuestLost, Readdress, Fails
<1> QED BY <1>1, <1>2, <1>3 DEF Next, RunStep

-----------------------------------------------------------------------------
(* The session.                                                            *)

\* A frame on the connection.
Framed(data) == <<Len(data)>> \o data

\* What is on the connection in each phase of its authentication: a
\* challenge of the peer, this endpoint's answer to it, and the peer's
\* consent, which only the endpoint's own guest gives.
AuthInv ==
    /\ peer \in {Identity(config), Other}
    /\ call.phase \in {"challenged", "answered"} =>
          Len(call.challenge) = 4 /\ \E S : call.challenge \in Seq(S)
    /\ call.phase = "challenged" =>
          call.bytes = Framed(<<AUTH_CHALLENGE_TAG, PROTOCOL_VERSION>> \o call.challenge)
    /\ call.phase = "answered" =>
          LET response == <<AUTH_RESPONSE_TAG, PROTOCOL_VERSION>>
                            \o for_challenge(config.capability, config.vm_id, call.challenge)
          IN call.bytes = Framed(response) /\ Len(response) <= MAX_AUTH_FRAME
    /\ call.phase \in {"admitted", "asked"} => peer = Identity(config)
    /\ served \subseteq {Identity(config)}

SessionInv == CallShape /\ AuthInv

-----------------------------------------------------------------------------
(* Frames and keyed digests.                                               *)

\* read_frame_with_limit gives back what write_frame_limited has written.
LEMMA FrameIsRead ==
    ASSUME NEW S, NEW data \in Seq(S)
    PROVE  /\ write_frame_limited(data, MAX_AUTH_FRAME)
                = IF Len(data) <= MAX_AUTH_FRAME THEN {Framed(data)} ELSE {}
           /\ Len(data) <= MAX_AUTH_FRAME => read_frame_with_limit(Framed(data), MAX_AUTH_FRAME) = {data}
<1> DEFINE h == <<Len(data)>>
           T == S \cup Nat
<1>1. MAX_AUTH_FRAME <= MAX_COMMAND_FRAME
    BY LimitsAssumption
<1>2. write_frame_limited(data, MAX_AUTH_FRAME)
         = IF Len(data) <= MAX_AUTH_FRAME THEN {Framed(data)} ELSE {}
    BY <1>1, Zenon DEF write_frame_limited, checked_frame_len, Framed
<1>3. Len(data) \in Nat
    BY LenProperties
<1>4. data \in Seq(T)
    BY SeqMonotonic
<1>5. h \in Seq(T) /\ Len(h) = 1
    BY <1>3
<1>6. Len(Framed(data)) = 1 + Len(data) /\ SubSeq(Framed(data), 2, 1 + Len(data)) = data
    <2> HIDE DEF h
    <2>1. Len(h \o data) = Len(h) + Len(data) /\ SubSeq(h \o data, Len(h) + 1, Len(h \o data)) = data
        BY <1>4, <1>5, HeadersComeOff, Zenon
    <2> QED BY <1>5, <2>1 DEF Framed, h
<1>7. Framed(data)[1] = Len(data)
    BY <1>4, <1>5, ConcatProperties DEF Framed
<1>8. Len(data) <= MAX_AUTH_FRAME => read_frame_with_limit(Framed(data), MAX_AUTH_FRAME) = {data}
    BY <1>1, <1>6, <1>7, Zenon DEF read_frame_with_limit, checked_frame_len
<1> QED BY <1>2, <1>8

\* A tag and the version come off the fields they were put on.
LEMMA FieldsAreRead ==
    ASSUME NEW S, NEW fields \in Seq(S), NEW tag \in Nat
    PROVE  LET data == <<tag, PROTOCOL_VERSION>> \o fields
           IN /\ data \in Seq(S \cup Nat) /\ Len(data) = 2 + Len(fields)
              /\ Tagged(tag, fields) = IF Len(data) <= MAX_AUTH_FRAME THEN {data} ELSE {}
              /\ Len(data) <= MAX_AUTH_FRAME => Untagged(tag, data) = {fields}
<1> DEFINE h == <<tag, PROTOCOL_VERSION>>
           T == S \cup Nat
           data == h \o fields
<1>1. fields \in Seq(T) /\ Len(fields) \in Nat
    BY SeqMonotonic, LenProperties
<1>2. h \in Seq(T)
    BY DEF PROTOCOL_VERSION
<1>3. Len(h) = 2 /\ h[1] = tag /\ h[2] = PROTOCOL_VERSION
    OBVIOUS
<1>4. Tagged(tag, fields) = IF Len(data) <= MAX_AUTH_FRAME THEN {data} ELSE {}
    BY DEF Tagged, finish
<1> HIDE DEF h, T
<1>5. data \in Seq(T) /\ Len(data) = 2 + Len(fields) /\ SubSeq(data, 3, Len(data)) = fields
    <2>1. /\ data \in Seq(T) /\ Len(data) = Len(h) + Len(fields)
          /\ SubSeq(data, Len(h) + 1, Len(data)) = fields
        BY <1>1, <1>2, HeadersComeOff, ZenonT(30)
    <2> HIDE DEF data
    <2> QED BY <1>3, <2>1, SMTT(20)
<1>6. data[1] = tag /\ data[2] = PROTOCOL_VERSION
    <2>1. \A i \in 1 .. Len(h) : data[i] = h[i]
        BY <1>1, <1>2, ElementsOfBoth
    <2> HIDE DEF data
    <2> QED BY <1>3, <2>1, SMTT(20)
<1> HIDE DEF data
<1>7. ASSUME Len(data) <= MAX_AUTH_FRAME PROVE Untagged(tag, data) = {fields}
    <2>1. ~(\/ Len(data) > MAX_AUTH_FRAME \/ Len(data) < 2 \/ data[1] # tag
            \/ data[2] # PROTOCOL_VERSION)
        BY <1>1, <1>5, <1>6, <1>7, LimitsAssumption, SMTT(20)
    <2>2. Untagged(tag, data) = {SubSeq(data, 3, Len(data))}
        BY <2>1, Zenon DEF Untagged
    <2> QED BY <1>5, <2>2, Zenon
<1> QED BY <1>4, <1>5, <1>7, Zenon DEF h, T, data

\* A digest from which the key and the machine can be read.
Names(mac, k, v) ==
    /\ \E T : mac \in Seq(T)
    /\ mac[1] = k /\ mac[4] = v

\* An ideal digest tells the key and the machine it was computed for.
LEMMA MacTellsTheMachine ==
    ASSUME NEW S, NEW challenge \in Seq(S), NEW k, NEW v, NEW service
    PROVE  Names(compute_auth_mac(k, v, service, challenge), k, v)
<1> DEFINE T == S \cup {k, v, service, RESPONSE_DOMAIN, PROTOCOL_VERSION}
           a == <<k>>
           b == <<RESPONSE_DOMAIN, PROTOCOL_VERSION, v, service>>
<1>1. challenge \in Seq(T) /\ Len(challenge) \in Nat
    BY SeqMonotonic, LenProperties
<1>2. a \in Seq(T)
    OBVIOUS
<1>a. Len(a) = 1 /\ a[1] = k
    OBVIOUS
<1>3. b \in Seq(T) /\ Len(b) = 4
    OBVIOUS
<1>4. b[3] = v
    OBVIOUS
<1> HIDE DEF a, b, T
<1> DEFINE r == b \o challenge
<1>5. r \in Seq(T) /\ Len(r) = 4 + Len(challenge) /\ \A i \in 1 .. Len(b) : r[i] = b[i]
    <2>1. \A i \in 1 .. Len(b) : r[i] = b[i]
        BY <1>1, <1>3, ElementsOfBoth
    <2>2. r \in Seq(T) /\ Len(r) = Len(b) + Len(challenge)
        BY <1>1, <1>3, HeadersComeOff, ZenonT(30)
    <2> HIDE DEF r
    <2> QED BY <1>3, <2>1, <2>2, ZenonT(30)
<1> HIDE DEF r
<1>6. r[3] = v /\ 3 \in 1 .. Len(r)
    BY <1>1, <1>3, <1>4, <1>5, SMTT(20)
<1> DEFINE m == a \o r
<1>7. /\ m \in Seq(T)
      /\ \A i \in 1 .. Len(a) : m[i] = a[i]
      /\ \A i \in 1 .. Len(r) : m[Len(a) + i] = r[i]
    <2>1. m \in Seq(T)
        BY <1>2, <1>5, HeadersComeOff, ZenonT(30)
    <2>2. /\ \A i \in 1 .. Len(a) : m[i] = a[i]
          /\ \A i \in 1 .. Len(r) : m[Len(a) + i] = r[i]
        BY <1>2, <1>5, ElementsOfBoth, SMTT(20)
    <2> QED BY <2>1, <2>2, ZenonT(30)
<1> HIDE DEF m
<1>8. m[1] = k /\ m[4] = v
    <2>1. m[Len(a) + 3] = r[3] /\ m[1] = a[1]
        BY <1>a, <1>6, <1>7, SMTT(20)
    <2> QED BY <1>a, <1>6, <2>1, SMTT(20)
<1> QED BY <1>7, <1>8 DEF Names, compute_auth_mac, hmac_sha256, a, b, r, m

-----------------------------------------------------------------------------
(* A command is executed by the guest of its endpoint.                     *)

\* Nothing but the steps of an authentication puts a frame on the
\* connection, and a handler runs for a command that was admitted.
LEMMA AuthKept ==
    ASSUME AuthInv, config' = config, peer' = peer,
           call' = call \/ call'.phase \in {"idle", "dial", "accepted", "done", "failed"},
           served' = served \/ (call.phase = "asked" /\ served' = served \cup {peer})
    PROVE  AuthInv'
<1>1. CASE call' = call
    BY <1>1, ZenonT(30) DEF AuthInv
<1>2. CASE call'.phase \in {"idle", "dial", "accepted", "done", "failed"}
    BY <1>2, ZenonT(30) DEF AuthInv
<1> QED BY <1>1, <1>2, ZenonT(30)

\* The challenge of the peer.
LEMMA ChallengeSent ==
    ASSUME SessionInv, SendChallenge
    PROVE  AuthInv'
<1> DEFINE challenge == derive_auth_challenge(peer.capability, peer.vm_id, counter)
           S == {peer.capability, CHALLENGE_DOMAIN, peer.vm_id, counter}
           data == <<AUTH_CHALLENGE_TAG, PROTOCOL_VERSION>> \o challenge
<1>1. challenge \in Seq(S) /\ Len(challenge) = 4
    <2> DEFINE a == <<peer.capability>>
               b == <<CHALLENGE_DOMAIN, peer.vm_id, counter>>
    <2>1. a \in Seq(S) /\ b \in Seq(S) /\ Len(a) = 1 /\ Len(b) = 3
        OBVIOUS
    <2>2. challenge = a \o b
        BY DEF derive_auth_challenge, hmac_sha256
    <2> HIDE DEF a, b, S, challenge
    <2> QED BY <2>1, <2>2, ConcatProperties, SMTT(20)
<1> HIDE DEF challenge, S
<1>2. /\ data \in Seq(S \cup Nat) /\ Len(data) = 6
      /\ challenge_to_bytes(challenge) = IF Len(data) <= MAX_AUTH_FRAME THEN {data} ELSE {}
    <2>1. AUTH_CHALLENGE_TAG \in Nat
        BY DEF AUTH_CHALLENGE_TAG
    <2>2. challenge \in Seq(S)
        BY <1>1
    <2>3. /\ data \in Seq(S \cup Nat) /\ Len(data) = 2 + Len(challenge)
          /\ challenge_to_bytes(challenge) = IF Len(data) <= MAX_AUTH_FRAME THEN {data} ELSE {}
        BY <2>1, <2>2, FieldsAreRead, Zenon DEF challenge_to_bytes
    <2> HIDE DEF data
    <2> QED BY <1>1, <2>3
<1> HIDE DEF data
<1>3. Len(data) <= MAX_AUTH_FRAME
    BY <1>2, LimitsAssumption
<1>4. challenge_to_bytes(challenge) = {data} /\ write_frame_limited(data, MAX_AUTH_FRAME) = {Framed(data)}
    BY <1>2, <1>3, FrameIsRead, Zenon
<1>5. call' = [call EXCEPT !.phase = "challenged", !.challenge = challenge, !.bytes = Framed(data)]
    <2>1. (CHOOSE b \in {data} : TRUE) = data /\ (CHOOSE f \in {Framed(data)} : TRUE) = Framed(data)
        OBVIOUS
    <2> DEFINE d == CHOOSE b \in challenge_to_bytes(challenge) : TRUE
    <2>2. d = data
        BY <1>4, <2>1
    <2> DEFINE w == write_frame_limited(d, MAX_AUTH_FRAME)
               e == CHOOSE f \in w : TRUE
    <2>3. call' = [call EXCEPT !.phase = "challenged", !.challenge = challenge, !.bytes = e]
        BY DEF SendChallenge, challenge
    <2> HIDE DEF d
    <2>4. w = {Framed(data)}
        BY <1>4, <2>2
    <2> HIDE DEF w
    <2>5. e = Framed(data)
        BY <2>1, <2>4
    <2> HIDE DEF e
    <2> QED BY <2>3, <2>5
<1>6. call'.phase = "challenged" /\ call'.challenge = challenge /\ call'.bytes = Framed(data)
    BY <1>5 DEF SessionInv, CallShape
<1>7. config' = config /\ peer' = peer /\ served' = served
    BY DEF SendChallenge, bvars
<1>8. Len(call'.challenge) = 4 /\ \E T : call'.challenge \in Seq(T)
    BY <1>1, <1>6, ZenonT(30)
<1> QED BY <1>6, <1>7, <1>8, ZenonT(30) DEF AuthInv, SessionInv, data

\* The answer of the endpoint.
LEMMA ChallengeAnswered ==
    ASSUME SessionInv, authenticate_async
    PROVE  AuthInv'
<1> DEFINE c == call.challenge
           data == <<AUTH_CHALLENGE_TAG, PROTOCOL_VERSION>> \o c
           mac == for_challenge(config.capability, config.vm_id, c)
           response == <<AUTH_RESPONSE_TAG, PROTOCOL_VERSION>> \o mac
           replies(f) == UNION {UNION {write_frame_limited(r, MAX_AUTH_FRAME) :
                           r \in response_to_bytes(for_challenge(config.capability, config.vm_id, x))} :
                           x \in challenge_try_from(f)}
<1>1. /\ call.phase = "challenged" /\ call.bytes = Framed(data) /\ Len(c) = 4
      /\ config' = config /\ peer' = peer /\ served' = served
    BY Zenon DEF authenticate_async, SessionInv, AuthInv, bvars
<1>2. PICK S : c \in Seq(S)
    BY <1>1, ZenonT(30) DEF SessionInv, AuthInv
<1>3. PICK T : mac \in Seq(T)
    BY <1>2, MacTellsTheMachine, ZenonT(30) DEF for_challenge, Names
<1>4. AUTH_CHALLENGE_TAG \in Nat /\ AUTH_RESPONSE_TAG \in Nat
    BY ZenonT(30) DEF AUTH_CHALLENGE_TAG, AUTH_RESPONSE_TAG
<1>5. \/ \E a \in UNION {replies(f) : f \in read_frame_with_limit(call.bytes, MAX_AUTH_FRAME)} :
            call' = [call EXCEPT !.phase = "answered", !.bytes = a]
      \/ Fails
    BY Zenon DEF authenticate_async
<1> HIDE DEF c, mac
<1>6. /\ data \in Seq(S \cup Nat) /\ Len(data) = 6
      /\ Len(data) <= MAX_AUTH_FRAME => challenge_try_from(data) = {c}
    <2>1. /\ data \in Seq(S \cup Nat) /\ Len(data) = 2 + Len(c)
          /\ Len(data) <= MAX_AUTH_FRAME => challenge_try_from(data) = {c}
        BY <1>2, <1>4, FieldsAreRead, Zenon DEF challenge_try_from
    <2> HIDE DEF data
    <2> QED BY <1>1, <2>1
<1>7. /\ response \in Seq(T \cup Nat)
      /\ response_to_bytes(mac) = IF Len(response) <= MAX_AUTH_FRAME THEN {response} ELSE {}
    BY <1>3, <1>4, FieldsAreRead, Zenon DEF response_to_bytes
<1> HIDE DEF data, response
<1>8. challenge_try_from(data) = {c} /\ read_frame_with_limit(call.bytes, MAX_AUTH_FRAME) = {data}
    BY <1>1, <1>6, FrameIsRead, LimitsAssumption, ZenonT(30)
<1>9. ASSUME NEW a \in UNION {replies(f) : f \in read_frame_with_limit(call.bytes, MAX_AUTH_FRAME)}
      PROVE  a = Framed(response) /\ Len(response) <= MAX_AUTH_FRAME
    <2>1. a \in replies(data)
        BY <1>8, ZenonT(30)
    <2>2. replies(data) = UNION {write_frame_limited(r, MAX_AUTH_FRAME) : r \in response_to_bytes(mac)}
        BY <1>8, ZenonT(30) DEF mac
    <2>3. PICK r \in response_to_bytes(mac) : a \in write_frame_limited(r, MAX_AUTH_FRAME)
        BY <2>1, <2>2, ZenonT(30)
    <2>4. Len(response) <= MAX_AUTH_FRAME /\ r = response
        BY <1>7, <2>3, ZenonT(30)
    <2>5. write_frame_limited(response, MAX_AUTH_FRAME) = {Framed(response)}
        BY <1>7, <2>4, FrameIsRead, ZenonT(30)
    <2> QED BY <2>3, <2>4, <2>5, ZenonT(30)
<1>10. CASE Fails
    <2>1. call'.phase = "failed"
        BY <1>10, ZenonT(30) DEF Fails, SessionInv, CallShape
    <2> QED BY <1>1, <2>1, AuthKept DEF SessionInv
<1>11. ASSUME NEW a \in UNION {replies(f) : f \in read_frame_with_limit(call.bytes, MAX_AUTH_FRAME)},
              call' = [call EXCEPT !.phase = "answered", !.bytes = a]
       PROVE  AuthInv'
    <2>1. call'.phase = "answered" /\ call'.bytes = a /\ call'.challenge = c
        BY <1>11, ZenonT(30) DEF SessionInv, CallShape, c
    <2>2. a = Framed(response) /\ Len(response) <= MAX_AUTH_FRAME
        BY <1>9
    <2> QED BY <1>1, <1>2, <2>1, <2>2, Zenon DEF SessionInv, AuthInv, response, mac
<1> QED BY <1>5, <1>10, <1>11, ZenonT(30)

\* The consent of the peer: the answer was computed with its own key and for
\* its own identity.
LEMMA AnswerAccepted ==
    ASSUME SessionInv, authenticate_connection
    PROVE  AuthInv'
<1> DEFINE c == call.challenge
           mac == for_challenge(config.capability, config.vm_id, c)
           response == <<AUTH_RESPONSE_TAG, PROTOCOL_VERSION>> \o mac
           right == UNION {{m \in response_try_from(f) : Expected(m)} :
                             f \in read_frame_with_limit(call.bytes, MAX_AUTH_FRAME)}
<1>1. /\ call.phase = "answered" /\ call.bytes = Framed(response) /\ Len(response) <= MAX_AUTH_FRAME
      /\ config' = config /\ peer' = peer /\ served' = served
    BY DEF authenticate_connection, SessionInv, AuthInv, bvars
<1>2. PICK S : c \in Seq(S)
    BY <1>1, ZenonT(30) DEF SessionInv, AuthInv
<1>a. Names(mac, config.capability, config.vm_id)
    BY <1>2, MacTellsTheMachine, ZenonT(30) DEF for_challenge
<1> HIDE DEF mac
<1>3. PICK T : mac \in Seq(T)
    BY <1>a, Zenon DEF Names
<1>4. mac[1] = config.capability /\ mac[4] = config.vm_id
    BY <1>a, Zenon DEF Names
<1>5. /\ response \in Seq(T \cup Nat)
      /\ Len(response) <= MAX_AUTH_FRAME => response_try_from(response) = {mac}
    <2>1. AUTH_RESPONSE_TAG \in Nat
        BY DEF AUTH_RESPONSE_TAG
    <2> QED BY <1>3, <2>1, FieldsAreRead, Zenon DEF response_try_from
<1> HIDE DEF response
<1>6. response_try_from(response) = {mac} /\ read_frame_with_limit(call.bytes, MAX_AUTH_FRAME) = {response}
    BY <1>1, <1>5, FrameIsRead
<1>7. ASSUME right # {} PROVE peer = Identity(config)
    <2>1. Expected(mac)
        BY <1>6, <1>7
    <2> DEFINE theirs == compute_auth_mac(peer.capability, peer.vm_id, COMMAND_AUTH_CONTEXT_V1, c)
    <2>2. mac = theirs
        BY <2>1, ZenonT(30) DEF Expected
    <2>a. Names(theirs, peer.capability, peer.vm_id)
        BY <1>2, MacTellsTheMachine, ZenonT(30)
    <2> HIDE DEF theirs
    <2>3. theirs[1] = peer.capability /\ theirs[4] = peer.vm_id
        BY <2>a, Zenon DEF Names
    <2>4. peer.capability = config.capability /\ peer.vm_id = config.vm_id
        BY <1>4, <2>2, <2>3
    <2> QED BY <2>4, OtherAssumption, ZenonT(30) DEF SessionInv, AuthInv, Identity
<1>8. IF right # {} THEN call'.phase = "admitted" ELSE call'.phase = "failed"
    BY Zenon DEF authenticate_connection, Fails, SessionInv, CallShape
<1>9. CASE right # {}
    <2>1. call'.phase = "admitted" /\ peer = Identity(config)
        BY <1>7, <1>8, <1>9, ZenonT(30)
    <2> QED BY <1>1, <2>1, Zenon DEF SessionInv, AuthInv
<1>10. CASE right = {}
    BY <1>1, <1>8, <1>10, AuthKept, ZenonT(30) DEF SessionInv
<1> QED BY <1>9, <1>10

\* A step of the session.
LEMMA AuthStep ==
    ASSUME SessionInv, SessionStep
    PROVE  SessionInv'
<1>0. CallShape /\ AuthInv
    BY DEF SessionInv
<1>1. CallShape' /\ config' = config /\ peer' = peer
    BY <1>0, SessionCall, ZenonT(30)
<1>2. CASE prepare \/ SendBootConfig \/ AnswerReady \/ wait_for_ready \/ ready_timeout
           \/ (\E r \in Results : SendResult(r)) \/ ReadResult \/ Disturb
    <2>1. call' = call /\ served' = served
        BY <1>2, Zenon DEF prepare, SendBootConfig, AnswerReady, wait_for_ready, ready_timeout,
                    SendResult, ReadResult, Disturb, cvars
    <2> QED BY <1>0, <1>1, <2>1, AuthKept, ZenonT(30) DEF SessionInv
<1>3. CASE connect_async_bounded
    <2>1. call'.phase \in {"dial", "accepted", "failed"} /\ served' = served
        BY <1>0, <1>3, Zenon DEF connect_async_bounded, CallShape, Fails
    <2> QED BY <1>0, <1>1, <2>1, AuthKept DEF SessionInv
<1>4. CASE SendCommand
    <2>1. call.phase = "admitted" /\ call'.phase \in {"asked", "failed"} /\ served' = served
        BY <1>0, <1>4, Zenon DEF SendCommand, CallShape, Fails
    <2>2. AuthInv'
        BY <1>0, <1>1, <2>1, ZenonT(30) DEF AuthInv
    <2> QED BY <1>1, <2>2 DEF SessionInv
<1>5. CASE Break
    <2>1. call'.phase = "failed" /\ served' = served
        BY <1>0, <1>5 DEF Break, CallShape, Fails
    <2> QED BY <1>0, <1>1, <2>1, AuthKept DEF SessionInv
<1>6. CASE SendChallenge \/ authenticate_async \/ authenticate_connection
    BY <1>1, <1>6, ChallengeSent, ChallengeAnswered, AnswerAccepted, ZenonT(30) DEF SessionInv
<1> QED BY <1>2, <1>3, <1>4, <1>5, <1>6, ZenonT(30) DEF SessionStep
\* The guest's address goes to another machine: no connection survives it.
LEMMA SessionLost ==
    ASSUME SessionInv, GuestLost
    PROVE  SessionInv'
<1>1. CallShape' /\ config' = config /\ served' = served /\ peer' = Other
    BY Zenon DEF SessionInv, CallShape, GuestLost, Readdress, Fails
<1>2. call'.phase \in {"idle", "dial", "done", "failed"}
    BY Zenon DEF SessionInv, CallShape, GuestLost, Readdress, Fails
<1> QED BY <1>1, <1>2, Zenon DEF SessionInv, AuthInv

\* The invariant of the session is kept by every step.
LEMMA SessionNext ==
    ASSUME SessionInv, [Next]_vars
    PROVE  SessionInv'
<1>1. CASE SessionStep
    BY <1>1, AuthStep, ZenonT(30)
<1>2. CASE RunStep
    BY <1>2, CallSteps, AuthKept, ZenonT(30) DEF SessionInv, CallFrame
<1>3. CASE UNCHANGED vars
    BY <1>3, ZenonT(30) DEF SessionInv, CallShape, AuthInv, vars, bvars, cvars
<1> QED BY <1>1, <1>2, <1>3, SessionLost, ZenonT(30) DEF Next, RunStep

\* No command has been asked for.
LEMMA SessionFirst ==
    ASSUME Init
    PROVE  SessionInv
BY Zenon DEF Init, SessionInit, SessionInv, CallShape, AuthInv, Idle

\* A command of an endpoint is only executed by the guest the endpoint was
\* made for: authenticate_connection admits a connection only when the
\* answer to its challenge was computed with the peer's own capability and
\* identity, also when the address has gone to another machine, for all
\* plans, runs and any number of mishaps.
THEOREM ServedByItsGuest == Spec => []ServedByOwnGuest
<1>1. Init => SessionInv
    BY SessionFirst
<1>2. SessionInv /\ [Next]_vars => SessionInv'
    BY SessionNext, ZenonT(30)
<1>3. SessionInv => ServedByOwnGuest
    BY DEF SessionInv, AuthInv, ServedByOwnGuest
<1> QED BY <1>1, <1>2, <1>3, PTL DEF Spec
=============================================================================
