------------------------------ MODULE ProcessIo ------------------------------
(***************************************************************************)
(* One run of a guest process from the host: run_direct_process            *)
(* (libs/guest-client/src/direct.rs) with its capture, lifecycle and       *)
(* RunningProcess handle (process.rs), over the authenticated connections  *)
(* of GuestSession, against the guest's ProcessManager                     *)
(* (libs/init/src/components/process_manager.rs), the process itself and   *)
(* the pipes of its two output streams.                                    *)
(*                                                                         *)
(* A byte is 1 or the newline 2.  A read returns any non-empty part of     *)
(* what has arrived, so every way of cutting the output into chunks is     *)
(* explored.  The process writes what its script says; a process it leaves *)
(* behind may hold its pipes open for a while.  The dispatcher's queue and *)
(* permits are in Dispatcher, the guest's admission of connections is in   *)
(* GuestBus, the capture of output in Capture.                             *)
(***************************************************************************)
EXTENDS GuestSession, Capture

CONSTANTS
    Launches,      \* pairs of a plan and a run that are explored together
    Runs,          \* what is run: the executable and whether a launch is to inject it, the
                   \* output options of each stream, the script, the exit code, whether a
                   \* process is left behind, whether the run has a timeout, and whether its
                   \* owner may cancel it or drop it
    PipeCapacity,  \* bound: bytes a pipe holds
    LinkCapacity   \* bound: bytes a connection holds

Streams == {"stdout", "stderr"}

ASSUME RunsAssumption ==
    Runs \subseteq
        [stdout : OutputOptions, stderr : OutputOptions, script : [Streams -> Seq(Byte)],
         executable : [kind : {"shell", "exec", "rust", "bytes"}, path : Seq(STRING)],
         scheduled : BOOLEAN, code : Nat, daemon : BOOLEAN, timeout : BOOLEAN, impatient : BOOLEAN]

VARIABLES
    asked,         \* the process: its draft, then its prepared form
    pc,            \* where run_direct_process is
    cancelled,     \* the observer's cancellation token
    outcome,       \* how the select loop ended
    cleanup,       \* what RunningProcess::close returned
    wait,          \* the ProcessExit of a successful wait
    drain,         \* per stream: the drain task
    capture,       \* per stream: its CaptureAccumulator, or what its file has
    answer,        \* what run_direct_process returned
    lifecycle,     \* the state observers see, and the retained output
    process,       \* guest: "none", "running", "exited" or "killed"
    daemon,        \* guest: a left-behind process holds the pipes
    entry,         \* guest: the ProcessManager has an entry for the process
    script,        \* per stream: what the process has still to write
    written,       \* per stream: what it wrote
    pipe,          \* per stream: bytes in the pipe
    reader,        \* per stream: who has the pipe's read end
    link           \* per stream: the bound connection, guest to host

hvars == <<asked, pc, cancelled, outcome, cleanup, wait, drain, capture, answer, lifecycle>>
gvars == <<process, daemon, entry, script, written, pipe, reader, link>>
vars == <<bvars, cvars, mishaps, hvars, gvars>>

Piped(s) == asked[s].route \in {"capture", "host_file"}
Free == [bytes |-> <<>>, state |-> "none"]

ProcessInit ==
    /\ asked \in Runs
    /\ pc = "new" /\ cancelled = FALSE
    /\ outcome = "none" /\ cleanup = "none" /\ wait = "none"
    /\ drain = [s \in Streams |-> "none"]
    /\ capture = [s \in Streams |-> [bytes |-> <<>>, end_reached |-> FALSE]]
    /\ answer = "none"
    /\ lifecycle = [state |-> "pending", stdout |-> {}, stderr |-> {}]
    /\ process = "none" /\ daemon = FALSE /\ entry = FALSE
    /\ script = asked.script
    /\ written = [s \in Streams |-> <<>>]
    /\ pipe = [s \in Streams |-> <<>>]
    /\ reader = [s \in Streams |-> "none"]
    /\ link = [s \in Streams |-> Free]

Init == SessionInit /\ ProcessInit /\ <<plan, asked>> \in Launches

-----------------------------------------------------------------------------
(* The lifecycle observers watch.                                          *)

is_terminal(state) == state \in {"finished", "failed"}

\* ProcessLifecycle::set: nothing follows a terminal state.
set(state) ==
    lifecycle' = IF is_terminal(lifecycle.state) THEN lifecycle ELSE [lifecycle EXCEPT !.state = state]

\* ProcessObserver::finished: the terminal state, or, once the producer is
\* gone without one, a cancellation (terminal_from_closed).
terminal_from_closed(state) == IF is_terminal(state) THEN state ELSE "cancelled"
Gone == pc \in {"refused", "returned", "dropped", "released", "cleaning", "cleaned"}
Observed ==
    IF is_terminal(lifecycle.state) THEN lifecycle.state
    ELSE IF Gone THEN terminal_from_closed(lifecycle.state) ELSE "waiting"

\* fail_direct_process, and the handle dropped with the function's frame:
\* a process that was not closed is handed to the cleanup tasks, whose one
\* best-effort ProcessClose reaches the guest or not.
fail_direct_process(error) ==
    /\ answer' = error /\ pc' = "returned" /\ set("failed")

-----------------------------------------------------------------------------
(* The host.                                                               *)

Event == call.event
Answered == call.phase \in {"done", "failed"}
HostOnly == Calm /\ UNCHANGED <<bvars, peer, counter, served, gvars>>
Rest == UNCHANGED <<asked, cancelled, outcome, cleanup, wait, drain, capture, answer, lifecycle>>

\* The guest-client factory probes the endpoint with one Ping.
Connect ==
    /\ pc = "new" /\ Serving /\ call.op = "none"
    /\ Ask("ping") /\ UNCHANGED pc /\ Rest /\ HostOnly
Probed ==
    /\ pc = "new" /\ call.op = "ping" /\ Answered
    /\ call' = Idle
    /\ IF Event = "pong" THEN pc' = "ready" ELSE pc' = "unreachable"
    /\ Rest /\ HostOnly

\* ProcessBuilder::build refuses an empty path and a capture that could keep
\* nothing or too much.
validate_executable(e) == e.kind \in {"exec", "rust"} => e.path # <<>>

build ==
    /\ pc = "ready"
    /\ pc' = IF validate_executable(asked.executable) /\ \A s \in Streams : validate_output(asked[s])
             THEN "built" ELSE "refused"
    /\ UNCHANGED call /\ Rest /\ HostOnly

\* A launch puts Rust and byte executables into the initramfs and the guest
\* path in their place.
materialize_process_executables(run) ==
    IF run.scheduled /\ run.executable.kind \in {"rust", "bytes"}
    THEN [run EXCEPT !.executable = [kind |-> "exec", path |-> <<"jyth", "processes", run.executable.kind>>]]
    ELSE run

\* Process::into_prepared: the shell runs a shell command; an executable that
\* is not in the guest fails the run.
into_prepared ==
    /\ pc = "built"
    /\ LET run == materialize_process_executables(asked)
       IN CASE run.executable.kind = "shell" ->
                 /\ asked' = [run EXCEPT !.executable = [kind |-> "exec", path |-> <<"bin", "sh">>]]
                 /\ pc' = "prepared" /\ UNCHANGED <<answer, lifecycle>>
            [] run.executable.kind = "exec" ->
                 asked' = run /\ pc' = "prepared" /\ UNCHANGED <<answer, lifecycle>>
            [] OTHER -> fail_direct_process("unprepared") /\ UNCHANGED asked
    /\ UNCHANGED <<cancelled, outcome, cleanup, wait, drain, capture, call>> /\ HostOnly

\* The run begins; one that was cancelled before it began spawns nothing.
Begin ==
    /\ pc = "prepared"
    /\ IF cancelled
       THEN fail_direct_process("cancelled") /\ UNCHANGED call
       ELSE set("starting") /\ Ask("start") /\ pc' = "spawning" /\ UNCHANGED answer
    /\ UNCHANGED <<asked, cancelled, outcome, cleanup, wait, drain, capture>> /\ HostOnly

\* start_output_drains binds stdout, then stderr, and then waits.
Unbound(after) ==
    {s \in Streams : Piped(s) /\ (after = "start" \/ (after = "stdout" /\ s = "stderr"))}
First(streams) == IF "stdout" \in streams THEN "stdout" ELSE "stderr"
\* A bug: nobody drains the bound streams while the process runs.
BindNext_undrained(after) ==
    /\ UNCHANGED drain
    /\ IF Unbound(after) # {} THEN Ask(First(Unbound(after))) /\ pc' = "binding"
       ELSE Ask("wait") /\ pc' = "waiting"
BindNext(after) ==
    IF Unbound(after) # {}
    THEN Ask(First(Unbound(after))) /\ pc' = "binding" /\ UNCHANGED drain
    ELSE /\ Ask("wait") /\ pc' = "waiting"
         /\ drain' = [s \in Streams |-> IF Piped(s) THEN "reading" ELSE "none"]

spawn ==
    /\ pc = "spawning" /\ Answered
    /\ IF Event = "started"
       THEN set("running") /\ BindNext("start") /\ UNCHANGED answer
       ELSE fail_direct_process("spawn") /\ call' = Idle /\ UNCHANGED drain
    /\ UNCHANGED <<asked, cancelled, outcome, cleanup, wait, capture>> /\ HostOnly

\* A bind that fails ends the run: the connections bound before are
\* dropped and the process is closed.
start_output_drains ==
    /\ pc = "binding" /\ Answered
    /\ IF Event = "bound"
       THEN BindNext(call.op) /\ UNCHANGED <<outcome, link>>
       ELSE /\ outcome' = "output" /\ Ask("stop") /\ pc' = "stopping"
            /\ link' = [s \in Streams |-> IF link[s].state = "none" THEN Free
                                          ELSE [bytes |-> <<>>, state |-> "dropped"]]
            /\ UNCHANGED drain
    /\ UNCHANGED <<asked, cancelled, cleanup, wait, capture, answer, lifecycle>>
    /\ Calm /\ UNCHANGED <<bvars, peer, counter, served,
                           process, daemon, entry, script, written, pipe, reader>>

\* The select loop: the wait, a failing drain, the timer, the cancellation.
\* Each ends with the process being closed.
Select(how) ==
    /\ pc = "waiting"
    /\ outcome' = how /\ Ask("stop") /\ pc' = "stopping"
WaitEnds ==
    /\ Answered
    /\ wait' = Event
    /\ Select(IF Event \in {"exited", "failed", "killed"} THEN "wait" ELSE "wait_error")
    /\ UNCHANGED <<asked, cancelled, cleanup, drain, capture, answer, lifecycle>> /\ HostOnly
DrainFails ==
    /\ \E s \in Streams : drain[s] = "failed" /\ drain' = [drain EXCEPT ![s] = "taken"]
    /\ Select("output")
    /\ UNCHANGED <<asked, cancelled, cleanup, wait, capture, answer, lifecycle>> /\ HostOnly
TimerFires ==
    /\ asked.timeout /\ Select("timed_out")
    /\ UNCHANGED <<asked, cancelled, cleanup, wait, drain, capture, answer, lifecycle>> /\ HostOnly
CancelSeen ==
    /\ cancelled /\ Select("cancelled")
    /\ UNCHANGED <<asked, cancelled, cleanup, wait, drain, capture, answer, lifecycle>> /\ HostOnly

\* The reply to a ProcessWait is read with the deadline of every command
\* reply, five seconds: a process that runs longer fails its wait.
WaitDeadline ==
    /\ pc = "waiting" /\ call.phase = "asked" /\ process = "running"
    /\ Fails
    /\ UNCHANGED pc /\ Rest /\ HostOnly

\* RunningProcess::close: stop, then close; either may fail.
close ==
    /\ pc \in {"stopping", "closing"} /\ Answered
    /\ \/ /\ pc = "stopping" /\ Event \in {"exited", "failed", "killed"}
          /\ Ask("close") /\ pc' = "closing" /\ UNCHANGED cleanup
       \/ /\ pc = "closing" /\ Event = "closed"
          /\ call' = Idle /\ pc' = "draining" /\ cleanup' = "ok"
       \/ /\ ~(pc = "stopping" /\ Event \in {"exited", "failed", "killed"})
          /\ ~(pc = "closing" /\ Event = "closed")
          /\ call' = Idle /\ pc' = "draining" /\ cleanup' = "failed"
    /\ UNCHANGED <<asked, cancelled, outcome, wait, drain, capture, answer, lifecycle>> /\ HostOnly

\* Every task is joined; once one has failed the others are aborted, and
\* what they had read is dropped.
AllJoined == \A s \in Streams : drain[s] # "reading"
FirstError == \E s \in Streams : drain[s] = "failed"
finish_output_drains ==
    /\ pc = "draining" /\ FirstError /\ ~AllJoined
    /\ drain' = [s \in Streams |-> IF drain[s] = "reading" THEN "aborted" ELSE drain[s]]
    /\ link' = [s \in Streams |-> IF drain[s] = "reading" THEN [bytes |-> <<>>, state |-> "dropped"] ELSE link[s]]
    /\ UNCHANGED <<asked, pc, cancelled, outcome, cleanup, wait, capture, answer, lifecycle>>
    /\ Calm /\ UNCHANGED <<bvars, cvars, process, daemon, entry, script, written, pipe, reader>>

\* What the outcome, the drains and the cleanup make of the run.
run_direct_process ==
    /\ pc = "draining" /\ AllJoined
    /\ \/ /\ outcome = "wait" /\ ~FirstError /\ cleanup = "ok" /\ wait = "exited"
          /\ pc' = "retaining" /\ UNCHANGED <<answer, lifecycle>>
       \/ /\ outcome = "wait" /\ ~FirstError /\ cleanup = "ok" /\ wait # "exited"
          /\ fail_direct_process("unsuccessful_exit")
       \/ /\ outcome \in {"wait", "wait_error"} /\ FirstError
          /\ fail_direct_process("output")
       \/ /\ outcome \in {"wait", "wait_error"} /\ ~FirstError /\ cleanup # "ok"
          /\ fail_direct_process("cleanup")
       \/ /\ outcome = "wait_error" /\ ~FirstError /\ cleanup = "ok"
          /\ fail_direct_process("wait_error")
       \/ /\ outcome \in {"timed_out", "cancelled", "output"}
          /\ fail_direct_process(outcome)
    /\ UNCHANGED <<asked, cancelled, outcome, cleanup, wait, drain, capture, call>> /\ HostOnly

\* Observers may look between the two: the output is retained first.
retain_captured_output ==
    /\ pc = "retaining"
    /\ lifecycle' = [s \in {"state"} \cup Streams |->
                       IF s \in Streams /\ asked[s].route = "capture" THEN {capture[s].bytes} ELSE lifecycle[s]]
    /\ pc' = "finishing"
    /\ UNCHANGED <<asked, cancelled, outcome, cleanup, wait, drain, capture, answer, call>> /\ HostOnly
finished ==
    /\ pc = "finishing"
    /\ set("finished") /\ answer' = "ok" /\ pc' = "returned"
    /\ UNCHANGED <<asked, cancelled, outcome, cleanup, wait, drain, capture, call>> /\ HostOnly

\* The owner drops the run's future: the drains and a bind in progress end
\* with it, a request the dispatcher has goes on, and a handle the run had
\* is dropped too (a spawn in flight has none yet).
DropRun ==
    /\ asked.impatient
    /\ pc \in {"spawning", "binding", "waiting", "stopping", "closing", "draining"}
    /\ pc' = IF pc = "spawning" THEN "dropped" ELSE "released"
    /\ drain' = [s \in Streams |-> IF drain[s] = "reading" THEN "aborted" ELSE drain[s]]
    /\ link' = [s \in Streams |-> IF link[s].state = "none" THEN Free
                                  ELSE [bytes |-> <<>>, state |-> "dropped"]]
    /\ call' = IF pc \in {"binding", "waiting"} THEN Idle ELSE call
    /\ UNCHANGED <<asked, cancelled, outcome, cleanup, wait, capture, answer, lifecycle>>
    /\ Calm /\ UNCHANGED <<bvars, peer, counter, served,
                           process, daemon, entry, script, written, pipe, reader>>

\* RunningProcess::drop: a handle that was not closed has its ProcessClose
\* sent by the cleanup tasks, once.
DropHandle ==
    /\ \/ pc = "released"
       \/ pc = "returned" /\ outcome # "none" /\ cleanup = "failed"
    /\ call.phase \in {"idle", "done", "failed"}
    /\ Ask("close") /\ pc' = "cleaning" /\ Rest /\ HostOnly
Cleaned ==
    /\ pc = "cleaning" /\ Answered
    /\ call' = Idle /\ pc' = "cleaned" /\ Rest /\ HostOnly

\* An observer cancels.
cancel ==
    /\ asked.impatient /\ ~cancelled /\ pc \in {"prepared", "spawning", "binding", "waiting"}
    /\ cancelled' = TRUE
    /\ UNCHANGED <<asked, pc, outcome, cleanup, wait, drain, capture, answer, lifecycle, call>> /\ HostOnly

-----------------------------------------------------------------------------
(* A drain task on the host.                                               *)

DrainStep(s) ==
    /\ UNCHANGED <<asked, pc, cancelled, outcome, cleanup, wait, answer, lifecycle, call>>
    /\ Calm /\ UNCHANGED <<bvars, peer, counter, served,
                           process, daemon, entry, script, written, pipe, reader>>
Reading(s) == pc \in {"waiting", "stopping", "closing", "draining"} /\ drain[s] = "reading"
Read(s, n) == link' = [link EXCEPT ![s].bytes = SubSeq(@, n + 1, Len(@))]

\* drain_host_output reads a chunk, also after the capture has its end: it
\* goes to the accumulator, or to the file.  An overflow under the stop
\* policy ends the task.
drain_host_output(s) ==
    /\ Reading(s)
    /\ \E n \in 1..Len(link[s].bytes) :
          LET bytes == SubSeq(link[s].bytes, 1, n)
              accs == IF asked[s].route = "capture" THEN push(asked[s], capture[s], bytes)
                      ELSE {[capture[s] EXCEPT !.bytes = @ \o bytes]}
          IN \/ \E acc \in accs : capture' = [capture EXCEPT ![s] = acc] /\ Read(s, n) /\ UNCHANGED drain
             \/ /\ accs = {} /\ drain' = [drain EXCEPT ![s] = "failed"]
                /\ link' = [link EXCEPT ![s] = [bytes |-> <<>>, state |-> "dropped"]]
                /\ UNCHANGED capture
    /\ DrainStep(s)
\* End of the stream, or an error reading it.
DrainEnds(s) ==
    /\ Reading(s) /\ link[s].bytes = <<>> /\ link[s].state \in {"eof", "broken"}
    /\ drain' = [drain EXCEPT ![s] = IF link[s].state = "eof" THEN "done" ELSE "failed"]
    /\ UNCHANGED <<capture, link>> /\ DrainStep(s)
\* The host file cannot be created, written or flushed.
FileFails(s) ==
    /\ Reading(s) /\ asked[s].route = "host_file"
    /\ Mishap
    /\ drain' = [drain EXCEPT ![s] = "failed"]
    /\ link' = [link EXCEPT ![s] = [bytes |-> <<>>, state |-> "dropped"]]
    /\ UNCHANGED <<asked, pc, cancelled, outcome, cleanup, wait, capture, answer, lifecycle, call>>
    /\ UNCHANGED <<bvars, peer, counter, served, process, daemon, entry, script, written, pipe, reader>>

-----------------------------------------------------------------------------
(* The guest.                                                              *)

Mine == peer = Identity(config)
Host == UNCHANGED <<asked, pc, cancelled, outcome, cleanup, wait, drain, capture, answer, lifecycle>>
Handler == Calm /\ UNCHANGED <<bvars, peer, counter>> /\ Host

Exit == IF process # "exited" THEN process ELSE IF asked.code = 0 THEN "exited" ELSE "failed"

\* Any machine that admits the connection answers a Ping; the process and
\* its pipes are known to the guest they are in.
ServePing == call.op = "ping" /\ Serve("pong") /\ Handler /\ UNCHANGED gvars

\* ProcessManager::spawn: the pipes of the streams the host routes to
\* itself stay with the entry until they are bound.
ServeStart ==
    /\ Mine /\ call.op = "start"
    /\ \/ /\ Serve("started")
          /\ process' = "running" /\ entry' = TRUE
          /\ daemon' = asked.daemon
          /\ reader' = [s \in Streams |-> IF Piped(s) THEN "entry" ELSE "none"]
          /\ Calm
       \/ Mishap /\ Serve("error") /\ UNCHANGED <<process, entry, daemon, reader>>
    /\ UNCHANGED <<bvars, peer, counter, script, written, pipe, link>> /\ Host

\* ProcessOutputBind acknowledges first, then bind_output takes the pipe; a
\* pipe that is not there closes the connection.
bind_output ==
    /\ Mine /\ call.op \in Streams /\ Serve("bound")
    /\ IF entry /\ reader[call.op] = "entry"
       THEN /\ reader' = [reader EXCEPT ![call.op] = "relay"]
            /\ link' = [link EXCEPT ![call.op] = [bytes |-> <<>>, state |-> "open"]]
       ELSE /\ link' = [link EXCEPT ![call.op] = [bytes |-> <<>>, state |-> "eof"]]
            /\ UNCHANGED reader
    /\ Handler /\ UNCHANGED <<process, daemon, entry, script, written, pipe>>

ServeWait ==
    /\ Mine /\ call.op = "wait"
    /\ \/ entry /\ process # "running" /\ Serve(Exit)
       \/ ~entry /\ Serve("error")
    /\ Handler /\ UNCHANGED gvars

\* kill: the token is cancelled and the retained status awaited.
kill ==
    /\ Mine /\ call.op = "stop"
    /\ \/ entry /\ process = "running" /\ process' = "killed" /\ UNCHANGED call /\ UNCHANGED served
       \/ entry /\ process # "running" /\ Serve(Exit) /\ UNCHANGED process
       \/ ~entry /\ Serve("error") /\ UNCHANGED process
    /\ call.phase = "asked"
    /\ Handler /\ UNCHANGED <<daemon, entry, script, written, pipe, reader, link>>

\* ProcessManager::close: the entry goes, its unbound pipes with it, and a
\* process that still runs is stopped.
ServeClose ==
    /\ Mine /\ call.op = "close"
    /\ \/ /\ entry /\ Serve("closed")
          /\ entry' = FALSE
          /\ process' = IF process = "running" THEN "killed" ELSE process
          /\ reader' = [s \in Streams |-> IF reader[s] = "entry" THEN "gone" ELSE reader[s]]
       \/ ~entry /\ Serve("error") /\ UNCHANGED <<entry, process, reader>>
    /\ Handler /\ UNCHANGED <<daemon, script, written, pipe, link>>

GuestStep == Calm /\ UNCHANGED <<bvars, cvars, hvars>>

\* The process (external) writes a byte; a pipe nobody reads any more
\* kills it, a full one blocks it.
Write(s) ==
    /\ process = "running" /\ script[s] # <<>> /\ Len(pipe[s]) < PipeCapacity
    /\ IF reader[s] = "gone"
       THEN process' = "killed" /\ UNCHANGED <<script, written, pipe>>
       ELSE /\ script' = [script EXCEPT ![s] = Tail(@)]
            /\ written' = [written EXCEPT ![s] = Append(@, Head(script[s]))]
            /\ pipe' = [pipe EXCEPT ![s] = IF Piped(s) THEN Append(@, Head(script[s])) ELSE @]
            /\ UNCHANGED process
    /\ GuestStep /\ UNCHANGED <<daemon, entry, reader, link>>
Exits ==
    /\ process = "running" /\ \A s \in Streams : script[s] = <<>>
    /\ process' = "exited"
    /\ GuestStep /\ UNCHANGED <<daemon, entry, script, written, pipe, reader, link>>
DaemonExits ==
    /\ daemon /\ process # "running" /\ daemon' = FALSE
    /\ GuestStep /\ UNCHANGED <<process, entry, script, written, pipe, reader, link>>

\* bind_output's relay: a chunk from the pipe to the connection, until the
\* last writer is gone or the host is.
relay(s) ==
    /\ reader[s] = "relay"
    /\ \/ /\ link[s].state = "open"
          /\ \E n \in 1..Len(pipe[s]) :
                /\ Len(link[s].bytes) + n <= LinkCapacity
                /\ link' = [link EXCEPT ![s].bytes = @ \o SubSeq(pipe[s], 1, n)]
                /\ pipe' = [pipe EXCEPT ![s] = SubSeq(@, n + 1, Len(@))]
          /\ UNCHANGED reader
       \/ /\ pipe[s] = <<>> /\ process # "running" /\ ~daemon
          /\ reader' = [reader EXCEPT ![s] = "gone"]
          /\ link' = [link EXCEPT ![s].state = IF @ = "open" THEN "eof" ELSE @]
          /\ UNCHANGED pipe
       \/ /\ link[s].state \in {"dropped", "broken"} /\ pipe[s] # <<>>
          /\ reader' = [reader EXCEPT ![s] = "gone"]
          /\ pipe' = [pipe EXCEPT ![s] = <<>>]
          /\ UNCHANGED link
    /\ GuestStep /\ UNCHANGED <<process, daemon, entry, script, written>>

\* A bound connection breaks: the host's read fails.
LinkBreaks(s) ==
    /\ link[s].state = "open" /\ Mishap
    /\ link' = [link EXCEPT ![s] = [bytes |-> <<>>, state |-> "broken"]]
    /\ UNCHANGED <<bvars, cvars, hvars, process, daemon, entry, script, written, pipe, reader>>

\* The guest dies with everything in it.  An open connection breaks, or falls
\* silent: the host is not told, and reads on for as long as it likes.
GuestLost ==
    /\ Readdress
    /\ process' = IF process = "running" THEN "killed" ELSE process
    /\ daemon' = FALSE /\ entry' = FALSE
    /\ pipe' = [s \in Streams |-> <<>>]
    /\ reader' = [s \in Streams |-> IF reader[s] = "none" THEN "none" ELSE "gone"]
    /\ \E cut \in [Streams -> {"broken", "silent"}] :
          link' = [s \in Streams |-> IF link[s].state = "open" THEN [bytes |-> <<>>, state |-> cut[s]]
                                     ELSE link[s]]
    /\ UNCHANGED <<hvars, script, written>>

-----------------------------------------------------------------------------

HostProgress ==
    \/ Connect \/ Probed \/ build \/ into_prepared \/ Begin \/ spawn \/ start_output_drains
    \/ WaitEnds \/ DrainFails \/ CancelSeen \/ close \/ finish_output_drains \/ run_direct_process
    \/ retain_captured_output \/ finished \/ DropHandle \/ Cleaned
GuestProgress ==
    \/ ServePing \/ (ServeStart /\ Calm) \/ bind_output \/ ServeWait \/ kill \/ ServeClose
Next ==
    \/ SessionStep /\ UNCHANGED <<hvars, gvars>>
    \/ HostProgress \/ TimerFires \/ WaitDeadline \/ DropRun \/ cancel
    \/ ServePing \/ ServeStart \/ bind_output \/ ServeWait \/ kill \/ ServeClose
    \/ Exits \/ DaemonExits \/ GuestLost
    \/ \E s \in Streams :
          drain_host_output(s) \/ DrainEnds(s) \/ FileFails(s) \/ Write(s) \/ relay(s) \/ LinkBreaks(s)

Spec == Init /\ [][Next]_vars

\* Something goes on while anything can: a task of the host or of the
\* guest, the process, or the end of a process it left behind.  No step of
\* the model is ever undone, so this is as good as fairness of each of them.
\* Timers, cancellations and mishaps are not assumed to happen.
Progress ==
    \/ SessionProgress /\ UNCHANGED <<hvars, gvars>>
    \/ HostProgress \/ GuestProgress \/ Exits \/ DaemonExits
    \/ \E s \in Streams : drain_host_output(s) \/ DrainEnds(s) \/ Write(s) \/ relay(s)
FairSpec == Spec /\ WF_vars(Progress)

-----------------------------------------------------------------------------
(* Properties.                                                             *)

\* An observer is told that a run finished when, and only when, its caller
\* is.  It then finds the captured output of both
\* streams retained, and it is what the process wrote up to the configured
\* boundary, however the output was cut into chunks; a run whose output went
\* over its limit under the stop policy is never seen to finish.  A host
\* file has everything.
FinishedMeansCaptured ==
    /\ pc = "returned" => (answer = "ok" <=> Observed = "finished")
    /\ Observed = "finished" =>
        /\ process = "exited" /\ ~entry
        /\ \A s \in Streams :
              /\ asked[s].route = "capture" =>
                    /\ lifecycle[s] = {Kept(asked[s], written[s])}
                    /\ asked[s].overflow = "stop" => Boundary(asked[s], written[s]) <= asked[s].limit
              /\ asked[s].route = "host_file" => capture[s].bytes = written[s]

\* All that is left of the run is to read a connection that has fallen silent:
\* the reads of finish_output_drains have no deadline.
Unheard == pc = "draining" /\ \E s \in Streams : drain[s] = "reading" /\ link[s].state = "silent"

\* A run that was asked for ends and its observers are told, for every
\* chunking, boundary and failure, when what the process leaves behind
\* does: the drains keep reading after their boundary, so the process is
\* not blocked on a full pipe.  A run whose guest died comes as far as its
\* drains too, and ends unless one of them is never told.
RunEnds == (pc = "ready") ~> (Observed # "waiting" \/ Unheard)

\* What RunningProcess::wait documents: "This deliberately has no request
\* timeout: a guest process may validly outlive REQUEST_TIMEOUT".  A wait
\* on a healthy guest ends only with the process.
WaitHasNoTimeout == answer = "wait_error" => mishaps > 0
=============================================================================
