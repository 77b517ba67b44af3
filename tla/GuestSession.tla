---------------------------- MODULE GuestSession ----------------------------
(***************************************************************************)
(* How the host and its guest come to trust each other's words: the boot   *)
(* configuration that goes over COM1 and the READY that answers it         *)
(* (libs/jyth/src/adapters/runtime.rs, libs/init/src/main.rs), the         *)
(* bootstrap result that may follow, and then the authenticated command    *)
(* connections over TCP (libs/com/src/connector.rs, auth.rs and rpc.rs     *)
(* against libs/init/src/bus/dispatch.rs).                                 *)
(*                                                                         *)
(* What the guest does between reading its configuration and READY is in   *)
(* GuestBoot; how the host schedules its commands is in Dispatcher.  Here  *)
(* one command is in flight at a time, and the frames are those of Wire.   *)
(* The guest's address is given to another machine when the guest dies:    *)
(* the connections of this endpoint then reach that machine.               *)
(***************************************************************************)
EXTENDS LaunchPlan

CONSTANTS
    Plans,         \* what a caller may ask of the builder
    Results,       \* the results a bootstrap command may report
    Noise,         \* the units a disturbance of the serial line puts there
    Other,         \* [vm_id, capability] of the machine that gets the address next
    MaxMishaps     \* bound: disturbed lines, refused or broken connections, dying guests

ASSUME OtherAssumption == Other = [vm_id |-> Other.vm_id, capability |-> Other.capability]

VARIABLES
    plan,          \* what the caller asks for
    config,        \* the BootConfigV1 of this launch
    toGuest,       \* COM1, host to guest
    toHost,        \* COM1, guest to host
    booted,        \* the guest's BootConfigV1, once it has decoded it
    reported,      \* the bootstrap result the guest sent
    pid1,          \* guest: "reading", "ready" or "hung"
    session,       \* host: "planned", "new", "sent", "ready", "refused" or "over"
    result,        \* the bootstrap result the host decoded
    peer,          \* who listens at the endpoint's address
    counter,       \* connections the peer has authenticated or tried to
    call,          \* the command connection: what is asked for, how far it is
    served,        \* the machines that have executed a command of this endpoint
    mishaps

bvars == <<plan, config, toGuest, toHost, booted, reported, pid1, session, result>>
cvars == <<peer, counter, call, served>>

Identity(c) == [vm_id |-> c.vm_id, capability |-> c.capability]
Mishap == mishaps < MaxMishaps /\ mishaps' = mishaps + 1
Calm == mishaps' = mishaps

MAX_ASYNC_CONNECT_ATTEMPTS == 3

Idle == [op |-> "none", phase |-> "idle", attempt |-> 0, bytes |-> <<>>, challenge |-> <<>>,
         event |-> "none"]

SessionInit ==
    /\ plan \in Plans /\ config = Draft(plan)
    /\ toGuest = <<>> /\ toHost = <<>>
    /\ booted = {} /\ reported = {} /\ pid1 = "reading"
    /\ session = "planned" /\ result = {}
    /\ peer = Identity(config) /\ counter = 0 /\ call = Idle /\ served = {}
    /\ mishaps = 0

-----------------------------------------------------------------------------
(* The boot exchange.                                                      *)

\* The builder's checks, then the translation for the started instance.
prepare ==
    /\ session = "planned"
    /\ session' = IF prepare_launch(plan) /\ protocol_config(plan) /\ build_boot_config(plan) # {}
                  THEN "new" ELSE "refused"
    /\ Calm /\ UNCHANGED <<plan, config, toGuest, toHost, booted, reported, pid1, result, cvars>>

\* The host encodes the configuration and writes it; a configuration that
\* cannot be encoded fails the launch.
SendBootConfig ==
    /\ session = "new"
    /\ LET frames == UNION {write_frame_limited(f, MAX_BOOT_CONFIG_FRAME) : f \in to_bytes(config)}
       IN \/ \E f \in frames : toGuest' = f /\ session' = "sent"
          \/ frames = {} /\ session' = "refused" /\ UNCHANGED toGuest
    /\ Calm /\ UNCHANGED <<plan, config, toHost, booted, reported, pid1, result, cvars>>

\* PID 1 reads one frame, decodes it and answers READY for the bytes it
\* read.  An error there hangs the guest.
AnswerReady ==
    /\ pid1 = "reading" /\ ~Incomplete(toGuest)
    /\ LET answers == UNION {UNION {UNION {{[config |-> c, frame |-> x] :
                        x \in UNION {write_frame_limited(y, MAX_AUTH_FRAME) : y \in ready_to_bytes(r)}} :
                        r \in for_boot(c.capability, f)} : c \in try_from(f)} :
                        f \in read_frame_with_limit(toGuest, MAX_BOOT_CONFIG_FRAME)}
       IN \/ \E a \in answers : booted' = {a.config} /\ toHost' = a.frame /\ pid1' = "ready"
          \/ answers = {} /\ pid1' = "hung" /\ UNCHANGED <<booted, toHost>>
    /\ toGuest' = <<>>
    /\ Calm /\ UNCHANGED <<plan, config, reported, session, result, cvars>>

\* wait_for_ready: the frame's bounds, its fields, then the proof that the
\* guest has this configuration.
wait_for_ready ==
    /\ session = "sent" /\ ~Incomplete(toHost)
    /\ LET proofs == UNION {{r \in ready_try_from(f) :
                               \A sent \in to_bytes(config) : verify(r, config.capability, sent)} :
                              f \in read_frame_with_limit(toHost, MAX_AUTH_FRAME)}
       IN session' = IF proofs # {} THEN "ready" ELSE "refused"
    /\ toHost' = <<>>
    /\ Calm /\ UNCHANGED <<plan, config, toGuest, booted, reported, pid1, result, cvars>>

\* The exchange has stopped: its frame never becomes whole, or the guest
\* hangs.  The deadline of the READY or the result passes.
ready_timeout ==
    /\ session \in {"sent", "ready"} /\ result = {} /\ Incomplete(toHost)
    /\ session = "ready" => config.bootstrap # {} /\ (reported # {} \/ pid1 = "hung")
    /\ pid1 = "reading" => Incomplete(toGuest)
    /\ session' = "refused"
    /\ Calm /\ UNCHANGED <<plan, config, toGuest, toHost, booted, reported, pid1, result, cvars>>

\* The bootstrap command is over and its result is sent.
SendResult(r) ==
    /\ pid1 = "ready" /\ reported = {} /\ toHost = <<>>
    /\ \E c \in booted : c.bootstrap # {}
    /\ r \in Results
    /\ LET frames == UNION {write_frame_limited(f, MAX_AUTH_FRAME) : f \in result_to_bytes(r)}
       IN \/ \E f \in frames : toHost' = f /\ reported' = {r} /\ UNCHANGED pid1
          \/ frames = {} /\ pid1' = "hung" /\ UNCHANGED <<toHost, reported>>
    /\ Calm /\ UNCHANGED <<plan, config, toGuest, booted, session, result, cvars>>

ReadResult ==
    /\ session = "ready" /\ config.bootstrap # {} /\ result = {} /\ ~Incomplete(toHost)
    /\ LET results == UNION {result_try_from(f) : f \in read_frame_with_limit(toHost, MAX_AUTH_FRAME)}
       IN /\ result' = results
          /\ session' = IF results = {} THEN "refused" ELSE "over"
    /\ toHost' = <<>>
    /\ Calm /\ UNCHANGED <<plan, config, toGuest, booted, reported, pid1, cvars>>

\* The serial line (external): a unit is lost, or becomes another one.
Disturbed(s) ==
    {[s EXCEPT ![i] = u] : i \in DOMAIN s, u \in Noise}
      \cup {SubSeq(s, 1, i - 1) \o SubSeq(s, i + 1, Len(s)) : i \in DOMAIN s}
Disturb ==
    /\ Mishap
    /\ \/ toGuest' \in Disturbed(toGuest) \ {toGuest} /\ UNCHANGED toHost
       \/ toHost' \in Disturbed(toHost) \ {toHost} /\ UNCHANGED toGuest
    /\ UNCHANGED <<plan, config, booted, reported, pid1, session, result, cvars>>

-----------------------------------------------------------------------------
(* A command connection.  Its phases: "dial" and, once the peer has        *)
(* accepted it, "accepted"; "challenged", "answered" and "admitted" are    *)
(* the frames in flight; with "asked" the peer has the command; "done"     *)
(* carries the event, "failed" is a transport error.                       *)

Serving == session = "ready" /\ config.bootstrap = {}

\* command_async or bind_async begins.
Ask(op) == call' = [Idle EXCEPT !.op = op, !.phase = "dial"]

Fails == call' = [call EXCEPT !.phase = "failed", !.bytes = <<>>, !.event = "none"]

\* connect_async_bounded: the socket connects, or an attempt is refused or
\* times out and the next one is made.
connect_async_bounded ==
    /\ call.phase = "dial"
    /\ \/ Calm /\ call' = [call EXCEPT !.phase = "accepted"]
       \/ /\ Mishap
          /\ IF call.attempt + 1 < MAX_ASYNC_CONNECT_ATTEMPTS
             THEN call' = [call EXCEPT !.attempt = @ + 1]
             ELSE Fails
    /\ UNCHANGED <<bvars, peer, counter, served>>

\* authenticate_connection, up to the challenge it sends.
SendChallenge ==
    /\ call.phase = "accepted"
    /\ counter' = counter + 1
    /\ LET challenge == derive_auth_challenge(peer.capability, peer.vm_id, counter)
       IN call' = [call EXCEPT !.phase = "challenged", !.challenge = challenge,
                     !.bytes = CHOOSE f \in write_frame_limited(CHOOSE b \in challenge_to_bytes(challenge) : TRUE,
                                                                MAX_AUTH_FRAME) : TRUE]
    /\ Calm /\ UNCHANGED <<bvars, peer, served>>

\* authenticate_async, up to the response it sends.
authenticate_async ==
    /\ call.phase = "challenged"
    /\ LET answers == UNION {UNION {UNION {write_frame_limited(r, MAX_AUTH_FRAME) :
                        r \in response_to_bytes(for_challenge(config.capability, config.vm_id, c))} :
                        c \in challenge_try_from(f)} :
                        f \in read_frame_with_limit(call.bytes, MAX_AUTH_FRAME)}
       IN \/ \E a \in answers : call' = [call EXCEPT !.phase = "answered", !.bytes = a]
          \/ answers = {} /\ Fails
    /\ Calm /\ UNCHANGED <<bvars, peer, counter, served>>

\* A bug: any response is taken.
Expected_any(response) == response # <<>>
\* The response is right when it is what the peer computes itself.
Expected(response) ==
    response = compute_auth_mac(peer.capability, peer.vm_id, COMMAND_AUTH_CONTEXT_V1, call.challenge)

\* The rest of authenticate_connection: admitted, or the connection is
\* dropped.
authenticate_connection ==
    /\ call.phase = "answered"
    /\ LET right == UNION {{m \in response_try_from(f) : Expected(m)} :
                             f \in read_frame_with_limit(call.bytes, MAX_AUTH_FRAME)}
       IN IF right # {}
          THEN call' = [call EXCEPT !.phase = "admitted",
                          !.bytes = CHOOSE f \in write_frame_limited(CHOOSE b \in accepted_to_bytes : TRUE,
                                                                     MAX_AUTH_FRAME) : TRUE]
          ELSE Fails
    /\ Calm /\ UNCHANGED <<bvars, peer, counter, served>>

\* The rest of authenticate_async, and the command frame.
SendCommand ==
    /\ call.phase = "admitted"
    /\ LET admitted == UNION {accepted_try_from(f) : f \in read_frame_with_limit(call.bytes, MAX_AUTH_FRAME)}
       IN IF admitted # {} THEN call' = [call EXCEPT !.phase = "asked", !.bytes = <<>>] ELSE Fails
    /\ Calm /\ UNCHANGED <<bvars, peer, counter, served>>

\* The peer's handler: the machine that executes the command is recorded.
Serve(event) ==
    /\ call.phase = "asked"
    /\ served' = served \cup {peer}
    /\ call' = [call EXCEPT !.phase = "done", !.event = event]

\* The connection breaks, or a deadline of its set-up or of the reply
\* passes; with "done" it is the event of an executed command that is lost.
Break ==
    /\ call.phase \in {"accepted", "challenged", "answered", "admitted", "asked", "done"}
    /\ Mishap /\ Fails
    /\ UNCHANGED <<bvars, peer, counter, served>>

\* (external) The guest dies and its address goes to another machine.
Readdress ==
    /\ Serving /\ peer = Identity(config) /\ peer # Other
    /\ Mishap
    /\ peer' = Other /\ counter' = 0 /\ pid1' = "hung"
    /\ IF call.phase \in {"idle", "dial", "done", "failed"} THEN UNCHANGED call ELSE Fails
    /\ UNCHANGED <<plan, config, toGuest, toHost, booted, reported, session, result, served>>

SessionStep ==
    \/ prepare \/ SendBootConfig \/ AnswerReady \/ wait_for_ready \/ ready_timeout
    \/ \E r \in Results : SendResult(r)
    \/ ReadResult \/ Disturb
    \/ connect_async_bounded \/ SendChallenge \/ authenticate_async \/ authenticate_connection
    \/ SendCommand \/ Break

\* What the host and the guest do without a mishap.
SessionProgress ==
    \/ prepare \/ SendBootConfig \/ AnswerReady \/ wait_for_ready \/ ready_timeout
    \/ \E r \in Results : SendResult(r)
    \/ ReadResult
    \/ (connect_async_bounded /\ Calm) \/ SendChallenge \/ authenticate_async
    \/ authenticate_connection \/ SendCommand

-----------------------------------------------------------------------------
(* Properties.                                                             *)

\* When wait_for_ready has accepted the guest's READY, the guest acts on
\* exactly the configuration this launch was asked for, whatever happened
\* to the line in between; and the bootstrap result the host took is the
\* one the guest reported unless the line was disturbed.
ConfigArrivesIntact ==
    /\ session \in {"ready", "over"} => booted = {config}
    /\ session = "over" /\ mishaps = 0 => result = reported

\* What the builder accepts and the translation to a boot configuration
\* refuses once the VM runs: a /0 subnet, a DNS server that is not IPv4, too
\* many disks, too long a mount path, too long a frame.
RefusedLate ==
    \/ \E n \in plan.nat : n.prefix_len = 0 \/ \E i \in DOMAIN n.dns : ~n.dns[i].v4
    \/ Len(plan.disks) > MAX_DISKS
    \/ \E i \in DOMAIN plan.disks : Len(plan.disks[i].mount) > MAX_MOUNT_PATH_BYTES
    \/ Len(Encoded(config)) > MAX_BOOT_CONFIG_FRAME

\* A launch is refused only for a reason: the checks of Nat::try_new,
\* GuestMount::new, DiskSpec::new, validate_disks and BootstrapConfigV1::new
\* say no, or one of the five that only the protocol checks; else the line
\* was disturbed, or the guest could not report its result.  Every other
\* plan passes the second validation in libs/protocol and survives
\* BootConfigV1::to_bytes and try_from.
RefusedForAReason ==
    session = "refused" =>
        \/ ~prepare_launch(plan) \/ ~protocol_config(plan) \/ RefusedLate
        \/ mishaps > 0
        \/ booted # {} /\ pid1 = "hung" /\ \E r \in Results : ~validate_result(r)

\* A command of this endpoint is only ever executed by the machine the
\* endpoint was made for, also when the address belongs to another one by
\* the time the connection is made: authenticate_connection drops it.
ServedByOwnGuest == served \subseteq {Identity(config)}
=============================================================================
