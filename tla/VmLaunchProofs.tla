---------------------------- MODULE VmLaunchProofs ----------------------------
(***************************************************************************)
(* What VmLaunch promises, for any disks, machines, requests, artifact and *)
(* bounds.  One inductive invariant, LaunchInv, in six parts:              *)
(*                                                                         *)
(*   ModeInv   which mode reaches which stage of the launch;               *)
(*   LifeInv   what the observer and the future have been told, per stage; *)
(*   FileInv   the bootstrap's staging and output files, per stage;        *)
(*   GuestInv  what the guest has established, per stage of its boot;      *)
(*   ReadyInv  that a READY frame on its way, or accepted, is true of the  *)
(*             guest that runs;                                            *)
(*   DiskInv   who made a disk and what it may hold, per stage of either.  *)
(***************************************************************************)
EXTENDS VmLaunch, TLAPS

Modes == {"hcs", "hcs-bootstrap"}
Served == {"probe", "publish", "announce", "live", "request"}
Stages == Launching \cup Transferring \cup Served \cup {"built", "closing", "ended"}

\* The stages before an instance exists.
Unmade == {"built", "validate", "artifacts", "create", "backoff", "ended"}

ModeInv ==
    /\ request \in Requests /\ machine \in Machines
    /\ mode \in Modes /\ pc \in Stages
    /\ pc \in Served => mode = "hcs"
    /\ pc \in Transferring => mode = "hcs-bootstrap"

LifeInv ==
    /\ pc = "built" => observer = "Pending" /\ outcome = "none" /\ scheduled = "none"
    /\ pc \in Launching \cup Transferring \/ (pc = "closing" /\ mode = "hcs-bootstrap") =>
          observer = "Launching" /\ outcome = "none" /\ scheduled = "none"
    /\ pc = "announce" =>
          /\ outcome = "none" /\ observer \in {"Launching", "Shutdown", "FailedShutdown"}
          /\ scheduled = "done" => observer # "Launching"
    /\ pc \in {"live", "request"} \/ (pc = "closing" /\ mode = "hcs") =>
          outcome = "ok" /\ observer \in {"Running", "Shutdown", "FailedShutdown"}
    /\ pc = "live" /\ scheduled = "done" => observer # "Running"
    /\ pc = "ended" =>
          \/ outcome \in {"none", "err", "cancelled"} /\ observer = "FailedLaunch"
          \/ outcome = "ok" /\ observer \in {"Running", "Shutdown", "Dropped", "FailedShutdown"}

FileInv ==
    /\ output = None \/ output = Artifact
    /\ staging # None => pc \in {"transfer", "sync"} \/ (pc = "ended" /\ outcome = "cancelled")
    /\ pc \in Launching \cup Transferring \cup {"built"} => ~failed
    /\ failed \in BOOLEAN
    /\ pc = "closing" /\ mode = "hcs-bootstrap" /\ ~failed => output = Artifact
    /\ outcome = "ok" /\ mode = "hcs-bootstrap" => output = Artifact

\* The boot has got past its network, and past READY.
Networked == {"disks", "mounting", "bind", "ready"}
Past == {"serving", "command", "artifact", "stream", "exited", "hung"}

Online == nic.up /\ "ours" \in nic.addrs /\ nic.gateway = "ours"
Configured == /\ config.net => Online
              /\ mounted = Disk
              /\ ~config.bootstrap => listening

GuestInv ==
    /\ config \in Configs /\ streamed \in Nat /\ mounted \subseteq Disk
    /\ nic \in [up : BOOLEAN, addrs : SUBSET {"ours"}, gateway : {"none", "ours", "other"}]
    /\ guest = "address" => nic.up
    /\ guest = "route" => nic.up /\ "ours" \in nic.addrs
    /\ guest = "resolv" => Online
    /\ guest \in Networked => (config.net => Online)
    /\ guest = "mounting" => Disk \ mounted # {}
    /\ guest \in {"bind", "ready"} => mounted = Disk
    /\ guest = "ready" => (~config.bootstrap => listening)

\* The host has accepted READY from the guest that runs.
Accepted == Served \cup Transferring
Kind == {"marker", "boot", "ready", "result", "chunk", "noise"}
Verdict == {"success", "command_failed", "artifact_unavailable"}
FrameValue == Nat \cup Verdict \cup Configs
Frame == Kind \X FrameValue

ReadyInv ==
    /\ sent \in Configs
    /\ toHost \in Seq(Frame) /\ toGuest \in Seq(Frame)
    /\ \A i \in 1..Len(toGuest) : toGuest[i][1] = "boot" => toGuest[i][2] = sent
    /\ \A i \in 1..Len(toHost) : toHost[i][1] = "ready" =>
          toHost[i] = Ready /\ guest \in Past /\ Configured
    /\ pc \in Accepted => guest \in Past /\ Configured /\ config = sent
    /\ pc \in Waiting \cup Accepted /\ mode = "hcs" => ~sent.bootstrap
    /\ pc \in Unmade \cup {"start", "config"} => toGuest = <<>>
    /\ guest = "off" <=> pc \in Unmade \cup {"start"}

DiskInv ==
    /\ fs \in [Disk -> Content] /\ owned \subseteq Disk /\ published \in BOOLEAN
    /\ published => pc \in {"announce", "live", "request", "closing", "ended"}
    /\ pc \in {"announce", "live", "request"} => published
    /\ pc \in Unmade => owned = {}
    /\ guest # "off" => \A d \in mounted : fs[d] \in {"ext", "user"}
    /\ \A d \in Disk : fs[d] = "blank" => d \in owned \/ d \in leftover
    /\ \A d \in owned : ~published => fs[d] \in {"blank", "ext"}
    /\ \A d \in owned : published => fs[d] \in {"ext", "user"}
    /\ published => guest \in Past \cup {"off"}
    /\ guest # "off" /\ pc # "config" => sent.initialize \subseteq owned
    /\ guest # "off" => config.initialize \subseteq owned

LaunchInv == ModeInv /\ LifeInv /\ FileInv /\ GuestInv /\ ReadyInv /\ DiskInv

-----------------------------------------------------------------------------
(* The host's side: stages, observer and files *)

\* Mode, machine and request never change, and the guest and the line leave the host's
\* variables alone.
LEMMA FixedStep ==
    ASSUME [Next]_vars
    PROVE  UNCHANGED <<boot, request>>
<1>. USE DEF boot, vars, lvars, hostvars
<1>1. CASE Launcher
  BY <1>1, Zenon DEF Launcher, prepare_launch, prepare_artifacts, create, start, create_and_start_again,
     prepare_config, connect, read_ready_marker, write_boot_config, read_ready_frame,
     ready_timeout, probe, mark_published, announce, Abort, AbortBefore, StillThere
<1>2. CASE Bootstrap
  BY <1>2, Zenon DEF Bootstrap, connect_com1, exchange_boot_and_ready, read_result, create_staging,
     read_chunk, publish_output, transfer_timeout, close_bootstrap, TransferFails, StillThere
<1>3. CASE shutdown_action \/ request_shutdown \/ close
  BY <1>3 DEF shutdown_action, request_shutdown, close
<1>4. CASE User
  BY <1>4 DEF User, launch, DropBuilder, CancelLaunch, shutdown, drop, CancelClose, NextBuilder,
     GuestWrites
<1>5. CASE Guest
  BY <1>5, Zenon DEF Guest, run_init, mount, load_drivers, start_loopback, Com_open, recv_boot_frame,
     bring_up_net, wait_for_iface, link_up, assign_address, set_default_route, write_resolv_conf,
     mount_disks_with_config, apply_disks, run_fatal_mount, bind, run_bus, run_bootstrap,
     bootstrap_ready, bootstrap_command, bootstrap_artifact, bootstrap_stream
<1>6. CASE Line \/ Done \/ UNCHANGED vars
  BY <1>6 DEF Line, Garble, Done
<1>. QED BY <1>1, <1>2, <1>3, <1>4, <1>5, <1>6 DEF Next, Host

\* Every stage is reached in its own mode only.
LEMMA ModeStep ==
    ASSUME ModeInv, [Next]_vars
    PROVE  ModeInv'
<1>. USE DEF ModeInv, Modes, Stages, Served, Preparing, Waiting, Launching, Transferring, boot
<1>0. mode' = mode /\ machine' = machine /\ request' = request
  BY FixedStep DEF boot
<1>1. CASE Launcher
  BY <1>0, <1>1, Zenon DEF Launcher, prepare_launch, prepare_artifacts, create, start,
     create_and_start_again, prepare_config, connect, read_ready_marker, write_boot_config,
     read_ready_frame, ready_timeout, probe, mark_published, announce, Abort, AbortBefore,
     Ended, Go, exchange_ready
<1>2. CASE Bootstrap
  BY <1>0, <1>2 DEF Bootstrap, connect_com1, exchange_boot_and_ready, read_result,
     create_staging, read_chunk, publish_output, transfer_timeout, close_bootstrap,
     TransferFails, Ended, Go
<1>3. CASE shutdown_action \/ request_shutdown \/ close
  BY <1>0, <1>3 DEF shutdown_action, request_shutdown, close
<1>4. CASE User
  BY <1>0, <1>4 DEF User, launch, DropBuilder, CancelLaunch, shutdown, drop, CancelClose,
     NextBuilder, GuestWrites, Ended
<1>5. CASE Guest \/ Line \/ Done \/ UNCHANGED vars
  BY <1>0, <1>5, ZenonT(30) DEF Guest, Line, Done, vars, hostvars
<1>. QED BY <1>1, <1>2, <1>3, <1>4, <1>5 DEF Next, Host

\* What the observer and the future are told follows the stages.
LEMMA LifeStep ==
    ASSUME ModeInv, LifeInv, [Next]_vars
    PROVE  LifeInv'
<1>. USE DEF ModeInv, LifeInv, Modes, Stages, Served, Preparing, Waiting, Launching,
     Transferring, set, is_terminal
<1>0. mode' = mode
  BY FixedStep, ZenonT(30) DEF boot
<1>1. CASE Launcher
  <2>a. CASE prepare_launch \/ prepare_artifacts
    BY <1>0, <2>a DEF prepare_launch, prepare_artifacts, AbortBefore, Ended, Go, Calm
  <2>b. CASE create
    BY <1>0, <2>b DEF create, Abort, AbortBefore, Ended, Go, Calm
  <2>c. CASE start
    BY <1>0, <2>c DEF start, Abort, AbortBefore, Ended, Go, Calm
  <2>d. CASE create_and_start_again
    BY <1>0, <2>d DEF create_and_start_again, Abort, AbortBefore, Ended, Go, Calm
  <2>2. CASE prepare_config \/ connect \/ read_ready_marker \/ write_boot_config
    BY <1>0, <2>2 DEF prepare_config, connect, read_ready_marker, write_boot_config, Abort,
       Ended, Go, Calm
  <2>3. CASE read_ready_frame \/ ready_timeout \/ probe
    BY <1>0, <2>3 DEF read_ready_frame, ready_timeout, probe, Abort, Ended, Go, Calm
  <2>4. CASE mark_published
    BY <1>0, <2>4 DEF mark_published, LiveVm_new, Abort, Ended
  <2>5. CASE announce
    BY <1>0, <2>5 DEF announce
  <2>. QED BY <1>1, <2>a, <2>b, <2>c, <2>d, <2>2, <2>3, <2>4, <2>5 DEF Launcher
<1>2. CASE Bootstrap
  <2>1. CASE connect_com1 \/ exchange_boot_and_ready \/ read_result
    BY <1>0, <2>1, ZenonT(30) DEF connect_com1, exchange_boot_and_ready, read_result, TransferFails, Go, Calm
  <2>2. CASE create_staging \/ read_chunk \/ publish_output \/ transfer_timeout
    BY <1>0, <2>2 DEF create_staging, read_chunk, publish_output, transfer_timeout,
       TransferFails, Go, Calm
  <2>3. CASE close_bootstrap
    BY <1>0, <2>3 DEF close_bootstrap, Ended
  <2>. QED BY <1>2, <2>1, <2>2, <2>3 DEF Bootstrap
<1>3. CASE shutdown_action \/ request_shutdown \/ close
  BY <1>0, <1>3 DEF shutdown_action, request_shutdown, close
<1>4. CASE launch \/ DropBuilder \/ CancelLaunch \/ NextBuilder
  BY <1>0, <1>4 DEF launch, DropBuilder, CancelLaunch, NextBuilder, Ended
<1>5. CASE shutdown \/ drop \/ CancelClose \/ GuestWrites
  BY <1>0, <1>5 DEF shutdown, drop, CancelClose, GuestWrites, Ended
<1>6. CASE Guest \/ Line \/ Done \/ UNCHANGED vars
  BY <1>0, <1>6 DEF Guest, Line, Done, vars, hostvars
<1>. QED BY <1>1, <1>2, <1>3, <1>4, <1>5, <1>6 DEF Next, Host, User

\* The bootstrap's files follow the stages.
LEMMA FileStep ==
    ASSUME ModeInv, LifeInv, FileInv, [Next]_vars
    PROVE  FileInv'
<1>. USE DEF ModeInv, FileInv, Modes, Stages, Served, Preparing, Waiting, Launching,
     Transferring, files
<1>0. mode' = mode /\ ((outcome = "ok" /\ pc = "ended") \/ outcome # "ok" \/ mode = "hcs")
  BY FixedStep, ZenonT(30) DEF boot, LifeInv
<1>1. CASE Launcher
  <2>a. CASE prepare_launch \/ prepare_artifacts
    BY <1>0, <2>a DEF prepare_launch, prepare_artifacts, AbortBefore, Ended, Go, Calm
  <2>b. CASE create
    BY <1>0, <2>b DEF create, Abort, AbortBefore, Ended, Go, Calm
  <2>c. CASE start
    BY <1>0, <2>c DEF start, Abort, AbortBefore, Ended, Go, Calm
  <2>d. CASE create_and_start_again
    BY <1>0, <2>d, ZenonT(30) DEF create_and_start_again, Abort, AbortBefore, Ended, Go, Calm
  <2>2. CASE prepare_config \/ connect \/ read_ready_marker \/ write_boot_config
    BY <1>0, <2>2 DEF prepare_config, connect, read_ready_marker, write_boot_config, Abort,
       Ended, Go, Calm, StillThere
  <2>3. CASE read_ready_frame \/ ready_timeout \/ probe
    BY <1>0, <2>3 DEF read_ready_frame, ready_timeout, probe, Abort, Ended, Go, Calm, StillThere,
       exchange_ready
  <2>4. CASE mark_published \/ announce
    BY <1>0, <2>4, ZenonT(30) DEF mark_published, announce, Abort, Ended
  <2>. QED BY <1>1, <2>a, <2>b, <2>c, <2>d, <2>2, <2>3, <2>4 DEF Launcher
<1>2. CASE Bootstrap
  <2>1. CASE connect_com1 \/ exchange_boot_and_ready \/ read_result
    BY <1>0, <2>1, Zenon DEF connect_com1, exchange_boot_and_ready, read_result, TransferFails, Go,
       Calm, StillThere
  <2>2. CASE create_staging
    <3>1. CASE TransferFails
      BY <1>0, <2>2, <3>1 DEF create_staging, TransferFails, Calm
    <3>2. CASE pc' = "transfer" /\ UNCHANGED <<failed, output, outcome>>
      BY <1>0, <2>2, <3>2 DEF create_staging
    <3>. QED BY <2>2, <3>1, <3>2 DEF create_staging, Go, Calm
  <2>5. CASE read_chunk
    <3>1. CASE TransferFails
      BY <1>0, <2>5, <3>1 DEF read_chunk, TransferFails, Calm
    <3>2. CASE pc' \in {"transfer", "sync"} /\ UNCHANGED <<failed, output, outcome>>
      BY <1>0, <2>5, <3>2 DEF read_chunk
    <3>. QED BY <2>5, <3>1, <3>2 DEF read_chunk, Calm
  <2>3. CASE publish_output \/ transfer_timeout
    BY <1>0, <2>3, Zenon DEF publish_output, replace_file_atomically, transfer_timeout, TransferFails,
       Go, Calm
  <2>4. CASE close_bootstrap
    BY <1>0, <2>4 DEF close_bootstrap, Ended
  <2>. QED BY <1>2, <2>1, <2>2, <2>3, <2>4, <2>5 DEF Bootstrap
<1>3. CASE shutdown_action \/ request_shutdown \/ close
  BY <1>0, <1>3, Zenon DEF shutdown_action, request_shutdown, close
<1>4. CASE launch \/ DropBuilder \/ CancelLaunch \/ NextBuilder
  <2>1. CASE launch
    BY <1>0, <2>1 DEF launch
  <2>2. CASE DropBuilder
    BY <1>0, <2>2 DEF DropBuilder
  <2>3. CASE CancelLaunch
    BY <1>0, <2>3 DEF CancelLaunch, Ended
  <2>4. CASE NextBuilder
    BY <1>0, <2>4, Zenon DEF NextBuilder
  <2>. QED BY <1>4, <2>1, <2>2, <2>3, <2>4
<1>5. CASE shutdown \/ drop \/ CancelClose \/ GuestWrites
  BY <1>0, <1>5, Zenon DEF LifeInv, shutdown, drop, CancelClose, GuestWrites, Ended
<1>6. CASE Guest \/ Line \/ Done \/ UNCHANGED vars
  BY <1>0, <1>6 DEF Guest, Line, Done, vars, hostvars
<1>. QED BY <1>1, <1>2, <1>3, <1>4, <1>5, <1>6 DEF Next, Host, User

-----------------------------------------------------------------------------
(* The guest's side *)

Off == Unmade \cup {"start"}

\* All that the host and the user do to the guest and to COM1, with the stages they do it in.
Elsewhere ==
    /\ UNCHANGED <<gvars, com1, sent>> /\ pc # "config" /\ pc' # "config"
    /\ pc' \in Accepted => pc \in Accepted
    /\ pc' \in Waiting => pc \in Waiting
    /\ pc' \in Off <=> pc \in Off
Configures == /\ pc = "config" /\ pc' = "connect" /\ sent' = build_boot_config
              /\ UNCHANGED <<gvars, com1>>
Renews == pc = "ended" /\ pc' = "built" /\ sent' = NoConfig /\ UNCHANGED <<gvars, com1>>
Starts == pc = "start" /\ pc' = "config" /\ PowerOn /\ sent' = sent
Ends == pc' \in {"ended", "backoff"} /\ PowerOff /\ sent' = sent
Halts == /\ guest = "serving" /\ guest' = "exited"
         /\ pc \in Accepted /\ pc' \in Accepted \cup {"closing"}
         /\ UNCHANGED <<config, drivers, nic, mounted, listening, streamed, com1, sent>>
Takes == /\ TakeFrame /\ sent' = sent
         /\ pc \in Waiting \cup Transferring /\ pc' \in Waiting \cup Transferring \cup {"probe"}
         /\ pc' \in Accepted => pc \in Accepted \/ verify(Head(toHost))
         /\ pc' \in Waiting => pc \in Waiting
Sends == /\ pc = "write" /\ pc' = "ready" /\ SendFrame(<<"boot", sent>>)
         /\ UNCHANGED <<toHost, gvars, sent>>
HostOnGuest == Elsewhere \/ Configures \/ Renews \/ Starts \/ Ends \/ Halts \/ Takes \/ Sends

\* Every action of the host and of the user is one of these.
LEMMA HostShape ==
    ASSUME ModeInv, Host \/ User
    PROVE  HostOnGuest
<1>. USE DEF Off, Unmade, Accepted, Served, Preparing, Waiting, Launching, Transferring, lvars
<1>a. ASSUME Teardown, pc' \in {"ended", "backoff"}, sent' = sent
      PROVE  HostOnGuest
  BY <1>a DEF Teardown, HostOnGuest, Ends
<1>b. CASE Abort
  BY <1>a, <1>b DEF Abort, Ended
<1>c. ASSUME AbortBefore, pc \in Off
      PROVE  HostOnGuest
  BY <1>c DEF AbortBefore, Ended, HostOnGuest, Elsewhere
<1>d. ASSUME TransferFails, pc \in Waiting \cup Transferring
      PROVE  HostOnGuest
  BY <1>d DEF TransferFails, HostOnGuest, Elsewhere
<1>1. CASE prepare_launch
  BY <1>1, <1>c DEF prepare_launch, Go, HostOnGuest, Elsewhere
<1>2. CASE prepare_artifacts
  BY <1>2, <1>c DEF prepare_artifacts, Go, HostOnGuest, Elsewhere
<1>3. CASE create
  BY <1>3, <1>c DEF create, Go, HostOnGuest, Elsewhere
<1>4. CASE start
  BY <1>4, <1>a, <1>b DEF start, Go, HostOnGuest, Starts
<1>5. CASE create_and_start_again
  BY <1>5 DEF create_and_start_again, Go, HostOnGuest, Elsewhere
<1>6. CASE prepare_config
  BY <1>6, <1>b DEF prepare_config, Go, HostOnGuest, Configures
<1>7. CASE connect \/ connect_com1
  BY <1>7 DEF connect, connect_com1, Go, StillThere, HostOnGuest, Elsewhere
<1>8. CASE read_ready_marker
  BY <1>8, <1>b DEF read_ready_marker, Go, StillThere, HostOnGuest, Takes
<1>9. CASE write_boot_config
  BY <1>9 DEF write_boot_config, Go, StillThere, HostOnGuest, Sends
<1>10. CASE read_ready_frame
  BY <1>10, <1>b DEF read_ready_frame, Go, StillThere, HostOnGuest, Takes
<1>11. CASE ready_timeout
  BY <1>11, <1>b DEF ready_timeout
<1>12. CASE probe
  BY <1>12, <1>b DEF probe, Go, StillThere, HostOnGuest, Elsewhere
<1>13. CASE mark_published
  BY <1>13, <1>b DEF mark_published, HostOnGuest, Elsewhere
<1>14. CASE announce
  BY <1>14 DEF announce, HostOnGuest, Elsewhere
<1>15. CASE exchange_boot_and_ready
  BY <1>15, <1>d DEF exchange_boot_and_ready, Go, StillThere, HostOnGuest, Takes, Sends
<1>16. CASE read_result
  BY <1>16, <1>d DEF read_result, Go, StillThere, HostOnGuest, Takes
<1>17. CASE create_staging
  BY <1>17, <1>d DEF create_staging, Go, HostOnGuest, Elsewhere
<1>18. CASE read_chunk
  BY <1>18, <1>d DEF read_chunk, HostOnGuest, Takes
<1>19. CASE publish_output
  BY <1>19, <1>d DEF publish_output, HostOnGuest, Elsewhere
<1>20. CASE transfer_timeout
  BY <1>20, <1>d DEF transfer_timeout
<1>21. CASE close_bootstrap
  BY <1>21, <1>a DEF close_bootstrap, Ended
<1>22. CASE shutdown_action
  BY <1>22 DEF shutdown_action, HostOnGuest, Elsewhere, Halts, gvars
<1>23. CASE request_shutdown
  BY <1>23 DEF request_shutdown, HostOnGuest, Elsewhere, Halts, gvars
<1>24. CASE close \/ CancelClose \/ CancelLaunch \/ drop
  BY <1>24, <1>a DEF close, CancelClose, CancelLaunch, drop, Ended
<1>25. CASE launch \/ DropBuilder
  BY <1>25 DEF launch, DropBuilder, HostOnGuest, Elsewhere
<1>26. CASE shutdown \/ GuestWrites
  BY <1>26 DEF shutdown, GuestWrites, HostOnGuest, Elsewhere
<1>27. CASE NextBuilder
  BY <1>27 DEF NextBuilder, HostOnGuest, Renews
<1>28. CASE Launcher
  BY <1>28, <1>1, <1>2, <1>3, <1>4, <1>5, <1>6, <1>7, <1>8, <1>9, <1>10, <1>11, <1>12, <1>13,
     <1>14 DEF Launcher
<1>29. CASE Bootstrap
  BY <1>29, <1>7, <1>15, <1>16, <1>17, <1>18, <1>19, <1>20, <1>21, ZenonT(30) DEF Bootstrap
<1>. QED BY <1>22, <1>23, <1>24, <1>25, <1>26, <1>27, <1>28, <1>29 DEF Host, User

\* The next disk to mount is a disk (lemma NextDiskIsDisk below).
MountsADisk == Disk \ mounted # {} => NextDisk \in Disk \ mounted

\* What the boot has established, stage by stage.
LEMMA GuestStep ==
    ASSUME ModeInv, GuestInv, ReadyInv, MountsADisk, [Next]_vars
    PROVE  GuestInv'
<1>. USE DEF GuestInv, Networked, Online
<1>1. CASE Host \/ User
  <2>1. HostOnGuest
    BY <1>1, HostShape, ZenonT(30)
  <2>2. CASE Elsewhere \/ Configures \/ Renews \/ Takes \/ Sends
    BY <2>2, ZenonT(30) DEF Elsewhere, Configures, Renews, Takes, TakeFrame, Sends, gvars
  <2>3. CASE Starts
    <3>1. NoConfig \in Configs
      BY DEF NoConfig, Configs
    <3>. QED BY <2>3, <3>1, GuestBootAssumption DEF Starts, PowerOn, ModeInv
  <2>4. CASE Ends
    BY <2>4 DEF Ends, PowerOff
  <2>5. CASE Halts
    BY <2>5 DEF Halts
  <2>. QED BY <2>1, <2>2, <2>3, <2>4, <2>5 DEF HostOnGuest
<1>2. CASE Guest
  <2>1. CASE mount \/ load_drivers \/ start_loopback \/ Com_open
    BY <2>1, ZenonT(30) DEF mount, load_drivers, start_loopback, Com_open, OrHang, GoOn, Hang
  <2>2. CASE recv_boot_frame
    <3>0. toGuest # <<>> /\ toGuest \in Seq(Frame)
      BY <2>2, Zenon DEF recv_boot_frame, recv_frame, ReadyInv
    <3>1. toGuest # <<>> /\ Head(toGuest) = toGuest[1] /\ 1 \in 1..Len(toGuest)
      BY <3>0
    <3>2. Head(toGuest)[1] = "boot" => Head(toGuest)[2] \in Configs
      BY <3>1 DEF ReadyInv
    <3>. QED BY <2>2, <3>2, SMTT(20) DEF recv_boot_frame, GoOn, Hang
  <2>3. CASE wait_for_iface \/ write_resolv_conf
    BY <2>3 DEF wait_for_iface, write_resolv_conf, OrHang, GoOn, Hang
  <2>4. CASE link_up
    BY <2>4, Zenon DEF link_up, RouteSocket_fails, GoOn, Hang
  <2>5. CASE assign_address
    BY <2>5 DEF assign_address, effective_address_matches, RouteSocket_fails, GoOn, Hang
  <2>6. CASE set_default_route
    BY <2>6, ZenonT(30) DEF set_default_route, effective_default_route_matches, RouteSocket_fails, GoOn, Hang
  <2>7. CASE apply_disks
    BY <2>7, ZenonT(30) DEF apply_disks, GoOn, Hang
  <2>8. CASE run_fatal_mount
    BY <2>8 DEF run_fatal_mount, MountsADisk, GoOn, Hang
  <2>9. CASE guest = "disks" /\ Disk \ mounted = {} /\ GoOn(AfterDisks)
             /\ UNCHANGED <<config, drivers, nic, mounted, listening, streamed, com1, fs, boot>>
    BY <2>9, ZenonT(30) DEF GoOn, AfterDisks
  <2>10. CASE bind
    BY <2>10, ZenonT(30) DEF bind, GoOn, Hang
  <2>11. CASE run_bus \/ bootstrap_ready \/ bootstrap_command \/ bootstrap_artifact
    BY <2>11, ZenonT(30) DEF run_bus, bootstrap_ready, bootstrap_command, bootstrap_artifact, GoOn, Hang
  <2>12. CASE bootstrap_stream
    BY <2>12, SMTT(20) DEF bootstrap_stream, GoOn, Hang
  <2>. QED BY <1>2, <2>1, <2>2, <2>3, <2>4, <2>5, <2>6, <2>7, <2>8, <2>9, <2>10, <2>11, <2>12, ZenonT(30)
       DEF Guest, run_init, bring_up_net, mount_disks_with_config, run_bootstrap
<1>3. CASE Line \/ Done \/ UNCHANGED vars
  BY <1>3 DEF Line, Garble, Done, vars, gvars
<1>. QED BY <1>1, <1>2, <1>3, ZenonT(30) DEF Next

\* The boot leaves what it has established alone once it has sent READY.
GuestPastReady ==
    /\ guest \in Past /\ guest' \in Past /\ UNCHANGED <<config, nic, mounted, listening>>

\* COM1 from the guest's end, and what it says there.
GuestOnLine ==
    /\ guest # "off" /\ guest' # "off" /\ UNCHANGED <<pc, sent, mode>>
    /\ guest \in Past => GuestPastReady
    /\ toGuest' = toGuest \/ (toGuest # <<>> /\ toGuest' = Tail(toGuest))
    /\ \/ toHost' = toHost
       \/ \E f \in Frame : f[1] # "ready" /\ toHost' = Append(toHost, f)
       \/ /\ toHost' = Append(toHost, Ready) /\ guest = "ready" /\ guest' \in Past
          /\ UNCHANGED <<config, nic, mounted, listening>>

\* The frames there are; only one kind of them is READY.
LEMMA Frames ==
    /\ <<"marker", 0>> \in Frame /\ <<"noise", 0>> \in Frame
    /\ \A r \in Verdict : <<"result", r>> \in Frame
    /\ \A n \in Nat : <<"chunk", n>> \in Frame
    /\ \A c \in Configs : <<"ready", c>> \in Frame /\ <<"boot", c>> \in Frame
<1>1. /\ Nat \subseteq FrameValue
      /\ Verdict \subseteq FrameValue
      /\ Configs \subseteq FrameValue
  BY Zenon DEF FrameValue
<1>2. 0 \in FrameValue
  BY <1>1
<1>3. \A v \in FrameValue, k \in Kind : <<k, v>> \in Frame
  BY DEF Frame
<1>4. \A v \in FrameValue :
         /\ <<"marker", v>> \in Frame /\ <<"boot", v>> \in Frame /\ <<"ready", v>> \in Frame
         /\ <<"result", v>> \in Frame /\ <<"chunk", v>> \in Frame /\ <<"noise", v>> \in Frame
  BY <1>3, Zenon DEF Kind
<1>. QED BY <1>1, <1>2, <1>4, Zenon

\* The first part of a pair.
LEMMA KindOf == \A k, v : <<k, v>>[1] = k
OBVIOUS

\* Every step of the guest, seen from the line between the two.
LEMMA GuestShape ==
    ASSUME GuestInv, Guest
    PROVE  GuestOnLine
<1>. USE DEF GuestOnLine, GuestPastReady, Past, hostvars, lvars, boot, com1
<1>0. UNCHANGED <<pc, sent>>
  BY DEF Guest
<1>1. CASE mount \/ load_drivers \/ start_loopback
  BY <1>0, <1>1 DEF mount, load_drivers, start_loopback, OrHang, GoOn, Hang
<1>2. CASE Com_open
  BY <1>0, <1>2, Frames, KindOf, ZenonT(30) DEF Com_open, send_frame, GoOn, Hang
<1>3. CASE recv_boot_frame
  BY <1>0, <1>3 DEF recv_boot_frame, recv_frame, GoOn, Hang
<1>4. CASE bring_up_net
  BY <1>0, <1>4 DEF bring_up_net, wait_for_iface, link_up, assign_address, set_default_route,
     write_resolv_conf, RouteSocket_fails, OrHang, GoOn, Hang
<1>5. CASE mount_disks_with_config
  BY <1>0, <1>5 DEF mount_disks_with_config, apply_disks, run_fatal_mount, AfterDisks, GoOn, Hang
<1>6. CASE bind
  BY <1>0, <1>6, Zenon DEF bind, GoOn, Hang
<1>7. CASE run_bus \/ bootstrap_ready
  BY <1>0, <1>7 DEF run_bus, bootstrap_ready, send_frame, GoOn, Hang
<1>8. CASE bootstrap_command \/ bootstrap_artifact
  <2>1. "success" \in Verdict /\ "command_failed" \in Verdict /\ "artifact_unavailable" \in Verdict
    BY DEF Verdict
  <2>2. \A r \in Verdict : <<"result", r>> \in Frame /\ <<"result", r>>[1] # "ready"
    BY Frames, KindOf, Zenon
  <2>. QED BY <1>0, <1>8, <2>1, <2>2, Zenon DEF bootstrap_command, bootstrap_artifact, send_result,
          send_frame, GoOn, Hang
<1>9. CASE bootstrap_stream
  <2>1. streamed + 1 \in Nat
    BY DEF GuestInv
  <2>. QED BY <1>0, <1>9, <2>1, Frames, KindOf DEF bootstrap_stream, send_frame, GoOn, Hang
<1>. QED BY <1>1, <1>2, <1>3, <1>4, <1>5, <1>6, <1>7, <1>8, <1>9, Zenon DEF Guest, run_init, run_bootstrap

\* Damaging its last frame leaves a queue its length and its other frames.
LEMMA DamagedQueue ==
    ASSUME NEW n \in Frame, n[1] = "noise", NEW q \in Seq(Frame), q # <<>>
    PROVE  LET damaged == [q EXCEPT ![Len(q)] = n]
           IN  /\ damaged \in Seq(Frame) /\ Len(damaged) = Len(q)
               /\ \A i \in 1..Len(q) : damaged[i][1] = "noise" \/ damaged[i] = q[i]
<1>. DEFINE damaged == [q EXCEPT ![Len(q)] = n]
<1>1. Len(q) \in Nat /\ Len(q) # 0 /\ q \in [1..Len(q) -> Frame]
  OBVIOUS
<1>2. damaged \in [1..Len(q) -> Frame]
  BY <1>1
<1>3. damaged \in Seq(Frame) /\ Len(damaged) = Len(q)
  BY <1>1, <1>2
<1>4. \A i \in 1..Len(q) : damaged[i][1] = "noise" \/ damaged[i] = q[i]
  OBVIOUS
<1>. QED BY <1>3, <1>4, Zenon

\* A READY frame on its way, or accepted, is true of the guest that runs.
LEMMA ReadyStep ==
    ASSUME ModeInv, GuestInv, ReadyInv, owned \subseteq Disk, [Next]_vars
    PROVE  ReadyInv'
<1>. USE DEF com1
<1>0. mode' = mode
  BY FixedStep DEF boot
<1>a. UNCHANGED gvars => Ready' = Ready /\ Configured' = Configured /\ UNCHANGED <<guest, config>>
  BY DEF gvars, Ready, Configured, Online
<1>1. CASE Host \/ User
  <2>1. HostOnGuest
    BY <1>1, HostShape, ZenonT(30)
  <2>2. CASE Elsewhere
    BY <1>0, <2>2, ZenonT(30) DEF ReadyInv, Elsewhere, Accepted, Served, Transferring, Waiting, Off, Unmade,
       Configured, Online, Ready, gvars, ModeInv
  <2>3. CASE Configures
    <3>1. build_boot_config \in Configs /\ (mode = "hcs" => ~build_boot_config.bootstrap)
      BY VmLaunchAssumption, Zenon DEF build_boot_config, Configs, ModeInv
    <3>2. toGuest = <<>> /\ guest # "off"
      BY <2>3, Zenon DEF Configures, ReadyInv, Unmade
    <3>3. /\ UNCHANGED <<toHost, toGuest, guest, config>> /\ Ready' = Ready
          /\ Configured' = Configured
      BY <1>a, <2>3 DEF Configures
    <3>4. /\ pc' \notin Accepted /\ (pc' \in Waiting /\ mode = "hcs" => ~sent'.bootstrap)
          /\ guest' = "off" <=> pc' \in Unmade \cup {"start"}
      BY <2>3, <3>1, <3>2, <3>3 DEF Configures, Accepted, Served, Transferring, Waiting, Unmade
    <3>5. toGuest' = <<>> /\ Len(toGuest') = 0 /\ sent' \in Configs
      BY <2>3, <3>1, <3>2, <3>3, ZenonT(30) DEF Configures
    <3>. QED BY <1>0, <3>3, <3>4, <3>5 DEF ReadyInv
  <2>4. CASE Renews
    <3>1. NoConfig \in Configs
      BY DEF NoConfig, Configs
    <3>2. toGuest = <<>> /\ guest = "off"
      BY <2>4 DEF Renews, ReadyInv, Unmade
    <3>3. /\ UNCHANGED <<toHost, toGuest, guest, config>> /\ Ready' = Ready
          /\ Configured' = Configured
      BY <1>a, <2>4 DEF Renews
    <3>4. /\ pc' \notin Accepted /\ (pc' \in Waiting /\ mode = "hcs" => ~sent'.bootstrap)
          /\ guest' = "off" <=> pc' \in Unmade \cup {"start"}
      BY <2>4, <3>1, <3>2, <3>3 DEF Renews, Accepted, Served, Transferring, Waiting, Unmade
    <3>5. toGuest' = <<>> /\ Len(toGuest') = 0 /\ sent' \in Configs
      BY <2>4, <3>1, <3>2, <3>3, ZenonT(30) DEF Renews
    <3>. QED BY <1>0, <3>3, <3>4, <3>5 DEF ReadyInv
  <2>5. CASE Starts
    <3>1. /\ toGuest' = <<>> /\ toHost' = <<>> /\ Len(toGuest') = 0 /\ Len(toHost') = 0
          /\ sent' \in Configs
      BY <2>5 DEF ReadyInv, Starts, PowerOn
    <3>2. /\ pc' \notin Accepted \cup Waiting /\ pc' \notin Unmade \cup {"start"}
          /\ guest' # "off"
      BY <2>5, ZenonT(30) DEF Starts, PowerOn, Accepted, Served, Transferring, Waiting, Unmade
    <3>. QED BY <3>1, <3>2 DEF ReadyInv
  <2>6. CASE Ends
    <3>1. /\ toGuest' = <<>> /\ toHost' = <<>> /\ Len(toGuest') = 0 /\ Len(toHost') = 0
          /\ sent' \in Configs
      BY <2>6 DEF ReadyInv, Ends, PowerOff
    <3>2. pc' \notin Accepted \cup Waiting /\ pc' \in Unmade /\ guest' = "off"
      BY <2>6, ZenonT(30) DEF Ends, PowerOff, Accepted, Served, Transferring, Waiting, Unmade
    <3>. QED BY <3>1, <3>2 DEF ReadyInv
  <2>7. CASE Halts
    BY <1>0, <2>7, SMTT(20) DEF ReadyInv, Halts, Accepted, Served, Transferring, Waiting, Unmade, Past,
       Configured, Online, Ready
  <2>8. CASE Takes
    <3>1. /\ toHost # <<>> /\ toHost' = Tail(toHost) /\ UNCHANGED <<toGuest, gvars, sent>>
          /\ pc \in Waiting \cup Transferring /\ pc' \in Waiting \cup Transferring \cup {"probe"}
      BY <2>8, ZenonT(30) DEF Takes, TakeFrame
    <3>2. /\ toHost' \in Seq(Frame)
          /\ \A i \in 1..Len(toHost') : i + 1 \in 1..Len(toHost) /\ toHost'[i] = toHost[i + 1]
      BY <3>1 DEF ReadyInv
    <3>3. verify(Head(toHost)) => guest \in Past /\ Configured /\ config = sent
      <4>1. 1 \in 1..Len(toHost) /\ Head(toHost) = toHost[1]
        BY <3>1 DEF ReadyInv
      <4>2. verify(Head(toHost)) => toHost[1][1] = "ready" /\ toHost[1] = <<"ready", sent>>
        BY <4>1, KindOf, ZenonT(30) DEF verify
      <4>. QED BY <4>1, <4>2 DEF ReadyInv, Ready
    <3>4. pc' \in Accepted => guest \in Past /\ Configured /\ config = sent
      BY <2>8, <3>3, ZenonT(30) DEF Takes, ReadyInv
    <3>5. pc' \in Waiting \cup Accepted /\ mode = "hcs" => ~sent.bootstrap
      BY <3>1, ZenonT(30) DEF ReadyInv, Accepted, Served, Transferring
    <3>6. /\ pc \notin Unmade \cup {"start", "config"} /\ pc' \notin Unmade \cup {"start", "config"}
          /\ guest # "off"
      BY <3>1 DEF ReadyInv, Waiting, Transferring, Unmade
    <3>7. UNCHANGED <<config, guest, nic, mounted, listening>>
      BY <3>1, ZenonT(30) DEF gvars
    <3>8. Ready' = Ready /\ Configured' = Configured
      BY <3>7, ZenonT(30) DEF Ready, Configured, Online
    <3>9. \A i \in 1..Len(toHost') : toHost'[i][1] = "ready" =>
             toHost'[i] = Ready' /\ guest' \in Past /\ Configured'
      BY <3>2, <3>7, <3>8, ZenonT(30) DEF ReadyInv
    <3>10. /\ sent' \in Configs /\ toHost' \in Seq(Frame) /\ toGuest' \in Seq(Frame)
           /\ \A i \in 1..Len(toGuest') : toGuest'[i][1] = "boot" => toGuest'[i][2] = sent'
      BY <3>1, <3>2 DEF ReadyInv
    <3>11. pc' \in Accepted => guest' \in Past /\ Configured' /\ config' = sent'
      BY <3>1, <3>4, <3>7, <3>8
    <3>. QED BY <1>0, <3>1, <3>5, <3>6, <3>7, <3>9, <3>10, <3>11, Zenon DEF ReadyInv
  <2>9. CASE Sends
    <3>1. <<"boot", sent>> \in Frame /\ <<"boot", sent>>[2] = sent
      BY Frames, Zenon DEF ReadyInv
    <3>2. /\ toGuest' \in Seq(Frame)
          /\ \A i \in 1..Len(toGuest') :
                toGuest'[i] = <<"boot", sent>> \/ (i \in 1..Len(toGuest) /\ toGuest'[i] = toGuest[i])
      BY <2>9, <3>1 DEF Sends, SendFrame, ReadyInv
    <3>. QED BY <1>0, <2>9, <3>1, <3>2, ZenonT(30) DEF ReadyInv, Sends, Accepted, Served, Transferring, Waiting,
            Unmade, Configured, Online, Ready, gvars
  <2>. QED BY <2>1, <2>2, <2>3, <2>4, <2>5, <2>6, <2>7, <2>8, <2>9 DEF HostOnGuest
<1>2. CASE Guest
  <2>1. GuestOnLine
    BY <1>2, GuestShape
  <2>2. pc \notin Off
    BY <2>1, ZenonT(30) DEF GuestOnLine, ReadyInv, Off
  <2>3. /\ toGuest' \in Seq(Frame)
        /\ \A i \in 1..Len(toGuest') : toGuest'[i][1] = "boot" => toGuest'[i][2] = sent
        /\ toGuest = <<>> => toGuest' = <<>>
    <3>1. CASE toGuest' = toGuest
      BY <3>1, ZenonT(30) DEF ReadyInv
    <3>2. CASE toGuest # <<>> /\ toGuest' = Tail(toGuest)
      <4>1. /\ toGuest' \in Seq(Frame)
            /\ \A i \in 1..Len(toGuest') : i + 1 \in 1..Len(toGuest) /\ toGuest'[i] = toGuest[i + 1]
        BY <3>2 DEF ReadyInv
      <4>. QED BY <3>2, <4>1, ZenonT(30) DEF ReadyInv
    <3>. QED BY <2>1, <3>1, <3>2, ZenonT(30) DEF GuestOnLine
  <2>4. Ready \in Frame
    BY Frames, Zenon DEF Ready, GuestInv
  <2>5. guest \in Past /\ Configured => guest' \in Past /\ Configured' /\ Ready' = Ready
    BY <2>1, ZenonT(30) DEF GuestOnLine, GuestPastReady, Ready, Configured, Online
  <2>6. /\ toHost' \in Seq(Frame)
        /\ \A i \in 1..Len(toHost') : toHost'[i][1] = "ready" =>
              toHost'[i] = Ready' /\ guest' \in Past /\ Configured'
    <3>1. CASE toHost' = toHost
      BY <2>5, <3>1, ZenonT(30) DEF ReadyInv
    <3>2. ASSUME NEW f \in Frame, f[1] # "ready", toHost' = Append(toHost, f)
          PROVE  <2>6
      <4>1. /\ toHost' \in Seq(Frame)
            /\ \A i \in 1..Len(toHost') :
                  toHost'[i] = f \/ (i \in 1..Len(toHost) /\ toHost'[i] = toHost[i])
        BY <3>2, SMTT(20) DEF ReadyInv
      <4>. QED BY <2>5, <3>2, <4>1, ZenonT(30) DEF ReadyInv
    <3>3. ASSUME toHost' = Append(toHost, Ready), guest = "ready", guest' \in Past,
                 UNCHANGED <<config, nic, mounted, listening>>
          PROVE  <2>6
      <4>1. /\ toHost' \in Seq(Frame)
            /\ \A i \in 1..Len(toHost') :
                  toHost'[i] = Ready \/ (i \in 1..Len(toHost) /\ toHost'[i] = toHost[i])
        BY <2>4, <3>3, SMTT(20) DEF ReadyInv
      <4>2. \A i \in 1..Len(toHost) : toHost[i][1] # "ready"
        BY <3>3, ZenonT(30) DEF ReadyInv, Past
      <4>3. Configured' /\ Ready' = Ready
        BY <3>3, ZenonT(30) DEF Configured, Online, Ready, GuestInv, Networked
      <4>. QED BY <3>3, <4>1, <4>2, <4>3, ZenonT(30)
    <3>. QED BY <2>1, <3>1, <3>2, <3>3, ZenonT(30) DEF GuestOnLine
  <2>7. pc \in Accepted => guest' \in Past /\ Configured' /\ config' = sent
    BY <2>1, <2>5 DEF GuestOnLine, GuestPastReady, ReadyInv
  <2>. QED BY <1>0, <2>1, <2>2, <2>3, <2>6, <2>7, Zenon DEF ReadyInv, GuestOnLine, Off
<1>3. CASE Line
  <2>1. UNCHANGED <<gvars, pc, sent>>
    BY <1>3 DEF Line, Garble, hostvars, lvars
  <2>2. <<"noise", 0>> \in Frame /\ <<"noise", 0>>[1] = "noise"
    BY Frames, KindOf
  <2>4. CASE /\ toHost # <<>> /\ toHost' = [toHost EXCEPT ![Len(toHost)] = <<"noise", 0>>]
             /\ UNCHANGED toGuest
    <3>1. /\ toHost' \in Seq(Frame) /\ Len(toHost') = Len(toHost)
          /\ \A i \in 1..Len(toHost) : toHost'[i][1] = "noise" \/ toHost'[i] = toHost[i]
      BY <2>2, <2>4, DamagedQueue, ZenonT(30) DEF ReadyInv
    <3>2. \A i \in 1..Len(toHost') : toHost'[i][1] = "ready" =>
             toHost'[i] = Ready' /\ guest' \in Past /\ Configured'
      BY <1>a, <2>1, <3>1 DEF ReadyInv
    <3>. QED BY <1>0, <1>a, <2>1, <2>4, <3>1, <3>2, Zenon DEF ReadyInv
  <2>5. CASE /\ toGuest # <<>> /\ toGuest' = [toGuest EXCEPT ![Len(toGuest)] = <<"noise", 0>>]
             /\ UNCHANGED toHost
    <3>1. /\ toGuest' \in Seq(Frame) /\ Len(toGuest') = Len(toGuest)
          /\ \A i \in 1..Len(toGuest) : toGuest'[i][1] = "noise" \/ toGuest'[i] = toGuest[i]
      BY <2>2, <2>5, DamagedQueue, ZenonT(30) DEF ReadyInv
    <3>2. \A i \in 1..Len(toGuest') : toGuest'[i][1] = "boot" => toGuest'[i][2] = sent'
      BY <2>1, <3>1, ZenonT(30) DEF ReadyInv
    <3>3. toGuest # <<>> => pc \notin Unmade \cup {"start", "config"}
      BY DEF ReadyInv
    <3>. QED BY <1>0, <1>a, <2>1, <2>5, <3>1, <3>2, <3>3, Zenon DEF ReadyInv
  <2>. QED BY <1>3, <2>4, <2>5, ZenonT(30) DEF Line, Garble
<1>4. CASE Done \/ UNCHANGED vars
  BY <1>0, <1>4, Zenon DEF Done, vars, lvars, gvars, boot, com1, ReadyInv, Configured, Online, Ready
<1>. QED BY <1>1, <1>2, <1>3, <1>4 DEF Next

-----------------------------------------------------------------------------
(* Disks *)

\* What a teardown leaves: it removes no data but an owned, published, ephemeral disk's, and
\* every blank disk that stays is a leftover.
LEMMA TeardownStep ==
    ASSUME DiskInv, Teardown, request \in Requests
    PROVE  /\ fs' \in [Disk -> Content] /\ owned' = {} /\ guest' = "off"
           /\ \A d \in Disk : fs'[d] = "blank" => d \in leftover'
           /\ \A d \in Disk : fs[d] = "user" /\ fs'[d] # "user" =>
                 fs'[d] = "absent" /\ classify_disks(d) = "Ephemeral" /\ published
<1>1. PICK left \in SUBSET {d \in Disk : Deletable(d)} :
         /\ fs' = [d \in Disk |-> IF Deletable(d) /\ d \notin left THEN "absent" ELSE fs[d]]
         /\ leftover' = leftover \cup left
  BY ZenonT(30) DEF Teardown
<1>2. owned' = {} /\ guest' = "off"
  BY ZenonT(30) DEF Teardown, PowerOff
<1>3. fs' \in [Disk -> Content]
  BY <1>1, ZenonT(30) DEF DiskInv, Content
<1>4. ASSUME NEW d \in Disk, fs'[d] = "blank"
      PROVE  d \in leftover'
  <2>1. fs[d] = "blank" /\ (~Deletable(d) \/ d \in left)
    BY <1>1, <1>4, ZenonT(30)
  <2>2. d \in owned => Deletable(d)
    BY <2>1, ZenonT(30) DEF DiskInv, Deletable
  <2>. QED BY <1>1, <2>1, <2>2, ZenonT(30) DEF DiskInv
<1>5. ASSUME NEW d \in Disk, fs[d] = "user", fs'[d] # "user"
      PROVE  fs'[d] = "absent" /\ classify_disks(d) = "Ephemeral" /\ published
  <2>1. Deletable(d) /\ fs'[d] = "absent"
    BY <1>1, <1>5, ZenonT(30)
  <2>2. published
    BY <1>5, <2>1, ZenonT(30) DEF Deletable, DiskInv
  <2>. QED BY <2>1, <2>2, ZenonT(30) DEF Deletable, classify_disks
<1>. QED BY <1>2, <1>3, <1>4, <1>5, ZenonT(30)

\* The guest formats a disk only before the VM is published, and only one the launch made.
LEMMA FormatStep ==
    ASSUME GuestInv, ReadyInv, DiskInv, MountsADisk, apply_disks
    PROVE  /\ fs' \in [Disk -> Content] /\ guest' # "off" /\ ~published /\ config' = config
           /\ \A d \in Disk :
                 fs'[d] = fs[d] \/ (d \in owned /\ d \notin mounted /\ fs'[d] = "ext" /\ fs[d] # "user")
<1>1. NextDisk \in Disk \ mounted
  BY ZenonT(30) DEF apply_disks, MountsADisk
<1>2. guest = "disks" /\ ~published
  BY ZenonT(30) DEF apply_disks, DiskInv, Past
<1>3. config.initialize \subseteq owned
  BY <1>2, ZenonT(30) DEF DiskInv
<1>4. fs' = fs \/ (NextDisk \in owned /\ fs' = [fs EXCEPT ![NextDisk] = "ext"])
  BY <1>3, ZenonT(30) DEF apply_disks
<1>5. guest' # "off" /\ config' = config
  BY ZenonT(30) DEF apply_disks, GoOn, Hang
<1>6. NextDisk \in owned => fs[NextDisk] # "user"
  BY <1>2, ZenonT(30) DEF DiskInv
<1>. QED BY <1>1, <1>2, <1>4, <1>5, <1>6, ZenonT(30) DEF DiskInv, Content

\* The rest of the boot leaves the disks alone, and mounts none that holds no file system.
LEMMA MountStep ==
    ASSUME GuestInv, ReadyInv, DiskInv, run_init, ~apply_disks
    PROVE  /\ fs' = fs /\ guest' # "off" /\ guest # "off"
           /\ recv_boot_frame \/ config' = config
           /\ \A d \in mounted' : d \in mounted \/ fs[d] \in {"ext", "user"}
<1>1. CASE mount \/ load_drivers \/ start_loopback \/ Com_open \/ recv_boot_frame
  BY <1>1, Zenon DEF mount, load_drivers, start_loopback, Com_open, recv_boot_frame, OrHang, GoOn, Hang
<1>2. CASE bring_up_net
  BY <1>2, ZenonT(30) DEF bring_up_net, wait_for_iface, link_up, assign_address, set_default_route,
     write_resolv_conf, RouteSocket_fails, OrHang, GoOn, Hang
<1>3. CASE mount_disks_with_config
  BY <1>3 DEF mount_disks_with_config, run_fatal_mount, AfterDisks, GoOn, Hang
<1>4. CASE bind \/ run_bus \/ run_bootstrap
  BY <1>4, Zenon DEF bind, run_bus, run_bootstrap, bootstrap_ready, bootstrap_command,
     bootstrap_artifact, bootstrap_stream, GoOn, Hang
<1>. QED BY <1>1, <1>2, <1>3, <1>4 DEF run_init

\* All that the host and the user do to the disks, with the stages they do it in.
Live == {"announce", "live", "request"}
LeavesDisks ==
    /\ UNCHANGED <<fs, owned, published, leftover>>
    /\ pc' \in Unmade => pc \in Unmade
    /\ pc' \in Live => pc \in Live
    /\ pc \in Live \cup {"closing", "ended"} => pc' \in Live \cup {"closing", "ended"}
Removes ==
    /\ Teardown /\ published' = published
    /\ pc' = "ended" \/ (pc = "start" /\ pc' = "backoff")
Creates ==
    /\ pc = "create" /\ pc' = "start" /\ UNCHANGED <<published, leftover>>
    /\ owned' = {d \in Disk : fs[d] = "absent"}
    /\ fs' = [d \in Disk |-> IF fs[d] = "absent" THEN "blank" ELSE fs[d]]
Publishes ==
    /\ pc = "publish" /\ pc' = "announce" /\ published' = TRUE
    /\ UNCHANGED <<fs, owned, leftover, gvars, sent>>
HostOnDisks == LeavesDisks \/ Removes \/ Creates \/ Publishes \/ GuestWrites \/ NextBuilder

\* Every step of the host and of its user, seen from the disks.
LEMMA DiskShape ==
    ASSUME ModeInv, Host \/ User
    PROVE  HostOnDisks
<1>. USE DEF HostOnDisks, Unmade, Live, Served, Preparing, Waiting, Launching, Transferring
<1>a. ASSUME Abort
      PROVE  HostOnDisks
  BY <1>a, ZenonT(30) DEF Abort, Ended, Removes
<1>b. ASSUME AbortBefore, pc \in Unmade
      PROVE  HostOnDisks
  BY <1>b, ZenonT(30) DEF AbortBefore, Ended, LeavesDisks
<1>c. ASSUME TransferFails, pc \in Waiting \cup Transferring
      PROVE  HostOnDisks
  BY <1>c, ZenonT(30) DEF TransferFails, Calm, LeavesDisks
<1>1. CASE prepare_launch
  BY <1>1, <1>b, ZenonT(30) DEF prepare_launch, Go, Calm, LeavesDisks
<1>2. CASE prepare_artifacts
  BY <1>2, <1>b, ZenonT(30) DEF prepare_artifacts, Go, Calm, LeavesDisks
<1>3. CASE create
  BY <1>3, <1>b, ZenonT(30) DEF create, Go, Calm, LeavesDisks, Creates
<1>4. CASE start
  BY <1>4, <1>a, ZenonT(30) DEF start, Go, Calm, LeavesDisks, Removes
<1>5. CASE create_and_start_again
  BY <1>5, ZenonT(30) DEF create_and_start_again, Go, Calm, LeavesDisks
<1>6. CASE prepare_config
  BY <1>6, <1>a, ZenonT(30) DEF prepare_config, Go, Calm, LeavesDisks
<1>7. CASE connect \/ connect_com1 \/ write_boot_config
  BY <1>7, ZenonT(30) DEF connect, connect_com1, write_boot_config, Go, Calm, StillThere, LeavesDisks
<1>8. CASE read_ready_marker \/ read_ready_frame \/ ready_timeout
  BY <1>8, <1>a, ZenonT(30) DEF read_ready_marker, read_ready_frame, ready_timeout, Go, Calm, StillThere,
     LeavesDisks
<1>9. CASE probe
  BY <1>9, <1>a DEF probe, Go, Calm, StillThere, LeavesDisks
<1>10. CASE mark_published
  BY <1>10, <1>a, Zenon DEF mark_published, Publishes, lvars
<1>11. CASE announce
  BY <1>11, ZenonT(30) DEF announce, LeavesDisks
<1>12. CASE exchange_boot_and_ready \/ read_result
  BY <1>12, <1>c, ZenonT(30) DEF exchange_boot_and_ready, read_result, Go, Calm, StillThere, LeavesDisks
<1>13. CASE create_staging
  BY <1>13, <1>c, ZenonT(30) DEF create_staging, Go, Calm, LeavesDisks
<1>14. CASE read_chunk
  BY <1>14, <1>c, ZenonT(30) DEF read_chunk, Calm, LeavesDisks
<1>15. CASE publish_output \/ transfer_timeout
  BY <1>15, <1>c, ZenonT(30) DEF publish_output, transfer_timeout, Calm, LeavesDisks
<1>16. CASE close_bootstrap \/ close \/ CancelClose \/ CancelLaunch \/ drop
  BY <1>16, ZenonT(30) DEF close_bootstrap, close, CancelClose, CancelLaunch, drop, Ended, Removes
<1>17. CASE shutdown_action \/ request_shutdown \/ shutdown
  BY <1>17, ZenonT(30) DEF shutdown_action, request_shutdown, shutdown, LeavesDisks
<1>18. CASE launch \/ DropBuilder
  BY <1>18 DEF launch, DropBuilder, LeavesDisks
<1>19. CASE Launcher
  BY <1>19, <1>1, <1>2, <1>3, <1>4, <1>5, <1>6, <1>7, <1>8, <1>9, <1>10, <1>11, ZenonT(30) DEF Launcher
<1>20. CASE Bootstrap
  BY <1>20, <1>7, <1>12, <1>13, <1>14, <1>15, <1>16, ZenonT(30) DEF Bootstrap
<1>. QED BY <1>16, <1>17, <1>18, <1>19, <1>20 DEF Host, User

\* What DataKept says of one step.
Kept == \A d \in Disk : fs[d] = "user" /\ fs'[d] # "user" =>
            fs'[d] = "absent" /\ classify_disks(d) = "Ephemeral" /\ published

\* Who made a disk, and what it may hold.
LEMMA DiskStep ==
    ASSUME ModeInv, GuestInv, ReadyInv, DiskInv, MountsADisk, [Next]_vars
    PROVE  DiskInv' /\ Kept
<1>1. CASE Host \/ User
  <2>1. HostOnGuest /\ HostOnDisks
    BY <1>1, HostShape, DiskShape, ZenonT(30)
  <2>2. CASE LeavesDisks
    <3>1. CASE Elsewhere
      BY <2>2, <3>1, Zenon DEF DiskInv, Kept, LeavesDisks, Elsewhere, Live, gvars
    <3>2. CASE Configures
      <4>1. build_boot_config.initialize = owned
        BY DEF build_boot_config
      <4>. QED BY <2>2, <3>2, <4>1, ZenonT(30) DEF DiskInv, Kept, LeavesDisks, Configures, Live, gvars
    <3>3. CASE Renews
      BY <2>2, <3>3, Zenon DEF DiskInv, Kept, LeavesDisks, Renews, Live, Unmade, Waiting, Accepted,
         Served, Transferring, gvars
    <3>4. CASE Starts
      <4>1. ~published
        BY <3>4, Zenon DEF Starts, DiskInv
      <4>2. NoConfig.initialize = {}
        BY DEF NoConfig
      <4>. QED BY <2>2, <3>4, <4>1, <4>2, Zenon DEF DiskInv, Kept, LeavesDisks, Starts, PowerOn, Live,
              Unmade, Waiting, Accepted, Served, Transferring
    <3>5. CASE Ends
      BY <2>2, <3>5, Zenon DEF DiskInv, Kept, LeavesDisks, Ends, PowerOff, Live, Unmade, Waiting,
         Accepted, Served, Transferring
    <3>6. CASE Halts
      BY <2>2, <3>6, Zenon DEF DiskInv, Kept, LeavesDisks, Halts, Live, Past, Waiting, Accepted, Served,
         Transferring
    <3>7. CASE Takes
      BY <2>2, <3>7, Zenon DEF DiskInv, Kept, LeavesDisks, Takes, TakeFrame, Live, Waiting, Accepted,
         Served, Transferring, gvars
    <3>8. CASE Sends
      BY <2>2, <3>8, Zenon DEF DiskInv, Kept, LeavesDisks, Sends, Live, Waiting, Accepted, Served,
         Transferring, gvars
    <3>. QED BY <2>1, <3>1, <3>2, <3>3, <3>4, <3>5, <3>6, <3>7, <3>8 DEF HostOnGuest
  <2>3. CASE Removes
    BY <2>3, TeardownStep, Zenon DEF ModeInv, DiskInv, Kept, Removes, Live, Unmade, Waiting, Accepted,
       Served, Transferring
  <2>4. CASE Creates
    <3>1. guest = "off" /\ guest' = "off"
      BY <2>1, <2>4, Zenon DEF ReadyInv, Creates, HostOnGuest, Elsewhere, Configures, Renews, Starts,
         Ends, Halts, Takes, Sends, Waiting, Transferring, Accepted, Served, Unmade, gvars
    <3>. QED BY <2>4, <3>1, Zenon DEF DiskInv, Kept, Creates, Content, Unmade, Waiting, Accepted, Served,
            Transferring
  <2>5. CASE Publishes
    <3>2. guest \in Past /\ mounted = Disk /\ guest # "off"
      BY <2>5, Zenon DEF Publishes, ReadyInv, Accepted, Served, Configured, Past
    <3>3. \A d \in owned : fs[d] \in {"ext", "user"}
      BY <3>2, Zenon DEF DiskInv
    <3>. QED BY <2>5, <3>2, <3>3, Zenon DEF DiskInv, Kept, Publishes, Unmade, Waiting,
            Accepted, Served, gvars
  <2>6. CASE GuestWrites
    <3>1. PICK d \in mounted : fs[d] = "ext" /\ fs' = [fs EXCEPT ![d] = "user"]
      BY <2>6, Zenon DEF GuestWrites
    <3>2. /\ pc = "live" /\ guest = "serving" /\ published
          /\ UNCHANGED <<gvars, pc, owned, published, leftover, sent>>
      BY <2>6, Zenon DEF GuestWrites, DiskInv, lvars
    <3>3. UNCHANGED <<guest, mounted, config>>
      BY <3>2, ZenonT(30) DEF gvars
    <3>4. /\ fs' \in [Disk -> Content] /\ mounted \subseteq Disk
          /\ \A e \in Disk : fs'[e] = fs[e] \/ (fs[e] = "ext" /\ fs'[e] = "user")
      BY <3>1, ZenonT(30) DEF GuestInv, DiskInv, Content
    <3>. QED BY <3>2, <3>3, <3>4, Zenon DEF DiskInv, Kept
  <2>7. CASE NextBuilder
    BY <2>7, Zenon DEF NextBuilder, DiskInv, ReadyInv, Kept, Unmade, Waiting, Accepted, Served,
       Transferring, gvars
  <2>. QED BY <2>1, <2>2, <2>3, <2>4, <2>5, <2>6, <2>7 DEF HostOnDisks
<1>2. CASE Guest
  <2>1. UNCHANGED <<pc, owned, published, leftover, sent>> /\ run_init
    BY <1>2 DEF Guest, hostvars, lvars
  <2>2. GuestOnLine
    BY <1>2, GuestShape
  <2>3. published => guest' \in Past \cup {"off"}
    BY <2>2, Zenon DEF DiskInv, GuestOnLine, GuestPastReady
  <2>4. config'.initialize \subseteq owned
    <3>1. CASE recv_boot_frame
      <4>0. toGuest # <<>> /\ toGuest \in Seq(Frame)
        BY <3>1, Zenon DEF recv_boot_frame, recv_frame, ReadyInv
      <4>1. toGuest # <<>> /\ Head(toGuest) = toGuest[1] /\ 1 \in 1..Len(toGuest)
        BY <4>0
      <4>2. pc # "config" /\ guest # "off"
        BY <3>1, <4>1, Zenon DEF recv_boot_frame, ReadyInv
      <4>. QED BY <3>1, <4>1, <4>2, Zenon DEF recv_boot_frame, ReadyInv, DiskInv, GoOn, Hang
    <3>2. CASE config' = config
      BY <2>2, <3>2, Zenon DEF DiskInv, GuestOnLine
    <3>. QED BY <2>1, <3>1, <3>2, FormatStep, MountStep
  <2>5. CASE apply_disks
    <3>1. /\ fs' \in [Disk -> Content] /\ guest' # "off" /\ ~published
          /\ \A d \in Disk :
                fs'[d] = fs[d] \/ (d \in owned /\ d \notin mounted /\ fs'[d] = "ext" /\ fs[d] # "user")
      BY <2>5, FormatStep, ZenonT(30)
    <3>2. guest # "off" /\ mounted' = mounted /\ mounted \subseteq Disk
      BY <2>5, Zenon DEF apply_disks, GuestInv
    <3>. QED BY <2>1, <2>3, <2>4, <3>1, <3>2, Zenon DEF DiskInv, Kept
  <2>6. CASE ~apply_disks
    BY <2>1, <2>3, <2>4, <2>6, MountStep, Zenon DEF DiskInv, Kept
  <2>. QED BY <2>5, <2>6
<1>3. CASE Line \/ Done \/ UNCHANGED vars
  <2>1. UNCHANGED <<fs, owned, published, pc, guest, mounted, leftover, sent, config>>
    BY <1>3, Zenon DEF Line, Garble, Done, vars, gvars, lvars, hostvars
  <2>. QED BY <2>1, Zenon DEF DiskInv, Kept
<1>. QED BY <1>1, <1>2, <1>3 DEF Next

-----------------------------------------------------------------------------
(* The order of the disks, from the theorems of the library. *)

INSTANCE FiniteSetTheorems

\* The order of the numbers, as a set of pairs.
Less == {ss \in Nat \X Nat : ss[1] < ss[2]}

\* A set of numbers that is not empty has a least member.
LEMMA LeastMember ==
    ASSUME NEW T, T \subseteq Nat, T # {}
    PROVE  \E x \in T : \A y \in T : x <= y
<1>1. IsWellFoundedOn(Less, Nat)
  BY NatLessThanWellFounded DEF Less, OpToRel
<1>2. PICK x \in T : \A y \in T : <<y, x>> \notin Less
  BY <1>1, WFMin, Zenon
<1>3. ASSUME NEW y \in T
      PROVE  x <= y
  <2>1. x \in Nat /\ y \in Nat
    OBVIOUS
  <2>2. y < x => <<y, x>> \in Less
    BY <2>1 DEF Less
  <2>. QED BY <1>2, <2>1, <2>2
<1>. QED BY <1>3

\* The next disk to mount is a disk.
LEMMA NextDiskIsDisk ==
    ASSUME Disk \ mounted # {}
    PROVE  NextDisk \in Disk \ mounted
<1>1. Cardinality(Disk) \in Nat
  BY GuestBootAssumption, FS_CardinalityType, Zenon
<1>2. Disk \ mounted \subseteq Nat
  BY <1>1, GuestBootAssumption
<1>3. \E d \in Disk \ mounted : \A e \in Disk \ mounted : d <= e
  BY <1>2, LeastMember, Zenon
<1>. QED BY <1>3, SMTT(20) DEF NextDisk

-----------------------------------------------------------------------------
(* The theorems *)

\* Every launch starts in the invariant.
LEMMA LaunchInvInit == Init => LaunchInv
<1>. SUFFICES ASSUME Init PROVE LaunchInv
  OBVIOUS
<1>1. ModeInv
  BY VmLaunchAssumption, Zenon DEF Init, ModeInv, Modes, Stages, Launching, Preparing, Waiting,
     Transferring, Served
<1>2. LifeInv /\ FileInv
  BY Zenon DEF Init, LifeInv, FileInv, Launching, Preparing, Waiting, Transferring
<1>3. GuestInv
  <2>1. NoConfig \in Configs
    BY Zenon DEF NoConfig, Configs
  <2>. QED BY <2>1 DEF Init, GuestInv, Networked
<1>4. ReadyInv
  <2>1. NoConfig \in Configs
    BY ZenonT(30) DEF NoConfig, Configs
  <2>2. /\ toGuest = <<>> /\ toHost = <<>> /\ Len(toGuest) = 0 /\ Len(toHost) = 0
        /\ sent \in Configs /\ guest = "off" /\ pc = "built"
    BY <2>1 DEF Init
  <2>3. pc \in Unmade /\ pc \notin Waiting \cup Accepted
    BY <2>2 DEF Waiting, Accepted, Served, Transferring, Unmade
  <2>. QED BY <2>2, <2>3, SMTT(20) DEF ReadyInv
<1>5. DiskInv
  <2>1. NoConfig.initialize = {}
    BY DEF NoConfig
  <2>. QED BY <2>1, Zenon DEF Init, DiskInv, Content, Unmade
<1>. QED BY <1>1, <1>2, <1>3, <1>4, <1>5, ZenonT(30) DEF LaunchInv

\* Every step keeps it.
LEMMA LaunchInvStep == LaunchInv /\ [Next]_vars => LaunchInv'
<1>. SUFFICES ASSUME LaunchInv, [Next]_vars PROVE LaunchInv'
  BY ZenonT(30)
<1>1. owned \subseteq Disk
  BY DEF LaunchInv, DiskInv
<1>2. MountsADisk
  BY NextDiskIsDisk DEF MountsADisk
<1>. QED BY <1>1, <1>2, ModeStep, LifeStep, FileStep, GuestStep, ReadyStep, DiskStep, ZenonT(30) DEF LaunchInv

\* All six parts hold throughout every launch.
LEMMA LaunchInvariant == Spec => []LaunchInv
BY LaunchInvInit, LaunchInvStep, PTL DEF Spec

\* The observer agrees with the builder's future: a launch that failed or was dropped is
\* reported as failed to every waiter, one that succeeded never as a failed launch, and a
\* scheduled shutdown is not overwritten (VmLifecycle::set, LaunchObserverGuard).
THEOREM ObserverIsRight == Spec => []ObserverTellsOutcome
<1>1. LaunchInv => ObserverTellsOutcome
  BY ZenonT(30) DEF LaunchInv, ModeInv, LifeInv, ObserverTellsOutcome, started, finished, Resolves,
     is_terminal, Stages, Launching, Preparing, Waiting, Transferring, Served, Modes
<1>. QED BY <1>1, LaunchInvariant, PTL

\* The bootstrap's output is the whole artifact or what it was before, and a call that
\* returned leaves no staging file (run_com1_bootstrap).
THEOREM OutputIsWhole == Spec => []OutputWholeOrUntouched
<1>1. LaunchInv => OutputWholeOrUntouched
  BY ZenonT(30) DEF LaunchInv, ModeInv, LifeInv, FileInv, OutputWholeOrUntouched, Stages, Launching,
     Preparing, Waiting, Transferring, Served, Modes
<1>. QED BY <1>1, LaunchInvariant, PTL

\* An accepted READY is true: the guest that runs applied the configuration that was sent
\* (wait_for_ready, run_init).
THEOREM ReadyIsTrue == Spec => []ReadyMeansServing
<1>1. LaunchInv => ReadyMeansServing
  <2>. SUFFICES ASSUME LaunchInv, pc \in {"probe", "publish", "result"}
                PROVE  /\ config = sent
                       /\ sent.net => nic.up /\ "ours" \in nic.addrs /\ nic.gateway = "ours"
                       /\ mounted = Disk /\ \A d \in Disk : fs[d] \in {"ext", "user"}
                       /\ mode = "hcs" => listening
    BY ZenonT(30) DEF ReadyMeansServing
  <2>1. guest \in Past /\ Configured /\ config = sent /\ (mode = "hcs" => ~sent.bootstrap)
    BY ZenonT(30) DEF LaunchInv, ReadyInv, Accepted, Served, Transferring
  <2>2. \A d \in mounted : fs[d] \in {"ext", "user"}
    BY <2>1, ZenonT(30) DEF LaunchInv, DiskInv, Past
  <2>. QED BY <2>1, <2>2, ZenonT(30) DEF Configured, Online
<1>. QED BY <1>1, LaunchInvariant, PTL

\* A launch that is over left no blank disk that a later one would take for an existing one
\* and never format, but for those its cleanup could not delete.
THEOREM NoBlankDisks == Spec => []NoBlankDiskLeft
<1>1. LaunchInv => NoBlankDiskLeft
  BY DEF LaunchInv, DiskInv, Unmade, NoBlankDiskLeft
<1>. QED BY <1>1, LaunchInvariant, PTL

\* No retry and no later launch formats a disk that holds data, and only the instance that
\* made an ephemeral disk deletes it (build_boot_config, apply_disks, classify_disks).
THEOREM DataIsKept == Spec => DataKept
<1>1. LaunchInv /\ [Next]_vars => [Kept]_vars
  BY DiskStep, NextDiskIsDisk DEF LaunchInv, MountsADisk
<1>2. Spec => [][Kept]_vars
  BY <1>1, LaunchInvariant, PTL DEF Spec
<1>. QED BY <1>2 DEF DataKept, Kept
===============================================================================
