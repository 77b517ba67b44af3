------------------------------ MODULE GuestBoot ------------------------------
(***************************************************************************)
(* The guest half of a launch: PID 1 (libs/init) from the kernel's handing *)
(* over until it serves commands or, in COM1 bootstrap mode, has streamed  *)
(* the artifact of its one command.  COM1 is a pair of frame queues shared *)
(* with the host (VmLaunch).  Every `?` of run_init is the same ending:    *)
(* main prints the error and sleeps for ever, so the host only ever learns *)
(* of it by its own timeout ("hung").                                      *)
(*                                                                         *)
(* Abstractions.  A frame is a kind and a value; a garbled frame is        *)
(* "noise".  The artifact is ArtifactLen chunks.  A disk's content is what *)
(* the boot can tell apart: no file, a blank disk, an ext file system made *)
(* by this guest, or a file system that was there before ("user").         *)
(***************************************************************************)
EXTENDS Naturals, Sequences, FiniteSets

CONSTANTS
    Disk,          \* the requested disks, 1..n: a disk's device index plus one
    Machines,      \* kernels and root file systems a guest may be booted with
    ArtifactLen,   \* chunks of the bootstrap artifact
    MaxMishaps     \* bound: failing system calls, garbled frames, dying peers

\* The drivers something depends on; hv_utils is loaded too and never required.
Driver == {"hv_vmbus", "hv_netvsc", "hv_storvsc"}

ASSUME GuestBootAssumption ==
    /\ IsFiniteSet(Disk) /\ Disk = 1..Cardinality(Disk)
    /\ ArtifactLen \in Nat \ {0}
    /\ MaxMishaps \in Nat
    /\ \A m \in Machines :
          /\ m.builtin \subseteq Driver /\ m.tree \subseteq Driver
          /\ m.addrs \subseteq {"ours"} /\ m.gateway \in {"none", "ours", "other"}
          /\ m.formatter \in {"shipped", "installable", "missing"}

VARIABLES
    mode,          \* jyth.backend of the kernel command line: "hcs" | "hcs-bootstrap"
    machine,       \* the member of Machines this VM boots
    guest,         \* where PID 1 is
    config,        \* the decoded BootConfigV1
    drivers,       \* drivers in the kernel
    nic,           \* eth0: link state, addresses, default gateway
    mounted,       \* disks mounted
    listening,     \* the TCP command listener is bound
    streamed,      \* artifact chunks sent
    toGuest,       \* COM1, host to guest
    toHost,        \* COM1, guest to host
    fs,            \* content of every disk's VHDX
    mishaps

com1 == <<toGuest, toHost>>
gvars == <<guest, config, drivers, nic, mounted, listening, streamed>>
boot == <<mode, machine>>

NoConfig == [net |-> FALSE, initialize |-> {}, bootstrap |-> FALSE]
Configs == [net : BOOLEAN, initialize : SUBSET Disk, bootstrap : BOOLEAN]
Content == {"absent", "blank", "ext", "user"}
PcGuest == {"off", "mount", "drivers", "loopback", "com", "config", "iface", "link",
            "address", "route", "resolv", "disks", "mounting", "bind", "ready",
            "serving", "command", "artifact", "stream", "exited", "hung"}

(***************************************************************************)
(* A step of run_init either goes on or fails; main then never returns.    *)
(***************************************************************************)
Mishap == mishaps < MaxMishaps /\ mishaps' = mishaps + 1
Hang == guest' = "hung"
GoOn(pc) == guest' = pc /\ UNCHANGED mishaps
OrHang(pc) == GoOn(pc) \/ (Mishap /\ Hang)

\* The virtual machine is (re)started: a new kernel, a new PID 1, a new COM1.
PowerOn == /\ guest' = "mount" /\ config' = NoConfig /\ drivers' = {}
           /\ nic' = [up |-> FALSE, addrs |-> machine.addrs, gateway |-> machine.gateway]
           /\ mounted' = {} /\ listening' = FALSE /\ streamed' = 0
           /\ toGuest' = <<>> /\ toHost' = <<>>
PowerOff == /\ guest' = "off" /\ listening' = FALSE /\ toGuest' = <<>> /\ toHost' = <<>>
            /\ UNCHANGED <<config, drivers, nic, mounted, streamed>>

mount == /\ guest = "mount" /\ OrHang("drivers")
         /\ UNCHANGED <<config, drivers, nic, mounted, listening, streamed, com1, fs, boot>>

(***************************************************************************)
(* Drivers.  load reports a driver present when the kernel has it built in *)
(* or its module is found and inserted; a module that does not load is     *)
(* skipped, and only the network driver of a normal boot is required.      *)
(***************************************************************************)
find(name) == name \in machine.tree
load(name, rejected) == name \in machine.builtin \/ (find(name) /\ name \notin rejected)
require_driver(name, loaded) == name \in loaded
required(backend) == IF backend = "hcs" THEN {"hv_netvsc"} ELSE {}

load_drivers ==
    /\ guest = "drivers"
    /\ \E rejected \in {{}} \cup {{d} : d \in Driver} :
          /\ IF rejected = {} THEN UNCHANGED mishaps ELSE Mishap
          /\ drivers' = {d \in Driver : load(d, rejected)}
    /\ guest' = IF \A d \in required(mode) : require_driver(d, drivers')
                THEN "loopback" ELSE "hung"
    /\ UNCHANGED <<config, nic, mounted, listening, streamed, com1, fs, boot>>

start_loopback ==
    /\ guest = "loopback" /\ OrHang("com")
    /\ UNCHANGED <<config, drivers, nic, mounted, listening, streamed, com1, fs, boot>>

(***************************************************************************)
(* COM1.                                                                   *)
(***************************************************************************)
send_frame(frame) == toHost' = Append(toHost, frame) /\ UNCHANGED toGuest
recv_frame == toGuest # <<>> /\ toGuest' = Tail(toGuest) /\ UNCHANGED toHost

Com_open ==
    /\ guest = "com"
    /\ \/ GoOn("config") /\ send_frame(<<"marker", 0>>)
       \/ Mishap /\ Hang /\ UNCHANGED com1
    /\ UNCHANGED <<config, drivers, nic, mounted, listening, streamed, fs, boot>>

recv_boot_frame ==
    /\ guest = "config" /\ recv_frame
    /\ LET frame == Head(toGuest) IN
       IF frame[1] = "boot" THEN config' = frame[2] /\ GoOn("iface")
                            ELSE Hang /\ UNCHANGED <<config, mishaps>>
    /\ UNCHANGED <<drivers, nic, mounted, listening, streamed, fs, boot>>

(***************************************************************************)
(* Network.  The kernel's side of a netlink request is external: it        *)
(* refuses an address or a default route that exists (EEXIST), and an      *)
(* answer to the query that follows may be missing.                        *)
(***************************************************************************)
HasNic == {"hv_vmbus", "hv_netvsc"} \subseteq drivers

wait_for_iface ==
    /\ guest = "iface"
    /\ IF ~config.net THEN GoOn("disks")
       ELSE IF HasNic THEN OrHang("link") ELSE Hang /\ UNCHANGED mishaps
    /\ UNCHANGED <<config, drivers, nic, mounted, listening, streamed, com1, fs, boot>>

\* A netlink system call fails.
RouteSocket_fails == Mishap /\ Hang /\ UNCHANGED nic

link_up ==
    /\ guest = "link"
    /\ \/ GoOn("address") /\ nic' = [nic EXCEPT !.up = TRUE]
       \/ RouteSocket_fails
    /\ UNCHANGED <<config, drivers, mounted, listening, streamed, com1, fs, boot>>

await_ack(exists) == IF exists THEN "EEXIST" ELSE "ack"
effective_address_matches == "ours" \in nic.addrs
effective_default_route_matches == nic.gateway = "ours"

assign_address ==
    /\ guest = "address"
    /\ LET reply == await_ack("ours" \in nic.addrs) IN
       \/ reply = "ack" /\ nic' = [nic EXCEPT !.addrs = @ \cup {"ours"}] /\ GoOn("route")
       \/ reply = "EEXIST" /\ effective_address_matches /\ UNCHANGED nic /\ GoOn("route")
       \/ RouteSocket_fails
    /\ UNCHANGED <<config, drivers, mounted, listening, streamed, com1, fs, boot>>

\* Mutant: any default route that is already there will do.
set_default_route_keeps_any ==
    /\ guest = "route"
    /\ nic' = [nic EXCEPT !.gateway = IF @ = "none" THEN "ours" ELSE @] /\ GoOn("resolv")
    /\ UNCHANGED <<config, drivers, mounted, listening, streamed, com1, fs, boot>>

set_default_route ==
    /\ guest = "route"
    /\ LET reply == await_ack(nic.gateway # "none") IN
       \/ reply = "ack" /\ nic' = [nic EXCEPT !.gateway = "ours"] /\ GoOn("resolv")
       \/ /\ reply = "EEXIST" /\ UNCHANGED nic
          /\ IF effective_default_route_matches THEN GoOn("resolv") ELSE Hang /\ UNCHANGED mishaps
       \/ RouteSocket_fails
    /\ UNCHANGED <<config, drivers, mounted, listening, streamed, com1, fs, boot>>

write_resolv_conf ==
    /\ guest = "resolv" /\ OrHang("disks")
    /\ UNCHANGED <<config, drivers, nic, mounted, listening, streamed, com1, fs, boot>>

bring_up_net == wait_for_iface \/ link_up \/ assign_address \/ set_default_route \/ write_resolv_conf

(***************************************************************************)
(* Disks, in the order of the configuration.  A disk is formatted only if  *)
(* the host says that this launch created it.                              *)
(***************************************************************************)
NextDisk == CHOOSE d \in Disk \ mounted : \A e \in Disk \ mounted : d <= e
provision_formatter == machine.formatter = "installable" /\ nic.gateway = "ours"
format_disk == machine.formatter = "shipped" \/ provision_formatter

AfterDisks == IF config.bootstrap THEN "ready" ELSE "bind"

apply_disks ==
    /\ guest = "disks" /\ Disk \ mounted # {}
    /\ \/ /\ {"hv_vmbus", "hv_storvsc"} \subseteq drivers   \* the device node appears
          /\ IF NextDisk \in config.initialize
             THEN format_disk /\ fs' = [fs EXCEPT ![NextDisk] = "ext"]
             ELSE UNCHANGED fs
          /\ GoOn("mounting")
       \/ /\ \/ ~({"hv_vmbus", "hv_storvsc"} \subseteq drivers)
             \/ NextDisk \in config.initialize /\ ~format_disk
          /\ Hang /\ UNCHANGED <<fs, mishaps>>
       \/ Mishap /\ Hang /\ UNCHANGED fs
    /\ UNCHANGED <<config, drivers, nic, mounted, listening, streamed, com1, boot>>

run_fatal_mount ==
    /\ guest = "mounting"
    /\ \/ fs[NextDisk] \in {"ext", "user"} /\ mounted' = mounted \cup {NextDisk} /\ GoOn("disks")
       \/ fs[NextDisk] = "blank" /\ Hang /\ UNCHANGED <<mounted, mishaps>>
       \/ Mishap /\ Hang /\ UNCHANGED mounted
    /\ UNCHANGED <<config, drivers, nic, listening, streamed, com1, fs, boot>>

mount_disks_with_config ==
    \/ apply_disks
    \/ run_fatal_mount
    \/ /\ guest = "disks" /\ Disk \ mounted = {} /\ GoOn(AfterDisks)
       /\ UNCHANGED <<config, drivers, nic, mounted, listening, streamed, com1, fs, boot>>

(***************************************************************************)
(* Normal boot: bind the listener, then send READY and serve.              *)
(***************************************************************************)
bind ==
    /\ guest = "bind"
    /\ IF ~config.net \/ "ours" \notin nic.addrs
       THEN Hang /\ UNCHANGED <<listening, mishaps>>
       ELSE \/ GoOn("ready") /\ listening' = TRUE
            \/ Mishap /\ Hang /\ UNCHANGED listening
    /\ UNCHANGED <<config, drivers, nic, mounted, streamed, com1, fs, boot>>

\* READY proves possession of the capability over the boot frame received.
Ready == <<"ready", config>>

run_bus ==
    /\ guest = "ready" /\ ~config.bootstrap
    /\ \/ send_frame(Ready) /\ GoOn("serving")
       \/ Mishap /\ Hang /\ UNCHANGED com1
    /\ UNCHANGED <<config, drivers, nic, mounted, listening, streamed, fs, boot>>

(***************************************************************************)
(* Bootstrap: READY, one command, its result, then the artifact.           *)
(***************************************************************************)
bootstrap_ready ==
    /\ guest = "ready" /\ config.bootstrap
    /\ \/ send_frame(Ready) /\ GoOn("command")
       \/ Mishap /\ Hang /\ UNCHANGED com1
    /\ UNCHANGED <<config, drivers, nic, mounted, listening, streamed, fs, boot>>

send_result(result) == send_frame(<<"result", result>>)

bootstrap_command ==
    /\ guest = "command"
    /\ \/ GoOn("artifact") /\ UNCHANGED com1
       \/ Mishap /\ Hang /\ send_result("command_failed")
    /\ UNCHANGED <<config, drivers, nic, mounted, listening, streamed, fs, boot>>

bootstrap_artifact ==
    /\ guest = "artifact"
    /\ \/ GoOn("stream") /\ send_result("success")
       \/ Mishap /\ Hang /\ send_result("artifact_unavailable")
    /\ UNCHANGED <<config, drivers, nic, mounted, listening, streamed, fs, boot>>

bootstrap_stream ==
    /\ guest = "stream"
    /\ \/ /\ streamed < ArtifactLen
          /\ streamed' = streamed + 1 /\ send_frame(<<"chunk", streamed'>>)
          /\ GoOn("stream")
       \/ streamed = ArtifactLen /\ GoOn("exited") /\ UNCHANGED <<streamed, com1>>
       \/ Mishap /\ Hang /\ UNCHANGED <<streamed, com1>>
    /\ UNCHANGED <<config, drivers, nic, mounted, listening, fs, boot>>

run_bootstrap == bootstrap_ready \/ bootstrap_command \/ bootstrap_artifact \/ bootstrap_stream

run_init == \/ mount \/ load_drivers \/ start_loopback \/ Com_open \/ recv_boot_frame
            \/ bring_up_net \/ mount_disks_with_config \/ bind \/ run_bus \/ run_bootstrap

\* The serial line (external): a frame in transit is damaged.
Garble ==
    /\ Mishap
    /\ \/ /\ toHost # <<>> /\ toHost' = [toHost EXCEPT ![Len(toHost)] = <<"noise", 0>>]
          /\ UNCHANGED toGuest
       \/ /\ toGuest # <<>> /\ toGuest' = [toGuest EXCEPT ![Len(toGuest)] = <<"noise", 0>>]
          /\ UNCHANGED toHost
    /\ UNCHANGED <<gvars, fs, boot>>
==============================================================================
