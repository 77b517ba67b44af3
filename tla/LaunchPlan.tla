----------------------------- MODULE LaunchPlan -----------------------------
(***************************************************************************)
(* From what a caller asks of VmBuilder to the BootConfigV1 the guest is   *)
(* sent: the checks of libs/vm-model (Nat::try_new, GuestMount::new,       *)
(* DiskSpec::new) and libs/jyth/src/builder/mod.rs (validate_disks), and   *)
(* the translation in libs/jyth-runtime/src/launch.rs, whose result has to *)
(* pass the checks of libs/protocol again (Wire).                          *)
(*                                                                         *)
(* A plan is [vm_id, capability, host_nonce, nat, disks, bootstrap]; nat   *)
(* and bootstrap are sets of at most one element.  A host path is a        *)
(* sequence of components, a mount path a sequence of characters.          *)
(***************************************************************************)
EXTENDS Wire

CONSTANTS
    NAT_DNS_SERVERS,   \* vm_model::network::MAX_DNS_SERVERS, 8 where the protocol allows 16
    Roots,             \* host path components that are a root
    Vhdx,              \* host path components with the extension .vhdx
    Directories        \* the directories of the host

ASSUME NatDnsAssumption == NAT_DNS_SERVERS \in Nat /\ NAT_DNS_SERVERS <= MAX_DNS_SERVERS

\* More units that the checks tell apart: a "." component, a character no
\* mount path may have, and the components of the reserved paths.
DOT   == 4
SPACE == 5
PROC  == 6
JYTH  == 7

-----------------------------------------------------------------------------
(* The network.                                                            *)

network(n)   == Subnet(n.subnet, n.prefix_len) * 2^(ADDRESS_BITS - n.prefix_len)
broadcast(n) == network(n) + 2^(ADDRESS_BITS - n.prefix_len) - 1

validate_endpoint(n, address) ==
    /\ n.prefix_len <= ADDRESS_BITS - 2
    /\ Subnet(address, n.prefix_len) = Subnet(n.subnet, n.prefix_len)
    /\ address \notin {network(n), broadcast(n)}

\* Nat::try_new.  A DNS server is [v4, address].
try_new(n) ==
    /\ Len(n.dns) <= NAT_DNS_SERVERS
    /\ validate_endpoint(n, n.gateway) /\ validate_endpoint(n, n.guest_ip)
    /\ n.gateway # n.guest_ip

-----------------------------------------------------------------------------
(* The disks.                                                              *)

RESERVED_GUEST_MOUNT_PATHS == {<<SLASH>>, <<SLASH, PROC>>, <<SLASH, JYTH>>}

\* GuestMount::new.
GuestMount(path) ==
    /\ path # <<>> /\ path[1] = SLASH
    /\ path \notin RESERVED_GUEST_MOUNT_PATHS /\ ~(Len(path) > 2 /\ SubSeq(path, 1, 3) = <<SLASH, JYTH, SLASH>>)
    /\ \A i \in DOMAIN path : path[i] = SLASH => i < Len(path) /\ path[i + 1] # SLASH
    /\ Range(path) \cap {DOT, DOTDOT, NUL, SPACE} = {}

Parent(path) == SubSeq(path, 1, Len(path) - 1)
\* A ".." never climbs over the root.
normalize_lexically(path) ==
    IF path = <<>> THEN {}
    ELSE IF path[1] \notin Roots THEN {}
    ELSE InOrder(LAMBDA done, c :
                   CASE c = "."  -> done
                     [] c = ".." -> {Parent(p) : p \in {p \in done : Len(p) > 1}}
                     [] OTHER    -> {Append(p, c) : p \in done},
                 {<<>>}, path)

\* DiskSpec::new.  A disk is [host_path, size, mount, created].
DiskSpec(d) ==
    /\ GuestMount(d.mount)
    /\ normalize_lexically(d.host_path) # {} /\ d.host_path[Len(d.host_path)] \in Vhdx
    /\ d.size > 0

validate_disks(disks) ==
    \A i \in DOMAIN disks :
        /\ \A p \in normalize_lexically(disks[i].host_path) : Parent(p) \in Directories
        /\ \A j \in 1..(i - 1) :
              /\ normalize_lexically(disks[j].host_path) # normalize_lexically(disks[i].host_path)
              /\ disks[j].mount # disks[i].mount

\* What the caller's values and the builder have been checked for when the
\* launch begins to build anything.
prepare_launch(plan) ==
    /\ \A n \in plan.nat : try_new(n)
    /\ \A i \in DOMAIN plan.disks : DiskSpec(plan.disks[i])
    /\ validate_disks(plan.disks)

-----------------------------------------------------------------------------
(* The boot configuration.                                                 *)

guest_network_config(n) ==
    {c \in {[guest_ip |-> n.guest_ip, gateway |-> n.gateway, prefix_len |-> n.prefix_len,
             dns |-> [i \in DOMAIN n.dns |-> n.dns[i].address]]} :
        validate_network(c) /\ \A i \in DOMAIN n.dns : n.dns[i].v4}

\* A disk has the place it was asked for at; the guest may initialize one
\* that this launch created.
Draft(plan) ==
    [version |-> PROTOCOL_VERSION, vm_id |-> plan.vm_id, capability |-> plan.capability,
     host_nonce |-> plan.host_nonce, network |-> UNION {guest_network_config(n) : n \in plan.nat},
     disks |-> [i \in DOMAIN plan.disks |->
                  [device_index |-> i - 1, mount_path |-> plan.disks[i].mount,
                   initialize |-> plan.disks[i].created]],
     bootstrap |-> plan.bootstrap]

\* BootstrapSpec::protocol_config, then build_boot_config with the started
\* instance.
protocol_config(plan) == \A b \in plan.bootstrap : validate_bootstrap(b)
build_boot_config(plan) ==
    {c \in {Draft(plan)} :
        /\ \A n \in plan.nat : guest_network_config(n) # {}
        /\ \A i \in DOMAIN c.disks : validate_disk(c.disks[i])
        /\ validate(c)}
=============================================================================
