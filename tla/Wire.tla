-------------------------------- MODULE Wire --------------------------------
(***************************************************************************)
(* The versioned frames of libs/protocol/src/auth.rs and the length-       *)
(* prefixed framing of libs/com/src/framing.rs that carries them: boot     *)
(* configuration, READY, bootstrap result and the three frames of command- *)
(* connection authentication.                                              *)
(*                                                                         *)
(* Abstractions.  A frame is a sequence of units; an integer, an address,  *)
(* an identifier, a key or a nonce is one unit whatever its width, and a   *)
(* string is one unit a character.  HMAC-SHA-256 is an ideal function: its *)
(* value is the sequence of its inputs, and as a MAC is the last field of  *)
(* every frame that has one, it is what is left of the frame.  An optional *)
(* value, and the result of an operation that may fail, is a set of at     *)
(* most one element.                                                       *)
(***************************************************************************)
EXTENDS Integers, Sequences, Functions, Folds

CONSTANTS
    MAX_BOOT_CONFIG_FRAME, MAX_AUTH_FRAME, MAX_COMMAND_FRAME,
    MAX_DNS_SERVERS, MAX_DISKS, MAX_MOUNT_PATH_BYTES,
    MAX_BOOTSTRAP_ARGS, MAX_BOOTSTRAP_STRING_BYTES, MAX_BOOTSTRAP_ARTIFACT_BYTES,
    ADDRESS_BITS      \* width of an IPv4 address

ASSUME LimitsAssumption ==
    /\ {MAX_BOOT_CONFIG_FRAME, MAX_AUTH_FRAME, MAX_COMMAND_FRAME} \subseteq Nat
    /\ MAX_BOOT_CONFIG_FRAME <= MAX_COMMAND_FRAME
    /\ MAX_AUTH_FRAME <= MAX_COMMAND_FRAME
    /\ MAX_AUTH_FRAME >= 6        \* a challenge fits

\* op over the elements of a sequence, from the first to the last.
InOrder(op(_, _), base, seq) ==
    MapThenFoldSet(LAMBDA x, y : op(y, x), base, LAMBDA i : seq[i],
                   LAMBDA S : CHOOSE i \in S : \A j \in S : j <= i, DOMAIN seq)
Joined(seqs) == InOrder(LAMBDA x, y : x \o y, <<>>, seqs)

PROTOCOL_VERSION == 1
\* The first unit of a frame.
BOOT_CONFIG_TAG      == 10
READY_TAG            == 11
AUTH_CHALLENGE_TAG   == 12
AUTH_RESPONSE_TAG    == 13
AUTH_ACCEPTED_TAG    == 14
BOOTSTRAP_RESULT_TAG == 15
\* What a MAC is computed for, and the service a response is bound to.
BOOT_DOMAIN             == 20
CHALLENGE_DOMAIN        == 21
RESPONSE_DOMAIN         == 22
COMMAND_AUTH_CONTEXT_V1 == 23
\* The characters that the validations tell apart: a NUL, the path
\* separator, a ".." component, and a byte that is not UTF-8.
NUL    == 0
SLASH  == 1
DOTDOT == 2
BAD    == 3

-----------------------------------------------------------------------------
(* Validation.                                                             *)

Subnet(address, prefix_len) == address \div 2^(ADDRESS_BITS - prefix_len)

validate_network(n) ==
    /\ n.prefix_len \in 1..ADDRESS_BITS
    /\ n.guest_ip # n.gateway
    /\ Subnet(n.guest_ip, n.prefix_len) = Subnet(n.gateway, n.prefix_len)
    /\ Len(n.dns) <= MAX_DNS_SERVERS

AbsolutePath(path, limit) ==
    /\ path # <<>> /\ path[1] = SLASH
    /\ NUL \notin Range(path)
    /\ Len(path) <= limit

validate_disk(d) == AbsolutePath(d.mount_path, MAX_MOUNT_PATH_BYTES)

validate_bootstrap_path(path) ==
    AbsolutePath(path, MAX_BOOTSTRAP_STRING_BYTES) /\ DOTDOT \notin Range(path)

validate_bootstrap(b) ==
    /\ validate_bootstrap_path(b.program)
    /\ validate_bootstrap_path(b.artifact)
    /\ Len(b.args) <= MAX_BOOTSTRAP_ARGS
    /\ \A argument \in Range(b.args) :
          NUL \notin Range(argument) /\ Len(argument) <= MAX_BOOTSTRAP_STRING_BYTES

validate(c) ==
    /\ c.version = PROTOCOL_VERSION
    /\ \A n \in c.network : validate_network(n)
    /\ Len(c.disks) <= MAX_DISKS
    /\ \A i \in DOMAIN c.disks :
          /\ validate_disk(c.disks[i])
          /\ \A j \in 1..(i - 1) :
                /\ c.disks[j].device_index # c.disks[i].device_index
                /\ c.disks[j].mount_path # c.disks[i].mount_path
    /\ \A b \in c.bootstrap : validate_bootstrap(b)

-----------------------------------------------------------------------------
(* Encoding.                                                               *)

\* WireWriter::finish: the bytes, unless there are too many.
finish(bytes, maximum) == IF Len(bytes) <= maximum THEN {bytes} ELSE {}

\* A bug: the length counts a terminator that is not sent.
push_string_terminated(s) == <<Len(s) + 1>> \o s
push_string(s) == <<Len(s)>> \o s

push_network(network) ==
    IF network = {} THEN <<0>>
    ELSE LET n == CHOOSE x \in network : TRUE
         IN <<1, n.guest_ip, n.gateway, n.prefix_len, Len(n.dns)>> \o n.dns

push_disk(d) == <<d.device_index, IF d.initialize THEN 1 ELSE 0>> \o push_string(d.mount_path)

push_bootstrap(bootstrap) ==
    IF bootstrap = {} THEN <<0>>
    ELSE LET b == CHOOSE x \in bootstrap : TRUE
         IN <<1>> \o push_string(b.program) \o <<Len(b.args)>>
              \o Joined([i \in DOMAIN b.args |-> push_string(b.args[i])])
              \o push_string(b.artifact)

\* BootConfigV1::encoded_len, an estimate: the bootstrap's presence flag is
\* not counted when there is one.
encoded_len(c) ==
    5 + Len(push_network(c.network)) + 1
      + InOrder(LAMBDA n, d : n + 3 + Len(d.mount_path), 0, c.disks)
      + (IF c.bootstrap = {} THEN 1 ELSE Len(push_bootstrap(c.bootstrap)) - 1)

Encoded(c) ==
    <<BOOT_CONFIG_TAG, c.version, c.vm_id, c.capability, c.host_nonce>> \o push_network(c.network)
      \o <<Len(c.disks)>> \o Joined([i \in DOMAIN c.disks |-> push_disk(c.disks[i])])
      \o push_bootstrap(c.bootstrap)
to_bytes(c) ==
    IF ~validate(c) \/ encoded_len(c) > MAX_BOOT_CONFIG_FRAME THEN {}
    ELSE finish(Encoded(c), MAX_BOOT_CONFIG_FRAME)

-----------------------------------------------------------------------------
(* Decoding.  A reader has read up to an offset; what it takes there is    *)
(* the value and the offset after it, or nothing.                          *)

Taken(value, at) == {[value |-> value, at |-> at]}

\* WireReader::take_u8 and the other integers.
take_int(f, at) == IF at <= Len(f) THEN Taken(f[at], at + 1) ELSE {}

take(f, at, length) ==
    IF at + length - 1 <= Len(f) THEN Taken(SubSeq(f, at, at + length - 1), at + length) ELSE {}

take_string(f, at, maximum) ==
    UNION {IF n.value > maximum THEN {}
           ELSE {s \in take(f, n.at, n.value) : BAD \notin Range(s.value)} : n \in take_int(f, at)}

\* A counted list of items, each taken by item(f, at).
take_list(f, at, maximum, item(_, _)) ==
    UNION {IF n.value > maximum THEN {}
           ELSE InOrder(LAMBDA read, i : UNION {{[value |-> Append(r.value, x.value), at |-> x.at] :
                                                   x \in item(f, r.at)} : r \in read},
                        Taken(<<>>, n.at), [i \in 1..n.value |-> i]) : n \in take_int(f, at)}

\* An optional value behind a presence flag of 0 or 1.
take_optional(f, at, body(_, _)) ==
    UNION {CASE flag.value = 0 -> Taken({}, flag.at)
             [] flag.value = 1 -> {[value |-> {x.value}, at |-> x.at] : x \in body(f, flag.at)}
             [] OTHER -> {} : flag \in take_int(f, at)}

take_network(f, at) ==
    {r \in UNION {{[value |-> [guest_ip |-> h.value[1], gateway |-> h.value[2],
                               prefix_len |-> h.value[3], dns |-> d.value], at |-> d.at] :
                      d \in take_list(f, h.at, MAX_DNS_SERVERS, take_int)} : h \in take(f, at, 3)} :
        validate_network(r.value)}

take_disk(f, at) ==
    {r \in UNION {{[value |-> [device_index |-> h.value[1], mount_path |-> p.value,
                               initialize |-> h.value[2] = 1], at |-> p.at] :
                      p \in take_string(f, h.at, MAX_MOUNT_PATH_BYTES)} :
                      h \in {x \in take(f, at, 2) : x.value[2] \in {0, 1}}} :
        validate_disk(r.value)}

take_bootstrap(f, at) ==
    LET argument(g, i) == take_string(g, i, MAX_BOOTSTRAP_STRING_BYTES)
    IN {r \in UNION {UNION {{[value |-> [program |-> p.value, args |-> a.value, artifact |-> x.value],
                              at |-> x.at] : x \in argument(f, a.at)} :
                              a \in take_list(f, p.at, MAX_BOOTSTRAP_ARGS, argument)} :
                              p \in argument(f, at)} : validate_bootstrap(r.value)}

\* BootConfigV1::try_from: the whole frame, no unit more.
try_from(f) ==
    IF \/ Len(f) > MAX_BOOT_CONFIG_FRAME \/ Len(f) < 5
       \/ f[1] # BOOT_CONFIG_TAG \/ f[2] # PROTOCOL_VERSION THEN {}
    ELSE {c \in UNION {UNION {{[version |-> PROTOCOL_VERSION, vm_id |-> f[3], capability |-> f[4],
                               host_nonce |-> f[5], network |-> n.value, disks |-> d.value,
                               bootstrap |-> b.value] :
                    b \in {x \in take_optional(f, d.at, take_bootstrap) : x.at = Len(f) + 1}} :
                    d \in take_list(f, n.at, MAX_DISKS, take_disk)} :
                    n \in take_optional(f, 6, take_network)} : validate(c)}

-----------------------------------------------------------------------------
(* Keyed digests, READY and the authentication frames.                     *)

hmac_sha256(key, parts) == <<key>> \o parts
derive_auth_challenge(capability, vm_id, connection_counter) ==
    hmac_sha256(capability, <<CHALLENGE_DOMAIN, vm_id, connection_counter>>)
compute_auth_mac(capability, vm_id, service_id, challenge) ==
    hmac_sha256(capability, <<RESPONSE_DOMAIN, PROTOCOL_VERSION, vm_id, service_id>> \o challenge)
compute_ready_mac(capability, boot_frame) == hmac_sha256(capability, <<BOOT_DOMAIN>> \o boot_frame)

\* A tag, the version and the frame's fields; and what of them is read back.
Tagged(tag, fields) == finish(<<tag, PROTOCOL_VERSION>> \o fields, MAX_AUTH_FRAME)
Untagged(tag, f) ==
    IF \/ Len(f) > MAX_AUTH_FRAME \/ Len(f) < 2 \/ f[1] # tag \/ f[2] # PROTOCOL_VERSION THEN {}
    ELSE {SubSeq(f, 3, Len(f))}

\* ReadyV1.
for_boot(capability, boot_frame) ==
    {[vm_id |-> boot.vm_id, host_nonce |-> boot.host_nonce,
      mac |-> compute_ready_mac(capability, boot_frame)] : boot \in try_from(boot_frame)}
ready_to_bytes(r) == Tagged(READY_TAG, <<r.vm_id, r.host_nonce>> \o r.mac)
ready_try_from(f) ==
    {[vm_id |-> x[1], host_nonce |-> x[2], mac |-> SubSeq(x, 3, Len(x))] :
        x \in {x \in Untagged(READY_TAG, f) : Len(x) > 2}}
\* A bug: the nonce alone is taken as the proof.
verify_nonce_only(r, capability, boot_frame) ==
    \E boot \in try_from(boot_frame) : r.vm_id = boot.vm_id /\ r.host_nonce = boot.host_nonce
verify(r, capability, boot_frame) ==
    /\ \E boot \in try_from(boot_frame) : r.vm_id = boot.vm_id /\ r.host_nonce = boot.host_nonce
    /\ r.mac = compute_ready_mac(capability, boot_frame)

\* AuthChallengeV1, AuthResponseV1 and AuthAcceptedV1.
challenge_to_bytes(challenge)   == Tagged(AUTH_CHALLENGE_TAG, challenge)
challenge_try_from(f)           == Untagged(AUTH_CHALLENGE_TAG, f)
for_challenge(capability, vm_id, challenge) ==
    compute_auth_mac(capability, vm_id, COMMAND_AUTH_CONTEXT_V1, challenge)
response_to_bytes(mac)          == Tagged(AUTH_RESPONSE_TAG, mac)
response_try_from(f)            == Untagged(AUTH_RESPONSE_TAG, f)
accepted_to_bytes               == Tagged(AUTH_ACCEPTED_TAG, <<>>)
accepted_try_from(f)            == {x \in Untagged(AUTH_ACCEPTED_TAG, f) : x = <<>>}

-----------------------------------------------------------------------------
(* The bootstrap result.  An exit code is a set: a signalled command has   *)
(* none.                                                                   *)

SUCCESS == 0
COMMAND_FAILED == 1
ARTIFACT_UNAVAILABLE == 2
NO_EXIT_CODE == 99      \* u32::MAX on the wire
NO_DIGEST == 0

success(artifact_len, digest) ==
    [status |-> SUCCESS, exit_code |-> {0}, artifact_len |-> artifact_len, artifact_digest |-> digest]
command_failed(exit_code) ==
    [status |-> COMMAND_FAILED, exit_code |-> exit_code, artifact_len |-> 0,
     artifact_digest |-> NO_DIGEST]
artifact_unavailable ==
    [status |-> ARTIFACT_UNAVAILABLE, exit_code |-> {0}, artifact_len |-> 0,
     artifact_digest |-> NO_DIGEST]

validate_result(r) ==
    \/ /\ r.status = SUCCESS
       /\ r.artifact_len \in 1..MAX_BOOTSTRAP_ARTIFACT_BYTES /\ r.exit_code = {0}
    \/ /\ r.status \in {COMMAND_FAILED, ARTIFACT_UNAVAILABLE}
       /\ r.artifact_len = 0 /\ r.artifact_digest = NO_DIGEST

result_to_bytes(r) ==
    IF ~validate_result(r) THEN {}
    ELSE Tagged(BOOTSTRAP_RESULT_TAG,
                <<r.status, IF r.exit_code = {} THEN NO_EXIT_CODE ELSE CHOOSE x \in r.exit_code : TRUE,
                  r.artifact_len, r.artifact_digest>>)

result_try_from(f) ==
    {r \in {[status |-> x[1], exit_code |-> {x[2]} \ {NO_EXIT_CODE}, artifact_len |-> x[3],
             artifact_digest |-> x[4]] : x \in {x \in Untagged(BOOTSTRAP_RESULT_TAG, f) : Len(x) = 4}} :
        validate_result(r)}

-----------------------------------------------------------------------------
(* Framing: a length and that many units.                                  *)

checked_frame_len(length, maximum) ==
    IF maximum <= MAX_COMMAND_FRAME /\ length <= maximum THEN {length} ELSE {}

write_frame_limited(data, maximum) == {<<len>> \o data : len \in checked_frame_len(Len(data), maximum)}

\* What has arrived is one of: not yet a frame (more may come), a frame, or
\* a declared length over the limit.
Incomplete(stream) == IF stream = <<>> THEN TRUE ELSE Len(stream) < 1 + stream[1]
read_frame_with_limit(stream, maximum) ==
    {SubSeq(stream, 2, 1 + len) : len \in checked_frame_len(stream[1], maximum)}
=============================================================================
