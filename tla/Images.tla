------------------------------ MODULE Images ------------------------------
(***************************************************************************)
(* The image pipeline as one system: builders in several processes that    *)
(* materialize kernels, root filesystems and boot artifacts into one cache *)
(* while tasks fail, are cancelled and crash and files are lost.           *)
(***************************************************************************)
EXTENDS BootImage

CONSTANTS Requested, Compiler   \* one of the custom requests, and its compiler

ASSUME RequestedAssumption == custom(Requested) # {}

\* What a constructor refuses is never asked of materialize_image.
Accepted(asked) ==
    LET kernels == SelectSeq(asked, LAMBDA job : lower(job) # {})
    IN  [i \in DOMAIN kernels |-> CHOOSE job \in lower(kernels[i]) : TRUE]

Init ==
    /\ index = <<>> /\ file = <<>> /\ blueprints = <<>>
    /\ bd = [b \in Builder |-> Idle]
    /\ stray = {}
    /\ inproc = <<>> /\ xproc = <<>>
    /\ \E sc \in Scenarios : registry = sc.registry /\ jobs = [b \in Builder |-> Accepted(sc.jobs[b])] /\ mishaps = sc.spent
    /\ derived = <<>>
    /\ residue = {}

Disturbed == MaxMishaps + 1

\* materialize_image: the kernel comes first, then the root filesystem.
materialize_image(b) ==
    LET job   == jobs[b][bd[b].n + 1]
        quiet == stray = {} /\ \A x \in Builder : ~Active(x)
        fresh == [Idle EXCEPT !.n = bd[b].n + 1,
                              !.stage = IF job.kernel = "" THEN "rootfs" ELSE "kernel",
                              !.kd = IF job.kernel # "custom" THEN @
                                     ELSE custom_request_digest(CHOOSE s \in job.custom : TRUE, job.compiler),
                              !.pc = CASE job.kernel = "custom" -> "c_cached"
                                       [] job.kernel = "" -> "r_resolve"
                                       [] OTHER -> "k_resolve",
                              !.since = IF quiet THEN mishaps ELSE Disturbed]
    IN  /\ ~Active(b)
        /\ bd[b].n < Len(jobs[b])
        /\ bd' = [x \in Builder |-> IF x = b THEN fresh ELSE [bd[x] EXCEPT !.since = Disturbed]]
        /\ UNCHANGED <<cache, stray, locks, given, derived, residue, mishaps>>

\* The kernel builder copies what the returned path holds now next to its
\* output, and replaces the output by the copy.
Output(b) == <<"output", b>>
copy(b) ==
    /\ At(b, "done") /\ Job(b).output
    /\ IF KernelSlot(b) \in DOMAIN file
       THEN Step(b, [Goto(b, "o_replace") EXCEPT !.art = file[KernelSlot(b)]]) /\ UNCHANGED <<cache, mishaps>>
       ELSE Refuse(b)
replace_output_atomically(b) ==
    /\ At(b, "o_replace")
    /\ derived' = With(derived, Output(b), bd[b].art)
    /\ End(b, "ok")
    /\ UNCHANGED <<cache, stray, given, mishaps>>

Finish(b) ==
    /\ At(b, "done") /\ ~Job(b).output
    /\ End(b, "ok")
    /\ UNCHANGED <<cache, stray, given, derived, mishaps>>

Publication(b) == publish_with(b) \/ upsert(b) \/ update(b) \/ publish_transformed(b) \/ check_type(b)
LayerStep(b) ==
    \/ get_or_build_blueprint(b) \/ blueprint(b) \/ materialize_layers(b) \/ load(b)
    \/ decompress(b) \/ into_cpio(b) \/ push_layer(b) \/ flatten_layers(b)
KernelStep(b) ==
    \/ build_external(b) \/ cached_kernel(b) \/ cached_rootfs(b) \/ kernel_hit(b)
    \/ raw_kernel(b) \/ raw_kernel_normal(b) \/ cached_modules(b)
    \/ extract_modules_if_needed(b) \/ extract_kernel_result(b) \/ extract_kernel(b) \/ kernel_done(b)
CustomStep(b) ==
    \/ custom_cached(b) \/ acquire_in_process(b) \/ acquire_cross_process(b) \/ custom_recheck(b)
    \/ BuildDiskLease(b) \/ compile_inner(b) \/ custom_done(b)
RootfsStep(b) ==
    \/ build_rootfs(b) \/ build_rootfs_inner(b) \/ raw_rootfs_normal(b) \/ validate_cpio(b)
    \/ rootfs_done(b) \/ merge_modules(b)
BootStep(b) ==
    \/ prepare_inner(b) \/ artifact_matches(b) \/ atomic_write(b) \/ run_cache_id(b)
    \/ atomic_copy(b) \/ atomic_gzip(b) \/ publish_run_metadata(b)

Work(b) ==
    \/ Publication(b) \/ LayerStep(b) \/ KernelStep(b) \/ CustomStep(b) \/ RootfsStep(b)
    \/ BootStep(b) \/ copy(b) \/ replace_output_atomically(b) \/ Finish(b)

Disturbance ==
    \/ \E b \in Builder : OpFails(b) \/ bounded_join(b) \/ publish_temp(b)
    \/ \E p \in {Process[b] : b \in Builder} : Crash(p)
    \/ \E s \in DOMAIN file : FileLost(s)
    \/ StrayEnds

AllDone ==
    /\ \A b \in Builder : ~Active(b) /\ bd[b].n = Len(jobs[b])
    /\ UNCHANGED vars

Next ==
    \/ \E b \in Builder : materialize_image(b) \/ Work(b)
    \/ Disturbance
    \/ AllDone

\* Every task runs on an executor that polls it until it ends, and a waiter
\* for a lock polls it with a back-off: weak fairness of Work(b), which is
\* enabled while the task is active and not waiting for a lock.
CanWork(b) ==
    /\ Active(b)
    /\ At(b, "c_proc") => InProcess(b) \notin DOMAIN inproc
    /\ At(b, "c_file") => bd[b].kd \notin DOMAIN xproc

\* A step that moves the builder stands for one of Work(b): the others that do
\* are asks and disturbances, which are bounded.
Fairness == \A b \in Builder : []<>~CanWork(b) \/ []<><<bd'[b] # bd[b]>>_vars

Spec == Init /\ [][Next]_vars /\ Fairness

----------------------------------------------------------------------------
(* Properties *)

\* The layers of the image a source digest is for.
ImageDigest(d) ==
    LET m == Documents[Last(d)]
    IN  IF m.layers # <<>> THEN {Last(d)} ELSE select_platform(m.manifests)
ImageLayers(d) ==
    LET m == Documents[CHOOSE x \in ImageDigest(d) : TRUE]
    IN  [i \in DOMAIN m.layers |-> m.layers[i].digest]
Pinned(source, d) == "@" \in Range(References[source]) => Last(d) = Last(References[source])

\* What a job's kernel, modules and root filesystem have to be.
RightKernel(b, k) ==
    IF Job(b).kernel = "custom"
    THEN is_bz(k) /\ k[2] = "custom" /\ k[3] = Compiled(CustomSpec(b), Job(b).compiler)
    ELSE CASE is_image(Job(b).kernel) -> /\ k = <<"bz">> \o ImageLayers(bd[b].kd) \o <<"at">> \o path(b)
                                         /\ Pinned(Job(b).kernel, bd[b].kd)
           [] Job(b).kernel = "" -> k = None
           [] OTHER -> k \in {<<"bz", Job(b).kernel>>, <<"bz", Job(b).kernel, "at">> \o path(b)}

RightModules(b, m) ==
    m # None =>
        m = IF is_image(Job(b).kernel) THEN <<"mods", "flat">> \o ImageLayers(bd[b].kd)
            ELSE <<"mods", "cpio", Job(b).kernel>>

RightRootfs(b, r) ==
    CASE is_image(Job(b).rootfs) -> /\ r = <<"flat">> \o ImageLayers(bd[b].rd)
                                    /\ Pinned(Job(b).rootfs, bd[b].rd)
      [] Job(b).rootfs = "" -> TRUE
      [] OTHER -> r = <<"cpio", Job(b).rootfs>>

Succeeded(b) == bd[b].pc = "ok"

\* Whatever other builders did meanwhile, an answer of materialize is made of
\* the source it was asked for: of that image's layers, that raw file, that
\* entry path, compiled from that source with that configuration (service.rs of
\* kernel and rootfs publish and read shared slots).
AnswersRight ==
    \A b \in Builder : Succeeded(b) =>
        /\ RightKernel(b, bd[b].kernel)
        /\ RightModules(b, bd[b].modules)
        /\ RightRootfs(b, bd[b].rootfs)

\* A job of the instance that can be built at all: its registry serves it, to
\* a client that can read its challenge, and names a kernel that is there.
Served(source, d) ==
    /\ registry.auth = "token" =>
          BearerChallenge(registry.challenge) # {} /\ registry.token.status = 200
    /\ registry.auth # "refuses" /\ registry.damage = "none" /\ registry.header # "blake3"
    /\ d # <<>> => /\ classify_media_type(Documents[Last(d)].media) # "unsupported"
                   /\ \E x \in ImageDigest(d) : layer_digests(Documents[x]) # {}
    /\ \E ref \in parse(References[source]) : ref.tag \subseteq {"latest"}
BuildableKernel(b) ==
    IF is_image(Job(b).kernel)
    THEN /\ Served(Job(b).kernel, bd[b].kd)
         /\ bd[b].kd # <<>> =>
              validate_bzimage_signature(walk_cpio(path(b), Flattened[ImageLayers(bd[b].kd)]))
    ELSE \/ Job(b).kernel \in {"", "custom"} \cup {s \in DOMAIN Sources : Sources[s][1] = "bz"}
         \/ validate_bzimage_signature(walk_cpio(path(b), Cpio[Job(b).kernel]))
Buildable(b) ==
    /\ BuildableKernel(b)
    /\ IF is_image(Job(b).rootfs) THEN Served(Job(b).rootfs, bd[b].rd)
       ELSE Job(b).rootfs = "" \/ ~convert_fails(Tars[Job(b).rootfs])

\* A job that nothing disturbs succeeds, whatever the crashes, cancellations,
\* races and losses before it left in the cache, and then the paths it returns
\* hold what it returned and the index says so (stale records are dropped on
\* read, half-published files overwritten), and so do the boot files and the
\* kernel builder's output.
LoneBuildRight ==
    \A b \in Builder : (~Active(b) /\ bd[b].since = mishaps /\ stray = {} /\ Buildable(b)) =>
        /\ Succeeded(b)
        /\ bd[b].kernel # None =>
              /\ DigestMatches(KernelSlot(b), bd[b].kernel)
              /\ KernelSlot(b) \in DOMAIN index /\ index[KernelSlot(b)] = bd[b].kernel
        /\ Job(b).output => derived[Output(b)] = bd[b].kernel
        /\ Job(b).boot =>
              /\ derived[RunFile("kernel.bin", bd[b].out)] = bd[b].kernel
              /\ derived[RunFile("initrd.img", bd[b].out)] = <<"boot">> \o bd[b].base

\* The root filesystem of an image is the overlay of its layers, and the one
\* with modules the overlay of the modules over it.
FlattensRight ==
    [m \in Manifests |->
        LET n == Len(m)
        IN  IsOverlay(flatten(Layers(SubSeq(m, 1, n - 1))), Cpio[m[n]], Flattened[m])]

MergesRight ==
    [c \in RootfsForms |->
        LET mods == extract_modules_cpio(RootfsEntries(c))
        IN  IsOverlay(RootfsEntries(c), mods, flatten(<<RootfsEntries(c), mods>>))]

RootfsIsOverlay ==
    \A b \in Builder : Succeeded(b) =>
        /\ (bd[b].rootfs # None /\ bd[b].rootfs[1] = "flat") => FlattensRight[Tail(bd[b].rootfs)]
        /\ (bd[b].base # None /\ bd[b].base[1] = "merged") =>
              bd[b].modules[1] = "mods" /\ MergesRight[bd[b].rootfs]

\* flatten.rs:9: "Cross-layer hard-link groups are unlinked before substitutions
\* are applied and the surviving groups are rebuilt so the published archive
\* carries a single copy of each shared body": a file no layer hides keeps its
\* bytes.
KeptBytes ==
    [m \in Manifests |->
        LET n == Len(m)
        IN  KeepsBytes(flatten(Layers(SubSeq(m, 1, n - 1))), Cpio[m[n]], Flattened[m])]

SharedBodySurvives ==
    \A b \in Builder : (Succeeded(b) /\ bd[b].rootfs # None) => KeptBytes[Tail(bd[b].rootfs)]

\* resolver.rs:182: the tag is resolved to an immutable manifest digest "so the
\* source identity never depends on a mutable tag": a reference pinned to a
\* digest gets the root filesystem of that manifest, whatever the tag named when
\* others built.
PinnedMeansPinned ==
    \A b \in Builder : (Succeeded(b) /\ Job(b).rootfs = "pinned") =>
        bd[b].rootfs = <<"flat">> \o ImageLayers(References["pinned"])

\* Custom builds of one request implement the abstract cache: at most one
\* compilation at a time over all processes, and answers that were cached or
\* just compiled, whatever is built for other requests.
CustomRequest == CHOOSE d \in {custom_request_digest(spec, Compiler) : spec \in custom(Requested)} : TRUE
CustomSlot == Slot("kernel", CustomRequest)
Custom(b) == bd[b].n > 0 /\ Job(b).kernel = "custom" /\ bd[b].kd = CustomRequest
Compiling == {b \in Builder : /\ Custom(b)
                              /\ bd[b].pc \in {"c_lease", "c_compile", "c_done"}}
Published == {b \in Compiling : At(b, "c_done")}

\* The kernels of the request: a builder compiles one per job.
OfRequest == {spec \in custom(Requested) : custom_request_digest(spec, Compiler) = CustomRequest}
CustomKernel == {"bz"} \X {"custom"} \X {Compiled(spec, Compiler) : spec \in OfRequest} \X Nat \X Builder

InCache == IF CustomSlot \in DOMAIN index /\ stored_file_validity(CustomSlot) THEN index[CustomSlot] ELSE None
TheCompiler == IF Compiling = {} THEN Nobody ELSE CHOOSE b \in Compiling : TRUE
Made == IF Published = {} THEN None ELSE bd[CHOOSE b \in Published : TRUE].art
Given == [b \in Builder |-> IF Custom(b) THEN bd[b].kernel ELSE None]

SingleFlight == INSTANCE KernelCache WITH
    User <- Builder, Kernel <- CustomKernel, NoKernel <- None,
    cached <- InCache, compiler <- TheCompiler, made <- Made, answer <- Given

CustomBuildsImplementCache == SingleFlight!Spec

\* Every job ends: no task waits for ever for a build lock or for another.
BuildsEnd == \A b \in Builder : Active(b) ~> ~Active(b)
=============================================================================
