--------------------------- MODULE KernelService ---------------------------
(***************************************************************************)
(* The materialization of a kernel (crates kernel and jyth): out of an     *)
(* image, out of a raw file or archive, or compiled to a specification in  *)
(* a bootstrap VM under a build lock.                                      *)
(***************************************************************************)
EXTENDS Materialize

Keep(c, test(_)) == IF c # None /\ test(c) THEN c ELSE None

\* The kernel stage is over; a root filesystem is next if the job has one.
KernelDone(b, kernel, modules) ==
    [Goto(b, IF Job(b).rootfs = "" THEN "done" ELSE "r_resolve") EXCEPT
        !.kernel = kernel, !.modules = modules,
        !.stage = IF Job(b).rootfs = "" THEN @ ELSE "rootfs"]

----------------------------------------------------------------------------
(* External kernels *)

build_external(b) ==
    /\ At(b, "k_resolve")
    /\ IF resolve(Job(b).kernel) = {} THEN Refuse(b)
       ELSE /\ \E d \in resolve(Job(b).kernel) :
                  Step(b, [Goto(b, IF is_image(Job(b).kernel) THEN "k_cached" ELSE "k_raw") EXCEPT
                             !.kd = d])
            /\ UNCHANGED <<cache, mishaps>>

\* An image: the cached kernel, then the cached root filesystem.
cached_kernel(b) ==
    /\ At(b, "k_cached")
    /\ \E c \in Answers(KernelSlot(b)) :
          /\ read_file_ref(KernelSlot(b), c)
          /\ Step(b, [Goto(b, "k_rootfs") EXCEPT !.kernel = Keep(c, is_bz)])
    /\ UNCHANGED <<file, blueprints>>

cached_rootfs(b) ==
    /\ At(b, "k_rootfs")
    /\ \E c \in Answers(RootfsSlot(b)) :
          /\ read_file_ref(RootfsSlot(b), c)
          /\ LET rootfs == Keep(c, is_cpio)
             IN  Step(b, [Goto(b, IF bd[b].kernel # None THEN "k_hit"
                                  ELSE IF rootfs # None THEN "k_modules" ELSE "blueprint") EXCEPT
                            !.rootfs = rootfs])
    /\ UNCHANGED <<file, blueprints>>

\* With a cached kernel the modules are extracted only from a cached root
\* filesystem; without one the answer has no modules.
kernel_hit(b) ==
    /\ At(b, "k_hit")
    /\ \E c \in Answers(ModulesSlot(b)) :
          /\ read_file_ref(ModulesSlot(b), c)
          /\ Step(b, IF is_cpio(c) \/ bd[b].rootfs = None
                     THEN KernelDone(b, bd[b].kernel, Keep(c, is_cpio))
                     ELSE Goto(b, "k_extract_modules"))
    /\ UNCHANGED <<file, blueprints>>

\* A raw source: what the slot holds, else the source, is normalised.
raw_kernel(b) ==
    /\ At(b, "k_raw")
    /\ \E c \in Answers(KernelSlot(b)) :
          /\ read_file_ref(KernelSlot(b), c)
          /\ Step(b, [Goto(b, IF c = None THEN "load" ELSE "normalize") EXCEPT
                        !.art = c, !.slot = KernelSlot(b)])
    /\ UNCHANGED <<file, blueprints>>

raw_kernel_normal(b) ==
    /\ At(b, "normalize")
    /\ ~compressed(bd[b].art) /\ ~is_tar(bd[b].art)
    /\ bd[b].todo = <<>> /\ bd[b].stage = "kernel"
    /\ IF is_bz(bd[b].art)
       THEN /\ \E c \in Answers(ModulesSlot(b)) :
                  /\ read_file_ref(ModulesSlot(b), c)
                  /\ Step(b, KernelDone(b, bd[b].art, Keep(c, is_cpio)))
            /\ UNCHANGED <<file, blueprints>>
       ELSE IF path(b) = <<>> \/ ~is_cpio(bd[b].art) THEN Refuse(b)
       ELSE /\ Step(b, [Goto(b, "k_modules") EXCEPT !.rootfs = bd[b].art])
            /\ UNCHANGED <<cache, mishaps>>

\* The archive the kernel and its modules come from: the image's root
\* filesystem, or the raw archive in the kernel's own slot.
ArchiveSlot(b) == IF is_image(Job(b).kernel) THEN RootfsSlot(b) ELSE KernelSlot(b)

\* extract_kernel_result: first the modules, cached or extracted, ...
cached_modules(b) ==
    /\ At(b, "k_modules")
    /\ \E c \in Answers(ModulesSlot(b)) :
          /\ read_file_ref(ModulesSlot(b), c)
          /\ Step(b, IF is_cpio(c) THEN [Goto(b, "k_kernel") EXCEPT !.modules = c]
                     ELSE Goto(b, "k_extract_modules"))
    /\ UNCHANGED <<file, blueprints>>

extract_modules_if_needed(b) ==
    LET finds   == FindsModules[bd[b].rootfs]
        modules == <<"mods">> \o bd[b].rootfs
        after   == IF bd[b].kernel # None THEN "k_done" ELSE "k_kernel"
    IN  /\ At(b, "k_extract_modules")
        /\ IF ~DigestMatches(ArchiveSlot(b), bd[b].rootfs) THEN Refuse(b)
           ELSE /\ Step(b, IF finds THEN [Stage(Goto(b, after), ModulesSlot(b), modules,
                                                <<"place", "publish">>) EXCEPT !.modules = modules]
                           ELSE Goto(b, after))
                /\ UNCHANGED <<cache, mishaps>>

\* ... then the kernel.
extract_kernel_result(b) ==
    /\ At(b, "k_kernel")
    /\ \E c \in Answers(KernelSlot(b)) :
          /\ read_file_ref(KernelSlot(b), c)
          /\ Step(b, IF is_bz(c) THEN [Goto(b, "k_done") EXCEPT !.kernel = c]
                     ELSE Goto(b, "k_extract"))
    /\ UNCHANGED <<file, blueprints>>

\* The kernel found at the entry path takes the slot, over a raw archive.
extract_kernel(b) ==
    LET requested == validate_request_path(path(b))
        kernel    == <<"bz">> \o Tail(bd[b].rootfs) \o <<"at">> \o path(b)
    IN  /\ At(b, "k_extract")
        /\ IF /\ requested # Err
              /\ DigestMatches(ArchiveSlot(b), bd[b].rootfs)
              /\ validate_bzimage_signature(walk_cpio(requested, RootfsEntries(bd[b].rootfs)))
           THEN /\ Step(b, [Stage(Goto(b, "k_done"), KernelSlot(b), kernel,
                                  <<"place", "transform">>) EXCEPT !.kernel = kernel])
                /\ UNCHANGED <<cache, mishaps>>
           ELSE Refuse(b)

kernel_done(b) ==
    /\ At(b, "k_done")
    /\ Step(b, KernelDone(b, bd[b].kernel, bd[b].modules))
    /\ UNCHANGED <<cache, mishaps>>

----------------------------------------------------------------------------
(* Custom kernels *)

\* The build lock is one per request digest, and bd[b].kd that digest.
CustomSpec(b) == CHOOSE spec \in Job(b).custom : TRUE
InProcess(b) == <<Process[b], bd[b].kd>>

custom_cached(b) ==
    /\ At(b, "c_cached")
    /\ \E c \in Answers(KernelSlot(b)) :
          /\ read_file_ref(KernelSlot(b), c)
          /\ Step(b, IF is_bz(c) THEN KernelDone(b, c, None) ELSE Goto(b, "c_proc"))
    /\ UNCHANGED <<file, blueprints>>

acquire_in_process(b) ==
    /\ At(b, "c_proc")
    /\ InProcess(b) \notin DOMAIN inproc
    /\ inproc' = With(inproc, InProcess(b), b)
    /\ Put(b, Goto(b, "c_file"))
    /\ UNCHANGED <<cache, stray, xproc, given, derived, residue, mishaps>>

\* (Mutant: the lock file is opened, not locked.)
acquire_cross_process_unlocked(b) ==
    /\ At(b, "c_file")
    /\ xproc' = With(xproc, bd[b].kd, b)
    /\ Put(b, Goto(b, "c_recheck"))
    /\ UNCHANGED <<cache, stray, inproc, given, derived, residue, mishaps>>

acquire_cross_process(b) ==
    /\ At(b, "c_file")
    /\ bd[b].kd \notin DOMAIN xproc
    /\ xproc' = With(xproc, bd[b].kd, b)
    /\ Put(b, Goto(b, "c_recheck"))
    /\ UNCHANGED <<cache, stray, inproc, given, derived, residue, mishaps>>

\* A kernel compiled while the task waited is the answer; the locks go.
custom_recheck(b) ==
    /\ At(b, "c_recheck")
    /\ \E c \in Answers(KernelSlot(b)) :
          /\ read_file_ref(KernelSlot(b), c)
          /\ IF is_bz(c) THEN Put(b, KernelDone(b, c, None)) /\ Unlock(b)
             ELSE Put(b, Goto(b, "c_lease")) /\ UNCHANGED locks
    /\ UNCHANGED <<file, blueprints, stray, given, derived, residue>>

\* The build disk's path is new; the VM writes the disk while it runs.
BuildDiskLease(b) ==
    /\ At(b, "c_lease")
    /\ Put(b, Goto(b, "c_compile"))
    /\ residue' = residue \cup {<<b, bd[b].n, "disk">>}
    /\ UNCHANGED <<cache, stray, locks, given, derived, mishaps>>

\* The VM ends and has removed its ephemeral disk, or it has not and finish
\* does; the transferred kernel is staged.
compile_inner(b) ==
    /\ At(b, "c_compile")
    /\ \/ /\ residue' = (residue \ Residue(b)) \cup {<<b, bd[b].n, "staging">>}
          /\ Put(b, Stage(Goto(b, "c_done"), KernelSlot(b),
                          <<"bz", "custom", Compiled(CustomSpec(b), Job(b).compiler), bd[b].n, b>>,
                          <<"place", "check", "publish">>))
          /\ UNCHANGED <<locks, mishaps>>
       \/ /\ Mishap                                     \* what came out is no kernel
          /\ residue' = (residue \ Residue(b)) \cup {<<b, bd[b].n, "staging">>}
          /\ Put(b, Stage(Goto(b, "c_done"), KernelSlot(b), <<"text">>,
                          <<"place", "check", "publish">>))
          /\ UNCHANGED locks
       \/ /\ Mishap                                     \* the VM fails, or no kernel came
          /\ End(b, "failed")
       \/ /\ Mishap                                     \* the disk cannot be removed
          /\ residue' = residue \cup Residue(b)
          /\ Put(b, Goto(b, "failed"))
          /\ Unlock(b)
    /\ UNCHANGED <<cache, stray, given, derived>>

\* A loaded output that is no bzImage is refused before its record is written.
check_type(b) ==
    /\ NextOp(b, "check")
    /\ IF is_bz(bd[b].staged)
       THEN Put(b, Rest(b)) /\ UNCHANGED <<locks, residue>>
       ELSE End(b, "failed")
    /\ UNCHANGED <<cache, stray, given, derived, mishaps>>

custom_done(b) ==
    /\ At(b, "c_done")
    /\ Put(b, KernelDone(b, bd[b].art, None))
    /\ Unlock(b)
    /\ residue' = residue \ Residue(b)
    /\ UNCHANGED <<cache, stray, given, derived, mishaps>>
=============================================================================
