----------------------------- MODULE BootImage -----------------------------
(***************************************************************************)
(* The root filesystem (crate rootfs) and the boot artifacts of a VM       *)
(* (crate boot-image and the artifact provider of jyth): the overlay with  *)
(* /init and the run directory, both in the derived cache.                 *)
(***************************************************************************)
EXTENDS KernelService

----------------------------------------------------------------------------
(* The root filesystem *)

build_rootfs(b) ==
    /\ At(b, "r_resolve")
    /\ IF resolve(Job(b).rootfs) = {} THEN Refuse(b)
       ELSE /\ \E d \in resolve(Job(b).rootfs) : Step(b, [Goto(b, "r_cached") EXCEPT !.rd = d])
            /\ UNCHANGED <<cache, mishaps>>

build_rootfs_inner(b) ==
    /\ At(b, "r_cached")
    /\ \E c \in Answers(RootfsSlot(b)) :
          /\ read_file_ref(RootfsSlot(b), c)
          /\ Step(b, [Goto(b, IF is_cpio(c) THEN "r_validate"
                              ELSE IF is_image(Job(b).rootfs) THEN "blueprint" ELSE "load") EXCEPT
                        !.art = c, !.slot = RootfsSlot(b)])
    /\ UNCHANGED <<file, blueprints>>

raw_rootfs_normal(b) ==
    /\ At(b, "normalize")
    /\ ~compressed(bd[b].art) /\ ~is_tar(bd[b].art)
    /\ bd[b].todo = <<>> /\ bd[b].stage = "rootfs"
    /\ IF is_cpio(bd[b].art)
       THEN Step(b, Goto(b, "r_validate_new")) /\ UNCHANGED <<cache, mishaps>>
       ELSE Refuse(b)

\* A cached archive is checked and returned; a new one is checked and its
\* record written once more.
validate_cpio(b) ==
    /\ At(b, "r_validate") \/ At(b, "r_validate_new")
    /\ IF ~DigestMatches(RootfsSlot(b), bd[b].art) THEN Refuse(b)
       ELSE /\ Step(b, Stage([Goto(b, "r_done") EXCEPT !.rootfs = bd[b].art], RootfsSlot(b),
                             bd[b].art, IF bd[b].pc = "r_validate" THEN <<>> ELSE <<"publish">>))
            /\ UNCHANGED <<cache, mishaps>>

\* Materialize.materialize_image: modules are merged when there are any.
rootfs_done(b) ==
    /\ At(b, "r_done")
    /\ Step(b, [Goto(b, IF bd[b].modules # None THEN "r_merge"
                        ELSE IF Job(b).boot THEN "b_base" ELSE "done") EXCEPT
                    !.base = bd[b].rootfs, !.slot = RootfsSlot(b)])
    /\ UNCHANGED <<cache, mishaps>>

MergedSlot(b) == Slot("rootfs", bd[b].rootfs \o bd[b].modules)

merge_modules(b) ==
    LET after  == IF Job(b).boot THEN "b_base" ELSE "done"
        merged == <<"merged">> \o bd[b].rootfs \o bd[b].modules
    IN  \/ /\ At(b, "r_merge")
           /\ \E c \in Answers(MergedSlot(b)) :
                 /\ read_file_ref(MergedSlot(b), c)
                 /\ Step(b, IF is_cpio(c) THEN [Goto(b, after) EXCEPT !.base = c,
                                                                      !.slot = MergedSlot(b)]
                            ELSE Goto(b, "r_flatten"))
           /\ UNCHANGED <<file, blueprints>>
        \/ /\ At(b, "r_flatten")
           /\ IF /\ DigestMatches(RootfsSlot(b), bd[b].rootfs)
                 /\ DigestMatches(ModulesSlot(b), bd[b].modules)
              THEN /\ Step(b, [Stage(Goto(b, after), MergedSlot(b), merged,
                                     <<"place", "publish">>) EXCEPT !.base = merged])
                   /\ UNCHANGED <<cache, mishaps>>
              ELSE Refuse(b)

----------------------------------------------------------------------------
(* Boot artifacts *)

Write(p, c) == derived' = With(derived, p, c)
Has(p, c) == p \in DOMAIN derived /\ derived[p] = c
Prepare(b, r) == Put(b, r) /\ UNCHANGED <<cache, stray, locks, given, residue, mishaps>>
Stop(b) == End(b, "failed") /\ UNCHANGED <<cache, stray, given, derived, mishaps>>

Cpio_path(b) == <<"cpio">> \o bd[b].base
Json_path(b) == <<"json">> \o bd[b].base

\* One complete archive with its trailer, and nothing behind it.
cached_rootfs_is_valid(c) == c # <<>> /\ Head(c) = "boot"

\* The base is read by its path, unchecked; its bytes and the overlay's are the
\* key.  A cached result counts when the file is what its metadata says.
prepare_inner(b) ==
    /\ At(b, "b_base")
    /\ IF bd[b].slot \notin DOMAIN file THEN Stop(b)
       ELSE /\ Prepare(b, [Goto(b, "b_lookup") EXCEPT !.base = file[bd[b].slot], !.stage = "boot"])
            /\ UNCHANGED derived

artifact_matches(b) ==
    /\ At(b, "b_lookup")
    /\ LET hit == /\ Cpio_path(b) \in DOMAIN derived
                  /\ Has(Json_path(b), derived[Cpio_path(b)])
                  /\ cached_rootfs_is_valid(derived[Cpio_path(b)])
       IN  Prepare(b, Goto(b, IF hit THEN "b_run" ELSE "b_write"))
    /\ UNCHANGED derived

\* The overlay goes behind the base, which must be a CPIO; the metadata is that
\* of the file as it is then, and is written last.
atomic_write(b) ==
    \/ /\ At(b, "b_write")
       /\ IF is_cpio(bd[b].base)
          THEN Write(Cpio_path(b), <<"boot">> \o bd[b].base) /\ Prepare(b, Goto(b, "b_json"))
          ELSE Stop(b)
    \/ /\ At(b, "b_json")
       /\ IF Cpio_path(b) \in DOMAIN derived
          THEN Write(Json_path(b), derived[Cpio_path(b)]) /\ Prepare(b, Goto(b, "b_run"))
          ELSE Stop(b)

\* The run directory is named by the digests of both files.
KernelFile(b) == IF KernelSlot(b) \in DOMAIN file THEN {file[KernelSlot(b)]} ELSE {}
BootFile(b) == IF Cpio_path(b) \in DOMAIN derived THEN {derived[Cpio_path(b)]} ELSE {}
RunFile(name, id) == <<name>> \o id[1] \o <<"with">> \o id[2]

\* metadata.json names the kernel and the root filesystem; the initrd it names
\* is the file it was published over.
cached_run_uncompressed_size(id) ==
    /\ Has(RunFile("kernel.bin", id), id[1])
    /\ RunFile("initrd.img", id) \in DOMAIN derived
    /\ Has(RunFile("metadata", id), derived[RunFile("initrd.img", id)])

run_cache_id(b) ==
    /\ At(b, "b_run")
    /\ IF KernelFile(b) = {} \/ BootFile(b) = {} THEN Stop(b)
       ELSE \E k \in KernelFile(b), r \in BootFile(b) :
              /\ Prepare(b, [Goto(b, IF cached_run_uncompressed_size(<<k, r>>) THEN "done"
                                      ELSE "b_copy") EXCEPT !.out = <<k, r>>])
              /\ UNCHANGED derived

atomic_copy(b) ==
    /\ At(b, "b_copy")
    /\ IF KernelFile(b) = {} THEN Stop(b)
       ELSE \E k \in KernelFile(b) :
              /\ Write(RunFile("kernel.bin", bd[b].out), k)
              /\ Prepare(b, Goto(b, "b_gzip"))

atomic_gzip(b) ==
    /\ At(b, "b_gzip")
    /\ IF BootFile(b) = {} THEN Stop(b)
       ELSE \E r \in BootFile(b) :
              /\ Write(RunFile("initrd.img", bd[b].out), r)
              /\ Prepare(b, Goto(b, "b_publish"))

publish_run_metadata(b) ==
    LET initrd == RunFile("initrd.img", bd[b].out)
    IN  /\ At(b, "b_publish")
        /\ IF initrd \notin DOMAIN derived THEN Stop(b)
           ELSE Write(RunFile("metadata", bd[b].out), derived[initrd]) /\ Prepare(b, Goto(b, "done"))

\* A rename in the derived cache after contention may leave nothing.
publish_temp(b) ==
    /\ At(b, "b_write") \/ At(b, "b_copy")
    /\ Mishap
    /\ derived' = Drop(derived, IF bd[b].pc = "b_write" THEN Cpio_path(b)
                                ELSE RunFile("kernel.bin", bd[b].out))
    /\ End(b, "failed")
    /\ UNCHANGED <<cache, stray, given>>
=============================================================================
