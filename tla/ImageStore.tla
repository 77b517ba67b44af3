---------------------------- MODULE ImageStore ----------------------------
(***************************************************************************)
(* The image cache of image-core: the index (redb tables, one transaction  *)
(* per call under an exclusive lock), the artifact files beside it, and    *)
(* the tasks that build into them.                                         *)
(*                                                                         *)
(* The content of a file is how it came about, a sequence of strings:      *)
(* <<"gz", "tar", "L">> is the compressed TAR of layer L, <<"tar", "L">>   *)
(* what decompression makes of it, <<"cpio", "L">> its conversion,         *)
(* <<"flat", "L", "M">> the flattening of two layers, <<"bz", ..>> a       *)
(* kernel and <<"mods", ..>> its modules.  Equal contents have equal       *)
(* digests.  A FileRef is its content, its type is the content's form.     *)
(*                                                                         *)
(* An artifact's place (namespace and UUID) is named by its namespace and  *)
(* source digest, e.g. <<"layers", <<"L">>>>: get_or_create gives one      *)
(* source digest of a namespace one identity for good.                     *)
(***************************************************************************)
EXTENDS Archive

CONSTANTS
    Builder,        \* tasks that materialize images
    Process,        \* Builder -> the process the task runs in
    Nobody,         \* no builder
    Scenarios,      \* [jobs, registry, spent]: what the builders are asked for, the
                    \*   registry that has the image, and how many of the mishaps
                    \*   are not to happen
    Tars,           \* name of a layer or raw archive -> the TAR in it
    Sources,        \* raw source or layer name -> the content a load of it gets
    MaxMishaps      \* bound on failures, crashes, cancellations and damage

ASSUME ImageStoreAssumption ==
    /\ DOMAIN Process = Builder
    /\ Nobody \notin Builder
    /\ MaxMishaps \in Nat

VARIABLES
    index,          \* slot -> content its FileRef records
    file,           \* slot -> content of the file
    blueprints,     \* slot -> the encoded blueprint stored for it
    bd,             \* the builders
    stray,          \* publications of abandoned blocking tasks
    inproc,         \* <<process, request digest>> -> holder of that build lock
    xproc,          \* request digest -> holder of its lock file
    registry,       \* the registry, as module Registry has it
    jobs,           \* builder -> the jobs it is asked for, in order
    derived,        \* the derived boot cache: path -> content
    residue,        \* build disks and transferred kernels left in temp_dir
    mishaps

vars == <<index, file, blueprints, bd, stray, inproc, xproc, registry, jobs, derived, residue,
          mishaps>>
locks == <<inproc, xproc>>
cache == <<index, file, blueprints>>
given == <<registry, jobs>>

None == <<>>

\* A table with one entry more, or less.
With(f, s, c) == [x \in DOMAIN f \cup {s} |-> IF x = s THEN c ELSE f[x]]
Drop(f, s) == [x \in DOMAIN f \ {s} |-> f[x]]

Slot(namespace, digest) == <<namespace, digest>>

compressed(c) == c[1] = "gz"
is_tar(c) == c[1] = "tar"
is_cpio(c) == c # None /\ c[1] \in {"cpio", "flat", "mods", "merged"}
is_bz(c) == c # None /\ c[1] = "bz"

----------------------------------------------------------------------------
(* Builders *)

\* A builder is at pc, once the operations in ops are done, of stage ("kernel",
\* "rootfs" or "boot") of its n-th job.  slot and staged are what the operations
\* work on, art is the FileRef in hand, kd and rd are the source digests of the
\* kernel and the root filesystem; since = mishaps while nothing has disturbed
\* the job since it started.
Idle == [pc |-> "idle", ops |-> <<>>, n |-> 0, stage |-> "kernel", slot |-> <<>>,
         staged |-> None, art |-> None, todo |-> <<>>, layers |-> <<>>,
         kd |-> <<>>, rd |-> <<>>, kernel |-> None, modules |-> None, rootfs |-> None,
         base |-> None, out |-> <<>>, since |-> MaxMishaps + 1]

Ended == {"idle", "ok", "failed", "dead"}
Active(b) == bd[b].pc \notin Ended
At(b, pc) == bd[b].pc = pc /\ bd[b].ops = <<>>
Put(b, r) == bd' = [bd EXCEPT ![b] = r]

Released(lock, holders) == [k \in {k \in DOMAIN lock : lock[k] \notin holders} |-> lock[k]]

\* (Mutant: the lock file stays locked.)
Unlock_keeps_file(b) ==
    /\ inproc' = Released(inproc, {b})
    /\ UNCHANGED xproc

\* Both guards of the build lock go when the task ends.
Unlock(b) ==
    /\ inproc' = Released(inproc, {b}) /\ xproc' = Released(xproc, {b})

\* The files a custom build of the task keeps in temp_dir.
Residue(b) == {<<b, bd[b].n, "disk">>, <<b, bd[b].n, "staging">>}

\* The task ends; the temporary files it holds go with it (TempWriter,
\* CompiledKernel and BuildDiskLease remove them when dropped).
End(b, pc) ==
    /\ Put(b, [bd[b] EXCEPT !.pc = pc, !.ops = <<>>, !.staged = None])
    /\ Unlock(b)
    /\ residue' = residue \ Residue(b)

Mishap == mishaps < MaxMishaps /\ mishaps' = mishaps + 1

----------------------------------------------------------------------------
(* The index *)

\* (Mutant: a file is taken for the one its record names.)
stored_file_validity_unread(s) == s \in DOMAIN file

stored_file_validity(s) == s \in DOMAIN file /\ file[s] = index[s]

\* get_by_link_ref: a record whose file is missing or differs is removed; an
\* I/O error is a miss for this lookup and removes nothing.  c is the answer.
read_file_ref(s, c) ==
    \/ /\ s \notin DOMAIN index
       /\ c = None
       /\ UNCHANGED <<index, mishaps>>
    \/ /\ s \in DOMAIN index
       /\ IF stored_file_validity(s) THEN c = index[s] /\ UNCHANGED index
          ELSE c = None /\ index' = Drop(index, s)
       /\ UNCHANGED mishaps
    \/ /\ s \in DOMAIN index
       /\ c = None
       /\ Mishap
       /\ UNCHANGED index

Answers(s) == {None} \cup (IF s \in DOMAIN index THEN {index[s]} ELSE {})

\* upsert: the record is written whatever was there.
publish_file_ref(s, c) == index' = With(index, s, c)

\* update: the record must be there.
MissingPrevious(s) == s \notin DOMAIN index
replace_file_ref(s, c) == index' = With(index, s, c)

----------------------------------------------------------------------------
(* The operations a staged artifact goes through *)

Rest(b) == [bd[b] EXCEPT !.ops = Tail(@)]
NextOp(b, op) == bd[b].ops # <<>> /\ Head(bd[b].ops) = op

\* The staged file takes the destination's place; no moment shows neither.
attempt_publish(s, c) == file' = With(file, s, c)

\* The destination is read and compared with what is staged.
destination_matches(s, c) == s \in DOMAIN file /\ file[s] = c

\* The rename.  When another writer contends for the destination for all of the
\* bounded retries, a destination that matches is accepted; any other is
\* removed before the last rename, which may fail.  (An error that is not
\* contention leaves the destination: OpFails.)
publish_with(b) ==
    /\ NextOp(b, "place")
    /\ \/ /\ attempt_publish(bd[b].slot, bd[b].staged)
          /\ Put(b, [Rest(b) EXCEPT !.art = bd[b].staged])
          /\ UNCHANGED <<locks, residue, mishaps>>
       \/ /\ Mishap
          /\ destination_matches(bd[b].slot, bd[b].staged)
          /\ Put(b, [Rest(b) EXCEPT !.art = bd[b].staged])
          /\ UNCHANGED <<file, locks, residue>>
       \/ /\ Mishap
          /\ file' = Drop(file, bd[b].slot)
          /\ End(b, "failed")
    /\ UNCHANGED <<index, blueprints, stray, given, derived>>

upsert(b) ==
    /\ NextOp(b, "publish")
    /\ publish_file_ref(bd[b].slot, bd[b].staged)
    /\ Put(b, [Rest(b) EXCEPT !.art = bd[b].staged])
    /\ UNCHANGED <<file, blueprints, stray, locks, given, derived, residue, mishaps>>

update(b) ==
    /\ NextOp(b, "replace")
    /\ IF MissingPrevious(bd[b].slot)
       THEN End(b, "failed") /\ UNCHANGED index
       ELSE /\ replace_file_ref(bd[b].slot, bd[b].staged)
            /\ Put(b, [Rest(b) EXCEPT !.art = bd[b].staged])
            /\ UNCHANGED <<locks, residue>>
    /\ UNCHANGED <<file, blueprints, stray, given, derived, mishaps>>

\* publish_transformed reads the slot and then replaces or publishes.
publish_transformed(b) ==
    /\ NextOp(b, "transform")
    /\ \E c \in Answers(bd[b].slot) :
          /\ read_file_ref(bd[b].slot, c)
          /\ Put(b, [bd[b] EXCEPT !.ops = IF c # None THEN <<"replace">> ELSE <<"publish">>])
    /\ UNCHANGED <<file, blueprints, stray, locks, given, derived, residue>>

----------------------------------------------------------------------------
(* Disturbances *)

\* Any call may return an error (of I/O, of the network, or of the index, which
\* another process may still hold locked after ten attempts); the task stops.
OpFails(b) ==
    /\ Active(b)
    /\ Mishap
    /\ End(b, "failed")
    /\ UNCHANGED <<cache, stray, given, derived>>

\* bounded_join: the task is cancelled where it waits.  A blocking operation
\* that publishes by itself may be abandoned and publish later; staged
\* decompression is published by the task alone.
bounded_join(b) ==
    /\ Active(b)
    /\ bd[b].ops # <<>> => NextOp(b, "place") /\ Len(bd[b].ops) > 1
    /\ Mishap
    /\ End(b, "failed")
    /\ stray' \in {stray} \cup (IF bd[b].ops = <<>> THEN {}
                                ELSE {stray \cup {<<Process[b], bd[b].slot, bd[b].staged>>}})
    /\ UNCHANGED <<cache, given, derived>>

\* The abandoned operation sees its token or publishes after all.
StrayEnds ==
    /\ \E s \in stray :
          /\ stray' = stray \ {s}
          /\ file' \in {file, With(file, s[2], s[3])}
    /\ UNCHANGED <<index, blueprints, bd, locks, given, derived, residue, mishaps>>

\* A process dies with its tasks, its threads and its locks.
Crash(p) ==
    /\ \E b \in Builder : Process[b] = p /\ Active(b)
    /\ Mishap
    /\ bd' = [b \in Builder |->
                IF Process[b] = p /\ Active(b)
                THEN [bd[b] EXCEPT !.pc = "dead", !.ops = <<>>, !.staged = None] ELSE bd[b]]
    /\ LET dead == {b \in Builder : Process[b] = p}
       IN inproc' = Released(inproc, dead) /\ xproc' = Released(xproc, dead)
    /\ stray' = {s \in stray : s[1] # p}
    /\ UNCHANGED <<cache, given, derived, residue>>

\* A cached file is lost (the cache directory is cleaned, a disk fails).
FileLost(s) ==
    /\ s \in DOMAIN file
    /\ Mishap
    /\ file' = Drop(file, s)
    /\ UNCHANGED <<index, blueprints, bd, stray, locks, given, derived, residue>>
=============================================================================
