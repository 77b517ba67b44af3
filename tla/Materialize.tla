---------------------------- MODULE Materialize ----------------------------
(***************************************************************************)
(* How a source becomes a CPIO artifact in the cache (image-core           *)
(* materialize.rs and ops/): resolution, the blueprint of an image, the    *)
(* load, decompression and conversion of every layer, and the flattening.  *)
(*                                                                         *)
(* A job is [kernel, path, rootfs, boot, custom, compiler, output]: kernel *)
(* and rootfs name a source ("" for none, "custom" for a kernel to         *)
(* compile, else a reference or a raw source), path is the kernel's entry  *)
(* path in an archive, custom what is to be compiled.                      *)
(***************************************************************************)
EXTENDS ImageStore, IndexCodec, KernelSpec

Job(b) == jobs[b][bd[b].n]
path(b) == Job(b).path
Source(b) == IF bd[b].stage = "kernel" THEN Job(b).kernel ELSE Job(b).rootfs

\* kd is the request digest of a custom kernel, the source digest of any other.
KernelSlot(b) ==
    Slot("kernel", IF Job(b).kernel = "custom" THEN bd[b].kd ELSE kernel_request_digest(bd[b].kd, path(b)))
ModulesSlot(b) == Slot("modules", bd[b].kd)
RootfsSlot(b) == Slot("rootfs", IF bd[b].stage = "kernel" THEN bd[b].kd ELSE bd[b].rd)
LayerSlot(link_digest) == Slot("layers", <<link_digest>>)

Goto(b, pc) == [bd[b] EXCEPT !.pc = pc]
Stage(r, slot, content, ops) == [r EXCEPT !.slot = slot, !.staged = content, !.ops = ops]
Step(b, r) == Put(b, r) /\ UNCHANGED <<stray, locks, given, derived, residue>>
Refuse(b) ==
    /\ End(b, "failed")
    /\ UNCHANGED <<cache, stray, given, derived, mishaps>>

\* Every operation reads its input anew and stops when its digest is not the
\* one of the FileRef it was given.
DigestMatches(s, c) == s \in DOMAIN file /\ file[s] = c

\* The archive in a CPIO artifact, and that of the modules in it.
Cpio == [l \in DOMAIN Tars |-> convert(Tars[l])]
Layers(names) == [i \in DOMAIN names |-> Cpio[names[i]]]
Manifests == UNION {layer_digests(Documents[d]) : d \in DOMAIN Documents}
Flattened == [m \in Manifests |-> flatten(Layers(m))]
RootfsEntries(c) == IF c[1] = "cpio" THEN Cpio[c[2]] ELSE Flattened[Tail(c)]
RootfsForms == {<<"cpio", l>> : l \in DOMAIN Tars} \cup {<<"flat">> \o m : m \in Manifests}
FindsModules == [c \in RootfsForms |-> extract_modules_finds(RootfsEntries(c))]

----------------------------------------------------------------------------
(* Sources *)

is_image(source) == source \in DOMAIN References

\* The digest of an image is that of the manifest its reference names when the
\* registry is asked; that of a raw source is its own.
resolve(source) == IF is_image(source) THEN resolve_image(registry, source) ELSE {<<source>>}

get_or_build_blueprint(b) ==
    LET target == IF bd[b].stage = "kernel" THEN KernelSlot(b) ELSE RootfsSlot(b)
    IN  /\ At(b, "blueprint")
        /\ IF target \in DOMAIN blueprints
           THEN \E bp \in decode_blueprint(blueprints[target]) :
                    Step(b, [Goto(b, "layer") EXCEPT !.todo = bp.layers])
           ELSE Step(b, Goto(b, "fetch"))
        /\ UNCHANGED <<cache, mishaps>>

\* blueprint: a kernel needs its entry path, and the path a proper form; the
\* manifest is the one the reference names now.
validate_extract_path(p) == p # <<>> /\ normalize_path(p) # Err

blueprint(b) ==
    LET target  == IF bd[b].stage = "kernel" THEN KernelSlot(b) ELSE RootfsSlot(b)
        extract == IF bd[b].stage = "kernel" THEN {path(b)} ELSE {}
        made(layers) == [target |-> target, layers |-> layers, extract |-> extract]
    IN  /\ At(b, "fetch")
        /\ IF \/ bd[b].stage = "kernel" /\ ~validate_extract_path(path(b))
              \/ fetch_layers(registry, Source(b)) = {}
           THEN Refuse(b)
           ELSE \E layers \in fetch_layers(registry, Source(b)) :
                    /\ blueprints' = With(blueprints, target, encode_blueprint(made(layers)))
                    /\ Step(b, [Goto(b, "layer") EXCEPT !.todo = layers])
                    /\ UNCHANGED <<index, file, mishaps>>

----------------------------------------------------------------------------
(* Layers *)

materialize_layers(b) ==
    /\ At(b, "layer")
    /\ bd[b].todo # <<>>
    /\ LET slot == LayerSlot(Head(bd[b].todo).link_digest)
       IN \E c \in Answers(slot) :
             /\ read_file_ref(slot, c)
             /\ Step(b, [Goto(b, IF c = None THEN "load" ELSE "normalize") EXCEPT !.art = c, !.slot = slot])
    /\ UNCHANGED <<file, blueprints>>

\* The task publishes the file it loaded, then its record.
load(b) ==
    LET bodies == IF bd[b].todo # <<>> THEN load_layer(registry, Head(bd[b].todo))
                  ELSE load_raw(Source(b))
    IN  /\ At(b, "load")
        /\ IF bodies = {} THEN Refuse(b)
           ELSE \E body \in bodies :
                    /\ Step(b, Stage(Goto(b, "normalize"), bd[b].slot, Sources[body],
                                      <<"place", "publish">>))
                    /\ UNCHANGED <<cache, mishaps>>

\* Decompression is staged, its record written and then the file renamed.
decompress(b) ==
    /\ At(b, "normalize")
    /\ compressed(bd[b].art)
    /\ IF /\ DigestMatches(bd[b].slot, bd[b].art)
          /\ bd[b].art[2] \in {"tar", "cpio", "bz"}
       THEN /\ Step(b, Stage(bd[b], bd[b].slot, Tail(bd[b].art), <<"replace", "place">>))
            /\ UNCHANGED <<cache, mishaps>>
       ELSE Refuse(b)

\* Conversion renames the file itself, then the record is written.
into_cpio(b) ==
    /\ At(b, "normalize")
    /\ is_tar(bd[b].art)
    /\ IF DigestMatches(bd[b].slot, bd[b].art) /\ ~convert_fails(Tars[bd[b].art[2]])
       THEN /\ Step(b, Stage(bd[b], bd[b].slot, <<"cpio">> \o Tail(bd[b].art),
                             <<"place", "replace">>))
            /\ UNCHANGED <<cache, mishaps>>
       ELSE Refuse(b)

\* A layer that is normal by now is kept for the flattening.
push_layer(b) ==
    /\ At(b, "normalize")
    /\ ~compressed(bd[b].art) /\ ~is_tar(bd[b].art)
    /\ bd[b].todo # <<>>
    /\ IF is_cpio(bd[b].art)
       THEN /\ Step(b, [Goto(b, "layer") EXCEPT !.layers = Append(@, bd[b].art),
                                                !.todo = Tail(@)])
            /\ UNCHANGED <<cache, mishaps>>
       ELSE Refuse(b)

\* flatten checks every layer again and publishes under the destination.
flatten_layers(b) ==
    LET names == [i \in DOMAIN bd[b].layers |-> bd[b].layers[i][2]]
        flat  == <<"flat">> \o names
    IN  /\ At(b, "layer")
        /\ bd[b].todo = <<>>
        /\ IF /\ \A i \in DOMAIN names : DigestMatches(LayerSlot(names[i]), bd[b].layers[i])
              /\ ~flatten_fails(Layers(names))
           THEN /\ Step(b, [Stage(Goto(b, IF bd[b].stage = "kernel" THEN "k_modules" ELSE "r_done"),
                                  RootfsSlot(b), flat, <<"place", "publish">>) EXCEPT
                            !.rootfs = flat, !.layers = <<>>])
                /\ UNCHANGED <<cache, mishaps>>
           ELSE Refuse(b)
=============================================================================
