------------------------------ MODULE Archive ------------------------------
(***************************************************************************)
(* The archive algorithms of the image pipeline, as operators: TAR to CPIO *)
(* conversion (image-core ops/cpio.rs), layer flattening (ops/flatten.rs), *)
(* kernel and module extraction (kernel ops/) and the boot overlay         *)
(* (boot-image overlay.rs).                                                *)
(*                                                                         *)
(* An archive is a sequence of entries.  A path is the sequence of its     *)
(* '/'-separated components, so "/x" is <<"", "x">> and "./x/" is          *)
(* <<".", "x", "">>.  A file body is a natural number, its size; different *)
(* bodies have different sizes and 0 is the empty body.  Owners, modes and *)
(* times do not decide anything and are left out.                          *)
(***************************************************************************)
EXTENDS SeqOps

CONSTANTS
    Names,                          \* component names a whiteout can name
    BzImages,                       \* the bodies that carry a bzImage signature
    NestedTars,                     \* body of a kernel.tar -> the TAR it holds
    MAX_SYMLINK_RESOLUTION_DEPTH

ASSUME ArchiveAssumption ==
    /\ BzImages \subseteq Nat \ {0}
    /\ MAX_SYMLINK_RESOLUTION_DEPTH \in Nat \ {0}

----------------------------------------------------------------------------
(* Names *)

\* The result of a path check that fails (no path has no component).
Err == <<>>

DrivePrefix == {"c:"}

\* Leading "./"s go, one trailing slash goes, "./" is ".", and a drive prefix,
\* an absolute path, an empty component, ".." or an interior "." is refused.
normalize_path(raw) ==
    LET dots    == {k \in 0..(Len(raw) - 1) : \A i \in 1..k : raw[i] = "."}
        cursor  == SubSeq(raw, Max(dots) + 1, Len(raw))
        trimmed == IF Len(cursor) > 1 /\ Last(cursor) = "" THEN Front(cursor) ELSE cursor
    IN  IF Head(raw) \in DrivePrefix \cup {""} THEN Err
        ELSE IF trimmed = <<"">> THEN <<".">>
        ELSE IF \E i \in DOMAIN trimmed : \/ trimmed[i] \in {"", ".."}
                                          \/ trimmed[i] = "." /\ i > 1 THEN Err
        ELSE trimmed

\* A kernel request path: the same rules (an empty or absolute path, or one
\* with a drive prefix, is refused before it is normalised).
validate_request_path(raw) == normalize_path(raw)

\* A guest path of an overlay entry: one leading slash and every "." go.
GuestPath_parse(raw) ==
    LET rest  == IF Head(raw) = "" THEN Tail(raw) ELSE raw
        named == SelectSeq(rest, LAMBDA c : c # ".")
    IN  IF \/ named = <<>>
           \/ Range(rest) \cap {"", ".."} # {}
           \/ Head(named) \in DrivePrefix THEN Err ELSE named

is_reserved(p) == Head(p) = "init" \/ p = <<"TRAILER!!!">>

----------------------------------------------------------------------------
(* TAR to CPIO *)

\* A TAR entry is [path, kind, body, link]: kind "reg", "dir", "lnk" (symbolic
\* link), "hard" (hard link), "dev" or "other"; link is the link's target.
snapshot_entry(e) ==
    [e EXCEPT !.path = normalize_path(@),
              !.link = IF e.kind = "hard" THEN normalize_path(@) ELSE @]

snapshot_fails(e) ==
    LET s == snapshot_entry(e) IN s.path = Err \/ (e.kind = "hard" /\ s.link = Err)

\* The hard links of a snapshot whose target is path p.
plan_links(headers, p) == SelectSeq(headers, LAMBDA h : h.kind = "hard" /\ h.link = p)

\* A CPIO entry is [path, kind, body, link, ino, nlink]; the inode of a link
\* group is named by the path of its target.
build_record(h, ino, nlink) ==
    [path |-> h.path, kind |-> IF h.kind = "hard" THEN "reg" ELSE h.kind,
     body |-> IF h.kind = "reg" THEN h.body ELSE 0,
     link |-> IF h.kind = "lnk" THEN h.link ELSE <<>>, ino |-> ino, nlink |-> nlink]

\* Every target must be in the archive as an entry that is no hard link itself.
convert_fails(tar) ==
    LET headers == [i \in DOMAIN tar |-> snapshot_entry(tar[i])]
    IN  \/ \E i \in DOMAIN tar : snapshot_fails(tar[i]) \/ tar[i].kind = "other"
        \/ \E i \in DOMAIN headers :
              /\ headers[i].kind = "hard"
              /\ ~\E j \in DOMAIN headers : /\ headers[j].kind # "hard"
                                            /\ headers[j].path = headers[i].link

\* The entries in archive order, hard links held back and written, with an
\* empty body, right after the first occurrence of their target.
convert(tar) ==
    LET headers == [i \in DOMAIN tar |-> snapshot_entry(tar[i])]
        write_entry(acc, h) ==
            LET members  == plan_links(headers, h.path)
                first    == h.path \notin acc.flushed
                record(m) == build_record(m, h.path, 1 + Len(members))
            IN  IF h.kind = "hard" THEN acc
                ELSE [out |-> acc.out \o <<record(h)>>
                                \o (IF first THEN [i \in DOMAIN members |-> record(members[i])]
                                             ELSE <<>>),
                      flushed |-> acc.flushed \cup {h.path}]
    IN  FoldLeft(write_entry, [out |-> <<>>, flushed |-> {}], headers).out

----------------------------------------------------------------------------
(* Flattening *)

Below(p, q) == p # q /\ IsPrefix(q, p)
Without(map, gone) == Restrict(map, DOMAIN map \ gone)

\* ".wh.<name>" hides <name>, ".wh..wh..opq" hides all the directory holds.
IsOpaque(e) == Last(e.path) = ".wh..wh..opq"
IsNamed(e) == \E n \in Names : Last(e.path) = ".wh." \o n
parent_dir_of(p) == Front(p)

remove_descendants(map, p) == Without(map, {q \in DOMAIN map : Below(q, p)})
remove_subtree(map, p) == Without(map, {q \in DOMAIN map : IsPrefix(p, q)})

apply_whiteout(map, e) ==
    IF IsOpaque(e) THEN remove_descendants(map, parent_dir_of(e.path))
    ELSE LET n == CHOOSE m \in Names : Last(e.path) = ".wh." \o m
         IN  remove_subtree(map, Append(parent_dir_of(e.path), n))

\* The path a link target names: relative to the link's directory unless it is
\* absolute, ".." climbing no higher than the root.
join_symlink_target(at, target, remainder) ==
    LET walk(acc, c) == CASE c \in {"", "."} -> acc
                          [] c = ".." -> IF acc = <<>> THEN acc ELSE Front(acc)
                          [] OTHER -> Append(acc, c)
        from == IF Head(target) = "" THEN <<>> ELSE Front(at)
    IN  FoldLeft(walk, <<>>, from \o target \o remainder)

\* One round: the first ancestor that is a symbolic link is followed.
Hop(p, map) ==
    LET links == {i \in 1..(Len(p) - 1) :
                    SubSeq(p, 1, i) \in DOMAIN map /\ map[SubSeq(p, 1, i)].kind = "lnk"}
        i     == Min(links)
        at    == SubSeq(p, 1, i)
    IN  IF links = {} \/ map[at].link = <<"">> THEN p
        ELSE join_symlink_target(at, map[at].link, SubSeq(p, i + 1, Len(p)))

resolve_symlink_ancestors(path, map) ==
    IF \A q \in DOMAIN map : map[q].kind # "lnk" THEN path
    ELSE FoldLeft(LAMBDA p, round : Hop(p, map), path,
                  [i \in 1..MAX_SYMLINK_RESOLUTION_DEPTH |-> i])

insert_and_replace(map, p, e) ==
    LET replaced == p \in DOMAIN map /\ map[p].kind = "dir" /\ e.kind # "dir"
    IN  (p :> e) @@ (IF replaced THEN remove_descendants(map, p) ELSE map)

\* (Mutant: the whiteouts of a layer act after its entries.)
apply_layer_whiteouts_last(map, cpio, layer) ==
    LET white(e)   == IsOpaque(e) \/ IsNamed(e)
        insert(m, e) == insert_and_replace(m, resolve_symlink_ancestors(e.path, m),
                                           [e EXCEPT !.ino = <<layer, @>>])
    IN  FoldLeft(apply_whiteout, FoldLeft(insert, map, SelectSeq(cpio, LAMBDA e : ~white(e))),
                 SelectSeq(cpio, white))

\* A layer is read whole, then its whiteouts act on the layers below it, then
\* its entries are inserted in order.  The entry remembers its layer.
apply_layer(map, cpio, layer) ==
    LET white(e)   == IsOpaque(e) \/ IsNamed(e)
        cleared    == FoldLeft(apply_whiteout, map, SelectSeq(cpio, white))
        insert(m, e) == insert_and_replace(m, resolve_symlink_ancestors(e.path, m),
                                           [e EXCEPT !.ino = <<layer, @>>])
    IN  FoldLeft(insert, cleared, SelectSeq(cpio, LAMBDA e : ~white(e)))

build_state(layers) ==
    FoldLeft(LAMBDA map, i : apply_layer(map, layers[i], i), <<>>,
             [i \in DOMAIN layers |-> i])

\* The names of a link group that are left, and the one that writes the body:
\* the one with the largest (ties do not matter, their bodies are equal).
LinkGroup(map, p) ==
    IF map[p].kind = "reg" /\ map[p].nlink > 1
    THEN {q \in DOMAIN map : /\ map[q].kind = "reg" /\ map[q].nlink > 1
                             /\ map[q].ino = map[p].ino}
    ELSE {p}

plan_hardlinks(map) ==
    [p \in DOMAIN map |->
        LET group == LinkGroup(map, p)
        IN  [canonical |-> CHOOSE q \in group : \A r \in group : map[r].body <= map[q].body,
             nlink     |-> Cardinality(group)]]

\* The archive of a state (in path order; here in some order).
Listing(records) == FoldSet(LAMBDA r, out : Append(out, r), <<>>, records)

emit(map) ==
    LET plan == plan_hardlinks(map)
    IN  Listing({[map[p] EXCEPT !.path = p, !.ino = plan[p].canonical, !.nlink = plan[p].nlink,
                                !.body = IF plan[p].canonical = p THEN @ ELSE 0] :
                    p \in DOMAIN map})

\* A layer with a name the normaliser refuses stops the flattening.
flatten_fails(layers) ==
    \E i \in DOMAIN layers : \E j \in DOMAIN layers[i] : normalize_path(layers[i][j].path) = Err

flatten(layers) == emit(build_state(layers))

----------------------------------------------------------------------------
(* Extraction from a root filesystem *)

\* The body of the requested name: its own, else the first of its link group.
\* 0 when the name is absent, is no regular file or has no body.
walk_cpio(requested, cpio) ==
    LET matches == {i \in DOMAIN cpio : cpio[i].path = requested}
        last    == cpio[Max(matches)]
        group   == {i \in DOMAIN cpio : /\ cpio[i].kind = "reg" /\ cpio[i].body > 0
                                        /\ cpio[i].ino = last.ino}
    IN  IF matches = {} \/ \E i \in matches : cpio[i].kind # "reg" THEN 0
        ELSE IF last.body > 0 THEN last.body
        ELSE IF group = {} THEN 0 ELSE cpio[Min(group)].body

validate_bzimage_signature(body) == body \in BzImages

is_module_path(p) == IsPrefix(<<"lib", "modules">>, p)
is_kernel_tar(p) == Last(p) = "kernel.tar"

\* The module entries of a kernel.tar: a hard link there is a file of its own
\* with the (empty) body its entry carries.
extract_nested_tar(tar, entries) ==
    LET put(acc, e) ==
            LET p == normalize_path(e.path)
            IN  IF is_module_path(p) THEN (p :> build_record([e EXCEPT !.path = p], p, 1)) @@ acc
                ELSE acc
    IN  FoldLeft(put, entries, tar)

\* A later entry replaces an earlier one of its name.
read_source_cpio(cpio) ==
    LET put(acc, e) ==
            IF is_kernel_tar(e.path)
            THEN IF e.body \in DOMAIN NestedTars THEN extract_nested_tar(NestedTars[e.body], acc)
                 ELSE acc
            ELSE IF is_module_path(e.path) THEN (e.path :> e) @@ acc
            ELSE acc
    IN  FoldLeft(put, <<>>, cpio)

has_payload(e) == e.kind \in {"reg", "lnk"}

extract_modules_finds(cpio) ==
    LET entries == read_source_cpio(cpio) IN \E p \in DOMAIN entries : has_payload(entries[p])

extract_modules_cpio(cpio) ==
    LET entries == read_source_cpio(cpio) IN Listing({entries[p] : p \in DOMAIN entries})

----------------------------------------------------------------------------
(* The boot overlay *)

\* An overlay entry is [path, kind, body] with kind "reg" or "dir".  Reserved
\* names, two entries of one name and a file above another entry are refused.
validate_entries_fails(entries) ==
    LET path(i) == GuestPath_parse(entries[i].path)
    IN  \E i \in DOMAIN entries :
            \/ path(i) = Err
            \/ is_reserved(path(i))
            \/ \E j \in DOMAIN entries \ {i} :
                    \/ path(i) = path(j)
                    \/ Below(path(i), path(j)) /\ entries[j].kind = "reg"

\* Directories come first, then the files and /init.
overlay_to_cpio(entries, init) ==
    LET record(e) == build_record([path |-> GuestPath_parse(e.path), kind |-> e.kind,
                                   body |-> e.body, link |-> <<>>], e.path, 1)
        all(kind) == Listing({record(entries[i]) : i \in {j \in DOMAIN entries :
                                                             entries[j].kind = kind}})
    IN  all("dir") \o all("reg")
          \o <<record([path |-> <<"init">>, kind |-> "reg", body |-> init])>>

\* The trailer of the base goes, the overlay's entries follow.
merge_rootfs(base, overlay) == base \o overlay

----------------------------------------------------------------------------
(* What the algorithms are for *)

\* The entry a lookup of path p finds in an archive: symbolic links among p's
\* ancestors are followed, the last entry of a name counts.
Lookup(cpio, p) ==
    LET tree == [q \in {cpio[i].path : i \in DOMAIN cpio} |->
                    cpio[Max({i \in DOMAIN cpio : cpio[i].path = q})]]
        at   == resolve_symlink_ancestors(p, tree)
    IN  IF at \in DOMAIN tree THEN {tree[at]} ELSE {}

\* The bytes of a file are those of the member of its link group that has them.
Bytes(cpio, e) ==
    IF e.nlink > 1
    THEN Max({0} \cup {cpio[i].body : i \in {j \in DOMAIN cpio : cpio[j].ino = e.ino}})
    ELSE e.body

\* An upper layer hides path p of the layers below: it has a whiteout for p or
\* an ancestor, an opaque marker in an ancestor, another entry at p, or an
\* entry that is no directory at an ancestor.
Hides(layer, p) ==
    \E i \in DOMAIN layer :
        LET e == layer[i] IN
        \/ IsOpaque(e) /\ Below(p, parent_dir_of(e.path))
        \/ \E n \in Names : /\ Last(e.path) = ".wh." \o n
                            /\ IsPrefix(Append(parent_dir_of(e.path), n), p)
        \/ ~IsOpaque(e) /\ ~IsNamed(e) /\ (e.path = p \/ (Below(p, e.path) /\ e.kind # "dir"))

\* What a stack of layers promises of its flattening (OCI image layers): every
\* entry of the top layer is found under its own name; a name of the layers
\* below stays exactly when the top layer does not hide it; and no whiteout is
\* left over.
IsOverlay(lower, top, flat) ==
    LET entries == {top[i] : i \in DOMAIN top}
    IN  /\ \A e \in {x \in entries : ~IsOpaque(x) /\ ~IsNamed(x)} :
              \E f \in Lookup(flat, e.path) : f.kind = e.kind /\ f.link = e.link
        /\ \A i \in DOMAIN lower :
              Hides(top, lower[i].path)
                \/ \E f \in Lookup(flat, lower[i].path) : f.kind = lower[i].kind
        /\ \A j \in DOMAIN flat :
              /\ ~IsOpaque(flat[j]) /\ ~IsNamed(flat[j])
              /\ \/ \E i \in DOMAIN lower : /\ lower[i].path = flat[j].path
                                            /\ ~Hides(top, lower[i].path)
                 \/ \E e \in entries : \E f \in Lookup(flat, e.path) : f = flat[j]

\* A regular file of a layer keeps its bytes in the flattening of the stack.
KeepsBytes(lower, top, flat) ==
    /\ \A i \in DOMAIN top :
          LET e == top[i] IN
          (e.kind = "reg" /\ ~IsOpaque(e) /\ ~IsNamed(e)) =>
              \E f \in Lookup(flat, e.path) : Bytes(flat, f) = Bytes(top, e)
    /\ \A i \in DOMAIN lower :
          (lower[i].kind = "reg" /\ ~Hides(top, lower[i].path)) =>
              \E f \in Lookup(flat, lower[i].path) : Bytes(flat, f) = Bytes(lower, lower[i])
=============================================================================
