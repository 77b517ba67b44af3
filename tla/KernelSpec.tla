----------------------------- MODULE KernelSpec -----------------------------
(***************************************************************************)
(* What a caller may ask of crate kernel (lib.rs, spec/, source_catalog.rs *)
(* and compiler.rs): the constructors of a Kernel, the catalog of reviewed *)
(* sources, the identity of a compiler, and the digest that names a custom *)
(* request in the cache.                                                   *)
(*                                                                         *)
(* A version is a sequence of components [numeric, padded, value], a URL   *)
(* [scheme, host, plain, file], plain when it has neither fragment nor     *)
(* credentials, its file the version it is named after, a digest           *)
(* [algorithm, hex, value], a configuration [mode, text].  The answer of a *)
(* constructor is a set: empty when it refuses.                            *)
(***************************************************************************)
EXTENDS Naturals, Sequences

CONSTANTS
    U32,                \* bound: the largest version component
    MAX_CONFIG_BYTES,   \* the largest configuration
    CATALOG_TOML,       \* [schema_version, releases], a release [version, url, sha256]
    DEFAULT_CONFIG,     \* the text of the default fragment
    DEFAULT_KERNEL      \* [kernel, path] of the default image

-----------------------------------------------------------------------------
(* Versions, paths and configurations.                                     *)

\* KernelVersion::parse.
KernelVersion(text) ==
    IF /\ Len(text) \in 2..4
       /\ \A i \in DOMAIN text : text[i].numeric /\ ~text[i].padded /\ text[i].value <= U32
       /\ text[1].value # 0
    THEN {[i \in DOMAIN text |-> text[i].value]} ELSE {}

\* KernelVersion::cmp, less or equal: a missing component is a zero.
Component(v, i) == IF i \in DOMAIN v THEN v[i] ELSE 0
cmp(v, w) ==
    \A i \in 1..4 : Component(v, i) > Component(w, i) =>
        \E j \in 1..(i - 1) : Component(v, j) < Component(w, j)

Holding(text, parts) == \E i \in DOMAIN text : text[i] \in parts

\* KernelPath::parse: "." goes, and nothing else that is no plain name passes.
KernelPath(text) ==
    LET named == SelectSeq(text, LAMBDA c : c # ".")
    IN IF named = <<>> \/ Head(text) = "C:" \/ Holding(text, {"", "..", "NUL"}) THEN {} ELSE {named}

\* normalize: CRLF becomes LF, and the text ends with one LF.
EndsAt(lines) == {n \in 0..Len(lines) : \A i \in (n + 1)..Len(lines) : lines[i] = "LF"}
normalize(text) ==
    LET lf   == [i \in DOMAIN text |-> IF text[i] = "CRLF" THEN "LF" ELSE text[i]]
        last == CHOOSE n \in EndsAt(lf) : \A m \in EndsAt(lf) : n <= m
    IN IF text = <<>> \/ Len(text) > MAX_CONFIG_BYTES \/ Holding(text, {"NUL", "BAD"}) THEN {}
       ELSE {Append(SubSeq(lf, 1, last), "LF")}
KernelConfig(c) == {[mode |-> c.mode, bytes |-> text] : text \in normalize(c.text)}

-----------------------------------------------------------------------------
(* Source pins.                                                            *)

\* HttpUrl::parse.
HttpUrl(url) == url.scheme \in {"http", "https"} /\ url.host # "" /\ url.plain

\* ExpectedDigest::parse: the value whatever the case of its digits.
ExpectedDigest(d) ==
    IF d.hex /\ d.algorithm \in {"sha256", "sha512", "blake3"}
    THEN {[algorithm |-> d.algorithm, value |-> d.value]} ELSE {}

KernelSourcePin(version, url, digest) ==
    {p \in {[version |-> version, url |-> url, digest |-> digest]} : digest.algorithm = "sha256"}

\* A pin the caller spells out, and one of the catalog, whose URL has to name
\* the version.
Pin(text, url, sha256) ==
    UNION {UNION {KernelSourcePin(v, url, d) : d \in ExpectedDigest(sha256)} :
              v \in IF HttpUrl(url) /\ url.scheme = "https" THEN KernelVersion(text) ELSE {}}

release_pin(r) == {p \in Pin(r.version, r.url, r.sha256) : r.url.file = p.version}

\* parse_catalog: one bad release, or a version that is there twice, and there
\* is no catalog.
parse_catalog ==
    LET releases == CATALOG_TOML.releases
        pins     == [i \in DOMAIN releases |-> release_pin(releases[i])]
    IN IF /\ CATALOG_TOML.schema_version = 1
          /\ \A i \in DOMAIN pins : pins[i] # {}
          /\ \A i, j \in DOMAIN pins : i # j => {p.version : p \in pins[i]} # {p.version : p \in pins[j]}
       THEN {[i \in DOMAIN pins |-> CHOOSE p \in pins[i] : TRUE]} ELSE {}
catalog == CHOOSE pins \in parse_catalog : TRUE

ASSUME CatalogAssumption == parse_catalog # {}

get(version) == {catalog[i] : i \in {i \in DOMAIN catalog : catalog[i].version = version}}

\* The last of the highest.
latest ==
    {catalog[i] : i \in {i \in DOMAIN catalog : \A j \in DOMAIN catalog :
        /\ cmp(catalog[j].version, catalog[i].version)
        /\ j > i => ~cmp(catalog[i].version, catalog[j].version)}}

-----------------------------------------------------------------------------
(* Compilers.                                                              *)

\* KernelCompilerIdentity::new.
validate_identity(id) ==
    /\ \A d \in {id.script, id.bootstrap_kernel, id.toolchain_rootfs} :
          d.algorithm \in {"sha256", "sha512"} /\ d.hex
    /\ id.target_arch # ""

\* KernelCompilerIdentity::encode: every field is preceded by its length, so
\* that it is a sequence of the fields.
encode(id) ==
    <<id.recipe_version, id.script, id.bootstrap_kernel, id.toolchain_rootfs, id.target_arch,
      id.kbuild_metadata>>

-----------------------------------------------------------------------------
(* Kernels.                                                                *)

\* A custom request is [version, pin, config], each a set of at most one: no
\* version is the kernel builder's "latest", pin is [url, sha256].
Config(r) == IF r.config = {} THEN KernelConfig([mode |-> "fragment", text |-> DEFAULT_CONFIG])
             ELSE UNION {KernelConfig(c) : c \in r.config}

\* resolve_version, and CustomKernelSpec::with_config, which the catalog has to
\* have the version for.
resolve_version(r) ==
    IF r.version = {} THEN {p.version : p \in latest} ELSE UNION {KernelVersion(text) : text \in r.version}
custom_pinned_with_config(r) ==
    UNION {{[source |-> s, config |-> c] : c \in Config(r)} :
              s \in UNION {Pin(text, p.url, p.sha256) : text \in r.version, p \in r.pin}}
CustomKernelSpec(r) ==
    {[source |-> s, config |-> c] : s \in UNION {get(v) : v \in resolve_version(r)}, c \in Config(r)}

custom(r) == IF r.pin = {} THEN CustomKernelSpec(r) ELSE custom_pinned_with_config(r)

\* LinkDigestBuilder: a domain, then tagged fields, each after its length.
LinkDigest(domain, fields) == <<domain, fields>>

\* (Mutant: the mode of the configuration is no part of the request.)
custom_request_digest_modeless(spec, id) ==
    LinkDigest("custom", <<spec.source.version, spec.source.url, spec.source.digest, spec.config.bytes,
                           encode(id)>>)
\* The digest of a custom request.
custom_request_digest(spec, id) ==
    LinkDigest("custom", <<spec.source.version, spec.source.url, spec.source.digest,
                           spec.config.mode, spec.config.bytes, encode(id)>>)

\* The digest of an external request: its source's and its entry path.
kernel_request_digest(source_digest, kernel_path) == LinkDigest("external", <<source_digest, kernel_path>>)

\* JythKernelCompiler: the arguments of the build script in the guest, and the
\* file injected next to it.  Only a complete configuration gets there; the
\* script has the default fragment of its own.
bootstrap_args(spec) == <<spec.source.version, spec.source.url, spec.source.digest>>
bootstrap_builder(spec) == IF spec.config.mode = "complete" THEN {spec.config.bytes} ELSE {}

\* What comes out of a compilation: what the script makes of its arguments and
\* of the file, by that compiler.
Compiled(spec, id) == <<bootstrap_args(spec), bootstrap_builder(spec), encode(id)>>

\* The kernel of a launch, as a caller asks for it: an external source, raw or
\* with an entry path, the default, or a custom request.  lower leaves the
\* source's name and the canonical path.
lower(job) ==
    CASE job.kernel = "custom"  -> {[job EXCEPT !.custom = custom(r)] :
                                      r \in {r \in job.custom : custom(r) # {} /\ validate_identity(job.compiler)}}
      [] job.kernel = "default" -> {[job EXCEPT !.kernel = DEFAULT_KERNEL.kernel, !.path = p] :
                                      p \in KernelPath(DEFAULT_KERNEL.path)}
      [] job.path = <<>>        -> {job}
      [] OTHER                  -> {[job EXCEPT !.path = p] : p \in KernelPath(job.path)}
=============================================================================
