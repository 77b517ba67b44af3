------------------------------ MODULE Registry ------------------------------
(***************************************************************************)
(* What the image pipeline asks of a registry and how it reads the answers *)
(* (image-core oci_reference.rs, ops/registry.rs, ops/blueprint.rs,        *)
(* ops/load.rs, resolver.rs): the reference of an image, the manifest      *)
(* requests with their Bearer challenge, the choice of a platform, the     *)
(* layers of a manifest and the checks on a loaded file.                   *)
(*                                                                         *)
(* A reference is a sequence of tokens, the separators among them.  A      *)
(* manifest and a layer are named by their digests, so equal bytes have    *)
(* equal names.  An operator that may fail returns the set of its results, *)
(* empty when it fails.                                                    *)
(***************************************************************************)
EXTENDS SeqOps

CONSTANTS
    References,     \* image source -> its reference
    Dotted,         \* tokens with a dot or an address in brackets
    Components,     \* tokens that match the grammar of a repository component
    Tags,           \* tokens that match the grammar of a tag
    Documents,      \* digest -> manifest: [media, layers, manifests]
    LinkKind,       \* raw source or layer -> "local", "bytes" or "http"
    LinkSize,       \* raw source or layer -> the size its link declares, 0 for unknown
    BodySize,       \* raw source or layer -> its size
    Arch,           \* architecture of the host, as manifests name it
    DEFAULT_HOST

----------------------------------------------------------------------------
(* References *)

Cut(s, i) == <<SubSeq(s, 1, i - 1), SubSeq(s, i + 1, Len(s))>>
split_once(s, sep) ==
    {Cut(s, i) : i \in {i \in DOMAIN s : s[i] = sep /\ \A j \in 1 .. i - 1 : s[j] # sep}}

\* A colon separates a tag only after the last slash.
tag_separator(name) ==
    {i \in DOMAIN name : name[i] = ":" /\ \A j \in i + 1 .. Len(name) : name[j] \notin {":", "/"}}

looks_like_host(first) ==
    first = <<"localhost">> \/ \E i \in DOMAIN first : first[i] = ":" \/ first[i] \in Dotted

validate_digest(d) == d \in DOMAIN Documents
validate_tag(t) == t \in Tags

\* The components of a repository.
repository_components(r) == [i \in 1 .. (Len(r) + 1) \div 2 |-> r[2 * i - 1]]
validate_repository(r) ==
    /\ Len(r) % 2 = 1
    /\ \A i \in DOMAIN r : IF i % 2 = 0 THEN r[i] = "/" ELSE r[i] \in Components

\* The scheme, what follows it; the name before a digest, the digest.
split_scheme(value) ==
    IF "://" \in Range(value)
    THEN {<<h[1][1], h[2]>> : h \in {h \in split_once(value, "://") :
                                        h[1] \in {<<"http">>, <<"https">>} /\ h[2] # <<>>}}
    ELSE {<<"https", value>>}
split_digest(value) ==
    IF "@" \in Range(value)
    THEN {<<h[1], {h[2][1]}>> : h \in {h \in split_once(value, "@") :
                                          h[1] # <<>> /\ Len(h[2]) = 1 /\ validate_digest(h[2][1])}}
    ELSE {<<value, {}>>}
split_tag(name) ==
    IF tag_separator(name) = {} THEN {<<name, {}>>}
    ELSE {<<h[1], {h[2][1]}>> : h \in {h \in {Cut(name, i) : i \in tag_separator(name)} :
                                          h[1] # <<>> /\ Len(h[2]) = 1 /\ validate_tag(h[2][1])}}

\* The first component is a host if it looks like one; the default host has its
\* shorthand for a single component.
split_host(r) ==
    LET h == IF "/" \in Range(r) THEN CHOOSE h \in split_once(r, "/") : TRUE ELSE <<<<>>, r>>
    IN  IF looks_like_host(h[1]) THEN h ELSE <<<<DEFAULT_HOST>>, r>>
with_library(host, r) ==
    IF host = <<DEFAULT_HOST>> /\ "/" \notin Range(r) THEN <<"library", "/">> \o r ELSE r

parse(value) ==
    UNION {UNION {
        {[scheme |-> s[1], host |-> split_host(t[1])[1],
          repository |-> repository_components(with_library(split_host(t[1])[1], split_host(t[1])[2])),
          tag |-> IF t[2] = {} /\ d[2] = {} THEN {"latest"} ELSE t[2], digest |-> d[2]] :
            t \in {t \in split_tag(d[1]) :
                      validate_repository(with_library(split_host(t[1])[1], split_host(t[1])[2]))}} :
        d \in split_digest(s[2])} : s \in split_scheme(value)}

selector(ref) ==
    IF ref.digest # {} THEN CHOOSE d \in ref.digest : TRUE
    ELSE IF ref.tag # {} THEN CHOOSE t \in ref.tag : TRUE ELSE "latest"

Url(ref, kind, last) ==
    [scheme |-> ref.scheme, host |-> ref.host, segments |-> <<"v2">> \o ref.repository \o <<kind, last>>]
manifest_url(ref) == Url(ref, "manifests", selector(ref))
manifest_url_for_digest(ref, d) == Url(ref, "manifests", d)
blob_url(ref, d) == Url(ref, "blobs", d)

from_manifest_url(url) ==
    LET n == Len(url.segments)
        last == url.segments[n]
    IN  IF /\ n > 3 /\ url.segments[1] = "v2"
           /\ url.segments[n - 1] = "manifests" /\ last # "manifests"
           /\ \A i \in 2 .. n - 2 : url.segments[i] \in Components
           /\ validate_digest(last) \/ validate_tag(last)
        THEN {[scheme |-> url.scheme, host |-> url.host, repository |-> SubSeq(url.segments, 2, n - 2),
               tag |-> IF validate_digest(last) THEN {} ELSE {last},
               digest |-> IF validate_digest(last) THEN {last} ELSE {}]}
        ELSE {}

----------------------------------------------------------------------------
(* Requests *)

\* A registry is [host, repository, tagged, auth, challenge, token, header,
\* damage, length]: the manifests a request for the tag may find, whether it
\* is open, asks for a token or refuses, the parts of its challenge, what its
\* token endpoint answers, how it states digests, whether it serves manifests
\* or blobs other than asked for, and whether it states lengths.
Response(status, digest, body, size, length) ==
    [status |-> status, digest |-> digest, body |-> body, size |-> size, length |-> length]
Refusal(status) == Response(status, {}, "", 0, {})

Admits(srv, token) == srv.auth = "open" \/ (srv.auth = "token" /\ token # {})
Serves(srv, url) ==
    url.host = srv.host /\ SubSeq(url.segments, 2, Len(url.segments) - 2) = srv.repository

\* The registry's answers to a manifest request and to a blob request (external).
respond(srv, url, token) ==
    LET last    == Last(url.segments)
        found   == IF validate_digest(last) THEN {last} ELSE IF last = "latest" THEN srv.tagged ELSE {}
        sent(d) == IF srv.damage = "manifest" THEN CHOOSE x \in DOMAIN Documents : x # d ELSE d
    IN  IF ~Admits(srv, token) THEN {Refusal(401)}
        ELSE IF ~Serves(srv, url) \/ found = {} THEN {Refusal(404)}
        ELSE {Response(200, IF srv.header = "none" THEN {} ELSE {<<srv.header, d>>}, sent(d), 0, {}) :
                d \in found}
respond_blob(srv, url, token) ==
    LET l == Last(url.segments)
    IN  IF ~Admits(srv, token) THEN {Refusal(401)}
        ELSE IF ~Serves(srv, url) THEN {Refusal(404)}
        ELSE {Response(200, {}, IF srv.damage = "blob" THEN "other" ELSE l,
                       IF srv.damage = "cut" THEN BodySize[l] - 1 ELSE BodySize[l],
                       IF srv.length THEN {BodySize[l]} ELSE {})}

\* A challenge needs all three keys, and every part between commas its equals
\* sign: a part is <<key, value>>, or <<word>> without one.
BearerChallenge(header) ==
    IF /\ \A i \in DOMAIN header : Len(header[i]) = 2
       /\ {"realm", "service", "scope"} \subseteq {header[i][1] : i \in DOMAIN header}
    THEN {[k \in {"realm", "service", "scope"} |->
             header[Max({i \in DOMAIN header : header[i][1] = k})][2]]}
    ELSE {}
token_url(challenge) == [realm |-> challenge.realm, service |-> challenge.service, scope |-> challenge.scope]

\* What the token endpoint at url answers: [url, status, token, access_token].
fetch_bearer_token(srv, challenge) ==
    IF token_url(challenge) # srv.token.url \/ srv.token.status # 200 THEN {}
    ELSE IF srv.token.token # {} THEN srv.token.token ELSE srv.token.access_token

\* One retry with the token, which goes to the host that asked for it.
with_challenge(srv, Ask(_)) ==
    LET token == UNION {fetch_bearer_token(srv, c) : c \in BearerChallenge(srv.challenge)}
        last(r) == IF r.status = 401 THEN UNION {Ask({t}) : t \in token} ELSE {r}
    IN  {r \in UNION {last(r) : r \in Ask({})} : r.status = 200}

ask_manifest(srv, url) == with_challenge(srv, LAMBDA token : respond(srv, url, token))
blocking_get_with_challenge(srv, url) == with_challenge(srv, LAMBDA token : respond_blob(srv, url, token))

validate_content_digest_header(r) == \A d \in r.digest : d[1] \in {"sha256", "sha512"}

head_manifest(srv, url) ==
    {[digest |-> {d[2] : d \in r.digest}] : r \in {r \in ask_manifest(srv, url) :
                                                     validate_content_digest_header(r)}}

fetch_manifest(srv, url) ==
    LET last == Last(url.segments)
        expected(r) == IF validate_digest(last) THEN {last} ELSE {d[2] : d \in r.digest}
    IN  {r.body : r \in {r \in ask_manifest(srv, url) :
                            /\ validate_content_digest_header(r)
                            /\ \A d \in expected(r) : r.body = d}}

----------------------------------------------------------------------------
(* Sources and blueprints *)

oci_source_digest(ref, d) == ref.host \o ref.repository \o <<d>>

\* The digest of an image: of the manifest the probe names, else of the one
\* fetched.
resolve_image(srv, source) ==
    UNION {{oci_source_digest(ref, d) :
              d \in UNION {IF probe.digest # {} THEN probe.digest
                           ELSE fetch_manifest(srv, manifest_url(ref)) :
                              probe \in head_manifest(srv, manifest_url(ref))}} :
           ref \in parse(References[source])}

classify_media_type(media) ==
    CASE media \in {"oci image", "docker manifest"} -> "image"
      [] media \in {"oci index", "docker list"} -> "index"
      [] OTHER -> "unsupported"

\* The first entry for the platform; on arm64 the first of variant v8, else the
\* last of no variant.
select_platform(entries) ==
    LET linux(i) == entries[i].os = "linux" /\ entries[i].arch = Arch
        exact == {i \in DOMAIN entries : linux(i) /\
                     (CASE Arch = "amd64" -> entries[i].variant = ""
                        [] Arch = "arm64" -> entries[i].variant = "v8"
                        [] OTHER -> TRUE)}
        plain == {i \in DOMAIN entries : linux(i) /\ Arch = "arm64" /\ entries[i].variant = ""}
    IN  IF exact # {} THEN {entries[CHOOSE i \in exact : \A j \in exact : i <= j].digest}
        ELSE IF plain # {} THEN {entries[CHOOSE i \in plain : \A j \in plain : j <= i].digest}
        ELSE {}

is_layer_media_type(media) == media \in {"tar", "tar+gzip", "tar+zstd"}

\* The digests of a manifest's layers, of known media type and sane size; a
\* manifest without layers (an index) does not parse as an image.
layer_digests(m) ==
    IF /\ m.layers # <<>>
       /\ \A i \in DOMAIN m.layers :
             is_layer_media_type(m.layers[i].media) /\ LinkSize[m.layers[i].digest] >= 0
    THEN {[i \in DOMAIN m.layers |-> m.layers[i].digest]}
    ELSE {}

\* A layer: where its blob is, the size and the digest it is to have, and the
\* digest of its link, which one repository has one of per blob.
build_layers(ref, m) ==
    {[i \in DOMAIN digests |->
        [uuid |-> digests[i], link |-> blob_url(ref, digests[i]), size |-> LinkSize[digests[i]],
         expected |-> [algorithm |-> "sha256", digest |-> digests[i]], link_digest |-> digests[i]]] :
     digests \in layer_digests(m)}

\* The image manifest behind a manifest: itself, or the index's entry.
image_manifest(srv, ref, d) ==
    CASE classify_media_type(Documents[d].media) = "image" -> {d}
      [] classify_media_type(Documents[d].media) = "index" ->
            UNION {fetch_manifest(srv, manifest_url_for_digest(ref, inner)) :
                     inner \in select_platform(Documents[d].manifests)}
      [] OTHER -> {}

\* The layers of the image, its tag asked for again.
fetch_layers(srv, source) ==
    UNION {UNION {UNION {UNION {build_layers(ref, Documents[image]) : image \in image_manifest(srv, ref, d)} :
                           d \in fetch_manifest(srv, manifest_url(asked))} :
                  ref \in from_manifest_url(manifest_url(asked))} :
           asked \in parse(References[source])}

----------------------------------------------------------------------------
(* Loading *)

\* A copy is checked against the size its link declares and, for a layer, the
\* digest it must have.
verify_against_expected(body, expected) == \A d \in expected : body = d
validate_outcome(size, declared) == declared # 0 => size = declared

copy_local(name) == BodySize[name] = LinkSize[name] /\ validate_outcome(BodySize[name], LinkSize[name])
copy_bytes(name) == BodySize[name] = LinkSize[name] /\ validate_outcome(BodySize[name], LinkSize[name])

\* The length the server states counts first, then the size in the link.
validate_http_outcome(r, declared) ==
    IF \E n \in r.length : n > 0 THEN r.length = {r.size} ELSE validate_outcome(r.size, declared)
copy_http(r, declared) ==
    /\ \A n \in r.length : (declared # 0 /\ n # 0) => n = declared
    /\ validate_http_outcome(r, declared)

\* The bodies a load may take: of a raw source, and of a layer of an image.
load_raw(name) ==
    LET plain == Response(200, {}, name, BodySize[name], {BodySize[name]})
    IN  IF CASE LinkKind[name] = "local" -> copy_local(name)
             [] LinkKind[name] = "bytes" -> copy_bytes(name)
             [] OTHER -> copy_http(plain, LinkSize[name])
        THEN {name} ELSE {}
load_layer(srv, layer) ==
    {r.body : r \in {r \in blocking_get_with_challenge(srv, layer.link) :
                        /\ copy_http(r, layer.size)
                        /\ verify_against_expected(r.body, {layer.expected.digest})}}
=============================================================================
