----------------------------- MODULE IndexCodec -----------------------------
(***************************************************************************)
(* How the image index stores a blueprint (image-core                      *)
(* storage/index/serde.rs): a flat value of fixed-width fields and of      *)
(* payloads behind their lengths, read back with a cursor that must come   *)
(* out at the end.                                                         *)
(*                                                                         *)
(* A fixed-width field (identity, size, digest, count, tag) is one element *)
(* of the value, a payload as many as its text has parts.  A failed        *)
(* assertion of the decoder is the empty set.                              *)
(***************************************************************************)
EXTENDS Registry

BLUEPRINT_FORMAT_MARKER == 2
LINK_LOCAL == 1
LINK_BYTES == 2
LINK_HTTP  == 3
MAX_LAYER_COUNT == 100000

\* A URL as text, and what the HTTP client makes of the text.
as_str(url) == <<url.scheme, "://">> \o url.host \o <<"/">> \o url.segments
UrlOf(text) ==
    LET slash == Min({i \in DOMAIN text : text[i] = "/"})
    IN  [scheme |-> text[1], host |-> SubSeq(text, 3, slash - 1),
         segments |-> SubSeq(text, slash + 1, Len(text))]

discriminant(algorithm) == CASE algorithm = "blake3" -> 1 [] algorithm = "sha256" -> 2 [] OTHER -> 3
digest_len(algorithm) == IF algorithm = "sha512" THEN 64 ELSE 32
from_parts(tag, len) == {a \in {"blake3", "sha256", "sha512"} : discriminant(a) = tag /\ digest_len(a) = len}

----------------------------------------------------------------------------
(* Encoding *)

encode_expected_digest(d) == <<discriminant(d.algorithm), digest_len(d.algorithm), d.digest>>

\* Every layer the pipeline makes is behind a URL.
encode_layer(layer) ==
    LET payload == as_str(layer.link)
    IN  <<layer.uuid, LINK_HTTP, Len(payload)>> \o payload \o <<layer.size>>
          \o encode_expected_digest(layer.expected) \o <<layer.link_digest>>

encode_extract(extract) ==
    IF extract = {} THEN <<0>>
    ELSE LET p == CHOOSE p \in extract : TRUE IN <<1, Len(p)>> \o p

encode_blueprint(bp) ==
    <<BLUEPRINT_FORMAT_MARKER, bp.target, Len(bp.layers)>>
      \o FoldLeft(LAMBDA bytes, layer : bytes \o encode_layer(layer), <<>>, bp.layers)
      \o encode_extract(bp.extract)

----------------------------------------------------------------------------
(* Decoding *)

\* A cursor is [pos, read]: where it stands, and what was read so far.
Cursor(pos, read) == [pos |-> pos, read |-> read]
take_bytes(bytes, cursor, n) ==
    IF cursor.pos + n > Len(bytes) THEN {}
    ELSE {Cursor(cursor.pos + n, SubSeq(bytes, cursor.pos + 1, cursor.pos + n))}
take_byte(bytes, cursor) == take_bytes(bytes, cursor, 1)

decode_expected_digest(bytes, cursor) ==
    UNION {{Cursor(c.pos, [algorithm |-> a, digest |-> c.read[3]]) : a \in from_parts(c.read[1], c.read[2])} :
           c \in {c \in take_bytes(bytes, cursor, 3) : c.read[2] \in {32, 64}}}

decode_link(variant, payload) ==
    CASE variant = LINK_HTTP -> {UrlOf(payload)}
      [] variant \in {LINK_LOCAL, LINK_BYTES} -> {payload}
      [] OTHER -> {}

decode_layer(bytes, cursor) ==
    UNION {UNION {UNION {UNION {UNION {
        {Cursor(digest.pos, [uuid |-> head.read[1], link |-> link, size |-> size.read[1],
                             expected |-> expected.read, link_digest |-> digest.read[1]]) :
            link \in decode_link(head.read[2], payload.read)} :
        digest \in take_bytes(bytes, expected, 1)} :
        expected \in decode_expected_digest(bytes, size)} :
        size \in take_byte(bytes, payload)} :
        payload \in take_bytes(bytes, head, head.read[3])} :
        head \in take_bytes(bytes, cursor, 3)}

decode_layers(bytes, cursor, count) ==
    FoldLeft(LAMBDA cursors, i :
                 UNION {{Cursor(l.pos, Append(c.read, l.read)) : l \in decode_layer(bytes, c)} : c \in cursors},
             {Cursor(cursor.pos, <<>>)}, [i \in 1 .. count |-> i])

decode_extract(bytes, cursor) ==
    LET some(c) == UNION {{Cursor(p.pos, {p.read}) : p \in take_bytes(bytes, len, len.read[1])} :
                             len \in take_byte(bytes, c)}
    IN  UNION {IF c.read = <<0>> THEN {Cursor(c.pos, {})} ELSE IF c.read = <<1>> THEN some(c) ELSE {} :
               c \in take_byte(bytes, cursor)}

assert_consumed(bytes, cursor) == cursor.pos = Len(bytes)

decode_blueprint(bytes) ==
    LET heads == {c \in take_bytes(bytes, Cursor(0, <<>>), 3) :
                    c.read[1] = BLUEPRINT_FORMAT_MARKER /\ c.read[3] <= MAX_LAYER_COUNT}
    IN  UNION {UNION {
            {[target |-> head.read[2], layers |-> layers.read, extract |-> extract.read] :
                extract \in {c \in decode_extract(bytes, layers) : assert_consumed(bytes, c)}} :
            layers \in decode_layers(bytes, head, head.read[3])} : head \in heads}
=============================================================================
