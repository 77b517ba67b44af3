------------------------------- MODULE Capture -------------------------------
(***************************************************************************)
(* The capture of a process's output: CaptureOptions and its validation    *)
(* (libs/guest-client/src/process.rs), and the CaptureAccumulator that     *)
(* takes the output in chunks.  A byte is 1 or the newline 2.              *)
(***************************************************************************)
EXTENDS Integers, Sequences

CONSTANT MAX_CAPTURE_LIMIT

NEWLINE == 2
Byte == {1, NEWLINE}

OutputOptions ==
    [route : {"capture", "host_file", "discard"}, limit : Nat, overflow : {"stop", "truncate"},
     end : {"stream", "bytes", "line", "delimiter"}, size : Nat, delimiter : Seq(Byte)]

\* A capture that could keep nothing or too much is refused.
validate_output(o) ==
    o.route = "capture" =>
        /\ o.limit \in 1..MAX_CAPTURE_LIMIT
        /\ o.end = "bytes" => o.size # 0
        /\ o.end = "delimiter" => o.delimiter # <<>>

-----------------------------------------------------------------------------
(* CaptureAccumulator.                                                     *)

\* A bug: only the incoming bytes are searched.
find_delimiter_end_in_chunk(existing, incoming, delimiter) ==
    LET ends == {e \in Len(delimiter)..Len(incoming) :
                   SubSeq(incoming, e - Len(delimiter) + 1, e) = delimiter}
    IN IF delimiter = <<>> \/ ends = {} THEN {}
       ELSE {Len(existing) + CHOOSE e \in ends : \A x \in ends : e <= x}

\* find_delimiter_end: the first end of the delimiter in the bytes kept so
\* far followed by the incoming ones, or none.
find_delimiter_end(existing, incoming, delimiter) ==
    LET all == existing \o incoming
        ends == {e \in Len(delimiter)..Len(all) :
                   SubSeq(all, e - Len(delimiter) + 1, e) = delimiter}
    IN IF delimiter = <<>> \/ ends = {} THEN {}
       ELSE {CHOOSE e \in ends : \A x \in ends : e <= x}

\* append: the accumulator after the bytes that fit, or an error.
append(options, acc, incoming) ==
    LET remaining == options.limit - Len(acc.bytes)
        overflowed == Len(incoming) > remaining
    IN IF remaining < 0 \/ (overflowed /\ options.overflow = "stop") THEN {}
       ELSE {[bytes |-> acc.bytes \o SubSeq(incoming, 1, IF overflowed THEN remaining ELSE Len(incoming)),
              end_reached |-> acc.end_reached \/ overflowed]}

Ended(accs) == {[acc EXCEPT !.end_reached = TRUE] : acc \in accs}

push(options, acc, incoming) ==
    LET upTo(ends) ==
            IF ends = {} THEN append(options, acc, incoming)
            ELSE LET count == (CHOOSE e \in ends : TRUE) - Len(acc.bytes)
                 IN IF count < 0 THEN Ended({acc})
                    ELSE Ended(append(options, acc, SubSeq(incoming, 1, count)))
    IN IF acc.end_reached \/ incoming = <<>> THEN {acc}
       ELSE CASE options.end = "stream" -> append(options, acc, incoming)
              [] options.end = "bytes" ->
                   LET remaining == options.size - Len(acc.bytes)
                       count == IF remaining < Len(incoming) THEN remaining ELSE Len(incoming)
                   IN IF remaining < 0 THEN Ended({acc})
                      ELSE {IF Len(a.bytes) >= options.size THEN [a EXCEPT !.end_reached = TRUE] ELSE a :
                              a \in append(options, acc, SubSeq(incoming, 1, count))}
              [] options.end = "delimiter" ->
                   upTo(find_delimiter_end(acc.bytes, incoming, options.delimiter))
              [] options.end = "line" -> upTo(find_delimiter_end(acc.bytes, incoming, <<NEWLINE>>))

-----------------------------------------------------------------------------
(* What the accumulator is to compute.                                     *)

\* What the documentation of CaptureOptions promises of a whole output:
\* nothing after the configured end, and no more than the limit.
Delimiter(o) == IF o.end = "line" THEN <<NEWLINE>> ELSE o.delimiter
Ends(delimiter, all) ==
    {e \in Len(delimiter)..Len(all) : SubSeq(all, e - Len(delimiter) + 1, e) = delimiter}
Boundary(o, all) ==
    LET ends == Ends(Delimiter(o), all)
    IN IF o.end = "bytes" THEN IF o.size < Len(all) THEN o.size ELSE Len(all)
       ELSE IF o.end \in {"line", "delimiter"} /\ ends # {}
       THEN CHOOSE e \in ends : \A x \in ends : e <= x
       ELSE Len(all)
Kept(o, all) ==
    SubSeq(all, 1, IF Boundary(o, all) <= o.limit THEN Boundary(o, all) ELSE o.limit)
=============================================================================
