---------------------------- MODULE CaptureProofs ----------------------------
(***************************************************************************)
(* The CaptureAccumulator computes what the options of a capture say of    *)
(* the whole output, however it is cut into chunks, for all options,       *)
(* outputs and chunks; and a run that is seen to finish has given it all   *)
(* that its process wrote.                                                 *)
(*                                                                         *)
(* Captured relates an accumulator to the bytes it has been given: they    *)
(* are all kept and the end has not come (Open), or no byte to come can    *)
(* change what is to be kept (Settled).  FlowInv accounts for the bytes of *)
(* a stream: those given, those on the connection and those in the pipe    *)
(* are, in this order, the bytes the process wrote.                        *)
(***************************************************************************)
EXTENDS ProcessIoProofs, WellFoundedInduction

\* More output may be kept: all of it was, and its end has not come.
Open(o, all) ==
    /\ Len(all) <= o.limit
    /\ o.end = "bytes" => Len(all) < o.size
    /\ o.end \in {"line", "delimiter"} => Ends(Delimiter(o), all) = {}

\* Whatever follows, these are the bytes to keep.
Settled(o, bytes, all) ==
    \A more \in Seq(Byte) :
        /\ Kept(o, all \o more) = bytes
        /\ o.overflow = "stop" => Boundary(o, all \o more) <= o.limit

\* What the accumulator is after all these bytes, in any number of chunks.
Captured(o, acc, all) ==
    \/ acc.end_reached = FALSE /\ acc.bytes = all /\ Open(o, all)
    \/ acc.end_reached = TRUE /\ Settled(o, acc.bytes, all)

\* A non-empty set of numbers has a least one.
LEMMA LeastMember ==
    ASSUME NEW S, S \subseteq Nat, S # {}
    PROVE  \E n \in S : \A m \in S : n <= m
<1> DEFINE Less == {ss \in Nat \X Nat : ss[1] < ss[2]}
<1>1. IsWellFoundedOn(Less, Nat)
    BY NatLessThanWellFounded DEF Less, OpToRel
<1>2. PICK n \in S : \A m \in S : <<m, n>> \notin Less
    BY <1>1, WFMin, Zenon
<1>3. ASSUME NEW m \in S PROVE n <= m
    <2>1. n \in Nat /\ m \in Nat
        OBVIOUS
    <2>2. m < n => <<m, n>> \in Less
        BY <2>1
    <2> QED BY <1>2, <2>1, <2>2
<1> QED BY <1>3

\* The chunk before one that is not the first.
LEMMA OneBefore ==
    ASSUME NEW n \in Nat, NEW k \in 0 .. n, k # 0
    PROVE  k \in 1 .. n /\ k - 1 \in 0 .. n /\ ~(k <= k - 1)
OBVIOUS

\* A prefix of a sequence is one of what it grows to.
LEMMA PrefixStays ==
    ASSUME NEW S, NEW a \in Seq(S), NEW b \in Seq(S), NEW n \in 0 .. Len(a)
    PROVE  SubSeq(a \o b, 1, n) = SubSeq(a, 1, n)
<1>1. CASE n = 0
    BY <1>1, SubSeqEmpty
<1>2. CASE n # 0
    <2>1. n \in 1 .. Len(a) /\ 1 \in 1 .. Len(a)
        BY <1>2, LenProperties
    <2> QED BY <2>1, SubSeqOfConcat1
<1> QED BY <1>1, <1>2

\* The first bytes of what is added extend what was there.
LEMMA PrefixOfAddition ==
    ASSUME NEW S, NEW a \in Seq(S), NEW b \in Seq(S), NEW n \in 0 .. Len(b)
    PROVE  a \o SubSeq(b, 1, n) = SubSeq(a \o b, 1, Len(a) + n)
<1>0. Len(a) \in Nat /\ Len(b) \in Nat
    BY LenProperties
<1>1. SubSeq(b, 1, n) \in Seq(S) /\ Len(SubSeq(b, 1, n)) = n
    BY PrefixFacts
<1>2. \A i \in 1 .. n : SubSeq(b, 1, n)[i] = b[i]
    <2>1. \A i \in 1 .. n : b[i] \in S
        BY <1>0, ElementOfSeq
    <2> QED BY <2>1, SubSeqProperties
<1> DEFINE l == a \o SubSeq(b, 1, n)
           r == SubSeq(a \o b, 1, Len(a) + n)
<1>3. /\ l \in Seq(S) /\ Len(l) = Len(a) + n
      /\ \A i \in 1 .. Len(a) + n :
            l[i] = IF i <= Len(a) THEN a[i] ELSE SubSeq(b, 1, n)[i - Len(a)]
    BY <1>1, ConcatProperties
<1>4. /\ a \o b \in Seq(S) /\ Len(a \o b) = Len(a) + Len(b)
      /\ \A i \in 1 .. Len(a) + Len(b) : (a \o b)[i] = IF i <= Len(a) THEN a[i] ELSE b[i - Len(a)]
    BY ConcatProperties
<1>5. r \in Seq(S) /\ Len(r) = Len(a) + n
    BY <1>0, <1>4, PrefixFacts
<1>6. \A i \in 1 .. Len(a) + n : r[i] = (a \o b)[i]
    <2>1. \A i \in 1 .. Len(a) + n : (a \o b)[i] \in S
        BY <1>0, <1>4, ElementOfSeq
    <2> QED BY <1>0, <2>1, SubSeqProperties
<1>7. ASSUME NEW i \in 1 .. Len(a) + n PROVE l[i] = r[i]
    <2>1. r[i] = IF i <= Len(a) THEN a[i] ELSE b[i - Len(a)]
        BY <1>0, <1>4, <1>6
    <2>2. i > Len(a) => i - Len(a) \in 1 .. n
        BY <1>0
    <2>3. l[i] = IF i <= Len(a) THEN a[i] ELSE SubSeq(b, 1, n)[i - Len(a)]
        BY <1>3
    <2>4. CASE i <= Len(a)
        BY <2>1, <2>3, <2>4
    <2>5. CASE i > Len(a)
        <3>1. SubSeq(b, 1, n)[i - Len(a)] = b[i - Len(a)]
            BY <1>2, <2>2, <2>5
        <3>2. ~(i <= Len(a))
            BY <1>0, <2>5
        <3> HIDE DEF l, r
        <3> QED BY <2>1, <2>3, <3>1, <3>2
    <2> QED BY <1>0, <2>4, <2>5
<1> HIDE DEF l, r
<1>8. l = r
    BY <1>3, <1>5, <1>7, SeqEqual
<1> QED BY <1>8 DEF l, r

\* An end of the delimiter is one of the bytes up to it.
LEMMA EndsStay ==
    ASSUME NEW d \in Seq(Byte), d # <<>>, NEW a \in Seq(Byte), NEW b \in Seq(Byte),
           NEW e \in Nat, e <= Len(a)
    PROVE  e \in Ends(d, a \o b) <=> e \in Ends(d, a)
<1>1. Len(d) \in Nat \ {0} /\ Len(a) \in Nat /\ Len(b) \in Nat
    BY LenProperties, EmptySeq
<1>2. Len(a \o b) = Len(a) + Len(b)
    BY ConcatProperties
<1>3. CASE e < Len(d)
    BY <1>1, <1>3 DEF Ends
<1>4. CASE e >= Len(d)
    <2>1. e - Len(d) + 1 \in 1 .. Len(a) /\ e \in 1 .. Len(a)
        BY <1>1, <1>4
    <2>2. SubSeq(a \o b, e - Len(d) + 1, e) = SubSeq(a, e - Len(d) + 1, e)
        BY <2>1, SubSeqOfConcat1
    <2>3. e \in Len(d) .. Len(a) /\ e \in Len(d) .. Len(a \o b)
        BY <1>1, <1>2, <1>4
    <2> QED BY <2>2, <2>3 DEF Ends
<1> QED BY <1>1, <1>3, <1>4

\* A prefix of a prefix.
LEMMA PrefixOfPrefix ==
    ASSUME NEW S, NEW a \in Seq(S), NEW n \in 0 .. Len(a), NEW k \in 0 .. n
    PROVE  SubSeq(SubSeq(a, 1, n), 1, k) = SubSeq(a, 1, k)
<1>0. Len(a) \in Nat /\ n \in Nat
    BY LenProperties
<1>1. SubSeq(a, 1, n) \o SubSeq(a, n + 1, Len(a)) = SubSeq(a, 1, Len(a))
    <2>1. 1 \in 1 .. Len(a) + 1 /\ n \in 1 - 1 .. Len(a) /\ Len(a) \in n .. Len(a)
        BY <1>0
    <2> QED BY <2>1, ConcatAdjacentSubSeq, ZenonT(30)
<1>2. SubSeq(a, 1, Len(a)) = a
    BY SubSeqFull
<1>3. SubSeq(a, 1, n) \in Seq(S) /\ Len(SubSeq(a, 1, n)) = n
    BY PrefixFacts
<1>4. SubSeq(a, n + 1, Len(a)) \in Seq(S)
    <2>1. \A i \in n + 1 .. Len(a) : a[i] \in S
        BY <1>0, ElementOfSeq
    <2> QED BY <1>0, <2>1, SubSeqProperties
<1> DEFINE u == SubSeq(a, 1, n)
           v == SubSeq(a, n + 1, Len(a))
<1>5. u \in Seq(S) /\ Len(u) = n /\ v \in Seq(S) /\ u \o v = a
    BY <1>1, <1>2, <1>3, <1>4, Zenon
<1> HIDE DEF u, v
<1>6. SubSeq(u \o v, 1, k) = SubSeq(u, 1, k)
    BY <1>5, PrefixStays
<1> QED BY <1>5, <1>6 DEF u

\* The boundary, by what the options say of the end.
LEMMA BoundaryFacts ==
    ASSUME NEW o \in OutputOptions, validate_output(o), o.route = "capture", NEW all \in Seq(Byte)
    PROVE  /\ o.end = "stream" => Boundary(o, all) = Len(all)
           /\ o.end = "bytes" => Boundary(o, all) = IF o.size < Len(all) THEN o.size ELSE Len(all)
           /\ o.end \in {"line", "delimiter"} =>
                /\ Delimiter(o) \in Seq(Byte) /\ Delimiter(o) # <<>>
                /\ Ends(Delimiter(o), all) = {} => Boundary(o, all) = Len(all)
                /\ \A e \in Ends(Delimiter(o), all) :
                      (\A x \in Ends(Delimiter(o), all) : e <= x) => Boundary(o, all) = e
<1>1. o.end = "stream" => Boundary(o, all) = Len(all)
    BY DEF Boundary
<1>2. o.end = "bytes" => Boundary(o, all) = IF o.size < Len(all) THEN o.size ELSE Len(all)
    BY DEF Boundary
<1>3. ASSUME o.end \in {"line", "delimiter"}
      PROVE  /\ Delimiter(o) \in Seq(Byte) /\ Delimiter(o) # <<>>
             /\ Ends(Delimiter(o), all) = {} => Boundary(o, all) = Len(all)
             /\ \A e \in Ends(Delimiter(o), all) :
                   (\A x \in Ends(Delimiter(o), all) : e <= x) => Boundary(o, all) = e
    <2> DEFINE d == Delimiter(o)
               ends == Ends(d, all)
    <2>1. d \in Seq(Byte) /\ d # <<>>
        <3>1. CASE o.end = "line"
            <4>1. NEWLINE \in Byte /\ d = <<NEWLINE>>
                BY <3>1 DEF Byte, Delimiter
            <4> QED BY <4>1
        <3>2. CASE o.end = "delimiter"
            <4>1. d = o.delimiter /\ o.delimiter # <<>>
                BY <3>2 DEF Delimiter, validate_output
            <4> QED BY <4>1 DEF OutputOptions
        <3> QED BY <1>3, <3>1, <3>2
    <2>2. ends \subseteq Nat
        BY <2>1, LenProperties DEF Ends
    <2>3. Boundary(o, all) = IF ends # {} THEN CHOOSE e \in ends : \A x \in ends : e <= x
                             ELSE Len(all)
        BY <1>3 DEF Boundary
    <2> HIDE DEF ends, d
    <2>4. ASSUME NEW e \in ends, \A x \in ends : e <= x PROVE Boundary(o, all) = e
        <3>1. \A f \in ends : (\A x \in ends : f <= x) => f = e
            BY <2>4, <2>2
        <3> QED BY <2>3, <2>4, <3>1
    <2> QED BY <2>1, <2>3, <2>4 DEF d, ends
<1> QED BY <1>1, <1>2, <1>3

\* Bytes are settled when no more output moves the boundary or the limit.
LEMMA Settles ==
    ASSUME NEW o \in OutputOptions, NEW all \in Seq(Byte), NEW k \in 0 .. Len(all),
           \A more \in Seq(Byte) :
               /\ k = IF Boundary(o, all \o more) <= o.limit THEN Boundary(o, all \o more)
                      ELSE o.limit
               /\ o.overflow = "stop" => Boundary(o, all \o more) <= o.limit
    PROVE  Settled(o, SubSeq(all, 1, k), all)
<1>1. ASSUME NEW more \in Seq(Byte) PROVE Kept(o, all \o more) = SubSeq(all, 1, k)
    <2>1. Kept(o, all \o more) = SubSeq(all \o more, 1, k)
        BY DEF Kept
    <2> QED BY <2>1, PrefixStays
<1> QED BY <1>1 DEF Settled

\* What is captured so far is what is to be kept so far.
LEMMA CapturedIsKept ==
    ASSUME NEW o \in OutputOptions, validate_output(o), o.route = "capture",
           NEW acc, NEW all \in Seq(Byte), Captured(o, acc, all)
    PROVE  /\ acc.bytes = Kept(o, all)
           /\ o.overflow = "stop" => Boundary(o, all) <= o.limit
<1>0. Len(all) \in Nat /\ o.limit \in Nat /\ o.size \in Nat
    BY LenProperties DEF OutputOptions
<1>1. CASE Settled(o, acc.bytes, all)
    <2>1. <<>> \in Seq(Byte) /\ all \o <<>> = all
        BY EmptySeq, ConcatEmptySeq
    <2> QED BY <1>1, <2>1, Zenon DEF Settled
<1>2. CASE acc.bytes = all /\ Open(o, all)
    <2>1. o.end \in {"stream", "bytes", "line", "delimiter"}
        BY DEF OutputOptions
    <2>2. Boundary(o, all) = Len(all)
        BY <1>0, <1>2, <2>1, BoundaryFacts DEF Open
    <2>3. Kept(o, all) = SubSeq(all, 1, Len(all))
        BY <1>2, <2>2 DEF Kept, Open
    <2> QED BY <1>2, <2>2, <2>3, SubSeqFull DEF Open
<1> QED BY <1>1, <1>2 DEF Captured

\* append keeps what fits, and says so when something did not.
LEMMA AppendKeeps ==
    ASSUME NEW o \in OutputOptions, NEW acc \in Accumulator, acc.end_reached = FALSE,
           Len(acc.bytes) <= o.limit, NEW x \in Seq(Byte), NEW a \in append(o, acc, x)
    PROVE  /\ a \in Accumulator
           /\ \/ /\ Len(acc.bytes \o x) <= o.limit
                 /\ a.bytes = acc.bytes \o x /\ a.end_reached = FALSE
              \/ /\ Len(acc.bytes \o x) > o.limit /\ o.overflow # "stop"
                 /\ a.bytes = SubSeq(acc.bytes \o x, 1, o.limit) /\ a.end_reached = TRUE
<1> DEFINE c == acc.bytes
           remaining == o.limit - Len(c)
           part == SubSeq(x, 1, IF Len(x) > remaining THEN remaining ELSE Len(x))
<1>1. c \in Seq(Byte) /\ Len(c) \in Nat /\ Len(x) \in Nat /\ o.limit \in Nat
    BY LenProperties DEF Accumulator, OutputOptions
<1>2. c \o x \in Seq(Byte) /\ Len(c \o x) = Len(c) + Len(x)
    BY <1>1, ConcatProperties
<1>3. /\ a = [bytes |-> c \o part, end_reached |-> FALSE \/ Len(x) > remaining]
      /\ Len(x) > remaining => o.overflow # "stop"
    BY Zenon DEF append
<1>4. CASE Len(x) > remaining
    <2>1. remaining \in 0 .. Len(x) /\ Len(c) + remaining = o.limit
        BY <1>1, <1>4
    <2>2. c \o part = SubSeq(c \o x, 1, o.limit)
        BY <1>1, <1>4, <2>1, PrefixOfAddition, ZenonT(30)
    <2>3. o.limit \in 0 .. Len(c \o x)
        BY <1>1, <1>2, <1>4
    <2>4. c \o part \in Seq(Byte)
        BY <1>2, <2>2, <2>3, PrefixFacts
    <2>5. a.end_reached = TRUE /\ a.bytes = c \o part
        BY <1>3, <1>4, Zenon
    <2>6. a \in Accumulator
        BY <1>3, <1>4, <2>4 DEF Accumulator
    <2>7. Len(c \o x) > o.limit
        BY <1>1, <1>2, <1>4
    <2> QED BY <1>3, <1>4, <2>2, <2>5, <2>6, <2>7, Zenon
<1>5. CASE ~(Len(x) > remaining)
    <2>1. c \o part = c \o x
        BY <1>1, <1>5, SubSeqFull, Zenon
    <2>2. a.end_reached = FALSE /\ a.bytes = c \o x
        BY <1>3, <1>5, <2>1, Zenon
    <2>3. a \in Accumulator
        BY <1>2, <1>3, <1>5, <2>1 DEF Accumulator
    <2>4. Len(c \o x) <= o.limit
        BY <1>1, <1>2, <1>5
    <2> QED BY <2>2, <2>3, <2>4
<1> QED BY <1>4, <1>5, Zenon

\* Settled bytes stay settled.
LEMMA StaysSettled ==
    ASSUME NEW o, NEW bytes, NEW all \in Seq(Byte), NEW incoming \in Seq(Byte),
           Settled(o, bytes, all)
    PROVE  Settled(o, bytes, all \o incoming)
<1>1. ASSUME NEW more \in Seq(Byte)
      PROVE  /\ Kept(o, (all \o incoming) \o more) = bytes
             /\ o.overflow = "stop" => Boundary(o, (all \o incoming) \o more) <= o.limit
    <2>1. (all \o incoming) \o more = all \o (incoming \o more)
        BY ConcatAssociative
    <2>2. incoming \o more \in Seq(Byte)
        BY ConcatProperties
    <2> QED BY <2>1, <2>2, Zenon DEF Settled
<1> QED BY <1>1 DEF Settled

\* Truncated bytes are settled once the boundary is over the limit for good.
LEMMA OverflowSettles ==
    ASSUME NEW o \in OutputOptions, o.overflow # "stop", NEW all \in Seq(Byte),
           o.limit <= Len(all),
           \A more \in Seq(Byte) :
               Boundary(o, all \o more) \in Nat /\ Boundary(o, all \o more) > o.limit
    PROVE  Settled(o, SubSeq(all, 1, o.limit), all)
<1>1. o.limit \in 0 .. Len(all) /\ o.limit \in Nat
    BY LenProperties DEF OutputOptions
<1>2. ASSUME NEW more \in Seq(Byte)
      PROVE  o.limit = IF Boundary(o, all \o more) <= o.limit THEN Boundary(o, all \o more)
                       ELSE o.limit
    BY <1>1
<1> QED BY <1>1, <1>2, Settles

\* Bytes up to the boundary are settled once it is found.
LEMMA FoundSettles ==
    ASSUME NEW o \in OutputOptions, NEW all \in Seq(Byte), NEW e \in 0 .. Len(all), e <= o.limit,
           \A more \in Seq(Byte) : Boundary(o, all \o more) = e
    PROVE  Settled(o, SubSeq(all, 1, e), all)
<1>1. ASSUME NEW more \in Seq(Byte)
      PROVE  e = IF Boundary(o, all \o more) <= o.limit THEN Boundary(o, all \o more)
                 ELSE o.limit
    OBVIOUS
<1> QED BY <1>1, Settles

\* A capture up to the end of the stream.
LEMMA PushStream ==
    ASSUME NEW o \in OutputOptions, validate_output(o), o.route = "capture", o.end = "stream",
           NEW acc \in Accumulator, acc.end_reached = FALSE, Open(o, acc.bytes),
           NEW incoming \in Seq(Byte), NEW a \in append(o, acc, incoming)
    PROVE  a \in Accumulator /\ Captured(o, a, acc.bytes \o incoming)
<1> DEFINE all == acc.bytes \o incoming
<1>1. acc.bytes \in Seq(Byte) /\ o.limit \in Nat /\ Len(acc.bytes) <= o.limit
    BY DEF Accumulator, OutputOptions, Open
<1>2. all \in Seq(Byte) /\ Len(all) \in Nat
    BY <1>1, ConcatProperties, LenProperties
<1> HIDE DEF all
<1>3. CASE Len(all) <= o.limit /\ a.bytes = all /\ a.end_reached = FALSE
    <2>1. Open(o, all)
        BY <1>3 DEF Open
    <2> QED BY <1>1, <1>3, <2>1, AppendKeeps, Zenon DEF Captured, all
<1>4. CASE Len(all) > o.limit /\ o.overflow # "stop" /\ a.bytes = SubSeq(all, 1, o.limit)
           /\ a.end_reached = TRUE
    <2>1. ASSUME NEW more \in Seq(Byte)
          PROVE  Boundary(o, all \o more) \in Nat /\ Boundary(o, all \o more) > o.limit
        <3>1. /\ all \o more \in Seq(Byte) /\ Len(all \o more) = Len(all) + Len(more)
              /\ Len(more) \in Nat
            BY <1>2, ConcatProperties, LenProperties
        <3>2. Boundary(o, all \o more) = Len(all \o more)
            BY <3>1, BoundaryFacts, Zenon
        <3> QED BY <1>1, <1>2, <1>4, <3>1, <3>2
    <2>4. Settled(o, SubSeq(all, 1, o.limit), all)
        BY <1>1, <1>2, <1>4, <2>1, OverflowSettles
    <2> QED BY <1>1, <1>4, <2>4, AppendKeeps, Zenon DEF Captured, all
<1> QED BY <1>1, <1>3, <1>4, AppendKeeps, Zenon DEF all

\* The lesser of two numbers, when the first is no greater.
LEMMA AtLeastSize ==
    ASSUME NEW size \in Nat, NEW all \in Nat, all >= size
    PROVE  (IF size < all THEN size ELSE all) = size
OBVIOUS

\* A capture of a number of bytes.
LEMMA PushBytes ==
    ASSUME NEW o \in OutputOptions, validate_output(o), o.route = "capture", o.end = "bytes",
           NEW acc \in Accumulator, acc.end_reached = FALSE, Open(o, acc.bytes),
           NEW incoming \in Seq(Byte),
           NEW count, count = IF o.size - Len(acc.bytes) < Len(incoming)
                              THEN o.size - Len(acc.bytes) ELSE Len(incoming),
           NEW a \in append(o, acc, SubSeq(incoming, 1, count)),
           NEW b, b = IF Len(a.bytes) >= o.size THEN [a EXCEPT !.end_reached = TRUE] ELSE a
    PROVE  b \in Accumulator /\ Captured(o, b, acc.bytes \o incoming)
<1> DEFINE all == acc.bytes \o incoming
           part == SubSeq(incoming, 1, count)
           n == IF o.size < Len(all) THEN o.size ELSE Len(all)
<1>1. /\ acc.bytes \in Seq(Byte) /\ o.limit \in Nat /\ Len(acc.bytes) <= o.limit
      /\ o.size \in Nat /\ Len(acc.bytes) < o.size
      /\ Len(acc.bytes) \in Nat /\ Len(incoming) \in Nat
    BY LenProperties DEF Accumulator, OutputOptions, Open
<1>2. all \in Seq(Byte) /\ Len(all) = Len(acc.bytes) + Len(incoming)
    BY <1>1, ConcatProperties
<1> HIDE DEF all, part
<1>3. count \in 0 .. Len(incoming) /\ Len(acc.bytes) + count = n /\ n \in 0 .. Len(all)
    <2> DEFINE h == Len(acc.bytes)
               k == Len(incoming)
               t == Len(all)
               z == o.size
    <2>1. h \in Nat /\ k \in Nat /\ z \in Nat /\ h < z /\ t = h + k
        BY <1>1, <1>2
    <2>2. count = IF z - h < k THEN z - h ELSE k
        OBVIOUS
    <2> HIDE DEF h, k, t, z
    <2>3. /\ count \in 0 .. k
          /\ h + count = IF z < t THEN z ELSE t
          /\ (IF z < t THEN z ELSE t) \in 0 .. t
        BY <2>1, <2>2
    <2> QED BY <2>3 DEF h, k, t, z
<1> HIDE DEF n
<1>4. part \in Seq(Byte) /\ acc.bytes \o part = SubSeq(all, 1, n)
    <2>1. acc.bytes \o part = SubSeq(all, 1, Len(acc.bytes) + count)
        BY <1>1, <1>3, PrefixOfAddition, Zenon DEF all, part
    <2>2. part \in Seq(Byte)
        BY <1>3, PrefixFacts DEF part
    <2> QED BY <1>3, <2>1, <2>2
<1>5. Len(acc.bytes \o part) = n
    BY <1>2, <1>3, <1>4, PrefixFacts
<1>6. /\ a \in Accumulator
      /\ \/ /\ n <= o.limit
            /\ a.bytes = SubSeq(all, 1, n) /\ a.end_reached = FALSE
         \/ /\ n > o.limit /\ o.overflow # "stop"
            /\ a.bytes = SubSeq(SubSeq(all, 1, n), 1, o.limit) /\ a.end_reached = TRUE
    <2>1. a \in append(o, acc, part)
        BY DEF part
    <2>2. /\ a \in Accumulator
          /\ \/ /\ Len(acc.bytes \o part) <= o.limit
                /\ a.bytes = acc.bytes \o part /\ a.end_reached = FALSE
             \/ /\ Len(acc.bytes \o part) > o.limit /\ o.overflow # "stop"
                /\ a.bytes = SubSeq(acc.bytes \o part, 1, o.limit) /\ a.end_reached = TRUE
        BY <1>1, <1>4, <2>1, AppendKeeps, Zenon
    <2> QED BY <1>4, <1>5, <2>2, Zenon
<1>7. ASSUME NEW more \in Seq(Byte)
      PROVE  /\ Len(all \o more) = Len(all) + Len(more) /\ Len(more) \in Nat
             /\ Boundary(o, all \o more) = IF o.size < Len(all \o more) THEN o.size
                                           ELSE Len(all \o more)
    <2>1. all \o more \in Seq(Byte)
        BY <1>2, ConcatProperties
    <2> QED BY <1>2, <2>1, ConcatProperties, LenProperties, BoundaryFacts, Zenon
<1>8. /\ b.bytes = a.bytes /\ b \in Accumulator
      /\ b.end_reached = IF Len(a.bytes) >= o.size THEN TRUE ELSE a.end_reached
    BY <1>6, Zenon DEF Accumulator
<1>9. CASE n <= o.limit /\ a.bytes = SubSeq(all, 1, n) /\ a.end_reached = FALSE
    <2>1. Len(a.bytes) = n
        BY <1>2, <1>3, <1>9, PrefixFacts
    <2>2. CASE Len(all) >= o.size
        <3>1. n = o.size /\ b.end_reached = TRUE
            BY <1>1, <1>2, <1>8, <2>1, <2>2 DEF n
        <3>2. ASSUME NEW more \in Seq(Byte) PROVE Boundary(o, all \o more) = n
            <4>1. Len(all) \in Nat /\ Len(more) \in Nat /\ Len(all \o more) = Len(all) + Len(more)
                BY <1>1, <1>2, <1>7
            <4>2. Len(all \o more) \in Nat /\ Len(all \o more) >= o.size
                BY <1>1, <2>2, <4>1
            <4>3. Boundary(o, all \o more) = o.size
                BY <1>1, <1>7, <4>2, AtLeastSize
            <4> QED BY <3>1, <4>3
        <3>3. Settled(o, SubSeq(all, 1, n), all)
            BY <1>2, <1>3, <1>9, <3>2, FoundSettles, Zenon
        <3> QED BY <1>8, <1>9, <3>1, <3>3, Zenon DEF Captured, all
    <2>3. CASE Len(all) < o.size
        <3>1. n = Len(all) /\ b.end_reached = FALSE
            BY <1>1, <1>2, <1>8, <1>9, <2>1, <2>3 DEF n
        <3>2. b.bytes = all
            BY <1>2, <1>8, <1>9, <3>1, SubSeqFull, Zenon
        <3>3. Open(o, all)
            BY <1>9, <2>3, <3>1 DEF Open
        <3> QED BY <1>8, <3>1, <3>2, <3>3 DEF Captured, all
    <2> QED BY <1>1, <1>2, <2>2, <2>3
<1>10. CASE n > o.limit /\ o.overflow # "stop" /\ a.end_reached = TRUE
            /\ a.bytes = SubSeq(SubSeq(all, 1, n), 1, o.limit)
    <2>1. o.limit \in 0 .. n /\ o.limit <= Len(all) /\ n \in Nat
        BY <1>1, <1>2, <1>3, <1>10, SMTT(20)
    <2>2. SubSeq(SubSeq(all, 1, n), 1, o.limit) = SubSeq(all, 1, o.limit)
        BY <1>2, <1>3, <2>1, PrefixOfPrefix
    <2>3. ASSUME NEW more \in Seq(Byte)
          PROVE  Boundary(o, all \o more) \in Nat /\ Boundary(o, all \o more) > o.limit
        <3>1. /\ Len(all \o more) = Len(all) + Len(more) /\ Len(more) \in Nat
              /\ Boundary(o, all \o more) = IF o.size < Len(all \o more) THEN o.size
                                            ELSE Len(all \o more)
            BY <1>7
        <3>2. o.size > o.limit /\ Len(all) > o.limit /\ Len(all) \in Nat
            BY <1>1, <1>2, <1>10 DEF n
        <3> QED BY <1>1, <3>1, <3>2
    <2>4. Settled(o, SubSeq(all, 1, o.limit), all)
        BY <1>2, <1>10, <2>1, <2>3, OverflowSettles
    <2>5. b.end_reached = TRUE
        BY <1>8, <1>10
    <2> QED BY <1>8, <1>10, <2>2, <2>4, <2>5, Zenon DEF Captured, all
<1> QED BY <1>6, <1>9, <1>10, Zenon


\* find_delimiter_end finds the first end of the delimiter, or that there is
\* none, over all the bytes: also an end that began in an earlier chunk.
LEMMA FindsFirstEnd ==
    ASSUME NEW c \in Seq(Byte), NEW incoming \in Seq(Byte), NEW d \in Seq(Byte), d # <<>>
    PROVE  \/ Ends(d, c \o incoming) = {} /\ find_delimiter_end(c, incoming, d) = {}
           \/ \E e \in Ends(d, c \o incoming) :
                 /\ \A x \in Ends(d, c \o incoming) : e <= x
                 /\ find_delimiter_end(c, incoming, d) = {e}
<1> DEFINE ends == Ends(d, c \o incoming)
<1>1. find_delimiter_end(c, incoming, d)
        = IF ends = {} THEN {} ELSE {CHOOSE e \in ends : \A x \in ends : e <= x}
    BY Zenon DEF find_delimiter_end, Ends
<1>2. ends \subseteq Nat
    BY LenProperties DEF Ends
<1> HIDE DEF ends
<1>3. ends # {} => \E n \in ends : \A m \in ends : n <= m
    BY <1>2, LeastMember, Zenon
<1>4. CASE ends # {}
    <2> DEFINE f == CHOOSE e \in ends : \A x \in ends : e <= x
    <2>1. f \in ends /\ \A x \in ends : f <= x
        BY <1>3, <1>4
    <2> QED BY <1>1, <1>4, <2>1, Zenon DEF ends
<1> QED BY <1>1, <1>4 DEF ends

\* Once found, the first end stays the boundary.
LEMMA BoundaryStays ==
    ASSUME NEW o \in OutputOptions, validate_output(o), o.route = "capture",
           o.end \in {"line", "delimiter"}, NEW all \in Seq(Byte), NEW more \in Seq(Byte),
           NEW e \in Ends(Delimiter(o), all), \A x \in Ends(Delimiter(o), all) : e <= x
    PROVE  Boundary(o, all \o more) = e
<1> DEFINE d == Delimiter(o)
<1>1. d \in Seq(Byte) /\ d # <<>> /\ all \o more \in Seq(Byte)
    BY BoundaryFacts, ConcatProperties
<1>2. Len(d) \in Nat /\ Len(all) \in Nat
    BY <1>1, LenProperties
<1>3. e \in Nat /\ e <= Len(all) /\ Ends(d, all \o more) \subseteq Nat
    BY <1>2 DEF Ends
<1> HIDE DEF d
<1>4. e \in Ends(d, all \o more)
    BY <1>1, <1>3, EndsStay DEF d
<1>5. ASSUME NEW x \in Ends(d, all \o more) PROVE e <= x
    <2>1. x \in Nat
        BY <1>3
    <2>2. CASE x <= Len(all)
        <3>1. x \in Ends(d, all)
            BY <1>1, <2>1, <2>2, EndsStay
        <3> QED BY <3>1 DEF d
    <2>3. CASE x > Len(all)
        BY <1>2, <1>3, <2>1, <2>3
    <2> QED BY <1>2, <2>1, <2>2, <2>3
<1> QED BY <1>1, <1>4, <1>5, BoundaryFacts, Zenon DEF d

\* While none is found, the boundary is past all the bytes.
LEMMA BoundaryIsAhead ==
    ASSUME NEW o \in OutputOptions, validate_output(o), o.route = "capture",
           o.end \in {"line", "delimiter"}, NEW all \in Seq(Byte), NEW more \in Seq(Byte),
           Ends(Delimiter(o), all) = {}
    PROVE  Boundary(o, all \o more) \in Nat /\ Boundary(o, all \o more) >= Len(all)
<1> DEFINE d == Delimiter(o)
           ends == Ends(d, all \o more)
<1>1. d \in Seq(Byte) /\ d # <<>> /\ all \o more \in Seq(Byte)
      /\ Len(all \o more) = Len(all) + Len(more)
    BY BoundaryFacts, ConcatProperties
<1>2. Len(d) \in Nat /\ Len(all) \in Nat /\ Len(more) \in Nat
    BY <1>1, LenProperties
<1>3. ends \subseteq Nat
    BY <1>2 DEF Ends
<1>4. ASSUME NEW x \in ends PROVE x > Len(all)
    <2>1. x \in Nat
        BY <1>3
    <2>2. ~(x <= Len(all))
        BY <1>1, <2>1, EndsStay
    <2> QED BY <1>2, <2>1, <2>2
<1>5. CASE ends = {}
    <2>1. Boundary(o, all \o more) = Len(all \o more)
        BY <1>1, <1>5, BoundaryFacts, Zenon
    <2> QED BY <1>1, <1>2, <2>1
<1>6. CASE ends # {}
    <2> HIDE DEF ends
    <2>1. PICK e \in ends : \A x \in ends : e <= x
        BY <1>3, <1>6, LeastMember, Zenon
    <2>2. Boundary(o, all \o more) = e
        BY <1>1, <2>1, BoundaryFacts, Zenon DEF ends
    <2> QED BY <1>2, <1>3, <1>4, <2>2
<1> QED BY <1>5, <1>6

\* A capture up to a delimiter or the end of a line.
LEMMA PushDelimiter ==
    ASSUME NEW o \in OutputOptions, validate_output(o), o.route = "capture",
           o.end \in {"line", "delimiter"},
           NEW acc \in Accumulator, acc.end_reached = FALSE, Open(o, acc.bytes),
           NEW incoming \in Seq(Byte),
           NEW found, found = find_delimiter_end(acc.bytes, incoming, Delimiter(o)),
           NEW count, count = (CHOOSE e \in found : TRUE) - Len(acc.bytes),
           NEW a, a \in IF found = {} THEN append(o, acc, incoming)
                        ELSE IF count < 0 THEN Ended({acc})
                        ELSE Ended(append(o, acc, SubSeq(incoming, 1, count)))
    PROVE  a \in Accumulator /\ Captured(o, a, acc.bytes \o incoming)
<1> DEFINE c == acc.bytes
           d == Delimiter(o)
           all == c \o incoming
<1>1. /\ c \in Seq(Byte) /\ Len(c) \in Nat /\ o.limit \in Nat /\ Len(c) <= o.limit
      /\ Len(incoming) \in Nat /\ Ends(d, c) = {}
    BY LenProperties, ZenonT(30) DEF Accumulator, OutputOptions, Open
<1>2. all \in Seq(Byte) /\ Len(all) = Len(c) + Len(incoming) /\ Len(all) \in Nat
    BY <1>1, ConcatProperties
<1>3. d \in Seq(Byte) /\ d # <<>> /\ Len(d) \in Nat
    BY <1>1, BoundaryFacts, LenProperties, ZenonT(30)
<1> HIDE DEF d, all
<1>4. CASE Ends(d, all) = {} /\ found = {}
    <2>1. a \in append(o, acc, incoming)
        BY <1>4
    <2>2. CASE Len(all) <= o.limit /\ a.bytes = all /\ a.end_reached = FALSE
        <3>1. Open(o, all)
            BY <1>4, <2>2 DEF Open, d
        <3> QED BY <1>1, <2>1, <2>2, <3>1, AppendKeeps, Zenon DEF Captured, all
    <2>3. CASE Len(all) > o.limit /\ o.overflow # "stop" /\ a.bytes = SubSeq(all, 1, o.limit)
               /\ a.end_reached = TRUE
        <3>1. ASSUME NEW more \in Seq(Byte)
              PROVE  Boundary(o, all \o more) \in Nat /\ Boundary(o, all \o more) > o.limit
            <4>1. Boundary(o, all \o more) \in Nat /\ Boundary(o, all \o more) >= Len(all)
                BY <1>2, <1>4, BoundaryIsAhead DEF d
            <4> QED BY <1>1, <1>2, <2>3, <4>1
        <3>2. Settled(o, SubSeq(all, 1, o.limit), all)
            BY <1>1, <1>2, <2>3, <3>1, OverflowSettles, SMTT(20)
        <3> QED BY <1>1, <2>1, <2>3, <3>2, AppendKeeps, Zenon DEF Captured, all
    <2> QED BY <1>1, <2>1, <2>2, <2>3, AppendKeeps, Zenon DEF all
<1>5. ASSUME NEW e \in Ends(d, all), \A x \in Ends(d, all) : e <= x, found = {e}
      PROVE  a \in Accumulator /\ Captured(o, a, all)
    <2>1. e \in Nat /\ e <= Len(all)
        BY <1>2, <1>3 DEF Ends
    <2>2. e > Len(c)
        <3>1. e <= Len(c) => e \in Ends(d, c)
            BY <1>1, <1>3, <2>1, EndsStay DEF all
        <3> QED BY <1>1, <2>1, <3>1
    <2>3. count = e - Len(c) /\ found # {}
        BY <1>5
    <2>4. count \in 0 .. Len(incoming) /\ Len(c) + count = e /\ ~(count < 0) /\ e \in 0 .. Len(all)
        <3> DEFINE h == Len(c)
                   k == Len(incoming)
                   t == Len(all)
        <3>1. h \in Nat /\ k \in Nat /\ t = h + k /\ e \in Nat /\ e <= t /\ e > h /\ count = e - h
            BY <1>1, <1>2, <2>1, <2>2, <2>3, Zenon
        <3> HIDE DEF h, k, t
        <3>2. count \in 0 .. k /\ h + count = e /\ ~(count < 0) /\ e \in 0 .. t
            BY <3>1
        <3> QED BY <3>2 DEF h, k, t
    <2> DEFINE part == SubSeq(incoming, 1, count)
    <2>5. part \in Seq(Byte) /\ c \o part = SubSeq(all, 1, e)
        <3>1. c \o part = SubSeq(all, 1, Len(c) + count)
            BY <1>1, <2>4, PrefixOfAddition, Zenon DEF all
        <3>2. part \in Seq(Byte)
            BY <2>4, PrefixFacts, Zenon
        <3> QED BY <2>4, <3>1, <3>2, Zenon
    <2>6. Len(c \o part) = e
        BY <1>2, <2>4, <2>5, PrefixFacts
    <2>7. PICK b \in append(o, acc, part) : a = [b EXCEPT !.end_reached = TRUE]
        BY <2>3, <2>4 DEF Ended
    <2> HIDE DEF part
    <2>8. /\ b \in Accumulator
          /\ \/ e <= o.limit /\ b.bytes = SubSeq(all, 1, e)
             \/ e > o.limit /\ o.overflow # "stop" /\ b.bytes = SubSeq(SubSeq(all, 1, e), 1, o.limit)
        <3>1. /\ b \in Accumulator
              /\ \/ /\ Len(acc.bytes \o part) <= o.limit
                    /\ b.bytes = acc.bytes \o part /\ b.end_reached = FALSE
                 \/ /\ Len(acc.bytes \o part) > o.limit /\ o.overflow # "stop"
                    /\ b.bytes = SubSeq(acc.bytes \o part, 1, o.limit) /\ b.end_reached = TRUE
            BY <1>1, <2>5, AppendKeeps, Zenon
        <3> QED BY <2>5, <2>6, <3>1, Zenon
    <2>9. a \in Accumulator /\ a.bytes = b.bytes /\ a.end_reached = TRUE
        BY <2>7, <2>8, Zenon DEF Accumulator
    <2>10. \A more \in Seq(Byte) : Boundary(o, all \o more) = e
        BY <1>2, <1>5, BoundaryStays DEF d
    <2>11. CASE e <= o.limit /\ b.bytes = SubSeq(all, 1, e)
        <3>1. Settled(o, SubSeq(all, 1, e), all)
            BY <1>2, <2>4, <2>10, <2>11, FoundSettles
        <3> QED BY <2>9, <2>11, <3>1 DEF Captured
    <2>12. CASE e > o.limit /\ o.overflow # "stop" /\ b.bytes = SubSeq(SubSeq(all, 1, e), 1, o.limit)
        <3>1. o.limit \in 0 .. e /\ o.limit <= Len(all)
            BY <1>1, <1>2, <2>1, <2>12
        <3>2. b.bytes = SubSeq(all, 1, o.limit)
            BY <1>2, <2>4, <2>12, <3>1, PrefixOfPrefix, SMTT(20)
        <3>3. Settled(o, SubSeq(all, 1, o.limit), all)
            BY <1>2, <2>1, <2>10, <2>12, <3>1, OverflowSettles, Zenon
        <3> QED BY <2>9, <3>2, <3>3 DEF Captured
    <2> QED BY <2>8, <2>11, <2>12, Zenon
<1> QED BY <1>1, <1>3, <1>4, <1>5, FindsFirstEnd DEF all, d

\* What the accumulator is after more bytes.
Pushed(o, acc, all, incoming, a) == a \in Accumulator /\ Captured(o, a, all \o incoming)

\* A chunk: whatever the accumulator was given, push leaves it with what the
\* options say of all the bytes, or fails.
LEMMA PushKeeps ==
    ASSUME NEW o \in OutputOptions, validate_output(o), o.route = "capture",
           NEW acc \in Accumulator, NEW all \in Seq(Byte), Captured(o, acc, all),
           NEW incoming \in Seq(Byte), NEW a \in push(o, acc, incoming)
    PROVE  Pushed(o, acc, all, incoming, a)
<1> SUFFICES a \in Accumulator /\ Captured(o, a, all \o incoming)
    BY DEF Pushed
<1>1. CASE incoming = <<>>
    <2>1. a = acc /\ all \o incoming = all
        BY <1>1, ConcatEmptySeq DEF push
    <2> QED BY <2>1
<1>2. CASE acc.end_reached = TRUE
    <2>1. a = acc /\ Settled(o, acc.bytes, all)
        BY <1>2 DEF push, Captured
    <2> QED BY <1>2, <2>1, StaysSettled DEF Captured
<1>3. CASE acc.end_reached = FALSE /\ incoming # <<>>
    <2>1. acc.bytes = all /\ Open(o, acc.bytes)
        BY <1>3 DEF Captured
    <2>2. CASE o.end = "stream"
        <3>1. a \in append(o, acc, incoming)
            BY <1>3, <2>2 DEF push
        <3> QED BY <1>3, <2>1, <2>2, <3>1, PushStream, Zenon
    <2>3. CASE o.end = "bytes"
        <3> DEFINE count == IF o.size - Len(acc.bytes) < Len(incoming)
                            THEN o.size - Len(acc.bytes) ELSE Len(incoming)
        <3>1. ~(o.size - Len(acc.bytes) < 0)
            <4>1. acc.bytes \in Seq(Byte) /\ o.size \in Nat /\ Len(acc.bytes) < o.size
                BY <2>1, <2>3 DEF Open, OutputOptions, Accumulator
            <4> QED BY <4>1, LenProperties
        <3>2. PICK b \in append(o, acc, SubSeq(incoming, 1, count)) :
                 a = IF Len(b.bytes) >= o.size THEN [b EXCEPT !.end_reached = TRUE] ELSE b
            BY <1>3, <2>3, <3>1 DEF push
        <3> HIDE DEF count
        <3>3. count = IF o.size - Len(acc.bytes) < Len(incoming)
                      THEN o.size - Len(acc.bytes) ELSE Len(incoming)
            BY DEF count
        <3> QED BY <1>3, <2>1, <2>3, <3>2, <3>3, PushBytes, Zenon
    <2>4. CASE o.end \in {"line", "delimiter"}
        <3> DEFINE found == find_delimiter_end(acc.bytes, incoming, Delimiter(o))
                   count == (CHOOSE e \in found : TRUE) - Len(acc.bytes)
        <3>1. a \in IF found = {} THEN append(o, acc, incoming)
                    ELSE IF count < 0 THEN Ended({acc})
                    ELSE Ended(append(o, acc, SubSeq(incoming, 1, count)))
            BY <1>3, <2>4, Zenon DEF push, Delimiter
        <3> QED BY <1>3, <2>1, <2>4, <3>1, PushDelimiter, Zenon
    <2> QED BY <2>2, <2>3, <2>4 DEF OutputOptions
<1> QED BY <1>1, <1>2, <1>3, Zenon DEF Accumulator

\* An accumulator that was given nothing.
LEMMA NothingCaptured ==
    ASSUME NEW o \in OutputOptions, validate_output(o), o.route = "capture",
           NEW acc, acc = [bytes |-> <<>>, end_reached |-> FALSE]
    PROVE  acc \in Accumulator /\ Captured(o, acc, <<>>)
<1>1. <<>> \in Seq(Byte) /\ Len(<<>>) = 0
    BY EmptySeq
<1>2. o.limit \in Nat /\ o.size \in Nat /\ (o.end = "bytes" => o.size # 0)
    BY DEF OutputOptions, validate_output
<1>3. ASSUME o.end \in {"line", "delimiter"} PROVE Ends(Delimiter(o), <<>>) = {}
    <2> DEFINE d == Delimiter(o)
    <2>1. d \in Seq(Byte) /\ d # <<>>
        BY <1>1, <1>3, BoundaryFacts, Zenon
    <2> HIDE DEF d
    <2>2. Len(d) \in Nat \ {0}
        BY <2>1, LenProperties, EmptySeq
    <2>3. Len(d) .. Len(<<>>) = {}
        BY <1>1, <2>2
    <2> QED BY <2>3 DEF d, Ends
<1>4. Open(o, <<>>)
    BY <1>1, <1>2, <1>3 DEF Open
<1> QED BY <1>1, <1>4 DEF Accumulator, Captured

\* However the output is cut into chunks, what CaptureAccumulator::push has
\* kept of the chunks so far is what the options say of the whole output so
\* far: up to the end, the first delimiter or the number of bytes, and no more
\* than the limit; and if overflow is an error nothing was cut off.
THEOREM CapturesTheWhole ==
    ASSUME NEW o \in OutputOptions, validate_output(o), o.route = "capture", NEW n \in Nat,
           NEW chunk \in [1 .. n -> Seq(Byte)],
           NEW whole \in [0 .. n -> Seq(Byte)], whole[0] = <<>>,
           \A i \in 1 .. n : whole[i] = whole[i - 1] \o chunk[i],
           NEW acc, acc[0] = [bytes |-> <<>>, end_reached |-> FALSE],
           \A i \in 1 .. n : acc[i] \in push(o, acc[i - 1], chunk[i])
    PROVE  \A i \in 0 .. n :
              /\ acc[i].bytes = Kept(o, whole[i])
              /\ o.overflow = "stop" => Boundary(o, whole[i]) <= o.limit
<1> DEFINE wrong == {i \in 0 .. n : ~(acc[i] \in Accumulator /\ Captured(o, acc[i], whole[i]))}
<1>1. wrong = {}
    <2>1. SUFFICES ASSUME wrong # {} PROVE FALSE
        OBVIOUS
    <2>2. PICK k \in wrong : \A m \in wrong : k <= m
        <3>1. wrong \subseteq Nat
            OBVIOUS
        <3> HIDE DEF wrong
        <3> QED BY <2>1, <3>1, LeastMember, Zenon
    <2>3. k # 0
        BY <2>2, NothingCaptured, ZenonT(30)
    <2>4. k \in 1 .. n /\ k - 1 \in 0 .. n /\ ~(k <= k - 1)
        <3>1. k \in 0 .. n
            BY <2>2, Zenon
        <3> QED BY <2>3, <3>1, OneBefore, Zenon
    <2>5. k - 1 \notin wrong
        <3> HIDE DEF wrong
        <3> QED BY <2>2, <2>4, Zenon
    <2>6. acc[k - 1] \in Accumulator /\ Captured(o, acc[k - 1], whole[k - 1])
        BY <2>4, <2>5, ZenonT(30)
    <2>7. acc[k] \in Accumulator /\ Captured(o, acc[k], whole[k - 1] \o chunk[k])
        <3>1. whole[k - 1] \in Seq(Byte) /\ chunk[k] \in Seq(Byte)
            BY <2>4
        <3>2. acc[k] \in push(o, acc[k - 1], chunk[k])
            BY <2>4
        <3> QED BY <2>6, <3>1, <3>2, PushKeeps, Zenon DEF Pushed
    <2> QED BY <2>2, <2>4, <2>7, Zenon
<1>2. ASSUME NEW i \in 0 .. n
      PROVE  /\ acc[i].bytes = Kept(o, whole[i])
             /\ o.overflow = "stop" => Boundary(o, whole[i]) <= o.limit
    <2>1. Captured(o, acc[i], whole[i]) /\ whole[i] \in Seq(Byte)
        BY <1>1
    <2> QED BY <2>1, CapturedIsKept, ZenonT(30)
<1> QED BY <1>2, ZenonT(30)

\* append fails only where overflow is an error, and the bytes do not fit.
LEMMA AppendFails ==
    ASSUME NEW o \in OutputOptions, NEW acc \in Accumulator, Len(acc.bytes) <= o.limit,
           NEW x \in Seq(Byte), append(o, acc, x) = {}
    PROVE  o.overflow = "stop" /\ Len(acc.bytes \o x) > o.limit
<1> DEFINE c == acc.bytes
           remaining == o.limit - Len(c)
<1>1. c \in Seq(Byte) /\ Len(c) \in Nat /\ Len(x) \in Nat /\ o.limit \in Nat
    BY LenProperties, ZenonT(30) DEF Accumulator, OutputOptions
<1>2. Len(c \o x) = Len(c) + Len(x)
    BY <1>1, ConcatProperties
<1>3. ~(remaining < 0)
    BY <1>1
<1>4. Len(x) > remaining /\ o.overflow = "stop"
    BY <1>3, Zenon DEF append
<1> QED BY <1>1, <1>2, <1>4

\* CaptureAccumulator::push fails only where overflow is an error and the
\* output, whatever more of it comes, is over the limit before its end.
THEOREM FailsOnlyOverTheLimit ==
    ASSUME NEW o \in OutputOptions, validate_output(o), o.route = "capture",
           NEW acc \in Accumulator, NEW all \in Seq(Byte), Captured(o, acc, all),
           NEW incoming \in Seq(Byte), push(o, acc, incoming) = {}
    PROVE  /\ o.overflow = "stop"
           /\ \A more \in Seq(Byte) : Boundary(o, (all \o incoming) \o more) > o.limit
<1> DEFINE whole == all \o incoming
<1>1. acc.end_reached = FALSE /\ incoming # <<>>
    BY Zenon DEF push, Accumulator
<1>2. acc.bytes = all /\ Open(o, all) /\ Len(all) <= o.limit
    BY <1>1 DEF Captured, Open
<1>3. /\ whole \in Seq(Byte) /\ Len(whole) = Len(all) + Len(incoming) /\ Len(whole) \in Nat
      /\ Len(all) \in Nat /\ Len(incoming) \in Nat /\ o.limit \in Nat /\ o.size \in Nat
    BY ConcatProperties, LenProperties DEF OutputOptions
<1>4. ASSUME NEW more \in Seq(Byte)
      PROVE  /\ whole \o more \in Seq(Byte) /\ Len(whole \o more) = Len(whole) + Len(more)
             /\ Len(more) \in Nat
    BY <1>3, ConcatProperties, LenProperties
<1>5. CASE o.end = "stream"
    <2>1. append(o, acc, incoming) = {}
        BY <1>1, <1>5 DEF push
    <2>2. o.overflow = "stop" /\ Len(whole) > o.limit
        BY <1>2, <2>1, AppendFails, Zenon
    <2>3. ASSUME NEW more \in Seq(Byte) PROVE Boundary(o, whole \o more) > o.limit
        <3>1. Boundary(o, whole \o more) = Len(whole \o more)
            BY <1>4, <1>5, BoundaryFacts, Zenon
        <3> HIDE DEF whole
        <3> QED BY <1>3, <1>4, <2>2, <3>1
    <2> QED BY <2>2, <2>3
<1>6. CASE o.end = "bytes"
    <2> DEFINE h == Len(all)
               k == Len(incoming)
               z == o.size
               count == IF z - h < k THEN z - h ELSE k
               part == SubSeq(incoming, 1, count)
    <2>1. h \in Nat /\ k \in Nat /\ z \in Nat /\ h < z
        BY <1>2, <1>3, <1>6 DEF Open
    <2>2. append(o, acc, part) = {}
        <3>1. ~(o.size - Len(acc.bytes) < 0)
            BY <1>2, <2>1
        <3>2. {IF Len(a.bytes) >= o.size THEN [a EXCEPT !.end_reached = TRUE] ELSE a :
                 a \in append(o, acc, part)} = {}
            BY <1>1, <1>2, <1>6, <3>1 DEF push
        <3> QED BY <3>2, Zenon
    <2>3. /\ count \in 0 .. k /\ h + count <= z /\ h + count <= h + k
        <3> HIDE DEF h, k, z
        <3> QED BY <2>1
    <2>4. part \in Seq(Byte) /\ Len(part) = count
        BY <2>3, PrefixFacts, ZenonT(30)
    <2>5. Len(all \o part) = h + count
        BY <2>4, ConcatProperties
    <2>6. o.overflow = "stop" /\ h + count > o.limit
        BY <1>2, <2>2, <2>4, <2>5, AppendFails, Zenon
    <2>7. ASSUME NEW more \in Seq(Byte) PROVE Boundary(o, whole \o more) > o.limit
        <3> DEFINE t == Len(whole \o more)
        <3>1. Boundary(o, whole \o more) = IF z < t THEN z ELSE t
            BY <1>4, <1>6, BoundaryFacts, Zenon
        <3>2. t = h + k + Len(more) /\ Len(more) \in Nat
            BY <1>3, <1>4
        <3> HIDE DEF h, k, z, t, count, whole
        <3> QED BY <1>3, <2>1, <2>3, <2>6, <3>1, <3>2
    <2> QED BY <2>6, <2>7
<1>7. CASE o.end \in {"line", "delimiter"}
    <2> DEFINE d == Delimiter(o)
               found == find_delimiter_end(all, incoming, d)
               count == (CHOOSE e \in found : TRUE) - Len(all)
    <2>1. d \in Seq(Byte) /\ d # <<>> /\ Len(d) \in Nat /\ Ends(d, all) = {}
        BY <1>2, <1>7, BoundaryFacts, LenProperties DEF Open
    <2>2. IF found = {} THEN append(o, acc, incoming) = {}
          ELSE IF count < 0 THEN Ended({acc}) = {}
          ELSE Ended(append(o, acc, SubSeq(incoming, 1, count))) = {}
        BY <1>1, <1>2, <1>7, Zenon DEF push, Delimiter
    <2>3. Ended({acc}) # {}
        BY Zenon DEF Ended
    <2> HIDE DEF d, whole
    <2>4. CASE Ends(d, whole) = {} /\ found = {}
        <3>1. o.overflow = "stop" /\ Len(whole) > o.limit
            BY <1>2, <2>2, <2>4, AppendFails, Zenon DEF whole
        <3>2. ASSUME NEW more \in Seq(Byte) PROVE Boundary(o, whole \o more) > o.limit
            <4>1. Boundary(o, whole \o more) \in Nat /\ Boundary(o, whole \o more) >= Len(whole)
                BY <1>3, <1>7, <2>4, BoundaryIsAhead DEF d
            <4> QED BY <1>3, <3>1, <4>1
        <3> QED BY <3>1, <3>2 DEF whole
    <2>5. ASSUME NEW e \in Ends(d, whole), \A x \in Ends(d, whole) : e <= x, found = {e}
          PROVE  /\ o.overflow = "stop"
                 /\ \A more \in Seq(Byte) : Boundary(o, whole \o more) > o.limit
        <3>1. e \in Nat /\ e <= Len(whole)
            BY <1>3, <2>1 DEF Ends
        <3>2. count = e - Len(all) /\ found # {}
            BY <2>5
        <3> DEFINE part == SubSeq(incoming, 1, count)
        <3>3. ~(count < 0) /\ append(o, acc, part) = {}
            <4> HIDE DEF found, count
            <4>1. ~(count < 0) /\ Ended(append(o, acc, part)) = {}
                BY <2>2, <2>3, <3>2, Zenon
            <4> HIDE DEF part
            <4> QED BY <4>1, Zenon DEF Ended
        <3>4. count \in 0 .. Len(incoming) /\ Len(all) + count = e
            <4> DEFINE h == Len(all)
                       k == Len(incoming)
                       t == Len(whole)
            <4>1. h \in Nat /\ k \in Nat /\ t = h + k /\ e \in Nat /\ e <= t /\ count = e - h
                  /\ ~(count < 0)
                BY <1>3, <3>1, <3>2, <3>3
            <4> HIDE DEF h, k, t, count
            <4>2. count \in 0 .. k /\ h + count = e
                BY <4>1
            <4> QED BY <4>2 DEF h, k
        <3>5. part \in Seq(Byte) /\ Len(part) = count
            BY <3>4, PrefixFacts, Zenon
        <3>6. Len(all \o part) = e
            BY <3>4, <3>5, ConcatProperties
        <3>7. o.overflow = "stop" /\ e > o.limit
            BY <1>2, <3>3, <3>5, <3>6, AppendFails, Zenon
        <3>8. \A more \in Seq(Byte) : Boundary(o, whole \o more) = e
            BY <1>3, <1>7, <2>5, BoundaryStays DEF d
        <3> QED BY <3>7, <3>8
    <2> QED BY <2>1, <2>4, <2>5, FindsFirstEnd DEF whole
<1> QED BY <1>5, <1>6, <1>7 DEF OutputOptions

-----------------------------------------------------------------------------
(* Bytes on their way: those read, those on the connection and those in    *)
(* the pipe.                                                               *)

\* The bytes of a stream before and after a chunk of those on the connection
\* is read, and before and after a byte is written.
ReadOut(S, all, l, p, n) ==
    /\ all \o SubSeq(l, 1, n) \in Seq(S)
    /\ all \o (l \o p) = (all \o SubSeq(l, 1, n)) \o (SubSeq(l, n + 1, Len(l)) \o p)
WrittenOut(todo, all, l, p) ==
    Append(all \o (l \o p), Head(todo)) = all \o (l \o Append(p, Head(todo)))

\* A drain reads a chunk of the connection.
LEMMA ChunkRead ==
    ASSUME NEW S, NEW all \in Seq(S), NEW l \in Seq(S), NEW p \in Seq(S), NEW n \in 1 .. Len(l)
    PROVE  ReadOut(S, all, l, p, n)
<1> DEFINE c == SubSeq(l, 1, n)
           r == SubSeq(l, n + 1, Len(l))
           t == r \o p
<1>1. c \in Seq(S) /\ r \in Seq(S)
    BY ChunkFacts
<1>2. c \o r = l
    BY ChunkFacts
<1> HIDE DEF c, r
<1>3. Regroups(c, r, p)
    BY <1>1, Regroup, ZenonT(30)
<1>4. t \in Seq(S) /\ all \o c \in Seq(S)
    BY <1>1, ConcatProperties
<1> HIDE DEF t
<1>5. Regroups(all, c, t)
    BY <1>1, <1>4, Regroup
<1> QED BY <1>2, <1>3, <1>4, <1>5, Zenon DEF c, r, t, Regroups, ReadOut

\* The process writes a byte of its script to the pipe.
LEMMA ByteWritten ==
    ASSUME NEW S, NEW todo \in Seq(S), todo # <<>>,
           NEW all \in Seq(S), NEW l \in Seq(S), NEW p \in Seq(S)
    PROVE  WrittenOut(todo, all, l, p)
<1> DEFINE b == Head(todo)
           e == <<b>>
<1>1. b \in S /\ Tail(todo) \in Seq(S)
    BY HeadTailProperties
<1> HIDE DEF b
<1>2. e \in Seq(S)
    BY <1>1
<1> DEFINE t == l \o p
           w == all \o t
<1>3. t \in Seq(S)
    BY ConcatProperties
<1>4. Append(p, b) \in Seq(S) /\ Append(p, b) = p \o e
    BY <1>1, AppendProperties, AppendIsConcat
<1> HIDE DEF e
<1>5. Regroups(l, p, e)
    BY <1>2, Regroup
<1> HIDE DEF t
<1>6. w \in Seq(S)
    BY <1>3, ConcatProperties
<1>7. Regroups(all, t, e)
    BY <1>2, <1>3, Regroup
<1> HIDE DEF w
<1>8. Append(w, b) = w \o e
    BY <1>1, <1>6, AppendIsConcat DEF e
<1> QED BY <1>4, <1>5, <1>7, <1>8, Zenon DEF b, t, w, Regroups, WrittenOut

\* Nothing is on its way.
LEMMA NothingLeft ==
    ASSUME NEW S, NEW all \in Seq(S)
    PROVE  all \o (<<>> \o <<>>) = all
<1>1. <<>> \in Seq(S)
    BY EmptySeq
<1>2. <<>> \o <<>> = <<>>
    BY <1>1, ConcatEmptySeq
<1> QED BY <1>2, ConcatEmptySeq

-----------------------------------------------------------------------------
(* What is to be accounted for.                                            *)

\* The bytes of a stream: those given to its capture or its file, on the
\* connection and in the pipe, together and in order, are what was written.
Gave(o, acc, all) ==
    /\ o.route = "capture" => Captured(o, acc, all)
    /\ o.route = "host_file" => acc.bytes = all
Got(s, all) == Gave(asked[s], capture[s], all)
Whole(s) ==
    \E all \in Seq(Byte) : written[s] = all \o (link[s].bytes \o pipe[s]) /\ Got(s, all)
Sound(s) == link[s].state \in {"open", "eof"} \/ (link[s].state = "none" /\ reader[s] \in {"none", "entry"})
FlowInv(s) ==
    /\ Piped(s) /\ validate_output(asked[s]) /\ Sound(s) => Whole(s)
    /\ link[s].state \notin {"open", "eof"} => link[s].bytes = <<>>
    /\ link[s].state = "eof" => pipe[s] = <<>> /\ process # "running"
    /\ process = "none" => pipe[s] = <<>>
    /\ Piped(s) /\ process # "none" => reader[s] # "none"

RunInv ==
    /\ TypeOK /\ OpInv /\ PastInv /\ FateInv /\ ToldInv /\ DrainInv /\ BindInv
    /\ \A s \in Streams : FlowInv(s)

-----------------------------------------------------------------------------
(* The bytes of a stream.                                                  *)

\* What a step that moves no byte of a stream does to it, and one that cuts
\* its connection.
Calmly(s) ==
    /\ reader'[s] = reader[s] \/ (reader'[s] = "gone" /\ reader[s] # "none")
    /\ process' = "none" <=> process = "none"
    /\ process # "running" => process' # "running"
Still(s) ==
    written'[s] = written[s] /\ pipe'[s] = pipe[s] /\ link'[s] = link[s] /\ capture'[s] = capture[s] /\ Calmly(s)
Cut(s) ==
    link'[s].bytes = <<>> /\ link'[s].state \in {"broken", "dropped"} /\ pipe'[s] = pipe[s] /\ Calmly(s)
Moved(s) ==
    \/ ServeStart \/ (bind_output /\ call.op = s) \/ GuestLost
    \/ Write(s) \/ relay(s) \/ drain_host_output(s)

\* The bytes of a stream stay where they are, or those on its connection go.
LEMMA StillOrCut ==
    ASSUME NEW s \in Streams, FlowInv(s), asked'[s] = asked[s], Still(s) \/ Cut(s)
    PROVE  FlowInv(s)'
<1>1. CASE Still(s)
    <2> USE <1>1 DEF Still, Calmly
    <2>1. Whole(s) => Whole(s)'
        BY ZenonT(30) DEF Whole, Got
    <2>2. Sound(s)' => Sound(s)
        BY ZenonT(30) DEF Sound
    <2> QED BY <2>1, <2>2, ZenonT(30) DEF FlowInv, Piped
<1>2. CASE Cut(s)
    BY <1>2, Zenon DEF Cut, Calmly, FlowInv, Piped, Sound
<1> QED BY <1>1, <1>2, ZenonT(30)

\* Six kinds of step move the bytes of a stream.
LEMMA WhatMoves ==
    ASSUME NEW s \in Streams, HostOK, PipesOK, FlowInv(s), Next
    PROVE  Still(s) \/ Cut(s) \/ Moved(s)
<1> DEFINE Q == Still(s) \/ Cut(s)
           Same == /\ written' = written /\ pipe' = pipe /\ reader' = reader /\ process' = process
                   /\ capture' = capture
<1>1. Same /\ link'[s] = link[s] => Q
    BY ZenonT(30) DEF Still, Calmly
<1>2. Same /\ link'[s] = [bytes |-> <<>>, state |-> "dropped"] => Q
    BY DEF Cut, Calmly
<1>3. link[s].state = "none" => link[s] = Free
    BY DEF FlowInv, PipesOK, Conn, Free
<1> HIDE DEF Q, Same
<1>4. HostMoves => Q
    <2>1. HostMoves => capture' = capture
        <3> USE DEF Rest
        <3> (Connect \/ Probed \/ build \/ into_prepared \/ Begin \/ spawn \/ WaitDeadline \/ cancel) => capture' = capture
            BY Zenon DEF Connect, Probed, build, into_prepared, Begin, spawn, WaitDeadline, cancel
        <3> (WaitEnds \/ DrainFails \/ CancelSeen \/ TimerFires \/ close \/ DropHandle \/ Cleaned) => capture' = capture
            BY Zenon DEF WaitEnds, DrainFails, CancelSeen, TimerFires, close, DropHandle, Cleaned
        <3> (run_direct_process \/ retain_captured_output \/ finished) => capture' = capture
            BY Zenon DEF run_direct_process, retain_captured_output, finished
        <3> QED BY Zenon DEF HostMoves
    <2> QED BY <1>1, <2>1, HostMovesKeep, Zenon DEF Same
<1>5. SessionStep /\ UNCHANGED <<hvars, gvars>> => Q
    BY <1>1, Zenon DEF Same, hvars, gvars
<1>6. start_output_drains \/ finish_output_drains \/ DropRun => Q
    <2>1. start_output_drains \/ finish_output_drains \/ DropRun => Same
        BY ZenonT(30) DEF start_output_drains, finish_output_drains, DropRun, Same
    <2>2. start_output_drains \/ finish_output_drains \/ DropRun =>
              link'[s] = link[s] \/ link'[s] = [bytes |-> <<>>, state |-> "dropped"]
        BY <1>3, Zenon DEF start_output_drains, finish_output_drains, DropRun
    <2> QED BY <1>1, <1>2, <2>1, <2>2, Zenon
<1>7. ASSUME NEW t \in Streams, drain_host_output(t) \/ DrainEnds(t) \/ FileFails(t) PROVE Q \/ drain_host_output(s)
    <2>1. written' = written /\ pipe' = pipe /\ reader' = reader /\ process' = process
        BY <1>7, Zenon DEF drain_host_output, DrainEnds, FileFails, DrainStep
    <2>2. CASE DrainEnds(t) \/ FileFails(t)
        <3>1. Same /\ (link'[s] = link[s] \/ link'[s] = [bytes |-> <<>>, state |-> "dropped"])
            BY <2>1, <2>2, Zenon DEF Same, DrainEnds, FileFails, PipesOK
        <3> QED BY <1>1, <1>2, <3>1, ZenonT(30)
    <2>3. CASE drain_host_output(t) /\ t # s
        <3>1. capture'[s] = capture[s] /\ link'[s] = link[s]
            BY <2>3 DEF drain_host_output, Read, HostOK, PipesOK
        <3> QED BY <2>1, <3>1, Zenon DEF Q, Still, Calmly
    <2> QED BY <1>7, <2>2, <2>3
<1>8. GuestMoves => Q \/ Moved(s)
    <2> SUFFICES ASSUME GuestMoves PROVE Q \/ Moved(s)
        OBVIOUS
    <2>1. capture' = capture
        BY GuestMovesKeep
    <2>2. CASE ServePing \/ ServeWait \/ DaemonExits
        BY <1>1, <2>1, <2>2, ZenonT(30) DEF ServePing, ServeWait, DaemonExits, gvars, Same
    <2>3. CASE kill \/ Exits \/ ServeClose
        BY <2>1, <2>3, ZenonT(30) DEF kill, Exits, ServeClose, Q, Still, Calmly
    <2>4. CASE bind_output /\ call.op # s
        BY <2>1, <2>4, Zenon DEF bind_output, Q, Still, Calmly, PipesOK
    <2>5. ASSUME NEW t \in Streams, Write(t) \/ relay(t), t # s PROVE Q
        BY <2>1, <2>5, ZenonT(30) DEF Write, relay, Q, Still, Calmly, PipesOK
    <2>6. ASSUME NEW t \in Streams, LinkBreaks(t) PROVE Q
        BY <2>1, <2>6 DEF LinkBreaks, Q, Still, Cut, Calmly, PipesOK
    <2>7. ASSUME NEW t \in Streams, Write(t) \/ relay(t) PROVE Q \/ Moved(s)
        BY <2>5, <2>7 DEF Moved
    <2> QED BY <2>2, <2>3, <2>4, <2>6, <2>7, Zenon DEF GuestMoves, Moved
<1> QED BY <1>4, <1>5, <1>6, <1>7, <1>8, ZenonT(30) DEF Next, HostProgress, HostMoves, GuestMoves, Moved, Q

\* A byte is where it was, on the connection or in the pipe.
LEMMA WholeStays ==
    ASSUME NEW s, asked'[s] = asked[s], written'[s] = written[s], pipe'[s] = pipe[s], capture'[s] = capture[s],
           link'[s].bytes = link[s].bytes, Whole(s)
    PROVE  Whole(s)'
BY ZenonT(30) DEF Whole, Got

\* ProcessManager::spawn: the pipe of a stream is new.
LEMMA StartFlow ==
    ASSUME NEW s \in Streams, CallShape, OpInv, BindInv, FlowInv(s), ServeStart
    PROVE  FlowInv(s)'
<1>1. asked' = asked /\ capture' = capture
    BY GuestMovesKeep DEF GuestMoves
<1>2. written' = written /\ pipe' = pipe /\ link' = link
    BY Zenon DEF ServeStart
<1>3. call.op = "start" /\ call.phase = "asked"
    BY ZenonT(30) DEF ServeStart, Serve
<1>4. reader[s] = "none" /\ link[s].state = "none"
    BY <1>3 DEF BindInv, OpInv, Early, Over
<1>5. \/ process' = process /\ reader' = reader
      \/ process' = "running" /\ reader' = [t \in Streams |-> IF Piped(t) THEN "entry" ELSE "none"]
    BY ZenonT(30) DEF ServeStart
<1>6. Whole(s) => Whole(s)'
    BY <1>1, <1>2, WholeStays, ZenonT(30)
<1> QED BY <1>1, <1>2, <1>4, <1>5, <1>6, Zenon DEF FlowInv, Piped, Sound

\* ProcessManager::bind_output: the pipe is there, and nothing of it was read.
LEMMA BindFlow ==
    ASSUME NEW s \in Streams, CallShape, PipesOK, BindInv, FlowInv(s), bind_output, call.op = s
    PROVE  FlowInv(s)'
<1>1. asked' = asked /\ capture' = capture
    BY GuestMovesKeep DEF GuestMoves
<1>2. written' = written /\ pipe' = pipe /\ process' = process
    BY Zenon DEF bind_output
<1>3. Mine /\ call.phase = "asked"
    BY ZenonT(30) DEF bind_output, Serve
<1>4. entry /\ reader[s] = "entry" /\ link[s].state = "none"
    BY <1>3, ZenonT(30) DEF BindInv, Over
<1>5. reader'[s] = "relay" /\ link'[s] = [bytes |-> <<>>, state |-> "open"] /\ link[s].bytes = <<>>
    BY <1>4, ZenonT(30) DEF bind_output, PipesOK, FlowInv
<1>6. link'[s].bytes = link[s].bytes /\ link'[s].bytes = <<>> /\ link'[s].state = "open"
    BY <1>5
<1>7. Whole(s) => Whole(s)'
    BY <1>1, <1>2, <1>6, WholeStays, ZenonT(30)
<1> QED BY <1>1, <1>2, <1>4, <1>5, <1>6, <1>7, ZenonT(30) DEF FlowInv, Piped, Sound

\* The process writes a byte to its pipe.
LEMMA WriteFlow ==
    ASSUME NEW s \in Streams, PipesOK, FlowInv(s), Write(s)
    PROVE  FlowInv(s)'
<1>1. asked' = asked /\ capture' = capture
    BY GuestMovesKeep DEF GuestMoves
<1>2. reader' = reader /\ link' = link /\ process = "running" /\ script[s] # <<>>
    BY Zenon DEF Write
<1>3. CASE reader[s] = "gone"
    <2>1. Still(s)
        BY <1>1, <1>2, <1>3, ZenonT(30) DEF Write, Still, Calmly
    <2> QED BY <1>1, <2>1, StillOrCut, ZenonT(30)
<1>4. CASE reader[s] # "gone"
    <2> DEFINE b == Head(script[s])
    <2>1. /\ written'[s] = Append(written[s], b) /\ process' = process
          /\ Piped(s) => pipe'[s] = Append(pipe[s], b)
        BY <1>4 DEF Write, PipesOK
    <2>2. Piped(s) /\ Whole(s) => Whole(s)'
        <3> SUFFICES ASSUME Piped(s), Whole(s) PROVE Whole(s)'
            OBVIOUS
        <3>1. PICK all \in Seq(Byte) : written[s] = all \o (link[s].bytes \o pipe[s]) /\ Got(s, all)
            BY Zenon DEF Whole
        <3> DEFINE sc == script[s]
                   l == link[s].bytes
                   p == pipe[s]
        <3>2. sc \in Seq(Byte) /\ sc # <<>> /\ p \in Seq(Byte) /\ l \in Seq(Byte)
            BY <1>2 DEF PipesOK, Conn
        <3>3. Append(all \o (link[s].bytes \o pipe[s]), b) = all \o (link[s].bytes \o Append(pipe[s], b))
            <4> HIDE DEF sc, l, p
            <4>1. WrittenOut(sc, all, l, p)
                BY <3>1, <3>2, ByteWritten, Zenon
            <4> QED BY <4>1, Zenon DEF sc, l, p, WrittenOut
        <3> HIDE DEF b, sc, l, p
        <3>4. written'[s] = all \o (link'[s].bytes \o pipe'[s]) /\ Got(s, all)'
            BY <1>1, <1>2, <2>1, <3>1, <3>3, Zenon DEF Got
        <3> QED BY <3>4, Zenon DEF Whole
    <2> HIDE DEF b
    <2> QED BY <1>1, <1>2, <2>1, <2>2, ZenonT(30) DEF FlowInv, Piped, Sound
<1> QED BY <1>3, <1>4

\* The relay moves a chunk from the pipe to the connection, ends the
\* connection with the pipe, or finds it gone.
LEMMA RelayFlow ==
    ASSUME NEW s \in Streams, PipesOK, FlowInv(s), relay(s)
    PROVE  FlowInv(s)'
<1>1. asked' = asked /\ capture' = capture
    BY GuestMovesKeep DEF GuestMoves
<1>2. written' = written /\ process' = process /\ reader[s] = "relay"
    BY Zenon DEF relay
<1>3. ASSUME link[s].state = "open", reader' = reader, NEW n \in 1 .. Len(pipe[s]),
             link' = [link EXCEPT ![s].bytes = @ \o SubSeq(pipe[s], 1, n)],
             pipe' = [pipe EXCEPT ![s] = SubSeq(@, n + 1, Len(@))]
      PROVE  FlowInv(s)'
    <2> DEFINE l == link[s].bytes
               p == pipe[s]
               c == SubSeq(p, 1, n)
               r == SubSeq(p, n + 1, Len(p))
    <2>1. l \in Seq(Byte) /\ p \in Seq(Byte)
        BY DEF PipesOK, Conn
    <2>2. link'[s].bytes = l \o c /\ link'[s].state = "open" /\ pipe'[s] = r
        BY <1>3, Zenon DEF PipesOK, Conn
    <2>3. l \o p = (l \o c) \o r
        BY <1>3, <2>1, ChunkRelayed, ZenonT(30)
    <2>4. process # "none"
        <3>1. pipe[s] # <<>>
            BY <1>3, <2>1, EmptySeq
        <3> QED BY <3>1 DEF FlowInv
    <2> HIDE DEF l, p, c, r
    <2>5. Whole(s) => Whole(s)'
        <3> SUFFICES ASSUME Whole(s) PROVE Whole(s)'
            OBVIOUS
        <3>1. PICK all \in Seq(Byte) : written[s] = all \o (l \o p) /\ Got(s, all)
            BY Zenon DEF Whole, l, p
        <3>2. written'[s] = all \o (link'[s].bytes \o pipe'[s]) /\ Got(s, all)'
            BY <1>1, <1>2, <2>2, <2>3, <3>1, Zenon DEF Got
        <3> QED BY <3>2, Zenon DEF Whole
    <2> QED BY <1>1, <1>2, <1>3, <2>2, <2>4, <2>5, ZenonT(30) DEF FlowInv, Piped, Sound
<1>4. ASSUME pipe[s] = <<>>, process # "running", reader' = [reader EXCEPT ![s] = "gone"], pipe' = pipe,
             link' = [link EXCEPT ![s].state = IF @ = "open" THEN "eof" ELSE @]
      PROVE  FlowInv(s)'
    <2>1. reader'[s] = "gone" /\ link'[s].bytes = link[s].bytes
          /\ link'[s].state = IF link[s].state = "open" THEN "eof" ELSE link[s].state
        BY <1>4 DEF PipesOK, Conn
    <2>2. Whole(s) => Whole(s)'
        BY <1>1, <1>2, <1>4, <2>1, WholeStays, ZenonT(30)
    <2> QED BY <1>1, <1>2, <1>4, <2>1, <2>2, ZenonT(30) DEF FlowInv, Piped, Sound
<1>5. ASSUME link[s].state \in {"dropped", "broken"}, reader' = [reader EXCEPT ![s] = "gone"],
             pipe' = [pipe EXCEPT ![s] = <<>>], link' = link
      PROVE  FlowInv(s)'
    <2>1. reader'[s] = "gone" /\ pipe'[s] = <<>>
        BY <1>5, ZenonT(30) DEF PipesOK
    <2> QED BY <1>1, <1>2, <1>5, <2>1, ZenonT(30) DEF FlowInv, Piped, Sound
<1> QED BY <1>3, <1>4, <1>5, Zenon DEF relay

\* The guest is lost: what it had is gone, and what it had ended stays.
LEMMA LostFlow ==
    ASSUME NEW s \in Streams, FlowInv(s), GuestLost
    PROVE  FlowInv(s)'
<1>1. asked' = asked /\ capture' = capture
    BY GuestMovesKeep, ZenonT(30) DEF GuestMoves
<1>2. /\ written' = written /\ pipe'[s] = <<>>
      /\ process' = IF process = "running" THEN "killed" ELSE process
      /\ reader'[s] = IF reader[s] = "none" THEN "none" ELSE "gone"
    BY ZenonT(30) DEF GuestLost
<1>a. \E state \in {"broken", "silent"} :
         link'[s] = IF link[s].state = "open" THEN [bytes |-> <<>>, state |-> state] ELSE link[s]
    <2>1. PICK cut \in [Streams -> {"broken", "silent"}] :
             link' = [t \in Streams |-> IF link[t].state = "open" THEN [bytes |-> <<>>, state |-> cut[t]]
                                        ELSE link[t]]
        BY ZenonT(30) DEF GuestLost
    <2> QED BY <2>1, ZenonT(30)
<1>3. pipe[s] = <<>> => (Whole(s) /\ link'[s] = link[s] => Whole(s)')
    BY <1>1, <1>2, WholeStays
<1>4. CASE link[s].state = "open"
    <2>1. link'[s].state \in {"broken", "silent"} /\ link'[s].bytes = <<>>
        BY <1>a, <1>4
    <2> QED BY <1>1, <1>2, <2>1, ZenonT(30) DEF FlowInv, Piped, Sound
<1>5. CASE link[s].state # "open"
    <2>1. link'[s] = link[s]
        BY <1>a, <1>5, Zenon
    <2> QED BY <1>1, <1>2, <1>3, <1>5, <2>1, ZenonT(30) DEF FlowInv, Piped, Sound
<1> QED BY <1>4, <1>5, Zenon

\* What an accumulator or a file may be after a chunk.
Given(o, acc, c) == IF o.route = "capture" THEN push(o, acc, c) ELSE {[acc EXCEPT !.bytes = @ \o c]}
GivenRight(o, acc, a, all, c) == a \in Accumulator /\ Gave(o, a, all \o c)

\* A file gets the bytes of a chunk.
LEMMA Filed ==
    ASSUME NEW o, o.route # "capture", NEW acc \in Accumulator, NEW c \in Seq(Byte), NEW a \in Given(o, acc, c)
    PROVE  a \in Accumulator /\ a.bytes = acc.bytes \o c
<1> DEFINE b == acc.bytes \o c
<1>1. acc.bytes \in Seq(Byte) /\ acc.end_reached \in BOOLEAN
    BY DEF Accumulator
<1>2. b \in Seq(Byte)
    BY <1>1, ConcatProperties, Zenon
<1>3. a = [acc EXCEPT !.bytes = b]
    BY DEF Given
<1> HIDE DEF b
<1>4. a \in Accumulator /\ a.bytes = b
    BY <1>2, <1>3 DEF Accumulator
<1> QED BY <1>4 DEF b

\* A chunk is given to an accumulator or to a file.
LEMMA ChunkGiven ==
    ASSUME NEW o \in OutputOptions, validate_output(o), NEW acc \in Accumulator,
           NEW all \in Seq(Byte), Gave(o, acc, all), NEW c \in Seq(Byte), NEW a \in Given(o, acc, c)
    PROVE  GivenRight(o, acc, a, all, c)
<1>1. CASE o.route = "capture"
    <2>1. Captured(o, acc, all) /\ a \in push(o, acc, c)
        BY <1>1 DEF Gave, Given
    <2>2. Pushed(o, acc, all, c, a)
        BY <1>1, <2>1, PushKeeps, Zenon
    <2> QED BY <1>1, <2>2 DEF Gave, GivenRight, Pushed
<1>2. CASE o.route # "capture"
    <2>1. a \in Accumulator /\ a.bytes = acc.bytes \o c
        BY <1>2, Filed, ZenonT(30)
    <2>2. o.route = "host_file" => a.bytes = all \o c
        BY <2>1, Zenon DEF Gave
    <2> QED BY <1>2, <2>1, <2>2, Zenon DEF Gave, GivenRight
<1> QED BY <1>1, <1>2, ZenonT(30)

\* drain_host_output gives the accumulator or the file the next bytes, or
\* drops the connection.
LEMMA ReadFlow ==
    ASSUME NEW s \in Streams, AskedOK, HostOK, PipesOK, PastInv, FlowInv(s), drain_host_output(s)
    PROVE  FlowInv(s)' /\ HostOK'
<1>1. /\ asked' = asked /\ written' = written /\ process' = process /\ pipe' = pipe /\ reader' = reader
      /\ lifecycle' = lifecycle /\ pc \notin Unchecked
    BY Zenon DEF drain_host_output, DrainStep, Reading, Unchecked
<1> DEFINE l == link[s].bytes
           p == pipe[s]
           o == asked[s]
           acc == capture[s]
           c(n) == SubSeq(l, 1, n)
           r(n) == SubSeq(l, n + 1, Len(l))
           accs(n) == Given(o, acc, c(n))
<1>2. /\ l \in Seq(Byte) /\ p \in Seq(Byte) /\ o \in OutputOptions /\ acc \in Accumulator
      /\ capture \in [Streams -> Accumulator] /\ link \in [Streams -> Conn]
      /\ drain \in [Streams -> {"none", "reading", "failed", "taken", "done", "aborted"}]
    BY DEF AskedOK, HostOK, PipesOK, Conn
<1>3. validate_output(o)
    BY <1>1, Zenon DEF PastInv
<1>4. PICK n \in 1 .. Len(l) :
          \/ \E a \in accs(n) : capture' = [capture EXCEPT ![s] = a] /\ Read(s, n) /\ UNCHANGED drain
          \/ /\ drain' = [drain EXCEPT ![s] = "failed"] /\ UNCHANGED capture
             /\ link' = [link EXCEPT ![s] = [bytes |-> <<>>, state |-> "dropped"]]
    BY Zenon DEF drain_host_output, Given
<1> HIDE DEF l, p, o, acc, c, r, accs
<1>5. c(n) \in Seq(Byte)
    BY <1>2, <1>4, ChunkFacts, ZenonT(30) DEF c
<1>6. link[s].state \in {"open", "eof"}
    <2>1. l # <<>>
        BY <1>2, <1>4, EmptySeq
    <2> QED BY <2>1, Zenon DEF FlowInv, l
<1>7. CASE /\ drain' = [drain EXCEPT ![s] = "failed"] /\ UNCHANGED capture
           /\ link' = [link EXCEPT ![s] = [bytes |-> <<>>, state |-> "dropped"]]
    <2>1. Cut(s)
        BY <1>1, <1>2, <1>7, ZenonT(30) DEF Cut, Calmly
    <2>2. FlowInv(s)'
        BY <1>1, <2>1, StillOrCut, ZenonT(30)
    <2>3. HostOK'
        BY <1>1, <1>2, <1>7 DEF HostOK
    <2> QED BY <2>2, <2>3, ZenonT(30)
<1>8. ASSUME NEW a \in accs(n), capture' = [capture EXCEPT ![s] = a], Read(s, n), UNCHANGED drain
      PROVE  FlowInv(s)' /\ HostOK'
    <2>1. capture'[s] = a /\ link'[s].bytes = r(n) /\ link'[s].state = link[s].state
        BY <1>2, <1>8, ZenonT(30) DEF Read, Conn, r, l
    <2>2. Piped(s) => Whole(s)
        BY <1>3, <1>6, Zenon DEF FlowInv, Sound, o
    <2>3. ASSUME NEW all \in Seq(Byte), Gave(o, acc, all)
          PROVE  GivenRight(o, acc, a, all, c(n))
        BY <1>2, <1>3, <1>5, <1>8, <2>3, ChunkGiven, Zenon DEF accs
    <2>4. a \in Accumulator
        <3>1. CASE Piped(s)
            BY <2>2, <2>3, <3>1, Zenon DEF Whole, Got, o, acc, GivenRight
        <3>2. CASE ~Piped(s)
            <4>1. o.route # "capture"
                BY <3>2, ZenonT(30) DEF Piped, o
            <4> QED BY <1>2, <1>5, <1>8, <4>1, Filed, ZenonT(30) DEF accs
        <3> QED BY <3>1, <3>2
    <2>5. HostOK'
        BY <1>1, <1>2, <1>8, <2>4, ZenonT(30) DEF HostOK
    <2>6. Piped(s) => Whole(s)'
        <3> SUFFICES ASSUME Piped(s) PROVE Whole(s)'
            OBVIOUS
        <3>1. PICK all \in Seq(Byte) : written[s] = all \o (l \o p) /\ Gave(o, acc, all)
            BY <2>2, Zenon DEF Whole, Got, l, p, o, acc
        <3>2. all \o c(n) \in Seq(Byte) /\ all \o (l \o p) = (all \o c(n)) \o (r(n) \o p)
            <4>1. ReadOut(Byte, all, l, p, n)
                BY <1>2, <1>4, <3>1, ChunkRead, Zenon
            <4> QED BY <4>1, Zenon DEF ReadOut, c, r
        <3>3. Gave(o, a, all \o c(n))
            BY <2>3, <3>1, Zenon DEF GivenRight
        <3>4. written'[s] = (all \o c(n)) \o (link'[s].bytes \o pipe'[s]) /\ Gave(asked'[s], capture'[s], all \o c(n))
            BY <1>1, <2>1, <3>1, <3>2, <3>3, ZenonT(30) DEF p, o
        <3> QED BY <3>2, <3>4, Zenon DEF Whole, Got
    <2>7. FlowInv(s)'
        BY <1>1, <1>6, <2>1, <2>6, Zenon DEF FlowInv, Piped, Sound
    <2> QED BY <2>5, <2>7
<1> QED BY <1>4, <1>7, <1>8, Zenon

-----------------------------------------------------------------------------
(* The run.                                                                *)

\* Every step accounts for the bytes of each stream.
LEMMA FlowStep ==
    ASSUME CallShape, RunInv, Next
    PROVE  \A s \in Streams : FlowInv(s)'
<1> SUFFICES ASSUME NEW s \in Streams PROVE FlowInv(s)'
    OBVIOUS
<1>1. AskedOK /\ HostOK /\ PipesOK /\ OpInv /\ PastInv /\ BindInv /\ FlowInv(s)
    BY ZenonT(30) DEF RunInv, TypeOK
<1>2. asked'[s] = asked[s]
    BY <1>1, AskedStep, ZenonT(30)
<1>3. CASE Still(s) \/ Cut(s)
    BY <1>1, <1>2, <1>3, StillOrCut, Zenon
<1>4. CASE Moved(s)
    BY <1>1, <1>4, StartFlow, BindFlow, WriteFlow, RelayFlow, LostFlow, ReadFlow, Zenon DEF Moved
<1> QED BY <1>1, <1>3, <1>4, WhatMoves, Zenon

\* The invariant of the run is kept by every step.
LEMMA RunNext ==
    ASSUME CallShape, RunInv, Next
    PROVE  CallShape' /\ RunInv'
<1>1. /\ AskedOK /\ HostOK /\ PipesOK /\ OpInv /\ PastInv /\ FateInv /\ ToldInv /\ DrainInv /\ BindInv
      /\ \A s \in Streams : FlowInv(s)
    BY ZenonT(30) DEF RunInv, TypeOK
<1>2. AskedOK' /\ PipesOK'
    BY <1>1, AskedStep, PipesStep, Zenon
<1>3. HostOK'
    BY <1>1, HostStep, ReadFlow, Zenon
<1>4. OpInv' /\ PastInv' /\ FateInv'
    BY <1>1, OpStep, PastStep, FateStep, ZenonT(30)
<1>5. ToldInv' /\ DrainInv' /\ BindInv'
    BY <1>1, ToldStep, DrainsStep, BindStep
<1>6. \A s \in Streams : FlowInv(s)'
    BY FlowStep, ZenonT(30)
<1> QED BY <1>2, <1>3, <1>4, <1>5, <1>6, ShapeStep, ZenonT(30) DEF RunInv, TypeOK

\* A step that changes nothing.
LEMMA RunStutters ==
    ASSUME CallShape, RunInv, UNCHANGED vars
    PROVE  CallShape' /\ RunInv'
<1> USE DEF vars, bvars, cvars, hvars, gvars
<1>1. CallShape' /\ AskedOK' /\ HostOK' /\ PipesOK'
    BY ZenonT(30) DEF RunInv, CallShape, TypeOK, AskedOK, HostOK, PipesOK
<1>2. OpInv' /\ PastInv' /\ FateInv'
    BY ZenonT(30) DEF RunInv, OpInv, PastInv, FateInv, Piped
<1>3. ToldInv' /\ DrainInv'
    BY ZenonT(30) DEF RunInv, ToldInv, Won, AllJoined, FirstError, DrainInv, Piped
<1>4. BindInv'
    BY Zenon DEF RunInv, BindInv, Piped, Over, Mine
<1>5. \A s \in Streams : FlowInv(s)'
    BY Zenon DEF RunInv, FlowInv, Piped, Sound, Whole, Got
<1> QED BY <1>1, <1>2, <1>3, <1>4, <1>5, ZenonT(30) DEF RunInv, TypeOK

\* Nothing has been asked for, written or captured.
LEMMA RunFirst ==
    ASSUME Init
    PROVE  CallShape /\ RunInv
<1> DEFINE none == [bytes |-> <<>>, end_reached |-> FALSE]
<1>1. asked \in Runs /\ ProcessInit /\ call = Idle
    BY Zenon DEF Init, ProcessInit, SessionInit
<1>2. AskedOK /\ asked.script \in [Streams -> Seq(Byte)]
    BY <1>1, RunsAssumption DEF AskedOK, Streams
<1>3. <<>> \in Seq(Byte)
    BY EmptySeq, ZenonT(30)
<1>4. CallShape /\ OpInv /\ PastInv /\ FateInv
    BY <1>1, ZenonT(30) DEF ProcessInit, Idle, CallShape, OpInv, PastInv, FateInv, Streams, Early, Unchecked
<1>5. ToldInv /\ DrainInv
    BY <1>1, ZenonT(30) DEF ProcessInit, ToldInv, DrainInv, is_terminal, Streams
<1>6. BindInv
    BY <1>1, ZenonT(30) DEF ProcessInit, BindInv, Idle, Free, Streams
<1>7. HostOK
    BY <1>1, <1>3, Zenon DEF ProcessInit, HostOK, Accumulator
<1>8. PipesOK
    BY <1>1, <1>2, <1>3, ZenonT(30) DEF ProcessInit, PipesOK, Conn, Free
<1>9. ASSUME NEW s \in Streams
      PROVE  FlowInv(s)
    <2>1. written[s] = <<>> /\ pipe[s] = <<>> /\ link[s] = Free /\ capture[s] = none /\ reader[s] = "none"
          /\ process = "none" /\ asked[s] \in OutputOptions
        BY <1>1, <1>2, ZenonT(30) DEF ProcessInit, AskedOK
    <2>5. link[s].bytes = <<>> /\ link[s].state = "none" /\ none.bytes = <<>>
        BY <2>1 DEF Free
    <2>6. <<>> \o (<<>> \o <<>>) = <<>>
        BY <1>3, NothingLeft, Zenon
    <2>2. written[s] = <<>> \o (link[s].bytes \o pipe[s])
        BY <2>1, <2>5, <2>6, Zenon
    <2> HIDE DEF none
    <2>3. validate_output(asked[s]) => Got(s, <<>>)
        <3>1. asked[s].route = "capture" /\ validate_output(asked[s]) => Captured(asked[s], capture[s], <<>>)
            BY <2>1, NothingCaptured, ZenonT(30) DEF none
        <3> QED BY <2>1, <2>5, <3>1, ZenonT(30) DEF Got, Gave
    <2>4. validate_output(asked[s]) => Whole(s)
        BY <1>3, <2>2, <2>3, ZenonT(30) DEF Whole
    <2> QED BY <2>1, <2>4, <2>5, ZenonT(30) DEF FlowInv
<1> QED BY <1>2, <1>4, <1>5, <1>6, <1>7, <1>8, <1>9, ZenonT(30) DEF RunInv, TypeOK

\* A stream whose drain is done has been given all that was written.
LEMMA DoneIsWhole ==
    ASSUME NEW s \in Streams, AskedOK, HostOK, FlowInv(s), Piped(s), validate_output(asked[s]),
           link[s] = [bytes |-> <<>>, state |-> "eof"]
    PROVE  /\ asked[s].route = "capture" =>
                 /\ capture[s].bytes = Kept(asked[s], written[s])
                 /\ asked[s].overflow = "stop" => Boundary(asked[s], written[s]) <= asked[s].limit
           /\ asked[s].route = "host_file" => capture[s].bytes = written[s]
<1>0. link[s].bytes = <<>> /\ link[s].state = "eof"
    OBVIOUS
<1>1. Whole(s) /\ pipe[s] = <<>>
    BY <1>0, ZenonT(30) DEF FlowInv, Sound
<1>2. PICK all \in Seq(Byte) : written[s] = all \o (<<>> \o <<>>) /\ Got(s, all)
    BY <1>0, <1>1, ZenonT(30) DEF Whole
<1>3. written[s] = all
    BY <1>2, NothingLeft, ZenonT(30)
<1>4. asked[s] \in OutputOptions /\ capture[s] \in Accumulator
    BY DEF AskedOK, HostOK
<1>5. Gave(asked[s], capture[s], written[s]) /\ written[s] \in Seq(Byte)
    BY <1>2, <1>3, Zenon DEF Got
<1> QED BY <1>4, <1>5, CapturedIsKept, ZenonT(30) DEF Gave

\* A run that an observer sees finish.
LEMMA RunMeans ==
    ASSUME RunInv
    PROVE  FinishedMeansCaptured
<1>1. AskedOK /\ HostOK /\ PastInv /\ FateInv /\ ToldInv /\ DrainInv /\ \A s \in Streams : FlowInv(s)
    BY DEF RunInv, TypeOK
<1>2. Observed = "finished" <=> lifecycle.state = "finished"
    BY ZenonT(30) DEF Observed, terminal_from_closed, is_terminal
<1>3. ASSUME lifecycle.state = "finished"
      PROVE  /\ process = "exited" /\ ~entry
             /\ \A s \in Streams :
                   /\ asked[s].route = "capture" =>
                         /\ lifecycle[s] = {Kept(asked[s], written[s])}
                         /\ asked[s].overflow = "stop" => Boundary(asked[s], written[s]) <= asked[s].limit
                   /\ asked[s].route = "host_file" => capture[s].bytes = written[s]
    <2>1. Won /\ pc = "returned"
        BY <1>1, <1>3, Zenon DEF ToldInv
    <2>2. process = "exited" /\ ~entry
        BY <1>1, <2>1, ZenonT(30) DEF FateInv, Won
    <2>3. ASSUME NEW s \in Streams, Piped(s)
          PROVE  link[s] = [bytes |-> <<>>, state |-> "eof"] /\ validate_output(asked[s])
        <3>1. drain[s] \in {"reading", "done"} /\ drain[s] # "reading"
            BY <1>1, <2>1, <2>3, ZenonT(30) DEF DrainInv, Won, AllJoined
        <3> QED BY <1>1, <2>1, <3>1, ZenonT(30) DEF DrainInv, PastInv, Unchecked
    <2>4. \A s \in Streams : asked[s].route = "capture" => lifecycle[s] = {capture[s].bytes}
        BY <1>1, <1>3, ZenonT(30) DEF ToldInv
    <2>5. ASSUME NEW s \in Streams
          PROVE  /\ asked[s].route = "capture" =>
                       /\ lifecycle[s] = {Kept(asked[s], written[s])}
                       /\ asked[s].overflow = "stop" => Boundary(asked[s], written[s]) <= asked[s].limit
                 /\ asked[s].route = "host_file" => capture[s].bytes = written[s]
        <3>1. CASE Piped(s)
            BY <1>1, <2>3, <2>4, <3>1, DoneIsWhole, ZenonT(30)
        <3>2. CASE ~Piped(s)
            BY <3>2, Zenon DEF Piped
        <3> QED BY <3>1, <3>2, Zenon
    <2> QED BY <2>2, <2>5, ZenonT(30)
<1>4. answer = "ok" <=> lifecycle.state = "finished"
    BY <1>1 DEF ToldInv
<1> QED BY <1>2, <1>3, <1>4, Zenon DEF FinishedMeansCaptured

\* A run that an observer sees finish has captured what its process wrote on
\* each stream, up to the configured boundary and within the limit, and a
\* host file has all of it: run_direct_process, drain_host_output and the
\* guest's relays lose, repeat and reorder no byte, however the output is
\* cut into chunks and whatever fails on the way, for all plans, runs and
\* capacities and any number of mishaps.
THEOREM CapturedWhenFinished == Spec => []FinishedMeansCaptured
<1>1. Init => CallShape /\ RunInv
    BY RunFirst
<1>2. CallShape /\ RunInv /\ [Next]_vars => CallShape' /\ RunInv'
    BY RunNext, RunStutters
<1>3. RunInv => FinishedMeansCaptured
    BY RunMeans
<1> QED BY <1>1, <1>2, <1>3, PTL DEF Spec
=============================================================================
