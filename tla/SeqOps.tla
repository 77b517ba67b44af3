------------------------------- MODULE SeqOps -------------------------------
(***************************************************************************)
(* The few operators on sequences that the modules of the image pipeline   *)
(* use.  (SequencesExt has them too, among many that the proof system      *)
(* would carry through every step of a proof.)                             *)
(***************************************************************************)
EXTENDS Integers, Sequences, FiniteSetsExt, TLC

Last(s) == s[Len(s)]
Front(s) == SubSeq(s, 1, Len(s) - 1)

\* s is where t starts.
IsPrefix(s, t) == Len(s) <= Len(t) /\ \A i \in DOMAIN s : s[i] = t[i]

\* op(.. op(op(base, s[1]), s[2]) .., s[n]).
FoldLeft(op(_, _), base, s) ==
    MapThenFoldSet(LAMBDA e, acc : op(acc, e), base, LAMBDA i : s[i], Max, DOMAIN s)
=============================================================================
