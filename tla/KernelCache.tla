---------------------------- MODULE KernelCache ----------------------------
(***************************************************************************)
(* What the custom-kernel cache promises its users, whatever the order of  *)
(* locks, renames and index writes behind it: one compilation at a time,   *)
(* and every answer is the kernel cached at that moment or the user's own  *)
(* compilation.                                                            *)
(***************************************************************************)
CONSTANTS User, Kernel, NoKernel, Nobody

VARIABLES
    cached,         \* the kernel in the cache, or NoKernel
    compiler,       \* the user that compiles, or Nobody
    made,           \* the kernel the compiling user has published, or NoKernel
    answer          \* user -> the kernel it was given last, or NoKernel

Init ==
    /\ cached = NoKernel
    /\ compiler = Nobody
    /\ made = NoKernel
    /\ answer = [u \in User |-> NoKernel]

Ask(u) ==
    /\ answer' = [answer EXCEPT ![u] = NoKernel]
    /\ UNCHANGED <<cached, compiler, made>>

Hit(u) ==
    /\ cached # NoKernel
    /\ answer' = [answer EXCEPT ![u] = cached]
    /\ UNCHANGED <<cached, compiler, made>>

Begin(u) ==
    /\ compiler = Nobody
    /\ compiler' = u
    /\ UNCHANGED <<cached, made, answer>>

\* What was compiled is in the cache, unless its file is lost already.
Publish(u) ==
    /\ compiler = u
    /\ made' \in Kernel
    /\ cached' \in {made', NoKernel}
    /\ UNCHANGED <<compiler, answer>>

\* The compilation is over; the answer is what it made, or there is none, and
\* then the kernel in its way may be gone.
Leave(u) ==
    /\ compiler = u
    /\ compiler' = Nobody
    /\ made' = NoKernel
    /\ \/ answer' = [answer EXCEPT ![u] = made] /\ UNCHANGED cached
       \/ answer' = answer /\ cached' \in {cached, NoKernel}

\* A file in the cache is lost, or another is put in its place.
Lose ==
    /\ cached' = NoKernel
    /\ UNCHANGED <<compiler, made, answer>>

Next == Lose \/ \E u \in User : Ask(u) \/ Hit(u) \/ Begin(u) \/ Publish(u) \/ Leave(u)

Spec == Init /\ [][Next]_<<cached, compiler, made, answer>>
=============================================================================
