---------------------------- MODULE ImagesProofs ----------------------------
(***************************************************************************)
(* The custom-kernel cache under any number of builders, processes, jobs   *)
(* and mishaps: custom builds of one request are one compilation at a time *)
(* and implement module KernelCache, and every custom job that succeeds    *)
(* has the kernel of its own request.                                      *)
(***************************************************************************)
EXTENDS Images, TLAPS

\* A leaf that names no prover is one for Zenon.
USE Zenon

----------------------------------------------------------------------------
(* The inductive invariant *)

Locked == {"c_recheck", "c_lease", "c_compile", "c_done"}
CustomPcs == {"c_cached", "c_proc", "c_file"} \cup Locked
KernelPcs == {"k_resolve", "k_cached", "k_rootfs", "k_hit", "k_raw", "k_modules", "k_extract_modules",
              "k_kernel", "k_extract", "k_done"}
SourcePcs == {"blueprint", "fetch", "layer", "load", "normalize"}

\* What the builder's job compiles, and the digest of its request.
Own(b) == <<"bz", "custom", Compiled(CustomSpec(b), Job(b).compiler), bd[b].n, b>>
RequestDigest(b) == custom_request_digest(CustomSpec(b), Job(b).compiler)

Shaped(b) == DOMAIN bd[b] = DOMAIN Idle /\ bd[b].n \in Nat

\* A task that has ended publishes nothing.
Rested(b) == bd[b].pc \in Ended => bd[b].ops = <<>>

\* The digest a custom job goes by is the one of its request.
Asked(b) == (bd[b].n > 0 /\ Job(b).kernel = "custom") => bd[b].kd = RequestDigest(b)

\* A task on its way through a custom build has a custom job ...
InCustom(b) ==
    bd[b].pc \in CustomPcs =>
        /\ bd[b].n > 0 /\ Job(b).kernel = "custom"
        /\ bd[b].pc # "c_done" => bd[b].ops = <<>>

\* ... and what it publishes is what it compiled, or is refused by the check.
Making(b) ==
    \/ /\ bd[b].ops \in {<<"place", "check", "publish">>, <<"check", "publish">>}
       /\ bd[b].slot = KernelSlot(b) /\ bd[b].staged \in {Own(b), <<"text">>}
    \/ bd[b].ops = <<"publish">> /\ bd[b].slot = KernelSlot(b) /\ bd[b].staged = Own(b)
    \/ bd[b].ops = <<>> /\ bd[b].art = Own(b)

\* The steps of the other kernels are not taken for a custom one.
External(b) ==
    /\ (bd[b].pc \in KernelPcs \/ (bd[b].pc \in SourcePcs /\ bd[b].stage = "kernel")) => Job(b).kernel # "custom"
    /\ bd[b].pc \in {"r_resolve", "r_cached"} => bd[b].stage = "rootfs"

\* No other step writes in the slot of the request.
Elsewhere(b) ==
    (bd[b].pc # "c_done" /\ (bd[b].pc \in {"load", "normalize"} \/ bd[b].ops # <<>>)) => bd[b].slot # CustomSlot

\* From the second look into the cache on the task holds the lock file.
Holds(b) == bd[b].pc \in Locked => bd[b].kd \in DOMAIN xproc /\ xproc[bd[b].kd] = b

\* Past the build the task has a kernel of the request.
Answered(b) == (Custom(b) /\ bd[b].pc \notin CustomPcs \cup {"failed", "dead"}) => bd[b].kernel \in CustomKernel

\* The record is of a kernel that was compiled and published ...
Recorded ==
    CustomSlot \in DOMAIN index =>
        /\ index[CustomSlot] \in CustomKernel
        /\ index[CustomSlot][4] <= bd[index[CustomSlot][5]].n

\* ... so it is not of one that has yet to be ...
Unrecorded(b) ==
    (CustomSlot \in DOMAIN index /\ bd[b].pc \in CustomPcs /\ ~At(b, "c_done") /\ index[CustomSlot][5] = b) =>
        index[CustomSlot][4] < bd[b].n

\* ... nor of one whose publication was abandoned.
Abandoned(c) ==
    \/ c = <<"text">>
    \/ /\ c \in CustomKernel /\ c[4] <= bd[c[5]].n
       /\ c[4] = bd[c[5]].n => ~Active(c[5])
Harmless(s) ==
    s[2] = CustomSlot => Abandoned(s[3]) /\ (CustomSlot \in DOMAIN index => index[CustomSlot] # s[3])
Strays == \A s \in stray : Harmless(s)

TaskInv(b) ==
    /\ Shaped(b) /\ Rested(b) /\ InCustom(b) /\ (bd[b].pc = "c_done" => Making(b)) /\ External(b) /\ Elsewhere(b)
    /\ Answered(b) /\ Asked(b)
CacheInv == DOMAIN bd = Builder /\ (\A b \in Builder : TaskInv(b) /\ Holds(b) /\ Unrecorded(b)) /\ Recorded /\ Strays

----------------------------------------------------------------------------
(* Steps, seen from the request *)

\* Nothing the invariant is about changes for the builder.
Same(b) ==
    /\ DOMAIN bd'[b] = DOMAIN bd[b]
    /\ bd'[b].pc = bd[b].pc /\ bd'[b].ops = bd[b].ops /\ bd'[b].n = bd[b].n /\ bd'[b].stage = bd[b].stage
    /\ bd'[b].slot = bd[b].slot /\ bd'[b].staged = bd[b].staged /\ bd'[b].art = bd[b].art
    /\ bd'[b].kd = bd[b].kd /\ bd'[b].kernel = bd[b].kernel

\* The record of the request stays or goes.
RecordKept == CustomSlot \in DOMAIN index' => CustomSlot \in DOMAIN index /\ index'[CustomSlot] = index[CustomSlot]

\* The locks of other tasks stay.
LocksKept(B) == \A k \in DOMAIN xproc : xproc[k] \notin B => k \in DOMAIN xproc' /\ xproc'[k] = xproc[k]

\* A publication that is abandoned is of something that will not be recorded.
StraysKept == \A s \in stray' : s \in stray \/ Harmless(s)'

\* What the task of a builder may do to what others rely on.
Forward(b) == bd[b].n <= bd'[b].n /\ ((bd'[b].n = bd[b].n /\ Active(b)') => Active(b))

Stutter == UNCHANGED <<InCache, TheCompiler, Made, Given>>

\* The fields of a builder (ImageStore).
LEMMA Fields ==
    DOMAIN Idle = {"pc", "ops", "n", "stage", "slot", "staged", "art", "todo", "layers", "kd", "rd", "kernel",
                   "modules", "rootfs", "base", "out", "since"}
BY DEF Idle

\* The job of a builder is the one its counter names, and jobs are never
\* changed (materialize_image).
LEMMA SameJob ==
    ASSUME jobs' = jobs, NEW b, bd'[b].n = bd[b].n
    PROVE  Job(b)' = Job(b) /\ CustomSpec(b)' = CustomSpec(b) /\ Own(b)' = Own(b)
           /\ RequestDigest(b)' = RequestDigest(b)
<1>1. Job(b)' = Job(b)
  BY DEF Job
<1>2. CustomSpec(b)' = CustomSpec(b)
  BY <1>1 DEF CustomSpec
<1> QED
  BY <1>1, <1>2 DEF Own, RequestDigest

\* A builder whose fields are as they were is as it was.
LEMMA SameTask ==
    ASSUME jobs' = jobs, NEW b, Same(b), TaskInv(b)
    PROVE  TaskInv(b)' /\ Custom(b)' = Custom(b) /\ Active(b)' = Active(b)
<1>1. Job(b)' = Job(b) /\ Own(b)' = Own(b) /\ RequestDigest(b)' = RequestDigest(b)
  BY SameJob DEF Same
<1>2. Custom(b)' = Custom(b)
  BY <1>1 DEF Same, Custom
<1>3. KernelSlot(b)' = KernelSlot(b)
  BY <1>1 DEF Same, KernelSlot, path
<1>4. Shaped(b)' /\ Rested(b)' /\ InCustom(b)' /\ External(b)' /\ Elsewhere(b)' /\ Answered(b)' /\ Asked(b)'
  BY <1>1, <1>2 DEF Same, TaskInv, Shaped, Rested, InCustom, External, Elsewhere, Answered, Asked
<1>5. (bd[b].pc = "c_done" => Making(b))'
  BY <1>1, <1>3 DEF Same, TaskInv, Making
<1> QED
  BY <1>2, <1>4, <1>5 DEF TaskInv, Same, Active

\* Steps that write no record for the request keep the invariant, whatever
\* builders they move, if it holds for these.
LEMMA Preserve ==
    ASSUME CacheInv, jobs' = jobs, DOMAIN bd' = Builder, NEW B \in SUBSET Builder,
           \A x \in Builder \ B : Same(x),
           \A x \in B : TaskInv(x)' /\ Holds(x)' /\ Unrecorded(x)' /\ Forward(x),
           LocksKept(B), RecordKept, StraysKept
    PROVE  CacheInv'
<1>1. ASSUME NEW x \in Builder \ B  PROVE TaskInv(x)' /\ Forward(x)
  <2>1. TaskInv(x) /\ Same(x)
    BY DEF CacheInv
  <2>2. TaskInv(x)' /\ Active(x)' = Active(x)
    BY <2>1, SameTask
  <2>3. bd[x].n \in Nat /\ bd'[x].n = bd[x].n
    BY <2>1 DEF TaskInv, Shaped, Same
  <2> QED
    BY <2>2, <2>3, SMT DEF Forward
<1>2. \A x \in Builder : TaskInv(x)' /\ Forward(x)
  BY <1>1
<1>3. ASSUME NEW x \in Builder \ B  PROVE Holds(x)'
  <2>1. Holds(x) /\ Same(x)
    BY DEF CacheInv
  <2> QED
    BY <2>1 DEF Holds, Same, LocksKept
<1>4. ASSUME NEW x \in Builder \ B  PROVE Unrecorded(x)'
  <2>1. Unrecorded(x) /\ Same(x)
    BY DEF CacheInv
  <2> QED
    BY <2>1 DEF Unrecorded, Same, RecordKept, At
<1>5. \A c : c \in CustomKernel => c[5] \in Builder /\ c[4] \in Nat
  BY DEF CustomKernel
<1>6. \A x \in Builder : bd[x].n \in Nat /\ bd'[x].n \in Nat /\ bd[x].n <= bd'[x].n
  BY <1>2 DEF CacheInv, TaskInv, Shaped, Forward
<1>7. Recorded'
  <2>1. Recorded
    BY DEF CacheInv
  <2>2. SUFFICES ASSUME CustomSlot \in DOMAIN index'
                 PROVE  index'[CustomSlot] \in CustomKernel
                        /\ index'[CustomSlot][4] <= bd'[index'[CustomSlot][5]].n
    BY DEF Recorded, CustomSlot, Slot, CustomRequest, CustomKernel, OfRequest
  <2>3. index'[CustomSlot] = index[CustomSlot] /\ index[CustomSlot] \in CustomKernel
        /\ index[CustomSlot][4] <= bd[index[CustomSlot][5]].n
    BY <2>1, <2>2 DEF Recorded, RecordKept
  <2> QED
    BY <2>3, <1>5, <1>6, SMT
<1>8. Strays'
  <2>1. SUFFICES ASSUME NEW s \in stray', s \in stray, s[2] = CustomSlot
                 PROVE  Abandoned(s[3])' /\ (CustomSlot \in DOMAIN index' => index'[CustomSlot] # s[3])
    BY DEF Strays, StraysKept, Harmless, CustomSlot, Slot, CustomRequest
  <2>2. Abandoned(s[3]) /\ (CustomSlot \in DOMAIN index => index[CustomSlot] # s[3])
    BY <2>1 DEF CacheInv, Strays, Harmless
  <2>3. CustomSlot \in DOMAIN index' => index'[CustomSlot] # s[3]
    BY <2>2 DEF RecordKept
  <2>4. ASSUME s[3] \in CustomKernel, s[3][4] <= bd[s[3][5]].n,
               s[3][4] = bd[s[3][5]].n => ~Active(s[3][5])
        PROVE  s[3][4] <= bd'[s[3][5]].n /\ (s[3][4] = bd'[s[3][5]].n => ~Active(s[3][5])')
    <3> DEFINE x == s[3][5]
    <3>1. x \in Builder /\ s[3][4] \in Nat
      BY <2>4, <1>5
    <3>2. bd[x].n \in Nat /\ bd'[x].n \in Nat /\ bd[x].n <= bd'[x].n
      BY <3>1, <1>6
    <3>3. (bd'[x].n = bd[x].n /\ Active(x)') => Active(x)
      BY <3>1, <1>2 DEF Forward
    <3> QED
      BY <3>1, <3>2, <3>3, <2>4, SMT
  <2>5. Abandoned(s[3])'
    BY <2>2, <2>4 DEF Abandoned, CustomKernel, OfRequest, CustomRequest
  <2> QED
    BY <2>3, <2>5
<1> QED
  BY <1>2, <1>3, <1>4, <1>7, <1>8 DEF CacheInv

----------------------------------------------------------------------------
(* The slot of the request *)

\* A job with the digest of the request compiles what the request asks for, in
\* its slot: the digest has every input of the compilation
\* (custom_request_digest).
LEMMA OwnIsCustom ==
    ASSUME NEW b \in Builder, bd[b].n \in Nat, Custom(b), bd[b].kd = RequestDigest(b)
    PROVE  /\ Own(b) \in CustomKernel /\ KernelSlot(b) = CustomSlot
           /\ \A spec \in OfRequest : Compiled(spec, Compiler) = Compiled(CustomSpec(b), Job(b).compiler)
<1>1. PICK spec \in OfRequest : TRUE
  <2>1. PICK spec \in custom(Requested) : CustomRequest = custom_request_digest(spec, Compiler)
    BY RequestedAssumption DEF CustomRequest
  <2> QED
    BY <2>1 DEF OfRequest
<1>2. ASSUME NEW s \in OfRequest  PROVE Compiled(s, Compiler) = Compiled(CustomSpec(b), Job(b).compiler)
  <2>1. custom_request_digest(CustomSpec(b), Job(b).compiler) = custom_request_digest(s, Compiler)
    BY DEF Custom, RequestDigest, OfRequest
  <2> QED
    BY <2>1 DEF custom_request_digest, LinkDigest, Compiled, bootstrap_args, bootstrap_builder
<1>3. Own(b) \in CustomKernel
  <2>1. Own(b) = <<"bz", "custom", Compiled(spec, Compiler), bd[b].n, b>>
    BY <1>2 DEF Own
  <2> QED
    BY <2>1, SMT DEF CustomKernel
<1> QED
  BY <1>2, <1>3 DEF Custom, KernelSlot, CustomSlot

\* Namespaces and digest domains keep every other artifact out of that slot
\* (kernel_request_digest, custom_request_digest).
LEMMA SlotsDiffer ==
    /\ \A x : Slot("layers", x) # CustomSlot /\ Slot("rootfs", x) # CustomSlot /\ Slot("modules", x) # CustomSlot
    /\ \A b : (Job(b).kernel # "custom" \/ bd[b].kd # CustomRequest) => KernelSlot(b) # CustomSlot
<1>2. PICK f : CustomRequest = <<"custom", f>>
  BY RequestedAssumption DEF CustomRequest, custom_request_digest, LinkDigest
<1>3. \A d, p : kernel_request_digest(d, p) # CustomRequest
  BY <1>2 DEF kernel_request_digest, LinkDigest
<1> QED
  BY <1>3 DEF KernelSlot, CustomSlot, Slot

\* A look at a slot removes the record only when it was of no use
\* (read_file_ref).
LEMMA ReadKeeps ==
    ASSUME NEW s, NEW c, read_file_ref(s, c), file' = file
    PROVE  RecordKept /\ InCache' = InCache
<1>1. CASE index' = index
  BY <1>1 DEF RecordKept, InCache, stored_file_validity, CustomSlot, CustomRequest
<1>2. CASE index' = Drop(index, s) /\ ~stored_file_validity(s)
  BY <1>2, SMT DEF RecordKept, InCache, stored_file_validity, Drop, CustomSlot, CustomRequest
<1> QED
  BY <1>1, <1>2 DEF read_file_ref

\* A write is one entry of a table (Drop, publish_file_ref, attempt_publish).
Touches(f, g, s) == g = f \/ g = Drop(f, s) \/ \E c : g = With(f, s, c)
LEMMA OtherEntry ==
    ASSUME NEW f, NEW g, NEW s, NEW t, s # t, Touches(f, g, s)
    PROVE  (t \in DOMAIN g) = (t \in DOMAIN f) /\ (t \in DOMAIN f => g[t] = f[t])
<1>1. CASE g = Drop(f, s)
  BY <1>1, SMT DEF Drop
<1>2. ASSUME NEW c, g = With(f, s, c)
      PROVE  (t \in DOMAIN g) = (t \in DOMAIN f) /\ (t \in DOMAIN f => g[t] = f[t])
  BY <1>2, SMT DEF With
<1> QED
  BY <1>1, <1>2 DEF Touches

\* What is written in another slot does not matter.
LEMMA WriteElsewhere ==
    ASSUME NEW s, s # CustomSlot, Touches(index, index', s), Touches(file, file', s)
    PROVE  RecordKept /\ InCache' = InCache
<1>1. /\ (CustomSlot \in DOMAIN index') = (CustomSlot \in DOMAIN index)
      /\ CustomSlot \in DOMAIN index => index'[CustomSlot] = index[CustomSlot]
  BY OtherEntry, SMT
<1>2. /\ (CustomSlot \in DOMAIN file') = (CustomSlot \in DOMAIN file)
      /\ CustomSlot \in DOMAIN file => file'[CustomSlot] = file[CustomSlot]
  BY OtherEntry, SMT
<1> QED
  BY <1>1, <1>2 DEF RecordKept, InCache, stored_file_validity, CustomSlot, CustomRequest

----------------------------------------------------------------------------
(* What the abstract cache sees of a builder *)

Seen(b) ==
    /\ (b \in Compiling)' <=> b \in Compiling
    /\ (b \in Published)' <=> b \in Published
    /\ b \in Published => bd'[b].art = bd[b].art
    /\ Given'[b] = Given[b]

\* A builder whose fields are as they were looks the same.
LEMMA SameSeen ==
    ASSUME jobs' = jobs, NEW b \in Builder, Same(b)
    PROVE  Seen(b)
<1>1. Custom(b)' = Custom(b)
  BY SameJob, SMT DEF Same, Custom
<1> QED
  BY <1>1 DEF Seen, Same, Compiling, Published, Given, At

\* The view is made of the builders.
LEMMA AllSeen ==
    ASSUME \A b \in Builder : Seen(b)
    PROVE  UNCHANGED <<TheCompiler, Made, Given>>
<1>1. Compiling' = Compiling /\ Published' = Published
  BY DEF Seen, Compiling, Published
<1>2. TheCompiler' = TheCompiler
  BY <1>1, SMT DEF TheCompiler
<1>3. Published # {} => (CHOOSE b \in Published : TRUE) \in Published /\ Published \subseteq Builder
  BY DEF Published, Compiling
<1>4. Made' = Made
  BY <1>1, <1>3 DEF Made, Seen
<1>5. Given' = Given
  BY DEF Seen, Given
<1> QED
  BY <1>2, <1>4, <1>5

\* One task compiles for a request, over all processes (build_lock): the lock
\* file is held from before the second look until the task ends.
LEMMA OneCompiler ==
    ASSUME CacheInv, NEW b \in Compiling
    PROVE  /\ \A x \in Compiling : x = b
           /\ TheCompiler = b
           /\ Made = IF b \in Published THEN bd[b].art ELSE None
<1>1. \A x \in Compiling : x = b
  BY SMT DEF CacheInv, Compiling, Custom, Holds, Locked
<1>2. Published \subseteq Compiling
  BY DEF Published
<1> QED
  BY <1>1, <1>2, SMT DEF TheCompiler, Made

\* While nobody compiles nothing is made (build_lock is free).
LEMMA NoCompiler ==
    ASSUME Compiling = {}
    PROVE  TheCompiler = Nobody /\ Made = None
BY DEF TheCompiler, Made, Published

----------------------------------------------------------------------------
(* Steps of one task *)

\* The task alone moves, and to the end of its job at most.
Moves(b) ==
    /\ jobs' = jobs /\ DOMAIN bd' = Builder /\ (\A x \in Builder \ {b} : bd'[x] = bd[x])
    /\ Active(b) /\ DOMAIN bd'[b] = DOMAIN bd[b] /\ bd'[b].n = bd[b].n

\* A step outside custom builds.
Quiet(b) ==
    /\ Moves(b) /\ stray' = stray /\ xproc' = xproc /\ RecordKept /\ InCache' = InCache
    /\ bd[b].pc \notin CustomPcs /\ bd'[b].pc \notin CustomPcs
    /\ Job(b).kernel = "custom" => bd'[b].kernel = bd[b].kernel /\ bd'[b].kd = bd[b].kd
    /\ Rested(b)' /\ External(b)' /\ Elsewhere(b)'

\* Others do not notice a step of one task.
LEMMA OthersSame ==
    ASSUME CacheInv, NEW b \in Builder, Moves(b)
    PROVE  /\ \A x \in Builder \ {b} : Same(x) /\ Seen(x)
           /\ Forward(b) /\ Job(b)' = Job(b) /\ Own(b)' = Own(b) /\ RequestDigest(b)' = RequestDigest(b)
           /\ Shaped(b)'
<1>1. \A x \in Builder \ {b} : Same(x)
  BY DEF Moves, Same
<1>2. \A x \in Builder \ {b} : Seen(x)
  BY <1>1, SameSeen DEF Moves
<1>3. Shaped(b)' /\ Forward(b)
  <2>1. Shaped(b) /\ bd'[b].n = bd[b].n /\ DOMAIN bd'[b] = DOMAIN bd[b] /\ Active(b)
    BY DEF CacheInv, TaskInv, Moves
  <2> QED
    BY <2>1, SMT DEF Shaped, Forward
<1>4. Job(b)' = Job(b) /\ Own(b)' = Own(b) /\ RequestDigest(b)' = RequestDigest(b)
  BY SameJob DEF Moves
<1> QED
  BY <1>1, <1>2, <1>3, <1>4

\* Such a step keeps the invariant and is none of the cache.
LEMMA QuietStep ==
    ASSUME CacheInv, NEW b \in Builder, Quiet(b)
    PROVE  CacheInv' /\ Stutter
<1>1. Moves(b) /\ TaskInv(b)
  BY DEF Quiet, CacheInv
<1>2. /\ \A x \in Builder \ {b} : Same(x) /\ Seen(x)
      /\ Forward(b) /\ Job(b)' = Job(b) /\ RequestDigest(b)' = RequestDigest(b) /\ Shaped(b)'
  BY <1>1, OthersSame
<1>3. bd[b].pc \notin CustomPcs /\ bd'[b].pc \notin CustomPcs /\ bd'[b].pc # "c_done" /\ bd[b].pc # "c_done"
      /\ bd[b].pc \notin {"c_lease", "c_compile", "c_done"} /\ bd'[b].pc \notin {"c_lease", "c_compile", "c_done"}
      /\ bd'[b].pc \notin Locked
  BY DEF Quiet, CustomPcs, Locked
<1>4. Custom(b)' = Custom(b) /\ (Custom(b) => bd'[b].kernel = bd[b].kernel)
  BY <1>2 DEF Quiet, Custom, Moves
<1>5. Answered(b)'
  <2>1. bd[b].pc \notin {"failed", "dead"}
    BY <1>1 DEF Moves, Active, Ended
  <2>2. Custom(b) => bd[b].kernel \in CustomKernel
    BY <1>1, <1>3, <2>1 DEF TaskInv, Answered
  <2> QED
    BY <1>4, <2>2 DEF Answered
<1>6. TaskInv(b)' /\ Holds(b)' /\ Unrecorded(b)'
  <2>1. Asked(b)'
    BY <1>1, <1>2 DEF Quiet, Moves, TaskInv, Asked
  <2> QED
    BY <1>2, <1>3, <1>5, <2>1 DEF Quiet, TaskInv, InCustom, Holds, Unrecorded
<1>7. CacheInv'
  <2>1. LocksKept({b}) /\ RecordKept /\ StraysKept
    <3>1. LocksKept({b}) /\ RecordKept
      BY DEF Quiet, LocksKept
    <3>2. StraysKept
      BY DEF Quiet, StraysKept
    <3> QED
      BY <3>1, <3>2
  <2> QED
    BY <1>1, <1>2, <1>6, <2>1, Preserve DEF Moves
<1>8. Seen(b)
  <2>1. b \notin Compiling /\ (b \notin Compiling)'
    BY <1>3 DEF Compiling
  <2>2. Given'[b] = Given[b]
    BY <1>4 DEF Given
  <2> QED
    BY <2>1, <2>2 DEF Seen, Published
<1> QED
  BY <1>2, <1>7, <1>8, AllSeen DEF Stutter, Quiet

----------------------------------------------------------------------------
(* Steps of the abstract cache *)

Simulated == Stutter \/ SingleFlight!Next

\* The steps of the abstract cache, one for each thing a task does with the
\* slot of the request: it asks, hits, begins to compile, publishes, leaves, or
\* a file is lost.
LEMMA CacheSteps ==
    ASSUME NEW b \in Builder
    PROVE  /\ (InCache' = None /\ UNCHANGED <<TheCompiler, Made, Given>>) => Simulated
           /\ (Given' = [Given EXCEPT ![b] = None] /\ UNCHANGED <<InCache, TheCompiler, Made>>) => Simulated
           /\ (InCache # None /\ Given' = [Given EXCEPT ![b] = InCache] /\ UNCHANGED <<InCache, TheCompiler, Made>>)
                 => Simulated
           /\ (TheCompiler = Nobody /\ TheCompiler' = b /\ UNCHANGED <<InCache, Made, Given>>) => Simulated
           /\ (/\ TheCompiler = b /\ Made' \in CustomKernel /\ InCache' \in {Made', None}
               /\ UNCHANGED <<TheCompiler, Given>>) => Simulated
           /\ (/\ TheCompiler = b /\ TheCompiler' = Nobody /\ Made' = None
               /\ \/ Given' = [Given EXCEPT ![b] = Made] /\ InCache' = InCache
                  \/ Given' = Given /\ InCache' \in {InCache, None}) => Simulated
<1>1. (InCache' = None /\ UNCHANGED <<TheCompiler, Made, Given>>) => Simulated
  BY DEF Simulated, SingleFlight!Next, SingleFlight!Lose
<1>2. (Given' = [Given EXCEPT ![b] = None] /\ UNCHANGED <<InCache, TheCompiler, Made>>) => Simulated
  BY DEF Simulated, SingleFlight!Next, SingleFlight!Ask
<1>3. (InCache # None /\ Given' = [Given EXCEPT ![b] = InCache] /\ UNCHANGED <<InCache, TheCompiler, Made>>) => Simulated
  BY DEF Simulated, SingleFlight!Next, SingleFlight!Hit
<1>4. (TheCompiler = Nobody /\ TheCompiler' = b /\ UNCHANGED <<InCache, Made, Given>>) => Simulated
  BY DEF Simulated, SingleFlight!Next, SingleFlight!Begin
<1>5. (/\ TheCompiler = b /\ Made' \in CustomKernel /\ InCache' \in {Made', None}
       /\ UNCHANGED <<TheCompiler, Given>>) => Simulated
  BY DEF Simulated, SingleFlight!Next, SingleFlight!Publish
<1>6. (/\ TheCompiler = b /\ TheCompiler' = Nobody /\ Made' = None
       /\ \/ Given' = [Given EXCEPT ![b] = Made] /\ InCache' = InCache
          \/ Given' = Given /\ InCache' \in {InCache, None}) => Simulated
  BY DEF Simulated, SingleFlight!Next, SingleFlight!Leave
<1> QED
  BY <1>1, <1>2, <1>3, <1>4, <1>5, <1>6

\* The task that holds the lock file of the request is the only one that can
\* compile (build_lock).
LEMMA LockHolder ==
    ASSUME CacheInv, NEW b \in Builder, Custom(b), bd[b].pc \in Locked
    PROVE  Compiling \subseteq {b}
BY DEF CacheInv, Compiling, Custom, Holds, Locked

\* What the cache shows of a step of such a task.
LEMMA View ==
    ASSUME CacheInv, NEW b \in Builder, Moves(b), Compiling \subseteq {b}
    PROVE  /\ TheCompiler = IF b \in Compiling THEN b ELSE Nobody
           /\ Made = IF b \in Published THEN bd[b].art ELSE None
           /\ TheCompiler' = IF (b \in Compiling)' THEN b ELSE Nobody
           /\ Made' = IF (b \in Published)' THEN bd'[b].art ELSE None
<1>1. \A x \in Builder \ {b} : Seen(x)
  BY OthersSame
<1>2. Published \subseteq {b} /\ Compiling' \subseteq {b} /\ Published' \subseteq {b}
  BY <1>1 DEF Seen, Compiling, Published
<1>3. TheCompiler = IF b \in Compiling THEN b ELSE Nobody
  BY DEF TheCompiler
<1>4. TheCompiler' = IF (b \in Compiling)' THEN b ELSE Nobody
  BY <1>2 DEF TheCompiler
<1>5. Made = IF b \in Published THEN bd[b].art ELSE None
  BY <1>2, SMT DEF Made
<1>6. Made' = IF (b \in Published)' THEN bd'[b].art ELSE None
  BY <1>2, SMT DEF Made
<1> QED
  BY <1>3, <1>4, <1>5, <1>6

\* A step of a task changes no answer but its own.
LEMMA GivenOne ==
    ASSUME CacheInv, NEW b \in Builder, Moves(b), NEW k, Given'[b] = k
    PROVE  Given' = [Given EXCEPT ![b] = k] /\ (k = Given[b] => Given' = Given)
<1>1. \A x \in Builder \ {b} : Given'[x] = Given[x]
  BY OthersSame DEF Seen
<1>2. Given = [x \in Builder |-> Given[x]] /\ Given' = [x \in Builder |-> Given'[x]]
  BY DEF Given
<1> QED
  BY <1>1, <1>2

----------------------------------------------------------------------------
(* The end of a task *)

\* The task ends and lets its locks go.
Over(b) ==
    /\ Moves(b) /\ bd'[b].pc \in {"ok", "failed"} /\ bd'[b].ops = <<>>
    /\ bd'[b].kd = bd[b].kd /\ bd'[b].kernel = bd[b].kernel
    /\ bd'[b].pc = "ok" => bd[b].pc \notin CustomPcs
    /\ xproc' = Released(xproc, {b})
    /\ index' = index /\ InCache' \in {InCache, None} /\ StraysKept

\* However a task ends, the invariant stays, and for the cache it leaves or does
\* nothing (End, bounded_join, publish_with).
LEMMA OverStep ==
    ASSUME CacheInv, NEW b \in Builder, Over(b)
    PROVE  CacheInv' /\ Simulated
<1>1. Moves(b) /\ TaskInv(b)
  BY DEF Over, CacheInv
<1>2. /\ \A x \in Builder \ {b} : Same(x) /\ Seen(x)
      /\ Forward(b) /\ Job(b)' = Job(b) /\ RequestDigest(b)' = RequestDigest(b) /\ Shaped(b)'
  BY <1>1, OthersSame
<1>3. bd'[b].pc \notin CustomPcs \cup KernelPcs \cup SourcePcs \cup {"r_resolve", "r_cached", "c_lease", "c_compile", "c_done"}
      /\ bd'[b].pc \notin Locked
  BY DEF Over, CustomPcs, Locked, KernelPcs, SourcePcs
<1>4. Custom(b)' = Custom(b) /\ Given'[b] = Given[b]
  BY <1>2 DEF Over, Custom, Moves, Given
<1>5. Answered(b)'
  <2>1. bd[b].pc \notin {"failed", "dead"} /\ (bd'[b].pc # "failed" => bd'[b].pc = "ok")
    BY DEF Moves, Active, Ended, Over
  <2>2. bd'[b].pc = "ok" => (Custom(b) => bd[b].kernel \in CustomKernel)
    BY <1>1, <2>1 DEF TaskInv, Answered, Over
  <2> QED
    BY <1>4, <2>2 DEF Answered, Over
<1>6. TaskInv(b)' /\ Holds(b)' /\ Unrecorded(b)'
  <2>1. Shaped(b)' /\ InCustom(b)' /\ (bd'[b].pc = "c_done" => Making(b)') /\ Holds(b)' /\ Unrecorded(b)'
    BY <1>2, <1>3 DEF InCustom, Holds, Unrecorded
  <2>2. Rested(b)' /\ External(b)' /\ Elsewhere(b)'
    BY <1>3 DEF Rested, External, Elsewhere, Over, SourcePcs
  <2>3. Asked(b)'
    BY <1>1, <1>2 DEF Over, Moves, TaskInv, Asked
  <2> QED
    BY <1>5, <2>1, <2>2, <2>3 DEF TaskInv
<1>7. LocksKept({b}) /\ RecordKept /\ StraysKept
  BY DEF Over, LocksKept, Released, RecordKept
<1>8. CacheInv'
  BY <1>1, <1>2, <1>6, <1>7, Preserve DEF Moves
<1>9. Simulated
  <2>1. (b \notin Compiling)' /\ (b \notin Published)'
    BY <1>3 DEF Compiling, Published
  <2>2. Given' = Given
    BY <1>1, <1>4, GivenOne
  <2>3. CASE b \in Compiling
    <3>1. Compiling \subseteq {b}
      BY <2>3, OneCompiler
    <3>2. TheCompiler = b /\ TheCompiler' = Nobody /\ Made' = None
      BY <1>1, <2>1, <2>3, <3>1, View
    <3> QED
      BY <2>2, <3>2, CacheSteps DEF Over
  <2>4. CASE b \notin Compiling
    <3>1. Seen(b)
      BY <1>4, <2>1, <2>4 DEF Seen, Published
    <3>2. UNCHANGED <<TheCompiler, Made, Given>>
      BY <1>2, <3>1, AllSeen
    <3>3. CASE InCache' = InCache
      BY <3>2, <3>3 DEF Stutter, Simulated
    <3>4. CASE InCache' = None
      BY <3>2, <3>4, CacheSteps
    <3> QED
      BY <3>3, <3>4 DEF Over
  <2> QED
    BY <2>3, <2>4
<1> QED
  BY <1>8, <1>9

\* A task writes its own entry alone (Put).
LEMMA PutMoves ==
    ASSUME CacheInv, NEW b \in Builder, NEW r, Put(b, r), Active(b), jobs' = jobs,
           DOMAIN r = DOMAIN Idle, r.n = bd[b].n
    PROVE  Moves(b) /\ bd'[b] = r
<1>1. DOMAIN bd = Builder /\ DOMAIN bd[b] = DOMAIN Idle
  BY DEF CacheInv, TaskInv, Shaped
<1>2. DOMAIN bd' = Builder /\ bd'[b] = r /\ \A x \in Builder \ {b} : bd'[x] = bd[x]
  BY <1>1 DEF Put
<1> QED
  BY <1>1, <1>2 DEF Moves

\* A step that writes nothing in the cache.
LEMMA CacheSame ==
    ASSUME index' = index, file' = file
    PROVE  RecordKept /\ InCache' = InCache
BY DEF RecordKept, InCache, stored_file_validity

\* The end of a task that publishes nothing any more (End).
LEMMA EndStep ==
    ASSUME CacheInv, NEW b \in Builder, Active(b), NEW pc \in {"ok", "failed"}, End(b, pc), jobs' = jobs,
           index' = index, InCache' \in {InCache, None}, StraysKept,
           pc = "ok" => bd[b].pc \notin CustomPcs
    PROVE  CacheInv' /\ Simulated
<1> DEFINE r == [bd[b] EXCEPT !.pc = pc, !.ops = <<>>, !.staged = None]
<1>1. DOMAIN bd[b] = DOMAIN Idle
  BY DEF CacheInv, TaskInv, Shaped
<1>2. DOMAIN r = DOMAIN Idle /\ r.n = bd[b].n /\ r.pc = pc /\ r.ops = <<>> /\ r.kd = bd[b].kd
      /\ r.kernel = bd[b].kernel
  BY <1>1, Fields
<1>3. Put(b, r) /\ xproc' = Released(xproc, {b})
  BY DEF End, Unlock
<1> HIDE DEF r
<1>4. Moves(b) /\ bd'[b] = r
  BY <1>2, <1>3, PutMoves
<1>5. Over(b)
  BY <1>2, <1>3, <1>4 DEF Over
<1> QED
  BY <1>5, OverStep

\* An error or a refusal ends the task where it is (Refuse, Stop, OpFails).
LEMMA RefuseStep ==
    ASSUME CacheInv, NEW b \in Builder, Active(b), NEW pc \in {"ok", "failed"}, End(b, pc),
           UNCHANGED <<cache, stray, given>>, pc = "ok" => bd[b].pc \notin CustomPcs
    PROVE  CacheInv' /\ Simulated
<1>1. index' = index /\ file' = file /\ stray' = stray /\ jobs' = jobs
  BY DEF cache, given
<1>2. InCache' = InCache
  BY <1>1, CacheSame
<1>3. StraysKept
  BY DEF StraysKept
<1> QED
  BY <1>1, <1>2, <1>3, EndStep

\* The same of a step that refuses.
LEMMA Refused ==
    ASSUME CacheInv, NEW b \in Builder, Active(b), Refuse(b) \/ Stop(b)
    PROVE  CacheInv' /\ Simulated
BY RefuseStep DEF Refuse, Stop

\* What a step outside custom builds makes of the task.
Benign(b, r) ==
    /\ Active(b) /\ bd[b].pc \notin CustomPcs
    /\ DOMAIN r = DOMAIN Idle /\ r.n = bd[b].n /\ r.pc \notin CustomPcs
    /\ Job(b).kernel = "custom" => r.kernel = bd[b].kernel /\ r.kd = bd[b].kd
    /\ (r.pc \in KernelPcs \/ (r.pc \in SourcePcs /\ r.stage = "kernel")) => Job(b).kernel # "custom"
    /\ r.pc \in {"r_resolve", "r_cached"} => r.stage = "rootfs"
    /\ (r.pc \in {"load", "normalize"} \/ r.ops # <<>>) => r.slot # CustomSlot
    /\ r.pc \in Ended => r.ops = <<>>

\* Such a step is none of the cache.
LEMMA BenignStep ==
    ASSUME CacheInv, NEW b \in Builder, NEW r, Benign(b, r), Put(b, r), stray' = stray, xproc' = xproc, jobs' = jobs,
           RecordKept, InCache' = InCache
    PROVE  CacheInv' /\ Simulated
<1>1. Moves(b) /\ bd'[b] = r
  BY PutMoves DEF Benign
<1>2. Job(b)' = Job(b)
  BY <1>1, OthersSame
<1>3. Rested(b)' /\ External(b)' /\ Elsewhere(b)'
  <2> QED
    BY <1>1, <1>2 DEF Rested, External, Elsewhere, Benign
<1>4. Quiet(b)
  BY <1>1, <1>3 DEF Quiet, Benign
<1> QED
  BY <1>4, QuietStep DEF Simulated

\* ... whether it leaves the cache alone ...
LEMMA BenignSame ==
    ASSUME CacheInv, NEW b \in Builder, NEW r, Benign(b, r), Step(b, r), index' = index, file' = file
    PROVE  CacheInv' /\ Simulated
<1>1. Put(b, r) /\ stray' = stray /\ xproc' = xproc /\ jobs' = jobs
  BY DEF Step, locks, given
<1>2. RecordKept /\ InCache' = InCache
  BY CacheSame
<1> QED
  BY <1>1, <1>2, BenignStep

\* ... or looks into it.
LEMMA BenignRead ==
    ASSUME CacheInv, NEW b \in Builder, NEW r, Benign(b, r), Step(b, r), NEW s, NEW c, read_file_ref(s, c),
           UNCHANGED <<file, blueprints>>
    PROVE  CacheInv' /\ Simulated
<1>1. Put(b, r) /\ stray' = stray /\ xproc' = xproc /\ jobs' = jobs
  BY DEF Step, locks, given
<1>2. RecordKept /\ InCache' = InCache
  BY ReadKeeps
<1> QED
  BY <1>1, <1>2, BenignStep

\* A task at a step that is not of a custom build.
LEMMA AtStep ==
    ASSUME CacheInv, NEW b \in Builder, NEW pc, At(b, pc), pc \notin CustomPcs \cup Ended
    PROVE  /\ Active(b) /\ bd[b].pc = pc /\ bd[b].pc \notin CustomPcs /\ bd[b].ops = <<>>
           /\ DOMAIN bd[b] = DOMAIN Idle
           /\ pc \in KernelPcs => Job(b).kernel # "custom"
           /\ (pc \in SourcePcs /\ bd[b].stage = "kernel") => Job(b).kernel # "custom"
           /\ pc \in {"r_resolve", "r_cached"} => bd[b].stage = "rootfs"
           /\ pc \in {"load", "normalize"} => bd[b].slot # CustomSlot
<1>1. TaskInv(b)
  BY DEF CacheInv
<1>2. bd[b].pc = pc /\ bd[b].ops = <<>>
  BY DEF At
<1> QED
  BY <1>1, <1>2 DEF Active, TaskInv, Shaped, External, Elsewhere

----------------------------------------------------------------------------
(* Layers *)

\* No step of a layer or of a root filesystem touches the slot of the request
\* (Materialize).
LEMMA LayerSteps ==
    ASSUME CacheInv, NEW b \in Builder, LayerStep(b)
    PROVE  CacheInv' /\ Simulated
<1> USE DEF CustomPcs, Locked, Ended
<1>1. CASE get_or_build_blueprint(b)
  <2>1. /\ Active(b) /\ bd[b].pc = "blueprint" /\ bd[b].ops = <<>> /\ DOMAIN bd[b] = DOMAIN Idle
        /\ bd[b].stage = "kernel" => Job(b).kernel # "custom"
    BY <1>1, AtStep DEF SourcePcs, get_or_build_blueprint
  <2>2. PICK r : /\ Step(b, r) /\ index' = index /\ file' = file
                 /\ (\E t : r = [Goto(b, "layer") EXCEPT !.todo = t]) \/ r = Goto(b, "fetch")
    BY <1>1 DEF get_or_build_blueprint, cache
  <2>3. /\ DOMAIN r = DOMAIN Idle /\ r.n = bd[b].n /\ r.kernel = bd[b].kernel /\ r.kd = bd[b].kd
        /\ r.stage = bd[b].stage /\ r.pc \in {"layer", "fetch"} /\ r.ops = <<>>
    BY <2>1, <2>2, Fields DEF Goto
  <2>4. Benign(b, r)
    BY <2>1, <2>3 DEF Benign, KernelPcs, SourcePcs
  <2> QED
    BY <2>2, <2>4, BenignSame
<1>2. CASE blueprint(b)
  <2>1. /\ Active(b) /\ bd[b].pc = "fetch" /\ bd[b].ops = <<>> /\ DOMAIN bd[b] = DOMAIN Idle
        /\ bd[b].stage = "kernel" => Job(b).kernel # "custom"
    BY <1>2, AtStep DEF SourcePcs, blueprint
  <2>2. Refuse(b) \/ \E t : Step(b, [Goto(b, "layer") EXCEPT !.todo = t]) /\ index' = index /\ file' = file
    BY <1>2 DEF blueprint
  <2>3. ASSUME NEW t, Step(b, [Goto(b, "layer") EXCEPT !.todo = t]), index' = index, file' = file
        PROVE  CacheInv' /\ Simulated
    <3> DEFINE r == [Goto(b, "layer") EXCEPT !.todo = t]
    <3>1. /\ DOMAIN r = DOMAIN Idle /\ r.n = bd[b].n /\ r.kernel = bd[b].kernel /\ r.kd = bd[b].kd
          /\ r.stage = bd[b].stage /\ r.pc = "layer" /\ r.ops = <<>>
      BY <2>1, Fields DEF Goto
    <3> HIDE DEF r
    <3>2. Benign(b, r)
      BY <2>1, <3>1 DEF Benign, KernelPcs, SourcePcs
    <3> QED
      BY <2>3, <3>2, BenignSame DEF r
  <2> QED
    BY <2>1, <2>2, <2>3, Refused
<1>3. CASE materialize_layers(b)
  <2>1. /\ Active(b) /\ bd[b].pc = "layer" /\ bd[b].ops = <<>> /\ DOMAIN bd[b] = DOMAIN Idle
        /\ bd[b].stage = "kernel" => Job(b).kernel # "custom"
    BY <1>3, AtStep DEF SourcePcs, materialize_layers
  <2> DEFINE slot == LayerSlot(Head(bd[b].todo).link_digest)
  <2>2. PICK c : /\ read_file_ref(slot, c) /\ UNCHANGED <<file, blueprints>>
                 /\ Step(b, [Goto(b, IF c = None THEN "load" ELSE "normalize") EXCEPT !.art = c, !.slot = slot])
    BY <1>3 DEF materialize_layers
  <2> DEFINE r == [Goto(b, IF c = None THEN "load" ELSE "normalize") EXCEPT !.art = c, !.slot = slot]
  <2>3. slot # CustomSlot
    BY SlotsDiffer DEF LayerSlot
  <2> HIDE DEF slot
  <2>4. /\ DOMAIN r = DOMAIN Idle /\ r.n = bd[b].n /\ r.kernel = bd[b].kernel /\ r.kd = bd[b].kd
        /\ r.stage = bd[b].stage /\ r.pc \in {"load", "normalize"} /\ r.ops = <<>> /\ r.slot = slot
    BY <2>1, Fields DEF Goto
  <2> HIDE DEF r
  <2>5. Benign(b, r)
    BY <2>1, <2>3, <2>4 DEF Benign, KernelPcs, SourcePcs
  <2> QED
    BY <2>2, <2>5, BenignRead DEF r
<1>4. CASE load(b)
  <2>1. /\ Active(b) /\ bd[b].pc = "load" /\ bd[b].ops = <<>> /\ DOMAIN bd[b] = DOMAIN Idle
        /\ bd[b].stage = "kernel" => Job(b).kernel # "custom"
        /\ bd[b].slot # CustomSlot
    BY <1>4, AtStep DEF SourcePcs, load
  <2>2. Refuse(b) \/ \E t : /\ Step(b, Stage(Goto(b, "normalize"), bd[b].slot, t, <<"place", "publish">>))
                            /\ index' = index /\ file' = file
    BY <1>4 DEF load, cache
  <2>3. ASSUME NEW t, Step(b, Stage(Goto(b, "normalize"), bd[b].slot, t, <<"place", "publish">>)),
               index' = index, file' = file
        PROVE  CacheInv' /\ Simulated
    <3> DEFINE r == Stage(Goto(b, "normalize"), bd[b].slot, t, <<"place", "publish">>)
    <3>1. /\ DOMAIN r = DOMAIN Idle /\ r.n = bd[b].n /\ r.kernel = bd[b].kernel /\ r.kd = bd[b].kd
          /\ r.stage = bd[b].stage /\ r.pc = "normalize" /\ r.slot = bd[b].slot
      BY <2>1, Fields DEF Goto, Stage
    <3> HIDE DEF r
    <3>2. Benign(b, r)
      BY <2>1, <3>1 DEF Benign, KernelPcs, SourcePcs
    <3> QED
      BY <2>3, <3>2, BenignSame DEF r
  <2> QED
    BY <2>1, <2>2, <2>3, Refused
<1>5. CASE decompress(b)
  <2>1. /\ Active(b) /\ bd[b].pc = "normalize" /\ bd[b].ops = <<>> /\ DOMAIN bd[b] = DOMAIN Idle
        /\ bd[b].stage = "kernel" => Job(b).kernel # "custom"
        /\ bd[b].slot # CustomSlot
    BY <1>5, AtStep DEF SourcePcs, decompress
  <2> DEFINE r == Stage(bd[b], bd[b].slot, Tail(bd[b].art), <<"replace", "place">>)
  <2>2. Refuse(b) \/ (Step(b, r) /\ index' = index /\ file' = file)
    BY <1>5 DEF decompress, cache
  <2>3. /\ DOMAIN r = DOMAIN Idle /\ r.n = bd[b].n /\ r.kernel = bd[b].kernel /\ r.kd = bd[b].kd
        /\ r.stage = bd[b].stage /\ r.pc = "normalize" /\ r.slot = bd[b].slot
    BY <2>1, Fields DEF Stage
  <2> HIDE DEF r
  <2>4. Benign(b, r)
    BY <2>1, <2>3 DEF Benign, KernelPcs, SourcePcs
  <2> QED
    BY <2>1, <2>2, <2>4, Refused, BenignSame
<1>6. CASE into_cpio(b)
  <2>1. /\ Active(b) /\ bd[b].pc = "normalize" /\ bd[b].ops = <<>> /\ DOMAIN bd[b] = DOMAIN Idle
        /\ bd[b].stage = "kernel" => Job(b).kernel # "custom"
        /\ bd[b].slot # CustomSlot
    BY <1>6, AtStep DEF SourcePcs, into_cpio
  <2> DEFINE r == Stage(bd[b], bd[b].slot, <<"cpio">> \o Tail(bd[b].art), <<"place", "replace">>)
  <2>2. Refuse(b) \/ (Step(b, r) /\ index' = index /\ file' = file)
    BY <1>6 DEF into_cpio, cache
  <2>3. /\ DOMAIN r = DOMAIN Idle /\ r.n = bd[b].n /\ r.kernel = bd[b].kernel /\ r.kd = bd[b].kd
        /\ r.stage = bd[b].stage /\ r.pc = "normalize" /\ r.slot = bd[b].slot
    BY <2>1, Fields DEF Stage
  <2> HIDE DEF r
  <2>4. Benign(b, r)
    BY <2>1, <2>3 DEF Benign, KernelPcs, SourcePcs
  <2> QED
    BY <2>1, <2>2, <2>4, Refused, BenignSame
<1>7. CASE push_layer(b)
  <2>1. /\ Active(b) /\ bd[b].pc = "normalize" /\ bd[b].ops = <<>> /\ DOMAIN bd[b] = DOMAIN Idle
        /\ bd[b].stage = "kernel" => Job(b).kernel # "custom"
    BY <1>7, AtStep DEF SourcePcs, push_layer
  <2> DEFINE r == [Goto(b, "layer") EXCEPT !.layers = Append(@, bd[b].art), !.todo = Tail(@)]
  <2>2. Refuse(b) \/ (Step(b, r) /\ index' = index /\ file' = file)
    BY <1>7 DEF push_layer, cache
  <2>3. /\ DOMAIN r = DOMAIN Idle /\ r.n = bd[b].n /\ r.kernel = bd[b].kernel /\ r.kd = bd[b].kd
        /\ r.stage = bd[b].stage /\ r.pc = "layer" /\ r.ops = <<>>
    BY <2>1, Fields DEF Goto
  <2> HIDE DEF r
  <2>4. Benign(b, r)
    BY <2>1, <2>3 DEF Benign, KernelPcs, SourcePcs
  <2> QED
    BY <2>1, <2>2, <2>4, Refused, BenignSame
<1>8. CASE flatten_layers(b)
  <2>1. /\ Active(b) /\ bd[b].pc = "layer" /\ bd[b].ops = <<>> /\ DOMAIN bd[b] = DOMAIN Idle
        /\ bd[b].stage = "kernel" => Job(b).kernel # "custom"
    BY <1>8, AtStep DEF SourcePcs, flatten_layers
  <2> DEFINE flat == <<"flat">> \o [i \in DOMAIN bd[b].layers |-> bd[b].layers[i][2]]
             pc == IF bd[b].stage = "kernel" THEN "k_modules" ELSE "r_done"
             r == [Stage(Goto(b, pc), RootfsSlot(b), flat, <<"place", "publish">>) EXCEPT
                     !.rootfs = flat, !.layers = <<>>]
  <2>2. Refuse(b) \/ (Step(b, r) /\ index' = index /\ file' = file)
    BY <1>8 DEF flatten_layers, cache
  <2>3. RootfsSlot(b) # CustomSlot
    BY SlotsDiffer DEF RootfsSlot
  <2> HIDE DEF flat
  <2>4. /\ DOMAIN r = DOMAIN Idle /\ r.n = bd[b].n /\ r.kernel = bd[b].kernel /\ r.kd = bd[b].kd
        /\ r.stage = bd[b].stage /\ r.pc = pc /\ r.slot = RootfsSlot(b)
    BY <2>1, Fields DEF Goto, Stage
  <2> HIDE DEF r
  <2>5. Benign(b, r)
    BY <2>1, <2>3, <2>4 DEF Benign, KernelPcs, SourcePcs
  <2> QED
    BY <2>1, <2>2, <2>5, Refused, BenignSame
<1> QED
  BY <1>1, <1>2, <1>3, <1>4, <1>5, <1>6, <1>7, <1>8 DEF LayerStep

----------------------------------------------------------------------------
(* External kernels *)

\* The end of the kernel stage (KernelDone).
LEMMA DoneFields ==
    ASSUME NEW b, DOMAIN bd[b] = DOMAIN Idle, NEW k, NEW m, NEW r, r = KernelDone(b, k, m)
    PROVE  /\ DOMAIN r = DOMAIN Idle /\ r.n = bd[b].n /\ r.kd = bd[b].kd /\ r.ops = bd[b].ops
           /\ r.kernel = k /\ r.pc \in {"done", "r_resolve"} /\ (r.pc = "r_resolve" => r.stage = "rootfs")
<1>1. CASE Job(b).rootfs = ""
  BY Fields DEF KernelDone, Goto
<1>2. CASE Job(b).rootfs # ""
  BY Fields DEF KernelDone, Goto
<1> QED
  BY <1>1, <1>2

\* No step of another kernel touches the slot of the request: the domains of the
\* digests are not the same (service.rs, build_external).
LEMMA KernelSteps ==
    ASSUME CacheInv, NEW b \in Builder, KernelStep(b)
    PROVE  CacheInv' /\ Simulated
<1> USE DEF CustomPcs, Locked, Ended
<1>1. CASE build_external(b)
  <2>1. /\ Active(b) /\ bd[b].pc = "k_resolve" /\ bd[b].ops = <<>> /\ DOMAIN bd[b] = DOMAIN Idle
        /\ Job(b).kernel # "custom"
    BY <1>1, AtStep DEF KernelPcs, build_external
  <2> DEFINE pc == IF is_image(Job(b).kernel) THEN "k_cached" ELSE "k_raw"
             made(d) == [Goto(b, pc) EXCEPT !.kd = d]
  <2>2. Refuse(b) \/ \E d : Step(b, made(d)) /\ index' = index /\ file' = file
    BY <1>1 DEF build_external, cache
  <2>3. ASSUME NEW d  PROVE Benign(b, made(d))
    <3> DEFINE r == made(d)
    <3>1. DOMAIN r = DOMAIN Idle /\ r.n = bd[b].n /\ r.pc = pc /\ r.ops = <<>>
      BY <2>1, Fields DEF Goto
    <3> HIDE DEF r
    <3>2. Benign(b, r)
      BY <2>1, <3>1 DEF Benign, KernelPcs, SourcePcs
    <3> QED
      BY <3>2 DEF r
  <2> HIDE DEF made
  <2> QED
    BY <2>1, <2>2, <2>3, Refused, BenignSame
<1>2. CASE cached_kernel(b)
  <2>1. /\ Active(b) /\ bd[b].pc = "k_cached" /\ bd[b].ops = <<>> /\ DOMAIN bd[b] = DOMAIN Idle
        /\ Job(b).kernel # "custom"
    BY <1>2, AtStep DEF KernelPcs, cached_kernel
  <2>2. PICK c, k : /\ read_file_ref(KernelSlot(b), c) /\ UNCHANGED <<file, blueprints>>
                    /\ Step(b, [Goto(b, "k_rootfs") EXCEPT !.kernel = k])
    BY <1>2 DEF cached_kernel
  <2> DEFINE r == [Goto(b, "k_rootfs") EXCEPT !.kernel = k]
  <2>3. DOMAIN r = DOMAIN Idle /\ r.n = bd[b].n /\ r.pc = "k_rootfs" /\ r.ops = <<>>
    BY <2>1, Fields DEF Goto
  <2> HIDE DEF r
  <2>4. Benign(b, r)
    BY <2>1, <2>3 DEF Benign, KernelPcs, SourcePcs
  <2> QED
    BY <2>2, <2>4, BenignRead DEF r
<1>3. CASE cached_rootfs(b)
  <2>1. /\ Active(b) /\ bd[b].pc = "k_rootfs" /\ bd[b].ops = <<>> /\ DOMAIN bd[b] = DOMAIN Idle
        /\ Job(b).kernel # "custom"
    BY <1>3, AtStep DEF KernelPcs, cached_rootfs
  <2> DEFINE pc(f) == IF bd[b].kernel # None THEN "k_hit" ELSE IF f # None THEN "k_modules" ELSE "blueprint"
             made(f) == [Goto(b, pc(f)) EXCEPT !.rootfs = f]
  <2>2. PICK c : /\ read_file_ref(RootfsSlot(b), c) /\ UNCHANGED <<file, blueprints>>
                 /\ Step(b, made(Keep(c, is_cpio)))
    BY <1>3 DEF cached_rootfs
  <2> DEFINE f == Keep(c, is_cpio)
             r == made(f)
  <2> HIDE DEF f
  <2>3. DOMAIN r = DOMAIN Idle /\ r.n = bd[b].n /\ r.pc = pc(f) /\ r.ops = <<>>
    BY <2>1, Fields DEF Goto
  <2> HIDE DEF r
  <2>5. Benign(b, r)
    BY <2>1, <2>3 DEF Benign, KernelPcs, SourcePcs
  <2> QED
    BY <2>2, <2>5, BenignRead DEF r, f
<1>4. CASE kernel_hit(b)
  <2>1. /\ Active(b) /\ bd[b].pc = "k_hit" /\ bd[b].ops = <<>> /\ DOMAIN bd[b] = DOMAIN Idle
        /\ Job(b).kernel # "custom"
    BY <1>4, AtStep DEF KernelPcs, kernel_hit
  <2>2. PICK c, r : /\ read_file_ref(ModulesSlot(b), c) /\ UNCHANGED <<file, blueprints>> /\ Step(b, r)
                    /\ (\E k, m : r = KernelDone(b, k, m)) \/ r = Goto(b, "k_extract_modules")
    BY <1>4 DEF kernel_hit
  <2>3. DOMAIN r = DOMAIN Idle /\ r.n = bd[b].n /\ r.pc \in {"done", "r_resolve", "k_extract_modules"} /\ r.ops = <<>>
        /\ (r.pc = "r_resolve" => r.stage = "rootfs")
    <3>1. CASE r = Goto(b, "k_extract_modules")
      BY <2>1, <3>1, Fields DEF Goto
    <3>2. ASSUME NEW k, NEW m, r = KernelDone(b, k, m)
          PROVE  /\ DOMAIN r = DOMAIN Idle /\ r.n = bd[b].n /\ r.pc \in {"done", "r_resolve"} /\ r.ops = <<>>
                 /\ (r.pc = "r_resolve" => r.stage = "rootfs")
      BY <2>1, <3>2, DoneFields, SMT
    <3> QED
      BY <2>2, <3>1, <3>2
  <2>4. Benign(b, r)
    BY <2>1, <2>3 DEF Benign, KernelPcs, SourcePcs
  <2> QED
    BY <2>2, <2>4, BenignRead
<1>5. CASE raw_kernel(b)
  <2>1. /\ Active(b) /\ bd[b].pc = "k_raw" /\ bd[b].ops = <<>> /\ DOMAIN bd[b] = DOMAIN Idle
        /\ Job(b).kernel # "custom"
    BY <1>5, AtStep DEF KernelPcs, raw_kernel
  <2> DEFINE pc(c) == IF c = None THEN "load" ELSE "normalize"
             made(c) == [Goto(b, pc(c)) EXCEPT !.art = c, !.slot = KernelSlot(b)]
  <2>2. PICK c : read_file_ref(KernelSlot(b), c) /\ UNCHANGED <<file, blueprints>> /\ Step(b, made(c))
    BY <1>5 DEF raw_kernel
  <2> DEFINE r == made(c)
  <2>3. KernelSlot(b) # CustomSlot
    BY <2>1, SlotsDiffer
  <2>4. DOMAIN r = DOMAIN Idle /\ r.n = bd[b].n /\ r.pc = pc(c) /\ r.ops = <<>> /\ r.slot = KernelSlot(b)
    BY <2>1, Fields DEF Goto
  <2> HIDE DEF r
  <2>5. Benign(b, r)
    BY <2>1, <2>3, <2>4 DEF Benign, KernelPcs, SourcePcs
  <2> QED
    BY <2>2, <2>5, BenignRead DEF r
<1>6. CASE raw_kernel_normal(b)
  <2>1. /\ Active(b) /\ bd[b].pc = "normalize" /\ bd[b].ops = <<>> /\ DOMAIN bd[b] = DOMAIN Idle
        /\ Job(b).kernel # "custom"
    BY <1>6, AtStep DEF SourcePcs, raw_kernel_normal
  <2> DEFINE r == [Goto(b, "k_modules") EXCEPT !.rootfs = bd[b].art]
  <2>2. \/ Refuse(b)
        \/ \E c, m : /\ read_file_ref(ModulesSlot(b), c) /\ UNCHANGED <<file, blueprints>>
                     /\ Step(b, KernelDone(b, bd[b].art, m))
        \/ Step(b, r) /\ index' = index /\ file' = file
    BY <1>6 DEF raw_kernel_normal, cache
  <2>3. ASSUME NEW m  PROVE Benign(b, KernelDone(b, bd[b].art, m))
    <3> DEFINE d == KernelDone(b, bd[b].art, m)
    <3>1. /\ DOMAIN d = DOMAIN Idle /\ d.n = bd[b].n /\ d.pc \in {"done", "r_resolve"} /\ d.ops = <<>>
          /\ (d.pc = "r_resolve" => d.stage = "rootfs")
      <4> HIDE DEF d
      <4>1. d = KernelDone(b, bd[b].art, m)
        BY DEF d
      <4> QED
        BY <2>1, <4>1, DoneFields, SMT
    <3> HIDE DEF d
    <3>2. Benign(b, d)
      BY <2>1, <3>1 DEF Benign, KernelPcs, SourcePcs
    <3> QED
      BY <3>2 DEF d
  <2>4. DOMAIN r = DOMAIN Idle /\ r.n = bd[b].n /\ r.pc = "k_modules" /\ r.ops = <<>>
    BY <2>1, Fields DEF Goto
  <2> HIDE DEF r
  <2>5. Benign(b, r)
    BY <2>1, <2>4 DEF Benign, KernelPcs, SourcePcs
  <2> QED
    BY <2>1, <2>2, <2>3, <2>5, Refused, BenignRead, BenignSame
<1>7. CASE cached_modules(b)
  <2>1. /\ Active(b) /\ bd[b].pc = "k_modules" /\ bd[b].ops = <<>> /\ DOMAIN bd[b] = DOMAIN Idle
        /\ Job(b).kernel # "custom"
    BY <1>7, AtStep DEF KernelPcs, cached_modules
  <2>2. PICK c, r : /\ read_file_ref(ModulesSlot(b), c) /\ UNCHANGED <<file, blueprints>> /\ Step(b, r)
                    /\ r = [Goto(b, "k_kernel") EXCEPT !.modules = c] \/ r = Goto(b, "k_extract_modules")
    BY <1>7 DEF cached_modules
  <2>3. DOMAIN r = DOMAIN Idle /\ r.n = bd[b].n /\ r.pc \in {"k_kernel", "k_extract_modules"} /\ r.ops = <<>>
    BY <2>1, <2>2, Fields DEF Goto
  <2>4. Benign(b, r)
    BY <2>1, <2>3 DEF Benign, KernelPcs, SourcePcs
  <2> QED
    BY <2>2, <2>4, BenignRead
<1>8. CASE extract_modules_if_needed(b)
  <2>1. /\ Active(b) /\ bd[b].pc = "k_extract_modules" /\ bd[b].ops = <<>> /\ DOMAIN bd[b] = DOMAIN Idle
        /\ Job(b).kernel # "custom"
    BY <1>8, AtStep DEF KernelPcs, extract_modules_if_needed
  <2> DEFINE after == IF bd[b].kernel # None THEN "k_done" ELSE "k_kernel"
             modules == <<"mods">> \o bd[b].rootfs
             staged == [Stage(Goto(b, after), ModulesSlot(b), modules, <<"place", "publish">>) EXCEPT !.modules = modules]
  <2>2. Refuse(b) \/ \E r : Step(b, r) /\ index' = index /\ file' = file /\ (r = staged \/ r = Goto(b, after))
    BY <1>8 DEF extract_modules_if_needed, cache
  <2>3. ModulesSlot(b) # CustomSlot
    BY SlotsDiffer DEF ModulesSlot
  <2>4. ASSUME NEW r, r = staged \/ r = Goto(b, after)  PROVE Benign(b, r)
    <3> HIDE DEF modules
    <3>1. DOMAIN r = DOMAIN Idle /\ r.n = bd[b].n /\ r.pc = after /\ (r.ops = <<>> \/ r.slot = ModulesSlot(b))
      BY <2>1, <2>4, Fields DEF Goto, Stage
    <3> QED
      BY <2>1, <2>3, <3>1 DEF Benign, KernelPcs, SourcePcs
  <2> HIDE DEF staged
  <2> QED
    BY <2>1, <2>2, <2>4, Refused, BenignSame
<1>9. CASE extract_kernel_result(b)
  <2>1. /\ Active(b) /\ bd[b].pc = "k_kernel" /\ bd[b].ops = <<>> /\ DOMAIN bd[b] = DOMAIN Idle
        /\ Job(b).kernel # "custom"
    BY <1>9, AtStep DEF KernelPcs, extract_kernel_result
  <2>2. PICK c, r : /\ read_file_ref(KernelSlot(b), c) /\ UNCHANGED <<file, blueprints>> /\ Step(b, r)
                    /\ r = [Goto(b, "k_done") EXCEPT !.kernel = c] \/ r = Goto(b, "k_extract")
    BY <1>9 DEF extract_kernel_result
  <2>3. DOMAIN r = DOMAIN Idle /\ r.n = bd[b].n /\ r.pc \in {"k_done", "k_extract"} /\ r.ops = <<>>
    BY <2>1, <2>2, Fields DEF Goto
  <2>4. Benign(b, r)
    BY <2>1, <2>3 DEF Benign, KernelPcs, SourcePcs
  <2> QED
    BY <2>2, <2>4, BenignRead
<1>10. CASE extract_kernel(b)
  <2>1. /\ Active(b) /\ bd[b].pc = "k_extract" /\ bd[b].ops = <<>> /\ DOMAIN bd[b] = DOMAIN Idle
        /\ Job(b).kernel # "custom"
    BY <1>10, AtStep DEF KernelPcs, extract_kernel
  <2> DEFINE kernel == <<"bz">> \o Tail(bd[b].rootfs) \o <<"at">> \o path(b)
             r == [Stage(Goto(b, "k_done"), KernelSlot(b), kernel, <<"place", "transform">>) EXCEPT !.kernel = kernel]
  <2>2. Refuse(b) \/ (Step(b, r) /\ index' = index /\ file' = file)
    BY <1>10 DEF extract_kernel, cache
  <2>3. KernelSlot(b) # CustomSlot
    BY <2>1, SlotsDiffer
  <2> HIDE DEF kernel
  <2>4. DOMAIN r = DOMAIN Idle /\ r.n = bd[b].n /\ r.pc = "k_done" /\ r.slot = KernelSlot(b)
    BY <2>1, Fields DEF Goto, Stage
  <2> HIDE DEF r
  <2>5. Benign(b, r)
    BY <2>1, <2>3, <2>4 DEF Benign, KernelPcs, SourcePcs
  <2> QED
    BY <2>1, <2>2, <2>5, Refused, BenignSame
<1>11. CASE kernel_done(b)
  <2>1. /\ Active(b) /\ bd[b].pc = "k_done" /\ bd[b].ops = <<>> /\ DOMAIN bd[b] = DOMAIN Idle
        /\ Job(b).kernel # "custom"
    BY <1>11, AtStep DEF KernelPcs, kernel_done
  <2>2. PICK r : Step(b, r) /\ index' = index /\ file' = file /\ r = KernelDone(b, bd[b].kernel, bd[b].modules)
    BY <1>11 DEF kernel_done, cache
  <2>3. /\ DOMAIN r = DOMAIN Idle /\ r.n = bd[b].n /\ r.pc \in {"done", "r_resolve"} /\ r.ops = <<>>
        /\ (r.pc = "r_resolve" => r.stage = "rootfs")
    BY <2>1, <2>2, DoneFields, SMT
  <2>4. Benign(b, r)
    BY <2>1, <2>3 DEF Benign, KernelPcs, SourcePcs
  <2> QED
    BY <2>2, <2>4, BenignSame
<1> QED
  BY <1>1, <1>2, <1>3, <1>4, <1>5, <1>6, <1>7, <1>8, <1>9, <1>10, <1>11 DEF KernelStep

----------------------------------------------------------------------------
(* Root filesystems and boot artifacts *)

\* No step for a root filesystem touches the slot of the request (crate rootfs).
LEMMA RootfsSteps ==
    ASSUME CacheInv, NEW b \in Builder, RootfsStep(b)
    PROVE  CacheInv' /\ Simulated
<1> USE DEF CustomPcs, Locked, Ended
<1>a. RootfsSlot(b) # CustomSlot /\ MergedSlot(b) # CustomSlot
  BY SlotsDiffer DEF RootfsSlot, MergedSlot
<1>1. CASE build_rootfs(b)
  <2>1. /\ Active(b) /\ bd[b].pc = "r_resolve" /\ bd[b].ops = <<>> /\ DOMAIN bd[b] = DOMAIN Idle
        /\ bd[b].stage = "rootfs"
    BY <1>1, AtStep DEF build_rootfs
  <2> DEFINE made(d) == [Goto(b, "r_cached") EXCEPT !.rd = d]
  <2>2. Refuse(b) \/ \E d : Step(b, made(d)) /\ index' = index /\ file' = file
    BY <1>1 DEF build_rootfs, cache
  <2>3. ASSUME NEW d  PROVE Benign(b, made(d))
    <3> DEFINE r == made(d)
    <3>1. /\ DOMAIN r = DOMAIN Idle /\ r.n = bd[b].n /\ r.kernel = bd[b].kernel /\ r.kd = bd[b].kd
          /\ r.pc = "r_cached" /\ r.ops = <<>> /\ r.stage = bd[b].stage
      BY <2>1, Fields DEF Goto
    <3> HIDE DEF r
    <3>2. Benign(b, r)
      BY <2>1, <3>1 DEF Benign, KernelPcs, SourcePcs
    <3> QED
      BY <3>2 DEF r
  <2> HIDE DEF made
  <2> QED
    BY <2>1, <2>2, <2>3, Refused, BenignSame
<1>2. CASE build_rootfs_inner(b)
  <2>1. /\ Active(b) /\ bd[b].pc = "r_cached" /\ bd[b].ops = <<>> /\ DOMAIN bd[b] = DOMAIN Idle
        /\ bd[b].stage = "rootfs"
    BY <1>2, AtStep DEF build_rootfs_inner
  <2> DEFINE pc(c) == IF is_cpio(c) THEN "r_validate" ELSE IF is_image(Job(b).rootfs) THEN "blueprint" ELSE "load"
             made(c) == [Goto(b, pc(c)) EXCEPT !.art = c, !.slot = RootfsSlot(b)]
  <2>2. PICK c : read_file_ref(RootfsSlot(b), c) /\ UNCHANGED <<file, blueprints>> /\ Step(b, made(c))
    BY <1>2 DEF build_rootfs_inner
  <2> DEFINE r == made(c)
  <2>3. /\ DOMAIN r = DOMAIN Idle /\ r.n = bd[b].n /\ r.kernel = bd[b].kernel /\ r.kd = bd[b].kd
        /\ r.pc = pc(c) /\ r.ops = <<>> /\ r.slot = RootfsSlot(b) /\ r.stage = bd[b].stage
    BY <2>1, Fields DEF Goto
  <2> HIDE DEF r
  <2>4. Benign(b, r)
    BY <1>a, <2>1, <2>3 DEF Benign, KernelPcs, SourcePcs
  <2> QED
    BY <2>2, <2>4, BenignRead DEF r
<1>3. CASE raw_rootfs_normal(b)
  <2>1. /\ Active(b) /\ bd[b].pc = "normalize" /\ bd[b].ops = <<>> /\ DOMAIN bd[b] = DOMAIN Idle
    BY <1>3, AtStep DEF raw_rootfs_normal
  <2> DEFINE r == Goto(b, "r_validate_new")
  <2>2. Refuse(b) \/ (Step(b, r) /\ index' = index /\ file' = file)
    BY <1>3 DEF raw_rootfs_normal, cache
  <2>3. /\ DOMAIN r = DOMAIN Idle /\ r.n = bd[b].n /\ r.kernel = bd[b].kernel /\ r.kd = bd[b].kd
        /\ r.pc = "r_validate_new" /\ r.ops = <<>>
    BY <2>1, Fields DEF Goto
  <2> HIDE DEF r
  <2>4. Benign(b, r)
    BY <2>1, <2>3 DEF Benign, KernelPcs, SourcePcs
  <2> QED
    BY <2>1, <2>2, <2>4, Refused, BenignSame
<1>4. CASE validate_cpio(b)
  <2>1. /\ Active(b) /\ bd[b].pc \in {"r_validate", "r_validate_new"} /\ DOMAIN bd[b] = DOMAIN Idle
    BY <1>4, AtStep DEF validate_cpio
  <2> DEFINE ops == IF bd[b].pc = "r_validate" THEN <<>> ELSE <<"publish">>
             r == Stage([Goto(b, "r_done") EXCEPT !.rootfs = bd[b].art], RootfsSlot(b), bd[b].art, ops)
  <2>2. Refuse(b) \/ (Step(b, r) /\ index' = index /\ file' = file)
    BY <1>4 DEF validate_cpio, cache
  <2>3. /\ DOMAIN r = DOMAIN Idle /\ r.n = bd[b].n /\ r.kernel = bd[b].kernel /\ r.kd = bd[b].kd
        /\ r.pc = "r_done" /\ r.slot = RootfsSlot(b)
    BY <2>1, Fields DEF Goto, Stage
  <2> HIDE DEF r
  <2>4. Benign(b, r)
    BY <1>a, <2>1, <2>3 DEF Benign, KernelPcs, SourcePcs
  <2> QED
    BY <2>1, <2>2, <2>4, Refused, BenignSame
<1>5. CASE rootfs_done(b)
  <2>1. /\ Active(b) /\ bd[b].pc = "r_done" /\ bd[b].ops = <<>> /\ DOMAIN bd[b] = DOMAIN Idle
    BY <1>5, AtStep DEF rootfs_done
  <2> DEFINE pc == IF bd[b].modules # None THEN "r_merge" ELSE IF Job(b).boot THEN "b_base" ELSE "done"
             r == [Goto(b, pc) EXCEPT !.base = bd[b].rootfs, !.slot = RootfsSlot(b)]
  <2>2. Step(b, r) /\ index' = index /\ file' = file
    BY <1>5 DEF rootfs_done, cache
  <2>3. /\ DOMAIN r = DOMAIN Idle /\ r.n = bd[b].n /\ r.kernel = bd[b].kernel /\ r.kd = bd[b].kd
        /\ r.pc = pc /\ r.ops = <<>>
    BY <2>1, Fields DEF Goto
  <2> HIDE DEF r
  <2>4. Benign(b, r)
    BY <2>1, <2>3 DEF Benign, KernelPcs, SourcePcs
  <2> QED
    BY <2>2, <2>4, BenignSame
<1>6. CASE merge_modules(b)
  <2>1. /\ Active(b) /\ bd[b].pc \in {"r_merge", "r_flatten"} /\ bd[b].ops = <<>> /\ DOMAIN bd[b] = DOMAIN Idle
    BY <1>6, AtStep DEF merge_modules
  <2> DEFINE after == IF Job(b).boot THEN "b_base" ELSE "done"
             merged == <<"merged">> \o bd[b].rootfs \o bd[b].modules
             hit(c) == [Goto(b, after) EXCEPT !.base = c, !.slot = MergedSlot(b)]
             miss == Goto(b, "r_flatten")
             new == [Stage(Goto(b, after), MergedSlot(b), merged, <<"place", "publish">>) EXCEPT !.base = merged]
  <2>2. \/ Refuse(b)
        \/ \E c : /\ read_file_ref(MergedSlot(b), c) /\ UNCHANGED <<file, blueprints>>
                  /\ Step(b, hit(c)) \/ Step(b, miss)
        \/ Step(b, new) /\ index' = index /\ file' = file
    BY <1>6 DEF merge_modules, cache
  <2>3. ASSUME NEW r, (\E c : r = hit(c)) \/ r = miss \/ r = new  PROVE Benign(b, r)
    <3> HIDE DEF merged
    <3>1. /\ DOMAIN r = DOMAIN Idle /\ r.n = bd[b].n /\ r.kernel = bd[b].kernel /\ r.kd = bd[b].kd
          /\ r.pc \in {after, "r_flatten"} /\ (r.ops = <<>> \/ r.slot = MergedSlot(b))
      <4>1. ASSUME NEW c, r = hit(c)
            PROVE  /\ DOMAIN r = DOMAIN Idle /\ r.n = bd[b].n /\ r.kernel = bd[b].kernel /\ r.kd = bd[b].kd
                   /\ r.pc = after /\ r.ops = <<>>
        BY <2>1, <4>1, Fields DEF Goto
      <4>2. CASE r = miss
        BY <2>1, <4>2, Fields DEF Goto
      <4>3. CASE r = new
        BY <2>1, <4>3, Fields DEF Goto, Stage
      <4> HIDE DEF hit, miss, new, after
      <4> QED
        BY <2>3, <4>1, <4>2, <4>3
    <3> QED
      BY <1>a, <2>1, <3>1 DEF Benign, KernelPcs, SourcePcs
  <2> HIDE DEF hit, miss, new
  <2> QED
    BY <2>1, <2>2, <2>3, Refused, BenignSame, BenignRead
<1> QED
  BY <1>1, <1>2, <1>3, <1>4, <1>5, <1>6 DEF RootfsStep

\* A step of the derived boot cache leaves the image cache alone (boot-image).
LEMMA BenignPrepare ==
    ASSUME CacheInv, NEW b \in Builder, NEW r, Benign(b, r), Prepare(b, r)
    PROVE  CacheInv' /\ Simulated
<1>1. Put(b, r) /\ stray' = stray /\ xproc' = xproc /\ jobs' = jobs
  BY DEF Prepare, locks, given
<1>2. RecordKept /\ InCache' = InCache
  BY CacheSame DEF Prepare, cache
<1> QED
  BY <1>1, <1>2, BenignStep

\* No step for the boot artifacts touches the slot of the request.
BootPcs == {"b_base", "b_lookup", "b_write", "b_json", "b_run", "b_copy", "b_gzip", "b_publish"}
LEMMA BootSteps ==
    ASSUME CacheInv, NEW b \in Builder, BootStep(b)
    PROVE  CacheInv' /\ Simulated
<1> USE DEF BootPcs
<1>1. \E pc \in BootPcs : At(b, pc)
  BY DEF BootStep, prepare_inner, artifact_matches, atomic_write, run_cache_id, atomic_copy, atomic_gzip,
               publish_run_metadata
<1>2. /\ Active(b) /\ bd[b].pc \in BootPcs /\ bd[b].ops = <<>> /\ DOMAIN bd[b] = DOMAIN Idle
      /\ bd[b].pc \notin CustomPcs
  <2>1. PICK pc \in BootPcs : At(b, pc)
    BY <1>1
  <2>2. pc \notin CustomPcs \cup Ended
    BY DEF CustomPcs, Locked, Ended
  <2> QED
    BY <2>1, <2>2, AtStep
<1> DEFINE Moved(r) == \/ \E pc \in BootPcs \cup {"done"} : r = Goto(b, pc)
                       \/ \E pc \in BootPcs \cup {"done"} : \E x : r = [Goto(b, pc) EXCEPT !.out = x]
                       \/ \E x : r = [Goto(b, "b_lookup") EXCEPT !.base = x, !.stage = "boot"]
           Taken == Stop(b) \/ \E r : Prepare(b, r) /\ Moved(r)
<1>3. Taken
  <2>1. CASE prepare_inner(b)
    BY <2>1 DEF prepare_inner
  <2>2. CASE artifact_matches(b)
    BY <2>2 DEF artifact_matches
  <2>3. CASE atomic_write(b)
    BY <2>3 DEF atomic_write
  <2>4. CASE run_cache_id(b)
    BY <2>4 DEF run_cache_id
  <2>5. CASE atomic_copy(b)
    BY <2>5 DEF atomic_copy
  <2>6. CASE atomic_gzip(b)
    BY <2>6 DEF atomic_gzip
  <2>7. CASE publish_run_metadata(b)
    BY <2>7 DEF publish_run_metadata
  <2> HIDE DEF Taken
  <2> QED
    BY <2>1, <2>2, <2>3, <2>4, <2>5, <2>6, <2>7 DEF BootStep
<1>4. ASSUME NEW r, Moved(r)  PROVE Benign(b, r)
  <2>1. /\ DOMAIN r = DOMAIN Idle /\ r.n = bd[b].n /\ r.kernel = bd[b].kernel /\ r.kd = bd[b].kd
        /\ r.pc \in BootPcs \cup {"done"} /\ r.ops = <<>>
    <3>1. ASSUME NEW pc \in BootPcs \cup {"done"}, r = Goto(b, pc)
          PROVE  /\ DOMAIN r = DOMAIN Idle /\ r.n = bd[b].n /\ r.kernel = bd[b].kernel /\ r.kd = bd[b].kd
                 /\ r.pc = pc /\ r.ops = <<>>
      BY <1>2, <3>1, Fields DEF Goto
    <3>2. ASSUME NEW pc \in BootPcs \cup {"done"}, NEW x, r = [Goto(b, pc) EXCEPT !.out = x]
          PROVE  /\ DOMAIN r = DOMAIN Idle /\ r.n = bd[b].n /\ r.kernel = bd[b].kernel /\ r.kd = bd[b].kd
                 /\ r.pc = pc /\ r.ops = <<>>
      BY <1>2, <3>2, Fields DEF Goto
    <3>3. ASSUME NEW x, r = [Goto(b, "b_lookup") EXCEPT !.base = x, !.stage = "boot"]
          PROVE  /\ DOMAIN r = DOMAIN Idle /\ r.n = bd[b].n /\ r.kernel = bd[b].kernel /\ r.kd = bd[b].kd
                 /\ r.pc = "b_lookup" /\ r.ops = <<>>
      BY <1>2, <3>3, Fields DEF Goto
    <3> QED
      BY <1>4, <3>1, <3>2, <3>3
  <2> QED
    BY <1>2, <2>1 DEF Benign, KernelPcs, SourcePcs, CustomPcs, Locked
<1> HIDE DEF Moved
<1> QED
  BY <1>2, <1>3, <1>4, Refused, BenignPrepare

\* The kernel builder's output is a copy; the job ends when it is in place, or
\* when there is none to make (copy, replace_output_atomically).
LEMMA OutputSteps ==
    ASSUME CacheInv, NEW b \in Builder, copy(b) \/ replace_output_atomically(b) \/ Finish(b)
    PROVE  CacheInv' /\ Simulated
<1>1. bd[b].pc \in {"done", "o_replace"} /\ bd[b].ops = <<>>
  BY DEF copy, replace_output_atomically, Finish, At
<1>2. Active(b) /\ bd[b].pc \notin CustomPcs
  BY <1>1 DEF Active, Ended, CustomPcs, Locked
<1>3. CASE copy(b)
  <2>1. DOMAIN bd[b] = DOMAIN Idle
    BY DEF CacheInv, TaskInv, Shaped
  <2> DEFINE r == [Goto(b, "o_replace") EXCEPT !.art = file[KernelSlot(b)]]
  <2>2. Refuse(b) \/ (Step(b, r) /\ index' = index /\ file' = file)
    BY <1>3 DEF copy, cache
  <2>3. /\ DOMAIN r = DOMAIN Idle /\ r.n = bd[b].n /\ r.kernel = bd[b].kernel /\ r.kd = bd[b].kd
        /\ r.pc = "o_replace" /\ r.ops = <<>>
    BY <1>1, <2>1, Fields DEF Goto
  <2> HIDE DEF r
  <2>4. Benign(b, r)
    BY <1>2, <2>3 DEF Benign, KernelPcs, SourcePcs, CustomPcs, Locked
  <2> QED
    BY <1>2, <2>2, <2>4, Refused, BenignSame
<1>4. CASE replace_output_atomically(b) \/ Finish(b)
  BY <1>2, <1>4, RefuseStep DEF replace_output_atomically, Finish
<1> QED
  BY <1>3, <1>4

----------------------------------------------------------------------------
(* Publications *)

\* A publication of any other artifact is in another slot
\* (publish_with, upsert, update, publish_transformed).
LEMMA OtherPublication ==
    ASSUME CacheInv, NEW b \in Builder, Publication(b), bd[b].pc # "c_done"
    PROVE  CacheInv' /\ Simulated
<1>1. TaskInv(b) /\ bd[b].ops # <<>>
  BY DEF CacheInv, Publication, publish_with, upsert, update, publish_transformed, check_type, NextOp
<1>2. /\ Active(b) /\ bd[b].pc \notin CustomPcs /\ bd[b].slot # CustomSlot /\ DOMAIN bd[b] = DOMAIN Idle
  BY <1>1 DEF TaskInv, Shaped, Rested, Active, InCustom, Elsewhere
<1> DEFINE Kept(r) == /\ DOMAIN r = DOMAIN Idle /\ r.n = bd[b].n /\ r.kernel = bd[b].kernel /\ r.kd = bd[b].kd
                      /\ r.stage = bd[b].stage /\ r.slot = bd[b].slot /\ r.pc = bd[b].pc
<1>3. ASSUME NEW r, Kept(r)  PROVE Benign(b, r)
  BY <1>1, <1>2, <1>3 DEF Benign, TaskInv, External, Active
<1>4. Kept([Rest(b) EXCEPT !.art = bd[b].staged]) /\ Kept(Rest(b))
  BY <1>2, Fields DEF Rest
<1>5. ASSUME NEW ops  PROVE Kept([bd[b] EXCEPT !.ops = ops])
  BY <1>2, Fields
<1> HIDE DEF Kept
<1>6. stray' = stray /\ jobs' = jobs /\ StraysKept
  <2>1. stray' = stray /\ jobs' = jobs
    BY DEF Publication, publish_with, upsert, update, publish_transformed, check_type, given
  <2> QED
    BY <2>1 DEF StraysKept
<1>7. ASSUME NEW r, Kept(r), Put(b, r), xproc' = xproc, RecordKept, InCache' = InCache
      PROVE  CacheInv' /\ Simulated
  BY <1>3, <1>6, <1>7, BenignStep
<1>8. ASSUME Touches(index, index', bd[b].slot), Touches(file, file', bd[b].slot)
      PROVE  RecordKept /\ InCache' = InCache
  BY <1>2, <1>8, WriteElsewhere
<1>9. CASE publish_with(b)
  <2>1. index' = index /\ Touches(index, index', bd[b].slot) /\ Touches(file, file', bd[b].slot)
    BY <1>9 DEF publish_with, attempt_publish, Touches
  <2>2. (xproc' = xproc /\ Put(b, [Rest(b) EXCEPT !.art = bd[b].staged])) \/ End(b, "failed")
    BY <1>9 DEF publish_with, locks
  <2> QED
    BY <1>2, <1>4, <1>6, <1>7, <1>8, <2>1, <2>2, EndStep
<1>10. CASE upsert(b)
  <2>1. Touches(index, index', bd[b].slot) /\ Touches(file, file', bd[b].slot)
    BY <1>10 DEF upsert, publish_file_ref, Touches
  <2>2. xproc' = xproc /\ Put(b, [Rest(b) EXCEPT !.art = bd[b].staged])
    BY <1>10 DEF upsert, locks
  <2> QED
    BY <1>4, <1>7, <1>8, <2>1, <2>2
<1>11. CASE update(b)
  <2>1. Touches(index, index', bd[b].slot) /\ Touches(file, file', bd[b].slot)
    BY <1>11 DEF update, replace_file_ref, Touches
  <2>2. (xproc' = xproc /\ Put(b, [Rest(b) EXCEPT !.art = bd[b].staged])) \/ (End(b, "failed") /\ index' = index)
    BY <1>11 DEF update, locks
  <2> QED
    BY <1>2, <1>4, <1>6, <1>7, <1>8, <2>1, <2>2, EndStep
<1>12. CASE publish_transformed(b)
  <2>1. PICK c, ops : /\ read_file_ref(bd[b].slot, c) /\ file' = file /\ xproc' = xproc
                      /\ Put(b, [bd[b] EXCEPT !.ops = ops])
    BY <1>12 DEF publish_transformed, locks
  <2>2. RecordKept /\ InCache' = InCache
    BY <2>1, ReadKeeps
  <2> QED
    BY <1>5, <1>7, <2>1, <2>2
<1>13. CASE check_type(b)
  <2>1. index' = index /\ Touches(index, index', bd[b].slot) /\ Touches(file, file', bd[b].slot)
    BY <1>13 DEF check_type, cache, Touches
  <2>2. (xproc' = xproc /\ Put(b, Rest(b))) \/ End(b, "failed")
    BY <1>13 DEF check_type, locks
  <2> QED
    BY <1>2, <1>4, <1>6, <1>7, <1>8, <2>1, <2>2, EndStep
<1> QED
  BY <1>9, <1>10, <1>11, <1>12, <1>13 DEF Publication

----------------------------------------------------------------------------
(* Custom builds *)

\* What is known of a task in a custom build, and of its slot.
LEMMA BuildTask ==
    ASSUME CacheInv, NEW b \in Builder, bd[b].pc \in CustomPcs
    PROVE  /\ Active(b) /\ DOMAIN bd[b] = DOMAIN Idle /\ bd[b].n \in Nat /\ bd[b].n > 0
           /\ Job(b).kernel = "custom" /\ bd[b].kd = RequestDigest(b)
           /\ Custom(b) => Own(b) \in CustomKernel /\ KernelSlot(b) = CustomSlot
           /\ ~Custom(b) => KernelSlot(b) # CustomSlot
<1>1. TaskInv(b)
  BY DEF CacheInv
<1>2. DOMAIN bd[b] = DOMAIN Idle /\ bd[b].n \in Nat /\ bd[b].n > 0 /\ Job(b).kernel = "custom"
      /\ bd[b].kd = RequestDigest(b)
  BY <1>1 DEF TaskInv, Shaped, InCustom, Asked
<1>3. Active(b)
  BY DEF Active, Ended, CustomPcs, Locked
<1>4. Custom(b) => Own(b) \in CustomKernel /\ KernelSlot(b) = CustomSlot
  BY <1>2, OwnIsCustom
<1>5. ~Custom(b) => KernelSlot(b) # CustomSlot
  BY <1>2, SlotsDiffer DEF Custom
<1> QED
  BY <1>2, <1>3, <1>4, <1>5

\* Steps on the way through the build.
Builds(b, r) ==
    /\ bd[b].pc \in CustomPcs /\ DOMAIN r = DOMAIN Idle /\ r.n = bd[b].n /\ r.kd = bd[b].kd /\ r.kernel = bd[b].kernel
    /\ r.pc \in CustomPcs /\ (r.pc # "c_done" => r.ops = <<>>)

\* They keep what the task is for, and its answer (custom_cached to custom_done).
LEMMA BuildMoves ==
    ASSUME CacheInv, NEW b \in Builder, NEW r, Builds(b, r), Put(b, r), jobs' = jobs
    PROVE  /\ Moves(b) /\ bd'[b] = r /\ Custom(b)' = Custom(b) /\ Given' = Given
           /\ Job(b)' = Job(b) /\ Own(b)' = Own(b) /\ KernelSlot(b)' = KernelSlot(b)
           /\ (bd'[b].pc = "c_done" => Making(b)') => TaskInv(b)'
<1>1. Active(b) /\ bd[b].n > 0 /\ Job(b).kernel = "custom" /\ bd[b].kd = RequestDigest(b)
  BY BuildTask DEF Builds
<1>2. Moves(b) /\ bd'[b] = r
  BY <1>1, PutMoves DEF Builds
<1>3. Job(b)' = Job(b) /\ Own(b)' = Own(b) /\ RequestDigest(b)' = RequestDigest(b) /\ Shaped(b)'
  BY <1>2, OthersSame
<1>4. Custom(b)' = Custom(b) /\ KernelSlot(b)' = KernelSlot(b)
  BY <1>2, <1>3 DEF Custom, KernelSlot, Builds, path
<1>5. Given'[b] = Given[b]
  BY <1>2, <1>4 DEF Given, Builds
<1>6. Given' = Given
  BY <1>2, <1>5, GivenOne
<1>7. InCustom(b)' /\ Asked(b)'
  BY <1>1, <1>2, <1>3 DEF InCustom, Asked, Builds
<1>8. r.pc \notin KernelPcs \cup SourcePcs \cup {"r_resolve", "r_cached", "load", "normalize"} \cup Ended
  BY DEF Builds, CustomPcs, Locked, KernelPcs, SourcePcs, Ended
<1>9. Rested(b)' /\ External(b)' /\ Elsewhere(b)' /\ Answered(b)'
  BY <1>2, <1>8 DEF Builds, Rested, External, Elsewhere, Answered
<1> QED
  BY <1>2, <1>3, <1>4, <1>6, <1>7, <1>9 DEF TaskInv

\* They keep the invariant when they write no record for the request.
LEMMA BuildKeeps ==
    ASSUME CacheInv, NEW b \in Builder, NEW r, Builds(b, r), Put(b, r), jobs' = jobs,
           bd'[b].pc = "c_done" => Making(b)', ~At(b, "c_done"), Holds(b)', LocksKept({b}), RecordKept, stray' = stray
    PROVE  CacheInv'
<1>1. Moves(b) /\ bd'[b] = r /\ TaskInv(b)'
  BY BuildMoves
<1>2. /\ \A x \in Builder \ {b} : Same(x)
      /\ Forward(b)
  BY <1>1, OthersSame
<1>3. Unrecorded(b)'
  <2>1. Unrecorded(b) /\ bd[b].pc \in CustomPcs /\ bd'[b].n = bd[b].n
    BY <1>1 DEF CacheInv, Builds
  <2> QED
    BY <2>1 DEF Unrecorded, RecordKept
<1>4. StraysKept
  BY DEF StraysKept
<1> QED
  BY <1>1, <1>2, <1>3, <1>4, Preserve DEF Moves

\* For the cache, a task that compiles before and after a step does nothing ...
LEMMA BuildSeen ==
    ASSUME CacheInv, NEW b \in Builder, NEW r, Builds(b, r), Put(b, r), jobs' = jobs,
           bd[b].pc \in {"c_lease", "c_compile", "c_done"} <=> r.pc \in {"c_lease", "c_compile", "c_done"},
           ~At(b, "c_done"), ~At(b, "c_done")'
    PROVE  UNCHANGED <<TheCompiler, Made, Given>>
<1>1. Moves(b) /\ bd'[b] = r /\ Custom(b)' = Custom(b) /\ Given' = Given
  BY BuildMoves
<1>2. \A x \in Builder \ {b} : Seen(x)
  BY <1>1, OthersSame
<1>3. Seen(b)
  BY <1>1 DEF Seen, Compiling, Published
<1> QED
  BY <1>2, <1>3, AllSeen

\* ... and neither does one that compiles neither before nor after.
LEMMA OthersCompile ==
    ASSUME NEW b \in Builder, \A x \in Builder \ {b} : Seen(x), b \notin Compiling, (b \notin Compiling)'
    PROVE  UNCHANGED <<TheCompiler, Made>>
<1>2. Compiling' = Compiling /\ Published' = Published
  BY DEF Seen, Compiling, Published
<1>3. TheCompiler' = TheCompiler
  BY <1>2, SMT DEF TheCompiler
<1>4. Published # {} => (CHOOSE x \in Published : TRUE) \in Published /\ Published \subseteq Builder \ {b}
  BY DEF Published, Compiling
<1>5. Made' = Made
  BY <1>2, <1>4 DEF Made, Seen
<1> QED
  BY <1>3, <1>5

\* So it is with a step of a task that is not the one that compiles
\* (custom_cached, custom_recheck, upsert).
LEMMA CompilerSame ==
    ASSUME CacheInv, NEW b \in Builder, Moves(b), b \notin Compiling, (b \notin Compiling)'
    PROVE  UNCHANGED <<TheCompiler, Made>>
BY OthersSame, OthersCompile

\* A build ends with a kernel of its request: the task's locks may go, and no
\* other notices (KernelDone after custom_cached, custom_recheck and custom_done).
LEMMA BuildEnds ==
    ASSUME CacheInv, NEW b \in Builder, bd[b].pc \in CustomPcs, bd[b].ops = <<>>, NEW k, Put(b, KernelDone(b, k, None)),
           Custom(b) => k \in CustomKernel, jobs' = jobs, LocksKept({b}), RecordKept, stray' = stray
    PROVE  /\ CacheInv' /\ Moves(b) /\ (b \notin Compiling)'
           /\ Given' = [Given EXCEPT ![b] = IF Custom(b) THEN k ELSE None]
           /\ ~Custom(b) => Given' = Given
<1> DEFINE r == KernelDone(b, k, None)
<1>1. Active(b) /\ DOMAIN bd[b] = DOMAIN Idle
  BY BuildTask
<1>2. /\ DOMAIN r = DOMAIN Idle /\ r.n = bd[b].n /\ r.kd = bd[b].kd /\ r.ops = <<>>
      /\ r.kernel = k /\ r.pc \in {"done", "r_resolve"} /\ (r.pc = "r_resolve" => r.stage = "rootfs")
  <2> HIDE DEF r
  <2>1. r = KernelDone(b, k, None)
    BY DEF r
  <2> QED
    BY <1>1, <2>1, DoneFields, SMT
<1>3. Put(b, r)
  OBVIOUS
<1> HIDE DEF r
<1>4. Moves(b) /\ bd'[b] = r
  BY <1>1, <1>2, <1>3, PutMoves
<1>5. /\ \A x \in Builder \ {b} : Same(x)
      /\ Forward(b) /\ Job(b)' = Job(b) /\ RequestDigest(b)' = RequestDigest(b) /\ Shaped(b)'
  BY <1>4, OthersSame
<1>6. Custom(b)' = Custom(b) /\ Asked(b)'
  <2>1. Asked(b)
    BY DEF CacheInv, TaskInv
  <2> QED
    BY <1>2, <1>4, <1>5, <2>1 DEF Custom, Asked
<1>7. bd'[b].pc \notin CustomPcs /\ bd'[b].pc \notin KernelPcs \cup SourcePcs \cup {"load", "normalize", "r_cached", "c_done"}
      /\ bd'[b].pc \notin Locked /\ bd'[b].pc \notin {"c_lease", "c_compile", "c_done"}
  BY <1>2, <1>4 DEF CustomPcs, Locked, KernelPcs, SourcePcs
<1>8. Rested(b)' /\ InCustom(b)' /\ External(b)' /\ Elsewhere(b)' /\ Holds(b)' /\ Unrecorded(b)'
  BY <1>2, <1>4, <1>7 DEF Rested, InCustom, External, Elsewhere, Holds, Unrecorded
<1>9. Answered(b)'
  <2> QED
    BY <1>2, <1>4, <1>6 DEF Answered
<1>10. TaskInv(b)'
  BY <1>5, <1>6, <1>7, <1>8, <1>9 DEF TaskInv
<1>11. CacheInv'
  <2>1. StraysKept
    BY DEF StraysKept
  <2> QED
    BY <1>4, <1>5, <1>8, <1>10, <2>1, Preserve DEF Moves
<1>12. (b \notin Compiling)'
  BY <1>7 DEF Compiling
<1>13. Given'[b] = IF Custom(b) THEN k ELSE None
  BY <1>2, <1>4, <1>6 DEF Given
<1>14. ~Custom(b) => Given[b] = None
  BY DEF Given
<1> QED
  BY <1>4, <1>11, <1>12, <1>13, <1>14, GivenOne

\* A hit is the kernel in the cache, and that was compiled for the request
\* (get_by_link_ref).
LEMMA HitIsCached ==
    ASSUME CacheInv, NEW c, read_file_ref(CustomSlot, c), is_bz(c)
    PROVE  c = InCache /\ c \in CustomKernel /\ c # None
<1>1. c # None
  BY DEF is_bz
<1>2. CustomSlot \in DOMAIN index /\ stored_file_validity(CustomSlot) /\ c = index[CustomSlot]
  BY <1>1 DEF read_file_ref
<1> QED
  BY <1>1, <1>2 DEF InCache, CacheInv, Recorded

\* The looks into the cache before and after the lock: a hit ends the build, a
\* miss behind the lock begins to compile (custom_cached, custom_recheck).
LEMMA LookSteps ==
    ASSUME CacheInv, NEW b \in Builder, custom_cached(b) \/ custom_recheck(b)
    PROVE  CacheInv' /\ Simulated
<1> DEFINE next == IF bd[b].pc = "c_cached" THEN "c_proc" ELSE "c_lease"
<1>1. /\ bd[b].pc \in {"c_cached", "c_recheck"} /\ bd[b].ops = <<>>
      /\ stray' = stray /\ jobs' = jobs /\ file' = file
  BY DEF custom_cached, custom_recheck, At, Step, given
<1>2. PICK c : /\ read_file_ref(KernelSlot(b), c)
               /\ \/ is_bz(c) /\ Put(b, KernelDone(b, c, None)) /\ (xproc' = xproc \/ xproc' = Released(xproc, {b}))
                  \/ Put(b, Goto(b, next)) /\ xproc' = xproc
  <2>1. CASE custom_cached(b)
    <3>1. bd[b].pc = "c_cached"
      BY <2>1 DEF custom_cached, At
    <3> QED
      BY <2>1, <3>1 DEF custom_cached, Step, locks
  <2>2. CASE custom_recheck(b)
    <3>1. bd[b].pc = "c_recheck" /\ next = "c_lease"
      BY <2>2 DEF custom_recheck, At
    <3> QED
      BY <2>2, <3>1 DEF custom_recheck, Unlock, locks
  <2> QED
    BY <2>1, <2>2
<1>3. bd[b].pc \in CustomPcs /\ ~At(b, "c_done") /\ b \notin Compiling
      /\ bd[b].pc \notin {"c_lease", "c_compile", "c_done"}
  BY <1>1 DEF CustomPcs, Locked, At, Compiling
<1>4. /\ Active(b) /\ DOMAIN bd[b] = DOMAIN Idle /\ (Custom(b) => KernelSlot(b) = CustomSlot)
  BY <1>3, BuildTask
<1>5. RecordKept /\ InCache' = InCache
  BY <1>1, <1>2, ReadKeeps
<1>6. CASE is_bz(c) /\ Put(b, KernelDone(b, c, None)) /\ (xproc' = xproc \/ xproc' = Released(xproc, {b}))
  <2>1. Custom(b) => c = InCache /\ c \in CustomKernel /\ c # None
    BY <1>2, <1>4, <1>6, HitIsCached
  <2>2. LocksKept({b})
    BY <1>6 DEF LocksKept, Released
  <2>3. /\ CacheInv' /\ Moves(b) /\ (b \notin Compiling)'
        /\ Given' = [Given EXCEPT ![b] = IF Custom(b) THEN c ELSE None]
        /\ ~Custom(b) => Given' = Given
    BY <1>1, <1>3, <1>5, <1>6, <2>1, <2>2, BuildEnds
  <2>4. UNCHANGED <<TheCompiler, Made>>
    BY <1>3, <2>3, CompilerSame
  <2>5. CASE Custom(b)
    <3>1. InCache # None /\ Given' = [Given EXCEPT ![b] = InCache]
      BY <2>1, <2>3, <2>5
    <3> QED
      BY <1>5, <2>3, <2>4, <3>1, CacheSteps
  <2>6. CASE ~Custom(b)
    BY <1>5, <2>3, <2>4, <2>6 DEF Simulated, Stutter
  <2> QED
    BY <2>5, <2>6
<1>7. CASE Put(b, Goto(b, next)) /\ xproc' = xproc
  <2> DEFINE r == Goto(b, next)
  <2>1. /\ DOMAIN r = DOMAIN Idle /\ r.n = bd[b].n /\ r.kernel = bd[b].kernel /\ r.kd = bd[b].kd
        /\ r.pc = next /\ r.ops = <<>>
    BY <1>1, <1>4, Fields DEF Goto
  <2> HIDE DEF r
  <2>2. Put(b, r)
    BY <1>7 DEF r
  <2>3. Builds(b, r) /\ r.pc # "c_done"
    BY <1>3, <2>1 DEF Builds, CustomPcs, Locked
  <2>4. Moves(b) /\ bd'[b] = r /\ Custom(b)' = Custom(b) /\ Given' = Given
    BY <1>1, <2>2, <2>3, BuildMoves
  <2>5. Holds(b)'
    <3>1. Holds(b)
      BY DEF CacheInv
    <3>2. bd'[b].pc \in Locked => bd[b].pc \in Locked
      BY <1>1, <2>1, <2>4 DEF Locked
    <3> QED
      BY <1>7, <2>1, <2>4, <3>1, <3>2 DEF Holds
  <2>6. CacheInv'
    <3>1. LocksKept({b})
      BY <1>7 DEF LocksKept
    <3> QED
      BY <1>1, <1>3, <1>5, <2>2, <2>3, <2>4, <2>5, <3>1, BuildKeeps
  <2>7. CASE (b \in Compiling)'
    <3>1. Custom(b) /\ bd[b].pc = "c_recheck"
      <4>1. Custom(b) /\ next # "c_proc"
        BY <2>1, <2>4, <2>7 DEF Compiling
      <4> QED
        BY <1>1, <4>1
    <3>2. Compiling \subseteq {b}
      <4>1. bd[b].pc \in Locked
        BY <3>1 DEF Locked
      <4> QED
        BY <3>1, <4>1, LockHolder
    <3>3. b \notin Published /\ (b \notin Published)'
      BY <1>3, <2>3, <2>4 DEF Published, At
    <3>4. TheCompiler = Nobody /\ TheCompiler' = b /\ Made' = Made
      BY <1>3, <2>4, <2>7, <3>2, <3>3, View
    <3> QED
      BY <1>5, <2>4, <2>6, <3>4, CacheSteps
  <2>8. CASE (b \notin Compiling)'
    <3>1. UNCHANGED <<TheCompiler, Made>>
      BY <1>3, <2>4, <2>8, CompilerSame
    <3> QED
      BY <1>5, <2>4, <2>6, <3>1 DEF Simulated, Stutter
  <2> QED
    BY <2>7, <2>8
<1> QED
  BY <1>2, <1>6, <1>7

\* The way to a staged kernel: the locks are taken, the disk is leased, the VM
\* compiles (acquire_in_process, acquire_cross_process, BuildDiskLease,
\* compile_inner).
Advances(b, r) ==
    \/ bd[b].pc = "c_proc" /\ r = Goto(b, "c_file") /\ xproc' = xproc
    \/ /\ bd[b].pc = "c_file" /\ r = Goto(b, "c_recheck")
       /\ bd[b].kd \notin DOMAIN xproc /\ xproc' = With(xproc, bd[b].kd, b)
    \/ bd[b].pc = "c_lease" /\ r = Goto(b, "c_compile") /\ xproc' = xproc
    \/ /\ bd[b].pc = "c_compile" /\ xproc' = xproc
       /\ \E made \in {Own(b), <<"text">>} :
              r = Stage(Goto(b, "c_done"), KernelSlot(b), made, <<"place", "check", "publish">>)

\* It is none of the cache, and who is behind the lock holds it.
LEMMA AdvanceStep ==
    ASSUME CacheInv, NEW b \in Builder, bd[b].ops = <<>>, NEW r, Advances(b, r), Put(b, r),
           index' = index, file' = file, stray' = stray, jobs' = jobs
    PROVE  CacheInv' /\ Simulated
<1>1. /\ bd[b].pc \in CustomPcs /\ bd[b].pc \in {"c_proc", "c_file", "c_lease", "c_compile"}
  BY DEF CustomPcs, Locked, Advances
<1>2. DOMAIN bd[b] = DOMAIN Idle
  BY <1>1, BuildTask
<1>3. /\ DOMAIN r = DOMAIN Idle /\ r.n = bd[b].n /\ r.kernel = bd[b].kernel /\ r.kd = bd[b].kd
      /\ bd[b].pc = "c_proc" => r.pc = "c_file" /\ r.ops = <<>> /\ xproc' = xproc
      /\ bd[b].pc = "c_file" => r.pc = "c_recheck" /\ r.ops = <<>> /\ xproc' = With(xproc, bd[b].kd, b)
      /\ bd[b].pc = "c_lease" => r.pc = "c_compile" /\ r.ops = <<>> /\ xproc' = xproc
      /\ bd[b].pc = "c_compile" => /\ r.pc = "c_done" /\ r.slot = KernelSlot(b) /\ r.staged \in {Own(b), <<"text">>}
                                   /\ r.ops = <<"place", "check", "publish">> /\ xproc' = xproc
  <2>1. ASSUME NEW pc, r = Goto(b, pc)
        PROVE  /\ DOMAIN r = DOMAIN Idle /\ r.n = bd[b].n /\ r.kernel = bd[b].kernel /\ r.kd = bd[b].kd
               /\ r.pc = pc /\ r.ops = <<>>
    BY <1>2, <2>1, Fields DEF Goto
  <2>2. ASSUME NEW made, r = Stage(Goto(b, "c_done"), KernelSlot(b), made, <<"place", "check", "publish">>)
        PROVE  /\ DOMAIN r = DOMAIN Idle /\ r.n = bd[b].n /\ r.kernel = bd[b].kernel /\ r.kd = bd[b].kd
               /\ r.pc = "c_done" /\ r.slot = KernelSlot(b) /\ r.staged = made
               /\ r.ops = <<"place", "check", "publish">>
    BY <1>2, <2>2, Fields DEF Goto, Stage
  <2>3. CASE bd[b].pc = "c_proc"
    BY <2>1, <2>3 DEF Advances
  <2>4. CASE bd[b].pc = "c_file"
    BY <2>1, <2>4 DEF Advances
  <2>5. CASE bd[b].pc = "c_lease"
    BY <2>1, <2>5 DEF Advances
  <2>6. CASE bd[b].pc = "c_compile"
    <3>1. PICK made \in {Own(b), <<"text">>} :
              r = Stage(Goto(b, "c_done"), KernelSlot(b), made, <<"place", "check", "publish">>)
      BY <2>6 DEF Advances
    <3>2. xproc' = xproc
      BY <2>6 DEF Advances
    <3> QED
      BY <2>2, <2>6, <3>1, <3>2
  <2> QED
    BY <1>1, <2>3, <2>4, <2>5, <2>6
<1>4. Builds(b, r)
  BY <1>1, <1>3 DEF Builds, CustomPcs, Locked
<1>5. /\ Moves(b) /\ bd'[b] = r /\ Own(b)' = Own(b) /\ KernelSlot(b)' = KernelSlot(b)
  BY <1>4, BuildMoves
<1>6. bd'[b].pc = "c_done" => Making(b)'
  <2>1. SUFFICES ASSUME bd'[b].pc = "c_done"  PROVE Making(b)'
    OBVIOUS
  <2>2. bd[b].pc = "c_compile"
    BY <1>1, <1>3, <1>5, <2>1
  <2> QED
    BY <1>3, <1>5, <2>2 DEF Making
<1>7. ~At(b, "c_done") /\ ~At(b, "c_done")'
  <2>1. <<"place", "check", "publish">> # <<>>
    OBVIOUS
  <2>2. bd[b].pc # "c_done" /\ (bd'[b].pc # "c_done" \/ bd'[b].ops = <<"place", "check", "publish">>)
    BY <1>1, <1>3, <1>5
  <2> QED
    BY <2>1, <2>2 DEF At
<1>8. RecordKept /\ InCache' = InCache
  BY CacheSame
<1>9. LocksKept({b}) /\ Holds(b)'
  <2>1. Holds(b)
    BY DEF CacheInv
  <2>2. CASE bd[b].pc = "c_file"
    <3>1. bd[b].kd \notin DOMAIN xproc /\ xproc' = With(xproc, bd[b].kd, b)
      BY <2>2 DEF Advances
    <3> QED
      BY <1>3, <1>5, <2>2, <3>1 DEF With, LocksKept, Holds
  <2>3. CASE bd[b].pc # "c_file"
    <3>1. xproc' = xproc /\ (bd'[b].pc \in Locked => bd[b].pc \in Locked)
      BY <1>1, <1>3, <1>5, <2>3 DEF Locked
    <3> QED
      BY <1>3, <1>5, <2>1, <3>1 DEF LocksKept, Holds
  <2> QED
    BY <2>2, <2>3
<1>10. CacheInv'
  BY <1>4, <1>6, <1>7, <1>8, <1>9, BuildKeeps
<1>11. bd[b].pc \in {"c_lease", "c_compile", "c_done"} <=> r.pc \in {"c_lease", "c_compile", "c_done"}
  BY <1>1, <1>3
<1>12. UNCHANGED <<TheCompiler, Made, Given>>
  BY <1>4, <1>7, <1>11, BuildSeen
<1> QED
  BY <1>8, <1>10, <1>12 DEF Simulated, Stutter

\* The steps of a custom build, from the first look to the answer.
LEMMA CustomSteps ==
    ASSUME CacheInv, NEW b \in Builder, CustomStep(b)
    PROVE  CacheInv' /\ Simulated
<1>1. CASE custom_cached(b) \/ custom_recheck(b)
  BY <1>1, LookSteps
<1>2. CASE acquire_in_process(b) \/ acquire_cross_process(b) \/ BuildDiskLease(b)
  <2>1. PICK r : Advances(b, r) /\ Put(b, r)
    BY <1>2 DEF acquire_in_process, acquire_cross_process, BuildDiskLease, Advances, At, locks
  <2>2. bd[b].ops = <<>> /\ index' = index /\ file' = file /\ stray' = stray /\ jobs' = jobs
    BY <1>2 DEF acquire_in_process, acquire_cross_process, BuildDiskLease, At, cache, given
  <2> QED
    BY <2>1, <2>2, AdvanceStep
<1>3. CASE compile_inner(b)
  <2>1. /\ bd[b].pc = "c_compile" /\ bd[b].ops = <<>> /\ UNCHANGED <<cache, stray, given>>
        /\ index' = index /\ file' = file /\ stray' = stray /\ jobs' = jobs
    BY <1>3 DEF compile_inner, At, cache, given
  <2>2. \/ \E r : Advances(b, r) /\ Put(b, r)
        \/ End(b, "failed")
        \/ Put(b, Goto(b, "failed")) /\ Unlock(b)
    BY <1>3 DEF compile_inner, Advances, At, locks, Own
  <2>3. Active(b) /\ DOMAIN bd[b] = DOMAIN Idle
    <3>1. bd[b].pc \in CustomPcs
      BY <2>1 DEF CustomPcs, Locked
    <3> QED
      BY <3>1, BuildTask
  <2>4. CASE Put(b, Goto(b, "failed")) /\ Unlock(b)
    <3> DEFINE r == Goto(b, "failed")
    <3>1. /\ DOMAIN r = DOMAIN Idle /\ r.n = bd[b].n /\ r.kernel = bd[b].kernel /\ r.kd = bd[b].kd
          /\ r.pc = "failed" /\ r.ops = <<>>
      BY <2>1, <2>3, Fields DEF Goto
    <3> HIDE DEF r
    <3>2. Moves(b) /\ bd'[b] = r
      BY <2>1, <2>3, <2>4, <3>1, PutMoves DEF r
    <3>3. InCache' = InCache /\ StraysKept
      BY <2>1, CacheSame DEF StraysKept
    <3>4. Over(b)
      BY <2>1, <2>4, <3>1, <3>2, <3>3 DEF Over, Unlock
    <3> QED
      BY <3>4, OverStep
  <2> QED
    BY <2>1, <2>2, <2>3, <2>4, AdvanceStep, RefuseStep
<1>4. CASE custom_done(b)
  <2>1. /\ bd[b].pc = "c_done" /\ bd[b].ops = <<>> /\ index' = index /\ file' = file /\ stray' = stray /\ jobs' = jobs
        /\ Put(b, KernelDone(b, bd[b].art, None)) /\ xproc' = Released(xproc, {b})
    BY <1>4 DEF custom_done, At, cache, given, Unlock
  <2>2. bd[b].pc \in CustomPcs /\ bd[b].pc \in {"c_lease", "c_compile", "c_done"}
    BY <2>1 DEF CustomPcs, Locked
  <2>3. Custom(b) => Own(b) \in CustomKernel
    BY <2>2, BuildTask
  <2>4. bd[b].art = Own(b)
    <3>1. Making(b)
      BY <2>1 DEF CacheInv, TaskInv
    <3>2. <<>> # <<"place", "check", "publish">> /\ <<>> # <<"check", "publish">> /\ <<>> # <<"publish">>
      OBVIOUS
    <3> QED
      BY <2>1, <3>1, <3>2 DEF Making
  <2>5. RecordKept /\ InCache' = InCache /\ LocksKept({b})
    BY <2>1, CacheSame DEF LocksKept, Released
  <2>6. /\ CacheInv' /\ Moves(b) /\ (b \notin Compiling)'
        /\ Given' = [Given EXCEPT ![b] = IF Custom(b) THEN bd[b].art ELSE None]
        /\ ~Custom(b) => Given' = Given
    BY <2>1, <2>2, <2>3, <2>4, <2>5, BuildEnds
  <2>7. CASE Custom(b)
    <3>1. b \in Compiling /\ b \in Published
      BY <2>1, <2>7 DEF Compiling, Published, At
    <3>2. (b \notin Published)'
      BY <2>6 DEF Published
    <3>3. Compiling \subseteq {b}
      BY <3>1, OneCompiler
    <3>4. TheCompiler = b /\ Made = bd[b].art /\ TheCompiler' = Nobody /\ Made' = None
      BY <2>6, <3>1, <3>2, <3>3, View
    <3> QED
      BY <2>5, <2>6, <3>4, CacheSteps
  <2>8. CASE ~Custom(b)
    <3>1. b \notin Compiling
      BY <2>8 DEF Compiling
    <3>2. UNCHANGED <<TheCompiler, Made>>
      BY <2>6, <3>1, CompilerSame
    <3> QED
      BY <2>5, <2>6, <2>8, <3>2 DEF Simulated, Stutter
  <2> QED
    BY <2>7, <2>8
<1> QED
  BY <1>1, <1>2, <1>3, <1>4 DEF CustomStep

\* What a task is about to publish in the slot of the request has no record yet
\* (the record is written last, after the check).
LEMMA StagedNew ==
    ASSUME CacheInv, NEW b \in Builder, bd[b].ops # <<>>, bd[b].slot = CustomSlot
    PROVE  /\ bd[b].pc = "c_done" /\ Custom(b) /\ bd[b].staged \in {Own(b), <<"text">>} /\ Own(b) \in CustomKernel
           /\ bd[b].n \in Nat /\ Active(b)
           /\ CustomSlot \in DOMAIN index => index[CustomSlot] # bd[b].staged
<1>1. TaskInv(b) /\ Unrecorded(b) /\ Recorded
  BY DEF CacheInv
<1>2. bd[b].pc = "c_done" /\ bd[b].pc \in CustomPcs
  <2>1. bd[b].pc = "c_done"
    BY <1>1 DEF TaskInv, Elsewhere
  <2> QED
    BY <2>1 DEF CustomPcs, Locked
<1>3. bd[b].slot = KernelSlot(b) /\ bd[b].staged \in {Own(b), <<"text">>}
  <2>1. Making(b)
    BY <1>1, <1>2 DEF TaskInv
  <2> QED
    BY <2>1 DEF Making
<1>4. Custom(b) /\ Own(b) \in CustomKernel /\ bd[b].n \in Nat /\ Active(b)
  BY <1>2, <1>3, BuildTask
<1>5. ASSUME CustomSlot \in DOMAIN index  PROVE index[CustomSlot] # bd[b].staged
  <2>1. index[CustomSlot] \in CustomKernel
    BY <1>1, <1>5 DEF Recorded
  <2>2. <<"text">> \notin CustomKernel
    BY DEF CustomKernel
  <2>3. Own(b)[4] = bd[b].n /\ Own(b)[5] = b
    BY DEF Own
  <2>4. index[CustomSlot][5] = b => index[CustomSlot][4] < bd[b].n
    BY <1>1, <1>2, <1>5 DEF Unrecorded, At
  <2>5. ~(bd[b].n < bd[b].n)
    BY <1>4, SMT
  <2> QED
    BY <1>3, <2>1, <2>2, <2>3, <2>4, <2>5
<1> QED
  BY <1>2, <1>3, <1>4, <1>5

\* A file that takes the place of another is not the one the record names, so
\* readers miss (stored_file_validity).
LEMMA Replaced ==
    ASSUME CacheInv, NEW b \in Builder, bd[b].ops # <<>>, index' = index,
           \/ file' = With(file, bd[b].slot, bd[b].staged)
           \/ file' = Drop(file, bd[b].slot)
    PROVE  RecordKept /\ InCache' \in {InCache, None}
<1>1. RecordKept
  BY DEF RecordKept
<1>2. CASE bd[b].slot # CustomSlot
  BY <1>2, WriteElsewhere DEF Touches
<1>3. CASE bd[b].slot = CustomSlot
  <2>1. CustomSlot \in DOMAIN index => index[CustomSlot] # bd[b].staged
    BY <1>3, StagedNew
  <2>2. InCache' = IF CustomSlot \in DOMAIN index /\ CustomSlot \in DOMAIN file' /\ file'[CustomSlot] = index[CustomSlot]
                   THEN index[CustomSlot] ELSE None
    BY DEF InCache, stored_file_validity, CustomSlot, CustomRequest
  <2>3. CASE file' = Drop(file, bd[b].slot)
    <3>1. CustomSlot \notin DOMAIN file'
      BY <1>3, <2>3 DEF Drop
    <3> QED
      BY <1>1, <2>2, <3>1
  <2>4. CASE file' = With(file, bd[b].slot, bd[b].staged)
    <3>1. file'[CustomSlot] = bd[b].staged
      BY <1>3, <2>4 DEF With
    <3> QED
      BY <1>1, <2>1, <2>2, <3>1
  <2> QED
    BY <2>3, <2>4
<1> QED
  BY <1>2, <1>3

\* The operations on a compiled kernel, one after the other.
LEMMA Operations ==
    /\ Head(<<"place", "check", "publish">>) = "place" /\ Tail(<<"place", "check", "publish">>) = <<"check", "publish">>
    /\ Head(<<"check", "publish">>) = "check" /\ Tail(<<"check", "publish">>) = <<"publish">>
    /\ Head(<<"publish">>) = "publish" /\ Tail(<<"publish">>) = <<>>
    /\ <<"place", "check", "publish">> # <<>> /\ <<"check", "publish">> # <<>> /\ <<"publish">> # <<>>
BY SMT

\* The kernel is put in place and checked; readers may miss meanwhile
\* (publish_with, check_type).
LEMMA PlaceStep ==
    ASSUME CacheInv, NEW b \in Builder, bd[b].pc = "c_done", publish_with(b) \/ check_type(b)
    PROVE  CacheInv' /\ Simulated
<1>1. /\ Making(b) /\ Active(b) /\ DOMAIN bd[b] = DOMAIN Idle /\ bd[b].ops # <<>> /\ bd[b].pc \in CustomPcs
  <2>1. bd[b].pc \in CustomPcs
    BY DEF CustomPcs, Locked
  <2> QED
    BY <2>1, BuildTask DEF CacheInv, TaskInv, publish_with, check_type, NextOp
<1>2. index' = index /\ stray' = stray /\ jobs' = jobs /\ StraysKept
  <2>1. index' = index /\ stray' = stray /\ jobs' = jobs
    BY DEF publish_with, check_type, cache, given
  <2> QED
    BY <2>1 DEF StraysKept
<1>3. RecordKept /\ InCache' \in {InCache, None}
  <2>1. \/ file' = file
        \/ file' = With(file, bd[b].slot, bd[b].staged)
        \/ file' = Drop(file, bd[b].slot)
    BY DEF publish_with, check_type, cache, attempt_publish
  <2> QED
    BY <1>1, <1>2, <2>1, Replaced, CacheSame
<1>4. CASE End(b, "failed")
  BY <1>1, <1>2, <1>3, <1>4, EndStep
<1>5. ASSUME ~End(b, "failed")
      PROVE  \E r : /\ Put(b, r) /\ xproc' = xproc /\ DOMAIN r = DOMAIN Idle /\ r.n = bd[b].n
                    /\ r.kernel = bd[b].kernel /\ r.kd = bd[b].kd /\ r.pc = bd[b].pc /\ r.slot = bd[b].slot
                    /\ r.staged = bd[b].staged
                    /\ \/ r.ops = <<"check", "publish">>
                       \/ r.ops = <<"publish">> /\ is_bz(bd[b].staged)
  <2>1. ASSUME NEW r, r = Rest(b) \/ r = [Rest(b) EXCEPT !.art = bd[b].staged]
        PROVE  /\ DOMAIN r = DOMAIN Idle /\ r.n = bd[b].n
               /\ r.kernel = bd[b].kernel /\ r.kd = bd[b].kd /\ r.pc = bd[b].pc /\ r.slot = bd[b].slot
               /\ r.staged = bd[b].staged /\ r.ops = Tail(bd[b].ops)
    BY <1>1, <2>1, Fields DEF Rest
  <2>2. CASE publish_with(b)
    <3>1. Put(b, [Rest(b) EXCEPT !.art = bd[b].staged]) /\ xproc' = xproc
      BY <1>5, <2>2 DEF publish_with, locks
    <3>2. Tail(bd[b].ops) = <<"check", "publish">>
      <4>1. Head(bd[b].ops) = "place"
        BY <2>2 DEF publish_with, NextOp
      <4> QED
        BY <1>1, <4>1, Operations DEF Making
    <3> QED
      BY <2>1, <3>1, <3>2
  <2>3. CASE check_type(b)
    <3>1. Put(b, Rest(b)) /\ xproc' = xproc /\ is_bz(bd[b].staged)
      BY <1>5, <2>3 DEF check_type, locks
    <3>2. Tail(bd[b].ops) = <<"publish">>
      <4>1. Head(bd[b].ops) = "check"
        BY <2>3 DEF check_type, NextOp
      <4> QED
        BY <1>1, <4>1, Operations DEF Making
    <3> QED
      BY <2>1, <3>1, <3>2
  <2> QED
    BY <2>2, <2>3
<1>6. ASSUME NEW r, Put(b, r), xproc' = xproc, DOMAIN r = DOMAIN Idle, r.n = bd[b].n,
             r.kernel = bd[b].kernel, r.kd = bd[b].kd, r.pc = bd[b].pc, r.slot = bd[b].slot,
             r.staged = bd[b].staged,
             \/ r.ops = <<"check", "publish">>
             \/ r.ops = <<"publish">> /\ is_bz(bd[b].staged)
      PROVE  CacheInv' /\ Simulated
  <2>1. Builds(b, r)
    BY <1>1, <1>6 DEF Builds
  <2>2. /\ Moves(b) /\ bd'[b] = r /\ Own(b)' = Own(b) /\ KernelSlot(b)' = KernelSlot(b)
    BY <1>2, <1>6, <2>1, BuildMoves
  <2>3. bd[b].slot = KernelSlot(b) /\ bd[b].staged \in {Own(b), <<"text">>}
    BY <1>1 DEF Making
  <2>4. is_bz(bd[b].staged) => bd[b].staged = Own(b)
    <3>1. ~is_bz(<<"text">>)
      BY DEF is_bz
    <3> QED
      BY <2>3, <3>1
  <2>5. Making(b)'
    BY <1>6, <2>2, <2>3, <2>4 DEF Making
  <2>6. ~At(b, "c_done") /\ ~At(b, "c_done")'
    BY <1>1, <1>6, <2>2, Operations DEF At
  <2>7. Holds(b)' /\ LocksKept({b})
    <3>1. Holds(b)
      BY DEF CacheInv
    <3> QED
      BY <1>6, <2>2, <3>1 DEF Holds, LocksKept
  <2>8. CacheInv'
    BY <1>2, <1>3, <1>6, <2>1, <2>5, <2>6, <2>7, BuildKeeps
  <2>9. UNCHANGED <<TheCompiler, Made, Given>>
    BY <1>2, <1>6, <2>1, <2>6, BuildSeen
  <2> QED
    BY <1>3, <2>8, <2>9, CacheSteps DEF Simulated, Stutter
<1> QED
  BY <1>4, <1>5, <1>6

\* The record of the kernel is written: what was compiled is in the cache, if its
\* file is still there (upsert).
LEMMA RecordStep ==
    ASSUME CacheInv, NEW b \in Builder, bd[b].pc = "c_done", upsert(b)
    PROVE  CacheInv' /\ Simulated
<1>1. /\ Making(b) /\ Active(b) /\ DOMAIN bd[b] = DOMAIN Idle /\ bd[b].ops # <<>> /\ bd[b].pc \in CustomPcs
      /\ bd[b].n \in Nat /\ Head(bd[b].ops) = "publish"
  <2>1. bd[b].pc \in CustomPcs
    BY DEF CustomPcs, Locked
  <2> QED
    BY <2>1, BuildTask DEF CacheInv, TaskInv, upsert, NextOp
<1>2. bd[b].ops = <<"publish">> /\ bd[b].slot = KernelSlot(b) /\ bd[b].staged = Own(b)
  BY <1>1, Operations DEF Making
<1>3. /\ file' = file /\ stray' = stray /\ jobs' = jobs /\ xproc' = xproc /\ index' = With(index, KernelSlot(b), Own(b))
      /\ Put(b, [Rest(b) EXCEPT !.art = bd[b].staged])
  BY <1>2 DEF upsert, locks, given, publish_file_ref
<1> DEFINE r == [Rest(b) EXCEPT !.art = bd[b].staged]
<1>4. /\ DOMAIN r = DOMAIN Idle /\ r.n = bd[b].n /\ r.kernel = bd[b].kernel /\ r.kd = bd[b].kd /\ r.pc = bd[b].pc
      /\ r.ops = <<>> /\ r.art = Own(b)
  <2>1. /\ DOMAIN r = DOMAIN Idle /\ r.n = bd[b].n /\ r.kernel = bd[b].kernel /\ r.kd = bd[b].kd /\ r.pc = bd[b].pc
        /\ r.ops = Tail(bd[b].ops) /\ r.art = bd[b].staged
    BY <1>1, Fields DEF Rest
  <2> QED
    BY <1>2, <2>1, Operations
<1>5. Put(b, r)
  BY <1>3
<1> HIDE DEF r
<1>6. Builds(b, r)
  BY <1>1, <1>4 DEF Builds
<1>7. /\ Moves(b) /\ bd'[b] = r /\ Custom(b)' = Custom(b) /\ Given' = Given /\ Own(b)' = Own(b) /\ TaskInv(b)'
  <2>1. Own(b)' = Own(b) /\ bd'[b] = r
    BY <1>3, <1>5, <1>6, BuildMoves
  <2>2. Making(b)'
    BY <1>4, <2>1 DEF Making
  <2> QED
    BY <1>3, <1>5, <1>6, <2>2, BuildMoves
<1>8. /\ \A x \in Builder \ {b} : Same(x) /\ Seen(x)
      /\ Forward(b)
  BY <1>7, OthersSame
<1>9. Holds(b)' /\ LocksKept({b}) /\ At(b, "c_done")' /\ StraysKept
  <2>1. Holds(b)
    BY DEF CacheInv
  <2>2. Holds(b)' /\ LocksKept({b}) /\ At(b, "c_done")'
    BY <1>3, <1>4, <1>7, <2>1 DEF Holds, LocksKept, At
  <2> QED
    BY <1>3, <2>2 DEF StraysKept
<1>10. CASE KernelSlot(b) # CustomSlot
  <2>1. RecordKept /\ InCache' = InCache
    BY <1>3, <1>10, WriteElsewhere DEF Touches
  <2>2. Unrecorded(b)'
    BY <1>9 DEF Unrecorded
  <2>3. CacheInv'
    BY <1>7, <1>8, <1>9, <2>1, <2>2, Preserve DEF Moves
  <2>4. ~Custom(b)
    BY <1>1, <1>10, BuildTask
  <2>5. b \notin Compiling /\ (b \notin Compiling)'
    BY <1>7, <2>4 DEF Compiling
  <2>6. UNCHANGED <<TheCompiler, Made>>
    BY <1>7, <2>5, CompilerSame
  <2> QED
    BY <1>7, <2>1, <2>3, <2>6 DEF Simulated, Stutter
<1>11. CASE KernelSlot(b) = CustomSlot
  <2>1. Custom(b) /\ Own(b) \in CustomKernel
    BY <1>1, <1>11, BuildTask
  <2>3. CustomSlot \in DOMAIN index' /\ index'[CustomSlot] = Own(b)
    BY <1>3, <1>11 DEF With
  <2>4. Own(b)[4] = bd[b].n /\ Own(b)[5] = b /\ bd'[b].n = bd[b].n /\ bd[b].n <= bd[b].n
    BY <1>1, <1>7, SMT DEF Own
  <2>5. Recorded'
    BY <2>1, <2>3, <2>4 DEF Recorded
  <2>6. ASSUME NEW x \in Builder  PROVE TaskInv(x)' /\ Holds(x)' /\ Unrecorded(x)' /\ Active(x)' = Active(x)
                                        /\ bd'[x].n = bd[x].n
    <3>1. CASE x = b
      <4>1. Unrecorded(b)'
        BY <1>9 DEF Unrecorded
      <4>2. Active(b)' = Active(b)
        BY <1>4, <1>7 DEF Active
      <4> QED
        BY <1>7, <1>9, <2>4, <3>1, <4>1, <4>2
    <3>2. CASE x # b
      <4>1. TaskInv(x) /\ Holds(x) /\ Same(x)
        BY <1>8, <3>2 DEF CacheInv
      <4>2. TaskInv(x)' /\ Active(x)' = Active(x)
        BY <1>3, <4>1, SameTask
      <4>3. Holds(x)'
        BY <1>3, <4>1 DEF Holds, Same
      <4>4. Unrecorded(x)'
        BY <2>3, <2>4, <3>2 DEF Unrecorded
      <4> QED
        BY <4>1, <4>2, <4>3, <4>4 DEF Same
    <3> QED
      BY <3>1, <3>2
  <2>7. Strays'
    <3>1. SUFFICES ASSUME NEW s \in stray', s[2] = CustomSlot  PROVE Abandoned(s[3])' /\ index'[CustomSlot] # s[3]
      BY DEF Strays, Harmless
    <3>2. Abandoned(s[3])
      BY <1>3, <3>1 DEF CacheInv, Strays, Harmless
    <3>3. \A c : c \in CustomKernel => c[5] \in Builder
      BY DEF CustomKernel
    <3>4. Abandoned(s[3])'
      BY <2>6, <3>2, <3>3 DEF Abandoned
    <3>5. Own(b) # <<"text">>
      BY DEF Own
    <3>6. Own(b) # s[3]
      BY <1>1, <2>4, <3>2, <3>5 DEF Abandoned
    <3> QED
      BY <2>3, <3>4, <3>6
  <2>8. CacheInv'
    BY <1>7, <2>5, <2>6, <2>7 DEF CacheInv, Moves
  <2>9. b \in Compiling /\ (b \in Compiling)' /\ (b \in Published)'
    <3> QED
      BY <1>4, <1>7, <1>9, <2>1 DEF Compiling, Published
  <2>10. Compiling \subseteq {b}
    BY <2>9, OneCompiler
  <2>11. TheCompiler = b /\ TheCompiler' = b /\ Made' = Own(b)
    BY <1>4, <1>7, <2>9, <2>10, View
  <2>12. InCache' \in {Own(b), None}
    BY <2>3 DEF InCache
  <2> QED
    BY <1>7, <2>1, <2>8, <2>11, <2>12, CacheSteps
<1> QED
  BY <1>10, <1>11

\* The operations of a custom build on its slot.
LEMMA CustomPublication ==
    ASSUME CacheInv, NEW b \in Builder, bd[b].pc = "c_done", Publication(b)
    PROVE  CacheInv' /\ Simulated
<1>1. Making(b)
  BY DEF CacheInv, TaskInv
<1>2. bd[b].ops # <<>> => Head(bd[b].ops) \in {"place", "check", "publish"}
  BY <1>1, Operations DEF Making
<1>3. ~update(b) /\ ~publish_transformed(b)
  BY <1>2 DEF update, publish_transformed, NextOp
<1> QED
  BY <1>3, PlaceStep, RecordStep DEF Publication

----------------------------------------------------------------------------
(* Disturbances *)

\* What an abandoned publication may still put in the slot of the request has no
\* record, and will have none (bounded_join).
LEMMA JoinStep ==
    ASSUME CacheInv, NEW b \in Builder, bounded_join(b)
    PROVE  CacheInv' /\ Simulated
<1>1. Active(b) /\ End(b, "failed") /\ index' = index /\ file' = file /\ jobs' = jobs
  BY DEF bounded_join, cache, given
<1>2. InCache' = InCache
  BY <1>1, CacheSame
<1>3. ASSUME NEW s \in stray', s \notin stray
      PROVE  bd[b].ops # <<>> /\ s = <<Process[b], bd[b].slot, bd[b].staged>>
  BY <1>3 DEF bounded_join
<1>4. bd'[b].n = bd[b].n /\ bd'[b].pc = "failed"
  <2> DEFINE r == [bd[b] EXCEPT !.pc = "failed", !.ops = <<>>, !.staged = None]
  <2>1. DOMAIN bd[b] = DOMAIN Idle /\ DOMAIN bd = Builder
    BY DEF CacheInv, TaskInv, Shaped
  <2>2. r.n = bd[b].n /\ r.pc = "failed"
    BY <2>1, Fields
  <2>3. Put(b, r)
    BY <1>1 DEF End
  <2> HIDE DEF r
  <2>4. bd'[b] = r
    BY <2>1, <2>3 DEF Put
  <2> QED
    BY <2>2, <2>4
<1>5. StraysKept
  <2>1. SUFFICES ASSUME NEW s \in stray', s \notin stray, s[2] = CustomSlot
                 PROVE  Abandoned(s[3])' /\ (CustomSlot \in DOMAIN index' => index'[CustomSlot] # s[3])
    BY DEF StraysKept, Harmless, CustomSlot, CustomRequest
  <2>2. bd[b].ops # <<>> /\ bd[b].slot = CustomSlot /\ s[3] = bd[b].staged
    BY <1>3, <2>1, SMT
  <2>3. /\ bd[b].staged \in {Own(b), <<"text">>} /\ Own(b) \in CustomKernel /\ bd[b].n \in Nat
        /\ CustomSlot \in DOMAIN index => index[CustomSlot] # bd[b].staged
    BY <2>2, StagedNew
  <2>4. ~Active(b)'
    BY <1>4 DEF Active, Ended
  <2>5. Own(b)[4] = bd[b].n /\ Own(b)[5] = b /\ bd[b].n <= bd[b].n
    BY <2>3, SMT DEF Own
  <2>7. Abandoned(s[3])'
    BY <1>4, <2>2, <2>3, <2>4, <2>5 DEF Abandoned
  <2> QED
    BY <1>1, <2>2, <2>3, <2>7
<1> QED
  BY <1>1, <1>2, <1>5, EndStep

\* A step that moves no task and writes no record at most loses the cached kernel.
LEMMA LooseStep ==
    ASSUME CacheInv, bd' = bd, jobs' = jobs, xproc' = xproc, index' = index, InCache' \in {InCache, None},
           stray' \subseteq stray
    PROVE  CacheInv' /\ Simulated
<1>1. \A x \in Builder : Same(x)
  BY DEF Same
<1>2. LocksKept({}) /\ RecordKept /\ StraysKept
  <2>1. LocksKept({}) /\ RecordKept
    BY DEF LocksKept, RecordKept
  <2> QED
    BY <2>1 DEF StraysKept
<1>3. CacheInv'
  <2>1. DOMAIN bd' = Builder
    BY DEF CacheInv
  <2>2. {} \in SUBSET Builder /\ \A x \in Builder \ {} : Same(x)
    BY <1>1
  <2> QED
    BY <1>2, <2>1, <2>2, Preserve
<1>4. UNCHANGED <<TheCompiler, Made, Given>>
  BY <1>1, SameSeen, AllSeen
<1>5. CASE InCache' = InCache
  BY <1>3, <1>4, <1>5 DEF Simulated, Stutter
<1>6. CASE InCache' = None
  BY <1>3, <1>4, <1>6 DEF Simulated, SingleFlight!Next, SingleFlight!Lose
<1> QED
  BY <1>5, <1>6

\* A file is lost, or an abandoned publication takes its place after all: the
\* record does not name it (FileLost, StrayEnds).
LEMMA FileSteps ==
    ASSUME CacheInv, (\E s \in DOMAIN file : FileLost(s)) \/ StrayEnds
    PROVE  CacheInv' /\ Simulated
<1>1. bd' = bd /\ jobs' = jobs /\ xproc' = xproc /\ index' = index /\ stray' \subseteq stray
  <2>1. bd' = bd /\ jobs' = jobs /\ xproc' = xproc /\ index' = index
    BY DEF FileLost, StrayEnds, locks, given
  <2>2. stray' \subseteq stray
    BY DEF FileLost, StrayEnds
  <2> QED
    BY <2>1, <2>2
<1>2. ASSUME NEW s, NEW c, file' = Drop(file, s) \/ file' = With(file, s, c),
             (s = CustomSlot /\ CustomSlot \in DOMAIN index) => index[CustomSlot] # c
      PROVE  InCache' \in {InCache, None}
  <2>1. CASE s # CustomSlot
    BY <1>1, <1>2, <2>1, WriteElsewhere DEF Touches
  <2>2. CASE s = CustomSlot
    <3>1. InCache' = IF CustomSlot \in DOMAIN index /\ CustomSlot \in DOMAIN file' /\ file'[CustomSlot] = index[CustomSlot]
                     THEN index[CustomSlot] ELSE None
      BY <1>1 DEF InCache, stored_file_validity, CustomSlot, CustomRequest
    <3>2. CASE file' = Drop(file, s)
      <4>1. CustomSlot \notin DOMAIN file'
        BY <2>2, <3>2 DEF Drop
      <4> QED
        BY <3>1, <4>1
    <3>3. CASE file' = With(file, s, c)
      <4>1. file'[CustomSlot] = c
        BY <2>2, <3>3 DEF With
      <4> QED
        BY <1>2, <2>2, <3>1, <4>1
    <3> QED
      BY <1>2, <3>2, <3>3
  <2> QED
    BY <2>1, <2>2
<1>3. InCache' \in {InCache, None}
  <2>1. CASE file' = file
    BY <1>1, <2>1, CacheSame
  <2>2. ASSUME NEW s, file' = Drop(file, s)  PROVE InCache' \in {InCache, None}
    <3>1. CustomSlot \in DOMAIN index => index[CustomSlot] # <<"text">>
      <4>1. <<"text">> \notin CustomKernel
        BY DEF CustomKernel
      <4> QED
        BY <4>1 DEF CacheInv, Recorded
    <3> QED
      BY <1>2, <2>2, <3>1
  <2>3. ASSUME NEW s \in stray, file' = With(file, s[2], s[3])  PROVE InCache' \in {InCache, None}
    <3>1. Harmless(s)
      BY DEF CacheInv, Strays
    <3> QED
      BY <1>2, <2>3, <3>1 DEF Harmless
  <2>4. \/ file' = file \/ (\E s : file' = Drop(file, s)) \/ \E s \in stray : file' = With(file, s[2], s[3])
    BY DEF FileLost, StrayEnds
  <2> QED
    BY <2>1, <2>2, <2>3, <2>4
<1> QED
  BY <1>1, <1>3, LooseStep

\* A process dies: its tasks are gone with their locks, and what they were about
\* to publish is not published (Crash).
LEMMA CrashStep ==
    ASSUME CacheInv, NEW p, Crash(p)
    PROVE  CacheInv' /\ Simulated
<1> DEFINE B == {x \in Builder : Process[x] = p}
<1>1. index' = index /\ file' = file /\ jobs' = jobs /\ xproc' = Released(xproc, B)
  BY DEF Crash, cache, given
<1>a. bd' = [b \in Builder |-> IF Process[b] = p /\ Active(b)
                               THEN [bd[b] EXCEPT !.pc = "dead", !.ops = <<>>, !.staged = None] ELSE bd[b]]
  BY DEF Crash
<1>2. StraysKept
  <2>1. stray' \subseteq stray
    BY DEF Crash
  <2> QED
    BY <2>1 DEF StraysKept
<1>3. RecordKept /\ InCache' = InCache
  BY <1>1, CacheSame
<1>4. B \in SUBSET Builder /\ LocksKept(B)
  BY <1>1 DEF LocksKept, Released
<1>5. DOMAIN bd' = Builder /\ \A x \in Builder \ B : bd'[x] = bd[x]
  BY <1>a
<1>6. \A x \in Builder \ B : Same(x)
  BY <1>5 DEF Same
<1>7. ASSUME NEW x \in B
      PROVE  /\ Shaped(x) /\ x \in Builder
             /\ DOMAIN bd'[x] = DOMAIN bd[x] /\ bd'[x].n = bd[x].n /\ bd'[x].kd = bd[x].kd /\ bd'[x].kernel = bd[x].kernel
             /\ bd'[x].pc \in Ended
             /\ bd'[x] = bd[x] \/ (bd'[x].pc = "dead" /\ bd'[x].ops = <<>>)
  <2>1. x \in Builder /\ Shaped(x) /\ Process[x] = p
    BY DEF CacheInv, TaskInv
  <2>2. CASE Active(x)
    <3> DEFINE r == [bd[x] EXCEPT !.pc = "dead", !.ops = <<>>, !.staged = None]
    <3>1. bd'[x] = r
      BY <1>a, <2>2
    <3>2. /\ DOMAIN r = DOMAIN bd[x] /\ r.n = bd[x].n /\ r.kd = bd[x].kd /\ r.kernel = bd[x].kernel /\ r.pc = "dead"
          /\ r.ops = <<>>
      BY <2>1, Fields DEF Shaped
    <3> HIDE DEF r
    <3> QED
      BY <2>1, <3>1, <3>2 DEF Ended
  <2>3. CASE ~Active(x)
    <3>1. bd'[x] = bd[x]
      BY <1>a, <2>3
    <3> QED
      BY <2>1, <2>3, <3>1 DEF Active
  <2> QED
    BY <2>2, <2>3
<1> HIDE DEF B
<1>8. \A pc \in Ended : pc \notin CustomPcs \cup KernelPcs \cup SourcePcs \cup {"r_resolve", "r_cached", "load", "normalize"}
                        /\ pc \notin Locked /\ pc \notin {"c_lease", "c_compile", "c_done"}
  BY DEF Ended, CustomPcs, Locked, KernelPcs, SourcePcs
<1>9. ASSUME NEW x \in B  PROVE TaskInv(x)' /\ Holds(x)' /\ Unrecorded(x)' /\ Forward(x)
  <2>1. Holds(x)' /\ Unrecorded(x)'
    BY <1>7, <1>8 DEF Holds, Unrecorded
  <2>2. Forward(x)
    BY <1>7, SMT DEF Forward, Active, Shaped
  <2>3. CASE bd'[x] = bd[x]
    <3>1. Same(x) /\ TaskInv(x)
      BY <1>7, <2>3 DEF Same, CacheInv
    <3> QED
      BY <1>1, <2>1, <2>2, <3>1, SameTask
  <2>4. CASE bd'[x].pc = "dead" /\ bd'[x].ops = <<>>
    <3>1. Shaped(x)' /\ Rested(x)' /\ InCustom(x)' /\ External(x)' /\ Elsewhere(x)' /\ Answered(x)'
      BY <1>7, <1>8, <2>4 DEF Shaped, Rested, InCustom, External, Elsewhere, Answered
    <3>2. Job(x)' = Job(x) /\ RequestDigest(x)' = RequestDigest(x)
      BY <1>1, <1>7, SameJob
    <3>3. Asked(x)'
      BY <1>7, <3>2 DEF Asked, CacheInv, TaskInv
    <3>4. bd'[x].pc # "c_done"
      BY <2>4
    <3> QED
      BY <2>1, <2>2, <3>1, <3>3, <3>4 DEF TaskInv
  <2> QED
    BY <1>7, <2>3, <2>4
<1>10. CacheInv'
  BY <1>1, <1>2, <1>3, <1>4, <1>5, <1>6, <1>9, Preserve
<1>11. \A x \in B : x \notin Compiling' /\ Given'[x] = Given[x]
  <2>1. SUFFICES ASSUME NEW x \in B  PROVE x \notin Compiling' /\ Given'[x] = Given[x]
    OBVIOUS
  <2>2. x \notin Compiling'
    BY <1>7, <1>8 DEF Compiling
  <2>3. Job(x)' = Job(x) /\ bd'[x].n = bd[x].n /\ bd'[x].kd = bd[x].kd /\ bd'[x].kernel = bd[x].kernel /\ x \in Builder
    BY <1>1, <1>7, SameJob
  <2>4. Given'[x] = Given[x]
    <3>1. Custom(x)' = Custom(x)
      BY <2>3 DEF Custom
    <3> QED
      BY <2>3, <3>1 DEF Given
  <2> QED
    BY <2>2, <2>4
<1>12. \A x \in Builder \ B : Seen(x)
  BY <1>1, <1>6, SameSeen
<1>13. CASE B \cap Compiling = {}
  <2>1. \A x \in B : Seen(x)
    BY <1>11, <1>13 DEF Seen, Published
  <2>2. UNCHANGED <<TheCompiler, Made, Given>>
    BY <1>12, <2>1, AllSeen
  <2> QED
    BY <1>3, <1>10, <2>2 DEF Simulated, Stutter
<1>14. CASE B \cap Compiling # {}
  <2>1. PICK b \in B : b \in Compiling
    BY <1>14
  <2>2. Compiling \subseteq {b} /\ TheCompiler = b /\ b \in Builder
    BY <1>7, <2>1, OneCompiler
  <2>3. Compiling' = {} /\ Published' = {}
    BY <1>11, <1>12, <2>2 DEF Compiling, Published, Seen
  <2>4. TheCompiler' = Nobody /\ Made' = None
    BY <2>3 DEF TheCompiler, Made
  <2>5. Given' = Given
    <3>1. \A x \in Builder : Given'[x] = Given[x]
      BY <1>11, <1>12 DEF Seen
    <3> QED
      BY <3>1 DEF Given
  <2> QED
    BY <1>3, <1>10, <2>2, <2>4, <2>5, CacheSteps
<1> QED
  BY <1>13, <1>14

\* The disturbances.
LEMMA DisturbanceSteps ==
    ASSUME CacheInv, Disturbance
    PROVE  CacheInv' /\ Simulated
<1>1. ASSUME NEW b \in Builder, OpFails(b) \/ publish_temp(b)  PROVE CacheInv' /\ Simulated
  <2>1. Active(b)
    <3>1. OpFails(b) \/ bd[b].pc \in {"b_write", "b_copy"}
      BY <1>1 DEF publish_temp, At
    <3> QED
      BY <3>1 DEF OpFails, Active, Ended
  <2> QED
    BY <1>1, <2>1, RefuseStep DEF OpFails, publish_temp
<1> QED
  BY <1>1, JoinStep, CrashStep, FileSteps DEF Disturbance

----------------------------------------------------------------------------
(* The next job *)

\* A builder turns to its next job: a custom one starts with the first look into
\* the cache and the digest of its request (materialize_image).
LEMMA AskStep ==
    ASSUME CacheInv, NEW b \in Builder, materialize_image(b)
    PROVE  CacheInv' /\ Simulated
<1> DEFINE job == jobs[b][bd[b].n + 1]
           quiet == stray = {} /\ \A x \in Builder : ~Active(x)
           fresh == [Idle EXCEPT !.n = bd[b].n + 1,
                                 !.stage = IF job.kernel = "" THEN "rootfs" ELSE "kernel",
                                 !.kd = IF job.kernel # "custom" THEN @
                                        ELSE custom_request_digest(CHOOSE s \in job.custom : TRUE, job.compiler),
                                 !.pc = CASE job.kernel = "custom" -> "c_cached"
                                          [] job.kernel = "" -> "r_resolve"
                                          [] OTHER -> "k_resolve",
                                 !.since = IF quiet THEN mishaps ELSE Disturbed]
<1>1. /\ ~Active(b) /\ index' = index /\ file' = file /\ stray' = stray /\ xproc' = xproc /\ jobs' = jobs
  BY DEF materialize_image, cache, locks, given
<1>2. /\ DOMAIN bd' = Builder /\ bd'[b] = fresh
      /\ \A x \in Builder \ {b} : bd'[x] = [bd[x] EXCEPT !.since = Disturbed]
  <2>1. bd' = [x \in Builder |-> IF x = b THEN fresh ELSE [bd[x] EXCEPT !.since = Disturbed]]
    BY DEF materialize_image
  <2> HIDE DEF fresh
  <2> QED
    BY <2>1
<1>3. /\ DOMAIN fresh = DOMAIN Idle /\ fresh.n = bd[b].n + 1 /\ fresh.ops = <<>> /\ fresh.kernel = None
      /\ fresh.stage = IF job.kernel = "" THEN "rootfs" ELSE "kernel"
      /\ job.kernel = "custom" => fresh.kd = custom_request_digest(CHOOSE s \in job.custom : TRUE, job.compiler)
  <2> HIDE DEF job, quiet
  <2> QED
    BY DEF Idle
<1>a. fresh.pc = CASE job.kernel = "custom" -> "c_cached" [] job.kernel = "" -> "r_resolve" [] OTHER -> "k_resolve"
  <2> HIDE DEF job, quiet
  <2> QED
    BY DEF Idle
<1> HIDE DEF fresh, quiet
<1>4. ASSUME NEW x \in Builder \ {b}  PROVE Same(x)
  <2>1. DOMAIN bd[x] = DOMAIN Idle
    BY DEF CacheInv, TaskInv, Shaped
  <2> QED
    BY <1>2, <1>4, <2>1, Fields DEF Same
<1>5. Job(b)' = job /\ bd'[b].n = bd[b].n + 1 /\ bd[b].n \in Nat /\ DOMAIN bd'[b] = DOMAIN Idle /\ bd'[b].ops = <<>>
  <2>1. bd[b].n \in Nat
    BY DEF CacheInv, TaskInv, Shaped
  <2> QED
    BY <1>1, <1>2, <1>3, <2>1 DEF Job
<1> HIDE DEF job
<1>6. \/ job.kernel = "custom" /\ bd'[b].pc = "c_cached"
      \/ job.kernel = "" /\ bd'[b].pc = "r_resolve" /\ bd'[b].stage = "rootfs"
      \/ job.kernel # "custom" /\ bd'[b].pc = "k_resolve"
  BY <1>2, <1>3, <1>a
<1>7. Shaped(b)' /\ Rested(b)' /\ InCustom(b)' /\ External(b)' /\ Elsewhere(b)' /\ Answered(b)' /\ Holds(b)'
      /\ bd'[b].pc # "c_done" /\ (b \notin Compiling)'
  <2>1. Shaped(b)'
    BY <1>5, SMT DEF Shaped
  <2>2. bd'[b].pc \notin Ended /\ bd'[b].ops = <<>> /\ bd'[b].n > 0 /\ bd'[b].pc \notin {"c_done", "load", "normalize"}
        /\ bd'[b].pc \notin Locked /\ bd'[b].pc \notin SourcePcs /\ bd'[b].pc \notin {"c_lease", "c_compile", "c_done"}
    <3>1. bd'[b].pc \in {"c_cached", "r_resolve", "k_resolve"}
      BY <1>6
    <3> QED
      BY <1>5, <3>1, SMT DEF Ended, Locked, SourcePcs
  <2>3. /\ bd'[b].pc \in CustomPcs <=> job.kernel = "custom"
        /\ bd'[b].pc \in KernelPcs => job.kernel # "custom"
        /\ bd'[b].pc \in {"r_resolve", "r_cached"} => bd'[b].stage = "rootfs"
    BY <1>6 DEF CustomPcs, Locked, KernelPcs
  <2> QED
    BY <1>5, <2>1, <2>2, <2>3 DEF Rested, InCustom, External, Elsewhere, Answered, Holds, Compiling, Custom
<1>8. Asked(b)'
  <2>1. CustomSpec(b)' = CHOOSE s \in job.custom : TRUE
    BY <1>5 DEF CustomSpec
  <2> QED
    BY <1>2, <1>3, <1>5, <2>1 DEF Asked, RequestDigest
<1>9. RecordKept /\ InCache' = InCache /\ LocksKept({b})
  BY <1>1, CacheSame DEF LocksKept
<1>10. Unrecorded(b)' /\ Forward(b)
  <2>1. Forward(b)
    BY <1>5, SMT DEF Forward
  <2>2. Recorded
    BY DEF CacheInv
  <2>3. \A c : c \in CustomKernel => c[4] \in Nat
    BY DEF CustomKernel
  <2>4. (CustomSlot \in DOMAIN index /\ index[CustomSlot][5] = b) => index[CustomSlot][4] < bd'[b].n
    BY <1>5, <2>2, <2>3, SMT DEF Recorded
  <2> QED
    BY <1>1, <2>1, <2>4 DEF Unrecorded, CustomSlot, CustomRequest
<1>11. CacheInv'
  <2>1. StraysKept
    BY <1>1 DEF StraysKept
  <2>2. TaskInv(b)'
    BY <1>7, <1>8 DEF TaskInv
  <2> QED
    BY <1>1, <1>2, <1>4, <1>7, <1>9, <1>10, <2>1, <2>2, Preserve
<1>12. \A x \in Builder \ {b} : Seen(x)
  BY <1>1, <1>4, SameSeen
<1>13. b \notin Compiling
  BY <1>1 DEF Active, Ended, Compiling
<1>14. UNCHANGED <<TheCompiler, Made>>
  BY <1>7, <1>12, <1>13, OthersCompile
<1>15. Given' = [Given EXCEPT ![b] = None]
  <2>1. Given'[b] = None
    BY <1>2, <1>3 DEF Given
  <2>2. \A x \in Builder \ {b} : Given'[x] = Given[x]
    BY <1>12 DEF Seen
  <2>3. Given = [x \in Builder |-> Given[x]] /\ Given' = [x \in Builder |-> Given'[x]]
    BY DEF Given
  <2> QED
    BY <2>1, <2>2, <2>3
<1> QED
  BY <1>9, <1>11, <1>14, <1>15, CacheSteps

----------------------------------------------------------------------------
(* Results *)

\* Every step keeps the invariant and is one of the abstract cache or none.
LEMMA EveryStep ==
    ASSUME CacheInv, [Next]_vars
    PROVE  CacheInv' /\ Simulated
<1>1. CASE UNCHANGED vars
  <2>1. bd' = bd /\ jobs' = jobs /\ xproc' = xproc /\ index' = index /\ file' = file /\ stray' = stray
    BY <1>1 DEF vars
  <2>2. InCache' = InCache
    BY <2>1, CacheSame
  <2> QED
    BY <2>1, <2>2, LooseStep
<1>2. ASSUME NEW b \in Builder, Work(b)  PROVE CacheInv' /\ Simulated
  BY <1>2, OtherPublication, CustomPublication, LayerSteps, KernelSteps, CustomSteps, RootfsSteps, BootSteps, OutputSteps DEF Work
<1> QED
  BY <1>1, <1>2, AskStep, DisturbanceSteps DEF Next, AllDone

\* At first nothing is cached and nobody builds.
LEMMA AtFirst ==
    ASSUME Init
    PROVE  CacheInv /\ SingleFlight!Init
<1>1. index = <<>> /\ stray = {} /\ bd = [b \in Builder |-> Idle]
  BY DEF Init
<1>2. Idle.pc = "idle" /\ Idle.ops = <<>> /\ Idle.n = 0
  BY DEF Idle
<1>3. ASSUME NEW x \in Builder
      PROVE  bd[x].pc = "idle" /\ bd[x].ops = <<>> /\ bd[x].n = 0 /\ DOMAIN bd[x] = DOMAIN Idle
  BY <1>1, <1>2
<1>4. /\ "idle" \notin CustomPcs \cup KernelPcs \cup SourcePcs \cup {"r_resolve", "r_cached", "load", "normalize", "c_done"}
      /\ "idle" \notin Locked /\ "idle" \notin {"c_lease", "c_compile", "c_done"} /\ 0 \in Nat /\ ~(0 > 0)
  BY SMT DEF CustomPcs, Locked, KernelPcs, SourcePcs
<1>5. ASSUME NEW x \in Builder  PROVE TaskInv(x) /\ Holds(x) /\ Unrecorded(x) /\ ~Custom(x) /\ x \notin Compiling
  BY <1>3, <1>4 DEF TaskInv, Shaped, Rested, InCustom, External, Elsewhere, Answered, Asked, Holds, Unrecorded, Custom, Compiling
<1>6. CustomSlot \notin DOMAIN index
  BY <1>1, SMT
<1>7. CacheInv
  <2>1. DOMAIN bd = Builder /\ Strays
    BY <1>1 DEF Strays
  <2> QED
    BY <1>5, <1>6, <2>1 DEF CacheInv, Recorded
<1>8. InCache = None
  BY <1>6 DEF InCache
<1>9. Compiling = {}
  BY <1>5 DEF Compiling
<1>10. TheCompiler = Nobody /\ Made = None
  BY <1>9, NoCompiler
<1>11. Given = [u \in Builder |-> None]
  BY <1>5 DEF Given
<1> QED
  BY <1>7, <1>8, <1>10, <1>11 DEF SingleFlight!Init

\* The record of a request names a kernel that was compiled for it and
\* published, and abandoned publications put nothing in its place that readers
\* would take for it (build_custom, publish_with, get_by_link_ref).
THEOREM CacheInvariant == Spec => []CacheInv
<1>1. Init => CacheInv
  BY AtFirst
<1>2. CacheInv /\ [Next]_vars => CacheInv'
  BY EveryStep
<1> QED
  BY <1>1, <1>2, PTL DEF Spec

\* Custom builds of one request implement the abstract cache, for any number of
\* builders, processes, jobs and mishaps: one compilation at a time over all
\* processes, and every answer was in the cache when it was given, or is the
\* task's own (build_lock, build_custom).
THEOREM CustomBuildsAreSingleFlight == Spec => CustomBuildsImplementCache
<1>1. Init => SingleFlight!Init
  BY AtFirst
<1>2. CacheInv /\ [Next]_vars => [SingleFlight!Next]_<<InCache, TheCompiler, Made, Given>>
  BY EveryStep DEF Simulated, Stutter
<1> QED
  BY <1>1, <1>2, CacheInvariant, PTL DEF Spec, CustomBuildsImplementCache, SingleFlight!Spec

\* A custom job of the request that succeeds has a kernel compiled to its own
\* specification by its own compiler, whoever compiled it and whatever failed in
\* between (custom_request_digest, get_by_link_ref).
CustomAnswersRight == \A b \in Builder : (Custom(b) /\ Succeeded(b)) => RightKernel(b, bd[b].kernel)
THEOREM CustomAnswers == Spec => []CustomAnswersRight
<1>1. CacheInv => CustomAnswersRight
  <2>1. SUFFICES ASSUME CacheInv, NEW b \in Builder, Custom(b), Succeeded(b)  PROVE RightKernel(b, bd[b].kernel)
    BY DEF CustomAnswersRight
  <2>2. TaskInv(b) /\ bd[b].n \in Nat /\ bd[b].n > 0 /\ Job(b).kernel = "custom"
    BY <2>1 DEF CacheInv, TaskInv, Shaped, Custom
  <2>3. bd[b].kernel \in CustomKernel
    <3>1. bd[b].pc \notin CustomPcs \cup {"failed", "dead"}
      BY <2>1 DEF Succeeded, CustomPcs, Locked
    <3> QED
      BY <2>1, <2>2, <3>1 DEF TaskInv, Answered
  <2>4. bd[b].kd = RequestDigest(b)
    BY <2>2 DEF TaskInv, Asked
  <2>5. \A spec \in OfRequest : Compiled(spec, Compiler) = Compiled(CustomSpec(b), Job(b).compiler)
    BY <2>1, <2>2, <2>4, OwnIsCustom
  <2>6. is_bz(bd[b].kernel) /\ bd[b].kernel[2] = "custom" /\ \E spec \in OfRequest : bd[b].kernel[3] = Compiled(spec, Compiler)
    BY <2>3, SMT DEF CustomKernel, is_bz, None
  <2> QED
    BY <2>2, <2>5, <2>6 DEF RightKernel
<1> QED
  BY <1>1, CacheInvariant, PTL
=============================================================================
