------------------------- MODULE HcsSessionsProofs -------------------------
(***************************************************************************)
(* The session lock is a lease: for any number of processes and sessions   *)
(* recovery never disturbs a live session or another recovery, and no file *)
(* is removed that still holds something to recover.                       *)
(***************************************************************************)
EXTENDS HcsSessions, TLAPS

USE DEF Goto, Continue, Unlock, dbVars

\* The conjunction that every step preserves.
IInv == TypeOK /\ \A q \in Proc : LeaseInv(q)

\* The id a new session gets is one that nothing refers to.
LEMMA FreshId ==
  ASSUME NEW q \in Proc, Open(q)
  PROVE  \E s \in Session : Unused(s) /\ own' = [own EXCEPT ![q] = s]
<1>1. \E s \in Session : Unused(s)
  BY DEF Open
<1>2. Unused(CHOOSE s \in Session : Unused(s))
      /\ (CHOOSE s \in Session : Unused(s)) \in Session
  BY <1>1, Zenon
<1>3. own' = [own EXCEPT ![q] = CHOOSE s \in Session : Unused(s)]
  BY DEF Open
<1>4. QED
  BY <1>2, <1>3, Zenon

\* An update of a Boolean function is one.
LEMMA BooleanUpdates ==
  ASSUME TypeOK, NEW s \in Session, NEW b \in BOOLEAN
  PROVE  [inventory EXCEPT ![s] = b] \in [Session -> BOOLEAN]
  BY Zenon DEF TypeOK

\* Each step of one process preserves the types.
LEMMA StepType ==
  ASSUME TypeOK, NEW q \in Proc,
         Open(q) \/ Step(q) \/ Work(q) \/ Close(q) \/ Retry(q) \/ Fault(q)
  PROVE  TypeOK'
<1>. USE SessionAssumption DEF TypeOK, FileState, Stage
<1>1. CASE Open(q)
  <2>1. PICK s \in Session : own' = [own EXCEPT ![q] = s]
    BY <1>1, FreshId
  <2>2. QED
    BY <1>1, <2>1 DEF Open
<1>2. CASE session_paths(q)
  BY <1>2 DEF session_paths
<1>3. CASE try_open_existing(q)
  BY <1>3 DEF try_open_existing, SkipLocked, OpenFails
<1>4. CASE RecoverSession(q)
  <2>1. path[q] \in Session
    BY <1>4 DEF RecoverSession
  <2>2. inventory' \in [Session -> BOOLEAN]
    BY <1>4, <2>1, BooleanUpdates DEF RecoverSession
  <2>3. record' \in [Session -> {"none", "pending", "terminal"}]
    BY <1>4, <2>1 DEF RecoverSession
  <2>4. QED
    BY <1>4, <2>1, <2>2, <2>3 DEF RecoverSession
<1>5. CASE Verdict(q)
  BY <1>5 DEF Verdict
<1>6. CASE RemoveFile(q)
  <2>1. path[q] \in Session
    BY <1>6 DEF RemoveFile
  <2>2. inventory' \in [Session -> BOOLEAN]
    BY <1>6, <2>1, BooleanUpdates DEF RemoveFile
  <2>3. record' \in [Session -> {"none", "pending", "terminal"}]
    BY <1>6, <2>1 DEF RemoveFile
  <2>4. QED
    BY <1>6, <2>1, <2>2, <2>3 DEF RemoveFile, OpenFails
<1>7. CASE CreateDatabase(q)
  BY <1>7 DEF CreateDatabase
<1>8. CASE initialize_database(q)
  BY <1>8 DEF initialize_database
<1>9. CASE WriteSession(q)
  BY <1>9 DEF WriteSession
<1>10. CASE Work(q)
  <2>1. own[q] \in Session
    BY <1>10 DEF Work
  <2>2. inventory' \in [Session -> BOOLEAN]
    BY <1>10, <2>1, BooleanUpdates DEF Work
  <2>3. record' \in [Session -> {"none", "pending", "terminal"}]
    BY <1>10, <2>1 DEF Work
  <2>4. QED
    BY <1>10, <2>1, <2>2, <2>3 DEF Work
<1>11. CASE Close(q)
  BY <1>11 DEF Close
<1>12. CASE Retry(q)
  BY <1>12 DEF Retry
<1>13. CASE Fault(q)
  BY <1>13 DEF Fault, OpenFails
<1>14. QED
  BY <1>1, <1>2, <1>3, <1>4, <1>5, <1>6, <1>7, <1>8, <1>9, <1>10, <1>11,
     <1>12, <1>13 DEF Step

\* Each step of process q preserves the lease invariant of every process p.
LEMMA StepLease ==
  ASSUME IInv, TypeOK', NEW q \in Proc, NEW p \in Proc,
         Open(q) \/ Step(q) \/ Work(q) \/ Close(q) \/ Retry(q) \/ Fault(q)
  PROVE  LeaseInv(p)'
<1>. USE SessionAssumption DEF IInv, TypeOK, FileState, Stage, LeaseInv, Creating,
         Retained
<1>1. CASE Open(q)
  <2>1. PICK s \in Session : Unused(s) /\ own' = [own EXCEPT ![q] = s]
    BY <1>1, FreshId
  <2>2. QED
    BY <1>1, <2>1, SMTT(20) DEF Open, Unused
<1>2. CASE session_paths(q)
  BY <1>2 DEF session_paths
<1>3. CASE try_open_existing(q)
  <2>1. PICK s \in todo[q] :
          \/ SkipLocked(q, s) /\ UNCHANGED <<lock, pc, own, path>>
          \/ OpenFails(q)
          \/ /\ lock[s] = None /\ lock' = [lock EXCEPT ![s] = q]
             /\ path' = [path EXCEPT ![q] = s]
             /\ todo' = [todo EXCEPT ![q] = @ \ {s}]
             /\ pc' = [pc EXCEPT ![q] = "recover"]
             /\ UNCHANGED own
    BY <1>3, Zenon DEF try_open_existing, AlreadyOpen, Goto
  <2>2. UNCHANGED dbVars /\ pc[q] = "reconcile" /\ s \in Session
    BY <1>3, <2>1 DEF try_open_existing
  <2>3. CASE SkipLocked(q, s) /\ UNCHANGED <<lock, pc, own, path>>
    BY <2>2, <2>3 DEF SkipLocked, dbVars
  <2>4. CASE OpenFails(q)
    BY <2>2, <2>4 DEF OpenFails, dbVars
  <2>5. CASE /\ lock[s] = None /\ lock' = [lock EXCEPT ![s] = q]
             /\ path' = [path EXCEPT ![q] = s]
             /\ todo' = [todo EXCEPT ![q] = @ \ {s}]
             /\ pc' = [pc EXCEPT ![q] = "recover"]
             /\ UNCHANGED own
    BY <2>1, <2>2, <2>5 DEF dbVars
  <2>6. QED
    BY <2>1, <2>3, <2>4, <2>5
<1>4. CASE RecoverSession(q)
  BY <1>4 DEF RecoverSession
<1>5. CASE Verdict(q)
  BY <1>5 DEF Verdict
<1>6. CASE RemoveFile(q)
  BY <1>6, SMTT(20) DEF RemoveFile, OpenFails
<1>7. CASE CreateDatabase(q)
  BY <1>7 DEF CreateDatabase
<1>8. CASE initialize_database(q)
  BY <1>8 DEF initialize_database
<1>9. CASE WriteSession(q)
  BY <1>9 DEF WriteSession
<1>10. CASE Work(q)
  BY <1>10 DEF Work
<1>11. CASE Close(q)
  BY <1>11 DEF Close
<1>12. CASE Retry(q)
  BY <1>12 DEF Retry
<1>13. CASE Fault(q)
  BY <1>13 DEF Fault, OpenFails
<1>14. QED
  BY <1>1, <1>2, <1>3, <1>4, <1>5, <1>6, <1>7, <1>8, <1>9, <1>10, <1>11,
     <1>12, <1>13 DEF Step

\* The initial state satisfies the invariant.
LEMMA InitLease == Init => IInv
  BY SessionAssumption DEF Init, IInv, TypeOK, FileState, Stage, LeaseInv,
     Creating, Retained

\* Every step preserves the invariant.
LEMMA NextLease == IInv /\ [Next]_vars => IInv'
<1>1. ASSUME IInv, Next PROVE IInv'
  <2>1. PICK q \in Proc :
          Open(q) \/ Step(q) \/ Work(q) \/ Close(q) \/ Retry(q) \/ Fault(q)
    BY <1>1 DEF Next
  <2>2. TypeOK'
    BY <1>1, <2>1, StepType DEF IInv
  <2>3. \A p \in Proc : LeaseInv(p)'
    BY <1>1, <2>1, <2>2, StepLease
  <2>4. QED
    BY <2>2, <2>3 DEF IInv
<1>2. ASSUME IInv, UNCHANGED vars PROVE IInv'
  BY <1>2 DEF IInv, TypeOK, LeaseInv, Retained, vars
<1>3. QED
  BY <1>1, <1>2

\* The invariant holds in every reachable state.
THEOREM LeaseInvariant == Spec => []IInv
  BY InitLease, NextLease, PTL DEF Spec

\* Locks, files, walks and places stay what Session::open makes of them.
THEOREM TypeCorrect == Spec => []TypeOK
<1>1. IInv => TypeOK
  BY DEF IInv
<1>2. QED
  BY <1>1, LeaseInvariant, PTL

\* No session is recovered while its process lives, and none by two processes
\* at once (Database::open refuses a locked file).
THEOREM RecoveryIsExclusive == Spec => []RecoversAlone
<1>1. IInv => RecoversAlone
  BY SessionAssumption DEF IInv, LeaseInv, TypeOK, RecoversAlone, Recovering
<1>2. QED
  BY <1>1, LeaseInvariant, PTL

\* Every step that removes a session file removes one that holds nothing and
\* belongs to nobody (remove_file after drop(stale)).
LEMMA RemovalStep ==
  ASSUME IInv, Next, NEW s \in Session, file[s] # "absent", file'[s] = "absent"
  PROVE  /\ ~Retained(s)
         /\ \A q \in Proc : ~(own[q] = s /\ pc[q] \in Creating)
<1>1. PICK q \in Proc :
        Open(q) \/ Step(q) \/ Work(q) \/ Close(q) \/ Retry(q) \/ Fault(q)
  BY DEF Next
<1>2. pc[q] = "remove_file" /\ path[q] = s
  BY <1>1, SessionAssumption
  DEF Open, Step, session_paths, try_open_existing, RecoverSession, Verdict,
      RemoveFile, CreateDatabase, initialize_database, WriteSession, Work,
      Close, Retry, Fault, IInv, TypeOK
<1>3. QED
  BY <1>2, SessionAssumption DEF IInv, LeaseInv

\* A session file is only removed once nothing in it is left to recover.
THEOREM CollectionHonest == Spec => CollectedSessionHeldNothing
<1>1. IInv /\ [Next]_vars =>
        [\A s \in Session : file[s] # "absent" /\ file'[s] = "absent" =>
           /\ ~Retained(s)
           /\ \A q \in Proc : ~(own[q] = s /\ pc[q] \in Creating)]_vars
  BY RemovalStep DEF vars
<1>2. QED
  BY <1>1, LeaseInvariant, PTL DEF Spec, CollectedSessionHeldNothing

=============================================================================
