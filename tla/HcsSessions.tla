---------------------------- MODULE HcsSessions ----------------------------
(***************************************************************************)
(* Session databases and the recovery of dead sessions (hypervisor-hcs:    *)
(* Session::open and reconcile_stale_sessions in vm.rs, SessionJournal in  *)
(* journal.rs).                                                            *)
(*                                                                         *)
(* Every session has a redb file of its own; the exclusive redb lock on it *)
(* is the session's lease, held from Database::create until the journal is *)
(* dropped or the process dies.  Opening a session first walks a snapshot  *)
(* of the files in the state root and recovers each one whose lock it can  *)
(* take; the code sorts the snapshot, and nothing here depends on the      *)
(* order.  The cleanup of one record is module HcsVm; here a pass only has *)
(* its possible outcomes.                                                  *)
(*                                                                         *)
(* A session id stands for a fresh UUID: it is handed out again only when  *)
(* nothing refers to it any more.                                          *)
(***************************************************************************)
EXTENDS Naturals, FiniteSets

CONSTANTS
    Proc,         \* processes, each with at most one session at a time
    Session,      \* session ids, in use or free
    None,         \* no process, no session
    MaxRetained,  \* bound: sessions with something left to recover
    MaxFaults     \* bound: crashes, failed commits and failed removals

ASSUME SessionAssumption ==
    /\ None \notin Proc /\ None \notin Session
    /\ MaxRetained \in Nat /\ MaxFaults \in Nat

VARIABLES
    file,       \* a session's database file
    lock,       \* the process holding the redb lock of a session's file
    record,     \* the VM record in it
    inventory,  \* does it hold an abandoned inventory
    pc,
    own,        \* the session a process opens or has opened
    todo,       \* the rest of its snapshot of session files
    path,       \* the session file it is recovering
    faults

vars == <<file, lock, record, inventory, pc, own, todo, path, faults>>
dbVars == <<file, record, inventory>>

\* What a reader finds: no file, no schema, a schema without a session record,
\* or a database that try_open_existing accepts.
FileState == {"absent", "empty", "schema", "ready"}

Stage == {"idle", "list", "reconcile", "recover", "verdict", "remove_file",
          "initialize", "write_session", "open", "failed"}

Init ==
    /\ file = [s \in Session |-> "absent"]
    /\ lock = [s \in Session |-> None]
    /\ record = [s \in Session |-> "none"]
    /\ inventory = [s \in Session |-> FALSE]
    /\ pc = [q \in Proc |-> "idle"]
    /\ own = [q \in Proc |-> None]
    /\ todo = [q \in Proc |-> {}]
    /\ path = [q \in Proc |-> None]
    /\ faults = 0

Goto(q, stage) == pc' = [pc EXCEPT ![q] = stage]

\* The walk goes on, still holding on to the file it has dealt with.
ContinueAtPath(q) == Goto(q, "reconcile") /\ UNCHANGED path

\* Done with the file q is at.
Continue(q) == Goto(q, "reconcile") /\ path' = [path EXCEPT ![q] = None]

\* Dropping a journal closes its database, which releases the lock.
Unlock(q) == lock' = [s \in Session |-> IF lock[s] = q THEN None ELSE lock[s]]

\* Session::open returns an error: the journal it was using is dropped.
OpenFails(q) ==
    /\ Goto(q, "failed")
    /\ todo' = [todo EXCEPT ![q] = {}]
    /\ path' = [path EXCEPT ![q] = None]
    /\ own' = [own EXCEPT ![q] = None]
    /\ Unlock(q)

-----------------------------------------------------------------------------
\* Ids nothing refers to: a new UUID is one of them.
Unused(s) ==
    /\ file[s] = "absent" /\ lock[s] = None
    /\ \A q \in Proc : own[q] # s /\ path[q] # s /\ s \notin todo[q]

\* Session::open begins.
Open(q) ==
    /\ pc[q] = "idle"
    /\ \E s \in Session : Unused(s)
    /\ own' = [own EXCEPT ![q] = CHOOSE s \in Session : Unused(s)]
    /\ Goto(q, "list")
    /\ UNCHANGED <<dbVars, lock, todo, path, faults>>

\* The snapshot: every session file but the opener's own.
session_paths(q) ==
    /\ pc[q] = "list"
    /\ todo' = [todo EXCEPT ![q] = {s \in Session : file[s] # "absent" /\ s # own[q]}]
    /\ Goto(q, "reconcile")
    /\ UNCHANGED <<dbVars, lock, own, path, faults>>

\* The lock of a live session not respected.
LockIgnored(s) == FALSE

\* Database::open answers DatabaseAlreadyOpen.
AlreadyOpen(s) == lock[s] # None

\* A live session ends the walk.
StopAtLocked(q, s) == todo' = [todo EXCEPT ![q] = {}]

\* A live session is passed over.
SkipLocked(q, s) == todo' = [todo EXCEPT ![q] = @ \ {s}]

try_open_existing(q) ==
    /\ pc[q] = "reconcile"
    /\ \E s \in todo[q] :
         \/ /\ file[s] # "absent" /\ AlreadyOpen(s)
            /\ SkipLocked(q, s)
            /\ UNCHANGED <<lock, pc, own, path>>
         \/ /\ file[s] = "absent" \/ (file[s] # "ready" /\ ~AlreadyOpen(s))
            /\ OpenFails(q)
         \/ /\ file[s] = "ready" /\ ~AlreadyOpen(s)
            /\ lock' = [lock EXCEPT ![s] = q]
            /\ path' = [path EXCEPT ![q] = s]
            /\ todo' = [todo EXCEPT ![q] = @ \ {s}]
            /\ Goto(q, "recover")
            /\ UNCHANGED own
    /\ UNCHANGED <<dbVars, faults>>

\* One pass over the record: finished, to be retried, or abandoned; a terminal
\* record is just removed.
RecoverSession(q) ==
    LET s == path[q] IN
    /\ pc[q] = "recover"
    /\ \/ /\ record[s] = "pending"
          /\ \/ /\ record' = [record EXCEPT ![s] = "none"]
                /\ inventory' = [inventory EXCEPT ![s] = FALSE]
             \/ UNCHANGED <<record, inventory>>
             \/ /\ record' = [record EXCEPT ![s] = "terminal"]
                /\ inventory' = [inventory EXCEPT ![s] = TRUE]
       \/ /\ record[s] # "pending"
          /\ record' = [record EXCEPT ![s] = "none"]
          /\ UNCHANGED inventory
    /\ Goto(q, "verdict")
    /\ UNCHANGED <<file, lock, own, todo, path, faults>>

Retained(s) == record[s] = "pending" \/ inventory[s]

\* The verdict reached from the record alone.
VerdictForRecord(q) ==
    /\ pc[q] = "verdict"
    /\ Unlock(q)
    /\ \/ record[path[q]] = "pending" /\ Continue(q)
       \/ record[path[q]] # "pending" /\ Goto(q, "remove_file") /\ UNCHANGED path
    /\ UNCHANGED <<dbVars, own, todo, faults>>

\* Does the file have to stay?  drop(stale) releases the lock either way.
Verdict(q) ==
    /\ pc[q] = "verdict"
    /\ Unlock(q)
    /\ \/ Retained(path[q]) /\ Continue(q)
       \/ ~Retained(path[q]) /\ Goto(q, "remove_file") /\ UNCHANGED path
    /\ UNCHANGED <<dbVars, own, todo, faults>>

\* The file is removed by name after its lock was released; an open handle of
\* another process does not prevent it, a missing file is an error.
RemoveFile(q) ==
    LET s == path[q] IN
    /\ pc[q] = "remove_file"
    /\ \/ /\ file[s] # "absent"
          /\ file' = [file EXCEPT ![s] = "absent"]
          /\ record' = [record EXCEPT ![s] = "none"]
          /\ inventory' = [inventory EXCEPT ![s] = FALSE]
          /\ Continue(q)
          /\ UNCHANGED <<lock, own, todo>>
       \/ /\ file[s] = "absent"
          /\ OpenFails(q)
          /\ UNCHANGED dbVars
    /\ UNCHANGED faults

\* create_current: Database::create takes the lock with the file.
CreateDatabase(q) ==
    /\ pc[q] = "reconcile" /\ todo[q] = {}
    /\ file' = [file EXCEPT ![own[q]] = "empty"]
    /\ lock' = [lock EXCEPT ![own[q]] = q]
    /\ Goto(q, "initialize")
    /\ UNCHANGED <<record, inventory, own, todo, path, faults>>

initialize_database(q) ==
    /\ pc[q] = "initialize"
    /\ file' = [file EXCEPT ![own[q]] = "schema"]
    /\ Goto(q, "write_session")
    /\ UNCHANGED <<lock, record, inventory, own, todo, path, faults>>

WriteSession(q) ==
    /\ pc[q] = "write_session"
    /\ file' = [file EXCEPT ![own[q]] = "ready"]
    /\ Goto(q, "open")
    /\ UNCHANGED <<lock, record, inventory, own, todo, path, faults>>

\* The live session works on its own record: a launch puts it, a cleanup pass
\* removes it, abandons it, or leaves it pending.
Work(q) ==
    LET s == own[q] IN
    /\ pc[q] = "open"
    /\ \/ /\ record[s] = "none"
          /\ Cardinality({x \in Session : Retained(x)}) < MaxRetained
          /\ record' = [record EXCEPT ![s] = "pending"]
          /\ UNCHANGED inventory
       \/ /\ record[s] = "pending"
          /\ record' = [record EXCEPT ![s] = "none"]
          /\ inventory' = [inventory EXCEPT ![s] = FALSE]
       \/ /\ record[s] = "pending"
          /\ record' = [record EXCEPT ![s] = "terminal"]
          /\ inventory' = [inventory EXCEPT ![s] = TRUE]
    /\ UNCHANGED <<file, lock, pc, own, todo, path, faults>>

\* The session and its machines are dropped, or the process ends: the file
\* stays for a later session to collect.
Close(q) ==
    /\ pc[q] = "open"
    /\ own' = [own EXCEPT ![q] = None]
    /\ Goto(q, "idle")
    /\ Unlock(q)
    /\ UNCHANGED <<dbVars, todo, path, faults>>

\* The caller of a failed open may try again.
Retry(q) ==
    /\ pc[q] = "failed"
    /\ Goto(q, "idle")
    /\ UNCHANGED <<dbVars, lock, own, todo, path, faults>>

\* A crash, or an I/O error that Session::open reports.
Fault(q) ==
    /\ faults < MaxFaults /\ pc[q] \notin {"idle", "failed"}
    /\ faults' = faults + 1
    /\ OpenFails(q)
    /\ UNCHANGED dbVars

Step(q) ==
    \/ session_paths(q) \/ try_open_existing(q) \/ RecoverSession(q)
    \/ Verdict(q) \/ RemoveFile(q)
    \/ CreateDatabase(q) \/ initialize_database(q) \/ WriteSession(q)

Next == \E q \in Proc :
          Open(q) \/ Step(q) \/ Work(q) \/ Close(q) \/ Retry(q) \/ Fault(q)

Spec == Init /\ [][Next]_vars

\* An open runs to its end, a failed open is retried, and sessions keep being
\* opened.
Fairness == \A q \in Proc :
              WF_vars(Open(q)) /\ WF_vars(Step(q)) /\ WF_vars(Retry(q))

FairSpec == Spec /\ Fairness

-----------------------------------------------------------------------------
(* The inductive invariant behind the lease theorems                       *)

Creating == {"initialize", "write_session", "open"}

\* A process that created its database, or is recovering another's, holds its
\* lock; an id still being opened has no file and nobody knows it; a file about
\* to be removed belongs to nobody and holds nothing.
LeaseInv(q) ==
    /\ pc[q] \in Creating => lock[own[q]] = q
    /\ pc[q] \in {"recover", "verdict"} => lock[path[q]] = q
    /\ own[q] # None /\ pc[q] \notin Creating => file[own[q]] = "absent"
    /\ \A r \in Proc :
         /\ own[q] # None => path[r] # own[q]
         /\ own[q] # None /\ pc[q] \notin Creating => own[q] \notin todo[r]
         /\ own[q] # None /\ r # q => own[r] # own[q]
    /\ pc[q] = "remove_file" => ~Retained(path[q])

-----------------------------------------------------------------------------
(* Properties                                                              *)

\* Types; a process has a session id from Session::open until it ends, and a
\* path of its walk in hand exactly while it works on that path.
TypeOK ==
    /\ file \in [Session -> FileState]
    /\ lock \in [Session -> Proc \cup {None}]
    /\ record \in [Session -> {"none", "pending", "terminal"}]
    /\ inventory \in [Session -> BOOLEAN]
    /\ pc \in [Proc -> Stage]
    /\ own \in [Proc -> Session \cup {None}]
    /\ todo \in [Proc -> SUBSET Session]
    /\ path \in [Proc -> Session \cup {None}]
    /\ faults \in 0..MaxFaults
    /\ \A q \in Proc :
         /\ (own[q] = None) = (pc[q] \in {"idle", "failed"})
         /\ (path[q] # None) = (pc[q] \in {"recover", "verdict", "remove_file"})

\* q is inside the cleanup of session s.
Recovering(q, s) == pc[q] \in {"recover", "verdict"} /\ path[q] = s

\* Nobody recovers a session while its own process is alive, and no two
\* processes recover the same session at once (the redb lock as lease).
RecoversAlone ==
    \A q, r \in Proc, s \in Session :
      Recovering(q, s) /\ r # q =>
        ~Recovering(r, s) /\ ~(own[r] = s /\ pc[r] \in Creating)

\* A session file disappears only when it holds no pending record and no
\* abandoned inventory, and its process is gone, although the file is removed
\* by name after drop(stale) gave up the lock under which that was found out.
CollectedSessionHeldNothing ==
    [][\A s \in Session : file[s] # "absent" /\ file'[s] = "absent" =>
         /\ ~Retained(s)
         /\ \A q \in Proc : ~(own[q] = s /\ pc[q] \in Creating)]_vars

\* A database its process left before the session record was committed.
Damaged(s) == file[s] \in {"empty", "schema"} /\ lock[s] = None

\* A session file that was left with nothing to recover does not stay for ever
\* when sessions keep being opened, whatever sessions are alive meanwhile; only
\* a damaged file in the state root, which fails every later Session::open with
\* it, can prevent that.
DeadSessionsCollected ==
    \A s \in Session :
      (file[s] = "ready" /\ ~Retained(s) /\ \A q \in Proc : own[q] # s)
        ~> (file[s] = "absent" \/ \E x \in Session : Damaged(x))

\* What the documentation of Session promises: "The redb writer lock protects
\* live sessions, so multiple sessions may be opened concurrently (each gets its
\* own reconcile pass)".
ConcurrentOpensSucceed == \A q \in Proc : pc[q] # "failed"

=============================================================================
