---------------------------- MODULE MappingVault ----------------------------
(***************************************************************************)
(* lexvault.vault.MappingVault as several worker processes use it: one     *)
(* SQLite file, one connection and one asyncio.Lock per worker, and calls  *)
(* of assign() that run as tasks of a worker's event loop.                 *)
(*                                                                         *)
(* The INSERT OR IGNORE and the SELECT of one attempt are two transactions:*)
(* between them another worker may write, and a worker may die.  The lock  *)
(* orders the tasks of one worker only.                                    *)
(*                                                                         *)
(* A base is a placeholder as derive_placeholder returns it; its slot k is *)
(* the base itself for k = 1 and base-k for k >= 2, so attempt k of the    *)
(* collision loop (n = k+1 in the code) tries slot k.  The primary key is  *)
(* the placeholder text alone, hence the scope column plays no part.       *)
(***************************************************************************)
EXTENDS Integers

CONSTANTS Workers,    \* processes that share the vault file
          Tasks,      \* calls of assign that can be under way at once
          WorkerOf,   \* the worker whose event loop runs a task
          Bases,      \* placeholders before disambiguation
          Originals,  \* texts to be masked
          NoRow,      \* "no row under this key"
          NoTask,     \* "lock not held"
          MaxTries    \* attempts of the collision loop: 998 in the code

ASSUME TriesAssumption == MaxTries \in Nat \ {0}
ASSUME WorkerAssumption == WorkerOf \in [Tasks -> Workers]
ASSUME NoRowAssumption == NoRow \notin Originals
ASSUME NoTaskAssumption == NoTask \notin Tasks

VARIABLES rows,      \* the table mappings: rows[b][k] is the original column
          conn,      \* connection of each worker
          lock,      \* MappingVault._lock of each worker
          pc,        \* where each call stands
          job,       \* base and original a call was made with
          attempt,   \* slot a call tries
          issued     \* history: every placeholder assign has returned

vars == <<rows, conn, lock, pc, job, attempt, issued>>

Slots == 1..MaxTries

Jobs == [base : Bases, original : Originals]

Grants == [base : Bases, slot : Slots, original : Originals]

Running == {"insert", "select"}          \* inside _assign_locked

Pending == {"waiting"} \cup Running      \* a call that has not ended

Ended == {"idle", "granted", "failed", "exhausted"}

TypeOK ==
    /\ rows \in [Bases -> [Slots -> Originals \cup {NoRow}]]
    /\ conn \in [Workers -> {"open", "closed", "down"}]
    /\ lock \in [Workers -> Tasks \cup {NoTask}]
    /\ pc \in [Tasks -> Pending \cup Ended]
    /\ job \in [Tasks -> Jobs]
    /\ attempt \in [Tasks -> Slots]
    /\ issued \subseteq Grants

(* _lookup_sync: the original column of the one row with this key.         *)
LookupSync(b, k) == rows[b][k]

(* Variant: INSERT OR REPLACE.                                             *)
InsertOrReplace(b, k, o) == rows' = [rows EXCEPT ![b][k] = o]

(* INSERT OR IGNORE on the primary key.                                    *)
InsertOrIgnore(b, k, o) ==
    rows' = IF rows[b][k] = NoRow THEN [rows EXCEPT ![b][k] = o] ELSE rows

Base(t) == job[t].base

Original(t) == job[t].original

Init ==
    /\ rows = [b \in Bases |-> [k \in Slots |-> NoRow]]
    /\ conn = [w \in Workers |-> "open"]
    /\ lock = [w \in Workers |-> NoTask]
    /\ pc = [t \in Tasks |-> "idle"]
    /\ job \in [Tasks -> Jobs]
    /\ attempt = [t \in Tasks |-> 1]
    /\ issued = {}

-----------------------------------------------------------------------------

(* A request calls assign; the task then waits for the worker's lock.      *)
Call(t, j) ==
    /\ pc[t] \in Ended
    /\ conn[WorkerOf[t]] # "down"
    /\ pc' = [pc EXCEPT ![t] = "waiting"]
    /\ job' = [job EXCEPT ![t] = j]
    /\ UNCHANGED <<rows, conn, lock, attempt, issued>>

(* Variant: the candidate of the previous call is not reset.               *)
AcquireKeepsCandidate(t) ==
    /\ pc[t] = "waiting"
    /\ lock[WorkerOf[t]] = NoTask
    /\ lock' = [lock EXCEPT ![WorkerOf[t]] = t]
    /\ pc' = [pc EXCEPT ![t] = "insert"]
    /\ UNCHANGED <<rows, conn, job, attempt, issued>>

(* async with self._lock, then candidate = placeholder.                    *)
Acquire(t) ==
    /\ pc[t] = "waiting"
    /\ lock[WorkerOf[t]] = NoTask
    /\ lock' = [lock EXCEPT ![WorkerOf[t]] = t]
    /\ pc' = [pc EXCEPT ![t] = "insert"]
    /\ attempt' = [attempt EXCEPT ![t] = 1]
    /\ UNCHANGED <<rows, conn, job, issued>>

(* The client went away while the task was waiting for the lock.           *)
Cancel(t) ==
    /\ pc[t] = "waiting"
    /\ pc' = [pc EXCEPT ![t] = "idle"]
    /\ UNCHANGED <<rows, conn, lock, job, attempt, issued>>

(* One transaction: the row for the candidate is written unless the key is *)
(* taken.                                                                  *)
Insert(t) ==
    /\ pc[t] = "insert"
    /\ conn[WorkerOf[t]] = "open"
    /\ InsertOrIgnore(Base(t), attempt[t], Original(t))
    /\ pc' = [pc EXCEPT ![t] = "select"]
    /\ UNCHANGED <<conn, lock, job, attempt, issued>>

Release(t) == lock' = [lock EXCEPT ![WorkerOf[t]] = NoTask]

(* Variant: the candidate is returned without comparing what it maps to.   *)
SelectUnchecked(t) ==
    /\ pc[t] = "select"
    /\ issued' = issued \cup {[base |-> Base(t), slot |-> attempt[t],
                               original |-> Original(t)]}
    /\ pc' = [pc EXCEPT ![t] = "granted"]
    /\ Release(t)
    /\ UNCHANGED <<rows, conn, job, attempt>>

(* mapped == original: the candidate is returned.                          *)
SelectOwn(t) ==
    /\ pc[t] = "select"
    /\ LookupSync(Base(t), attempt[t]) = Original(t)
    /\ issued' = issued \cup {[base |-> Base(t), slot |-> attempt[t],
                               original |-> Original(t)]}
    /\ pc' = [pc EXCEPT ![t] = "granted"]
    /\ Release(t)
    /\ UNCHANGED <<rows, conn, job, attempt>>

(* Variant: the loop over disambiguators has no bound.                     *)
SelectOtherUnbounded(t) ==
    /\ pc[t] = "select"
    /\ LookupSync(Base(t), attempt[t]) # Original(t)
    /\ attempt' = [attempt EXCEPT ![t] = @ + 1]
    /\ pc' = [pc EXCEPT ![t] = "insert"]
    /\ UNCHANGED <<rows, conn, lock, job, issued>>

(* The slot holds another original: try the next disambiguator.            *)
SelectOther(t) ==
    /\ pc[t] = "select"
    /\ LookupSync(Base(t), attempt[t]) # Original(t)
    /\ attempt[t] < MaxTries
    /\ attempt' = [attempt EXCEPT ![t] = @ + 1]
    /\ pc' = [pc EXCEPT ![t] = "insert"]
    /\ UNCHANGED <<rows, conn, lock, job, issued>>

(* Variant: the loop gives up one disambiguator too early.                 *)
SelectExhaustedEarly(t) ==
    /\ pc[t] = "select"
    /\ LookupSync(Base(t), attempt[t]) # Original(t)
    /\ attempt[t] = MaxTries - 1
    /\ pc' = [pc EXCEPT ![t] = "exhausted"]
    /\ Release(t)
    /\ UNCHANGED <<rows, conn, job, attempt, issued>>

(* The last disambiguator was refused too: VaultError, fail closed.        *)
SelectExhausted(t) ==
    /\ pc[t] = "select"
    /\ LookupSync(Base(t), attempt[t]) # Original(t)
    /\ attempt[t] = MaxTries
    /\ pc' = [pc EXCEPT ![t] = "exhausted"]
    /\ Release(t)
    /\ UNCHANGED <<rows, conn, job, attempt, issued>>

(* Variant: an error leaves the lock held.                                 *)
DbErrorKeepsLock(t) ==
    /\ pc[t] \in Running
    /\ pc' = [pc EXCEPT ![t] = "failed"]
    /\ UNCHANGED <<rows, conn, lock, job, attempt, issued>>

(* sqlite3.DatabaseError in the INSERT (rolled back) or in the SELECT (the *)
(* row of this attempt stays): VaultError leaves the critical section.     *)
DbError(t) ==
    /\ pc[t] \in Running
    /\ pc' = [pc EXCEPT ![t] = "failed"]
    /\ Release(t)
    /\ UNCHANGED <<rows, conn, job, attempt, issued>>

(* close() takes the lock too, so it never cuts an assign in two.          *)
Close(w) ==
    /\ conn[w] = "open"
    /\ lock[w] = NoTask
    /\ conn' = [conn EXCEPT ![w] = "closed"]
    /\ UNCHANGED <<rows, lock, pc, job, attempt, issued>>

(* A worker process dies: its tasks, its lock and its connection go with   *)
(* it; what it committed stays in the file.                                *)
Crash(w) ==
    /\ conn[w] # "down"
    /\ conn' = [conn EXCEPT ![w] = "down"]
    /\ lock' = [lock EXCEPT ![w] = NoTask]
    /\ pc' = [t \in Tasks |-> IF WorkerOf[t] = w THEN "idle" ELSE pc[t]]
    /\ UNCHANGED <<rows, job, attempt, issued>>

Restart(w) ==
    /\ conn[w] = "down"
    /\ conn' = [conn EXCEPT ![w] = "open"]
    /\ UNCHANGED <<rows, lock, pc, job, attempt, issued>>

(* What a task does by itself once it holds the lock.                      *)
Advance(t) ==
    Insert(t) \/ SelectOwn(t) \/ SelectOther(t) \/ SelectExhausted(t) \/ DbError(t)

Next ==
    \/ \E t \in Tasks, j \in Jobs : Call(t, j)
    \/ \E t \in Tasks : Acquire(t)
    \/ \E t \in Tasks : Cancel(t)
    \/ \E t \in Tasks : Advance(t)
    \/ \E w \in Workers : Close(w)
    \/ \E w \in Workers : Crash(w)
    \/ \E w \in Workers : Restart(w)

(* An event loop runs every ready task again (weak fairness), and          *)
(* asyncio.Lock wakes its waiters first come, first served (strong         *)
(* fairness on Acquire).  Nothing obliges a caller, a crash or a restart.  *)
Fairness ==
    \A t \in Tasks : WF_vars(Advance(t)) /\ SF_vars(Acquire(t))

SafeSpec == Init /\ [][Next]_vars

Spec == SafeSpec /\ Fairness

-----------------------------------------------------------------------------

(* A placeholder that assign returned looks up to the original it was      *)
(* returned for, whatever other workers insert afterwards, whatever fails  *)
(* and whoever restarts (vault.py:146-177, lookup 135-137): the restore    *)
(* hooks depend on nothing else.                                           *)
IssuedResolve ==
    \A i \in issued : LookupSync(i.base, i.slot) = i.original

(* Two calls with the same base and original, made in any workers and at   *)
(* any time, got the same placeholder ("idempotent re-mask" of assign).    *)
OnePlaceholder ==
    \A i, j \in issued :
        (i.base = j.base /\ i.original = j.original) => i.slot = j.slot

(* "placeholder collision exhausted" is raised only when every candidate   *)
(* really belongs to another original: an error never hides a free slot or *)
(* a slot this original already owns (vault.py:158-177).                   *)
ExhaustedIsFull ==
    \A t \in Tasks : pc[t] = "exhausted" =>
        \A k \in Slots : LookupSync(Base(t), k) \notin {NoRow, Original(t)}

(* assign always ends: it returns a placeholder, raises, is cancelled or   *)
(* dies with its worker; no call waits for the lock for ever.              *)
EveryCallEnds ==
    \A t \in Tasks : pc[t] \in Pending ~> pc[t] \in Ended

-----------------------------------------------------------------------------

(* Why they hold.  Slots of a base are filled in order ...                 *)
Dense ==
    \A b \in Bases, k \in Slots : rows[b][k] # NoRow =>
        \A l \in Slots : l < k => rows[b][l] # NoRow

(* ... no original fills two of them ...                                   *)
Distinct ==
    \A b \in Bases, k, l \in Slots :
        (rows[b][k] # NoRow /\ rows[b][k] = rows[b][l]) => k = l

(* ... because a call tries a slot only after seeing another original in   *)
(* every slot before it, and rows are never changed ...                    *)
Scanned ==
    \A t \in Tasks : pc[t] \in Running =>
        \A l \in Slots : l < attempt[t] =>
            rows[Base(t)][l] \notin {NoRow, Original(t)}

(* ... and its SELECT never finds the slot it just tried empty.            *)
SelectFindsRow ==
    \A t \in Tasks : pc[t] = "select" => rows[Base(t)][attempt[t]] # NoRow

(* The inductive invariant.  It says nothing of the locks: one INSERT OR   *)
(* IGNORE is atomic in the file, which is all the argument needs.          *)
IInv ==
    /\ TypeOK
    /\ Dense
    /\ Distinct
    /\ Scanned
    /\ SelectFindsRow
    /\ IssuedResolve
    /\ ExhaustedIsFull

-----------------------------------------------------------------------------

(* The table read as the set of grants of the abstract store.              *)
granted ==
    {g \in Grants : rows[g.base][g.slot] = g.original}

Store == INSTANCE PseudonymStore WITH
             Bases     <- Bases,
             Originals <- Originals,
             MaxTries  <- MaxTries,
             granted   <- granted,
             issued    <- issued

(* The vault implements the store: every transaction of every worker is    *)
(* one grant of the next free slot, one answer, or nothing at all.         *)
Refines == Store!StoreSpec
=============================================================================
