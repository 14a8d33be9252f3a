------------------------- MODULE MappingVaultProofs -------------------------
(***************************************************************************)
(* The safety of the mapping vault for any number of workers, tasks, bases,*)
(* originals and attempts.                                                 *)
(***************************************************************************)
EXTENDS MappingVault, TLAPS

USE TriesAssumption, WorkerAssumption, NoRowAssumption, NoTaskAssumption

(* Rows are written once: no step changes or removes a row (INSERT OR      *)
(* IGNORE is the only statement that writes, vault.py:161-166).            *)
RowsKept ==
    \A b \in Bases, k \in Slots : rows[b][k] # NoRow => rows'[b][k] = rows[b][k]

(* A task's critical section leaves the lock free or held by a task.       *)
LEMMA ReleaseType ==
    ASSUME TypeOK, NEW t \in Tasks, Release(t)
    PROVE  lock' \in [Workers -> Tasks \cup {NoTask}]
BY DEF TypeOK, Release

(* Type correctness is inductive on its own.                               *)
LEMMA TypeStep == TypeOK /\ [Next]_vars => TypeOK'
<1> SUFFICES ASSUME TypeOK, [Next]_vars PROVE TypeOK'
  OBVIOUS
<1> USE DEF Slots, Pending, Running, Ended
<1>1. ASSUME NEW t \in Tasks, NEW j \in Jobs, Call(t, j) PROVE TypeOK'
  BY <1>1 DEF TypeOK, Call
<1>2. ASSUME NEW t \in Tasks, Acquire(t) PROVE TypeOK'
  BY <1>2 DEF TypeOK, Acquire
<1>3. ASSUME NEW t \in Tasks, Cancel(t) PROVE TypeOK'
  BY <1>3 DEF TypeOK, Cancel
<1>4. ASSUME NEW t \in Tasks, Insert(t) PROVE TypeOK'
  <2>1. job[t] \in Jobs /\ attempt[t] \in Slots
    BY DEF TypeOK
  <2>2. Base(t) \in Bases /\ Original(t) \in Originals
    BY <2>1 DEF Jobs, Base, Original
  <2>3. rows' \in [Bases -> [Slots -> Originals \cup {NoRow}]]
    BY <1>4, <2>1, <2>2 DEF TypeOK, Insert, InsertOrIgnore
  <2> QED
    BY <1>4, <2>3 DEF TypeOK, Insert
<1>5. ASSUME NEW t \in Tasks, SelectOwn(t) PROVE TypeOK'
  <2>1. job[t] \in Jobs /\ attempt[t] \in Slots
    BY DEF TypeOK
  <2>2. [base |-> Base(t), slot |-> attempt[t], original |-> Original(t)] \in Grants
    BY <2>1 DEF Jobs, Base, Original, Grants
  <2> QED
    BY <1>5, <2>2, ReleaseType DEF TypeOK, SelectOwn
<1>6. ASSUME NEW t \in Tasks, SelectOther(t) PROVE TypeOK'
  BY <1>6 DEF TypeOK, SelectOther
<1>7. ASSUME NEW t \in Tasks, SelectExhausted(t) PROVE TypeOK'
  BY <1>7, ReleaseType DEF TypeOK, SelectExhausted
<1>8. ASSUME NEW t \in Tasks, DbError(t) PROVE TypeOK'
  BY <1>8, ReleaseType DEF TypeOK, DbError
<1>9. ASSUME NEW w \in Workers, Close(w) PROVE TypeOK'
  BY <1>9 DEF TypeOK, Close
<1>10. ASSUME NEW w \in Workers, Crash(w) PROVE TypeOK'
  BY <1>10 DEF TypeOK, Crash
<1>11. ASSUME NEW w \in Workers, Restart(w) PROVE TypeOK'
  BY <1>11 DEF TypeOK, Restart
<1>12. CASE UNCHANGED vars
  BY <1>12 DEF TypeOK, vars
<1> QED
  BY <1>1, <1>2, <1>3, <1>4, <1>5, <1>6, <1>7, <1>8, <1>9, <1>10, <1>11, <1>12
     DEF Next, Advance

LEMMA TypeInit == Init => TypeOK
BY DEF Init, TypeOK, Slots, Pending, Running, Ended

(* Every state of the vault is well typed: in particular no call ever tries*)
(* a slot outside the bounded collision loop (vault.py:158).               *)
THEOREM TypeCorrect == SafeSpec => []TypeOK
<1>1. QED
  BY TypeInit, TypeStep, PTL DEF SafeSpec

-----------------------------------------------------------------------------

(* What one INSERT OR IGNORE does to the table, given that the caller saw  *)
(* other originals in all the slots before the one it tries.               *)
LEMMA InsertEffect ==
    ASSUME TypeOK, NEW b \in Bases, NEW k \in Slots, NEW o \in Originals,
           InsertOrIgnore(b, k, o)
    PROVE  /\ rows' \in [Bases -> [Slots -> Originals \cup {NoRow}]]
           /\ RowsKept
           /\ rows'[b][k] # NoRow
           /\ \A c \in Bases, l \in Slots :
                  <<c, l>> # <<b, k>> => rows'[c][l] = rows[c][l]
           /\ rows[b][k] = NoRow => rows'[b][k] = o
BY DEF TypeOK, InsertOrIgnore, RowsKept

LEMMA InsertKeepsDense ==
    ASSUME TypeOK, Dense, NEW b \in Bases, NEW k \in Slots, NEW o \in Originals,
           InsertOrIgnore(b, k, o),
           \A l \in Slots : l < k => rows[b][l] \notin {NoRow, o}
    PROVE  Dense'
<1> SUFFICES ASSUME NEW c \in Bases, NEW m \in Slots, NEW l \in Slots,
                    rows'[c][m] # NoRow, l < m
             PROVE  rows'[c][l] # NoRow
  BY DEF Dense
<1>1. CASE rows[c][m] # NoRow
  BY <1>1, InsertEffect DEF Dense, RowsKept
<1>2. CASE rows[c][m] = NoRow
  <2>1. c = b /\ m = k
    BY <1>2, InsertEffect
  <2>2. rows[c][l] # NoRow
    BY <2>1
  <2> QED
    BY <2>2, InsertEffect DEF RowsKept
<1> QED
  BY <1>1, <1>2

LEMMA InsertKeepsDistinct ==
    ASSUME TypeOK, Dense, Distinct,
           NEW b \in Bases, NEW k \in Slots, NEW o \in Originals,
           InsertOrIgnore(b, k, o),
           \A l \in Slots : l < k => rows[b][l] \notin {NoRow, o}
    PROVE  Distinct'
<1> SUFFICES ASSUME NEW c \in Bases, NEW m \in Slots, NEW l \in Slots,
                    rows'[c][m] # NoRow, rows'[c][m] = rows'[c][l], m # l
             PROVE  FALSE
  BY DEF Distinct
<1> DEFINE Fresh(x) == c = b /\ x = k /\ rows[b][k] = NoRow
<1>1. ~Fresh(m) => rows[c][m] = rows'[c][m]
  BY InsertEffect DEF RowsKept
<1>2. ~Fresh(l) => rows[c][l] = rows'[c][l]
  BY InsertEffect DEF RowsKept
<1>3. ASSUME NEW x \in Slots, rows[b][k] = NoRow, x # k PROVE rows[b][x] # o
  <2>1. CASE x < k
    BY <2>1
  <2>2. CASE x > k
    BY <1>3, <2>2, NoRowAssumption DEF Dense, Slots
  <2> QED
    BY <1>3, <2>1, <2>2 DEF Slots
<1>4. CASE Fresh(m)
  BY <1>2, <1>3, <1>4, InsertEffect
<1>5. CASE Fresh(l)
  BY <1>1, <1>3, <1>5, InsertEffect
<1>6. CASE ~Fresh(m) /\ ~Fresh(l)
  BY <1>1, <1>2, <1>6 DEF Distinct
<1> QED
  BY <1>4, <1>5, <1>6

(* The parts of the invariant about calls and history only mention rows    *)
(* that are there, so a step that leaves the calls alone keeps them.       *)
LEMMA IInvStep == IInv /\ [Next]_vars => IInv'
<1> SUFFICES ASSUME IInv, [Next]_vars PROVE IInv'
  OBVIOUS
<1>t. TypeOK /\ TypeOK'
  BY TypeStep DEF IInv
<1>j. \A t \in Tasks : /\ Base(t) \in Bases /\ Original(t) \in Originals
                       /\ attempt[t] \in Slots
  BY <1>t DEF TypeOK, Jobs, Base, Original
<1>1. ASSUME NEW t \in Tasks, NEW j \in Jobs, Call(t, j) PROVE IInv'
  <2> USE <1>1 DEF Call
  <2>1. Dense' /\ Distinct' /\ IssuedResolve'
    BY DEF IInv, Dense, Distinct, IssuedResolve, LookupSync
  <2>2. \A s \in Tasks : pc'[s] \in Running \cup {"exhausted"} =>
            s # t /\ pc'[s] = pc[s] /\ job'[s] = job[s]
    BY <1>t DEF TypeOK, Running
  <2>3. Scanned' /\ SelectFindsRow' /\ ExhaustedIsFull'
    BY <2>2 DEF IInv, Scanned, SelectFindsRow, ExhaustedIsFull, LookupSync,
                Base, Original, Running
  <2> QED
    BY <1>t, <2>1, <2>3 DEF IInv
<1>2. ASSUME NEW t \in Tasks, Acquire(t) PROVE IInv'
  <2> USE <1>2 DEF Acquire
  <2>1. Dense' /\ Distinct' /\ IssuedResolve'
    BY DEF IInv, Dense, Distinct, IssuedResolve, LookupSync
  <2>2. /\ pc'[t] = "insert" /\ attempt'[t] = 1
        /\ \A s \in Tasks : s # t => pc'[s] = pc[s] /\ attempt'[s] = attempt[s]
    BY <1>t DEF TypeOK
  <2>3. Scanned' /\ SelectFindsRow' /\ ExhaustedIsFull'
    BY <2>2 DEF IInv, Scanned, SelectFindsRow, ExhaustedIsFull, LookupSync,
                Base, Original, Slots
  <2> QED
    BY <1>t, <2>1, <2>3 DEF IInv
<1>3. ASSUME NEW t \in Tasks, Cancel(t) PROVE IInv'
  <2> USE <1>3 DEF Cancel
  <2>1. Dense' /\ Distinct' /\ IssuedResolve'
    BY DEF IInv, Dense, Distinct, IssuedResolve, LookupSync
  <2>2. \A s \in Tasks : pc'[s] \in Running \cup {"exhausted"} => pc'[s] = pc[s]
    BY <1>t DEF TypeOK, Running
  <2>3. Scanned' /\ SelectFindsRow' /\ ExhaustedIsFull'
    BY <2>2 DEF IInv, Scanned, SelectFindsRow, ExhaustedIsFull, LookupSync,
                Base, Original, Running
  <2> QED
    BY <1>t, <2>1, <2>3 DEF IInv
<1>4. ASSUME NEW t \in Tasks, Insert(t) PROVE IInv'
  <2> DEFINE b == Base(t)
             k == attempt[t]
             o == Original(t)
  <2>1. InsertOrIgnore(b, k, o) /\ b \in Bases /\ k \in Slots /\ o \in Originals
    BY <1>4, <1>j DEF Insert
  <2>2. \A l \in Slots : l < k => rows[b][l] \notin {NoRow, o}
    BY <1>4 DEF IInv, Scanned, Insert, Running
  <2> HIDE DEF b, k, o
  <2>3. Dense' /\ Distinct'
    BY <2>1, <2>2, InsertKeepsDense, InsertKeepsDistinct DEF IInv
  <2>4. RowsKept /\ rows'[b][k] # NoRow
    BY <1>t, <2>1, InsertEffect
  <2>5. /\ pc'[t] = "select"
        /\ \A s \in Tasks : s # t => pc'[s] = pc[s]
        /\ UNCHANGED <<job, attempt, issued>>
    BY <1>4, <1>t DEF Insert, TypeOK
  <2>6. IssuedResolve'
    BY <1>t, <2>4, <2>5, NoRowAssumption
       DEF IInv, IssuedResolve, LookupSync, RowsKept, TypeOK, Grants
  <2>7. Scanned'
    <3> SUFFICES ASSUME NEW s \in Tasks, pc'[s] \in Running,
                        NEW l \in Slots, l < attempt[s]
                 PROVE  rows'[Base(s)][l] \notin {NoRow, Original(s)}
      BY <2>5 DEF Scanned, Base, Original
    <3>1. pc[s] \in Running
      BY <1>4, <2>5 DEF Insert, Running
    <3>2. rows[Base(s)][l] \notin {NoRow, Original(s)}
      BY <3>1 DEF IInv, Scanned
    <3> QED
      BY <1>j, <2>4, <3>2 DEF RowsKept
  <2>8. SelectFindsRow'
    <3> SUFFICES ASSUME NEW s \in Tasks, pc'[s] = "select"
                 PROVE  rows'[Base(s)][attempt[s]] # NoRow
      BY <2>5 DEF SelectFindsRow, Base
    <3>1. CASE s = t
      BY <2>4, <3>1 DEF b, k
    <3>2. CASE s # t
      BY <1>j, <2>4, <2>5, <3>2 DEF IInv, SelectFindsRow, RowsKept
    <3> QED
      BY <3>1, <3>2
  <2>9. ExhaustedIsFull'
    <3> SUFFICES ASSUME NEW s \in Tasks, pc'[s] = "exhausted", NEW l \in Slots
                 PROVE  rows'[Base(s)][l] \notin {NoRow, Original(s)}
      BY <2>5 DEF ExhaustedIsFull, LookupSync, Base, Original
    <3>1. rows[Base(s)][l] \notin {NoRow, Original(s)}
      BY <2>5 DEF IInv, ExhaustedIsFull, LookupSync
    <3> QED
      BY <1>j, <2>4, <3>1 DEF RowsKept
  <2> QED
    BY <1>t, <2>3, <2>6, <2>7, <2>8, <2>9 DEF IInv
<1>5. ASSUME NEW t \in Tasks, SelectOwn(t) PROVE IInv'
  <2> USE <1>5 DEF SelectOwn
  <2>1. Dense' /\ Distinct' /\ IssuedResolve'
    BY DEF IInv, Dense, Distinct, IssuedResolve, LookupSync
  <2>2. \A s \in Tasks : pc'[s] \in Running \cup {"exhausted"} => pc'[s] = pc[s]
    BY <1>t DEF TypeOK, Running
  <2>3. Scanned' /\ SelectFindsRow' /\ ExhaustedIsFull'
    BY <2>2 DEF IInv, Scanned, SelectFindsRow, ExhaustedIsFull, LookupSync,
                Base, Original, Running
  <2> QED
    BY <1>t, <2>1, <2>3 DEF IInv
<1>6. ASSUME NEW t \in Tasks, SelectOther(t) PROVE IInv'
  <2> USE <1>6 DEF SelectOther
  <2>1. Dense' /\ Distinct' /\ IssuedResolve'
    BY DEF IInv, Dense, Distinct, IssuedResolve, LookupSync
  <2>2. /\ pc'[t] = "insert" /\ attempt'[t] = attempt[t] + 1
        /\ \A s \in Tasks : s # t => pc'[s] = pc[s] /\ attempt'[s] = attempt[s]
    BY <1>t DEF TypeOK
  <2>3. rows[Base(t)][attempt[t]] \notin {NoRow, Original(t)}
    BY DEF IInv, SelectFindsRow, LookupSync
  <2>4. Scanned'
    <3> SUFFICES ASSUME NEW s \in Tasks, pc'[s] \in Running,
                        NEW l \in Slots, l < attempt'[s]
                 PROVE  rows[Base(s)][l] \notin {NoRow, Original(s)}
      BY DEF Scanned, Base, Original
    <3>1. CASE s = t
      BY <1>j, <2>2, <2>3, <3>1 DEF IInv, Scanned, Slots, Running
    <3>2. CASE s # t
      BY <2>2, <3>2 DEF IInv, Scanned
    <3> QED
      BY <3>1, <3>2
  <2>5. SelectFindsRow' /\ ExhaustedIsFull'
    BY <2>2 DEF IInv, SelectFindsRow, ExhaustedIsFull, LookupSync, Base, Original
  <2> QED
    BY <1>t, <2>1, <2>4, <2>5 DEF IInv
<1>7. ASSUME NEW t \in Tasks, SelectExhausted(t) PROVE IInv'
  <2> USE <1>7 DEF SelectExhausted
  <2>1. Dense' /\ Distinct' /\ IssuedResolve'
    BY DEF IInv, Dense, Distinct, IssuedResolve, LookupSync
  <2>2. /\ pc'[t] = "exhausted"
        /\ \A s \in Tasks : s # t => pc'[s] = pc[s]
    BY <1>t DEF TypeOK
  <2>3. Scanned' /\ SelectFindsRow'
    BY <2>2 DEF IInv, Scanned, SelectFindsRow, Base, Original, Running
  <2>4. ASSUME NEW l \in Slots PROVE rows[Base(t)][l] \notin {NoRow, Original(t)}
    <3>1. CASE l < attempt[t]
      BY <3>1 DEF IInv, Scanned, Running
    <3>2. CASE l = attempt[t]
      BY <3>2 DEF IInv, SelectFindsRow, LookupSync
    <3> QED
      BY <3>1, <3>2 DEF Slots
  <2>5. ExhaustedIsFull'
    BY <2>2, <2>4 DEF IInv, ExhaustedIsFull, LookupSync, Base, Original
  <2> QED
    BY <1>t, <2>1, <2>3, <2>5 DEF IInv
<1>8. ASSUME NEW t \in Tasks, DbError(t) PROVE IInv'
  <2> USE <1>8 DEF DbError
  <2>1. Dense' /\ Distinct' /\ IssuedResolve'
    BY DEF IInv, Dense, Distinct, IssuedResolve, LookupSync
  <2>2. \A s \in Tasks : pc'[s] \in Running \cup {"exhausted"} => pc'[s] = pc[s]
    BY <1>t DEF TypeOK, Running
  <2>3. Scanned' /\ SelectFindsRow' /\ ExhaustedIsFull'
    BY <2>2 DEF IInv, Scanned, SelectFindsRow, ExhaustedIsFull, LookupSync,
                Base, Original, Running
  <2> QED
    BY <1>t, <2>1, <2>3 DEF IInv
<1>9. ASSUME NEW w \in Workers, Close(w) PROVE IInv'
  BY <1>t, <1>9 DEF IInv, Close, Dense, Distinct, Scanned, SelectFindsRow,
     IssuedResolve, ExhaustedIsFull, LookupSync, Base, Original
<1>10. ASSUME NEW w \in Workers, Crash(w) PROVE IInv'
  <2> USE <1>10 DEF Crash
  <2>1. Dense' /\ Distinct' /\ IssuedResolve'
    BY DEF IInv, Dense, Distinct, IssuedResolve, LookupSync
  <2>2. \A s \in Tasks : pc'[s] \in Running \cup {"exhausted"} => pc'[s] = pc[s]
    BY <1>t DEF TypeOK, Running
  <2>3. Scanned' /\ SelectFindsRow' /\ ExhaustedIsFull'
    BY <2>2 DEF IInv, Scanned, SelectFindsRow, ExhaustedIsFull, LookupSync,
                Base, Original, Running
  <2> QED
    BY <1>t, <2>1, <2>3 DEF IInv
<1>11. ASSUME NEW w \in Workers, Restart(w) PROVE IInv'
  BY <1>t, <1>11 DEF IInv, Restart, Dense, Distinct, Scanned, SelectFindsRow,
     IssuedResolve, ExhaustedIsFull, LookupSync, Base, Original
<1>12. CASE UNCHANGED vars
  BY <1>t, <1>12 DEF IInv, vars, Dense, Distinct, Scanned, SelectFindsRow,
     IssuedResolve, ExhaustedIsFull, LookupSync, Base, Original
<1> QED
  BY <1>1, <1>2, <1>3, <1>4, <1>5, <1>6, <1>7, <1>8, <1>9, <1>10, <1>11, <1>12
     DEF Next, Advance

LEMMA IInvInit == Init => IInv
<1> SUFFICES ASSUME Init PROVE IInv
  OBVIOUS
<1>1. TypeOK
  BY TypeInit
<1>2. \A b \in Bases, k \in Slots : rows[b][k] = NoRow
  BY DEF Init
<1>3. \A t \in Tasks : pc[t] = "idle"
  BY DEF Init
<1>4. issued = {}
  BY DEF Init
<1> QED
  BY <1>1, <1>2, <1>3, <1>4 DEF IInv, Dense, Distinct, Scanned, SelectFindsRow,
     IssuedResolve, ExhaustedIsFull, Running

(* The inductive invariant holds in every state of the vault.              *)
THEOREM InductiveInvariant == SafeSpec => []IInv
<1>1. QED
  BY IInvInit, IInvStep, PTL DEF SafeSpec

(* A placeholder assign has returned resolves to its own original for ever *)
(* (vault.py:135-137, 146-177).                                            *)
THEOREM IssuedAlwaysResolve == SafeSpec => []IssuedResolve
<1>1. IInv => IssuedResolve
  BY DEF IInv
<1> QED
  BY <1>1, InductiveInvariant, PTL

(* The collision-exhausted error is never raised while a candidate is free *)
(* or already belongs to the caller's original (vault.py:158-177).         *)
THEOREM ExhaustionIsReal == SafeSpec => []ExhaustedIsFull
<1>1. IInv => ExhaustedIsFull
  BY DEF IInv
<1> QED
  BY <1>1, InductiveInvariant, PTL

(* Masking the same original again gives the placeholder it got the first  *)
(* time, in whatever worker and after whatever restart (vault.py:122-126). *)
THEOREM RemaskIsIdempotent == SafeSpec => []OnePlaceholder
<1>1. IInv => OnePlaceholder
  <2> SUFFICES ASSUME IInv, NEW i \in issued, NEW j \in issued,
                      i.base = j.base, i.original = j.original
               PROVE  i.slot = j.slot
    BY DEF OnePlaceholder
  <2>1. i \in Grants /\ j \in Grants
    BY DEF IInv, TypeOK
  <2>2. rows[i.base][i.slot] = i.original /\ rows[i.base][j.slot] = i.original
    BY DEF IInv, IssuedResolve, LookupSync
  <2> QED
    BY <2>1, <2>2, NoRowAssumption DEF IInv, Distinct, Grants
<1> QED
  BY <1>1, InductiveInvariant, PTL

-----------------------------------------------------------------------------

LEMMA RefineInit == Init => Store!StoreInit
BY NoRowAssumption DEF Init, Store!StoreInit, granted, Grants

(* A step that leaves rows alone leaves the abstract grants alone.         *)
LEMMA GrantedKept == ASSUME UNCHANGED rows PROVE UNCHANGED granted
BY DEF granted

(* An INSERT that writes is a Grant of the abstract store.                 *)
LEMMA RefineInsert ==
    ASSUME IInv, NEW t \in Tasks, Insert(t)
    PROVE  [Store!StoreNext]_<<granted, issued>>
<1> DEFINE b == Base(t)
           k == attempt[t]
           o == Original(t)
           g == [base |-> b, slot |-> k, original |-> o]
<1>1. /\ InsertOrIgnore(b, k, o) /\ UNCHANGED issued
      /\ b \in Bases /\ k \in Slots /\ o \in Originals
  BY DEF IInv, TypeOK, Jobs, Base, Original, Insert
<1>2. \A l \in Slots : l < k => rows[b][l] \notin {NoRow, o}
  BY DEF IInv, Scanned, Insert, Running
<1>t. TypeOK /\ Dense
  BY DEF IInv
<1> HIDE DEF b, k, o
<1>3. CASE rows[b][k] # NoRow
  <2>1. UNCHANGED rows
    BY <1>1, <1>3 DEF InsertOrIgnore
  <2> QED
    BY <1>1, <2>1, GrantedKept
<1>4. CASE rows[b][k] = NoRow
  <2>1. rows'[b][k] = o
    BY <1>1, <1>4, <1>t, InsertEffect
  <2>2. \A c \in Bases, l \in Slots : <<c, l>> # <<b, k>> => rows'[c][l] = rows[c][l]
    BY <1>1, <1>t, InsertEffect
  <2>3. g \in Grants
    BY <1>1 DEF Grants
  <2>4. ASSUME NEW h \in Grants
        PROVE  h \in granted' <=> h \in granted \cup {g}
    <3>1. h.base \in Bases /\ h.slot \in Slots /\ h.original \in Originals
      BY DEF Grants
    <3>2. CASE h.base = b /\ h.slot = k
      <4>1. h = g <=> h.original = o
        BY <3>2 DEF Grants
      <4> QED
        BY <1>4, <2>1, <3>1, <3>2, <4>1, NoRowAssumption DEF granted
    <3>3. CASE ~(h.base = b /\ h.slot = k)
      <4>1. h # g
        BY <3>3
      <4>2. rows'[h.base][h.slot] = rows[h.base][h.slot]
        BY <2>2, <3>1, <3>3
      <4> QED
        BY <4>1, <4>2 DEF granted
    <3> QED
      BY <3>2, <3>3
  <2>5. granted' = granted \cup {g}
    <3>1. granted \subseteq Grants /\ granted' \subseteq Grants
      BY DEF granted
    <3> QED
      BY <2>3, <2>4, <3>1
  <2>6. ~Store!Holds(b, o)
    <3> SUFFICES ASSUME NEW h \in granted, h.base = b, h.original = o PROVE FALSE
      BY DEF Store!Holds
    <3>1. h.slot \in Slots /\ rows[b][h.slot] = o
      BY DEF granted, Grants
    <3>2. ~(h.slot < k)
      BY <1>2, <3>1
    <3>3. h.slot # k
      BY <1>1, <1>4, <3>1, NoRowAssumption
    <3>4. k < h.slot
      BY <1>1, <3>1, <3>2, <3>3 DEF Slots
    <3> QED
      BY <1>1, <1>4, <1>t, <3>1, <3>4, NoRowAssumption DEF Dense
  <2>7. ~Store!Taken(b, k)
    BY <1>1, <1>4, NoRowAssumption DEF Store!Taken, granted, Grants
  <2>8. \A l \in 1..(k-1) : Store!Taken(b, l)
    <3> SUFFICES ASSUME NEW l \in 1..(k-1) PROVE Store!Taken(b, l)
      OBVIOUS
    <3>1. l \in Slots /\ l < k
      BY <1>1 DEF Slots
    <3>2. rows[b][l] \in Originals
      BY <1>1, <1>2, <1>t, <3>1 DEF TypeOK
    <3> DEFINE h == [base |-> b, slot |-> l, original |-> rows[b][l]]
    <3>3. h \in granted /\ h.base = b /\ h.slot = l
      BY <1>1, <3>1, <3>2 DEF granted, Grants
    <3> QED
      BY <3>3 DEF Store!Taken
  <2>9. Store!Grant(b, k, o)
    BY <1>1, <2>5, <2>6, <2>7, <2>8 DEF Store!Grant
  <2> QED
    BY <1>1, <2>9 DEF Store!StoreNext, Store!Slots, Slots
<1> QED
  BY <1>3, <1>4

(* A SELECT that finds its own original is an Issue of the abstract store. *)
LEMMA RefineSelectOwn ==
    ASSUME IInv, NEW t \in Tasks, SelectOwn(t)
    PROVE  [Store!StoreNext]_<<granted, issued>>
<1> DEFINE g == [base |-> Base(t), slot |-> attempt[t], original |-> Original(t)]
<1>1. g \in Grants /\ rows[g.base][g.slot] = g.original
  BY DEF IInv, TypeOK, Jobs, Base, Original, Grants, SelectOwn, LookupSync
<1>2. g \in granted
  BY <1>1 DEF granted
<1>3. issued' = issued \cup {g} /\ UNCHANGED granted
  BY GrantedKept DEF SelectOwn
<1> HIDE DEF g
<1> QED
  BY <1>2, <1>3 DEF Store!StoreNext, Store!Issue

LEMMA RefineStep ==
    IInv /\ [Next]_vars => [Store!StoreNext]_<<granted, issued>>
<1> SUFFICES ASSUME IInv, [Next]_vars
             PROVE  [Store!StoreNext]_<<granted, issued>>
  OBVIOUS
<1>1. ASSUME NEW t \in Tasks, Insert(t)
      PROVE  [Store!StoreNext]_<<granted, issued>>
  BY <1>1, RefineInsert
<1>2. ASSUME NEW t \in Tasks, SelectOwn(t)
      PROVE  [Store!StoreNext]_<<granted, issued>>
  BY <1>2, RefineSelectOwn
<1>3. ASSUME UNCHANGED <<rows, issued>>
      PROVE  [Store!StoreNext]_<<granted, issued>>
  BY <1>3, GrantedKept
<1> QED
  BY <1>1, <1>2, <1>3
     DEF Next, Advance, Call, Acquire, Cancel, SelectOther, SelectExhausted,
         DbError, Close, Crash, Restart, vars

(* Any number of workers on one vault file behave as the abstract store:   *)
(* each transaction is one grant of the first free slot, one answer or     *)
(* nothing.                                                                *)
THEOREM VaultImplementsStore == SafeSpec => Refines
<1>1. Store!storeVars = <<granted, issued>>
  BY DEF Store!storeVars
<1> QED
  BY <1>1, RefineInit, RefineStep, InductiveInvariant, PTL
     DEF SafeSpec, Refines, Store!StoreSpec, Store!storeVars
=============================================================================
