----------------------------- MODULE StartupProofs -----------------------------
(***************************************************************************)
(* What MappingVault._open promises for any number of workers that start,  *)
(* fail and die at once, any settings and any number of faults.            *)
(***************************************************************************)
EXTENDS Startup, FiniteSetTheorems, TLAPS

(* Where a table of the file is there already, and where its mode is set.  *)
NeedSchema == {"mappings", "count", "seed", "serving"}

NeedMappings == {"count", "seed", "serving"}

NeedMode == {"schema_version"} \cup NeedSchema

(* Transactions, with any number for the slot of a row.                    *)
Entries ==
    [kind : {"schema_version", "mappings", "seed"}]
      \cup [kind : {"row"}, slot : Nat, original : Originals]

Tight(file) == file.ours => file.mode = "0600"

(* What a worker that stands at a statement of _open relies on.            *)
StepInv(step, file) ==
    /\ step \in NeedSchema => Has("schema_version")
    /\ step \in NeedMappings => Has("mappings")
    /\ step = "serving" => Has("seed")
    /\ step \in NeedMode => Tight(file)

FileInv ==
    /\ vaultFile \in [present : BOOLEAN, mode : {"0600", "0644"}, ours : BOOLEAN]
    /\ log # <<>> => Tight(vaultFile)

IInv ==
    /\ log \in Seq(Entries)
    /\ pc = [w \in Workers |-> pc[w]]
    /\ \A w \in Workers : StepInv(pc[w], vaultFile)
    /\ FileInv

-----------------------------------------------------------------------------

(* A transaction more takes nothing away.                                  *)
LEMMA CommitKeeps ==
    ASSUME log \in Seq(Entries), NEW t \in Entries, log' = Append(log, t)
    PROVE  /\ log' \in Seq(Entries)
           /\ \A kind : Has(kind) => Has(kind)'
           /\ Has(t.kind)'
<1>1. /\ log' \in Seq(Entries) /\ Len(log) \in Nat /\ DOMAIN log = 1..Len(log)
      /\ DOMAIN log' = 1..(Len(log) + 1)
      /\ \A i \in 1..Len(log) : log'[i] = log[i]
      /\ log'[Len(log) + 1] = t
  OBVIOUS
<1>2. \A kind : Has(kind) => Has(kind)'
  BY <1>1 DEF Has
<1>3. Has(t.kind)'
  BY <1>1 DEF Has
<1> QED
  BY <1>1, <1>2, <1>3

(* A step of one worker while log and mode only get better.                *)
LEMMA WorkerStep ==
    ASSUME IInv, NEW w \in Workers, NEW next, pc' = [pc EXCEPT ![w] = next],
           log' \in Seq(Entries), \A kind : Has(kind) => Has(kind)',
           Tight(vaultFile) => Tight(vaultFile'),
           FileInv', StepInv(next, vaultFile)'
    PROVE  IInv'
<1>1. \A v \in Workers : StepInv(pc[v], vaultFile)'
  <2> TAKE v \in Workers
  <2>1. CASE v = w
    BY <2>1 DEF IInv
  <2>2. CASE v # w
    <3>1. pc'[v] = pc[v] /\ StepInv(pc[v], vaultFile)
      BY <2>2 DEF IInv
    <3> QED
      BY <3>1 DEF StepInv
  <2> QED
    BY <2>1, <2>2
<1>2. (pc = [v \in Workers |-> pc[v]])'
  BY DEF IInv
<1> QED
  BY <1>1, <1>2 DEF IInv

(* A step that does not touch the file.                                    *)
LEMMA MoveStep ==
    ASSUME IInv, NEW w \in Workers, NEW next, pc' = [pc EXCEPT ![w] = next],
           log' = log, vaultFile' = vaultFile, StepInv(next, vaultFile)
    PROVE  IInv'
<1>1. FileInv' /\ StepInv(next, vaultFile)'
  BY DEF IInv, FileInv, StepInv, Has
<1>2. log' \in Seq(Entries) /\ (\A kind : Has(kind) => Has(kind)')
  BY DEF IInv, Has
<1> QED
  BY <1>1, <1>2, WorkerStep

(* A statement that commits.                                               *)
LEMMA CommitStep ==
    ASSUME IInv, NEW w \in Workers, NEW next, NEW t \in Entries,
           pc' = [pc EXCEPT ![w] = next], log' = Append(log, t),
           vaultFile' = vaultFile, pc[w] \in NeedMode,
           next \in NeedSchema => t.kind = "schema_version" \/ Has("schema_version"),
           next \in NeedMappings => t.kind = "mappings" \/ Has("mappings"),
           next = "serving" => t.kind = "seed" \/ Has("seed")
    PROVE  IInv'
<1>1. log \in Seq(Entries) /\ Tight(vaultFile) /\ FileInv
  BY DEF IInv, StepInv
<1>2. /\ log' \in Seq(Entries) /\ (\A kind : Has(kind) => Has(kind)')
      /\ Has(t.kind)'
  BY <1>1, CommitKeeps
<1>3. FileInv' /\ StepInv(next, vaultFile)'
  BY <1>1, <1>2 DEF FileInv, StepInv
<1> QED
  BY <1>1, <1>2, <1>3, WorkerStep

-----------------------------------------------------------------------------

(* Steps outside the file, and those that only look at it.                 *)
LEMMA IdleSteps ==
    ASSUME IInv, NEW w \in Workers,
           \/ Start(w) \/ Construct(w) \/ ConstructRaises(w) \/ Exists(w)
           \/ CreateRaced(w) \/ SeedRaced(w) \/ DbError(w) \/ Crash(w)
    PROVE  IInv'
<1>1. PICK next \in {"construct", "exists", "tighten", "create", "failed", "down"} :
        pc' = [pc EXCEPT ![w] = next]
  BY DEF Start, Construct, ConstructRaises, Exists, CreateRaced, SeedRaced, DbError, Crash,
     Fail, Go
<1>2. log' = log /\ vaultFile' = vaultFile
  BY DEF Start, Construct, ConstructRaises, Exists, CreateRaced, SeedRaced, DbError, Crash
<1>3. StepInv(next, vaultFile)
  BY DEF StepInv, NeedSchema, NeedMappings, NeedMode
<1> QED
  BY <1>1, <1>2, <1>3, MoveStep

LEMMA ModeSteps ==
    ASSUME IInv, NEW w \in Workers, Create(w) \/ Tighten(w)
    PROVE  IInv'
<1>1. pc' = [pc EXCEPT ![w] = "schema_version"] /\ log' = log
  BY DEF Create, Tighten, Go
<1>2. vaultFile' \in [present : BOOLEAN, mode : {"0600", "0644"}, ours : BOOLEAN]
      /\ Tight(vaultFile')
  <2>1. CASE Create(w)
    BY <2>1 DEF Create, Tight
  <2>2. CASE Tighten(w)
    BY <2>2 DEF Tighten, Tight, IInv, FileInv
  <2> QED
    BY <2>1, <2>2
<1>3. log' \in Seq(Entries) /\ (\A kind : Has(kind) => Has(kind)')
  BY <1>1 DEF IInv, Has
<1>4. FileInv' /\ StepInv("schema_version", vaultFile)'
  BY <1>2 DEF FileInv, StepInv, NeedSchema, NeedMappings
<1> QED
  BY <1>1, <1>2, <1>3, <1>4, WorkerStep

LEMMA SchemaSteps ==
    ASSUME IInv, NEW w \in Workers,
           \/ CreateTable(w, "schema_version", "mappings")
           \/ CreateTable(w, "mappings", "count")
    PROVE  IInv'
<1>1. ASSUME NEW table \in {"schema_version", "mappings"}, NEW next,
             next = (IF table = "mappings" THEN "count" ELSE "mappings"),
             CreateTable(w, table, next)
      PROVE  IInv'
  <2>1. /\ pc[w] = table /\ pc' = [pc EXCEPT ![w] = next] /\ vaultFile' = vaultFile
        /\ StepInv(pc[w], vaultFile)
    BY <1>1 DEF CreateTable, Go, IInv
  <2>2. CASE Has(table)
    <3>1. log' = log
      BY <1>1, <2>2 DEF CreateTable
    <3>2. StepInv(next, vaultFile)
      BY <1>1, <2>1, <2>2 DEF StepInv, NeedSchema, NeedMappings, NeedMode
    <3> QED
      BY <2>1, <3>1, <3>2, MoveStep
  <2>3. CASE ~Has(table)
    <3> DEFINE t == [kind |-> table]
    <3>1. log' = Append(log, t)
      BY <1>1, <2>3 DEF CreateTable, Commit
    <3>2. t \in Entries /\ t.kind = table
      BY <1>1 DEF Entries
    <3>3. pc[w] \in NeedMode
      BY <1>1, <2>1 DEF NeedMode, NeedSchema
    <3>4. /\ next # "serving"
          /\ next \in NeedSchema => t.kind = "schema_version" \/ Has("schema_version")
          /\ next \in NeedMappings => t.kind = "mappings" \/ Has("mappings")
      BY <1>1, <2>1, <3>2 DEF StepInv, NeedSchema, NeedMappings
    <3> QED
      BY <2>1, <3>1, <3>2, <3>3, <3>4, CommitStep
  <2> QED
    BY <2>2, <2>3
<1> QED
  BY <1>1

LEMMA CountStep ==
    ASSUME IInv, NEW w \in Workers, Count(w)
    PROVE  IInv'
<1>1. /\ pc[w] = "count" /\ log' = log /\ vaultFile' = vaultFile
      /\ StepInv(pc[w], vaultFile)
  BY DEF Count, IInv
<1>2. PICK next \in {"serving", "seed"} :
        pc' = [pc EXCEPT ![w] = next] /\ (next = "serving" => Has("seed"))
  BY DEF Count, Go
<1>3. StepInv(next, vaultFile)
  BY <1>1, <1>2 DEF StepInv, NeedSchema, NeedMappings, NeedMode
<1> QED
  BY <1>1, <1>2, <1>3, MoveStep

LEMMA SeedStep ==
    ASSUME IInv, NEW w \in Workers, Seed(w)
    PROVE  IInv'
<1> DEFINE t == [kind |-> "seed"]
<1>1. /\ pc[w] = "seed" /\ log' = Append(log, t) /\ vaultFile' = vaultFile
      /\ pc' = [pc EXCEPT ![w] = "serving"] /\ StepInv(pc[w], vaultFile)
  BY DEF Seed, Commit, Go, IInv
<1>2. t \in Entries /\ t.kind = "seed"
  BY DEF Entries
<1>3. pc[w] \in NeedMode /\ Has("schema_version") /\ Has("mappings")
  BY <1>1 DEF StepInv, NeedMode, NeedSchema, NeedMappings
<1> QED
  BY <1>1, <1>2, <1>3, CommitStep

LEMMA RowsFinite == ASSUME log \in Seq(Entries) PROVE Cardinality(Rows) \in Nat
<1> DEFINE rows == {j \in DOMAIN log : log[j].kind = "row"}
<1>1. IsFiniteSet(1..Len(log)) /\ rows \subseteq 1..Len(log)
  BY FS_Interval
<1>2. IsFiniteSet(rows)
  BY <1>1, FS_Subset
<1> DEFINE row == [i \in rows |-> [slot |-> log[i].slot, original |-> log[i].original]]
<1>3. row \in Surjection(rows, Rows)
  BY DEF Rows, Surjection
<1>4. IsFiniteSet(Rows)
  BY <1>2, <1>3, FS_Surjection
<1> QED
  BY <1>4, FS_CardinalityType

LEMMA AssignStep ==
    ASSUME IInv, NEW w \in Workers, NEW o \in Originals, Assign(w, o)
    PROVE  IInv'
<1>1. /\ log \in Seq(Entries) /\ StepInv("serving", vaultFile)
      /\ pc[w] = "serving" /\ pc' = [pc EXCEPT ![w] = "serving"] /\ vaultFile' = vaultFile
  BY DEF Assign, IInv
<1>2. Cardinality(Rows) + 1 \in Nat
  BY <1>1, RowsFinite
<1>3. CASE {r \in Rows : r.original = o} # {}
  <2>1. log' = log
    BY <1>3 DEF Assign
  <2> QED
    BY <1>1, <2>1, MoveStep
<1>4. CASE {r \in Rows : r.original = o} = {}
  <2> DEFINE t == [kind |-> "row", slot |-> Cardinality(Rows) + 1, original |-> o]
  <2>1. log' = Append(log, t)
    BY <1>4 DEF Assign, Commit
  <2>2. t \in Entries
    BY <1>2 DEF Entries
  <2>3. /\ pc[w] \in NeedMode /\ Has("schema_version") /\ Has("mappings") /\ Has("seed")
    BY <1>1 DEF StepInv, NeedMode, NeedSchema, NeedMappings
  <2> HIDE DEF t
  <2> QED
    BY <1>1, <2>1, <2>2, <2>3, CommitStep
<1> QED
  BY <1>3, <1>4

(* The host dies: what is lost of the log, no worker relies on any more.   *)
LEMMA PowerStep == ASSUME IInv, PowerFailure PROVE IInv'
<1>1. PICK n \in synced..Len(log) : log' = SubSeq(log, 1, n)
  BY DEF PowerFailure
<1>2. log \in Seq(Entries) /\ vaultFile' = vaultFile /\ pc' = [w \in Workers |-> "down"]
  BY DEF IInv, PowerFailure
<1>3. n \in Int /\ n <= Len(log)
  BY <1>1, <1>2
<1>4. log' \in Seq(Entries) /\ (log' # <<>> => log # <<>>)
  BY <1>1, <1>2, <1>3
<1>5. FileInv'
  BY <1>2, <1>4 DEF IInv, FileInv
<1>6. \A w \in Workers : StepInv(pc[w], vaultFile)'
  BY <1>2 DEF StepInv, NeedSchema, NeedMappings, NeedMode
<1> QED
  BY <1>2, <1>4, <1>5, <1>6 DEF IInv

-----------------------------------------------------------------------------

LEMMA InitInv == Init => IInv
<1> SUFFICES ASSUME Init PROVE IInv
  OBVIOUS
<1>1. log \in Seq(Entries) /\ pc = [w \in Workers |-> "down"]
  BY DEF Init
<1>2. FileInv
  <2>1. CASE vaultFile = [present |-> FALSE, mode |-> "0600", ours |-> TRUE]
    BY <1>1, <2>1 DEF Init, FileInv
  <2>2. CASE vaultFile \in [present : {TRUE}, mode : {"0644"}, ours : BOOLEAN]
    BY <2>2 DEF Init, FileInv
  <2> QED
    BY <2>1, <2>2 DEF Init
<1>3. \A w \in Workers : StepInv(pc[w], vaultFile)
  BY <1>1 DEF StepInv, NeedSchema, NeedMappings, NeedMode
<1> QED
  BY <1>1, <1>2, <1>3 DEF IInv

LEMMA NextInv == ASSUME IInv, [Next]_vars PROVE IInv'
<1>1. CASE UNCHANGED <<pc, log, vaultFile>>
  BY <1>1 DEF IInv, StepInv, FileInv, Has
<1>2. CASE \E w \in Workers : Advance(w)
  <2>1. PICK w \in Workers : Advance(w)
    BY <1>2
  <2> QED
    BY <2>1, IdleSteps, ModeSteps, SchemaSteps, CountStep, SeedStep, Zenon DEF Advance
<1>3. CASE \E w \in Workers, o \in Originals : Assign(w, o)
  BY <1>3, AssignStep
<1>4. CASE \E w \in Workers : DbError(w) \/ Crash(w)
  BY <1>4, IdleSteps
<1>5. CASE PowerFailure
  BY <1>5, PowerStep
<1>6. ASSUME Checkpoint \/ UNCHANGED vars PROVE UNCHANGED <<pc, log, vaultFile>>
  BY <1>6 DEF Checkpoint, vars
<1> QED
  BY <1>1, <1>2, <1>3, <1>4, <1>5, <1>6 DEF Next

(* A worker stands at a statement of _open, or serves, only when what the  *)
(* statements before it made is in the file.                               *)
THEOREM OpeningInvariant == Spec => []IInv
<1>1. Init => IInv
  BY InitInv
<1>2. IInv /\ [Next]_vars => IInv'
  BY NextInv
<1> QED
  BY <1>1, <1>2, PTL DEF Spec

(* A worker that serves has the tables and the version row under its       *)
(* connection, whatever the others had half done (vault.py:79-107).        *)
THEOREM ServedIsComplete == Spec => []ServingReady
<1>1. IInv => ServingReady
  BY DEF IInv, StepInv, NeedSchema, NeedMappings, ServingReady
<1> QED
  BY <1>1, OpeningInvariant, PTL

(* No original is in a file that others can read and whose mode the        *)
(* workers may change (vault.py:87-93).                                    *)
THEOREM OriginalsPrivate == Spec => []Private
<1>1. IInv => Private
  <2> SUFFICES ASSUME IInv, Rows # {}, vaultFile.ours PROVE vaultFile.mode = "0600"
    BY DEF Private
  <2>1. log # <<>>
    BY DEF Rows
  <2> QED
    BY <2>1 DEF IInv, FileInv, Tight
<1> QED
  BY <1>1, OpeningInvariant, PTL

-----------------------------------------------------------------------------
(* The records of the workers, of the file and of what was handed out.     *)

Building == Opening \cup {"serving"}

Places == {"down", "construct", "failed", "serving"} \cup Opening

(* A worker that opens the vault, or serves, has the guardrail that is     *)
(* made of its settings.                                                   *)
Built(place, g) ==
    IF place \in Building THEN Constructible(setup) /\ g = BuildGuardrail(setup)
                          ELSE g = None

RowsUpTo(l, n) == {j \in 1..n : l[j].kind = "row"}

(* Nothing is in the file twice, and the k-th row has slot k.              *)
Ordered(l) ==
    /\ l \in Seq(Entries)
    /\ \A i, j \in DOMAIN l : (i < j /\ l[i].kind = l[j].kind) =>
          l[i].kind = "row" /\ l[i].original # l[j].original
    /\ \A i \in DOMAIN l : l[i].kind = "row" => l[i].slot = Cardinality(RowsUpTo(l, i))

WorkersInv ==
    /\ setup \in Setups
    /\ pc \in [Workers -> Places]
    /\ guardrail = [w \in Workers |-> guardrail[w]]
    /\ \A w \in Workers : Built(pc[w], guardrail[w])

RecordsInv ==
    /\ Ordered(log)
    /\ synced \in 0..Len(log)
    /\ issued \subseteq Grants
    /\ faults \in 0..MaxFaults

-----------------------------------------------------------------------------

LEMMA EntryKinds ==
    ASSUME NEW t \in Entries
    PROVE  /\ t.kind \in {"schema_version", "mappings", "seed", "row"}
           /\ t.kind = "row" => t \in [kind : {"row"}, slot : Nat, original : Originals]
BY DEF Entries

LEMMA RowsUpToFinite ==
    ASSUME NEW l, NEW n \in Nat
    PROVE  IsFiniteSet(RowsUpTo(l, n)) /\ Cardinality(RowsUpTo(l, n)) \in Nat
<1>1. IsFiniteSet(1..n) /\ RowsUpTo(l, n) \in SUBSET (1..n)
  BY FS_Interval DEF RowsUpTo
<1>2. IsFiniteSet(RowsUpTo(l, n))
  BY <1>1, FS_Subset
<1> QED
  BY <1>2, FS_CardinalityType

(* There are as many rows as originals that have one.                      *)
LEMMA RowsUpToBound ==
    ASSUME NEW l, Ordered(l), NEW n \in 1..Len(l)
    PROVE  Cardinality(RowsUpTo(l, n)) <= Cardinality(Originals)
<1> DEFINE f == [j \in RowsUpTo(l, n) |-> l[j].original]
<1>1. /\ DOMAIN l = 1..Len(l) /\ Len(l) \in Nat /\ \A j \in 1..Len(l) : l[j] \in Entries
  BY DEF Ordered
<1>2. \A j \in RowsUpTo(l, n) : j \in 1..Len(l) /\ l[j].kind = "row" /\ l[j].original \in Originals
  BY <1>1, EntryKinds DEF RowsUpTo
<1>3. ASSUME NEW i \in RowsUpTo(l, n), NEW j \in RowsUpTo(l, n), f[i] = f[j] PROVE i = j
  <2>1. l[i].original = l[j].original /\ l[i].kind = l[j].kind /\ i \in Nat /\ j \in Nat
    BY <1>2, <1>3
  <2>2. ~(i < j) /\ ~(j < i)
    BY <1>1, <1>2, <2>1 DEF Ordered
  <2> QED
    BY <2>1, <2>2
<1>4. f \in Injection(RowsUpTo(l, n), Originals)
  BY <1>2, <1>3 DEF Injection, IsInjective
<1> HIDE DEF f
<1> QED
  BY <1>4, OriginalsAssumption, FS_Injection

(* The rows of the file, counted.                                          *)
LEMMA RowsCounted ==
    ASSUME Ordered(log)
    PROVE  /\ Cardinality(Rows) = Cardinality(RowsUpTo(log, Len(log)))
           /\ Cardinality(Rows) \in Nat
<1> DEFINE S == RowsUpTo(log, Len(log))
           f == [j \in S |-> [slot |-> log[j].slot, original |-> log[j].original]]
<1>1. /\ DOMAIN log = 1..Len(log) /\ Len(log) \in Nat
  BY DEF Ordered
<1>2. S = {j \in DOMAIN log : log[j].kind = "row"}
  BY <1>1 DEF RowsUpTo
<1>3. f \in Surjection(S, Rows)
  BY <1>2 DEF Rows, Surjection
<1>4. ASSUME NEW i \in S, NEW j \in S, f[i] = f[j] PROVE i = j
  <2>1. /\ log[i].original = log[j].original /\ log[i].kind = log[j].kind
        /\ i \in DOMAIN log /\ j \in DOMAIN log /\ i \in Nat /\ j \in Nat
    BY <1>1, <1>2, <1>4
  <2>2. ~(i < j) /\ ~(j < i)
    BY <2>1 DEF Ordered
  <2> QED
    BY <2>1, <2>2
<1>5. f \in Injection(S, Rows)
  BY <1>3, <1>4 DEF Injection, IsInjective, Surjection
<1>6. IsFiniteSet(S) /\ Cardinality(S) \in Nat
  BY <1>1, RowsUpToFinite
<1> HIDE DEF f, S
<1>7. Cardinality(Rows) = Cardinality(S)
  BY <1>3, <1>5, <1>6, FS_Surjection
<1> QED
  BY <1>6, <1>7 DEF S

LEMMA OrderedAppend ==
    ASSUME NEW l, Ordered(l), NEW t \in Entries,
           \A i \in DOMAIN l : l[i].kind = t.kind =>
               t.kind = "row" /\ l[i].original # t.original,
           t.kind = "row" => t.slot = Cardinality(RowsUpTo(l, Len(l))) + 1
    PROVE  Ordered(Append(l, t))
<1> DEFINE m == Append(l, t)
           n == Len(l)
<1>1. /\ l \in Seq(Entries) /\ DOMAIN l = 1..n /\ n \in Nat
      /\ m \in Seq(Entries) /\ DOMAIN m = 1..(n + 1)
      /\ \A i \in 1..n : m[i] = l[i]
      /\ m[n + 1] = t
  BY DEF Ordered
<1> HIDE DEF m, n
<1>2. \A k \in 1..n : RowsUpTo(m, k) = RowsUpTo(l, k)
  BY <1>1 DEF RowsUpTo
<1>3. ASSUME NEW i \in DOMAIN m, NEW j \in DOMAIN m, i < j, m[i].kind = m[j].kind
      PROVE  m[i].kind = "row" /\ m[i].original # m[j].original
  <2>1. CASE j = n + 1
    BY <1>1, <1>3, <2>1
  <2>2. CASE j # n + 1
    <3>1. i \in 1..n /\ j \in 1..n /\ l[i].kind = l[j].kind
      BY <1>1, <1>3, <2>2
    <3> QED
      BY <1>1, <1>3, <3>1 DEF Ordered
  <2> QED
    BY <2>1, <2>2
<1>4. ASSUME NEW i \in DOMAIN m, m[i].kind = "row"
      PROVE  m[i].slot = Cardinality(RowsUpTo(m, i))
  <2>1. CASE i \in 1..n
    BY <1>1, <1>2, <1>4, <2>1 DEF Ordered
  <2>2. CASE i = n + 1
    <3>1. RowsUpTo(m, n + 1) = RowsUpTo(l, n) \cup {n + 1} /\ n + 1 \notin RowsUpTo(l, n)
      BY <1>1, <1>4, <2>2 DEF RowsUpTo
    <3>2. Cardinality(RowsUpTo(m, n + 1)) = Cardinality(RowsUpTo(l, n)) + 1
      BY <1>1, <3>1, RowsUpToFinite, FS_AddElement
    <3> QED
      BY <1>1, <1>4, <2>2, <3>2 DEF n
  <2> QED
    BY <1>1, <2>1, <2>2
<1>5. Ordered(m)
  BY <1>1, <1>3, <1>4 DEF Ordered
<1> QED
  BY <1>5 DEF m

LEMMA OrderedPrefix ==
    ASSUME NEW l, Ordered(l), NEW n \in 0..Len(l)
    PROVE  Ordered(SubSeq(l, 1, n)) /\ Len(SubSeq(l, 1, n)) = n
<1> DEFINE m == SubSeq(l, 1, n)
<1>1. /\ l \in Seq(Entries) /\ DOMAIN l = 1..Len(l) /\ Len(l) \in Nat /\ n \in Nat /\ n <= Len(l)
  BY DEF Ordered
<1>2. /\ m \in Seq(Entries) /\ Len(m) = n /\ DOMAIN m = 1..n
      /\ \A i \in 1..n : m[i] = l[i]
  BY <1>1
<1> HIDE DEF m
<1>3. \A k \in 1..n : RowsUpTo(m, k) = RowsUpTo(l, k)
  BY <1>1, <1>2 DEF RowsUpTo
<1>4. \A i \in 1..n : i \in DOMAIN l
  BY <1>1
<1>5. Ordered(m)
  BY <1>2, <1>3, <1>4 DEF Ordered
<1> QED
  BY <1>2, <1>5 DEF m

(* The slots in the file are those of grants.                              *)
LEMMA EntriesAreTransactions ==
    ASSUME Ordered(log)
    PROVE  IsInjective(log) /\ Range(log) \subseteq Transactions /\ Rows \subseteq Grants
<1>1. /\ DOMAIN log = 1..Len(log) /\ Len(log) \in Nat /\ \A i \in 1..Len(log) : log[i] \in Entries
  BY DEF Ordered
<1>2. IsInjective(log)
  <2> SUFFICES ASSUME NEW i \in DOMAIN log, NEW j \in DOMAIN log, log[i] = log[j] PROVE i = j
    BY DEF IsInjective
  <2>1. i \in Nat /\ j \in Nat /\ ~(i < j) /\ ~(j < i)
    BY <1>1 DEF Ordered
  <2> QED
    BY <2>1
<1>3. ASSUME NEW i \in DOMAIN log, log[i].kind = "row"
      PROVE  log[i].slot \in 1..Cardinality(Originals) /\ log[i].original \in Originals
             /\ log[i] \in [kind : {"row"}, slot : Nat, original : Originals]
  <2>1. log[i] \in [kind : {"row"}, slot : Nat, original : Originals]
    BY <1>1, <1>3, EntryKinds
  <2>2. log[i].slot = Cardinality(RowsUpTo(log, i)) /\ i \in Nat /\ i \in 1..Len(log)
    BY <1>1, <1>3 DEF Ordered
  <2>3. Cardinality(RowsUpTo(log, i)) # 0
    <3>1. i \in RowsUpTo(log, i)
      BY <1>3, <2>2 DEF RowsUpTo
    <3> QED
      BY <2>2, <3>1, RowsUpToFinite, FS_EmptySet
  <2>4. Cardinality(RowsUpTo(log, i)) <= Cardinality(Originals)
    BY <2>2, RowsUpToBound
  <2>5. Cardinality(Originals) \in Nat /\ Cardinality(RowsUpTo(log, i)) \in Nat
    BY <2>2, OriginalsAssumption, FS_CardinalityType, RowsUpToFinite
  <2> QED
    BY <2>1, <2>2, <2>3, <2>4, <2>5
<1>4. Range(log) \subseteq Transactions
  <2> SUFFICES ASSUME NEW i \in DOMAIN log PROVE log[i] \in Transactions
    BY DEF Range
  <2>1. CASE log[i].kind = "row"
    BY <1>3, <2>1 DEF Transactions
  <2>2. CASE log[i].kind # "row"
    <3>1. log[i] \in Entries
      BY <1>1
    <3> QED
      BY <2>2, <3>1 DEF Entries, Transactions
  <2> QED
    BY <2>1, <2>2
<1>5. Rows \subseteq Grants
  BY <1>3 DEF Rows, Grants
<1> QED
  BY <1>2, <1>4, <1>5

-----------------------------------------------------------------------------

(* A step of one worker.                                                   *)
LEMMA WorkerMoves ==
    ASSUME WorkersInv, NEW w \in Workers, NEW place \in Places, NEW g,
           setup' = setup, pc' = [pc EXCEPT ![w] = place],
           guardrail' = [guardrail EXCEPT ![w] = g], Built(place, g)
    PROVE  WorkersInv'
<1>1. \A v \in Workers : Built(pc'[v], guardrail'[v])
  <2> TAKE v \in Workers
  <2>1. CASE v = w
    BY <2>1 DEF WorkersInv
  <2>2. CASE v # w
    BY <2>2 DEF WorkersInv
  <2> QED
    BY <2>1, <2>2
<1>2. \A v \in Workers : Built(pc[v], guardrail[v])'
  BY <1>1 DEF Built
<1>3. setup' \in Setups /\ pc' \in [Workers -> Places]
      /\ guardrail' = [v \in Workers |-> guardrail'[v]]
  BY DEF WorkersInv
<1> QED
  BY <1>2, <1>3 DEF WorkersInv

(* A worker goes on with what it has.                                      *)
LEMMA WorkerGoesOn ==
    ASSUME WorkersInv, NEW w \in Workers, NEW place \in Places,
           setup' = setup, pc' = [pc EXCEPT ![w] = place], guardrail' = guardrail,
           pc[w] \in Building <=> place \in Building
    PROVE  WorkersInv'
<1>1. guardrail' = [guardrail EXCEPT ![w] = guardrail[w]]
  BY DEF WorkersInv
<1>2. Built(place, guardrail[w])
  BY DEF WorkersInv, Built
<1> QED
  BY <1>1, <1>2, WorkerMoves

LEMMA WorkerSteps ==
    ASSUME WorkersInv, NEW w \in Workers, Advance(w) \/ DbError(w) \/ Crash(w)
    PROVE  WorkersInv'
<1>1. setup' = setup
  BY DEF Advance, Start, Construct, ConstructRaises, Exists, Create, CreateRaced, Tighten,
     CreateTable, Count, Seed, SeedRaced, DbError, Crash
<1>2. CASE \/ ConstructRaises(w) \/ CreateRaced(w) \/ SeedRaced(w)
           \/ DbError(w) \/ Crash(w)
  <2>1. PICK place \in {"failed", "down"} : pc' = [pc EXCEPT ![w] = place]
    BY <1>2 DEF ConstructRaises, CreateRaced, SeedRaced, DbError, Crash, Fail, Go
  <2>2. guardrail' = [guardrail EXCEPT ![w] = None]
    BY <1>2 DEF ConstructRaises, CreateRaced, SeedRaced, DbError, Crash, Fail
  <2>3. place \in Places /\ Built(place, None)
    BY DEF Places, Built, Building, Opening
  <2> QED
    BY <1>1, <2>1, <2>2, <2>3, WorkerMoves
<1>3. CASE Construct(w)
  <2>1. /\ pc' = [pc EXCEPT ![w] = "exists"] /\ Constructible(setup)
        /\ guardrail' = [guardrail EXCEPT ![w] = BuildGuardrail(setup)]
    BY <1>3 DEF Construct, Go
  <2>2. "exists" \in Places /\ Built("exists", BuildGuardrail(setup))
    BY <2>1 DEF Places, Built, Building, Opening
  <2> QED
    BY <1>1, <2>1, <2>2, WorkerMoves
<1>4. CASE Start(w)
  <2>1. pc' = [pc EXCEPT ![w] = "construct"] /\ guardrail' = guardrail
        /\ pc[w] \notin Building /\ "construct" \in Places /\ "construct" \notin Building
    BY <1>4 DEF Start, Go, Building, Opening, Places
  <2> QED
    BY <1>1, <2>1, WorkerGoesOn
<1>5. CASE \/ Exists(w) \/ Create(w) \/ Tighten(w) \/ Count(w) \/ Seed(w)
           \/ CreateTable(w, "schema_version", "mappings")
           \/ CreateTable(w, "mappings", "count")
  <2>1. PICK place \in Building : pc' = [pc EXCEPT ![w] = place]
    BY <1>5 DEF Exists, Create, Tighten, Count, Seed, CreateTable, Go, Building, Opening
  <2>2. guardrail' = guardrail /\ pc[w] \in Building /\ place \in Places
    BY <1>5 DEF Exists, Create, Tighten, Count, Seed, CreateTable, Building, Opening, Places
  <2> QED
    BY <1>1, <2>1, <2>2, WorkerGoesOn
<1> QED
  BY <1>2, <1>3, <1>4, <1>5 DEF Advance

LEMMA WorkersAtInit == Init => WorkersInv
BY DEF Init, WorkersInv, Places, Built, Building, Opening

LEMMA WorkersNext == ASSUME WorkersInv, [Next]_vars PROVE WorkersInv'
<1>1. CASE UNCHANGED <<setup, pc, guardrail>>
  BY <1>1 DEF WorkersInv, Built
<1>2. ASSUME NEW w \in Workers, Advance(w) \/ DbError(w) \/ Crash(w) PROVE WorkersInv'
  BY <1>2, WorkerSteps
<1>3. CASE PowerFailure
  <2>1. /\ pc' = [w \in Workers |-> "down"] /\ guardrail' = [w \in Workers |-> None]
        /\ setup' = setup
    BY <1>3 DEF PowerFailure
  <2>2. "down" \in Places /\ "down" \notin Building
    BY DEF Places, Building, Opening
  <2> QED
    BY <2>1, <2>2 DEF WorkersInv, Built
<1>4. ASSUME \/ \E w \in Workers, o \in Originals : Assign(w, o)
             \/ Checkpoint \/ UNCHANGED vars
      PROVE  UNCHANGED <<setup, pc, guardrail>>
  BY <1>4 DEF Assign, Checkpoint, vars
<1> QED
  BY <1>1, <1>2, <1>3, <1>4 DEF Next

-----------------------------------------------------------------------------

(* A transaction more, and what was handed out.                            *)
LEMMA RecordsCommit ==
    ASSUME RecordsInv, NEW t \in Entries, t.kind # "row", ~Has(t.kind),
           log' = Append(log, t), synced' = synced, issued' = issued, faults' = faults
    PROVE  RecordsInv'
<1>1. \A i \in DOMAIN log : log[i].kind # t.kind
  BY DEF Has
<1>2. Ordered(log')
  BY <1>1, OrderedAppend DEF RecordsInv
<1>3. log \in Seq(Entries) /\ Len(log') = Len(log) + 1 /\ synced \in 0..Len(log)
  BY DEF RecordsInv, Ordered
<1> QED
  BY <1>2, <1>3 DEF RecordsInv

LEMMA RecordsAssign ==
    ASSUME RecordsInv, NEW w \in Workers, NEW o \in Originals, Assign(w, o)
    PROVE  RecordsInv'
<1> DEFINE own == {r \in Rows : r.original = o}
           free == [slot |-> Cardinality(Rows) + 1, original |-> o]
<1>1. /\ Ordered(log) /\ log \in Seq(Entries) /\ synced \in 0..Len(log)
      /\ issued \subseteq Grants /\ faults' = faults /\ faults \in 0..MaxFaults
  BY DEF RecordsInv, Ordered, Assign
<1>2. CASE own # {}
  <2>1. log' = log /\ synced' = synced
    BY <1>2 DEF Assign
  <2>2. issued' = issued \cup {CHOOSE r \in own : TRUE}
    BY <1>2 DEF Assign
  <2>3. (CHOOSE r \in own : TRUE) \in Rows
    BY <1>2
  <2>4. issued' \subseteq Grants
    BY <1>1, <2>2, <2>3, EntriesAreTransactions
  <2> QED
    BY <1>1, <2>1, <2>4 DEF RecordsInv
<1>3. CASE own = {}
  <2> DEFINE t == [kind |-> "row", slot |-> Cardinality(Rows) + 1, original |-> o]
  <2>1. log' = Append(log, t) /\ synced' = synced
    BY <1>3 DEF Assign, Commit
  <2>2. issued' = issued \cup {free}
    BY <1>3 DEF Assign
  <2>3. /\ t \in Entries /\ t.kind = "row" /\ t.original = o
        /\ t.slot = Cardinality(RowsUpTo(log, Len(log))) + 1
    BY <1>1, RowsCounted DEF Entries
  <2>4. \A i \in DOMAIN log : log[i].kind = "row" => log[i].original # o
    <3> SUFFICES ASSUME NEW i \in DOMAIN log, log[i].kind = "row", log[i].original = o
                 PROVE  FALSE
      OBVIOUS
    <3> DEFINE row == [slot |-> log[i].slot, original |-> log[i].original]
    <3>1. row \in Rows
      BY DEF Rows
    <3>2. row.original = o
      OBVIOUS
    <3> HIDE DEF row
    <3> QED
      BY <1>3, <3>1, <3>2
  <2> HIDE DEF t
  <2>5. Ordered(log')
    BY <1>1, <2>1, <2>3, <2>4, OrderedAppend
  <2>6. Rows' \subseteq Grants
    <3>1. (Ordered(log) => Rows \subseteq Grants)'
      BY EntriesAreTransactions, PTL
    <3> QED
      BY <2>5, <3>1 DEF Grants
  <2>7. free \in Rows'
    <3>1. /\ Len(log) \in Nat /\ DOMAIN log' = 1..(Len(log) + 1) /\ log'[Len(log) + 1] = t
      BY <1>1, <2>1, <2>3
    <3>2. /\ Len(log) + 1 \in {j \in DOMAIN log' : log'[j].kind = "row"}
          /\ free = [slot |-> log'[Len(log) + 1].slot, original |-> log'[Len(log) + 1].original]
      BY <2>3, <3>1 DEF t
    <3> QED
      BY <3>2, Zenon DEF Rows
  <2>8. issued' \subseteq Grants
    BY <1>1, <2>2, <2>6, <2>7
  <2>9. Len(log') = Len(log) + 1
    BY <1>1, <2>1, <2>3
  <2> QED
    BY <1>1, <2>1, <2>5, <2>8, <2>9 DEF RecordsInv
<1> QED
  BY <1>2, <1>3

LEMMA RecordsAtInit == Init => RecordsInv
<1> SUFFICES ASSUME Init PROVE RecordsInv
  OBVIOUS
<1>1. log = <<>> /\ synced = 0 /\ issued = {} /\ faults = 0
  BY DEF Init
<1>2. Ordered(<<>>) /\ Len(<<>>) = 0
  BY DEF Ordered
<1> QED
  BY <1>1, <1>2, MaxFaultsAssumption DEF RecordsInv

LEMMA RecordsNext == ASSUME RecordsInv, [Next]_vars PROVE RecordsInv'
<1>1. ASSUME UNCHANGED <<log, synced, issued>>, faults' \in 0..MaxFaults PROVE RecordsInv'
  BY <1>1 DEF RecordsInv
<1>2. faults \in 0..MaxFaults /\ synced \in 0..Len(log) /\ log \in Seq(Entries) /\ Ordered(log)
  BY DEF RecordsInv, Ordered
<1>3. Fault => faults' \in 0..MaxFaults
  BY <1>2, MaxFaultsAssumption DEF Fault
<1>4. ASSUME NEW w \in Workers, Advance(w) PROVE RecordsInv'
  <2>1. CASE \/ CreateTable(w, "schema_version", "mappings")
             \/ CreateTable(w, "mappings", "count")
    <3>1. PICK table \in {"schema_version", "mappings"} :
            \E next : CreateTable(w, table, next)
      BY <2>1
    <3>2. CASE Has(table)
      BY <1>1, <1>2, <3>1, <3>2 DEF CreateTable
    <3>3. CASE ~Has(table)
      <4> DEFINE t == [kind |-> table]
      <4>1. t \in Entries /\ t.kind # "row" /\ ~Has(t.kind)
        BY <3>3 DEF Entries
      <4>2. log' = Append(log, t) /\ synced' = synced /\ issued' = issued /\ faults' = faults
        BY <3>1, <3>3 DEF CreateTable, Commit
      <4> HIDE DEF t
      <4> QED
        BY <4>1, <4>2, RecordsCommit
    <3> QED
      BY <3>2, <3>3
  <2>2. CASE Seed(w)
    <3> DEFINE t == [kind |-> "seed"]
    <3>1. t \in Entries /\ t.kind # "row" /\ ~Has(t.kind)
      BY <2>2 DEF Entries, Seed
    <3>2. log' = Append(log, t) /\ synced' = synced /\ issued' = issued /\ faults' = faults
      BY <2>2 DEF Seed, Commit
    <3> HIDE DEF t
    <3> QED
      BY <3>1, <3>2, RecordsCommit
  <2>3. CASE \/ Start(w) \/ Construct(w) \/ ConstructRaises(w) \/ Exists(w) \/ Create(w)
             \/ CreateRaced(w) \/ Tighten(w) \/ Count(w) \/ SeedRaced(w)
    <3>1. UNCHANGED <<log, synced, issued, faults>>
      BY <2>3 DEF Start, Construct, ConstructRaises, Exists, Create, CreateRaced, Tighten,
         Count, SeedRaced
    <3> QED
      BY <1>1, <1>2, <3>1
  <2> QED
    BY <1>4, <2>1, <2>2, <2>3 DEF Advance
<1>5. ASSUME NEW w \in Workers, DbError(w) \/ Crash(w) PROVE RecordsInv'
  BY <1>1, <1>3, <1>5 DEF DbError, Crash
<1>6. CASE Checkpoint
  BY <1>2, <1>6 DEF Checkpoint, RecordsInv
<1>7. CASE PowerFailure
  <2>1. PICK n \in synced..Len(log) : log' = SubSeq(log, 1, n)
    BY <1>7 DEF PowerFailure
  <2>2. n \in 0..Len(log) /\ synced \in 0..n
    BY <1>2, <2>1
  <2>3. Ordered(log') /\ Len(log') = n
    BY <1>2, <2>1, <2>2, OrderedPrefix
  <2>4. synced' = synced /\ issued' = issued /\ Fault
    BY <1>7 DEF PowerFailure
  <2> QED
    BY <1>3, <2>2, <2>3, <2>4 DEF RecordsInv
<1>8. CASE UNCHANGED vars
  BY <1>1, <1>2, <1>8 DEF vars
<1>9. ASSUME NEW w \in Workers, NEW o \in Originals, Assign(w, o) PROVE RecordsInv'
  BY <1>9, RecordsAssign
<1> QED
  BY <1>4, <1>5, <1>6, <1>7, <1>8, <1>9 DEF Next

(* No transaction is in the file twice, the rows of a base have the slots  *)
(* 1, 2, ... without a gap, also after a power failure took the last of    *)
(* them back, and a worker has a guardrail exactly while it opens the vault*)
(* or serves (vault.py:79-107).                                            *)
THEOREM StartupTypes == Spec => []TypeOK
<1>1. Init => WorkersInv /\ RecordsInv
  BY WorkersAtInit, RecordsAtInit
<1>2. WorkersInv /\ RecordsInv /\ [Next]_vars => (WorkersInv /\ RecordsInv)'
  BY WorkersNext, RecordsNext
<1>3. IInv /\ WorkersInv /\ RecordsInv => TypeOK
  <2> SUFFICES ASSUME IInv, WorkersInv, RecordsInv PROVE TypeOK
    OBVIOUS
  <2>1. ASSUME NEW w \in Workers, pc[w] \in Building PROVE Usable(guardrail[w])
    <3>1. Constructible(setup) /\ guardrail[w].org_key = OrgKey(setup)
      BY <2>1 DEF WorkersInv, Built, BuildGuardrail
    <3>2. setup.params.org_key \in Values /\ setup.env.org_key \in Held
      BY SetupsAssumption DEF WorkersInv
    <3> QED
      BY <3>1, <3>2 DEF Constructible, Accepted, KeyAccepted, OrgKey, ResolveEnv, Values, Held,
         Usable
  <2>2. \A w \in Workers :
          IF pc[w] \in Opening \cup {"serving"} THEN Usable(guardrail[w])
                                                ELSE guardrail[w] = None
    BY <2>1 DEF Building, WorkersInv, Built
  <2>3. IsInjective(log) /\ Range(log) \subseteq Transactions
    BY EntriesAreTransactions DEF RecordsInv
  <2> QED
    BY <2>2, <2>3 DEF TypeOK, IInv, FileInv, WorkersInv, RecordsInv, Places
<1> QED
  BY <1>1, <1>2, <1>3, OpeningInvariant, PTL DEF Spec

LEMMA EntryOf == ASSUME NEW S, NEW s \in Seq(S) PROVE \A i \in DOMAIN s : s[i] \in S
OBVIOUS

(* The detector of a worker that serves finds exactly what the dictionary  *)
(* file asks for: entries that share a key, in one automaton or across the *)
(* two and in any order, hide nothing (detector.py:120-139).               *)
THEOREM DictionaryIsWhole == Spec => []NoTermLost
<1>1. Init => WorkersInv
  BY WorkersAtInit
<1>2. WorkersInv /\ [Next]_vars => WorkersInv'
  BY WorkersNext
<1>3. WorkersInv => NoTermLost
  <2> SUFFICES ASSUME WorkersInv, NEW w \in Workers, pc[w] = "serving",
                      guardrail[w].dictionary_path = "given", NEW text \in Spellings
               PROVE  Detects(guardrail[w], text) <=>
                          \E i \in DOMAIN setup.file.terms : AskedFor(setup.file.terms[i], text)
    BY DEF NoTermLost
  <2> DEFINE terms == setup.file.terms
  <2>1. /\ guardrail[w] = BuildGuardrail(setup) /\ Constructible(setup)
        /\ setup \in Setups
    BY DEF WorkersInv, Built, Building
  <2>2. Path(setup) = "given"
    BY <2>1 DEF BuildGuardrail
  <2>3. Opened(setup) /\ ~LoadRaises(setup)
    <3>1. Path(setup) # Absent
      BY <2>1 DEF Constructible, Accepted
    <3> QED
      BY <2>1, <2>2, <3>1 DEF Opened, Constructible
  <2>4. setup.file \in DictionaryFiles
    BY <2>1, <2>3, SetupsAssumption DEF LoadRaises
  <2>5. \A i \in DOMAIN terms :
          /\ terms[i].term \in Spellings /\ terms[i].case_sensitive \in BOOLEAN
    <3>1. terms \in Seq([term : Spellings \cup {Blank}, case_sensitive : BOOLEAN])
      BY <2>4 DEF DictionaryFiles
    <3>2. \A i \in DOMAIN terms : terms[i].term # Blank
      BY <2>3 DEF LoadRaises
    <3>3. \A i \in DOMAIN terms :
            terms[i] \in [term : Spellings \cup {Blank}, case_sensitive : BOOLEAN]
      BY <3>1, EntryOf, Zenon
    <3> QED
      BY <3>2, <3>3
  <2>6. guardrail[w].automata = BuildAutomata(terms)
    BY <2>1, <2>3 DEF BuildGuardrail, Dictionary
  <2>7. Detects(guardrail[w], text) <=>
          \/ \E i \in DOMAIN terms :
                terms[i].case_sensitive = FALSE /\ Lower[terms[i].term] = Lower[text]
          \/ \E i \in DOMAIN terms :
                terms[i].case_sensitive = TRUE /\ Exact[terms[i].term] = text
    <3>1. Detects(guardrail[w], text) <=>
            \/ Lower[text] \in DOMAIN FirstOfEach(terms, FALSE, Lower)
            \/ text \in DOMAIN FirstOfEach(terms, TRUE, Exact)
      BY <2>6 DEF Detects, BuildAutomata
    <3> HIDE DEF terms
    <3>2. \A k : k \in DOMAIN FirstOfEach(terms, FALSE, Lower) <=>
            \E i \in DOMAIN terms :
                terms[i].case_sensitive = FALSE /\ Lower[terms[i].term] = k
      BY DEF FirstOfEach
    <3>3. \A k : k \in DOMAIN FirstOfEach(terms, TRUE, Exact) <=>
            \E i \in DOMAIN terms :
                terms[i].case_sensitive = TRUE /\ Exact[terms[i].term] = k
      BY DEF FirstOfEach
    <3> QED
      BY <3>1, <3>2, <3>3
  <2>8. \A i \in DOMAIN terms : Exact[terms[i].term] = terms[i].term
    BY <2>5 DEF Exact
  <2> QED
    BY <2>5, <2>7, <2>8 DEF AskedFor
<1> QED
  BY <1>1, <1>2, <1>3, PTL DEF Spec
=============================================================================
