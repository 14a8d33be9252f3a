------------------------------- MODULE Startup -------------------------------
(***************************************************************************)
(* Workers of one proxy that start, die and start again on one vault file: *)
(* the guardrail is constructed (Configuration) and MappingVault._open     *)
(* creates the file, its tables and its version row, one statement at a    *)
(* time, while the other workers do the same.  A worker that serves issues *)
(* placeholders; one call of assign is one step here, which is what        *)
(* MappingVault establishes about its transactions.                        *)
(*                                                                         *)
(* The database is the list of its committed transactions.  Under WAL with *)
(* synchronous=NORMAL a commit survives the death of a process, but only   *)
(* those up to the last checkpoint are sure to survive a power failure.    *)
(***************************************************************************)
EXTENDS Configuration, Naturals

CONSTANTS Workers,
          Setups,      \* litellm_params, environment and dictionary file
          None,        \* no guardrail in this worker
          Originals,   \* texts whose placeholders share one base
          MaxFaults    \* crashes, power failures and database errors, for TLC

ASSUME MaxFaultsAssumption == MaxFaults \in Nat
ASSUME OriginalsAssumption == IsFiniteSet(Originals)

(* What the proxy hands to the guardrail, as far as it decides whether it  *)
(* is constructed and what it detects.                                     *)
ASSUME SetupsAssumption ==
    \A s \in Setups :
        /\ s.params.org_key \in Values /\ s.env.org_key \in Held
        /\ s.file \in {Absent, Malformed} \cup DictionaryFiles

VARIABLES setup,       \* what this deployment was given
          pc,          \* where each worker stands
          guardrail,   \* what each worker has constructed
          vaultFile,   \* is it there, its mode, does it belong to the workers
          log,         \* committed transactions
          synced,      \* how many of them are in the database file itself
          issued,      \* history: placeholders handed out
          faults

vars == <<setup, pc, guardrail, vaultFile, log, synced, issued, faults>>

Opening == {"exists", "create", "tighten", "schema_version", "mappings", "count", "seed"}

Transactions ==
    [kind : {"schema_version", "mappings", "seed"}]
      \cup [kind : {"row"}, slot : 1..Cardinality(Originals), original : Originals]

Grants == [slot : 1..Cardinality(Originals), original : Originals]

Usable(g) == g.org_key \in {"given", "reference"}

TypeOK ==
    /\ pc \in [Workers -> {"down", "construct", "failed", "serving"} \cup Opening]
    /\ \A w \in Workers :
          IF pc[w] \in Opening \cup {"serving"} THEN Usable(guardrail[w])
                                                ELSE guardrail[w] = None
    /\ vaultFile \in [present : BOOLEAN, mode : {"0600", "0644"}, ours : BOOLEAN]
    /\ IsInjective(log) /\ Range(log) \subseteq Transactions
    /\ synced \in 0..Len(log)
    /\ issued \subseteq Grants
    /\ faults \in 0..MaxFaults

Has(kind) == \E i \in DOMAIN log : log[i].kind = kind

Rows == {[slot |-> log[i].slot, original |-> log[i].original] :
            i \in {j \in DOMAIN log : log[j].kind = "row"}}

Go(w, next) == pc' = [pc EXCEPT ![w] = next]

Init ==
    /\ setup \in Setups
    /\ pc = [w \in Workers |-> "down"]
    /\ guardrail = [w \in Workers |-> None]
    /\ vaultFile \in {[present |-> FALSE, mode |-> "0600", ours |-> TRUE]}
                       \cup [present : {TRUE}, mode : {"0644"}, ours : BOOLEAN]
    /\ log = <<>>
    /\ synced = 0
    /\ issued = {}
    /\ faults = 0

-----------------------------------------------------------------------------

(* The supervisor of the workers starts one that is not running.           *)
Start(w) ==
    /\ pc[w] \in {"down", "failed"}
    /\ Go(w, "construct")
    /\ UNCHANGED <<setup, guardrail, vaultFile, log, synced, issued, faults>>

(* The construction ends with an exception: no guardrail is left.          *)
Fail(w) ==
    /\ Go(w, "failed")
    /\ guardrail' = [guardrail EXCEPT ![w] = None]

(* __init__ up to the vault.                                               *)
Construct(w) ==
    /\ pc[w] = "construct"
    /\ Constructible(setup)
    /\ guardrail' = [guardrail EXCEPT ![w] = BuildGuardrail(setup)]
    /\ Go(w, "exists")
    /\ UNCHANGED <<setup, vaultFile, log, synced, issued, faults>>

ConstructRaises(w) ==
    /\ pc[w] = "construct"
    /\ ~Constructible(setup)
    /\ Fail(w)
    /\ UNCHANGED <<setup, vaultFile, log, synced, issued, faults>>

(* path.exists(), before the file is opened.                               *)
Exists(w) ==
    /\ pc[w] = "exists"
    /\ Go(w, IF vaultFile.present THEN "tighten" ELSE "create")
    /\ UNCHANGED <<setup, guardrail, vaultFile, log, synced, issued, faults>>

(* os.open with O_CREAT | O_EXCL, 0600.                                    *)
Create(w) ==
    /\ pc[w] = "create"
    /\ ~vaultFile.present
    /\ vaultFile' = [present |-> TRUE, mode |-> "0600", ours |-> TRUE]
    /\ Go(w, "schema_version")
    /\ UNCHANGED <<setup, guardrail, log, synced, issued, faults>>

(* Another worker has created it since: FileExistsError.                   *)
CreateRaced(w) ==
    /\ pc[w] = "create"
    /\ vaultFile.present
    /\ Fail(w)
    /\ UNCHANGED <<setup, vaultFile, log, synced, issued, faults>>

(* Variant: an existing file is taken as it is.                            *)
TightenNot(w) ==
    /\ pc[w] = "tighten"
    /\ Go(w, "schema_version")
    /\ UNCHANGED <<setup, guardrail, vaultFile, log, synced, issued, faults>>

(* Variant: an existing file is taken to be a complete database.           *)
TightenSkipsSchema(w) ==
    /\ pc[w] = "tighten"
    /\ Go(w, "serving")
    /\ vaultFile' = IF vaultFile.ours THEN [vaultFile EXCEPT !.mode = "0600"] ELSE vaultFile
    /\ UNCHANGED <<setup, guardrail, log, synced, issued, faults>>

(* chmod 0600 of an existing file; PermissionError is suppressed.          *)
Tighten(w) ==
    /\ pc[w] = "tighten"
    /\ vaultFile' = IF vaultFile.ours THEN [vaultFile EXCEPT !.mode = "0600"] ELSE vaultFile
    /\ Go(w, "schema_version")
    /\ UNCHANGED <<setup, guardrail, log, synced, issued, faults>>

Commit(transaction) ==
    /\ log' = Append(log, transaction)
    /\ UNCHANGED synced

(* executescript: CREATE TABLE IF NOT EXISTS, each its own transaction.    *)
CreateTable(w, table, next) ==
    /\ pc[w] = table
    /\ IF Has(table) THEN UNCHANGED <<log, synced>> ELSE Commit([kind |-> table])
    /\ Go(w, next)
    /\ UNCHANGED <<setup, guardrail, vaultFile, issued, faults>>

(* Variant: the version row is inserted without looking for it.            *)
CountNot(w) ==
    /\ pc[w] = "count"
    /\ Go(w, "seed")
    /\ UNCHANGED <<setup, guardrail, vaultFile, log, synced, issued, faults>>

(* The number of rows of schema_version.                                   *)
Count(w) ==
    /\ pc[w] = "count"
    /\ Go(w, IF Has("seed") THEN "serving" ELSE "seed")
    /\ UNCHANGED <<setup, guardrail, vaultFile, log, synced, issued, faults>>

(* INSERT INTO schema_version and commit.                                  *)
Seed(w) ==
    /\ pc[w] = "seed"
    /\ ~Has("seed")
    /\ Commit([kind |-> "seed"])
    /\ Go(w, "serving")
    /\ UNCHANGED <<setup, guardrail, vaultFile, issued, faults>>

(* Another worker has inserted it since the COUNT: IntegrityError.         *)
SeedRaced(w) ==
    /\ pc[w] = "seed"
    /\ Has("seed")
    /\ Fail(w)
    /\ UNCHANGED <<setup, vaultFile, log, synced, issued, faults>>

(* A worker that serves assigns: the row of this original, or the next     *)
(* free slot of the base.                                                  *)
Assign(w, o) ==
    /\ pc[w] = "serving"
    /\ LET own == {r \in Rows : r.original = o}
           row == IF own # {} THEN CHOOSE r \in own : TRUE
                  ELSE [slot |-> Cardinality(Rows) + 1, original |-> o]
       IN  /\ IF own # {} THEN UNCHANGED <<log, synced>>
              ELSE Commit([kind |-> "row", slot |-> row.slot, original |-> o])
           /\ issued' = issued \cup {row}
    /\ UNCHANGED <<setup, pc, guardrail, vaultFile, faults>>

-----------------------------------------------------------------------------

(* SQLite moves the log into the database file and syncs it.               *)
Checkpoint ==
    /\ synced # Len(log)
    /\ synced' = Len(log)
    /\ UNCHANGED <<setup, pc, guardrail, vaultFile, log, issued, faults>>

Fault == faults < MaxFaults /\ faults' = faults + 1

(* A statement of _open fails, the database having been locked for more    *)
(* than busy_timeout or being unreadable: the exception leaves __init__.   *)
DbError(w) ==
    /\ Fault
    /\ pc[w] \in {"schema_version", "mappings", "count", "seed"}
    /\ Fail(w)
    /\ UNCHANGED <<setup, vaultFile, log, synced, issued>>

(* A worker dies; what it has committed stays.                             *)
Crash(w) ==
    /\ Fault
    /\ pc[w] \notin {"down", "failed"}
    /\ Go(w, "down")
    /\ guardrail' = [guardrail EXCEPT ![w] = None]
    /\ UNCHANGED <<setup, vaultFile, log, synced, issued>>

(* The host dies: transactions after the last checkpoint may be lost.      *)
PowerFailure ==
    /\ Fault
    /\ pc' = [w \in Workers |-> "down"]
    /\ guardrail' = [w \in Workers |-> None]
    /\ \E n \in synced..Len(log) : log' = SubSeq(log, 1, n)
    /\ UNCHANGED <<setup, vaultFile, synced, issued>>

(* What a worker does by itself until it serves.                           *)
Advance(w) ==
    \/ Start(w)
    \/ Construct(w)
    \/ ConstructRaises(w)
    \/ Exists(w)
    \/ Create(w)
    \/ CreateRaced(w)
    \/ Tighten(w)
    \/ CreateTable(w, "schema_version", "mappings")
    \/ CreateTable(w, "mappings", "count")
    \/ Count(w)
    \/ Seed(w)
    \/ SeedRaced(w)

Next ==
    \/ \E w \in Workers : Advance(w)
    \/ \E w \in Workers, o \in Originals : Assign(w, o)
    \/ \E w \in Workers : DbError(w)
    \/ \E w \in Workers : Crash(w)
    \/ Checkpoint
    \/ PowerFailure

(* A running worker goes on, and a supervisor restarts one that ended.     *)
Fairness == \A w \in Workers : WF_vars(Advance(w))

Spec == Init /\ [][Next]_vars /\ Fairness

-----------------------------------------------------------------------------

(* A worker that answers requests has both tables and the version row under*)
(* its connection, whatever was half done when another worker, or the host,*)
(* died during _open (vault.py:79-107).                                    *)
ServingReady ==
    \A w \in Workers : pc[w] = "serving" =>
        Has("schema_version") /\ Has("mappings") /\ Has("seed")

(* No original is ever in a file that others can read, unless the file is  *)
(* one whose mode the workers may not change (vault.py:87-93, invariant    *)
(* 12): the mode is set before the first row, in every interleaving.       *)
Private == Rows # {} /\ vaultFile.ours => vaultFile.mode = "0600"

(* What the entry of a dictionary asks to be found.                        *)
AskedFor(term, text) ==
    IF term.case_sensitive THEN text = term.term ELSE Lower[text] = Lower[term.term]

(* The detector of a worker that serves finds a spelling when, and only    *)
(* when, some entry of the dictionary file asks for it: entries that share *)
(* a key, in one automaton or across the two, in any order, hide nothing   *)
(* (detector.py:120-139).                                                  *)
NoTermLost ==
    \A w \in Workers :
        pc[w] = "serving" /\ guardrail[w].dictionary_path = "given" =>
            \A text \in Spellings :
                Detects(guardrail[w], text) <=>
                    \E i \in DOMAIN setup.file.terms : AskedFor(setup.file.terms[i], text)

(* A worker whose settings were accepted serves in the end, however often  *)
(* it raced the others or died on the way: no start leaves the file in a   *)
(* state in which every later start fails (vault.py:87-106).               *)
EventuallyServes ==
    \A w \in Workers : guardrail[w] # None ~> pc[w] = "serving"

-----------------------------------------------------------------------------
(* What the documentation says and the code does not do.                   *)

(* "Additional regex terms (merged with any regex_terms in the dictionary  *)
(* file)", config.md:93-94: guardrail.py:154 keeps the first list only.    *)
RegexTermsMerged ==
    \A w \in Workers :
        pc[w] = "serving" /\ guardrail[w].dictionary_path = "given" =>
            Range(setup.file.regex_terms) \subseteq Range(guardrail[w].regexes)

(* "Use this for org_key", config.md:111-113: with the variable unset, the *)
(* text of the reference itself becomes the key (guardrail.py:479-480).    *)
KeyIsSecret ==
    \A w \in Workers : pc[w] = "serving" => guardrail[w].org_key # "reference"

(* "a missing file is an error", config.py:163: an empty dictionary_path   *)
(* is not opened at all, and the worker serves without a term.             *)
DictionaryIsLoaded ==
    \A w \in Workers :
        pc[w] = "serving" => guardrail[w].dictionary_path = "given"

(* A placeholder in a client's conversation resolves to the original it    *)
(* was issued for, or to nothing: after a power failure its slot may have  *)
(* been granted to another original (vault.py:101).                        *)
IssuedNeverAnother ==
    \A i \in issued, r \in Rows : i.slot = r.slot => i.original = r.original
=============================================================================
