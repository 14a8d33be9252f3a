--------------------------- MODULE PseudonymStore ---------------------------
(***************************************************************************)
(* What the mapping vault promises, without processes, locks or a database.*)
(*                                                                         *)
(* A "base" is a placeholder as derive_placeholder produces it; slot 1 of  *)
(* a base is the base itself and slot k its k-th disambiguated form        *)
(* (base, base-2, base-3, ...).  The store grants every original at most   *)
(* one slot of a base, takes the slots of a base in order, and never takes *)
(* a grant back.  A placeholder that has been issued to a caller is one    *)
(* that was granted.                                                       *)
(***************************************************************************)
EXTENDS Integers

CONSTANTS Bases,      \* undisambiguated placeholders
          Originals,  \* the texts they stand for
          MaxTries    \* slots of a base (998 in the code)

VARIABLES granted,    \* set of grants ever made
          issued      \* the grants some caller was told about

storeVars == <<granted, issued>>

Slots == 1..MaxTries

Grants == [base : Bases, slot : Slots, original : Originals]

StoreTypeOK == granted \subseteq Grants /\ issued \subseteq Grants

Taken(b, k) == \E g \in granted : g.base = b /\ g.slot = k

Holds(b, o) == \E g \in granted : g.base = b /\ g.original = o

StoreInit == granted = {} /\ issued = {}

(* A first request for an original takes the first slot nobody holds.      *)
Grant(b, k, o) ==
    /\ ~Holds(b, o)
    /\ ~Taken(b, k)
    /\ \A l \in 1..(k-1) : Taken(b, l)
    /\ granted' = granted \cup {[base |-> b, slot |-> k, original |-> o]}
    /\ UNCHANGED issued

(* A caller is told a grant; asking again tells it the same one.           *)
Issue(g) ==
    /\ issued' = issued \cup {g}
    /\ UNCHANGED granted

StoreNext ==
    \/ \E b \in Bases, k \in Slots, o \in Originals : Grant(b, k, o)
    \/ \E g \in granted : Issue(g)

StoreSpec == StoreInit /\ [][StoreNext]_storeVars
=============================================================================
