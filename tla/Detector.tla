------------------------------ MODULE Detector ------------------------------
(***************************************************************************)
(* lexvault.detector.Detector.find_matches: collect every span the two     *)
(* automata and the regexes report, drop the spans that touch an already   *)
(* present placeholder, then keep greedily, longest span first.            *)
(*                                                                         *)
(* A text is only its length and a span is the half-open range             *)
(* [start, end) with the source that reported it.  Sources are numbered in *)
(* the order _collect_candidates asks them: 0 the case-insensitive         *)
(* automaton, 1 the case-sensitive one, 2.. the compiled regexes.  Two     *)
(* spans of one source never have the same range, so a candidate is        *)
(* identified by its range and its source, and Python's stable sort breaks *)
(* ties of _sort_key by source.                                            *)
(***************************************************************************)
EXTENDS SpanOrder, FiniteSets

CONSTANTS Length,         \* characters of the text
          LastSource,     \* number of the last regex, or 1 without regexes
          EmptyMatches,   \* may a configured regex match the empty string
          MaxCandidates   \* bound on the spans collected, for TLC

ASSUME LengthAssumption == Length \in Nat
ASSUME SourceAssumption == LastSource \in Nat /\ LastSource >= 1
ASSUME EmptyAssumption == EmptyMatches \in BOOLEAN
ASSUME CandidateAssumption == MaxCandidates \in Nat

VARIABLES candidates,   \* spans collected
          regions,      \* ranges that match the placeholder namespace
          todo,         \* candidates the resolution loop has not visited
          kept,         \* spans it has kept
          pc

detectorVars == <<candidates, regions, todo, kept, pc>>

Positions == 0..Length

Sources == 0..LastSource

Regexes == 2..LastSource

(* Dictionary terms are never empty (config.py), and a regex pattern is    *)
(* only checked to be a non-blank string, so it may match "".              *)
Spans ==
    {s \in [start : Positions, end : Positions, source : Sources] :
        \/ s.start < s.end
        \/ s.start = s.end /\ s.source \in Regexes /\ EmptyMatches}

Regions == {r \in [start : Positions, end : Positions] : r.start < r.end}

DetectorTypeOK ==
    /\ candidates \subseteq Spans
    /\ regions \subseteq Regions
    /\ todo \subseteq candidates
    /\ kept \subseteq candidates
    /\ pc \in {"collect", "exclude", "resolve", "done"}

DetectorInit ==
    /\ candidates = {}
    /\ regions = {}
    /\ todo = {}
    /\ kept = {}
    /\ pc = "collect"

-----------------------------------------------------------------------------

(* Variant: the automaton's inclusive end index is taken for the length.   *)
AddSpanTooLong(s) ==
    /\ pc = "collect"
    /\ Cardinality(candidates) < MaxCandidates
    /\ candidates' = candidates \cup {[s EXCEPT !.end = @ + 1]}
    /\ UNCHANGED <<regions, todo, kept, pc>>

(* One more hit.  An automaton may report any set of ranges; a regex's     *)
(* finditer reports disjoint ones.                                         *)
AddSpan(s) ==
    /\ pc = "collect"
    /\ Cardinality(candidates) < MaxCandidates
    /\ \A c \in candidates :
          /\ c.source <= s.source
          /\ (c.source = s.source /\ s.source \in Regexes) => ~Overlaps(c, s)
    /\ candidates' = candidates \cup {s}
    /\ UNCHANGED <<regions, todo, kept, pc>>

(* "if not candidates: return []": nothing is masked.                      *)
NothingFound ==
    /\ pc = "collect"
    /\ candidates = {}
    /\ pc' = "done"
    /\ UNCHANGED <<candidates, regions, todo, kept>>

(* _placeholder_regions: finditer of the namespace regex, so disjoint.     *)
FindRegions(R) ==
    /\ pc = "collect"
    /\ candidates # {}
    /\ \A r, q \in R : r # q => ~Overlaps(r, q)
    /\ regions' = R
    /\ pc' = "exclude"
    /\ UNCHANGED <<candidates, todo, kept>>

Excluded(s) == \E r \in regions : Overlaps(s, r)

(* Variant: only a span that lies wholly inside a placeholder is excluded. *)
ExcludeInside ==
    /\ pc = "exclude"
    /\ todo' = {s \in candidates :
                   ~\E r \in regions : r.start <= s.start /\ s.end <= r.end}
    /\ pc' = "resolve"
    /\ UNCHANGED <<candidates, regions, kept>>

(* Spans that overlap a placeholder are left alone (invariant 16).         *)
Exclude ==
    /\ pc = "exclude"
    /\ todo' = {s \in candidates : ~Excluded(s)}
    /\ pc' = "resolve"
    /\ UNCHANGED <<candidates, regions, kept>>

First(s) == s \in todo /\ \A r \in todo : r = s \/ Precedes(s, r)

(* Variant: a span is compared with the last span kept only.               *)
CollidesLast(s) ==
    \E k \in kept : Overlaps(s, k) /\ \A j \in kept : j = k \/ Precedes(j, k)

Collides(s) == \E k \in kept : Overlaps(s, k)

(* One turn of "for span in candidates": keep it unless it overlaps a span *)
(* already kept.                                                           *)
Keep(s) ==
    /\ pc = "resolve"
    /\ First(s)
    /\ ~Collides(s)
    /\ kept' = kept \cup {s}
    /\ todo' = todo \ {s}
    /\ UNCHANGED <<candidates, regions, pc>>

Skip(s) ==
    /\ pc = "resolve"
    /\ First(s)
    /\ Collides(s)
    /\ todo' = todo \ {s}
    /\ UNCHANGED <<candidates, regions, kept, pc>>

(* The loop is over; the kept spans are returned by start.                 *)
Return ==
    /\ pc = "resolve"
    /\ todo = {}
    /\ pc' = "done"
    /\ UNCHANGED <<candidates, regions, todo, kept>>

DetectorNext ==
    \/ \E s \in Spans : AddSpan(s)
    \/ NothingFound
    \/ \E R \in SUBSET Regions : FindRegions(R)
    \/ Exclude
    \/ \E s \in todo : Keep(s)
    \/ \E s \in todo : Skip(s)
    \/ Return

DetectorSpec == DetectorInit /\ [][DetectorNext]_detectorVars

-----------------------------------------------------------------------------

Eligible == {s \in candidates : ~Excluded(s)}

(* The invariant of the loop: it visits the spans in order, and the ones   *)
(* visited are resolved.                                                   *)
Visited == Eligible \ todo

LoopInv ==
    pc \in {"resolve", "done"} =>
        /\ todo \subseteq Eligible
        /\ \A v \in Visited, s \in todo : Precedes(v, s)
        /\ IsResolution(kept, Visited)

ReturnInv == pc = "done" => todo = {}

StartInv == pc \in {"collect", "exclude"} => todo = {} /\ kept = {}

IInv == DetectorTypeOK /\ LoopInv /\ ReturnInv /\ StartInv

(* The loop computes the longest-then-leftmost resolution of the spans     *)
(* that touch no placeholder (detector.py:162-181).                        *)
LoopResolves == pc = "done" => IsResolution(kept, Eligible)

(* Every hit is either touching a placeholder, masked itself, or           *)
(* overlapped by a masked span at least as long: no match of the           *)
(* dictionary is forgotten by overlap resolution.                          *)
NothingForgotten ==
    pc = "done" =>
        \A c \in candidates :
            \/ Excluded(c)
            \/ c \in kept
            \/ \E k \in kept : Overlaps(k, c) /\ Size(k) >= Size(c)

(* No masked span touches a placeholder that was already in the text       *)
(* (idempotent re-masking, detector.py:162-171).                           *)
PlaceholdersUntouched ==
    pc = "done" => \A k \in kept, r \in regions : ~Overlaps(k, r)

(* What _rebuild takes for granted (engine.py:145-147, "Non-overlap is     *)
(* guaranteed by the detector's overlap resolution"): in the order in      *)
(* which it copies the spans, each ends where the next begins or before.   *)
(* Otherwise its cursor moves back and the text already masked is copied a *)
(* second time, unmasked.                                                  *)
PlanNonOverlapping ==
    pc = "done" => \A a, b \in kept : PlanBefore(a, b) => a.end <= b.start
=============================================================================
