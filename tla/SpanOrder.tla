----------------------------- MODULE SpanOrder -----------------------------
(***************************************************************************)
(* Spans of a text as lexvault.detector orders and compares them.  A span  *)
(* is a record with the half-open range [start, end) and the number of the *)
(* source that reported it.                                                *)
(***************************************************************************)
EXTENDS Integers

(* Variant: only a begin inside the other span counts as an overlap.       *)
OverlapsOneSided(a, b) == a.start <= b.start /\ b.start < a.end

(* _ranges_overlap and _Span.overlaps.                                     *)
Overlaps(a, b) == a.start < b.end /\ b.start < a.end

Size(s) == s.end - s.start

(* Variant: shortest span first.                                           *)
ShorterFirst(a, b) ==
    \/ Size(a) < Size(b)
    \/ Size(a) = Size(b) /\ a.start < b.start
    \/ Size(a) = Size(b) /\ a.start = b.start /\ a.source < b.source

(* The order of candidates.sort(): longer first, then leftmost, then the   *)
(* order of collection.                                                    *)
Precedes(a, b) ==
    \/ Size(a) > Size(b)
    \/ Size(a) = Size(b) /\ a.start < b.start
    \/ Size(a) = Size(b) /\ a.start = b.start /\ a.source < b.source

(* What "longest-then-leftmost" means, without a loop: a span is kept      *)
(* exactly when no kept span before it in the order overlaps it.  A finite *)
(* set of spans has one such subset only, so the outcome is independent of *)
(* the order in which the hits were collected (detector.py:11-12).         *)
IsResolution(K, C) ==
    /\ K \subseteq C
    /\ \A c \in C : c \in K <=> ~\E k \in K : Precedes(k, c) /\ Overlaps(k, c)

(* kept.sort(key=start), then _rebuild's sort by start: both are stable,   *)
(* so spans with one start stay in the order they were kept.               *)
PlanBefore(a, b) == a.start < b.start \/ (a.start = b.start /\ Precedes(a, b))
=============================================================================
