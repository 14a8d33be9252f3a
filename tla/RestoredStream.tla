---------------------------- MODULE RestoredStream ----------------------------
(***************************************************************************)
(* What restoring a stream promises, whatever buffers it takes: text       *)
(* arrives on channels, and what has been given of a channel always begins *)
(* what restoring all its text so far would give.  A channel is closed     *)
(* once, with all its text, unless the text is cut short inside a          *)
(* placeholder: then the rest may be kept back, and if the whole stream    *)
(* ends there it ends in an error.  After that nothing more is given.      *)
(*                                                                         *)
(* Implemented by PlaceholderBuffer (one message), RestoreBytes (content   *)
(* blocks) and RestoreObjects (a choice).                                  *)
(***************************************************************************)
EXTENDS Sequences, SequencesExt

CONSTANTS Channels,       \* what keeps its own order: blocks, choices
          Stoppable,      \* channels with a stop of their own: blocks
          Restored(_),    \* a text with its placeholders restored
          CutShort(_)     \* a text ends inside a placeholder

VARIABLES arrived,   \* text that came in on each channel
          given,     \* text that went out on each channel
          open,      \* channels that are not closed
          failed     \* the stream ended in an error

vars == <<arrived, given, open, failed>>

Init ==
    /\ arrived = [c \in Channels |-> <<>>]
    /\ given = [c \in Channels |-> <<>>]
    /\ open = Channels
    /\ failed = FALSE

(* More goes out of c, and still no more than is restored for sure.        *)
GivesMore(c) ==
    /\ IsPrefix(given[c], given'[c])
    /\ IsPrefix(given'[c], Restored(arrived'[c]))

(* Text comes in on c and perhaps some goes out.                           *)
Pass(c) ==
    /\ c \in open
    /\ arrived' = [arrived EXCEPT ![c] = arrived'[c]]
    /\ IsPrefix(arrived[c], arrived'[c])
    /\ given' = [given EXCEPT ![c] = given'[c]]
    /\ GivesMore(c)
    /\ UNCHANGED <<open, failed>>

(* The last of c goes out.                                                 *)
GivesRest(c) ==
    /\ GivesMore(c)
    /\ ~CutShort(arrived[c]) => given'[c] = Restored(arrived[c])

Close(c) ==
    /\ c \in open \cap Stoppable
    /\ open' = open \ {c}
    /\ given' = [given EXCEPT ![c] = given'[c]]
    /\ UNCHANGED <<arrived, failed>>
    /\ GivesRest(c)

(* The source ends with channels open.                                     *)
End ==
    /\ ~failed
    /\ open' = {}
    /\ failed' = \E c \in open : CutShort(arrived[c])
    /\ UNCHANGED arrived
    /\ \A c \in Channels : IF c \in open THEN GivesRest(c) ELSE given'[c] = given[c]

(* Restoring fails, or the source does.                                    *)
Fail ==
    /\ ~failed
    /\ open' = {}
    /\ failed' = TRUE
    /\ UNCHANGED arrived
    /\ \A c \in Channels : IF c \in open THEN GivesMore(c) ELSE given'[c] = given[c]

Next ==
    \/ \E c \in Channels : Pass(c) \/ Close(c)
    \/ End
    \/ Fail

Spec == Init /\ [][Next]_vars
=============================================================================
