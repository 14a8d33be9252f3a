--------------------------- MODULE RestoreObjects ---------------------------
(***************************************************************************)
(* lexvault.streaming.restore._restore_objects: a stream of OpenAI chunk   *)
(* objects, each with the text of one or more choices, rewritten in place. *)
(* One PlaceholderBuffer serves the whole stream; the restored text is     *)
(* written into the first choice of the next chunk that has a text slot.   *)
(***************************************************************************)
EXTENDS HoldBack

CONSTANTS ChoiceIds,     \* indices of the choices asked for, 0..n-1 of the request
          Fragments,     \* texts a delta may carry, the empty one included
          MaxChunks      \* bound on the chunks of a stream

VARIABLES buf,       \* the PlaceholderBuffer
          pending,   \* restored text not yet written into a chunk
          sent,      \* text that arrived for each choice, in order
          got,       \* text passed on for each choice, in order
          chunks,    \* chunks that arrived
          finished,  \* the chunk with the finish_reason passed
          status     \* "running", "ended", "error"

vars == <<buf, pending, sent, got, chunks, finished, status>>

TypeOK ==
    /\ DOMAIN sent = ChoiceIds /\ DOMAIN got = ChoiceIds
    /\ chunks \in 0..MaxChunks
    /\ finished \in BOOLEAN
    /\ status \in {"running", "ended", "error"}
    /\ status = "ended" => buf = <<>>

Init ==
    /\ buf = <<>>
    /\ pending = <<>>
    /\ sent = [c \in ChoiceIds |-> <<>>]
    /\ got = [c \in ChoiceIds |-> <<>>]
    /\ chunks = 0
    /\ finished = FALSE
    /\ status = "running"

First(C) == Min(C)

(* "".join of the slots, in the order of the choices list.                 *)
ChunkText(text) ==
    FlattenSeq([k \in 1..Max(ChoiceIds)+1 |->
                   IF k - 1 \in DOMAIN text THEN text[k-1] ELSE <<>>])

(* _write_object_slots: all of it into the first slot, the others cleared. *)
WriteObjectSlots(C, text) == got' = [got EXCEPT ![First(C)] = @ \o text]

-----------------------------------------------------------------------------

(* Variant: the chunk is fed to the buffer after the drain.                *)
ContentChunkFedLate(text) ==
    /\ status = "running"
    /\ chunks < MaxChunks
    /\ LET cut == Cut(buf)
       IN  /\ buf' = SubSeq(buf, cut + 1, Len(buf)) \o ChunkText(text)
           /\ WriteObjectSlots(DOMAIN text,
                               pending \o Restore(SubSeq(buf, 1, cut), Vault))
    /\ pending' = <<>>
    /\ sent' = [c \in ChoiceIds |-> IF c \in DOMAIN text THEN sent[c] \o text[c] ELSE sent[c]]
    /\ chunks' = chunks + 1
    /\ UNCHANGED <<finished, status>>

(* A chunk with a text slot for each choice in the domain of text.         *)
ContentChunk(text) ==
    /\ status = "running"
    /\ ~finished
    /\ chunks < MaxChunks
    /\ LET held == buf \o ChunkText(text)
           cut  == Cut(held)
       IN  /\ buf' = SubSeq(held, cut + 1, Len(held))
           /\ WriteObjectSlots(DOMAIN text,
                               pending \o Restore(SubSeq(held, 1, cut), Vault))
    /\ pending' = <<>>
    /\ sent' = [c \in ChoiceIds |-> IF c \in DOMAIN text THEN sent[c] \o text[c] ELSE sent[c]]
    /\ chunks' = chunks + 1
    /\ UNCHANGED <<finished, status>>

(* A chunk without text (role, usage, finish_reason): the buffer is drained*)
(* into pending and the chunk passes.  The provider sends the finish_reason*)
(* after the last text.                                                    *)
OtherChunk(finish) ==
    /\ status = "running"
    /\ chunks < MaxChunks
    /\ LET cut == Cut(buf)
       IN  /\ pending' = pending \o Restore(SubSeq(buf, 1, cut), Vault)
           /\ buf' = SubSeq(buf, cut + 1, Len(buf))
    /\ chunks' = chunks + 1
    /\ finished' = (finished \/ finish)
    /\ UNCHANGED <<sent, got, status>>

(* The vault fails under the drain of a chunk: the chunk is not yielded.   *)
(* Only a text that holds a placeholder asks the vault.                    *)
RestoreFails(text) ==
    /\ status = "running"
    /\ ~finished
    /\ chunks < MaxChunks
    /\ LET held == buf \o ChunkText(text)
       IN  NamespaceSpans(SubSeq(held, 1, Cut(held))) # {}
    /\ status' = "error"
    /\ chunks' = chunks + 1
    /\ UNCHANGED <<buf, pending, sent, got, finished>>

(* The upstream raises: the error passes through, what is held is lost.    *)
UpstreamFails ==
    /\ status = "running"
    /\ status' = "error"
    /\ UNCHANGED <<buf, pending, sent, got, chunks, finished>>

(* Variant: a dangling partial is dropped without an error.                *)
EndSilently ==
    /\ status = "running"
    /\ got' = [got EXCEPT ![First(ChoiceIds)] =
                  @ \o pending \o (IF HasUnclosedOpener(buf) THEN <<>>
                                   ELSE Restore(buf, Vault))]
    /\ pending' = <<>>
    /\ buf' = <<>>
    /\ status' = "ended"
    /\ UNCHANGED <<sent, chunks, finished>>

(* Variant: the flushed tail stays in the buffer.                          *)
EndKeepsBuffer ==
    /\ status = "running"
    /\ got' = [got EXCEPT ![First(ChoiceIds)] =
                  @ \o pending \o (IF HasUnclosedOpener(buf) THEN <<>>
                                   ELSE Restore(buf, Vault))]
    /\ status' = IF HasUnclosedOpener(buf) THEN "error" ELSE "ended"
    /\ UNCHANGED <<sent, chunks, finished, buf, pending>>

(* The upstream ends: the restored tail goes out in a synthesized chunk    *)
(* with one choice; StreamingError follows if the tail was cut short.      *)
End ==
    /\ status = "running"
    /\ got' = [got EXCEPT ![First(ChoiceIds)] =
                  @ \o pending \o (IF HasUnclosedOpener(buf) THEN <<>>
                                   ELSE Restore(buf, Vault))]
    /\ pending' = <<>>
    /\ buf' = <<>>
    /\ status' = IF HasUnclosedOpener(buf) THEN "error" ELSE "ended"
    /\ UNCHANGED <<sent, chunks, finished>>

(* The vault fails under that flush: pending is lost too.                  *)
EndFails ==
    /\ status = "running"
    /\ NamespaceSpans(buf) # {}
    /\ status' = "error"
    /\ UNCHANGED <<buf, pending, sent, got, chunks, finished>>

Texts == UNION {[C -> Fragments] : C \in (SUBSET ChoiceIds) \ {{}}}

Next ==
    \/ \E text \in Texts : ContentChunk(text)
    \/ \E finish \in BOOLEAN : OtherChunk(finish)
    \/ \E text \in Texts : RestoreFails(text)
    \/ UpstreamFails
    \/ End
    \/ EndFails

Spec == Init /\ [][Next]_vars

-----------------------------------------------------------------------------

(* The choices are the channels of a restored stream, and the whole stream *)
(* ends at once (restore.py:276-281, 320-337).  It holds for one choice.   *)
RestoredText(text) == Restore(text, Vault)

Stream == INSTANCE RestoredStream WITH
              Channels  <- ChoiceIds,
              Stoppable <- {},
              Restored  <- RestoredText,
              CutShort  <- HasUnclosedOpener,
              arrived   <- sent,
              given     <- got,
              open      <- IF status = "running" THEN ChoiceIds ELSE {},
              failed    <- status = "error"

Implements == Stream!Spec

(* What the client has of a choice begins what restoring all its text would*)
(* give (restore.py:276-281, 287 "handles all choices").                   *)
ChoiceInOrder ==
    \A c \in ChoiceIds : IsPrefix(got[c], Restore(sent[c], Vault))

(* Restored text never waits in pending for a later chunk: a chunk without *)
(* text cannot make held text ready, so the carry-over that                *)
(* restore.py:304-307 provides for is never needed.                        *)
NothingPending == pending = <<>>

(* No text follows the chunk with the finish_reason, after which a client  *)
(* may stop reading (restore.py:304-307, "preserving ordering").           *)
NothingAfterFinish == [][finished => got' = got]_vars
=============================================================================
