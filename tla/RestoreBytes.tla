---------------------------- MODULE RestoreBytes ----------------------------
(***************************************************************************)
(* lexvault.streaming.restore._restore_bytes: an Anthropic stream of SSE   *)
(* frames, restored in place.  Every content block carries text in its     *)
(* content_block_start frame and in its delta frames, and each of the two  *)
(* places has a PlaceholderBuffer of its own, keyed by (index, pointer).   *)
(* A content_block_stop flushes the buffers of its block before it passes; *)
(* the end of the stream flushes the buffers that are left.                *)
(*                                                                         *)
(* The kind of a block (text, thinking, tool input) never changes, so a    *)
(* block stands for an (index, kind); its pointers are "start" and "delta".*)
(***************************************************************************)
EXTENDS HoldBack

CONSTANTS Blocks,        \* content blocks of the message
          Fragments,     \* texts a frame may carry
          StartTexts,    \* texts a content_block_start may carry
          MaxFrames      \* bound on the frames that carry text

VARIABLES phase,     \* of each block: "ahead", "open", "stopped"
          bufs,      \* bufs[b][ptr]: what is held, <<>> when there is none
          sent,      \* text that arrived for each block, in order
          got,       \* text passed on for each block, in order
          frames,    \* frames with text that arrived
          status     \* "running", "ended", "error" (StreamingError was raised)

vars == <<phase, bufs, sent, got, frames, status>>

Pointers == {"start", "delta"}

TypeOK ==
    /\ phase \in [Blocks -> {"ahead", "open", "stopped"}]
    /\ DOMAIN bufs = Blocks /\ \A b \in Blocks : DOMAIN bufs[b] = Pointers
    /\ \A b \in Blocks : phase[b] # "open" => bufs[b] = [p \in Pointers |-> <<>>]
    /\ frames \in 0..MaxFrames
    /\ status \in {"running", "ended", "error"}

Init ==
    /\ phase = [b \in Blocks |-> "ahead"]
    /\ bufs = [b \in Blocks |-> [p \in Pointers |-> <<>>]]
    /\ sent = [b \in Blocks |-> <<>>]
    /\ got = [b \in Blocks |-> <<>>]
    /\ frames = 0
    /\ status = "running"

-----------------------------------------------------------------------------

(* Variant: one buffer per pointer, shared by all blocks.                  *)
RestoreSlotShared(b, p, text) ==
    LET shared == Min(Blocks)
        held == bufs[shared][p] \o text
        cut  == Cut(held)
    IN  /\ sent' = [sent EXCEPT ![b] = @ \o text]
        /\ got'  = [got EXCEPT ![b] = @ \o Restore(SubSeq(held, 1, cut), Vault)]
        /\ bufs' = [bufs EXCEPT ![shared][p] = SubSeq(held, cut + 1, Len(held))]

(* One slot of a frame: feed its text to the buffer of (b, p), write what  *)
(* drain gives into the frame, yield the frame.                            *)
RestoreSlot(b, p, text) ==
    LET held == bufs[b][p] \o text
        cut  == Cut(held)
    IN  /\ sent' = [sent EXCEPT ![b] = @ \o text]
        /\ got'  = [got EXCEPT ![b] = @ \o Restore(SubSeq(held, 1, cut), Vault)]
        /\ bufs' = [bufs EXCEPT ![b][p] = SubSeq(held, cut + 1, Len(held))]

(* content_block_start; an empty text is a slot too, one that feeds        *)
(* nothing.                                                                *)
BlockStart(b, text) ==
    /\ status = "running"
    /\ phase[b] = "ahead"
    /\ frames < MaxFrames
    /\ phase' = [phase EXCEPT ![b] = "open"]
    /\ frames' = frames + 1
    /\ RestoreSlot(b, "start", text)
    /\ UNCHANGED status

Delta(b, text) ==
    /\ status = "running"
    /\ phase[b] = "open"
    /\ frames < MaxFrames
    /\ frames' = frames + 1
    /\ RestoreSlot(b, "delta", text)
    /\ UNCHANGED <<phase, status>>

(* The vault fails under drain: StreamingError, the frame is not yielded.  *)
(* Only a text that holds a placeholder asks the vault.                    *)
RestoreFails(b, p, text) ==
    /\ status = "running"
    /\ phase[b] = (IF p = "start" THEN "ahead" ELSE "open")
    /\ frames < MaxFrames
    /\ LET held == bufs[b][p] \o text
       IN  NamespaceSpans(SubSeq(held, 1, Cut(held))) # {}
    /\ status' = "error"
    /\ frames' = frames + 1
    /\ UNCHANGED <<phase, bufs, sent, got>>

(* The upstream raises, or yields what is not bytes: the error passes      *)
(* through and what is held is lost.                                       *)
UpstreamFails ==
    /\ status = "running"
    /\ status' = "error"
    /\ UNCHANGED <<phase, bufs, sent, got, frames>>

(* The restored tail of a buffer; a partial placeholder is suppressed, and *)
(* all that is held before it too.                                         *)
RestoredTail(text) == IF HasUnclosedOpener(text) THEN <<>> ELSE Restore(text, Vault)

(* The buffers of a block in the order of the dict: "start" came first.    *)
BlockTail(b) == RestoredTail(bufs[b]["start"]) \o RestoredTail(bufs[b]["delta"])

NoBuffers == [p \in Pointers |-> <<>>]

(* Variant: the flushed buffers are not removed.                           *)
BlockStopKeepsBuffers(b) ==
    /\ status = "running"
    /\ phase[b] = "open"
    /\ got' = [got EXCEPT ![b] = @ \o BlockTail(b)]
    /\ phase' = [phase EXCEPT ![b] = "stopped"]
    /\ UNCHANGED <<bufs, sent, frames, status>>

(* content_block_stop: _flush_index yields the tails as deltas, drops the  *)
(* buffers, then the stop frame passes.                                    *)
BlockStop(b) ==
    /\ status = "running"
    /\ phase[b] = "open"
    /\ got' = [got EXCEPT ![b] = @ \o BlockTail(b)]
    /\ bufs' = [bufs EXCEPT ![b] = NoBuffers]
    /\ phase' = [phase EXCEPT ![b] = "stopped"]
    /\ UNCHANGED <<sent, frames, status>>

(* The vault fails under the flush of a block that closes.                 *)
BlockStopFails(b) ==
    /\ status = "running"
    /\ phase[b] = "open"
    /\ \E p \in Pointers : NamespaceSpans(bufs[b][p]) # {}
    /\ status' = "error"
    /\ UNCHANGED <<phase, bufs, sent, got, frames>>

HeldPartial == \E b \in Blocks, p \in Pointers : HasUnclosedOpener(bufs[b][p])

(* The upstream ends, in or between blocks: every buffer left is flushed,  *)
(* then StreamingError if one of them ended in a partial placeholder.      *)
End ==
    /\ status = "running"
    /\ got' = [b \in Blocks |-> got[b] \o BlockTail(b)]
    /\ bufs' = [b \in Blocks |-> NoBuffers]
    /\ status' = IF HeldPartial THEN "error" ELSE "ended"
    /\ UNCHANGED <<phase, sent, frames>>

(* The vault fails under that flush, after the tails of the blocks in      *)
(* flushed went out.                                                       *)
EndFails(flushed) ==
    /\ status = "running"
    /\ \E b \in Blocks \ flushed, p \in Pointers :
          NamespaceSpans(bufs[b][p]) # {}
    /\ got' = [b \in Blocks |-> IF b \in flushed THEN got[b] \o BlockTail(b) ELSE got[b]]
    /\ status' = "error"
    /\ UNCHANGED <<phase, bufs, sent, frames>>

Next ==
    \/ \E b \in Blocks, text \in StartTexts : BlockStart(b, text)
    \/ \E b \in Blocks, text \in Fragments : Delta(b, text)
    \/ \E b \in Blocks, p \in Pointers, text \in Fragments : RestoreFails(b, p, text)
    \/ UpstreamFails
    \/ \E b \in Blocks : BlockStop(b)
    \/ \E b \in Blocks : BlockStopFails(b)
    \/ End
    \/ \E flushed \in SUBSET Blocks : EndFails(flushed)

Spec == Init /\ [][Next]_vars

-----------------------------------------------------------------------------

(* The blocks are the channels of a restored stream: nothing is reordered, *)
(* moved to another block or half restored, wherever frames cut it and     *)
(* however blocks interleave (restore.py:108-114); the stop frame of a     *)
(* block passes after all its text (restore.py:132-135); a stream that     *)
(* breaks off inside a placeholder of an open block ends in an error       *)
(* (restore.py:52-53).                                                     *)
RestoredText(text) == Restore(text, Vault)

Stream == INSTANCE RestoredStream WITH
              Channels  <- Blocks,
              Stoppable <- Blocks,
              Restored  <- RestoredText,
              CutShort  <- HasUnclosedOpener,
              arrived   <- sent,
              given     <- got,
              open      <- {b \in Blocks : status = "running" /\ phase[b] # "stopped"},
              failed    <- status = "error"

Implements == Stream!Spec

(* Held text never follows the stop frame of its block (restore.py:132-135,*)
(* "held text never emits after content_block_stop").                      *)
NothingAfterStop ==
    [][\A b \in Blocks : phase[b] = "stopped" => got'[b] = got[b]]_vars

(* restore.py:52-53: "On a dangling partial placeholder at stream end:     *)
(* fail-closed - raise StreamingError", of closed blocks too.              *)
PartialSignalled ==
    (status = "ended") => \A b \in Blocks : ~HasUnclosedOpener(sent[b])
=============================================================================
