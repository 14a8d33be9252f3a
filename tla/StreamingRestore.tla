--------------------------- MODULE StreamingRestore ---------------------------
(***************************************************************************)
(* lexvault.streaming.restore.streaming_restore under the hook             *)
(* async_post_call_streaming_iterator_hook: the type of the first chunk    *)
(* selects the regime, bytes (RestoreBytes) or objects (RestoreObjects),   *)
(* which then runs until the upstream ends; when it raises, the hook sends *)
(* one error frame with a fixed message, shaped after the route of the     *)
(* request, and the stream is over.                                        *)
(***************************************************************************)
EXTENDS HoldBack

CONSTANTS Fragments,
          Blocks, StartTexts, MaxFrames,     \* of the bytes regime
          ChoiceIds, MaxChunks               \* of the objects regime

ASSUME TextsAssumption == \A text \in Fragments \cup StartTexts : text \in Seq(Range(text))
ASSUME FramesAssumption == MaxFrames \in Nat
ASSUME ChoicesAssumption == Max(ChoiceIds) \in Nat /\ ChoiceIds = 0..Max(ChoiceIds)
ASSUME ChunksAssumption == MaxChunks \in Nat

VARIABLES regime,        \* "none" before the first chunk, "empty" without one
          phase, bufs, blockSent, blockGot, frames, bytesStatus,
          buf, pending, choiceSent, choiceGot, chunks, finished, objectsStatus,
          errorFrame     \* "none", "anthropic", "openai"

bytesVars == <<phase, bufs, blockSent, blockGot, frames, bytesStatus>>
objectsVars == <<buf, pending, choiceSent, choiceGot, chunks, finished, objectsStatus>>
vars == <<regime, bytesVars, objectsVars, errorFrame>>

Bytes == INSTANCE RestoreBytes WITH
             sent <- blockSent, got <- blockGot, status <- bytesStatus

Objects == INSTANCE RestoreObjects WITH
               sent <- choiceSent, got <- choiceGot, status <- objectsStatus

TypeOK ==
    /\ regime \in {"none", "empty", "bytes", "objects"}
    /\ Bytes!TypeOK
    /\ Objects!TypeOK
    /\ errorFrame \in {"none", "anthropic", "openai"}

Init ==
    /\ regime = "none"
    /\ Bytes!Init
    /\ Objects!Init
    /\ errorFrame = "none"

-----------------------------------------------------------------------------

(* The first chunk is peeked at; _chain hands it to the regime, which      *)
(* therefore sees every chunk.                                             *)
FirstChunk(kind) ==
    /\ regime = "none"
    /\ regime' = kind
    /\ UNCHANGED <<bytesVars, objectsVars, errorFrame>>

BytesStep ==
    /\ regime = "bytes"
    /\ Bytes!Next
    /\ UNCHANGED <<regime, objectsVars, errorFrame>>

ObjectsStep ==
    /\ regime = "objects"
    /\ Objects!Next
    /\ UNCHANGED <<regime, bytesVars, errorFrame>>

Raised == "error" \in {bytesStatus, objectsStatus}

(* What request_data may say of its route.                                 *)
RouteHints == [call_type  : {"", "acompletion", "anthropic_messages"},
               route_type : {"", "anthropic_messages"},
               url        : {"", "/v1/chat/completions", "/v1/messages"}]

IsAnthropicMessagesRoute(hint) ==
    \/ hint.call_type = "anthropic_messages"
    \/ hint.call_type = "" /\ hint.route_type = "anthropic_messages"
    \/ hint.url = "/v1/messages"

(* The except clause of the hook, for every exception.                     *)
ErrorFrame(hint) ==
    /\ Raised
    /\ errorFrame = "none"
    /\ errorFrame' = IF IsAnthropicMessagesRoute(hint) THEN "anthropic" ELSE "openai"
    /\ UNCHANGED <<regime, bytesVars, objectsVars>>

Next ==
    \/ \E kind \in {"empty", "bytes", "objects"} : FirstChunk(kind)
    \/ BytesStep
    \/ ObjectsStep
    \/ \E hint \in RouteHints : ErrorFrame(hint)

Spec == Init /\ [][Next]_vars

-----------------------------------------------------------------------------

(* In the bytes regime the client has a restored stream of blocks.         *)
BytesImplement == Bytes!Implements

(* In the objects regime the client has a restored stream of one choice.   *)
ObjectsImplement == Objects!Implements

(* Held text never follows the stop frame of its block (restore.py:132-135,*)
(* "held text never emits after content_block_stop").                      *)
NothingAfterStop == Bytes!NothingAfterStop

(* Restored text never waits in pending for a later chunk (restore.py:     *)
(* 304-307).                                                               *)
NothingPending == Objects!NothingPending

(* What the code does not keep: a closed block that was cut short is not   *)
(* reported, texts of several choices are mixed, held text follows the     *)
(* chunk with the finish_reason.                                           *)
PartialSignalled == Bytes!PartialSignalled

ChoiceInOrder == Objects!ChoiceInOrder

NothingAfterFinish == Objects!NothingAfterFinish
=============================================================================
