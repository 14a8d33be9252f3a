------------------------------- MODULE Adapters -------------------------------
(***************************************************************************)
(* lexvault.adapters: which strings of a request or response body become   *)
(* slots, that is, are read, masked or restored, and written back.         *)
(*                                                                         *)
(* A string of a body is a field with the place where it stands:           *)
(*   content       the content of a message, when it is a string; the      *)
(*                 input of a Responses request, when it is one            *)
(*   part          the text of a part or block that is a dict              *)
(*   object_part   the same, of one that is an object                      *)
(*   arguments     function.arguments of a tool call, a JSON string        *)
(*   argument      a value of function.arguments, when it is a dict        *)
(*   tool_input    a string at any depth of tool_use.input                 *)
(*   system        Anthropic's top-level system, a string or text blocks   *)
(*   output_text   the output_text of a Responses response                 *)
(*   event_text    the text of an event of a Responses stream              *)
(* and tool_result, thinking, instructions, nested_argument, input,        *)
(* which no adapter reads.                                                 *)
(***************************************************************************)

(* _NON_TEXT_CALL_TYPES.                                                   *)
NonTextCallTypes ==
    {"embedding", "aembedding", "image_generation", "aimage_generation", "image_edit",
     "aimage_edit", "moderation", "amoderation", "atranscription", "transcription",
     "aspeech", "speech", "rerank", "arerank"}

(* _request_slots_for_call_type, of the guardrail and of the logging.      *)
AdapterOf(call_type) ==
    CASE call_type \in {"responses", "aresponses"} -> "responses"
      [] call_type = "anthropic_messages"          -> "anthropic"
      [] OTHER                                     -> "openai"

(* openai.request_message_slots: a system message is skipped whole.        *)
OpenAIRequestSlot(field, mask_system) ==
    /\ field.role = "system" => mask_system
    /\ field.place \in {"content", "part", "arguments"}

(* anthropic.request_message_slots: content that is no list has no slots.  *)
AnthropicRequestSlot(field, mask_system) ==
    \/ field.place = "system" /\ mask_system
    \/ field.place \in {"part", "tool_input"}

(* responses.request_input_slots.                                          *)
ResponsesRequestSlot(field) == field.place \in {"content", "part"}

RequestSlot(adapter, field, mask_system) ==
    CASE adapter = "openai"    -> OpenAIRequestSlot(field, mask_system)
      [] adapter = "anthropic" -> AnthropicRequestSlot(field, mask_system)
      [] adapter = "responses" -> ResponsesRequestSlot(field)

(* openai.response_slots.  The slot of a string in a dict message exists,  *)
(* but it reads an attribute and a dict has none: it stays empty.          *)
OpenAIResponseSlot(field, form) ==
    \/ field.place \in {"part", "argument"}
    \/ field.place \in {"content", "arguments"} /\ form = "object"

(* anthropic.response_slots.                                               *)
AnthropicResponseSlot(field) == field.place \in {"part", "object_part", "tool_input"}

(* responses.response_slots; of dicts as for openai.                       *)
ResponsesResponseSlot(field, form) ==
    \/ field.place = "part"
    \/ field.place \in {"content", "output_text"} /\ form = "object"

(* All three adapters look at a response; those for another shape find     *)
(* nothing in it.                                                          *)
ResponseSlot(shape, field, form) ==
    CASE shape = "openai"    -> OpenAIResponseSlot(field, form)
      [] shape = "anthropic" -> AnthropicResponseSlot(field)
      [] shape = "responses" -> ResponsesResponseSlot(field, form)
=============================================================================
