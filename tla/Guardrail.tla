------------------------------ MODULE Guardrail ------------------------------
(***************************************************************************)
(* lexvault.guardrail.LexVaultGuardrail: the hooks LiteLLM calls during a  *)
(* request, over one vault that all requests share.                        *)
(*                                                                         *)
(* A body is a sequence of fields (Adapters), each with the dictionary     *)
(* terms that stand in it as plain text and the codes whose placeholder    *)
(* stands in it.  A code is a term in a scope, or foreign: a string of the *)
(* placeholder format nobody ever stored.  How texts are masked and        *)
(* restored is MaskEngine, how a stream is cut is StreamingRestore; a      *)
(* piece of a stream is one whole text that is passed on.                  *)
(***************************************************************************)
EXTENDS Integers, SequencesExt, Adapters

CONSTANTS Requests,      \* requests of the clients
          Terms,         \* dictionary terms
          Scopes,        \* scopes
          ConfigScope,   \* config.scope
          Unset,         \* "no scope given here"
          Foreign,       \* codes of well-formed placeholders of no term
          Calls,         \* what clients ask
          Responses,     \* what the LLM answers
          SharedResult   \* the log is given the response object itself

ASSUME ScopeAssumption == ConfigScope \in Scopes /\ Unset \notin Scopes
ASSUME SharedAssumption == SharedResult \in BOOLEAN

VARIABLES config,      \* fail_open and mask_system_role
          vault,       \* codes whose placeholder is stored
          req,         \* the hooks' state for each request
          log          \* async_logging_hook's state for each request

vars == <<config, vault, req, log>>

Code(scope, t) == [scope |-> scope, term |-> t]

Codes == [scope : Scopes, term : Terms]

Fields == [place : STRING, role : STRING, terms : SUBSET Terms,
           holders : SUBSET (Codes \cup Foreign)]

CallBodies == [call_type : STRING, stream : BOOLEAN,
               scopes : Seq(Scopes \cup {Unset}), body : Seq(Fields)]

ResponseBodies == [shape : STRING, form : STRING, body : Seq(Fields)]

ASSUME CallAssumption == Calls \subseteq CallBodies
ASSUME ResponseAssumption == Responses \subseteq ResponseBodies

(* What a call of a type that has no text asks is no message: the input of *)
(* an embedding, which no adapter reads.                                   *)
ASSUME NonTextAssumption ==
    \A call \in Calls : call.call_type \in NonTextCallTypes =>
        \A i \in DOMAIN call.body : call.body[i].place = "input"

(* engine.mask once all matches are assigned; engine.unmask.               *)
Mask(field, scope) ==
    [field EXCEPT !.terms = {},
                  !.holders = @ \cup {Code(scope, t) : t \in field.terms}]

Unmask(field) ==
    [field EXCEPT !.terms = @ \cup {c.term : c \in field.holders \cap vault},
                  !.holders = @ \ vault]

(* The positions of a body that are slots; they are visited in order.      *)
RequestSlots(call_type, body) ==
    {i \in DOMAIN body : RequestSlot(AdapterOf(call_type), body[i], config.mask_system)}

ResponseSlots(response) ==
    {i \in DOMAIN response.body : ResponseSlot(response.shape, response.body[i], response.form)}

(* The slot the loop stands at, when there are slots left.                 *)
First(left) == {i \in left : \A j \in left : i <= j}

TermsAt(body, left) == UNION {body[i].terms : i \in First(left)}

(* _per_request_config: requester_metadata and headers of metadata, then   *)
(* of litellm_metadata; the last one given counts.                         *)
PerRequestScope(given) ==
    LET set  == {i \in DOMAIN given : given[i] # Unset}
        last == {i \in set : \A j \in set : j <= i}
    IN  IF last = {} THEN ConfigScope ELSE given[CHOOSE i \in last : TRUE]

NoCall == [call_type |-> "none", stream |-> FALSE, scopes |-> <<>>, body |-> <<>>]

NoResponse == [shape |-> "none", form |-> "object", body |-> <<>>]

Idle == [state |-> "idle", call |-> NoCall, scope |-> ConfigScope, body |-> <<>>,
         left |-> {}, todo |-> {}, response |-> NoResponse, answer |-> <<>>,
         leaked |-> FALSE, error |-> FALSE]

Silent == [state |-> "none", body |-> <<>>, left |-> {}, todo |-> {}]

Init ==
    /\ config \in [fail_open : BOOLEAN, mask_system : BOOLEAN]
    /\ vault = {}
    /\ req = [r \in Requests |-> Idle]
    /\ log = [r \in Requests |-> Silent]

-----------------------------------------------------------------------------

(* async_pre_call_hook up to its first suspension.  A call of a type that  *)
(* has no text is passed as it is.                                         *)
Call(r, call) ==
    /\ req[r].state = "idle"
    /\ LET nontext == call.call_type \in NonTextCallTypes
           slots   == IF nontext THEN {} ELSE RequestSlots(call.call_type, call.body)
       IN  req' = [req EXCEPT ![r] =
              [Idle EXCEPT !.state = IF nontext THEN "sent" ELSE "masking",
                           !.call = call, !.body = call.body,
                           !.scope = PerRequestScope(call.scopes),
                           !.left = slots, !.todo = TermsAt(call.body, slots)]]
    /\ UNCHANGED <<config, vault, log>>

(* engine.mask: await vault.assign for one match of the slot.              *)
Assign(r, t) ==
    /\ req[r].state = "masking"
    /\ t \in req[r].todo
    /\ vault' = vault \cup {Code(req[r].scope, t)}
    /\ req' = [req EXCEPT ![r].todo = @ \ {t}]
    /\ UNCHANGED <<config, log>>

(* Slot i is written back, the next one is read.                           *)
NextSlot(r, i) ==
    req' = [req EXCEPT ![r].body[i] = Mask(@, req[r].scope),
                       ![r].left = @ \ {i},
                       ![r].todo = TermsAt(req[r].body, req[r].left \ {i})]

(* Variant: a slot is written back before its matches are assigned.        *)
SetSlotEarly(r) ==
    /\ req[r].state = "masking"
    /\ \E i \in First(req[r].left) : NextSlot(r, i)
    /\ UNCHANGED <<config, vault, log>>

(* Variant: the slot after it is passed over.                              *)
SetSlotKeepsPlace(r) ==
    /\ req[r].state = "masking"
    /\ req[r].todo = {}
    /\ \E i \in First(req[r].left) :
          LET rest == req[r].left \ {i}
          IN  req' = [req EXCEPT ![r].body[i] = Mask(@, req[r].scope),
                                 ![r].todo = TermsAt(req[r].body, rest),
                                 ![r].left = rest \ First(rest)]
    /\ UNCHANGED <<config, vault, log>>

SetSlot(r) ==
    /\ req[r].state = "masking"
    /\ req[r].todo = {}
    /\ \E i \in First(req[r].left) : NextSlot(r, i)
    /\ UNCHANGED <<config, vault, log>>

(* All slots are masked: LiteLLM sends the request upstream.               *)
Forward(r) ==
    /\ req[r].state = "masking"
    /\ req[r].left = {}
    /\ req' = [req EXCEPT ![r].state = "sent"]
    /\ UNCHANGED <<config, vault, log>>

(* Variant: the error is logged and the request goes out.                  *)
MaskFailsOpen(r) ==
    /\ req[r].state = "masking"
    /\ TermsAt(req[r].body, req[r].left) # {}
    /\ req' = [req EXCEPT ![r].state = "sent", ![r].error = TRUE]
    /\ UNCHANGED <<config, vault, log>>

(* engine.mask raises, at any await, a commit that did happen included:    *)
(* 503, or the request goes out with the slots that are masked so far.     *)
MaskFails(r) ==
    /\ req[r].state = "masking"
    /\ TermsAt(req[r].body, req[r].left) # {}
    /\ req' = [req EXCEPT ![r].state = IF config.fail_open THEN "sent" ELSE "blocked",
                          ![r].error = TRUE]
    /\ UNCHANGED <<config, vault, log>>

-----------------------------------------------------------------------------

(* The LLM answers; async_post_call_success_hook collects the slots and    *)
(* returns at once when there is none.                                     *)
Answer(r, response) ==
    /\ req[r].state = "sent"
    /\ ~req[r].call.stream
    /\ req' = [req EXCEPT
          ![r].state = IF ResponseSlots(response) = {} THEN "delivered" ELSE "restoring",
          ![r].response = response, ![r].answer = response.body,
          ![r].left = ResponseSlots(response), ![r].todo = {}]
    /\ UNCHANGED <<config, vault, log>>

(* Variant: the flag is of the last slot only.                             *)
RestoreSlotForgets(r) ==
    /\ req[r].state = "restoring"
    /\ \E i \in First(req[r].left) :
          req' = [req EXCEPT
              ![r].answer[i] = Unmask(@),
              ![r].leaked = ~config.fail_open /\ Unmask(req[r].answer[i]).holders # {},
              ![r].left = @ \ {i}]
    /\ UNCHANGED <<config, vault, log>>

(* Variant: the text is searched before it is restored.                    *)
RestoreSlotSearchesFirst(r) ==
    /\ req[r].state = "restoring"
    /\ \E i \in First(req[r].left) :
          req' = [req EXCEPT
              ![r].answer[i] = Unmask(@),
              ![r].leaked = @ \/ (~config.fail_open /\ req[r].answer[i].holders # {}),
              ![r].left = @ \ {i}]
    /\ UNCHANGED <<config, vault, log>>

(* One turn of the loop: the slot is restored, searched and written back.  *)
RestoreSlot(r) ==
    /\ req[r].state = "restoring"
    /\ \E i \in First(req[r].left) :
          req' = [req EXCEPT
              ![r].answer[i] = Unmask(@),
              ![r].leaked = @ \/ (~config.fail_open /\ Unmask(req[r].answer[i]).holders # {}),
              ![r].left = @ \ {i}]
    /\ UNCHANGED <<config, vault, log>>

(* The loop ends: a leak replaces the response.                            *)
Deliver(r) ==
    /\ req[r].state = "restoring"
    /\ req[r].left = {}
    /\ req' = [req EXCEPT ![r].state =
                  IF req[r].leaked THEN "filtered" ELSE "delivered"]
    /\ UNCHANGED <<config, vault, log>>

(* A lookup raises: the response is replaced, or returned with the slots   *)
(* that are restored so far.                                               *)
RestoreFails(r) ==
    /\ req[r].state = "restoring"
    /\ \E i \in First(req[r].left) : req[r].answer[i].holders # {}
    /\ req' = [req EXCEPT ![r].state = IF config.fail_open THEN "delivered" ELSE "filtered",
                          ![r].error = TRUE]
    /\ UNCHANGED <<config, vault, log>>

-----------------------------------------------------------------------------

(* The texts of a stream that are restored: the text deltas of Anthropic's *)
(* frames, delta.content of the choices of a chunk that is an object, and  *)
(* the text of an event that is a dict.                                    *)
StreamSlot(response, field) ==
    \/ response.shape = "anthropic" /\ field.place \in {"part", "thinking", "tool_input"}
    \/ response.shape = "openai" /\ field.place = "content" /\ response.form = "object"
    \/ response.shape = "responses" /\ field.place = "event_text" /\ response.form = "dict"

Streamed(response, field) ==
    IF StreamSlot(response, field) THEN Unmask(field) ELSE field

(* async_post_call_streaming_iterator_hook: a piece is restored and passed *)
(* on; what the vault does not know, and what is no slot, passes as it is. *)
StreamPiece(r, response) ==
    /\ req[r].state = "sent" \/ (req[r].state = "streaming" /\ response = req[r].response)
    /\ req[r].call.stream
    /\ Len(req[r].answer) < Len(response.body)
    /\ req' = [req EXCEPT
          ![r].state = "streaming", ![r].response = response,
          ![r].answer = Append(@, Streamed(response, response.body[Len(@) + 1]))]
    /\ UNCHANGED <<config, vault, log>>

StreamEnds(r) ==
    /\ req[r].state = "streaming"
    /\ req' = [req EXCEPT ![r].state = "delivered"]
    /\ UNCHANGED <<config, vault, log>>

(* Any error, before the first piece or after it: one error frame with a   *)
(* fixed message, then the stream stops, whatever fail_open says.          *)
StreamFails(r) ==
    /\ req[r].state \in {"sent", "streaming"}
    /\ req[r].call.stream
    /\ req' = [req EXCEPT ![r].state = "errored", ![r].error = TRUE]
    /\ UNCHANGED <<config, vault, log>>

-----------------------------------------------------------------------------

(* The payload of the log and its slots, those of the request first.  The  *)
(* request is given as sent or as the client sent it.                      *)
Payload(r, rereads) == (IF rereads THEN req[r].call.body ELSE req[r].body) \o req[r].answer

RequestLength(r) == Len(req[r].body)

ResponseLogSlots(r) == {i + RequestLength(r) : i \in ResponseSlots(req[r].response)}

(* Variant: the response side is taken as masked already.                  *)
LogSlotsRequestOnly(r) == RequestSlots(req[r].call.call_type, req[r].body)

LogSlots(r) == RequestSlots(req[r].call.call_type, req[r].body) \cup ResponseLogSlots(r)

(* async_logging_hook.  Where LiteLLM calls it is not known here: any time *)
(* after the response, or the first of it, came.                           *)
LogCall(r, rereads) ==
    /\ log[r].state = "none"
    /\ req[r].answer # <<>>
    /\ ~req[r].call.stream \/ Len(req[r].answer) = Len(req[r].response.body)
    /\ LET body == Payload(r, rereads)
       IN  log' = [log EXCEPT ![r] =
              [state |-> "remasking", body |-> body, left |-> LogSlots(r),
               todo |-> TermsAt(body, LogSlots(r))]]
    /\ UNCHANGED <<config, vault, req>>

(* The payload when the slot after it is read: a shared response object    *)
(* changes under the hook that restores it.                                *)
Reread(r, body, left) ==
    IF ~SharedResult THEN body
    ELSE [i \in DOMAIN body |->
             IF i \in First(left) /\ i > RequestLength(r)
             THEN req[r].answer[i - RequestLength(r)] ELSE body[i]]

(* _remask_request, then _remask_response: mask() awaits vault.assign for  *)
(* each match of the slot, with the scope of the config.                   *)
LogAssign(r, t) ==
    /\ log[r].state = "remasking"
    /\ t \in log[r].todo
    /\ vault' = vault \cup {Code(ConfigScope, t)}
    /\ log' = [log EXCEPT ![r].todo = @ \ {t}]
    /\ UNCHANGED <<config, req>>

(* The slot is written back as it was read, masked; the next one is read.  *)
LogWrite(r, i) ==
    LET masked == [log[r].body EXCEPT ![i] = Mask(@, ConfigScope)]
        rest   == log[r].left \ {i}
        read   == Reread(r, masked, rest)
        j      == i - RequestLength(r)
    IN  /\ log' = [log EXCEPT ![r].body = read, ![r].left = rest,
                              ![r].todo = TermsAt(read, rest)]
        /\ req' = IF SharedResult /\ j > 0 THEN [req EXCEPT ![r].answer[j] = masked[i]]
                  ELSE req

(* Variant: a slot is written back before its matches are assigned.        *)
LogSlotEarly(r) ==
    /\ log[r].state = "remasking"
    /\ \E i \in First(log[r].left) : LogWrite(r, i)
    /\ UNCHANGED <<config, vault>>

LogSlot(r) ==
    /\ log[r].state = "remasking"
    /\ log[r].todo = {}
    /\ \E i \in First(log[r].left) : LogWrite(r, i)
    /\ UNCHANGED <<config, vault>>

LogDone(r) ==
    /\ log[r].state = "remasking"
    /\ log[r].left = {}
    /\ log' = [log EXCEPT ![r].state = "logged"]
    /\ UNCHANGED <<config, vault, req>>

(* A slot cannot be masked: the payload is logged as it is by then.        *)
LogFails(r) ==
    /\ log[r].state = "remasking"
    /\ TermsAt(log[r].body, log[r].left) # {}
    /\ log' = [log EXCEPT ![r].state = "unmasked"]
    /\ UNCHANGED <<config, vault, req>>

(* The LLM answers in the shape of the route.                              *)
AnswersFor(r) == {a \in Responses : a.shape = AdapterOf(req[r].call.call_type)}

Next == \E r \in Requests :
    \/ \E call \in Calls : Call(r, call)
    \/ \E t \in Terms : Assign(r, t)
    \/ SetSlot(r)
    \/ Forward(r)
    \/ MaskFails(r)
    \/ \E response \in AnswersFor(r) : Answer(r, response)
    \/ RestoreSlot(r)
    \/ Deliver(r)
    \/ RestoreFails(r)
    \/ \E response \in AnswersFor(r) : StreamPiece(r, response)
    \/ StreamEnds(r)
    \/ StreamFails(r)
    \/ \E rereads \in BOOLEAN : LogCall(r, rereads)
    \/ \E t \in Terms : LogAssign(r, t)
    \/ LogSlot(r)
    \/ LogDone(r)
    \/ LogFails(r)

Spec == Init /\ [][Next]_vars

-----------------------------------------------------------------------------

States == {"idle", "masking", "sent", "blocked", "restoring", "streaming",
           "delivered", "filtered", "errored"}

(* The work of a masking request is in the slot it stands at.              *)
TypeOK ==
    /\ config \in [fail_open : BOOLEAN, mask_system : BOOLEAN]
    /\ vault \subseteq Codes
    /\ \A r \in Requests :
          /\ req[r].state \in States
          /\ req[r].scope \in Scopes
          /\ \A i \in DOMAIN req[r].body : req[r].body[i].holders \subseteq Codes \cup Foreign
          /\ req[r].state = "restoring" => req[r].left \subseteq DOMAIN req[r].answer
          /\ req[r].state = "masking" => req[r].todo \subseteq TermsAt(req[r].body, req[r].left)
          /\ log[r].state \in {"none", "remasking", "logged", "unmasked"}

Sent(r) ==
    /\ req[r].state \notin {"idle", "masking", "blocked"}
    /\ req[r].call.call_type \notin NonTextCallTypes

Masked(r) == RequestSlots(req[r].call.call_type, req[r].call.body)

Restored(r) == ResponseSlots(req[r].response)

(* README.md:27: "zero originals reaching the upstream LLM": a text call   *)
(* that goes out with fail_open false has no term left in any slot, after  *)
(* whatever errors (guardrail.py:249-270).                                 *)
NoTermUpstream ==
    \A r \in Requests : (Sent(r) /\ ~config.fail_open) =>
        \A i \in Masked(r) : req[r].body[i].terms = {}

(* Every placeholder masking puts into a request can be restored from the  *)
(* moment it stands there, in requests that were given up half-way too and *)
(* in the request that is sent after a failure with fail_open; those that  *)
(* the client itself wrote are exempt.  What is no slot is sent as it was  *)
(* (guardrail.py:249-270).                                                 *)
PlaceholdersRestorable ==
    \A r \in Requests : \A i \in DOMAIN req[r].body :
        LET asked == req[r].call.body[i]
        IN  /\ req[r].body[i].holders \ asked.holders \subseteq vault
            /\ i \notin Masked(r) => req[r].body[i] = asked

(* README.md:27: "zero un-restored placeholders reaching the client": a    *)
(* response that was not streamed is delivered without placeholders in its *)
(* slots when fail_open is false (guardrail.py:300-323).                   *)
DeliveredRestored ==
    \A r \in Requests :
        (req[r].state = "delivered" /\ ~req[r].call.stream /\ ~config.fail_open) =>
            \A i \in Restored(r) : req[r].answer[i].holders = {}

(* The filter raises no false alarm: when nothing failed, a response is    *)
(* only withheld if the LLM wrote a placeholder it was not given for a     *)
(* term of this request (guardrail.py:307-323).                            *)
FilteredForAReason ==
    \A r \in Requests : (req[r].state = "filtered" /\ ~req[r].error) =>
        \E i \in Restored(r) : \E h \in req[r].response.body[i].holders :
            \A j \in Masked(r) : \A t \in req[r].call.body[j].terms :
                h # Code(req[r].scope, t)

(* A payload that was re-masked without an error shows no term in a slot,  *)
(* whatever had been restored of the response by then (logging.py:3-7).    *)
LoggedMasked ==
    \A r \in Requests : log[r].state = "logged" =>
        \A i \in Masked(r) \cup {j + RequestLength(r) : j \in Restored(r)} :
            i \in DOMAIN log[r].body => log[r].body[i].terms = {}

(* What the client and the LLM wrote, along the payload of the log.        *)
Written(r) == req[r].call.body \o req[r].response.body

(* Whoever reads a log can look up every placeholder in it that the client *)
(* or the LLM did not write there, whether lexvault put it there for the   *)
(* request or for the log, while the payload is re-masked and when that    *)
(* was given up half-way (logging.py:67-125, guardrail.py:401-403).        *)
LoggedRestorable ==
    \A r \in Requests : \A i \in DOMAIN log[r].body :
        log[r].body[i].holders \ Written(r)[i].holders \subseteq vault

(* concepts.md:28-29: masking runs "on all surfaces: message content,      *)
(* tool-call arguments, tool results, and across OpenAI and                *)
(* Anthropic-native shapes".                                               *)
AllSurfacesMasked ==
    \A r \in Requests : (Sent(r) /\ ~config.fail_open) =>
        \A i \in DOMAIN req[r].body :
            (/\ req[r].body[i].place \in
                   {"content", "part", "arguments", "tool_input", "tool_result"}
             /\ req[r].body[i].role # "system") => req[r].body[i].terms = {}

(* concepts.md:45-46: one term has one placeholder across the surfaces of  *)
(* a call, as its log shows them.                                          *)
LogConsistent ==
    \A r \in Requests : log[r].state = "logged" =>
        \A i, j \in DOMAIN log[r].body :
            \A c \in log[r].body[i].holders \cap vault, d \in log[r].body[j].holders \cap vault :
                c.term = d.term => c = d

(* README.md:24-27: streaming works "with zero un-restored placeholders    *)
(* reaching the client".                                                   *)
StreamedRestored ==
    \A r \in Requests : (req[r].call.stream /\ ~config.fail_open) =>
        \A i \in DOMAIN req[r].answer : req[r].answer[i].holders = {}
=============================================================================
