---------------------------- MODULE MCGuardrail ----------------------------
(* Two requests that share a term, on every route; fields that are slots   *)
(* and fields that are not; placeholders the LLM makes up; and a scope     *)
(* given with the request.                                                 *)
EXTENDS Guardrail, TLC

CONSTANTS r1, r2, t1, t2, x, s1, s2

Says(place, terms, holders) ==
    [place |-> place, role |-> "user", terms |-> terms, holders |-> holders]

System(terms) == [Says("content", terms, {}) EXCEPT !.role = "system"]

Asks(call_type, stream, scopes, body) ==
    [call_type |-> call_type, stream |-> stream, scopes |-> scopes, body |-> body]

chat == Asks("acompletion", FALSE, <<Unset, Unset>>,
             <<System({t1}), Says("arguments", {t1, t2}, {})>>)

scoped == Asks("anthropic_messages", FALSE, <<s1, s2>>,
               <<Says("thinking", {t2}, {}), Says("tool_input", {t1}, {Code(s1, t1)})>>)

responses == Asks("aresponses", FALSE, <<Unset, Unset>>,
                  <<Says("instructions", {t1}, {}), Says("part", {t2}, {})>>)

stream == Asks("acompletion", TRUE, <<Unset, Unset>>, <<Says("content", {t2}, {})>>)

embedding == Asks("aembedding", FALSE, <<Unset, Unset>>, <<Says("input", {t1}, {})>>)

Answers(shape, form, body) == [shape |-> shape, form |-> form, body |-> body]

MCCalls == {chat, scoped, responses, stream, embedding}

MCResponses ==
    {Answers("openai", "object", <<Says("content", {}, {x}),
                                   Says("arguments", {}, {Code(s1, t2)})>>),
     Answers("openai", "dict", <<Says("content", {}, {Code(s1, t1)})>>),
     Answers("anthropic", "dict", <<Says("thinking", {}, {Code(s2, t1)}),
                                    Says("part", {}, {Code(s2, t1)})>>),
     Answers("responses", "object", <<Says("output_text", {}, {Code(s1, t2)}),
                                          Says("object_part", {}, {x})>>)}

(* The shapes of the documents' own examples.                              *)
plainAnthropic == Asks("anthropic_messages", FALSE, <<Unset, Unset>>,
                       <<Says("content", {t1}, {}), Says("tool_result", {t2}, {})>>)

SurfaceCalls == {chat, plainAnthropic}

RequestSymmetry == Permutations(Requests)
=============================================================================
