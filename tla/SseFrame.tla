------------------------------- MODULE SseFrame -------------------------------
(***************************************************************************)
(* What lexvault.streaming.reframer does with one SSE frame: _parse_frame, *)
(* extract_frame_text and restore_frame_text.                              *)
(*                                                                         *)
(* Bytes are told apart as far as lines and JSON need it.  A token is CR,  *)
(* LF, another character at which str.splitlines breaks a line (Sep, as    *)
(* U+2028 or U+0085), or the content of a line or of a part of one:        *)
(*   Other       an event: line, a comment, anything without data          *)
(*   Text        data: and a JSON object with restorable text              *)
(*   Struct      data: and a JSON object without                           *)
(*   Half1, Half2   two data: lines whose payloads, joined by a line feed, *)
(*               are such a JSON object with text                          *)
(*   Rest        what follows Sep when Sep stands in the payload of Half1  *)
(*   Restored    data: and the object of Text with its text restored       *)
(***************************************************************************)
EXTENDS Integers, Sequences, FiniteSetsExt, SequencesExt

CONSTANTS CR, LF, Sep, Other, Text, Struct, Half1, Half2, Rest, Restored

(* The first line of a text that is broken at the characters of breaks,    *)
(* with and without its end.  CR LF is one end.                            *)
FirstLine(text, breaks) ==
    LET stop == Min({j \in DOMAIN text : text[j] \in breaks} \cup {Len(text) + 1})
        last == IF stop < Len(text) /\ text[stop] = CR /\ text[stop + 1] = LF
                THEN stop + 1 ELSE Min({stop, Len(text)})
    IN  [content |-> SubSeq(text, 1, stop - 1), whole |-> SubSeq(text, 1, last)]

(* The lines of a text.                                                    *)
Lines(text, breaks) ==
    LET from[i \in 1..Len(text)+1] ==
            LET left == SubSeq(text, i, Len(text))
                line == FirstLine(left, breaks)
            IN  IF left = <<>> THEN <<>> ELSE <<line>> \o from[i + Len(line.whole)]
    IN  from[1]

IsData(line) ==
    line.content # <<>> /\ line.content[1] \in {Text, Struct, Half1, Half2, Restored}

(* The payloads of the data lines.                                         *)
Payload(lines) ==
    FlattenSeq([k \in DOMAIN lines |->
        IF IsData(lines[k]) THEN <<lines[k].content>> ELSE <<>>])

(* json.loads of the payloads joined by line feeds: what object it is.     *)
DataObj(payload) ==
    CASE payload \in {<<<<Text>>>>, <<<<Half1>>, <<Half2>>>>} -> "text"
      [] payload = <<<<Half1, Sep, Rest>>>>                  -> "text"
      [] payload = <<<<Struct>>>>                           -> "struct"
      [] payload = <<<<Restored>>>>                         -> "restored"
      [] OTHER                                              -> "none"

(* str.splitlines of a frame.                                              *)
FrameLines(raw) == Lines(raw, {CR, LF, Sep})

(* _parse_frame and extract_frame_text: the frame has restorable text.     *)
HasSlots(raw) == DataObj(Payload(FrameLines(raw))) = "text"

(* Variant: the first data line is replaced and the others are kept.       *)
RestoreFrameTextKeepsLines(raw) ==
    LET lines == FrameLines(raw)
        first == Min({k \in DOMAIN lines : IsData(lines[k])})
    IN  FlattenSeq([k \in DOMAIN lines |->
            IF k = first THEN <<Restored, LF>> ELSE lines[k].whole])

(* restore_frame_text: the first data line becomes the new object, the     *)
(* other data lines go, every other line stays as it is.                   *)
RestoreFrameText(raw) ==
    LET lines == FrameLines(raw)
        first == Min({k \in DOMAIN lines : IsData(lines[k])})
    IN  FlattenSeq([k \in DOMAIN lines |->
            IF k = first THEN <<Restored, LF>>
            ELSE IF IsData(lines[k]) THEN <<>>
            ELSE lines[k].whole])

(* What _restore_bytes yields for a frame.                                 *)
Passed(raw) == IF HasSlots(raw) THEN RestoreFrameText(raw) ELSE raw

-----------------------------------------------------------------------------

(* What an SSE client does with the next line: it collects the lines, and  *)
(* a blank line ends the event if there is one.                            *)
Heard(client, line) ==
    CASE IsData(line) -> [client EXCEPT !.data = Append(@, line.content)]
      [] line.content # <<>> /\ ~IsData(line) -> [client EXCEPT !.others = Append(@, line)]
      [] line.content = <<>> ->
            IF client.others = <<>> /\ client.data = <<>> THEN client
            ELSE [events |-> Append(client.events,
                                    [others |-> client.others, data |-> client.data]),
                  others |-> <<>>, data |-> <<>>]

(* What an SSE client makes of bytes.  It breaks lines at CR, LF or CR LF  *)
(* and at nothing else.                                                    *)
Client(bytes) ==
    LET lines == Lines(bytes, {CR, LF})
        after[k \in 0..Len(lines)] ==
            IF k = 0 THEN [events |-> <<>>, others |-> <<>>, data |-> <<>>]
            ELSE Heard(after[k - 1], lines[k])
    IN  after[Len(lines)]

ClientEvents(bytes) == Client(bytes).events

(* The same events with every restorable object restored.                  *)
RestoredEvents(events) ==
    [k \in DOMAIN events |->
        IF DataObj(events[k].data) = "text"
        THEN [events[k] EXCEPT !.data = <<<<Restored>>>>] ELSE events[k]]
=============================================================================
