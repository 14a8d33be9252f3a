----------------------------- MODULE SseReframer -----------------------------
(***************************************************************************)
(* lexvault.streaming.reframer.SseReframer as _restore_bytes drives it:    *)
(* bytes arrive in chunks cut anywhere, after every chunk all frames that  *)
(* are complete are popped and passed on, those with text rewritten.  A    *)
(* frame ends with a blank line, that is with the first match of           *)
(* \r?\n\r?\n.  The bytes are the tokens of SseFrame.                     *)
(***************************************************************************)
EXTENDS SseFrame

CONSTANTS Contents,       \* tokens that streams have besides CR and LF
          MaxBytes,       \* bound on the tokens of a stream
          MaxChunk        \* bound on the tokens of a chunk

ASSUME ByteBounds == MaxBytes \in Nat /\ MaxChunk \in Nat \ {0}
ASSUME LineEndsDiffer == CR # LF

VARIABLES received,   \* history: all bytes that arrived
          buf,        \* SseReframer._buf
          frames,     \* raw bytes of the frames popped, in order
          out,        \* bytes passed on
          ended       \* the upstream has ended

vars == <<received, buf, frames, out, ended>>

Bytes == {CR, LF} \cup Contents

PassedAll(popped) == FlattenSeq([k \in DOMAIN popped |-> Passed(popped[k])])

(* The ends of the matches of \r?\n\r?\n that begin at i.                  *)
SplitEnds(bytes, i) ==
    {e \in i+1..Len(bytes) :
        SubSeq(bytes, i, e) \in
            {<<LF, LF>>, <<CR, LF, LF>>, <<LF, CR, LF>>, <<CR, LF, CR, LF>>}}

Splits(bytes) == {i \in 1..Len(bytes) : SplitEnds(bytes, i) # {}}

(* Where the first frame ends, 0 when it is not complete.                  *)
FrameEnd(bytes) ==
    IF Splits(bytes) = {} THEN 0 ELSE Max(SplitEnds(bytes, Min(Splits(bytes))))

(* What a variant of Feed pops: at most one frame.                         *)
DrainOne(bytes) ==
    LET e == FrameEnd(bytes)
    IN  IF e = 0 THEN [frames |-> <<>>, rest |-> bytes]
        ELSE [frames |-> <<SubSeq(bytes, 1, e)>>, rest |-> SubSeq(bytes, e + 1, Len(bytes))]

(* drain_complete: the complete frames and what is left of the buffer.     *)
DrainComplete(bytes) ==
    LET from[i \in 1..Len(bytes)+1] ==
            LET left == SubSeq(bytes, i, Len(bytes))
                e    == FrameEnd(left)
            IN  IF e = 0 THEN [frames |-> <<>>, rest |-> left]
                ELSE [frames |-> <<SubSeq(left, 1, e)>> \o from[i + e].frames,
                      rest   |-> from[i + e].rest]
    IN  from[1]

(* The buffer is left without a complete frame after every chunk.          *)
TypeOK ==
    /\ received \in Seq(Bytes) /\ Len(received) <= MaxBytes
    /\ buf \in Seq(Bytes) /\ FrameEnd(buf) = 0
    /\ frames \in Seq(Seq(Bytes))
    /\ ended \in BOOLEAN

Init ==
    /\ received = <<>>
    /\ buf = <<>>
    /\ frames = <<>>
    /\ out = <<>>
    /\ ended = FALSE

(* Variant: a chunk replaces what the buffer held.                         *)
FeedReplaces(chunk) ==
    /\ ~ended
    /\ Len(received) + Len(chunk) <= MaxBytes
    /\ received' = received \o chunk
    /\ frames' = frames \o DrainComplete(chunk).frames
    /\ out' = out \o PassedAll(DrainComplete(chunk).frames)
    /\ buf' = DrainComplete(chunk).rest
    /\ UNCHANGED ended

(* Variant: one frame is popped per chunk.                                 *)
FeedPopsOne(chunk) ==
    /\ ~ended
    /\ Len(received) + Len(chunk) <= MaxBytes
    /\ received' = received \o chunk
    /\ frames' = frames \o DrainOne(buf \o chunk).frames
    /\ out' = out \o PassedAll(DrainOne(buf \o chunk).frames)
    /\ buf' = DrainOne(buf \o chunk).rest
    /\ UNCHANGED ended

(* feed, then drain_complete, then every frame is passed on.               *)
Feed(chunk) ==
    /\ ~ended
    /\ Len(received) + Len(chunk) <= MaxBytes
    /\ received' = received \o chunk
    /\ LET drained == DrainComplete(buf \o chunk)
       IN  /\ frames' = frames \o drained.frames
           /\ out' = out \o PassedAll(drained.frames)
           /\ buf' = drained.rest
    /\ UNCHANGED ended

(* The upstream ends.  _restore_bytes does not call remaining().           *)
End ==
    /\ ~ended
    /\ ended' = TRUE
    /\ UNCHANGED <<received, buf, frames, out>>

Chunks == UNION {[1..n -> Bytes] : n \in 1..MaxChunk}

Next == (\E chunk \in Chunks : Feed(chunk)) \/ End

Spec == Init /\ [][Next]_vars

-----------------------------------------------------------------------------

(* The frames popped are those of the whole byte stream so far: where the  *)
(* network cut it, even between CR and LF, makes no difference             *)
(* (reframer.py:75-95).                                                    *)
FramesIndependentOfChunks == frames = DrainComplete(received).frames

(* The frames and the bytes held make up exactly what arrived: nothing is  *)
(* lost, repeated or reordered.                                            *)
NothingLost == FlattenSeq(frames) \o buf = received

(* Lines end with LF or CR LF, as servers send them; the reframer does not *)
(* know a CR alone for the end of a line.                                  *)
LinesWellEnded ==
    \A i \in DOMAIN received : received[i] = CR =>
        i < Len(received) /\ received[i + 1] = LF

(* A client that reads the rewritten stream sees the events it would have  *)
(* seen, in order and with their other lines, every object with text       *)
(* restored, however the payload was laid out over lines (reframer.py:     *)
(* 175-213).                                                               *)
ClientSees ==
    LinesWellEnded =>
        ClientEvents(out) = RestoredEvents(ClientEvents(received))

(* reframer.py:10-18: text is extracted "from every Anthropic delta type   *)
(* that can carry a masked codename": no object with text reaches the      *)
(* client unrestored.                                                      *)
EveryTextRestored ==
    LinesWellEnded =>
        \A k \in DOMAIN ClientEvents(out) : DataObj(ClientEvents(out)[k].data) # "text"

(* reframer.py:68-69: "On stream end: leftover = reframer.remaining()".    *)
(* All the bytes of a stream that has ended have been passed on.           *)
LeftoverHandled == ended => FlattenSeq(frames) = received
=============================================================================
