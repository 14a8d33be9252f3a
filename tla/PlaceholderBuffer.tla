-------------------------- MODULE PlaceholderBuffer --------------------------
(***************************************************************************)
(* lexvault.streaming.buffer.PlaceholderBuffer: a message arrives in       *)
(* chunks cut anywhere; after every chunk the buffer emits what it believes*)
(* can no longer be part of a placeholder, restored, and holds the rest.   *)
(* At the end of the stream it restores the tail, or reports that the tail *)
(* looks like a placeholder cut short, and then the caller suppresses it.  *)
(***************************************************************************)
EXTENDS HoldBack

CONSTANTS Pieces,      \* what messages are made of
          MaxPieces,   \* pieces of a message
          MaxChunk     \* characters of a chunk

PiecesAreTexts == \A p \in Pieces : p \in Seq(Range(p))

ASSUME ChunkAssumption == MaxChunk \in Nat \ {0}
ASSUME PiecesAssumption == PiecesAreTexts /\ MaxPieces \in Nat

VARIABLES message,     \* all the text the model will send
          rest,        \* what has not arrived yet
          held,        \* PlaceholderBuffer._buf
          out,         \* what has been emitted, restored
          done,        \* the stream has ended
          partial      \* the flag of flush_restored_with_vault

bufferVars == <<message, rest, held, out, done, partial>>

Messages == {FlattenSeq(ps) : ps \in BoundedSeq(Pieces, MaxPieces)}

BufferTypeOK ==
    /\ message \in Messages
    /\ rest \in Seq(Range(message))
    /\ held \in Seq(Range(message))
    /\ LET pending == Len(held) + Len(rest)
       IN  /\ pending <= Len(message)
           /\ held \o rest = SubSeq(message, Len(message) - pending + 1, Len(message))
    /\ done \in BOOLEAN
    /\ partial \in BOOLEAN

BufferInit ==
    /\ message \in Messages
    /\ rest = message
    /\ held = <<>>
    /\ out = <<>>
    /\ done = FALSE
    /\ partial = FALSE

(* Variant: the chunk is put before the text that is held.                 *)
ChunkInFront(n) ==
    /\ ~done
    /\ n <= Len(rest)
    /\ LET text == SubSeq(rest, 1, n) \o held
           cut  == Cut(text)
       IN  /\ out' = out \o Restore(SubSeq(text, 1, cut), Vault)
           /\ held' = SubSeq(text, cut + 1, Len(text))
    /\ rest' = SubSeq(rest, n + 1, Len(rest))
    /\ UNCHANGED <<message, done, partial>>

(* feed, then drain_restored_with_vault, as the callers do for each chunk. *)
Chunk(n) ==
    /\ ~done
    /\ n <= Len(rest)
    /\ LET text == held \o SubSeq(rest, 1, n)
           cut  == Cut(text)
       IN  /\ out' = out \o Restore(SubSeq(text, 1, cut), Vault)
           /\ held' = SubSeq(text, cut + 1, Len(text))
    /\ rest' = SubSeq(rest, n + 1, Len(rest))
    /\ UNCHANGED <<message, done, partial>>

(* Variant: the tail is emitted as it is.                                  *)
FlushRaw ==
    /\ ~done
    /\ rest = <<>>
    /\ partial' = HasUnclosedOpener(held)
    /\ out' = out \o held
    /\ held' = <<>>
    /\ done' = TRUE
    /\ UNCHANGED <<message, rest>>

(* flush_restored_with_vault at the end of the stream; a partial tail is   *)
(* suppressed by the caller.                                               *)
Flush ==
    /\ ~done
    /\ rest = <<>>
    /\ partial' = HasUnclosedOpener(held)
    /\ out' = IF HasUnclosedOpener(held) THEN out ELSE out \o Restore(held, Vault)
    /\ held' = <<>>
    /\ done' = TRUE
    /\ UNCHANGED <<message, rest>>

BufferNext == (\E n \in 1..MaxChunk : Chunk(n)) \/ Flush

BufferSpec == BufferInit /\ [][BufferNext]_bufferVars

-----------------------------------------------------------------------------

(* The buffer is a stream of one channel: whatever the chunks are, what has*)
(* been emitted begins what restoring the message would give, the end of   *)
(* the message comes out whole unless the flag is set, and the flag says   *)
(* how the message ends, not where it was cut (buffer.py:58-107).          *)
RestoredText(text) == Restore(text, Vault)

OneChannel(value) == [c \in {1} |-> value]

Stream == INSTANCE RestoredStream WITH
              Channels  <- {1},
              Stoppable <- {},
              Restored  <- RestoredText,
              CutShort  <- HasUnclosedOpener,
              arrived   <- OneChannel(SubSeq(message, 1, Len(message) - Len(rest))),
              given     <- OneChannel(out),
              open      <- IF done THEN {} ELSE {1},
              failed    <- partial

Implements == Stream!Spec

(* No half placeholder and no wrong original ever leaves the buffer        *)
(* (buffer.py:58-86, "a placeholder is never split across an emit").       *)
EmittedIsPrefix == IsPrefix(out, Restore(message, Vault))

(* Every opener of the message begins a placeholder.                       *)
AllClosed == \A i \in 1..Len(message) :
    LiteralAt(message, i, Opener) => MatchesAt(message, i)

(* When every opener in the message is closed, the buffer holds less than  *)
(* a window and one placeholder: streaming stays streaming.                *)
BoundedHold ==
    AllClosed => Len(held) < Window + Len(Opener) + CodeLen + Len(Closer)

(* A message in which every placeholder is complete is never reported as   *)
(* cut short.                                                              *)
CompleteNotFlagged ==
    (AllClosed /\ TrailingOpenerPrefix(message) = 0) => ~partial
=============================================================================
