# A TLA+ verification of lexvault

lexvault is a plugin of the LiteLLM proxy. It replaces the terms of an
enterprise's dictionary by placeholders such as `[LEX-ZGJT2O4L]` in what goes to
the LLM, and puts the originals back in what comes from it. This directory holds
TLA+ models of the program, the TLC configurations that check them, and TLAPS
proofs about the mapping vault and the opening of its file, overlap resolution,
masking and unmasking, the framing of byte streams, the restore of streams, and
the hooks of a request.
Paths below are relative to the repository (`src/lexvault/` is the package); line
numbers are those of the commit that was modelled.

## 1. Inventory

| Component | State it keeps | Operations | Hard behaviour | What makes it correct |
|---|---|---|---|---|
| mapping vault `vault.py` | table `mappings` in a SQLite file shared by processes; per process a connection and an `asyncio.Lock` | opening, `assign`, `lookup`/`_lookup_sync`, `close` | two transactions per attempt, several workers, crash between them, database errors, bounded collision loop; several workers that open a new file at once, power failure | an issued placeholder always resolves to its original; one placeholder per original and base; exhaustion is real; calls end; a served file is complete and private |
| configuration `config.py`, `guardrail.py` | validated settings | `_resolve_env`, `load_dictionary`, validators, `placeholder_namespace_regex`, merging of regex terms | unset variables, empty paths, entries that share a key, formats without `]` | what the dictionary asks for is found; bad settings are refused; the regex recognises exactly what the vault emits |
| detector `detector.py` | immutable automata and regexes | `_build_automata`, `find_matches` | duplicate keys, overlap resolution, present placeholders, empty matches | longest-then-leftmost; nothing forgotten; spans disjoint; placeholders untouched |
| mask engine `engine.py` | none | `derive_placeholder`, `mask`, `unmask`, `_rebuild` | an `await` per match, colliding codes, text around placeholders | round trip; no term left; same text, same mask |
| streaming buffer `streaming/buffer.py` | held text | `feed`, `drain_restored_with_vault`, `flush_restored_with_vault` | placeholders cut anywhere | output begins the restored message; complete at the end; bounded |
| SSE reframer `streaming/reframer.py` | held bytes | `feed`, `drain_complete`, `remaining`, `extract_frame_text`, `restore_frame_text` | bytes cut anywhere, payloads over several lines, last frame without blank line | frames independent of the chunks, no byte lost, a client reads the same events |
| restore of Anthropic bytes `streaming/restore.py` | a buffer per (block, pointer) | `_restore_bytes`, `_flush_index` | interleaved blocks, stop frames, truncation, vault errors | order within a block, complete at stop, nothing after stop, truncation signalled |
| restore of OpenAI objects `streaming/restore.py` | one buffer, pending text | `_restore_objects` | choices, chunks without text, end | order within a choice, complete at the end |
| adapters `adapters/*.py` | none | request and response slots per API shape | shapes that are not recognised, objects and dicts | every text field becomes a slot |
| guardrail `guardrail.py` | config, detector, vault; per request nothing but the request | pre-call, post-call, streaming and logging hooks | errors half-way, `fail_open`, per-request scopes, requests sharing the vault | no term upstream, no placeholder to the client, no false alarm |
| logging `logging.py` | none | `remask_logging_payload` | runs at any time, errors swallowed | what was re-masked shows no term; its placeholders can be looked up |

Interaction: the hooks of the guardrail call the adapters for the slots of a
request; `mask` runs the detector on each slot and awaits `vault.assign` for each
match; `unmask` and the streaming buffers read the vault synchronously, without
its lock. All requests of a process share one detector, one connection and one
lock; processes share the file. Nothing else is kept between a request and its
response: restore depends on the vault and on the namespace regex alone.

The hazards of this code, each at the line where it bites and with the properties
that watch it, are in `PROJECT.json`.

## 2. Modules

| Module | Models | Correspondence |
|---|---|---|
| `PseudonymStore` | what the vault promises, abstractly | `Grant`: an original gets the next free slot of a base; `Issue`: a caller is told a grant |
| `MappingVault` | `MappingVault` in several workers | `rows` is the table (slot k of a base is the base or `base-k`), `Insert` and `Select*` are the two transactions of a turn of `_assign_locked`, `Acquire`/`Release` the lock, `DbError` both `except` branches, `Close`, `Crash`, `Restart` |
| `MappingVaultProofs` | | proofs for `MappingVault` |
| `Configuration` | settings, environment and dictionary file up to the detector's tables | one operator per function: `ResolveEnv`, `LoadRaises`, `RegexTerms` (the `setdefault`), `Accepted` (the validators), `BuildAutomata`, `Detects` |
| `Startup` | the guardrail's `__init__` and `MappingVault._open` in several workers | composes `Configuration` with the file: one action per statement of `_open` that other workers can come between (`Exists`, `Create`/`CreateRaced`, `Tighten`, `CreateTable`, `Count`, `Seed`/`SeedRaced`), `DbError`, `Crash`, `PowerFailure`, `Checkpoint`; `Assign` when serving |
| `StartupProofs` | | proofs for `Startup` |
| `SpanOrder` | `_Span`'s order and overlap test, and longest-then-leftmost without a loop (`IsResolution`) | |
| `Detector` | `find_matches` | `AddSpan` (one hit of an automaton or a regex), `FindRegions`, `Exclude`, one `Keep` or `Skip` per turn of the loop, `Return` |
| `PlaceholderText` | the namespace regex, `finditer`, replacement | `MatchEnd` is the greedy end of a match with its optional disambiguator, `Restore` is `_restore_inplace` and `unmask` |
| `MaskEngine` | concurrent `mask` calls, then `unmask` | composes `SpanOrder`, `PlaceholderText` and the vault: `Start` (detection), one `Assign` per await, `Block` (VaultError), `Finish` (`_rebuild`) |
| `MaskingProofs` | | proofs for `Detector` and `MaskEngine` |
| `RestoredStream` | what restoring a stream promises, abstractly | text arrives on channels; what was given of a channel begins what restoring it would give; `Close`, `End`, `Fail` |
| `HoldBack` | how much of a text the buffer keeps | `Window`, `LastUnclosedOpener`, `TrailingOpenerPrefix`, `Cut` |
| `PlaceholderBuffer` | `PlaceholderBuffer` fed with any chunking of a message | `Chunk` is feed and drain, `Flush` the end with the tail suppressed when partial |
| `SseFrame` | one frame: `_parse_frame`, `extract_frame_text`, `restore_frame_text`; and what an SSE client makes of bytes | `Lines` is `splitlines`, `Passed` what `_restore_bytes` yields for a frame, `ClientEvents` the client |
| `SseReframer` | frames of a byte stream | `Feed` is feed, `drain_complete` and passing the frames on; `End` |
| `RestoreBytes` | `_restore_bytes` over frames | `BlockStart`, `Delta`, `BlockStop` (flush, remove, stop frame), `End`, and a failing variant of each with a vault error; `UpstreamFails` |
| `RestoreObjects` | `_restore_objects` over chunk objects | `ContentChunk`, `OtherChunk`, `End`, their failures |
| `StreamingRestore` | `streaming_restore` under the streaming hook | `FirstChunk` selects the regime, then the steps of an instance of `RestoreBytes` or of `RestoreObjects`; `ErrorFrame` is the hook's `except` |
| `Adapters` | which fields of a body are slots, per API shape | `RequestSlot`, `ResponseSlot` |
| `Guardrail` | the four hooks over a shared vault | slots of a body are processed one by one: `Call`, `Assign`, `SetSlot`, `Forward`/`MaskFails`; `Answer`, `RestoreSlot`, `Deliver`/`RestoreFails`; `StreamPiece`, `StreamEnds`/`StreamFails`; `LogCall`, `LogAssign`, `LogSlot`, `LogDone`/`LogFails` |
| `GuardrailProofs` | | proofs for `Guardrail` |
| `SequenceInduction` | | lemmas: induction over numbers stated with sets, `Min`, `Max`, cutting and flattening sequences |
| `SseReframerProofs` | | proofs for `SseReframer` |
| `HoldBackProofs` | | lemmas about `PlaceholderText` and `HoldBack`: what `Restore` and `Cut` make of a text that arrives in parts |
| `StreamingProofs` | | proofs for `PlaceholderBuffer` and `StreamingRestore` |
| `MC*` | | values of the constants for TLC |

Definitions whose comment begins with "Variant:" are plausible mistakes in the
code (a lost guard, a missing reset, an off-by-one). They are used by nothing; the
`mutants` of `PROJECT.json` substitute them for the definition they follow from,
to show that each property can fail. Where one proof module extends two components,
the names of one carry a prefix (`DetectorInit`, `BufferNext`).

### Refinement

Two abstract specifications say what a component promises, and TLC checks that
the detailed ones implement them:

* `PseudonymStore` is implemented by `MappingVault` (`Refines`), with the grants
  read off the table.
* `RestoredStream` is implemented by `PlaceholderBuffer` (one channel, the
  message; `Implements`), by `RestoreBytes` (a channel per content block, which
  closes at its stop frame; `BytesImplement`) and by `RestoreObjects` (one
  channel, the choice; `ObjectsImplement`). It says in one place what the three
  buffers must agree on: what has been given begins the restored text at every
  moment, all of it is given by the close, text may be kept back only if the text
  ends inside a placeholder, and a stream that ends there ends in an error.

All four are also proved, those of `RestoredStream` under the hypotheses of section 4.

### Abstractions

* Texts are sequences over a small alphabet in which every role a character can
  play occurs (part of the opener, code, closer, hyphen, digit that is also a code
  character as 2..7 are in base32, other). Codes are one character long, so that
  a placeholder is four characters; `Window` is computed as the code does it.
* HMAC and base32 are a function from scope and term to a code that may collide;
  everything the vault and the regex do with a code is kept.
* `vault.assign` is atomic in `MaskEngine`, `Guardrail` and `Startup`.
  `VaultImplementsStore` is what allows it: a call is one grant or one answer of
  the abstract store.
* In `Detector` a text is its length, and hits are any ranges the sources may
  report. `MaskEngine` computes them from texts.
* In `SseFrame` the content of a line is a token: a line without data, an object
  with or without text, the halves of an object over two lines. CR, LF, and the
  characters at which only Python breaks a line, are tokens of their own.
* In `Guardrail` a body is a sequence of fields. A field has the place where it
  stands, which `Adapters` turns into slots, and instead of its text the set of
  terms and the set of placeholders in it; the texts are `MaskEngine`'s subject.
  A piece of a stream is one whole text as `StreamingRestore` passes it on; it is
  restored only where the streaming code has a slot (`StreamSlot`): a tool call of
  a chunk object or the `delta` of a Responses event passes as it is.
* In `Startup` the database is the list of its committed transactions. A crash
  of a process keeps all of them, a power failure may cut off those after the
  last checkpoint, which is what WAL with `synchronous=NORMAL` promises.
* Where LiteLLM calls the logging hook, and whether with the very response object
  it returns to the client, is not visible in this repository. The hook may run
  at any time once there is an answer, with the request as sent or as the client
  wrote it; `SharedResult` says whether the object is shared. The passing run and
  the theorems are for an object that is not.

## 3. Runs

| Run | Bounds | Shows |
|---|---|---|
| `MCMappingVault` | 2 workers, 3 tasks, 3 originals on 1 base, 2 slots | types, `IssuedResolve`, `OnePlaceholder`, `ExhaustedIsFull`, and that the vault implements the store |
| `MCMappingVaultLive` | 1 worker, 3 tasks, 2 originals, 2 slots | every call ends |
| `Detector` | 4 characters, both automata and 1 regex, 3 hits, any regions | the loop computes the resolution, forgets nothing, leaves placeholders, gives a safe plan |
| `MCMaskEngine` | 2 requests, texts of up to 3 characters, 3 terms and a regex, 3 slots | round trip, nothing left, same text same mask |
| `MCPlaceholderBuffer` | messages of up to 4 pieces, chunks of up to 8 characters | the buffer implements the restored stream; little is held; no false flag |
| `SseReframer` | 6 tokens, chunks of up to 3 | frames do not depend on chunks, no byte is lost, the client sees the same events |
| `MCStreamingRestore` | 2 blocks, or 1 choice; 5 frames or chunks with text; fragments that cut a placeholder at every place | both regimes implement the restored stream; nothing after a stop frame; nothing waits in `pending` |
| `MCGuardrail` | 2 requests, 5 calls (one per API shape, a streamed one, one without text), 2 terms, 2 scopes, 4 answers, a made-up placeholder | fail closed, no placeholder delivered, no false alarm; logs show no term; every placeholder lexvault wrote into a request or a log can be looked up |
| `MCStartup` | 2 workers, every dictionary of 2 entries out of 3, every single unusual setting, 2 faults | who serves has a complete and private vault and finds all terms; an accepted configuration serves in the end |

Why the bounds are enough. Three originals on a base with two slots make a call
collide, succeed on the second slot, and exhaust; two workers with two tasks in
one of them give both kinds of race. Overlap resolution compares spans in pairs,
and three spans give the case in which a kept span stands between two others. A
window is longer than the longest placeholder, and messages of four pieces are
longer than a window and a placeholder, so every position of a cut relative to a
placeholder occurs. A frame takes two tokens at least, so a chunk of three can
end one frame and hold all of another, and six tokens hold a payload of two lines
with its blank line. Five fragments are a placeholder in four parts with text
behind it. Two fields per body are needed for an error between slots, and two
requests for a vault that changes under a request. Two faults let a worker die
half-way and the host lose power while another one opens the file. Dictionaries
of two entries hold two terms that share a key in one table, or across the two.
Runs that may stop (a stream that has ended, requests that are all done) switch
the deadlock check off; the runs of the vault and of the start keep it.

### Runs that show a disagreement

Each of these checks one statement of a comment, a docstring or a page of the
documentation that the code does not keep. `BufferSuffix`, `ReframerSeparator`
and `GuardrailSurfaces` are listed as runs of `PROJECT.json`, with the source
lines under `findings`; the other configurations are kept beside them and are run
by hand (`tlc -config <run>.cfg <module>`), each violating the one property it
names (where a configuration serves several statements, put the one to be checked
behind its INVARIANT):

| Run | Module | Statement | What happens |
|---|---|---|---|
| `BufferSuffix` | `MCPlaceholderBuffer` | a placeholder is never split | the cut falls between `]` and `-2`; another original is restored |
| `ReframerSeparator` | `SseReframer` | every delta with text is restored | U+2028, U+2029 or U+0085 unescaped in the JSON: `splitlines` breaks the data line, the frame passes as it is |
| `DetectorEmpty` | `Detector` | plans do not overlap | a regex matches the empty string at the start of a kept span; the rebuild goes back and copies the span unmasked |
| `GuardrailSurfaces` | `MCGuardrail` | all surfaces are masked | string content and `tool_result` of the Messages API are no slots |
| `BufferAngle` | `MCPlaceholderBuffer` | a complete placeholder is not flagged | formats without `]` |
| `BytesPartial` | `MCStreamingRestore` | a dangling partial raises | not when its block has been closed |
| `ObjectsChoices` | `MCStreamingRestore` | all choices are handled | their texts are mixed |
| `ObjectsFinish` | `MCStreamingRestore` | nothing follows the chunk with a `finish_reason` | the held tail does |
| `ReframerLeftover` | `SseReframer` | the leftover is taken at the end | it is dropped |
| `EngineSuffix` | `MCMaskEngine` | mask then unmask is the identity | a term followed by `-2` reads as a disambiguated placeholder |
| `EngineVariants` | `MCMaskEngine` | one codename, one placeholder | spellings of a case-insensitive term collide and get `-2` |
| `EngineScopes` | `MCMaskEngine` | a scope isolates mappings | lookup ignores the scope |
| `EngineRemask` | `MCMaskEngine` | re-masking is idempotent | the rest of an overlapped regex hit matches again |
| `GuardrailClaims` | `MCGuardrail` | `StreamedRestored`: no placeholder reaches the client | streams are not searched for residuals, and tool calls of a streamed chunk object have no slot |
| | | `LogConsistent`: one placeholder per term in a call | the log uses the scope of the config |
| `GuardrailShared` | `MCGuardrail` | no placeholder reaches the client | if the log is given the response object itself, a re-mask undoes the restore |
| `StartupClaims` | `MCStartup` | `IssuedNeverAnother`: an issued placeholder is not given to another original | a power failure loses commits and frees its slot |
| | | `RegexTermsMerged`: regex terms of file and config are merged | any list in the config discards those of the file |
| | | `KeyIsSecret`: the key comes from the environment | an unset variable leaves the text of the reference as the key |
| | | `DictionaryIsLoaded`: a missing dictionary is an error | an empty path is never opened |

The passing runs of the same modules therefore state where the statements hold:
messages without a disambiguator after the cut, block starts without text (what
Anthropic sends), one choice, regexes without empty matches, terms of one
spelling per text position, slots instead of all fields, payloads on lines that
SSE and Python break alike.

### Fairness

`EveryCallEnds` needs `WF(Advance)`: a task that holds the lock runs without
suspension in `_assign_locked`, so once scheduled it goes on; and `SF(Acquire)`:
`asyncio.Lock` wakes its waiters in the order in which they came, so a waiter is
not overtaken for ever although the lock is taken again and again.

`EventuallyServes` needs `WF(Advance)` of each worker: `_open` is synchronous code
that goes on by itself. `Advance` includes `Start`, that is, something starts a
worker again after it has ended. The repository has no supervisor (the compose
file of the examples runs one worker and names no restart policy), so this is an
assumption about the deployment; what the property then says is about the code:
no interleaving and no death leaves a file on which every later start fails.

Callers, faults, checkpoints and `close` have no fairness.

## 4. Proofs

The proofs hold for all values of the constants, from the named assumptions in
the modules only: `MaxTries` is positive, tasks have a worker, the null values
are no originals or tasks, lengths and numbers are natural numbers, texts, words
and literals are sequences, calls and answers have the form of a call and of an
answer. Three assumptions say something about the code. `WordsAssumption`: the
words of one table have different keys, as the `setdefault` of `_build_automata`
leaves them. `PatternAssumption` of `MaskEngine`: no regex matches the empty string
(`Detector` has the regexes that do, and `DetectorEmpty` shows what they break).
`HyphenAssumption`: no code contains the hyphen that begins a disambiguator, which
is so for base32. A theorem that needs more has it as a hypothesis, and the
constants of the run that checks its property satisfy the hypothesis.

The provers have no induction over data. Where a proof needs one, it shows that a
set of numbers contains 0 and with a number its successor, and concludes with
`NatSetInduction` of `SequenceInduction`, which states induction with a set instead
of a predicate. The equation of a recursive function (`RestoreFrom`, `Flatten`, `Lines`,
`DrainComplete`, the rebuild) is proved from its definition by `CHOOSE` in the same
way, and everything else about the function from the equation.

**Vault.** `IssuedResolve` and `OnePlaceholder` are not inductive: they say
nothing of calls under way. The strengthening `IInv` says that slots of a base are
filled in order (`Dense`), that no original fills two slots (`Distinct`), that a
call at slot k has seen another original in every slot before k (`Scanned`), and
that its SELECT finds a row (`SelectFindsRow`). The key lemma is that rows are
never changed: then what a call has scanned stays true while other workers run,
and two calls for one original that race through the same slots must stop at the
same one. `IInv` does not mention the locks. The argument needs only that one
INSERT OR IGNORE is atomic in the file; the lock matters for liveness and for
`close`. From `IInv`: `TypeCorrect`, `IssuedAlwaysResolve`, `ExhaustionIsReal`,
`RemaskIsIdempotent`, and `VaultImplementsStore`: an `Insert` into a free slot is
a `Grant`, `SelectOwn` is an `Issue`, and everything else is a stutter.

**Overlap resolution.** The invariant of the loop is that the spans visited come
before the ones to be visited in the order of the sort, and that the spans kept
are the resolution of the visited ones. It needs that the order is strict and
total, which the number of the source gives it (Python's sort is stable).
`ResolutionCorrect`, `NoHitForgotten` and `PlaceholdersKept` follow without an
assumption on the hits; `PlanIsSafe` needs that no regex matches the empty string,
and `DetectorEmpty` shows that it does.

**Hooks.** For any number of requests, slots, terms and scopes, any calls and any
answers, under `~SharedResult`. What the properties say of a request that was
sent or delivered is not inductive, since nothing in them is about a loop that is
half-way. The strengthening `IInv` of `GuardrailProofs` has one conjunct per loop:
slots behind the masking loop have no term, and what it has assigned at its slot
is in the vault (`MaskingInv`); a placeholder that was put into a body is in the
vault and what is no slot is unchanged (`BodyInv`); a placeholder left behind the
restoring loop has set the flag (`RestoringInv`). Each conjunct is about one
request and, monotonically, about the vault, so one lemma (`RequestStep`) lifts a
step of a request to all of them: the others keep their conjuncts because the
vault only grows (`VaultGrows`). From it: `HookTypes`, `TermsStayHome`
(`NoTermUpstream`), `PlaceholdersHaveRows` (`PlaceholdersRestorable`) and
`NothingMaskedDelivered` (`DeliveredRestored`). A link between a request and its
log (`LogLink`) is added for the logs: a log exists only when the response is
complete, so its slots stay those of the request while it is re-masked, however
the hooks go on; and what a log holds beside what the client and the LLM wrote, and
what the re-mask has assigned at its slot, is in the vault (`LogHeld`). From it
`LogsAreMasked` (`LoggedMasked`) and `LogsHaveRows` (`LoggedRestorable`). Why `~SharedResult` is
needed is what `GuardrailShared` shows. `NoFalseAlarm` (`FilteredForAReason`) goes
the other way: whatever was masked without an error is in the vault when the
answer comes, hence a placeholder that restoring leaves behind is none that the
LLM was sent (`FInv`). It uses that a call of a type without text has no slots
(`NonTextAssumption`).

**Opening.** For any number of workers, settings and faults. `ServingReady` is not
inductive, because a worker arrives at serving along two paths. `IInv` of
`StartupProofs` says of every statement of `_open` what is in the file when a
worker stands there; each of these facts is kept by the other workers, since a
commit takes nothing away and a mode that is tight stays so, and a power failure,
which does take away, leaves no worker at any statement. From it
`ServedIsComplete` (`ServingReady`) and `OriginalsPrivate` (`Private`: rows come
from workers that serve, so the mode was set before the first). `StartupTypes`
(`TypeOK`) adds that nothing is in the file twice and that slots have no gap, which
a power failure keeps because it cuts off the end of the list of commits, and
`DictionaryIsWhole` (`NoTermLost`) that the tables of a serving worker find exactly
what the entries of any dictionary ask for.

**Framing.** `IInv` of `SseReframerProofs`: the frames popped and the bytes held
are those that popping from all the bytes received at once would give. The lemma
behind the step says that a frame that is complete does not change when bytes are
appended, since its end is the first match of the separator and no longer match
begins there; so popping from the rest and a chunk continues what popping from
everything would do. From it `BufferIncomplete`, `ChunksDoNotMatter` and
`BytesConserved`.

`ClientReadsRestored` (`ClientSees`) adds one conjunct, that what was passed on are
the frames popped, each as `_restore_bytes` yields it (`OutIsPassed`), and compares
two clients. A client reads line by line: a line more at the end of what it has read
takes it one step further (`ClientSnoc`), because lines do not change when
complete ones stand before them (`LinesSnoc`). Only the last line of a frame is blank,
for an earlier one would have been the end of the frame (`LastLineBlank`), so within a
frame a client only collects lines, and at the end of every frame it is between
two events. `Follows` says that of the stream and of the rewritten stream and that
their events are the same but for the texts; a frame on each side keeps it, line by
line (`FrameFollows`: the first data line stands for all, the other lines are
copied), and the bytes held hold no blank line, so they give no event
(`BufferSilent`). The hypotheses: `Sep` is not among the bytes, which
`ReframerSeparator` shows to be needed; `Restored`, the object put in, is not
an end of a line, which says that two tokens are different; and, inside `ClientSees`,
that lines end as servers end them.

**Hold-back and streams.** `HoldBackProofs` proves what the restore of a text has
to do with the restores of its parts: `Restore` of a text cut at a good place is
`Restore` of the front followed by `Restore` of the tail, and `Cut` finds a good
place (`GoodCut`): none inside a placeholder, and none that bytes still to come
could put inside one. `Drained` says of a buffer that it holds the tail of what
arrived behind a good cut and gave the front, restored; feed and drain keep it, and
a flush gives the rest. On this stand the buffer (`BufferHoldsTheRest`,
`BufferTypes`, `CompleteIsNotFlagged`, `HoldIsBounded`) and the streams
(`StreamTypes`, `PendingStaysEmpty`, `StopIsLast`), and the three implementations
of `RestoredStream`: `BufferRestoresStream`, `ObjectsRestoreStream`,
`BytesRestoreStream`. Their hypotheses are those that the findings show to be
needed:

* `UnambiguousFormat`: the opener's first character begins nothing else and the
  bracket the buffer looks for closes the placeholder and stands nowhere else in
  it. The default `[LEX-{code}]` satisfies it; `BufferAngle` shows a format that
  does not.
* `Unsuffixed` (in `PlainMessages`, `PlainChoice`, `PlainBlocks`): no placeholder of
  a message is followed by a hyphen and a digit; `BufferSuffix` shows why. For the
  streams it is asked of the texts a behaviour sends, `[]PlainBlocks`.
* `StartTexts = {<<>>}` for the bytes and `ChoiceIds = {0}` for the objects
  (`ObjectsChoices` has two), as in the run.
* `ShortCodes` for `HoldIsBounded` only: no code in a message is longer than the
  codes of the vault.

`BufferTypes`, `StreamTypes`, `PendingStaysEmpty` and `StopIsLast` need none of them.

**Masking.** `MaskInvariant` relates the plan of every running request to the
vault: the plan holds, for each match already assigned, the one slot its original
has. A slot once right stays right, since rows are only added and the slots of a
base are filled in order, so the plans of all requests agree whatever order their
awaits resume in. From it `MaskTypes` (every row is a placeholder that the
namespace regex finds again as one whole match; here the hyphen matters) and
`SameMask` (`SameTextSameMask`). `MaskUnmask` (`RoundTrip`) and `NoTermLeft`
(`NothingLeft`) go by induction along the plan: each rest of the rebuilt text is
restored to the same rest of the text, and whatever of it lies outside the
placeholders is copied from the text. A term left over would therefore be a hit in
the text that overlaps nothing that was kept, and the resolution leaves none.
Both have the hypotheses `UnambiguousFormat`, that the opener begins with neither a
digit nor a hyphen, and `PlainTexts`: the texts hold no placeholder, and what
follows a match is no digit or hyphen. `EngineSuffix` shows that the round trip
fails without the last one.

**Only model-checked.** `EveryCallEnds` and `EventuallyServes`, since liveness is
out of the prover's reach. Every other property of a passing run is proved.

## 5. Not modelled

* `_warn_on_guardrail_ordering` and `_safe_model`: the one only writes to the log,
  the other only words a message.
* The mode of the vault's parent directory; `~` in `vault_path`, which is not
  expanded by the code. Types of the settings, which pydantic coerces.
* An empty string as the scope of a request, which overrides one given before it
  and then falls back to the scope of the config.
* The `CREATE INDEX` of `_SCHEMA`, after the two tables: no other statement
  depends on the index.
* Which JSON fields of an SSE frame hold text: in `SseFrame` that is part of the
  token. `tool_call_argument_slots`, `parse_arguments` and `flush()` without
  restoring, which have no caller.
* The shim, the package's exports, the examples and the fake backend: no logic of
  the program.

## 6. Plan

Order: first the vault, since all of the restore path rests on it; then what
decides which text is replaced; then the streams, where order is hard; then the
hooks, then the start. All of that is in place. What is left:

1. `RestoreBytes` over the bytes of `SseReframer` instead of over frames.
2. `BytesRestoreStream` for blocks whose start frames have text: the start buffer
   and the delta buffer of a block then both hold some, and the statement needs
   the order in which they are flushed.
3. A `placeholder_format` that begins with `{code}` as an instance of
   `PlaceholderBuffer`, with a bound that does not speak of openers.
