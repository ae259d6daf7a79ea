---------------------------- MODULE StreamEmission ----------------------------
(***************************************************************************)
(* One sequence's way from sampled tokens to its consumer: the iteration   *)
(* pipeline of the rank runtime (poll for a cancellation, decode, turn     *)
(* tokens into text and look for stop strings, decide the finish state,    *)
(* emit a chunk, evict) and the finalizer that closes the channel of a     *)
(* batch that was given up (cpp/runtime/streaming, llmRankRuntime).        *)
(*                                                                         *)
(* Text is a sequence of bytes: "L" opens a two-byte code point, "T"       *)
(* continues it, "?" stands for U+FFFD, anything else is a whole           *)
(* character.  tokenIds is the working history: the part of the prompt     *)
(* that was not restored from a cache, then what was generated.            *)
(***************************************************************************)
EXTENDS Integers, Sequences, FiniteSets

CONSTANTS Byte,
          Vocab,
          Piece,                  \* [Vocab -> bytes], what idToPiece() gives
          EosTokens,              \* the ones isEosToken() accepts
          Stops,                  \* the slot's stop strings
          Prompt,                 \* the tokens before the first generated one
          Intervals,              \* the values setStreamInterval() may leave
          MaxGenerateLength,
          MaxBurst,               \* tokens one decode step may accept
          PartialPrefillEviction  \* may a founding batch evict before its first decode?

ASSUME EmissionAssumption ==
  /\ {"L", "T", "?"} \subseteq Byte
  /\ EosTokens \subseteq Vocab
  /\ Piece \in [Vocab -> Seq(Byte)]
  /\ Prompt \in Seq(Vocab)
  /\ Stops \subseteq Seq(Byte) /\ IsFiniteSet(Stops)
  /\ \A stop \in Stops : Len(stop) > 0
  /\ Intervals \subseteq Nat \ {0}
  /\ MaxGenerateLength \in Nat \ {0}
  /\ MaxBurst \in Nat \ {0}
  /\ PartialPrefillEviction \in BOOLEAN

Seqs == INSTANCE SequencesExt

Live == "kNotFinished"
Natural == {"kEndId", "kLength", "kStopWords"}
Reasons == Natural \cup {"kCancelled", "kError"}

VARIABLES
  pc,                   \* where the runtime thread is in the iteration
  founding,             \* before the first eviction of a founding batch
  hasChannel,           \* a null entry opts out of streaming
  mStreamInterval,      \* set before the channel is attached
  tokenIds,
  terminalReason,       \* finishedStates[i] is set exactly when this is not Live
  sentTokenCount, pendingBytes,             \* detokenization
  stopMatchBuffer, stopMatchedThisIter,     \* stop-string matching
  pendingEmitText, lastEmittedTokenCount,   \* emission
  mCancelled, mReason,  \* the channel's flags; mFinished when mReason is not Live
  pushed                \* the channel's chunks: [ids, text, finished, reason]

textVars == <<sentTokenCount, pendingBytes, stopMatchBuffer, stopMatchedThisIter>>
emitVars == <<pendingEmitText, lastEmittedTokenCount>>
channelVars == <<mReason, pushed>>
slotVars == <<hasChannel, mStreamInterval>>
vars == <<pc, founding, slotVars, tokenIds, terminalReason, textVars, emitVars,
          mCancelled, channelVars>>

Finished == terminalReason # Live

(* appendSlot() seeds every joiner behind its prompt, handleRequest() only the        *)
(* founding slots that have a channel.                                                *)
SeededAt == IF hasChannel \/ ~founding THEN Len(Prompt) ELSE 0

Generated == SubSeq(tokenIds, Len(Prompt) + 1, Len(tokenIds))
currentGenerateLength == Len(tokenIds) - Len(Prompt)

Init == /\ pc \in {"prefill", "seat"}
        /\ founding = (pc = "prefill")
        /\ hasChannel \in BOOLEAN
        /\ mStreamInterval \in Intervals
        /\ tokenIds = Prompt
        /\ terminalReason = Live
        /\ sentTokenCount = SeededAt
        /\ pendingBytes = <<>>
        /\ stopMatchBuffer = <<>>
        /\ stopMatchedThisIter = FALSE
        /\ pendingEmitText = <<>>
        /\ lastEmittedTokenCount = SeededAt
        /\ mCancelled = FALSE
        /\ mReason = Live
        /\ pushed = <<>>

-----------------------------------------------------------------------------
(* Bytes and text.                                                         *)

Raw(ids) == Seqs!FlattenSeq([i \in DOMAIN ids |-> Piece[ids[i]]])

(* sanitizeUtf8Streaming(): a lead byte whose continuation may still come is held, one *)
(* that is followed by something else is replaced, and so is a stray continuation.    *)
Opens(bytes, i) == i \in DOMAIN bytes /\ bytes[i] = "L"
Continues(bytes, i) == i \in DOMAIN bytes /\ bytes[i] = "T"
IsBroken(bytes, i) == \/ Opens(bytes, i) /\ ~Continues(bytes, i + 1)
                      \/ Continues(bytes, i) /\ ~Opens(bytes, i - 1)

Sanitized(held, new) ==
  LET bytes == held \o new
      incomplete == IF Opens(bytes, Len(bytes)) THEN 1 ELSE 0
  IN  [out |-> [i \in 1..(Len(bytes) - incomplete) |-> IF IsBroken(bytes, i) THEN "?" ELSE bytes[i]],
       held |-> SubSeq(bytes, Len(bytes) - incomplete + 1, Len(bytes))]

Flush(held) == [i \in DOMAIN held |-> "?"]

(* Tokenizer::decode(): the same, in one go. *)
Decoded(ids) == LET all == Sanitized(<<>>, Raw(ids)) IN all.out \o Flush(all.held)

WellFormed(text) == LET s == Sanitized(<<>>, text) IN s.out = text /\ s.held = <<>>

Lowest(S) == CHOOSE x \in S : \A y \in S : x <= y
Highest(S) == CHOOSE x \in S : \A y \in S : y <= x

maxStopLen == Highest({0} \cup {Len(stop) : stop \in Stops})
FoundAt(text) == {i \in DOMAIN text : \E stop \in Stops : Seqs!IsPrefix(stop, SubSeq(text, i, Len(text)))}

StopMatch_HoldsTooLittle(buffer, isFinal) ==
  LET holdBack == IF isFinal \/ Stops = {} THEN 0 ELSE maxStopLen - 2
      safeLen == Highest({0, Len(buffer) - holdBack})
  IN  IF FoundAt(buffer) # {}
      THEN [emitted |-> SubSeq(buffer, 1, Lowest(FoundAt(buffer)) - 1),
            kept |-> <<>>, matched |-> TRUE]
      ELSE [emitted |-> SubSeq(buffer, 1, safeLen),
            kept |-> SubSeq(buffer, safeLen + 1, Len(buffer)), matched |-> FALSE]

(* applyStopStringMatch(): the text before the earliest stop; or, when more may come, *)
(* all but the last bytes, which may be the beginning of one.                         *)
StopMatch(buffer, isFinal) ==
  LET holdBack == IF isFinal \/ Stops = {} THEN 0 ELSE maxStopLen - 1
      safeLen == Highest({0, Len(buffer) - holdBack})
  IN  IF FoundAt(buffer) # {}
      THEN [emitted |-> SubSeq(buffer, 1, Lowest(FoundAt(buffer)) - 1),
            kept |-> <<>>, matched |-> TRUE]
      ELSE [emitted |-> SubSeq(buffer, 1, safeLen),
            kept |-> SubSeq(buffer, safeLen + 1, Len(buffer)), matched |-> FALSE]

(* What handleRequest() returns for the slot: all its text, cut at the earliest stop. *)
Response == StopMatch(Decoded(Generated), TRUE)

-----------------------------------------------------------------------------
(* The consumer. *)
Cancel ==
  /\ hasChannel /\ pc # "done"
  /\ ~mCancelled
  /\ mCancelled' = TRUE
  /\ UNCHANGED <<pc, founding, slotVars, tokenIds, terminalReason, textVars, emitVars,
                 channelVars>>

(* The prefill's token. *)
Prefill ==
  /\ pc = "prefill"
  /\ \E token \in Vocab : tokenIds' = Append(tokenIds, token)
  /\ pc' = "poll"
  /\ UNCHANGED <<founding, slotVars, terminalReason, textVars, emitVars, mCancelled,
                 channelVars>>

(* prefillSeated(): a joiner's token waits for the first decode.  One that ends the   *)
(* sequence is evicted on the spot, see RequestEngine.                                *)
SeatedPrefill ==
  /\ pc = "seat"
  /\ MaxGenerateLength > 1
  /\ \E token \in Vocab \ EosTokens : tokenIds' = Append(tokenIds, token)
  /\ pc' = "poll"
  /\ UNCHANGED <<founding, slotVars, terminalReason, textVars, emitVars, mCancelled,
                 channelVars>>

ApplyCancellation ==
  /\ pc = "poll"
  /\ terminalReason' = IF hasChannel /\ ~Finished /\ mCancelled THEN "kCancelled"
                       ELSE terminalReason
  /\ pc' = IF founding THEN "text" ELSE "decode"
  /\ UNCHANGED <<founding, slotVars, tokenIds, textVars, emitVars, mCancelled, channelVars>>

(* A row that has ended gets no more tokens; another gets what the step accepts, up   *)
(* to the token that ends it.                                                         *)
Bursts == UNION {[1..n -> Vocab] : n \in 1..MaxBurst}
Accepted(burst) ==
  /\ currentGenerateLength + Len(burst) <= MaxGenerateLength
  /\ \A i \in 1..(Len(burst) - 1) : burst[i] \notin EosTokens

DecodeStep ==
  /\ pc = "decode"
  /\ IF Finished THEN UNCHANGED tokenIds
     ELSE \E burst \in Bursts : Accepted(burst) /\ tokenIds' = tokenIds \o burst
  /\ pc' = "text"
  /\ UNCHANGED <<founding, slotVars, terminalReason, textVars, emitVars, mCancelled,
                 channelVars>>

(* failSlot(): the grammar of a guided row admits no token, or not the sampled ones.  *)
GuideFails ==
  /\ pc \in {"prefill", "decode"}
  /\ ~Finished
  /\ \/ UNCHANGED tokenIds
     \/ \E burst \in Bursts : /\ Accepted(burst)
                              /\ (pc = "prefill" => Len(burst) = 1)
                              /\ tokenIds' = tokenIds \o burst
  /\ terminalReason' = "kError"
  /\ pc' = IF pc = "prefill" THEN "poll" ELSE "text"
  /\ UNCHANGED <<founding, slotVars, textVars, emitVars, mCancelled, channelVars>>

-----------------------------------------------------------------------------
(* decodePerSlot(), updateFinishStates(), emitChunks(), performBatchEvict()  *)

(* Nothing to decode for anybody, or not enough yet for a chunk. *)
TooEarly == IF hasChannel
            THEN ~Finished /\ Len(tokenIds) - sentTokenCount < mStreamInterval
            ELSE Stops = {}

SkipText ==
  /\ pc = "text"
  /\ TooEarly
  /\ stopMatchedThisIter' = FALSE
  /\ pendingEmitText' = <<>>
  /\ pc' = "finish"
  /\ UNCHANGED <<founding, slotVars, tokenIds, terminalReason, sentTokenCount, pendingBytes,
                 stopMatchBuffer, lastEmittedTokenCount, mCancelled, channelVars>>

(* emitDelta() and emitDeltaFlush(). *)
Delta == LET new == Sanitized(pendingBytes, Raw(SubSeq(tokenIds, sentTokenCount + 1, Len(tokenIds))))
         IN  IF Finished THEN [out |-> new.out \o Flush(new.held), held |-> <<>>] ELSE new

(* A stop overrides a natural ending, not a cancellation or an error. *)
StopActive == Stops # {} /\ terminalReason \notin {"kCancelled", "kError"}

DecodeText ==
  /\ pc = "text"
  /\ ~TooEarly
  /\ sentTokenCount' = Len(tokenIds)
  /\ pendingBytes' = Delta.held
  /\ LET outcome == StopMatch(stopMatchBuffer \o Delta.out, Finished)
     IN  IF StopActive
         THEN /\ pendingEmitText' = outcome.emitted
              /\ stopMatchBuffer' = outcome.kept
              /\ stopMatchedThisIter' = outcome.matched
         ELSE /\ pendingEmitText' = Delta.out
              /\ stopMatchedThisIter' = FALSE
              /\ UNCHANGED stopMatchBuffer
  /\ pc' = "finish"
  /\ UNCHANGED <<founding, slotVars, tokenIds, terminalReason, lastEmittedTokenCount,
                 mCancelled, channelVars>>

NaturalEnding == IF tokenIds # <<>> /\ tokenIds[Len(tokenIds)] \in EosTokens THEN "kEndId"
                 ELSE IF currentGenerateLength >= MaxGenerateLength THEN "kLength"
                 ELSE Live

UpdateFinishStates ==
  /\ pc = "finish"
  /\ terminalReason' = IF stopMatchedThisIter THEN "kStopWords"
                       ELSE IF Finished THEN terminalReason
                       ELSE NaturalEnding
  /\ pc' = "emit"
  /\ UNCHANGED <<founding, slotVars, tokenIds, textVars, emitVars, mCancelled, channelVars>>

HeldBackIsDue_LengthOnly == terminalReason = "kLength"

(* What was held back for the matcher belongs to the last chunk of a natural ending.  *)
HeldBackIsDue == terminalReason \in {"kEndId", "kLength"}

ChunkText == pendingEmitText \o (IF HeldBackIsDue THEN stopMatchBuffer ELSE <<>>)

EmitChunks_ForgetsCount ==
  /\ pc = "emit"
  /\ IF ~hasChannel \/ (ChunkText = <<>> /\ ~Finished)
     THEN UNCHANGED <<channelVars, emitVars, stopMatchBuffer>>
     ELSE /\ pushed' = Append(pushed,
                 [ids |-> SubSeq(tokenIds, lastEmittedTokenCount + 1, sentTokenCount),
                  text |-> ChunkText, finished |-> Finished, reason |-> terminalReason])
          /\ UNCHANGED lastEmittedTokenCount
          /\ pendingEmitText' = <<>>
          /\ stopMatchBuffer' = IF HeldBackIsDue THEN <<>> ELSE stopMatchBuffer
          /\ mReason' = IF mReason = Live THEN terminalReason ELSE mReason
  /\ pc' = "evict"
  /\ UNCHANGED <<founding, slotVars, tokenIds, terminalReason, sentTokenCount, pendingBytes,
                 stopMatchedThisIter, mCancelled>>

EmitChunks ==
  /\ pc = "emit"
  /\ IF ~hasChannel \/ (ChunkText = <<>> /\ ~Finished)
     THEN UNCHANGED <<channelVars, emitVars, stopMatchBuffer>>
     ELSE /\ pushed' = Append(pushed,
                 [ids |-> SubSeq(tokenIds, lastEmittedTokenCount + 1, sentTokenCount),
                  text |-> ChunkText, finished |-> Finished, reason |-> terminalReason])
          /\ lastEmittedTokenCount' = sentTokenCount
          /\ pendingEmitText' = <<>>
          /\ stopMatchBuffer' = IF HeldBackIsDue THEN <<>> ELSE stopMatchBuffer
          /\ mReason' = IF mReason = Live THEN terminalReason ELSE mReason
  /\ pc' = "evict"
  /\ UNCHANGED <<founding, slotVars, tokenIds, terminalReason, sentTokenCount, pendingBytes,
                 stopMatchedThisIter, mCancelled>>

(* Before the first decode, a batch that cannot evict some of its rows keeps all of   *)
(* them unless all have ended.                                                        *)
Evict ==
  /\ pc = "evict"
  /\ \/ Finished /\ pc' = "done"
     \/ ~Finished /\ pc' = "poll"
     \/ Finished /\ founding /\ ~PartialPrefillEviction /\ pc' = "poll"
  /\ founding' = FALSE
  /\ UNCHANGED <<slotVars, tokenIds, terminalReason, textVars, emitVars, mCancelled,
                 channelVars>>

-----------------------------------------------------------------------------
(* A stage fails or throws: the prefill, the synchronisation of cancellations, the    *)
(* decode (its tokens appended or not), the cache's bookkeeping, the eviction.  Only  *)
(* the bookkeeping comes between deciding and emitting, and only after a decode.      *)
Abort ==
  /\ \/ pc \in {"prefill", "seat", "poll", "decode", "text", "evict"}
     \/ pc = "emit" /\ ~founding
  /\ pc' = "finalize"
  /\ UNCHANGED <<founding, slotVars, tokenIds, terminalReason, textVars, emitVars,
                 mCancelled, channelVars>>

(* ~StreamChannelFinalizer(): what the chunk would hold. *)
LastDelta == LET new == Sanitized(pendingBytes, Raw(SubSeq(tokenIds, sentTokenCount + 1, Len(tokenIds))))
             IN  new.out \o Flush(new.held)

FinalChunk == [ids |-> SubSeq(tokenIds, lastEmittedTokenCount + 1, Len(tokenIds)),
               text |-> LastDelta, finished |-> TRUE, reason |-> "kError"]

Finalize_FinishInTry ==
  /\ pc = "finalize"
  /\ IF hasChannel /\ mReason = Live
     THEN \/ pushed' = Append(pushed, FinalChunk) /\ mReason' = "kError"
          \/ UNCHANGED channelVars
     ELSE UNCHANGED channelVars
  /\ pc' = "done"
  /\ UNCHANGED <<founding, slotVars, tokenIds, terminalReason, textVars, emitVars, mCancelled>>

(* An open channel is closed, with a last chunk unless its assembly throws. *)
Finalize ==
  /\ pc = "finalize"
  /\ IF hasChannel /\ mReason = Live
     THEN /\ pushed' \in {pushed, Append(pushed, FinalChunk)}
          /\ mReason' = "kError"
     ELSE UNCHANGED channelVars
  /\ pc' = "done"
  /\ UNCHANGED <<founding, slotVars, tokenIds, terminalReason, textVars, emitVars, mCancelled>>

Runtime == \/ Prefill \/ SeatedPrefill
           \/ ApplyCancellation
           \/ DecodeStep \/ GuideFails
           \/ SkipText \/ DecodeText
           \/ UpdateFinishStates
           \/ EmitChunks
           \/ Evict
           \/ Abort \/ Finalize

Over == pc = "done" /\ UNCHANGED vars

Next == Runtime \/ Cancel \/ Over

Spec == Init /\ [][Next]_vars

-----------------------------------------------------------------------------
TypeOK ==
  /\ pc \in {"prefill", "seat", "poll", "decode", "text", "finish", "emit", "evict",
             "finalize", "done"}
  /\ {founding, hasChannel, stopMatchedThisIter, mCancelled} \subseteq BOOLEAN
  /\ mStreamInterval \in Intervals
  /\ tokenIds \in Seq(Vocab)
  /\ {terminalReason, mReason} \subseteq Reasons \cup {Live}
  /\ lastEmittedTokenCount <= sentTokenCount
  /\ sentTokenCount <= Len(tokenIds)
  /\ pendingBytes \in {<<>>, <<"L">>}
  /\ {stopMatchBuffer, pendingEmitText} \subseteq Seq(Byte)
  /\ pushed \in Seq([ids : Seq(Vocab), text : Seq(Byte), finished : BOOLEAN,
                     reason : Reasons \cup {Live}])

Text == Seqs!FlattenSeq([i \in DOMAIN pushed |-> pushed[i].text])
Ids == Seqs!FlattenSeq([i \in DOMAIN pushed |-> pushed[i].ids])

(* The consumer sees each token once and in order, and it has seen all of them when   *)
(* the stream ends, unless the sequence failed (emitChunks).  With a longer interval  *)
(* that is so only of a cancelled sequence, see TailIsDelivered.                      *)
TokensAreDelivered ==
  /\ Seqs!IsPrefix(Ids, Generated)
  /\ mReason = "kCancelled" \/ (mReason \in Natural /\ mStreamInterval = 1) => Ids = Generated

(* Streaming and not streaming agree: when a sequence ends by itself, the chunks add  *)
(* up to the text handleRequest() returns, with the same reason, however the stop     *)
(* string was spread over tokens and iterations.  This is about the text decodePerSlot*)
(* has looked at; what an ending leaves undecoded is not flushed (see README).        *)
StreamIsResponse ==
  /\ mReason \in Natural
  /\ sentTokenCount = Len(tokenIds)
  /\ pendingBytes = <<>> \/ mReason = "kStopWords"
  => /\ Text = Response.emitted
     /\ (mReason = "kStopWords") = Response.matched

(* Stop strings stop.  None of one, and nothing after it, leaks into a stream that did *)
(* not fail, not even if it is cancelled while part of one is held back; and with or   *)
(* without a channel no row goes on with a whole one in the text it looked at          *)
(* (applyStopStringMatch, updateFinishStates).  The text that a cancelled row was not  *)
(* looked through for, its first token's or an unfilled interval's, is sent as it is.  *)
StopStringsStop ==
  /\ mReason # "kError" /\
     (mReason = "kCancelled" => mStreamInterval = 1 /\ currentGenerateLength > 1) =>
       /\ FoundAt(Text) = {}
       /\ mReason # "kCancelled" => Seqs!IsPrefix(Text, Decoded(Generated))
  /\ pc = "decode" /\ ~Finished =>
       FoundAt(Decoded(SubSeq(tokenIds, Len(Prompt) + 1, sentTokenCount))) = {}

(* A stream has one terminal chunk, its last; its reason is the one getReason() gives *)
(* ("true for the final chunk on this channel", streaming.h).  Only an error may end  *)
(* it without, when no chunk could be assembled; whichever way the runtime leaves the *)
(* request, the channel has been closed (emitChunks, ~StreamChannelFinalizer).        *)
OneTerminalChunk ==
  /\ \A i \in DOMAIN pushed :
       pushed[i].finished => i = Len(pushed) /\ pushed[i].reason = mReason
  /\ mReason \in Reasons \ {"kError"} => pushed # <<>> /\ pushed[Len(pushed)].finished
  /\ pc = "done" /\ hasChannel => mReason # Live

(* The first reason wins, but for a stop string found in the text of the very step    *)
(* that ended the sequence; and nothing follows once it was published (the latch of   *)
(* applyCancellationToFinishStates and updateFinishStates, finish()).                 *)
ReasonIsLatched ==
  /\ mReason # Live => mReason' = mReason /\ pushed' = pushed
  /\ Finished /\ terminalReason' # terminalReason =>
       terminalReason \in Natural /\ terminalReason' = "kStopWords"

(* A sequence ends once, whoever ends it: with one reason, on one last chunk.         *)
(* (finish(), applyCancellationToFinishStates, ~StreamChannelFinalizer)               *)
EndsOnce == [][ReasonIsLatched /\ OneTerminalChunk']_vars

(* "The final chunk always fires regardless of interval, so the tail tokens aren't    *)
(* lost" (user guide, streaming.md:113).  The code decides whether the chunk is final *)
(* after it has decided to skip the tokens.                                           *)
TailIsDelivered == mReason \in Natural => Ids = Generated

(* A stop string "halts generation when produced in the output" (input-format.md:90). *)
(* A founding slot without a channel is detokenized from its prompt on.               *)
StopIsProduced == terminalReason = "kStopWords" => FoundAt(Decoded(Generated)) # {}

(* Every chunk is a text of its own: "always well-formed UTF-8 when pushed by the     *)
(* runtime" (streaming.h:82).  The hold-back of the stop matcher counts bytes.        *)
ChunksAreWellFormed == \A i \in DOMAIN pushed : WellFormed(pushed[i].text)
=============================================================================
