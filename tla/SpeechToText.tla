---------------------------- MODULE SpeechToText ----------------------------
(***************************************************************************)
(* Speech to text (v1/stt_model_runner.py and stt/).  Served, a request is *)
(* transcribed whole in the step that first schedules it: execute_model    *)
(* stashes the output of the batch and sample_tokens hands it over; what   *)
(* the scheduler still schedules of it later gets an end token.  From a    *)
(* file, long audio is cut at quiet points into overlapping clips that are *)
(* decoded one by one, and timestamps of a clip become times of the audio. *)
(*                                                                         *)
(* What a model would say about an audio is given: its decode stream up to *)
(* the end token.  Samples are the unit of length and of time; a quiet     *)
(* point may be anywhere in the searched region.                           *)
(***************************************************************************)
EXTENDS Integers, Sequences, FiniteSets, SequencesExt, FiniteSetsExt

CONSTANTS
    StRequests,   \* sequence of [audio, prompt, max, min, ignoreEos]
    StModels,     \* models tried: [family, ctx, limit]
    StStreams,    \* [family -> [audio -> decode stream]]
    StCaching,    \* settings of enable_prefix_caching asked for
    StClips,      \* audio files tried: [n, max, overlap, window], see Chunking
    StTimed,      \* decode streams of a clip with timestamps
    StWindow,     \* N_SAMPLES: what the encoder takes
    StSearch      \* _SPLIT_SEARCH_MULTIPLIER, 4 in the code

ASSUME SpeechAssumption ==
    /\ \A i \in DOMAIN StRequests :
          {StRequests[i].prompt, StRequests[i].max, StRequests[i].min} \subseteq Nat
    /\ StWindow \in Nat \ {0} /\ StSearch \in Nat \ {0}
    /\ StCaching \subseteq BOOLEAN

VARIABLES
    stMode,      \* "serve" or "file"
    stModel,     \* the loaded model and what the policy left of the settings
    stReq,       \* the scheduler's requests: [status, out]
    stPending,   \* _pending_output: << >> for None, else request -> tokens
    stAudioKV,   \* vLLM's multimodal cache: audio -> its features
    stRaised,    \* the new requests for which execute_model raised
    stClip,      \* the audio file
    stPos,       \* split_audio: where the next clip begins
    stCuts,      \* clips so far: [from, to]
    stSegments,  \* segments so far: [id, start, end, words, clip]
    stSaid       \* history: the words of each clip that timestamps enclose

stServeVars == <<stReq, stPending, stAudioKV, stRaised>>
stFileVars == <<stPos, stCuts, stSegments, stSaid>>
stVars == <<stMode, stModel, stServeVars, stClip, stFileVars>>

Asr == DOMAIN StRequests
Eot == 0      \* ends a transcript
Tag == 100    \* <asr_text>
ImEnd == 101  \* <|im_end|>

\* apply_stt_scheduler_policy: no prefix cache, there is nothing to reuse.
SttPolicy(asked) == [caching |-> FALSE, async |-> FALSE]
SttPolicyKeepsCaching(asked) == [caching |-> asked, async |-> FALSE]
Policy(asked) == SttPolicy(asked)

StInit ==
    /\ stMode \in {"serve", "file"}
    /\ \E model \in StModels, asked \in StCaching :
          /\ stModel = [model |-> model, policy |-> Policy(asked)]
          /\ stMode = "file" => model = CHOOSE m \in StModels : TRUE
    /\ stReq = [r \in Asr |-> [status |-> "waiting", out |-> << >>]]
    /\ stPending = << >>
    /\ stAudioKV = << >>
    /\ stRaised = {}
    /\ stClip \in StClips
    /\ stMode = "serve" => stClip = CHOOSE c \in StClips : TRUE
    /\ stPos = 0 /\ stCuts = << >> /\ stSegments = << >> /\ stSaid = << >>

-----------------------------------------------------------------------------
(* One-shot serving.                                                       *)

\* A prefix-cache hit over the audio placeholder strips the request's audio.
Stripped(r) ==
    /\ stModel.policy.caching
    /\ \E p \in Asr : p # r /\ stReq[p].status # "waiting"
                      /\ StRequests[p].audio = StRequests[r].audio

\* _to_mx_float16: the features are copied before the cast. A cast in place
\* would leave other bits in the cache for the next request with this audio.
ToFloat16(features) == [taken |-> features, left |-> features]

Features(r) ==
    IF StRequests[r].audio \in DOMAIN stAudioKV
    THEN stAudioKV[StRequests[r].audio] ELSE StRequests[r].audio

\* decode_budget.
DecodeBudget(r, limit) == Min({StRequests[r].max, limit})

\* The stream up to an end token, as sampling leaves it: no end token before
\* min_tokens.
UpToEnd(stream, min) ==
    LET ends == {i \in DOMAIN stream : stream[i] \in {Eot, ImEnd} /\ i > min}
    IN  SelectSeq(IF ends = {} THEN stream ELSE SubSeq(stream, 1, Min(ends) - 1),
                  LAMBDA t : t # Eot)

\* Whisper: the context window holds the prompt and what is decoded.
WhisperTokens(r, stream) ==
    LET room == stModel.model.ctx - StRequests[r].prompt
        said == UpToEnd(stream, StRequests[r].min)
    IN  IF StRequests[r].prompt = 0 \/ room <= 0 THEN << >>
        ELSE SubSeq(said, 1, Min({Len(said),
                    DecodeBudget(r, Min({stModel.model.limit, room}))}))

\* Qwen3-ASR: the request's budget counts what follows the last tag so far.
QwenDecoded(r, stream) ==
    LET said == UpToEnd(stream, StRequests[r].min)
        transcript(n) ==
            LET tags == {i \in 1..n : said[i] = Tag}
            IN  IF tags = {} THEN -1 ELSE n - Max(tags)
        full == {n \in DOMAIN said : transcript(n) > 0
                                     /\ transcript(n) >= DecodeBudget(r, stModel.model.limit)}
    IN  SubSeq(said, 1, Min({Len(said), stModel.model.limit} \cup full))

\* _extract_asr_text_tokens: behind the last tag, before an end marker.
AsrText(tokens) ==
    LET tags == {i \in DOMAIN tokens : tokens[i] = Tag}
        start == Max(tags)
        ends == {i \in DOMAIN tokens : i > start /\ tokens[i] = ImEnd}
    IN  IF tags = {} THEN tokens
        ELSE SubSeq(tokens, start + 1, Min(ends \cup {Len(tokens) + 1}) - 1)

Transcribed(r, features) ==
    LET stream == StStreams[stModel.model.family][features]
    IN  IF stModel.model.family = "whisper" THEN Append(WhisperTokens(r, stream), Eot)
        ELSE Append(AsrText(QwenDecoded(r, stream)), Eot)

\* What raises: no audio, or no prompt where the model needs one.
Refused(r) ==
    \/ Stripped(r)
    \/ stModel.model.family = "qwen3_asr" /\ StRequests[r].prompt = 0

\* execute_model: new requests are transcribed, scheduled ones get an end.
ExecuteStt(new, cached) ==
    /\ stPending = << >> /\ stRaised = {}
    /\ new \cup cached # {}
    /\ \A r \in new : stReq[r].status = "waiting"
    /\ \A r \in cached : stReq[r].status = "running"
    /\ stReq' = [r \in Asr |-> IF r \in new THEN [stReq[r] EXCEPT !.status = "running"]
                               ELSE stReq[r]]
    /\ IF \E r \in new : Refused(r)
       THEN stRaised' = {r \in new : Refused(r)} /\ UNCHANGED <<stPending, stAudioKV>>
       ELSE /\ stPending' = <<[r \in new \cup cached |->
                   IF r \in new THEN Transcribed(r, ToFloat16(Features(r)).taken)
                   ELSE <<Eot>>]>>
            /\ stAudioKV' =
                  [a \in DOMAIN stAudioKV \cup {StRequests[r].audio : r \in new} |->
                      IF \E r \in new : StRequests[r].audio = a
                      THEN ToFloat16(Features(CHOOSE r \in new : StRequests[r].audio = a)).left
                      ELSE stAudioKV[a]]
            /\ UNCHANGED stRaised
    /\ UNCHANGED <<stMode, stModel, stClip, stFileVars>>

\* Scheduler.update_from_output: tokens up to the one that stops the request.
StopsAt(r, out) ==
    {i \in DOMAIN out :
        \/ i >= StRequests[r].max
        \/ i >= StRequests[r].min /\ out[i] = Eot /\ ~StRequests[r].ignoreEos}

\* sample_tokens hands the pending output over and forgets it.
HandOver ==
    /\ stPending # << >>
    /\ stReq' = [r \in Asr |->
          IF r \notin DOMAIN stPending[1] THEN stReq[r]
          ELSE LET out == stReq[r].out \o stPending[1][r]
                   stops == StopsAt(r, out)
               IN  IF stops = {} THEN [stReq[r] EXCEPT !.out = out]
                   ELSE [status |-> "done", out |-> SubSeq(out, 1, Min(stops))]]
    /\ stPending' = << >>
    /\ UNCHANGED <<stMode, stModel, stAudioKV, stRaised, stClip, stFileVars>>

\* A new step gets every running request, and some of the waiting ones.
StServe ==
    \/ \E new \in SUBSET {r \in Asr : stReq[r].status = "waiting"} :
          ExecuteStt(new, {r \in Asr : stReq[r].status = "running"})
    \/ HandOver

-----------------------------------------------------------------------------
(* Files.                                                                  *)

\* _prepare_audio_chunks: a maximum of 0 stands for chunking switched off.
ChunkingRefused(c) ==
    IF c.max = 0 \/ c.window = 0 THEN c.n > StWindow
    ELSE c.max > StWindow \/ c.overlap >= c.max

Whole(c) == c.max = 0 \/ c.window = 0 \/ c.n <= c.max

\* _find_split_point: the start of some window of the searched region.
SplitPoints(c, center) ==
    LET low == Max({0, center - c.window * StSearch})
        high == Min({c.n, center + c.window * StSearch})
        windows == (high - low + c.window - 1) \div c.window
    IN  {low + i * c.window : i \in 0..(windows - 1)}

\* A split inside the overlap would not move on: the boundary is used.
SplitAt(c, pos, split) ==
    IF split <= pos + c.overlap THEN pos + c.max ELSE Min({split, pos + c.max})

\* split_audio: the clips that may come next.
NextClips(c, pos) ==
    IF Whole(c) \/ pos + c.max >= c.n THEN {[from |-> pos, to |-> c.n]}
    ELSE {[from |-> pos, to |-> SplitAt(c, pos, s)] : s \in SplitPoints(c, pos + c.max)}

Stamp(token) == token[1] = "time"
Spoken(words) == \E i \in DOMAIN words : words[i] # 0
Segment(id, start, end, words, clip) ==
    [id |-> id, start |-> start, end |-> end, words |-> words, clip |-> clip]

\* _extract_segments: words between a timestamp and the next; an unclosed one
\* lasts a whole window.
Extracted(tokens, cut, first, clip) ==
    LET step(s, token) ==
            IF ~Stamp(token) THEN [s EXCEPT !.words = Append(@, token[2])]
            ELSE IF s.open = -1 THEN [s EXCEPT !.open = token[2], !.words = << >>]
            ELSE [s EXCEPT !.open = -1, !.words = << >>,
                    !.found = IF Spoken(s.words)
                              THEN Append(@, Segment(first + Len(@), s.open + cut.from,
                                                     token[2] + cut.from, s.words, clip))
                              ELSE @]
        ends == FoldLeft(step, [open |-> -1, words |-> << >>, found |-> << >>], tokens)
    IN  IF ends.open # -1 /\ Spoken(ends.words)
        THEN Append(ends.found, Segment(first + Len(ends.found), ends.open + cut.from,
                                        ends.open + cut.from + StWindow, ends.words, clip))
        ELSE ends.found

\* Words that follow an odd number of timestamps.
Enclosed(tokens) ==
    LET stamps(i) == Cardinality({j \in 1..i : Stamp(tokens[j])})
    IN  SelectSeq([i \in DOMAIN tokens |->
                      IF Stamp(tokens[i]) \/ stamps(i) % 2 = 0 THEN 0 ELSE tokens[i][2]],
                  LAMBDA w : w # 0)

\* transcribe: the next clip is cut, decoded, and its segments are placed.
TranscribeClip ==
    /\ stPos < stClip.n /\ ~ChunkingRefused(stClip)
    /\ \E cut \in NextClips(stClip, stPos), tokens \in StTimed :
          /\ stCuts' = Append(stCuts, cut)
          /\ stPos' = IF cut.to = stClip.n THEN stClip.n ELSE cut.to - stClip.overlap
          /\ stSegments' = stSegments \o
                Extracted(tokens, cut, Len(stSegments), Len(stCuts) + 1)
          /\ stSaid' = Append(stSaid, Enclosed(tokens))
    /\ UNCHANGED <<stMode, stModel, stServeVars, stClip>>

StNext ==
    \/ stMode = "serve" /\ StServe
    \/ stMode = "file" /\ TranscribeClip

StSpec == StInit /\ [][StNext]_stVars

-----------------------------------------------------------------------------
(* What is transcribed.                                                    *)

\* What a listener would write down of a stream: the words behind the last
\* tag, if there is one, up to the end.
Heard(stream) ==
    LET tags == {i \in DOMAIN stream : stream[i] = Tag}
        from == IF tags = {} THEN 0 ELSE Max(tags)
        ends == {i \in DOMAIN stream : i > from /\ stream[i] \in {Eot, ImEnd}}
    IN  SubSeq(stream, from + 1, Min(ends \cup {Len(stream) + 1}) - 1)

\* A plain request: room for its prompt, no demand on how it ends.
AsksPlainly(r) == StRequests[r].min = 0 /\ ~StRequests[r].ignoreEos /\ StRequests[r].prompt > 0
QwenTags(stream) == Max({i \in DOMAIN stream : stream[i] = Tag} \cup {0})
Room(r) ==
    IF stModel.model.family = "whisper"
    THEN Max({0, Min({stModel.model.limit, stModel.model.ctx - StRequests[r].prompt})})
    ELSE stModel.model.limit - QwenTags(StStreams["qwen3_asr"][StRequests[r].audio])

\* Every request gets its own transcript once, cut only by its budget, from
\* the audio it came with, whoever else sent the same audio; a request that
\* runs on behind its transcript gets end tokens only.
TranscriptsWhole ==
    /\ \A r \in stRaised : StRequests[r].prompt = 0
    /\ \A r \in {q \in Asr : stReq[q].status = "done"} :
          LET heard == Heard(StStreams[stModel.model.family][StRequests[r].audio])
              out == stReq[r].out
          IN  /\ AsksPlainly(r) /\ Len(heard) <= Room(r) =>
                    out = SubSeq(Append(heard, Eot), 1, Min({Len(heard) + 1, StRequests[r].max}))
              /\ \A i, j \in DOMAIN out : i < j /\ out[i] = Eot => out[j] = Eot

\* The clips cover the audio from end to end, each no longer than the encoder
\* takes, each with the overlap asked for and further on than the last;
\* segments are numbered throughout, lie behind the start of their clip, and
\* hold the words the timestamps of their clip enclose, each once.
ClipsCoverAudio ==
    /\ \A i \in DOMAIN stCuts :
          /\ stCuts[i].to - stCuts[i].from \in 1..StWindow
          /\ IF i = 1 THEN stCuts[i].from = 0
             ELSE /\ stCuts[i].from = stCuts[i - 1].to - stClip.overlap
                  /\ stCuts[i].from > stCuts[i - 1].from
    /\ stPos = stClip.n => Last(stCuts).to = stClip.n
    /\ \A i \in DOMAIN stSegments :
          /\ stSegments[i].id = i - 1
          /\ stSegments[i].start >= stCuts[stSegments[i].clip].from
    /\ \A k \in DOMAIN stSaid :
          FlattenSeq([i \in DOMAIN stSegments |->
              IF stSegments[i].clip # k THEN << >>
              ELSE SelectSeq(stSegments[i].words, LAMBDA w : w # 0)]) = stSaid[k]

\* Speech is transcribed whole, served (v1/stt_model_runner.py:160-227,
\* stt/policy.py:33-55, stt/runtime.py:43-62, stt/qwen3_asr/transcriber.py:51-94)
\* and from files (stt/audio.py:338-420, stt/whisper/transcriber.py:118-404).
SpeechTranscribed == TranscriptsWhole /\ ClipsCoverAudio

=============================================================================
