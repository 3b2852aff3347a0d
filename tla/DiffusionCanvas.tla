--------------------------- MODULE DiffusionCanvas ---------------------------
(***************************************************************************)
(* Block diffusion on the paged path (v1/diffusion.py, class               *)
(* DiffusionGemmaRuntime) under vLLM's speculative scheduling.             *)
(*                                                                         *)
(* The canvas travels as draft tokens. A denoise step emits nothing, so    *)
(* the scheduler rolls the position back over the canvas; a commit step    *)
(* emits what it ran. The scheduler may clip a canvas, preempt a request   *)
(* between any two steps and resume it behind a cached prefix. Tokens are  *)
(* symbols: where they come from and their row. KV slots remember which    *)
(* pass wrote which token.                                                 *)
(***************************************************************************)
EXTENDS Integers, Sequences, FiniteSets, SequencesExt, FiniteSetsExt

CONSTANTS
    DfReqs,
    DfPrompt,        \* prompt length
    DfCanvas,        \* canvas_length
    DfDenoise,       \* max_denoising_steps
    DfStability,     \* stability_threshold
    DfMaxOut,        \* max_tokens
    DfMaxSteps,      \* bound: engine steps
    DfMaxPreempts    \* bound: preemptions

ASSUME DiffusionAssumption ==
    {DfPrompt, DfCanvas, DfDenoise, DfStability, DfMaxOut} \subseteq Nat \ {0}

VARIABLES
    dfOptions,   \* per request: [readOnly, seeded]; logprobs are always asked for
    dfTokens,    \* RequestState.token_ids
    dfComputed,  \* the scheduler's num_computed_tokens
    dfDrafts,    \* the scheduler's draft tokens
    dfRun,       \* _DiffusionRequest, or NoRequest
    dfKV,        \* slot -> [pass, token]
    dfDrawn,     \* canvases drawn so far, to tell them apart
    dfOutput,    \* of the last step
    dfSteps,
    dfPreempts

dfVars == <<dfOptions, dfTokens, dfComputed, dfDrafts, dfRun, dfKV, dfDrawn,
            dfOutput, dfSteps, dfPreempts>>

NoRequest == [phase |-> "none"]
Prompt == [i \in 1..DfPrompt |-> [from |-> "prompt", draw |-> 0, row |-> i]]
Canvas(from, draw, n) == [i \in 1..n |-> [from |-> from, draw |-> draw, row |-> i]]
DfMaxLen == DfPrompt + DfMaxOut + DfCanvas
Unwritten == [pass |-> "none", token |-> Prompt[1]]

DfInit ==
    /\ dfOptions \in [DfReqs -> [readOnly : BOOLEAN, seeded : BOOLEAN]]
    /\ dfTokens = [r \in DfReqs |-> Prompt]
    /\ dfComputed = [r \in DfReqs |-> 0] /\ dfDrawn = dfComputed
    /\ dfDrafts = [r \in DfReqs |-> <<>>]
    /\ dfRun = [r \in DfReqs |-> NoRequest]
    /\ dfKV = [r \in DfReqs |-> [p \in 1..DfMaxLen |-> Unwritten]]
    /\ dfOutput = <<>> /\ dfSteps = 0 /\ dfPreempts = 0

Outputs(r) == Len(dfTokens[r]) - DfPrompt
Live == {r \in DfReqs : Outputs(r) < DfMaxOut}

\* _new_request.
RequestOf(r) ==
    IF dfRun[r] # NoRequest THEN dfRun[r]
    ELSE [phase |-> "prefill", canvas |-> <<>>, step |-> 0, history |-> 0,
          soft |-> 0, logprobs |-> 0]

\* _new_canvas: the seed replaces only the first canvas after the prompt.
NewCanvas(r, q, outputs, draw) ==
    [q EXCEPT !.phase = "denoise", !.step = 0, !.history = 0, !.soft = 0,
              !.canvas = IF dfOptions[r].seeded /\ outputs = 0
                         THEN Canvas("seed", 0, DfCanvas)
                         ELSE Canvas("random", draw, DfCanvas)]

\* The tokens a scheduled request runs.
Ran(r, n) ==
    LET q == RequestOf(r)
    IN  IF q.phase = "prefill"
        THEN SubSeq(dfTokens[r], dfComputed[r] + 1, dfComputed[r] + n)
        ELSE SubSeq(q.canvas, 1, n)

\* A denoise step runs its rows in decoder mode (bidirectional over the canvas).
Pass(q) == IF q.phase = "denoise" THEN "decoder" ELSE "encoder"

Written(r, n) ==
    [p \in 1..DfMaxLen |->
        IF p \in dfComputed[r] + 1..dfComputed[r] + n
        THEN [pass |-> Pass(RequestOf(r)), token |-> Ran(r, n)[p - dfComputed[r]]]
        ELSE dfKV[r][p]]

Nothing == [tokens |-> <<>>, logprobs |-> 0]

\* What an encoder step does to its request: [request, emitted].
AfterEncoder(r, n) ==
    LET q == RequestOf(r)
    IN  IF q.phase = "commit"
        THEN [request |-> NewCanvas(r, [q EXCEPT !.logprobs = 0],
                                    Outputs(r) + n, dfDrawn[r] + 1),
              emitted |-> [tokens |-> Ran(r, n), logprobs |-> q.logprobs]]
        ELSE [request |-> IF dfComputed[r] + n >= Len(dfTokens[r])
                          THEN NewCanvas(r, q, Outputs(r), dfDrawn[r] + 1)
                          ELSE q,
              emitted |-> Nothing]

\* denoise_update: converged when the step budget is spent, or the argmax
\* canvas matched the last ones and the whole canvas is confident. A clipped
\* canvas is padded with rows of maximal entropy.
MayConverge(q, n) ==
    IF q.step + 1 >= DfDenoise THEN {TRUE}
    ELSE IF q.history = DfStability /\ n = DfCanvas THEN BOOLEAN ELSE {FALSE}

\* The rows of a clipped canvas that the model did not see.
Padding(n) == [i \in 1..DfCanvas - n |-> [from |-> "padding", draw |-> 0, row |-> n + i]]

EmittedWhole(canvas, n) == canvas

\* Only the rows the model saw are emitted.
Emitted(canvas, n) == SubSeq(canvas, 1, n)

AfterDecoder(r, n, converged) ==
    LET q == RequestOf(r)
        draw == dfDrawn[r] + 1
        argmax == Canvas("argmax", draw, n) \o Padding(n)
        stepped == [q EXCEPT !.step = @ + 1,
                             !.history = Min({@ + 1, DfStability})]
    IN  IF ~converged
        THEN [request |-> [stepped EXCEPT !.canvas = Canvas("sampled", draw, DfCanvas),
                                          !.soft = draw],
              emitted |-> Nothing]
        ELSE IF dfOptions[r].readOnly
        THEN [request |-> [stepped EXCEPT !.canvas = argmax, !.soft = 0],
              emitted |-> [tokens |-> Emitted(argmax, n), logprobs |-> draw]]
        ELSE [request |-> [stepped EXCEPT !.phase = "commit", !.soft = 0,
                                          !.canvas = Emitted(argmax, n),
                                          !.logprobs = draw],
              emitted |-> Nothing]

\* join_canvas_logprobs: rows of the requests that have some, and where each
\* request's begin.
JoinedRows(order, emitted) ==
    FlattenSeq([i \in DOMAIN order |->
        LET e == emitted[order[i]]
        IN  IF e.logprobs = 0 THEN <<>>
            ELSE [k \in DOMAIN e.tokens |->
                    [req |-> order[i], draw |-> e.logprobs, row |-> k]]])
StartOf(order, emitted, i) ==
    Len(JoinedRows(SubSeq(order, 1, i - 1), emitted))

\* The scheduler (external): what it takes over from a step. Without output
\* the drafts are rejected; the next drafts are the request's canvas.
AcceptedTokens(r, emitted) == Len(emitted.tokens)

EngineStep ==
    /\ dfSteps < DfMaxSteps
    /\ \E order \in SetToAllKPermutations(Live) :
       \E n \in [Range(order) -> 1..Max({DfPrompt + DfMaxOut, DfCanvas})],
          converged \in [Range(order) -> BOOLEAN] :
        /\ order # <<>>
        /\ \A r \in Range(order) :
             LET q == RequestOf(r)
             IN  /\ n[r] <= IF q.phase = "prefill"
                            THEN Len(dfTokens[r]) - dfComputed[r]
                            ELSE Len(dfDrafts[r])
                 /\ converged[r] \in IF q.phase = "denoise"
                                     THEN MayConverge(q, n[r]) ELSE {FALSE}
        /\ LET after == [r \in Range(order) |->
                          IF RequestOf(r).phase = "denoise"
                          THEN AfterDecoder(r, n[r], converged[r])
                          ELSE AfterEncoder(r, n[r])]
               emitted == [r \in Range(order) |-> after[r].emitted]
               rows == JoinedRows(order, emitted)
           IN  /\ dfOutput' =
                    [i \in DOMAIN order |->
                       LET e == emitted[order[i]]
                           start == StartOf(order, emitted, i)
                       IN  [req |-> order[i], tokens |-> e.tokens,
                            logprobs |-> IF e.logprobs = 0 THEN <<>>
                              ELSE SubSeq(rows, start + 1, start + Len(e.tokens))]]
               /\ dfTokens' = [r \in DfReqs |-> IF r \in Range(order)
                                 THEN dfTokens[r] \o emitted[r].tokens
                                 ELSE dfTokens[r]]
               /\ dfKV' = [r \in DfReqs |-> IF r \in Range(order)
                             THEN Written(r, n[r]) ELSE dfKV[r]]
               /\ dfRun' = [r \in DfReqs |-> IF r \in Range(order)
                              THEN after[r].request ELSE dfRun[r]]
               /\ dfDrawn' = [r \in DfReqs |-> IF r \in Range(order)
                                THEN dfDrawn[r] + 1 ELSE dfDrawn[r]]
               /\ dfComputed' = [r \in DfReqs |-> dfComputed[r] +
                    IF r \notin Range(order) THEN 0
                    ELSE IF RequestOf(r).phase = "prefill" THEN n[r]
                    ELSE AcceptedTokens(r, emitted[r])]
               /\ dfDrafts' = [r \in DfReqs |-> IF r \in Range(order)
                    THEN IF after[r].request.phase = "prefill" THEN <<>>
                         ELSE after[r].request.canvas
                    ELSE dfDrafts[r]]
    /\ dfSteps' = dfSteps + 1
    /\ UNCHANGED <<dfOptions, dfPreempts>>

\* The scheduler (external) takes a request's blocks; it comes back with the
\* prompt and the committed tokens, behind what the prefix cache kept. The
\* runner drops its record of it.
PreemptedRequest(r) == NoRequest
PreemptCanvas ==
    /\ dfPreempts < DfMaxPreempts
    /\ \E r \in Live, kept \in 0..DfMaxLen :
        /\ dfRun[r] # NoRequest
        /\ kept <= dfComputed[r] /\ kept < Len(dfTokens[r])
        /\ dfComputed' = [dfComputed EXCEPT ![r] = kept]
        /\ dfKV' = [dfKV EXCEPT ![r] = [p \in 1..DfMaxLen |->
                       IF p <= kept THEN @[p] ELSE Unwritten]]
        /\ dfDrafts' = [dfDrafts EXCEPT ![r] = <<>>]
        /\ dfRun' = [dfRun EXCEPT ![r] = PreemptedRequest(r)]
    /\ dfPreempts' = dfPreempts + 1
    /\ UNCHANGED <<dfOptions, dfTokens, dfDrawn, dfOutput, dfSteps>>

DfNext == EngineStep \/ PreemptCanvas

DfSpec == DfInit /\ [][DfNext]_dfVars

-----------------------------------------------------------------------------
(* Property. *)

\* Everything the scheduler counts as computed was written by an encoder pass
\* over the token that stands there; only a read, which ends the request
\* unless it was clipped, leaves its canvas' own KV.
ComputedIsEncoded ==
    \A r \in DfReqs : ~dfOptions[r].readOnly =>
        \A p \in 1..dfComputed[r] :
            dfKV[r][p] = [pass |-> "encoder", token |-> dfTokens[r][p]]

\* The scheduler's drafts are the runner's canvas, with room for it to be
\* written over nothing that counts.
DraftsAreCanvas ==
    \A r \in DfReqs : dfDrafts[r] # <<>> =>
        /\ dfRun[r] # NoRequest /\ dfRun[r].phase # "prefill"
        /\ dfDrafts[r] = dfRun[r].canvas
        /\ dfComputed[r] = Len(dfTokens[r])

\* Emitted tokens are rows of one argmax canvas, each with the logprobs of
\* its own row of the step that canvas converged on.
EmissionIsOneCanvas ==
    \A i \in DOMAIN dfOutput :
        LET o == dfOutput[i]
        IN  /\ \A k \in DOMAIN o.tokens :
                 /\ o.tokens[k].from = "argmax" /\ o.tokens[k].row = k
                 /\ o.tokens[k].draw = o.tokens[1].draw
            /\ Len(o.logprobs) = Len(o.tokens)
            /\ \A k \in DOMAIN o.logprobs :
                 o.logprobs[k] = [req |-> o.req, draw |-> o.tokens[k].draw, row |-> k]

\* A canvas is committed as it converged, into KV the rest of the generation
\* may build on, however the scheduler clips, preempts or resumes the request,
\* and is delivered with its own logprobs (diffusion.py:196-237, 283-315,
\* 480-758).
CanvasCommitted == ComputedIsEncoded /\ DraftsAreCanvas /\ EmissionIsOneCanvas
=============================================================================
