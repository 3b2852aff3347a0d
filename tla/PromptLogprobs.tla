--------------------------- MODULE PromptLogprobs ---------------------------
(***************************************************************************)
(* Prompt logprobs across chunked prefill, preemption, abort and reuse of  *)
(* a request id (v1/prompt_logprobs.py and the parts of                    *)
(* v1/model_runner.py that feed it): a request that asks for them is       *)
(* registered when it is admitted, each prefill chunk's logits rows score  *)
(* the prompt tokens they predict, and the chunk that reaches the end of   *)
(* the prompt hands the filled tensors to the engine, once.                *)
(*                                                                         *)
(* A step packs decode rows first and then the prefill chunks, and the     *)
(* head projects only the rows somebody reads; a logits row is the pair of *)
(* the request's life and the prompt position it was computed at, so a row *)
(* taken from the wrong place, or left by another request of the same id,  *)
(* is told apart from the right one.                                       *)
(***************************************************************************)
EXTENDS Integers, Sequences, FiniteSets, Subsequences

CONSTANTS
    LpReqs,       \* request ids
    LpPrompts,    \* prompt lengths a request may have
    LpBudget,     \* max_num_batched_tokens
    LpMaxLives,   \* bound: how often one id is used
    LpMaxSteps    \* bound: steps of the runner

ASSUME PromptLogprobsAssumption ==
    /\ IsFiniteSet(LpReqs)
    /\ LpPrompts \subseteq Nat \ {0}
    /\ LpBudget \in Nat /\ LpMaxLives \in Nat /\ LpMaxSteps \in Nat

VARIABLES
    client,      \* the scheduler's view of each id
    leaving,     \* <<finished ids, preempted ids>> the next step announces
    readmitsNew, \* preempted requests come back as new ones (V2 scheduling)
    tracker,     \* PromptLogprobsTracker: active ids and accumulators
    runnerReq,   \* RequestState of the ids the runner knows
    awaiting,    \* _awaiting_readmission
    delivered,   \* what reached the engine for the id's present life
    desynced,    \* one of the runner's RuntimeErrors was raised
    lpSteps

lpVars == <<client, leaving, readmitsNew, tracker, runnerReq, awaiting,
            delivered, desynced, lpSteps>>

Unscored == <<0, 0>>
NoTensors == << >>
NoState == [len |-> 0, prompt |-> 0, generated |-> 0]
Gone == [life |-> 0, status |-> "absent", prompt |-> 0, asks |-> FALSE,
         computed |-> 0, outs |-> 0]

LpInit ==
    /\ client = [r \in LpReqs |-> Gone]
    /\ leaving = <<{}, {}>>
    /\ readmitsNew \in BOOLEAN
    /\ tracker = [active |-> {}, progress |-> [r \in LpReqs |-> NoTensors]]
    /\ runnerReq = [r \in LpReqs |-> NoState]
    /\ awaiting = {}
    /\ delivered = [r \in LpReqs |-> << >>]
    /\ desynced = FALSE
    /\ lpSteps = 0

-----------------------------------------------------------------------------
(* The accounting of one chunk. *)

WindowPastEnd(start, n, promptLen) ==
    LET remaining == promptLen - (start + 1)
    IN  IF n < remaining THEN [logits |-> n, completes |-> FALSE]
        ELSE [logits |-> IF remaining > 0 THEN remaining ELSE 0, completes |-> TRUE]

\* Rows of the chunk that predict a prompt token, and whether it ends there.
Window(start, n, promptLen) ==
    LET remaining == promptLen - (start + 1)
    IN  IF n <= remaining THEN [logits |-> n, completes |-> FALSE]
        ELSE [logits |-> IF remaining > 0 THEN remaining ELSE 0, completes |-> TRUE]

\* observe_chunk: the accumulator after the chunk; `held` is empty, or the
\* accumulator an earlier chunk left.
Filled(held, start, rows, window, promptLen) ==
    LET base == IF held = NoTensors
                THEN [p \in 1..(promptLen - 1) |-> Unscored] ELSE held[1]
    IN  [p \in DOMAIN base |->
            IF p \in (start + 1)..(start + window.logits)
            THEN rows[p - start] ELSE base[p]]

-----------------------------------------------------------------------------
(* The packed step and the rows its head projects. *)

\* cu_seqlens: where each segment of the packed step starts, and its end.
\* Work is a sequence of [req, start, n, decode, final] in packed order.
Bounds(work) ==
    LET cu[i \in 1..(Len(work) + 1)] == IF i = 1 THEN 0 ELSE cu[i - 1] + work[i - 1].n
    IN  cu

\* The row at each place of the packed step.
PackedRows(work) ==
    LET cu == Bounds(work) IN
    [k \in 1..cu[Len(work) + 1] |->
        LET i == CHOOSE i \in DOMAIN work : cu[i] < k /\ k <= cu[i + 1]
        IN  <<client[work[i].req].life, work[i].start + k - cu[i]>>]

\* The head projects every row when a request still wants its prompt scored,
\* and otherwise every decode row but of a prefill segment only the last; a
\* step in which no segment samples projects nothing.
Projection(work, wanted) ==
    LET cu == Bounds(work)
        decodes == Cardinality({i \in DOMAIN work : work[i].decode})
        rows == PackedRows(work)
    IN  IF wanted # {} THEN [rows |-> rows, cu |-> cu]
        ELSE IF \A i \in DOMAIN work : ~work[i].final
        THEN [rows |-> << >>, cu |-> << >>]
        ELSE [rows |-> [i \in 1..(cu[decodes + 1] + Len(work) - decodes) |->
                          IF i <= cu[decodes + 1] THEN rows[i]
                          ELSE rows[cu[i - cu[decodes + 1] + decodes + 1]]],
              cu |-> [i \in 1..(Len(work) + 1) |->
                        IF i <= decodes + 1 THEN cu[i]
                        ELSE cu[decodes + 1] + i - decodes - 1]]

-----------------------------------------------------------------------------
(* The scheduler (external). *)

Arrive(r, len, asks) ==
    /\ client[r].status = "absent"
    /\ client[r].life < LpMaxLives
    /\ client' = [client EXCEPT ![r] =
          [life |-> @.life + 1, status |-> "waiting", prompt |-> len,
           asks |-> asks, computed |-> 0, outs |-> 0]]
    /\ delivered' = [delivered EXCEPT ![r] = << >>]
    /\ UNCHANGED <<leaving, readmitsNew, tracker, runnerReq, awaiting,
                   desynced, lpSteps>>

\* The engine aborts the request or it ends: the next step says so.
End(r) ==
    /\ client[r].status \in {"running", "preempted"}
    /\ client' = [client EXCEPT ![r] = [Gone EXCEPT !.life = client[r].life]]
    /\ leaving' = <<leaving[1] \cup {r}, leaving[2] \ {r}>>
    /\ delivered' = [delivered EXCEPT ![r] = << >>]
    /\ UNCHANGED <<readmitsNew, tracker, runnerReq, awaiting, desynced,
                   lpSteps>>

\* A preempted request that asks for prompt logprobs skips the prefix cache:
\* it starts over. Where requests come back as new ones, resetting the
\* running requests drops a first output that is still in flight, and its
\* tensors with it.
Preempt(r, dropFirst) ==
    /\ client[r].status = "running"
    /\ dropFirst => readmitsNew /\ client[r].outs = 1
    /\ client' = [client EXCEPT ![r].status = "preempted",
                                ![r].computed = 0,
                                ![r].outs = IF dropFirst THEN 0 ELSE @]
    /\ leaving' = <<leaving[1], leaving[2] \cup {r}>>
    /\ delivered' = IF dropFirst THEN [delivered EXCEPT ![r] = << >>]
                    ELSE delivered
    /\ UNCHANGED <<readmitsNew, tracker, runnerReq, awaiting, desynced,
                   lpSteps>>

-----------------------------------------------------------------------------
(* One step of the runner. *)

\* discard: an evicted id loses its registration and its accumulator.
Discarded(t, ids) ==
    [active |-> t.active \ ids,
     progress |-> [r \in LpReqs |->
                     IF r \in ids THEN NoTensors ELSE t.progress[r]]]

\* A readmitted request is still owed its prompt logprobs while the
\* scheduler holds no output of it.
OwedAgain(r) == client[r].asks /\ client[r].outs = 0

\* How the step handles a scheduled id: the scheduler lists it as new or as
\* cached, and a new one that awaits readmission is rebuilt.
Route(r, gone) ==
    IF \/ client[r].status = "running"
       \/ client[r].status = "preempted" /\ ~readmitsNew
    THEN "cached"
    ELSE IF r \in gone THEN "readmit" ELSE "new"

\* The request's state when its chunk is collected.
Collected(r, known, gone) ==
    LET c == client[r]
    IN  CASE Route(r, gone) = "new" ->
                [len |-> c.prompt, prompt |-> c.prompt, generated |-> 0]
          [] Route(r, gone) = "readmit" ->
                [len |-> c.prompt + c.outs, prompt |-> c.prompt,
                 generated |-> 0]
          [] Route(r, gone) = "cached" /\ c.status = "preempted" ->
                [known[r] EXCEPT !.len = c.prompt + c.outs, !.generated = 0]
          [] OTHER -> known[r]

\* _collect_cached_requests: a state with generated tokens decodes.
WorkOf(r, n, state) ==
    LET decode == state.generated > 0
        start == IF decode THEN state.len - 1 ELSE client[r].computed
    IN  [req |-> r, start |-> start, n |-> IF decode THEN 1 ELSE n,
         decode |-> decode,
         final |-> decode \/ start + n >= state.len]

\* Ids are packed in the order the scheduler lists them, decodes first.
Packings == {order \in UNION {[1..k -> LpReqs] : k \in 1..Cardinality(LpReqs)} :
                Distinct(order)}
DecodesFirst(work) ==
    \A i, j \in DOMAIN work : work[i].decode /\ ~work[j].decode => i < j

RunnerStep(order, n) ==
    LET ids == Elems(order)
        finished == leaving[1]
        known == [r \in LpReqs |->
                    IF r \in finished THEN NoState ELSE runnerReq[r]]
        swept == Discarded(tracker, finished)
        gone == (awaiting \cup leaving[2]) \ finished
        states == [r \in LpReqs |->
                     IF r \in ids THEN Collected(r, known, gone) ELSE known[r]]
        registered == {r \in ids : \/ Route(r, gone) = "new" /\ client[r].asks
                                   \/ Route(r, gone) = "readmit" /\ OwedAgain(r)}
        active == swept.active \cup registered
        works == [r \in ids |-> WorkOf(r, n[r], states[r])]
        work == [i \in DOMAIN order |-> works[order[i]]]
        wanted == {r \in ids : ~works[r].decode /\ r \in active}
        out == Projection(work, wanted)
        SegmentOf(i) == IF out.cu = << >> THEN << >>
                        ELSE SubSeq(out.rows, out.cu[i] + 1, out.cu[i + 1])
        segment == [i \in DOMAIN work |-> SegmentOf(i)]
        at == [r \in ids |-> CHOOSE i \in DOMAIN order : order[i] = r]
        window == [r \in wanted |->
                     Window(works[r].start, works[r].n, states[r].prompt)]
        acc == [r \in wanted |->
                  Filled(swept.progress[r], works[r].start, segment[at[r]],
                         window[r], states[r].prompt)]
        done == {r \in wanted : window[r].completes}
    IN  /\ lpSteps < LpMaxSteps
        /\ \A r \in ids : client[r].status # "absent"
        /\ DecodesFirst(work)
        /\ Bounds(work)[Len(work) + 1] <= LpBudget
        /\ \A r \in ids : /\ works[r].start + works[r].n <= states[r].len
                          /\ works[r].decode => n[r] = 1
        /\ IF \E r \in wanted : Len(segment[at[r]]) # works[r].n
           THEN /\ desynced' = TRUE
                /\ UNCHANGED <<tracker, runnerReq, awaiting, delivered, client>>
           ELSE /\ desynced' = desynced
                /\ tracker' =
                     [active |-> active \ done,
                      progress |-> [r \in LpReqs |->
                          IF r \in done THEN NoTensors
                          ELSE IF r \in wanted THEN <<acc[r]>>
                          ELSE swept.progress[r]]]
                /\ runnerReq' = [r \in LpReqs |->
                     IF r \in ids /\ works[r].final
                     THEN [states[r] EXCEPT !.len = @ + 1, !.generated = @ + 1]
                     ELSE states[r]]
                /\ awaiting' = gone \ ids
                /\ delivered' = [r \in LpReqs |->
                     IF r \in done THEN Append(delivered[r], acc[r])
                     ELSE delivered[r]]
                /\ client' = [r \in LpReqs |->
                     IF r \notin ids THEN client[r]
                     ELSE [client[r] EXCEPT
                             !.status = "running",
                             !.computed = works[r].start + works[r].n,
                             !.outs = @ + (IF works[r].final THEN 1 ELSE 0)]]
        /\ leaving' = <<{}, {}>>
        /\ lpSteps' = lpSteps + 1
        /\ UNCHANGED readmitsNew

LpNext ==
    \/ \E r \in LpReqs, len \in LpPrompts, asks \in BOOLEAN :
          Arrive(r, len, asks)
    \/ \E r \in LpReqs : End(r)
    \/ \E r \in LpReqs, drop \in BOOLEAN : Preempt(r, drop)
    \/ \E order \in Packings :
          \E n \in [Elems(order) -> 1..LpBudget] : RunnerStep(order, n)

LpSpec == LpInit /\ [][LpNext]_lpVars

-----------------------------------------------------------------------------
(* Every prompt position scored, by its own row, delivered once with the   *)
(* first output.                                                           *)

\* The tensors of a life whose prompt has this length.
Scores(life, len) == [p \in 1..(len - 1) |-> <<life, p>>]

\* A request the scheduler holds an output of has been given its prompt
\* logprobs exactly once if it asked for them and never otherwise, every row
\* of them is the one that predicted that prompt token in the request's
\* present life, and no step raised because rows or prompt were missing -
\* however its prefill was cut, preempted, dropped or readmitted, and
\* whatever an earlier request left under its id
\* (v1/prompt_logprobs.py:98-148, v1/model_runner.py:2255-2306, 3003-3010).
PromptScoredOnce ==
    /\ ~desynced
    /\ \A r \in LpReqs :
          /\ client[r].outs > 0 =>
                delivered[r] = IF client[r].asks
                               THEN <<Scores(client[r].life, client[r].prompt)>>
                               ELSE << >>
          /\ client[r].outs = 0 => delivered[r] = << >>
=============================================================================
