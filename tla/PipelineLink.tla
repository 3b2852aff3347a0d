---------------------------- MODULE PipelineLink ----------------------------
(***************************************************************************)
(* Pipeline parallelism (distributed/pipeline.py, the stage branches of    *)
(* v1/model_runner.py, the ring bootstrap of v1/worker.py).                *)
(*                                                                         *)
(* Every stage receives the same scheduler outputs and runs them in order, *)
(* at its own pace; stage r sends the activations of its layers to r + 1   *)
(* over a ring that checks neither shape nor content. Only the last stage  *)
(* samples: the others mirror the token stream from what the scheduler     *)
(* broadcasts, so a mirror that drifts from the last stage's own state     *)
(* shows first as activations of the wrong length or of the wrong tokens.  *)
(***************************************************************************)
EXTENDS Integers, Sequences, FiniteSets, SequencesExt, Subsequences

CONSTANTS
    PpSizes,      \* pipeline sizes a launch may ask for
    PpLayers,     \* layer counts of the models it may serve
    PpReqs,       \* request ids
    PpPrompt,     \* prompt length
    PpMaxOuts,    \* bound: outputs per request
    PpMaxSteps,   \* bound: scheduler outputs
    PpMaxPreempts \* bound: preemptions

ASSUME PipelineLinkAssumption ==
    /\ PpSizes \subseteq Nat \ {0, 1} /\ PpLayers \subseteq Nat
    /\ IsFiniteSet(PpReqs) /\ PpPrompt \in Nat \ {0}
    /\ PpMaxOuts \in Nat /\ PpMaxSteps \in Nat /\ PpMaxPreempts \in Nat

VARIABLES
    pp,        \* [size, layers, readmits]: the launch
    stage,     \* per rank: [up, layers, reqs]
    orders,    \* per rank: scheduler outputs it has not run yet
    wire,      \* per rank: activations sent to it and not received
    sched,     \* the scheduler's view of each request
    issued,    \* scheduler outputs so far
    ppFault    \* what a stage received was not what it was about to compute

ppVars == <<pp, stage, orders, wire, sched, issued, ppFault>>

Ranks == 0..(pp.size - 1)
IsLast(r) == r = pp.size - 1

NoReq == [tokens |-> << >>, prompt |-> 0, generated |-> 0]
Waiting == [status |-> "waiting", computed |-> 0, outs |-> 0]

PpInit ==
    /\ \E size \in PpSizes, layers \in PpLayers, new \in BOOLEAN :
          pp = [size |-> size, layers |-> layers, readmits |-> new]
    /\ stage = [r \in Ranks |-> [up |-> "loading", layers |-> {},
                                 reqs |-> [q \in PpReqs |-> NoReq]]]
    /\ orders = [r \in Ranks |-> << >>]
    /\ wire = [r \in Ranks |-> << >>]
    /\ sched = [q \in PpReqs |-> Waiting]
    /\ issued = 0
    /\ ppFault = FALSE

-----------------------------------------------------------------------------
(* Loading: each stage slices its own layers out of the whole model. *)

\* get_pp_indices (external): equal parts, the remainder handed out from the
\* last stage but one downwards.
PartSize(r) ==
    LET rest == pp.layers % pp.size
    IN  pp.layers \div pp.size
        + IF r <= pp.size - 2 /\ r > pp.size - 2 - rest THEN 1 ELSE 0
Before(r) == SeqSum([s \in 1..r |-> PartSize(s - 1)])
Owned(r) == (Before(r) + 1)..(Before(r) + PartSize(r))

LoadStage(r) ==
    /\ stage[r].up = "loading"
    /\ stage' = [stage EXCEPT
          ![r].up = IF Owned(r) = {} THEN "refused" ELSE "up",
          ![r].layers = Owned(r)]
    /\ UNCHANGED <<pp, orders, wire, sched, issued, ppFault>>

-----------------------------------------------------------------------------
(* The scheduler (external): one output per step, broadcast to every stage. *)

Token(i) == i
Tokens(n) == [i \in 1..n |-> Token(i)]

\* What the scheduler has of a request: its prompt and the outputs returned.
Known(q) == PpPrompt + sched[q].outs

\* A cached request also carries the tokens of the span it schedules.
Entry(q, n) ==
    [req |-> q,
     kind |-> CASE sched[q].status = "running" -> "cached"
                [] sched[q].status = "waiting" -> "new"
                [] OTHER -> IF pp.readmits THEN "new" ELSE "resumed",
     start |-> sched[q].computed, n |-> n, all |-> Tokens(Known(q)),
     span |-> SubSeq(Tokens(Known(q)), sched[q].computed + 1,
                     sched[q].computed + n)]

\* What has been scheduled of a request and not run by the last stage.
InFlight(q) ==
    \E i \in DOMAIN orders[pp.size - 1] : \E j \in DOMAIN orders[pp.size - 1][i] :
        orders[pp.size - 1][i][j].req = q

Orders == {order \in UNION {[1..k -> PpReqs] : k \in 1..Cardinality(PpReqs)} :
             Distinct(order)}

\* Ids are scheduled in any order, up to what is known of them, again while
\* earlier chunks are in flight, never past a token that has not come back.
Schedule(order, n) ==
    /\ \A r \in Ranks : stage[r].up = "up"
    /\ issued < PpMaxSteps
    /\ \A r \in Ranks : Len(orders[r]) < pp.size
    /\ \A q \in Elems(order) :
          /\ sched[q].status # "ended"
          /\ sched[q].computed + n[q] <= Known(q)
    /\ LET work == [i \in DOMAIN order |-> Entry(order[i], n[order[i]])]
       IN  orders' = [r \in Ranks |-> Append(orders[r], work)]
    /\ sched' = [q \in PpReqs |->
          IF q \notin Elems(order) THEN sched[q]
          ELSE [sched[q] EXCEPT !.status = "running", !.computed = @ + n[q]]]
    /\ issued' = issued + 1
    /\ UNCHANGED <<pp, stage, wire, ppFault>>

\* Memory pressure takes a request with nothing in flight off the batch.
TakeOff(q) ==
    /\ sched[q].status = "running" /\ ~InFlight(q)
    /\ issued < PpMaxSteps
    /\ Cardinality({p \in PpReqs : sched[p].status = "preempted"}) < PpMaxPreempts
    /\ sched' = [sched EXCEPT ![q].status = "preempted", ![q].computed = 0]
    /\ UNCHANGED <<pp, stage, orders, wire, issued, ppFault>>

-----------------------------------------------------------------------------
(* One stage runs one scheduler output. *)

ExtendBySpan(state, e) ==
    [state EXCEPT !.tokens = @ \o e.span,
                  !.generated = Len(state.tokens) + Len(e.span) - state.prompt]

\* _update_pp_stage_states for a cached entry: append only the tokens of the
\* scheduled span the mirror does not hold yet.
Mirror(state, e) ==
    LET new == e.start + Len(e.span) - Len(state.tokens)
    IN  IF new <= 0 THEN state
        ELSE [state EXCEPT
                !.tokens = @ \o SubSeq(e.span, Len(e.span) - new + 1, Len(e.span)),
                !.generated = Len(state.tokens) + new - state.prompt]

\* _update_cached_request_blocks for a resumed entry.
Resumed(state, e) == [state EXCEPT !.tokens = e.all, !.generated = 0]

\* The request state a stage computes the entry's span from.
Prepared(r, e) ==
    LET held == stage[r].reqs[e.req]
        new == [tokens |-> e.all, prompt |-> PpPrompt, generated |-> 0]
    IN  IF e.kind = "new" THEN new
        ELSE LET seen == IF IsLast(r) THEN held ELSE Mirror(held, e)
             IN  IF e.kind = "resumed" THEN Resumed(seen, e) ELSE seen

\* The rows the entry contributes to the packed step: one decode row, or the
\* chunk of a request that has generated nothing since it was prefilled.
Rows(state, e) ==
    IF state.generated > 0
    THEN << <<e.req, Len(state.tokens), Last(state.tokens)>> >>
    ELSE [i \in 1..e.n |->
             <<e.req, e.start + i,
               IF e.start + i <= Len(state.tokens)
               THEN state.tokens[e.start + i] ELSE 0>>]

\* Decode rows first, then the chunks.
Packed(r, work) ==
    LET rows == [i \in DOMAIN work |-> Rows(Prepared(r, work[i]), work[i])]
        decoding == {i \in DOMAIN work : Prepared(r, work[i]).generated > 0}
    IN  FlattenSeq(Part(rows, decoding) \o Part(rows, DOMAIN rows \ decoding))

\* Whether the entry's rows reach the end of what the stage knows: the last
\* stage then samples a token and appends it.
Samples(state, e) ==
    state.generated > 0 \/ e.start + e.n >= Len(state.tokens)
Sampled(state) ==
    [state EXCEPT !.tokens = Append(@, Token(Len(@) + 1)), !.generated = @ + 1]

RunStage(r) ==
    /\ stage[r].up = "up" /\ orders[r] # << >>
    /\ r # 0 => wire[r] # << >>
    /\ LET work == Head(orders[r])
           rows == Packed(r, work)
           got == IF r = 0 THEN rows ELSE Head(wire[r])
           Of(q) == CHOOSE e \in Elems(work) : e.req = q
           ids == {e.req : e \in Elems(work)}
           final == {q \in ids : Samples(Prepared(r, Of(q)), Of(q))}
       IN  /\ stage' = [stage EXCEPT ![r].reqs = [q \in PpReqs |->
                  IF q \notin ids THEN @[q]
                  ELSE IF IsLast(r) /\ q \in final
                  THEN Sampled(Prepared(r, Of(q))) ELSE Prepared(r, Of(q))]]
           /\ wire' = [p \in Ranks |->
                  IF p = r /\ r # 0 THEN Tail(wire[p])
                  ELSE IF p = r + 1 THEN Append(wire[p], got)
                  ELSE wire[p]]
           /\ ppFault' = (ppFault \/ Len(got) # Len(rows)
                 \/ \E i \in DOMAIN rows : \/ got[i][1] # rows[i][1]
                                           \/ got[i][2] # rows[i][2]
                                           \/ got[i][3] # Token(rows[i][2]))
           /\ sched' = IF ~IsLast(r) THEN sched
                       ELSE [q \in PpReqs |->
                               IF q \notin ids THEN sched[q]
                               ELSE [sched[q] EXCEPT
                                       !.outs = @ + (IF q \in final THEN 1 ELSE 0),
                                       !.status = IF q \in final
                                                     /\ sched[q].outs + 1 >= PpMaxOuts
                                                  THEN "ended" ELSE @]]
    /\ orders' = [orders EXCEPT ![r] = Tail(@)]
    /\ UNCHANGED <<pp, issued>>

PpNext ==
    \/ \E r \in Ranks : LoadStage(r)
    \/ \E order \in Orders :
          \E n \in [Elems(order) -> 1..(PpPrompt + PpMaxOuts)] : Schedule(order, n)
    \/ \E q \in PpReqs : TakeOff(q)
    \/ \E r \in Ranks : RunStage(r)

PpSpec == PpInit /\ [][PpNext]_ppVars

-----------------------------------------------------------------------------
(* The stages compute one model. *)

\* Once every stage is up each layer of the model belongs to exactly one
\* (distributed/pipeline.py:160-196).
LayersOnce ==
    (\A r \in Ranks : stage[r].up = "up") =>
        /\ UNION {stage[r].layers : r \in Ranks} = 1..pp.layers
        /\ \A r, s \in Ranks : r # s => stage[r].layers \cap stage[s].layers = {}

\* What a stage receives is, row for row, the packed step it is about to run,
\* computed from the request's true tokens: with a receive declared for
\* another number of rows the ring deadlocks, and with another content the
\* last stage samples from activations of a different request or position
\* (distributed/pipeline.py:199-234, v1/model_runner.py:2895-2938).
StagesAgree == ~ppFault /\ LayersOnce
=============================================================================
