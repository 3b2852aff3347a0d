---------------------------- MODULE DecodeRunner ----------------------------
(***************************************************************************)
(* The request state of the Metal model runner around the decode pipeline: *)
(* execute_model and sample_tokens of vllm_metal/v1/model_runner.py, with  *)
(* the token values that DecodePipeline leaves out. Every action of this   *)
(* module is an action of DecodePipeline together with what the runner and *)
(* the scheduler do in the same call.                                      *)
(*                                                                         *)
(* Sampling is deterministic: the token at position i of any request is    *)
(* the number i, provided the forward that sampled it read the right input *)
(* token at the right position over a correct KV prefix. Otherwise it is   *)
(* Wrong, and stays wrong for everything computed from it.                 *)
(*                                                                         *)
(* The vLLM scheduler is external. It may schedule a request before it has *)
(* read the request's last token, preempt, resume, drop in-flight outputs, *)
(* finish, and admit a request under an id that was used before.           *)
(***************************************************************************)
EXTENDS DecodePipeline, Integers, FiniteSets

CONSTANTS
    PromptLen,    \* tokens of every prompt
    MaxLen,       \* length at which the engine finishes a request
    MaxPreempts,  \* bound: preemptions in a behaviour
    MaxArrivals   \* bound: requests that enter in a behaviour

ASSUME LenAssumption == PromptLen \in Nat \ {0} /\ MaxLen \in Nat /\ MaxLen > PromptLen
ASSUME ReqFinite == IsFiniteSet(Req)
ASSUME BoundAssumption == MaxPreempts \in Nat /\ MaxArrivals \in Nat

VARIABLES
    (* The runner. *)
    states,       \* _request_states: token ids and generated_tokens by request
    seqLen,       \* _paged_request_seq_lens; Absent when there is no entry
    awaiting,     \* _awaiting_readmission
    exec,         \* _execute_model_state: the rows of the last forward
    entries,      \* rows of the pending step and where their tokens land
    fault,        \* a state-tracking error raised by the runner
    (* Shared: the KV blocks and the outputs of unread steps. *)
    kv,           \* leading positions of a request whose KV is right
    batch,        \* per unread step, its requests and their output tokens
    (* The scheduler. *)
    status,       \* "absent", "waiting", "running" or "preempted"
    computed,     \* num_computed_tokens
    delivered,    \* output tokens of a request the engine has read
    accept,       \* per unread step, the requests whose token it still wants
    finishedIds,  \* finished requests not yet reported to the runner
    asNew,        \* preempted requests come back as scheduled_new_reqs
    preempts,
    arrivals

runnerVars == <<states, seqLen, awaiting, exec, entries, fault>>
schedulerVars == <<status, computed, delivered, accept, finishedIds, asNew,
                   preempts, arrivals>>
allVars == <<vars, runnerVars, kv, batch, schedulerVars>>

Absent == -1
Hole == -1      \* PENDING_TOKEN_PLACEHOLDER
Wrong == -2
NoToken == -3   \* an empty sampled_tokens row
NoState == [tokens |-> <<>>, gen |-> 0]
NoExec == [decode |-> <<>>, prefill |-> {}]

Tokens(n) == [i \in 1..n |-> i]
Last(seq) == seq[Len(seq)]

-----------------------------------------------------------------------------
(* The scheduler's view. *)

Known(r) == PromptLen + Len(delivered[r])
AllTokens(r) == Tokens(PromptLen) \o delivered[r]
Inflight(r) == Cardinality({i \in DOMAIN accept : r \in accept[i]})
Total(r) == Known(r) + Inflight(r)

RunningReqs == {r \in Req : status[r] = "running"}
Unread(r) == \E i \in DOMAIN batch : r \in DOMAIN batch[i]

(* A plan is one scheduler output. pre: preempted requests; drop: their    *)
(* in-flight outputs are discarded; sel: scheduled requests; whole: those  *)
(* scheduled up to their last known token, the others get one token; hit:  *)
(* those that start behind a cached prefix; grammar: a structured-output   *)
(* request is among them.                                                  *)
Admitted(p) == {r \in p.sel : status[r] # "running" \/ r \in p.pre}
New(p) == {r \in Admitted(p) : status[r] = "waiting" \/ asNew}
Resumed(p) == Admitted(p) \ New(p)
Cached(p) == p.sel \ New(p)

Start(p, r) ==
    IF r \notin Admitted(p) THEN computed[r]
    ELSE IF r \in p.hit THEN Known(r) - 1 ELSE 0
Remaining(p, r) == (IF r \in Admitted(p) THEN Known(r) ELSE Total(r)) - Start(p, r)
Target(p, r) == Start(p, r) + (IF r \in p.whole THEN Remaining(p, r) ELSE 1)

(* A request that left the running set comes back when none of its outputs *)
(* is in flight; a request whose last token is in flight is not scheduled. *)
Schedulable(r, pre, drop) ==
    \/ /\ status[r] = "running" /\ r \notin pre
       /\ computed[r] < Total(r)
       /\ Total(r) < MaxLen
    \/ status[r] \in {"waiting", "preempted"} /\ Inflight(r) = 0
    \/ r \in pre /\ drop

PlansWith(pre, drop) ==
    LET free == {r \in Req : Schedulable(r, pre, drop)} IN
    [pre : {pre}, drop : {drop}, sel : SUBSET free,
     whole : SUBSET free, hit : SUBSET free, grammar : BOOLEAN]

(* The plans the scheduler may make; a step does something. *)
Plans ==
    {p \in UNION {PlansWith(pre, drop) : pre \in SUBSET RunningReqs, drop \in BOOLEAN} :
        /\ preempts + Cardinality(p.pre) <= MaxPreempts
        /\ p.drop => p.pre # {}
        /\ p.hit \subseteq Admitted(p)
        /\ p.whole \subseteq p.sel
        /\ \A r \in p.sel : Remaining(p, r) = 1 => r \in p.whole
        /\ p.grammar => p.sel # {}
        /\ p.sel # {} \/ p.pre # {} \/ finishedIds # {}}

-----------------------------------------------------------------------------
(* The runner's helpers. *)

(* begin_step, submit and get_output may resolve the pending step. *)
Resolving == pending # NoPending /\ pending' # pending

RowOf(r) == CHOOSE row \in DOMAIN entries : entries[row].req = r
HasEntry(r) == \E row \in DOMAIN entries : entries[row].req = r
Owns(r) == \E row \in DOMAIN entries : entries[row].req = r /\ entries[row].current

(* Mutant of Backfill: the value goes to the request's last position. *)
BackfillLast(st) ==
    IF ~Resolving THEN st
    ELSE [r \in Req |->
            IF Owns(r) THEN [st[r] EXCEPT !.tokens[Len(st[r].tokens)] =
                                             entries[RowOf(r)].value]
            ELSE st[r]]

(* Backfill goes through the RequestState an entry was made for, whether   *)
(* or not the runner still knows it.                                       *)
Backfill(st) ==
    IF ~Resolving THEN st
    ELSE [r \in Req |->
            IF Owns(r) THEN [st[r] EXCEPT !.tokens[entries[RowOf(r)].index] =
                                             entries[RowOf(r)].value]
            ELSE st[r]]

(* Whether a backfilled position no longer holds the placeholder. *)
Overwritten(st) ==
    /\ Resolving
    /\ \E row \in {i \in DOMAIN entries : entries[i].current} :
         LET toks == st[entries[row].req].tokens IN
              \/ entries[row].index \notin DOMAIN toks
              \/ toks[entries[row].index] # Hole

(* Mutant of FillBatch: the newest batch receives the resolved tokens. *)
FillNewest(b) ==
    IF ~Resolving THEN b
    ELSE [b EXCEPT ![Len(b)] =
            [r \in DOMAIN @ |-> IF HasEntry(r) THEN entries[RowOf(r)].value ELSE @[r]]]

(* The pending step's batch receives the resolved tokens. *)
FillBatch(b) ==
    IF ~Resolving THEN b
    ELSE [b EXCEPT ![pending.step - consumed] =
            [r \in DOMAIN @ |-> entries[RowOf(r)].value]]

(* Decode work of a step, given the states it is classified by. *)
Decodes(p, st) == {r \in Cached(p) : st[r].gen # 0}

(* The facts _evaluate_pipeline_gate collects before anything changes. *)
GateShape(p) ==
    [clear |-> /\ New(p) = {} /\ Resumed(p) = {} /\ p.pre = {} /\ ~p.grammar
               /\ \A r \in Cached(p) : states[r] # NoState /\ states[r].gen # 0,
     decode |-> Decodes(p, states),
     forward |-> p.sel # {}]

(* _finished_req_ids: everything finished since the last step. *)
Evicted == finishedIds

(* Mutant of AwaitingAfter: a finished request still owes a readmission.   *)
AwaitingKeepsEvicted(p) == (awaiting \cup p.pre) \ Resumed(p)

(* _reconcile_request_lifecycle: who still owes a readmission. *)
AwaitingAfter(p) == ((awaiting \cup p.pre) \ Evicted) \ Resumed(p)

Readmitted(p) == New(p) \cap AwaitingAfter(p)
Fresh(p) == New(p) \ AwaitingAfter(p)

(* Mutant of StatesAfter: a resumed request keeps the tokens it has. *)
StatesKeepTokens(p, st) ==
    [r \in Req |->
        IF r \in Resumed(p) THEN [st[r] EXCEPT !.gen = 0]
        ELSE IF r \in Readmitted(p) THEN [tokens |-> AllTokens(r), gen |-> 0]
        ELSE IF r \in Fresh(p) /\ Target(p, r) < PromptLen
        THEN [tokens |-> Tokens(PromptLen), gen |-> 0]
        ELSE IF r \in Evicted THEN NoState ELSE st[r]]

(* States after eviction, new requests and cached updates: a readmission   *)
(* builds a new state, a resumption rewrites the old one, and a fresh      *)
(* request gets one at once only when its prompt is cut into chunks.       *)
StatesAfter(p, st) ==
    [r \in Req |->
        IF r \in Readmitted(p) \cup Resumed(p)
        THEN [tokens |-> AllTokens(r), gen |-> 0]
        ELSE IF r \in Fresh(p) /\ Target(p, r) < PromptLen
        THEN [tokens |-> Tokens(PromptLen), gen |-> 0]
        ELSE IF r \in Evicted THEN NoState ELSE st[r]]

(* Mutant of SeqLenAfter: an evicted request keeps its length. *)
SeqLenKeepsEvicted(p) ==
    [r \in Req |-> IF r \in Readmitted(p) \cup Resumed(p) THEN Absent ELSE seqLen[r]]

SeqLenAfter(p) ==
    [r \in Req |-> IF r \in Evicted \cup Readmitted(p) \cup Resumed(p)
                   THEN Absent ELSE seqLen[r]]

MissingState(p, st) ==
    \/ \E r \in Cached(p) : r \in Evicted \/ st[r] = NoState
    \/ \E r \in Readmitted(p) : r \in Evicted \/ st[r] = NoState

-----------------------------------------------------------------------------
(* The forward pass. *)

(* A row is right when it reads the true token of its position over a      *)
(* correct prefix; it then yields the next token.                          *)
Row(right, pos) == IF right THEN pos + 1 ELSE Wrong

KvBefore(p, r) == IF r \in Admitted(p) THEN Start(p, r) ELSE kv[r]

(* A prefill chunk of a fresh request comes from its prompt, any other     *)
(* from the request's state.                                               *)
PrefillTokens(p, st, r) == IF r \in Fresh(p) THEN Tokens(PromptLen) ELSE st[r].tokens

PrefillRight(p, st, r) ==
    /\ KvBefore(p, r) >= Start(p, r)
    /\ Target(p, r) <= Len(PrefillTokens(p, st, r))
    /\ \A i \in (Start(p, r) + 1)..Target(p, r) : PrefillTokens(p, st, r)[i] = i

PrefillRow(p, st, r) ==
    [req |-> r, target |-> Target(p, r),
     mode |-> IF Target(p, r) < Len(PrefillTokens(p, st, r)) THEN "intermediate"
              ELSE IF r \in Fresh(p) THEN "new_final" ELSE "cached_final",
     value |-> Row(PrefillRight(p, st, r), Target(p, r))]

(* Where a decode row writes: the tracked length, else one before the end. *)
Position(lens, st, r) == IF lens[r] # Absent THEN lens[r] ELSE Len(st[r].tokens) - 1

(* Mutant of GatheredRow: the buffer is fed as it is, never permuted. *)
SameRow(order, i) == i

(* assemble_decode_input_ids: row i of the step reads the pending token of *)
(* its own request.                                                        *)
GatheredRow(order, i) == RowOf(order[i])

(* An eligible step with a pending predecessor reads the lazy tokens, any  *)
(* other step the last host token.                                         *)
DecodeInput(st, order, i) ==
    IF stepEligible' /\ pending' # NoPending
    THEN entries[GatheredRow(order, i)].value
    ELSE Last(st[order[i]].tokens)

DecodeRight(lens, st, order, i) ==
    LET pos == Position(lens, st, order[i]) IN
        kv[order[i]] >= pos /\ DecodeInput(st, order, i) = pos + 1

DecodeRows(lens, st, order) ==
    [i \in DOMAIN order |->
        [req |-> order[i],
         value |-> Row(DecodeRight(lens, st, order, i),
                       Position(lens, st, order[i]) + 1)]]

(* The orders in which the scheduler may list a set of requests. *)
Orders(S) == {q \in [1..Cardinality(S) -> S] :
                \A i, j \in 1..Cardinality(S) : q[i] = q[j] => i = j}

(* The row of a request among the rows of a forward. *)
RowSet(seq) == {seq[i] : i \in DOMAIN seq}
RowFor(forward, r) == CHOOSE row \in forward : row.req = r
HasRow(forward, r) == \E row \in forward : row.req = r

KvAfter(p, forward) ==
    [r \in Req |->
        IF HasRow(forward, r) /\ RowFor(forward, r).value # Wrong
        THEN RowFor(forward, r).value - 1
        ELSE KvBefore(p, r)]

-----------------------------------------------------------------------------
(* The engine's calls. *)

Quiet == raised = "none" /\ fault = "none"

Arrive(r) ==
    /\ Quiet
    /\ status[r] = "absent"
    /\ ~Unread(r)
    /\ arrivals < MaxArrivals
    /\ arrivals' = arrivals + 1
    /\ status' = [status EXCEPT ![r] = "waiting"]
    /\ delivered' = [delivered EXCEPT ![r] = <<>>]
    /\ UNCHANGED <<vars, runnerVars, kv, batch, computed, accept, finishedIds,
                   asNew, preempts>>

(* A request leaves: its outputs still in flight are no longer wanted.     *)
Finish(S) ==
    /\ status' = [r \in Req |-> IF r \in S THEN "absent" ELSE status[r]]
    /\ computed' = [r \in Req |-> IF r \in S THEN 0 ELSE computed[r]]
    /\ finishedIds' = finishedIds \cup S

Abort(r) ==
    /\ Quiet
    /\ status[r] # "absent"
    /\ Finish({r})
    /\ accept' = [i \in DOMAIN accept |-> accept[i] \ {r}]
    /\ UNCHANGED <<vars, runnerVars, kv, batch, delivered, asNew, preempts, arrivals>>

(* The scheduler's side of a step. *)
Schedule(p) ==
    /\ accept' = Append([i \in DOMAIN accept |->
                           IF p.drop THEN accept[i] \ p.pre ELSE accept[i]],
                        {r \in p.sel : r \in p.whole})
    /\ status' = [r \in Req |-> IF r \in p.sel THEN "running"
                                ELSE IF r \in p.pre THEN "preempted" ELSE status[r]]
    /\ computed' = [r \in Req |-> IF r \in p.sel THEN Target(p, r)
                                  ELSE IF r \in p.pre THEN 0 ELSE computed[r]]
    /\ preempts' = preempts + Cardinality(p.pre)
    /\ finishedIds' = {}
    /\ UNCHANGED <<delivered, asNew, arrivals>>

(* The runner's side: gate and barrier, eviction and readmission ledger,   *)
(* new and cached requests, forward.                                       *)
Prepare(p) ==
    LET st == Backfill(states)
        after == StatesAfter(p, st)
        lens == SeqLenAfter(p)
        decodes == Decodes(p, after)
        prefills == {PrefillRow(p, after, r) : r \in p.sel \ decodes}
    IN  /\ awaiting' = AwaitingAfter(p) \ New(p)
        /\ states' = after
        /\ seqLen' = lens
        /\ batch' = Append(FillBatch(batch), [r \in p.sel |-> NoToken])
        /\ entries' = IF Resolving THEN <<>>
                      ELSE [row \in DOMAIN entries |->
                              [entries[row] EXCEPT !.current =
                                  @ /\ entries[row].req \notin Evicted]]
        /\ \/ /\ raised' # "none"
              /\ UNCHANGED <<exec, kv, fault>>
           \/ /\ raised' = "none"
              /\ Overwritten(states) \/ MissingState(p, st)
              /\ fault' = "state desync"
              /\ UNCHANGED <<exec, kv>>
           \/ /\ raised' = "none"
              /\ ~Overwritten(states) /\ ~MissingState(p, st)
              /\ \E order \in Orders(decodes) :
                    /\ exec' = [decode |-> DecodeRows(lens, after, order),
                                prefill |-> prefills]
                    /\ kv' = KvAfter(p, RowSet(exec'.decode) \cup prefills)
              /\ UNCHANGED fault

CanExecute ==
    Quiet /\ phase = "execute" /\ Len(queue) < QueueDepth

ExecutePlan(p) ==
    /\ ExecuteModel(GateShape(p))
    /\ Schedule(p)
    /\ Prepare(p)

ExecuteStep == CanExecute /\ \E p \in Plans : ExecutePlan(p)

(* A failed sample was not read yet: the engine schedules on, the runner   *)
(* refuses the step.                                                       *)
RefuseStep ==
    /\ Quiet
    /\ ExecuteRefused
    /\ batch' = Append(batch, <<>>)
    /\ accept' = Append(accept, {})
    /\ UNCHANGED <<runnerVars, kv, status, computed, delivered, finishedIds,
                   asNew, preempts, arrivals>>

(* Sequence length after one more token; the default is the position of    *)
(* the token that was last before the append.                              *)
Advanced(r) == Position(seqLen, states, r) + 1

DecodeReqs == {exec.decode[i].req : i \in DOMAIN exec.decode}
DecodeValue(r) == RowFor(RowSet(exec.decode), r).value

(* Placeholders are appended and the entries built before submit resolves  *)
(* the predecessor.                                                        *)
Deferred ==
    [r \in Req |-> IF r \in DecodeReqs
                   THEN [tokens |-> Append(states[r].tokens, Hole),
                         gen |-> states[r].gen + 1]
                   ELSE states[r]]

DeferSample ==
    /\ Quiet
    /\ SampleDeferred
    /\ states' = Backfill(Deferred)
    /\ fault' = IF Overwritten(Deferred) THEN "state desync" ELSE fault
    /\ seqLen' = [r \in Req |-> IF r \in DecodeReqs THEN Advanced(r) ELSE seqLen[r]]
    /\ entries' = [row \in DOMAIN exec.decode |->
                     [req |-> exec.decode[row].req,
                      index |-> Len(states[exec.decode[row].req].tokens) + 1,
                      value |-> exec.decode[row].value,
                      current |-> TRUE]]
    /\ batch' = FillBatch(batch)
    /\ exec' = NoExec
    /\ UNCHANGED <<awaiting, kv, schedulerVars>>

(* The synchronous path: a decode row extends its state, a final prefill   *)
(* row extends or creates one, an intermediate chunk samples nothing.      *)
FinalRows == {row \in exec.prefill : row.mode # "intermediate"}

FinalState(row) ==
    LET toks == IF row.mode = "new_final" THEN Tokens(PromptLen)
                ELSE states[row.req].tokens
    IN  [tokens |-> Append(toks, row.value), gen |-> Len(toks) + 1 - PromptLen]

SampledState(r) ==
    CASE r \in DecodeReqs -> [tokens |-> Append(states[r].tokens, DecodeValue(r)),
                              gen |-> states[r].gen + 1]
      [] HasRow(FinalRows, r) -> FinalState(RowFor(FinalRows, r))
      [] OTHER -> states[r]

SampledToken(r) ==
    CASE r \in DecodeReqs -> DecodeValue(r)
      [] HasRow(FinalRows, r) -> RowFor(FinalRows, r).value
      [] OTHER -> NoToken

SampledLen(r) ==
    CASE r \in DecodeReqs -> Advanced(r)
      [] HasRow(exec.prefill, r) -> RowFor(exec.prefill, r).target
      [] OTHER -> seqLen[r]

SampledRow(reqs) == [r \in reqs |-> SampledToken(r)]

SetOutputs(b) == [b EXCEPT ![Len(b)] = SampledRow(DOMAIN @)]

SampleStep ==
    /\ Quiet
    /\ SampleSynchronous
    /\ states' = [r \in Req |-> SampledState(r)]
    /\ seqLen' = [r \in Req |-> SampledLen(r)]
    /\ batch' = SetOutputs(batch)
    /\ exec' = NoExec
    /\ UNCHANGED <<awaiting, entries, fault, kv, schedulerVars>>

FailSample ==
    /\ Quiet
    /\ SampleFails
    /\ exec' = NoExec
    /\ UNCHANGED <<states, seqLen, awaiting, entries, fault, kv, batch, schedulerVars>>

(* update_from_output: the step's tokens go to the requests that still     *)
(* want them, and some of these are complete.                              *)
ReadOutput(complete) ==
    /\ Quiet
    /\ GetOutput
    /\ states' = Backfill(states)
    /\ fault' = IF Overwritten(states) THEN "state desync" ELSE fault
    /\ entries' = IF Resolving THEN <<>> ELSE entries
    /\ IF raised' # "none"
       THEN /\ complete = {}
            /\ UNCHANGED <<batch, accept, delivered, status, computed, finishedIds>>
       ELSE LET out == FillBatch(batch)[consumed' - consumed]
                wants == Head(accept)
            IN  /\ complete \subseteq wants
                /\ \A r \in wants : Known(r) + 1 = MaxLen => r \in complete
                /\ delivered' = [r \in Req |->
                      IF r \in wants THEN Append(delivered[r], out[r]) ELSE delivered[r]]
                /\ Finish(complete)
                /\ batch' = Tail(FillBatch(batch))
                /\ accept' = [i \in DOMAIN Tail(accept) |-> Tail(accept)[i] \ complete]
    /\ UNCHANGED <<seqLen, awaiting, exec, kv, asNew, preempts, arrivals>>

RunnerInit ==
    /\ Init
    /\ states = [r \in Req |-> NoState]
    /\ seqLen = [r \in Req |-> Absent]
    /\ awaiting = {}
    /\ exec = NoExec
    /\ entries = <<>>
    /\ fault = "none"
    /\ kv = [r \in Req |-> 0]
    /\ batch = <<>>
    /\ status = [r \in Req |-> "absent"]
    /\ computed = [r \in Req |-> 0]
    /\ delivered = [r \in Req |-> <<>>]
    /\ accept = <<>>
    /\ finishedIds = {}
    /\ asNew \in BOOLEAN
    /\ preempts = 0
    /\ arrivals = 0

RunnerNext ==
    \/ \E r \in Req : Arrive(r)
    \/ \E r \in Req : Abort(r)
    \/ ExecuteStep
    \/ RefuseStep
    \/ DeferSample
    \/ SampleStep
    \/ FailSample
    \/ \E complete \in SUBSET Req : ReadOutput(complete)

(* The engine keeps scheduling while there is work, finishes the step it   *)
(* started and reads what it queued.                                       *)
RunnerFairness ==
    /\ WF_allVars(ExecuteStep)
    /\ WF_allVars(DeferSample \/ SampleStep \/ FailSample)
    /\ WF_allVars(\E complete \in SUBSET Req : ReadOutput(complete))

RunnerSpec == RunnerInit /\ [][RunnerNext]_allVars
FairRunnerSpec == RunnerSpec /\ RunnerFairness

-----------------------------------------------------------------------------
(* Properties. *)

(* No forward ever reads a placeholder, another request's lazy token, a    *)
(* stale position or a KV prefix that is not there: every row of a step    *)
(* yields the true next token of its request.                              *)
ForwardSound ==
    /\ \A i \in DOMAIN exec.decode : exec.decode[i].value # Wrong
    /\ \A row \in exec.prefill : row.value # Wrong

(* A placeholder in a live request's tokens is always the one place where  *)
(* the pending step will put that request's token, and every pending row   *)
(* of a live request still finds its placeholder there.                    *)
PlaceholderOwned ==
    \A r \in Req : \A i \in DOMAIN states[r].tokens :
        (states[r].tokens[i] = Hole) <=>
            \E row \in DOMAIN entries :
                /\ entries[row].current
                /\ entries[row].req = r
                /\ entries[row].index = i

(* Between steps the runner and the scheduler agree on every running       *)
(* request: as many tokens as were read or are in flight, the read ones    *)
(* equal, and as many computed positions, however the step was sampled and *)
(* whatever was preempted, dropped or recomputed before.                   *)
RunnerMatchesScheduler ==
    phase = "execute" /\ Quiet /\ ~sampleFailure =>
        \A r \in RunningReqs :
            /\ Len(states[r].tokens) = Total(r)
            /\ \A i \in 1..Known(r) :
                 states[r].tokens[i] \in {AllTokens(r)[i], Hole}
            /\ seqLen[r] = computed[r]
            /\ kv[r] = computed[r]

(* The runner forgets a request: nothing is kept for an id that neither is *)
(* scheduled nor waits to be reported as finished, even when the request   *)
(* ends between execute_model and sample_tokens or while its token is      *)
(* pending.                                                                *)
NoLeak ==
    \A r \in Req :
        states[r] # NoState \/ seqLen[r] # Absent \/ r \in awaiting =>
            status[r] \in {"running", "preempted"} \/ r \in finishedIds

(* The runner's own consistency errors are unreachable. *)
NoStateDesync == raised \notin Desyncs /\ fault = "none"

(* Every request that entered ends: deferral, preemption and dropped       *)
(* outputs never strand one, unless a failed sample stops the engine.      *)
RequestsEnd ==
    \A r \in Req : status[r] # "absent" ~>
        status[r] = "absent" \/ raised = "sample failure"

Stream == INSTANCE TokenStream WITH
    open <- {r \in Req : status[r] # "absent"}

(* What execute_model and sample_tokens hand back, deferred or not, reads  *)
(* as TokenStream to a client: every token once and in order.              *)
ImplementsTokenStream == Stream!Spec

=============================================================================
