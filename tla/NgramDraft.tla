----------------------------- MODULE NgramDraft -----------------------------
(***************************************************************************)
(* N-gram drafting (v1/ngram_proposer.py): upstream's lookup kernel copies *)
(* what followed an earlier occurrence; the wrapper caps its drafts and    *)
(* stops asking for a request whose lookups bear no fruit.  What it knows  *)
(* of a request outlives the step: the miss streak, the pause, and a draft *)
(* waiting for the verdict of the target.  Meanwhile the scheduler cuts,   *)
(* pads or drops drafts, preempts requests, and hands a finished id to a   *)
(* new request.                                                            *)
(*                                                                         *)
(* The kernel may find any draft; a draft token is 0, the target accepts   *)
(* any prefix and then samples 1, or any token where nothing was rejected. *)
(***************************************************************************)
EXTENDS Integers, Sequences, FiniteSets, SequencesExt, FiniteSetsExt, Functions

CONSTANTS
    NgReqs,       \* request ids
    NgPrompt,     \* prompt tokens of a request
    NgLookupMin,  \* prompt_lookup_min
    NgWidth,      \* num_speculative_tokens, 0 in a step that drafts nothing
    NgMisses,     \* _MAX_CONSECUTIVE_MISSES, 8 in the code
    NgCooldown,   \* _COOLDOWN_STEPS, 8 in the code
    NgStrides,    \* state_checkpoint_stride tried, 0 for a target without states
    NgMaxTokens,  \* max_tokens of a request
    NgMaxLen,     \* max_model_len
    NgMaxSteps    \* bound: engine steps and scheduler decisions

ASSUME NgramDraftAssumption ==
    /\ {NgPrompt, NgLookupMin, NgWidth, NgMisses, NgCooldown, NgMaxTokens,
        NgMaxLen} \subseteq Nat \ {0}
    /\ NgStrides \subseteq Nat /\ NgMaxSteps \in Nat

VARIABLES
    ngStride,
    ngReq,       \* scheduler and RequestState: [status, tokens, gen, computed, spec]
    ngFinished,  \* finished_req_ids of the next step
    ngStreak,    \* _miss_streak
    ngPause,     \* _cooldown
    ngPending,   \* _pending: id -> [position, proposed]
    ngOffered,   \* draft_token_ids of the last step: id -> draft
    ngFruitless, \* history: misses of the id's request since its last hit
    ngUnheard,   \* history: ids whose finish no propose was told of
    ngSteps

ngVars == <<ngStride, ngReq, ngFinished, ngStreak, ngPause, ngPending,
            ngOffered, ngFruitless, ngUnheard, ngSteps>>

NewId == [status |-> "waiting", tokens |-> [i \in 1..NgPrompt |-> 0], gen |-> 0,
          computed |-> 0, spec |-> << >>]

NgInit ==
    /\ ngStride \in NgStrides
    /\ ngReq = [r \in NgReqs |-> NewId]
    /\ ngFinished = {}
    /\ ngStreak = << >> /\ ngPause = << >> /\ ngPending = << >>
    /\ ngOffered = << >>
    /\ ngFruitless = [r \in NgReqs |-> 0]
    /\ ngUnheard = {}
    /\ ngSteps = 0

-----------------------------------------------------------------------------
(* What a step runs, and what the target makes of it.                      *)

\* A decode row carries the drafts the scheduler kept; one that was padded to
\* the uniform width carries placeholders, which count as no draft.
SegmentDrafts(r, row) == IF row.padded THEN << >> ELSE SubSeq(ngReq[r].spec, 1, row.kept)

Idle == [n |-> 0, kept |-> 0, padded |-> FALSE, accepted |-> 0, next |-> 0]
Decoding(q) == q.gen > 0 /\ q.computed = Len(q.tokens) - 1

\* The rows the scheduler may give a request, with the target's verdict.
LookupRowsOf(q) ==
    {Idle} \cup
    (IF q.status = "gone" THEN {}
     ELSE IF Decoding(q)
     THEN {[n |-> 1 + k, kept |-> k, padded |-> FALSE, accepted |-> a, next |-> t] :
              k \in 0..Len(q.spec), a \in 0..Len(q.spec), t \in {0, 1}}
          \cup {[n |-> 1 + NgWidth, kept |-> 0, padded |-> TRUE, accepted |-> 0,
                 next |-> t] : t \in {0, 1}}
     ELSE {[n |-> m, kept |-> 0, padded |-> FALSE, accepted |-> 0, next |-> t] :
              m \in 1..(Len(q.tokens) - q.computed), t \in {0, 1}})
LookupRows(q) ==
    {row \in LookupRowsOf(q) :
        /\ row.accepted <= row.kept
        /\ row.accepted < row.kept => row.next = 1
        /\ row.padded => q.spec = << >>}

\* Whether the row samples: decodes and the chunk that ends the prefill.
Samples(q, row) == row.n > 0 /\ (Decoding(q) \/ q.computed + row.n = Len(q.tokens))

\* verify_greedy: the accepted drafts and one token more.
Verified(q, row) ==
    IF ~Samples(q, row) THEN << >>
    ELSE [i \in 1..row.accepted |-> 0] \o <<row.next>>

\* RequestState and scheduler after sampling; scheduled drafts are used up.
LookupRan(plan) ==
    [r \in NgReqs |->
        LET q == ngReq[r]
            out == Verified(q, plan[r])
        IN  IF plan[r].n = 0 THEN q
            ELSE [q EXCEPT
                !.status = "running", !.tokens = @ \o out, !.gen = @ + Len(out),
                !.computed = IF Decoding(q) THEN @ + Len(out) ELSE @ + plan[r].n,
                !.spec = << >>]]

-----------------------------------------------------------------------------
(* The proposer's bookkeeping: [streak, pause, pending].                   *)

Get(dict, r) == IF r \in DOMAIN dict THEN dict[r] ELSE 0
Without(dict, ids) == Restrict(dict, DOMAIN dict \ ids)
With(dict, r, value) ==
    [x \in DOMAIN dict \cup {r} |-> IF x = r THEN value ELSE dict[x]]

PruneFinished(b, ids) ==
    [streak |-> Without(b.streak, ids), pause |-> Without(b.pause, ids),
     pending |-> Without(b.pending, ids)]

\* A miss behind a pause starts the next pause at once: the streak is capped,
\* and only a hit clears it.
RecordMiss(b, r) ==
    LET streak == Min({Get(b.streak, r) + 1, NgMisses})
    IN  [b EXCEPT !.streak = With(@, r, streak),
                  !.pause = IF streak >= NgMisses THEN With(@, r, NgCooldown) ELSE @]

\* Tokens two sequences begin with in common.
CommonPrefix(s, t) ==
    Max({n \in 0..Min({Len(s), Len(t)}) : SubSeq(s, 1, n) = SubSeq(t, 1, n)})

\* Scoring whatever is pending for any decode row.
ToResolveAnyRow(b, plan) ==
    {r \in DOMAIN b.pending : plan[r].n > 0 /\ Decoding(ngReq[r])}

\* The drafts this step verified: the row carried some.
ToResolve(b, plan) ==
    {r \in DOMAIN b.pending :
        plan[r].n > 0 /\ Decoding(ngReq[r]) /\ SegmentDrafts(r, plan[r]) # << >>}

\* _resolve_pending: a draft is a hit when the committed tokens at its
\* position begin as it does.
ResolvePending(b, plan, after) ==
    LET resolve(c, r) ==
            LET draft == b.pending[r]
                actual == SubSeq(after[r].tokens, draft.position + 1,
                                 Min({Len(after[r].tokens),
                                      draft.position + Len(draft.proposed)}))
                popped == [c EXCEPT !.pending = Without(@, {r})]
            IN  IF CommonPrefix(draft.proposed, actual) > 0
                THEN [popped EXCEPT !.streak = Without(@, {r})]
                ELSE RecordMiss(popped, r)
    IN  FoldLeft(resolve, b, SetToSeq(ToResolve(b, plan)))

\* draft_eligible_requests: rows that sampled, of requests still running.
Eligible(plan, after) ==
    {r \in NgReqs : Samples(ngReq[r], plan[r]) /\ after[r].gen < NgMaxTokens}

\* _on_cooldown, asked once per eligible request.
Paused(b, r) == Get(b.pause, r) > 0
Waited(b, ids) ==
    [b EXCEPT !.pause = [r \in {x \in DOMAIN @ : ~(x \in ids /\ @[x] <= 1)} |->
                            IF r \in ids THEN @[r] - 1 ELSE @[r]]]

\* _hybrid_draft_caps: a verify span stays in the state block it starts in.
SpanStart(q) == Len(q.tokens) - 1
HybridCap(q) ==
    IF ngStride <= 1 THEN NgWidth
    ELSE Max({ngStride - (SpanStart(q) % ngStride) - 1, 0})

Cap(q) == Min({HybridCap(q), Max({0, NgMaxTokens - q.gen - 1})})

\* How many tokens upstream's kernel may find to copy.
Finds(q) ==
    IF Len(q.tokens) < NgLookupMin \/ Len(q.tokens) >= NgMaxLen THEN {0}
    ELSE 0..Min({NgWidth, NgMaxLen - Len(q.tokens)})

\* An empty result of a lookup that had enough to look at.
Fruitless(q, found) == found = 0 /\ Len(q.tokens) >= NgLookupMin

\* What becomes of each request's lookup.
Looked(b, after, ids, found) ==
    LET one(c, r) ==
            LET kept == Min({found[r], Cap(after[r])})
            IN  IF kept > 0
                THEN [c EXCEPT !.pending = With(@, r,
                        [position |-> Len(after[r].tokens),
                         proposed |-> [i \in 1..kept |-> 0]])]
                ELSE IF Fruitless(after[r], found[r]) THEN RecordMiss(c, r) ELSE c
    IN  FoldLeft(one, b, SetToSeq(ids))
Drafts(after, ids, found) ==
    [r \in {x \in ids : Min({found[x], Cap(after[x])}) > 0} |->
        [i \in 1..Min({found[r], Cap(after[r])}) |-> 0]]

\* Bookkeeping first, in a step that drafts nothing too.
Booked(plan, after) ==
    ResolvePending(PruneFinished([streak |-> ngStreak, pause |-> ngPause,
                                  pending |-> ngPending], ngFinished), plan, after)
Asking(b, plan, after, drafting) ==
    IF drafting THEN {r \in Eligible(plan, after) : ~Paused(b, r)} ELSE {}
Waiters(b, plan, after, drafting) ==
    IF drafting THEN {r \in Eligible(plan, after) : Paused(b, r)} ELSE {}

-----------------------------------------------------------------------------
(* Steps, and what happens between them.                                   *)

LookupOver(q) == q.gen >= NgMaxTokens \/ Len(q.tokens) >= NgMaxLen

\* What the id's request went through: a verdict on scheduled drafts, then a
\* lookup that found nothing.
Counted(count, r, plan, after, asking, found) ==
    LET verdict == SegmentDrafts(r, plan[r]) # << >> /\ Samples(ngReq[r], plan[r])
        judged == IF ~verdict THEN count
                  ELSE IF plan[r].accepted > 0 THEN 0 ELSE count + 1
    IN  Min({NgMisses, judged + (IF r \in asking /\ Fruitless(after[r], found[r])
                                 THEN 1 ELSE 0)})

\* A step with work: sample, then propose; the drafts go to the scheduler,
\* and requests at their end leave.
NgStep(plan, drafting) ==
    \E after \in {LookupRan(plan)} :
    \E booked \in {Booked(plan, after)} :
    \E asking \in {Asking(booked, plan, after, drafting)} :
    \E waited \in {Waited(booked, Waiters(booked, plan, after, drafting))} :
    \E found \in {f \in [asking -> 0..NgWidth] : \A r \in asking : f[r] \in Finds(after[r])} :
    \E looked \in {Looked(waited, after, asking, found)} :
    \E drafts \in {Drafts(after, asking, found)} :
       /\ ngStreak' = looked.streak
       /\ ngPause' = looked.pause
       /\ ngPending' = looked.pending
       /\ ngOffered' = drafts
       /\ ngReq' = [r \in NgReqs |->
             IF after[r].status = "running" /\ LookupOver(after[r])
             THEN [after[r] EXCEPT !.status = "gone", !.spec = << >>]
             ELSE IF r \in DOMAIN drafts THEN [after[r] EXCEPT !.spec = drafts[r]]
             ELSE after[r]]
       /\ ngFinished' = {r \in NgReqs : after[r].status = "running" /\ LookupOver(after[r])}
       /\ ngFruitless' = [r \in NgReqs |->
             Counted(ngFruitless[r], r, plan, after, asking, found)]
       /\ ngUnheard' = ngUnheard \ ngFinished
       /\ UNCHANGED ngStride

\* A step without work reaches no propose; its finish notices are gone.
EmptyStep ==
    /\ ngFinished # {}
    /\ ngUnheard' = ngUnheard \cup
           {r \in ngFinished : r \in DOMAIN ngStreak \cup DOMAIN ngPause \cup DOMAIN ngPending}
    /\ ngFinished' = {}
    /\ ngOffered' = << >>
    /\ UNCHANGED <<ngStride, ngReq, ngStreak, ngPause, ngPending, ngFruitless>>

\* The client aborts.
Abort(r) ==
    /\ ngReq[r].status = "running"
    /\ ngReq' = [ngReq EXCEPT ![r].status = "gone", ![r].spec = << >>]
    /\ ngFinished' = ngFinished \cup {r}
    /\ ngOffered' = << >>
    /\ UNCHANGED <<ngStride, ngStreak, ngPause, ngPending, ngFruitless, ngUnheard>>

\* The scheduler preempts; release_requests leaves the counters alone.
PreemptReq(r) ==
    /\ ngReq[r].status = "running"
    /\ ngReq' = [ngReq EXCEPT ![r].status = "waiting", ![r].computed = 0,
                              ![r].spec = << >>]
    /\ ngOffered' = << >>
    /\ UNCHANGED <<ngStride, ngFinished, ngStreak, ngPause, ngPending,
                   ngFruitless, ngUnheard>>

\* A new request under a finished id, perhaps before its finish is announced.
ReuseReqId(r) ==
    /\ ngReq[r].status = "gone"
    /\ ngReq' = [ngReq EXCEPT ![r] = NewId]
    /\ ngFruitless' = [ngFruitless EXCEPT ![r] = 0]
    /\ ngOffered' = << >>
    /\ UNCHANGED <<ngStride, ngFinished, ngStreak, ngPause, ngPending, ngUnheard>>

NgPlans == {plan \in [NgReqs -> UNION {LookupRows(ngReq[r]) : r \in NgReqs}] :
               \A r \in NgReqs : plan[r] \in LookupRows(ngReq[r])}

NgNext ==
    /\ ngSteps < NgMaxSteps
    /\ ngSteps' = ngSteps + 1
    /\ \/ \E plan \in NgPlans, drafting \in BOOLEAN :
             (\E r \in NgReqs : plan[r].n > 0) /\ NgStep(plan, drafting)
       \/ EmptyStep
       \/ \E r \in NgReqs : Abort(r) \/ PreemptReq(r) \/ ReuseReqId(r)

NgSpec == NgInit /\ [][NgNext]_ngVars

-----------------------------------------------------------------------------
(* What the throttle and the drafts must respect.                          *)

\* The streak of a request counts the verdicts and empty lookups of that
\* request since its last hit, and nothing else: not a capped draft, a short
\* history, a draft the scheduler dropped or padded, or what another request
\* under its id went through; a request is paused only for a full streak.
ThrottledOnEvidence ==
    \A r \in {x \in NgReqs \ (ngUnheard \cup ngFinished) : ngReq[x].status # "gone"} :
        /\ Get(ngStreak, r) = ngFruitless[r]
        /\ Get(ngPause, r) > 0 => ngFruitless[r] = NgMisses

\* Every draft handed to the scheduler can be verified: it leaves room for
\* the token verification adds and for the context limit, its span does not
\* leave the state block it starts in, and its verdict is awaited at the
\* position it will be committed to, in the request that now has the id
\* (v1/ngram_proposer.py:158-314, v1/model_runner.py:2220-2256).
NgramDraftsVerifiable ==
    /\ ThrottledOnEvidence
    /\ \A r \in DOMAIN ngOffered :
          LET q == ngReq[r]
              n == Len(ngOffered[r])
          IN  q.status = "running" =>
              /\ n > 0 /\ q.gen + n < NgMaxTokens /\ Len(q.tokens) + n <= NgMaxLen
              /\ ngStride > 1 => SpanStart(q) \div ngStride = (SpanStart(q) + n) \div ngStride
              /\ ngPending[r] = [position |-> Len(q.tokens), proposed |-> ngOffered[r]]

=============================================================================
