--------------------------- MODULE DecodePipeline ---------------------------
(***************************************************************************)
(* The one-step-ahead decode pipeline of the Metal model runner, class     *)
(* DecodePipeline of vllm_metal/v1/decode_pipeline.py, and the engine loop *)
(* that drives it.                                                         *)
(*                                                                         *)
(* A step is identified by the order in which the engine issued it. This   *)
(* module keeps what the class keeps about a step: which one is pending,   *)
(* which requests own a row of its lazy token buffer, which resolved       *)
(* output waits in the single slot. What the tokens are, and where they    *)
(* are backfilled, is added by DecodeRunner.                               *)
(*                                                                         *)
(* The engine (vLLM's batch-queue loop) is external: it calls              *)
(* execute_model and sample_tokens for a step, queues the step's output,   *)
(* and reads queued outputs oldest first. It holds at most QueueDepth of   *)
(* them.                                                                   *)
(***************************************************************************)
EXTENDS Naturals, Sequences

CONSTANTS
    Req,         \* request ids
    QueueDepth,  \* outputs the engine may leave unread
    MaxSteps     \* bound: steps issued in a behaviour

ASSUME ReqAssumption == Req # {}
ASSUME QueueDepthAssumption == QueueDepth \in 1..2
ASSUME MaxStepsAssumption == MaxSteps \in Nat

VARIABLES
    (* The pipeline object. *)
    pending,        \* submitted, unresolved step; NoPending when there is none
    pendingSerial,  \* serial of the last submitted step
    resolved,       \* single-slot output cache; EmptySlot when free
    rows,           \* requests with a row in the pending token buffer
    stepEligible,   \* gate decision of the current step
    (* The engine. *)
    phase,          \* the call the engine makes next for the current step
    current,        \* decode requests of the step being executed
    steps,          \* steps issued so far
    queue,          \* unread outputs, oldest first
    consumed,       \* step whose output the engine read last
    sampleFailure,  \* a sample_tokens call raised (runner's _sample_failure)
    raised          \* error that stopped the engine; "none" until then

pipelineVars == <<pending, pendingSerial, resolved, rows, stepEligible>>
engineVars == <<phase, current, steps, queue, consumed, sampleFailure, raised>>
vars == <<pipelineVars, engineVars>>

NoPending == [step |-> 0, reqs |-> {}]
EmptySlot == [serial |-> 0, step |-> 0]

(* The RuntimeErrors of submit, assemble_decode_input_ids and resolve. *)
Desyncs == {"ineligible submit", "slot occupied", "no pending row", "no output"}

(* What a queued future holds: a finished output, the async wrapper that   *)
(* resolves a serial when it is read, or the exception of a failed step.   *)
Output == [step : Nat, kind : {"done", "async", "failed"}, serial : Nat]
Done(step) == [step |-> step, kind |-> "done", serial |-> 0]
Failed(step) == [step |-> step, kind |-> "failed", serial |-> 0]
Async(step, serial) == [step |-> step, kind |-> "async", serial |-> serial]

(* The facts the gate is given. clear: no capability, step or sampling     *)
(* fact blocks the step. decode: its decode-phase requests. forward: some  *)
(* request has tokens scheduled.                                           *)
Shape == {s \in [clear : BOOLEAN, decode : SUBSET Req, forward : BOOLEAN] :
            /\ s.decode # {} => s.forward
            /\ s.forward /\ s.clear => s.decode # {}}

(* The pipeline object and the engine's queue are well-typed: in           *)
(* particular the slot always pairs a step with the serial it was          *)
(* submitted under, which resolve compares.                                *)
TypeOK ==
    /\ pending \in [step : Nat, reqs : SUBSET Req]
    /\ pendingSerial \in Nat
    /\ resolved \in [serial : Nat, step : Nat]
    /\ rows \in SUBSET Req
    /\ stepEligible \in BOOLEAN
    /\ phase \in {"execute", "sample"}
    /\ current \in SUBSET Req
    /\ steps \in Nat
    /\ queue \in Seq(Output)
    /\ consumed \in Nat
    /\ sampleFailure \in BOOLEAN
    /\ raised \in Desyncs \cup {"none", "sample failure"}

Init ==
    /\ pending = NoPending
    /\ pendingSerial = 0
    /\ resolved = EmptySlot
    /\ rows = {}
    /\ stepEligible = FALSE
    /\ phase = "execute"
    /\ current = {}
    /\ steps = 0
    /\ queue = <<>>
    /\ consumed = 0
    /\ sampleFailure = FALSE
    /\ raised = "none"

-----------------------------------------------------------------------------
(* The pipeline's methods. *)

Raise(error) == raised' = error

(* Mutant of PendingCovers: the gate ignores the pending rows. *)
CoversAnything(reqs) == TRUE

(* A step whose decode requests exceed the pending rows may not be         *)
(* deferred: the extra request has no lazy token to feed the forward.      *)
PendingCovers(reqs) == pending # NoPending => reqs \subseteq rows

Eligible(shape) == shape.clear /\ PendingCovers(shape.decode)

(* Mutant of SlotAfterBarrier: the result is filed under the next serial. *)
SlotUnderNextSerial ==
    IF pending # NoPending
    THEN [serial |-> pendingSerial + 1, step |-> pending.step]
    ELSE resolved

(* The slot after the pending step, if any, was resolved into it. *)
SlotAfterBarrier ==
    IF pending # NoPending
    THEN [serial |-> pendingSerial, step |-> pending.step]
    ELSE resolved

(* Mutant of Barrier: an ineligible step drops the pending one. *)
BarrierDiscards ==
    /\ resolved' = EmptySlot
    /\ pending' = NoPending
    /\ rows' = {}

Barrier ==
    /\ resolved' = SlotAfterBarrier
    /\ pending' = NoPending
    /\ rows' = {}

BeginStep(shape) ==
    /\ stepEligible' = Eligible(shape)
    /\ \/ Eligible(shape) /\ UNCHANGED <<pending, resolved, rows>>
       \/ ~Eligible(shape) /\ Barrier
    /\ UNCHANGED pendingSerial

(* assemble_decode_input_ids raises when an eligible step with a pending   *)
(* predecessor decodes a request that has no row.                          *)
MissingRow(shape) ==
    /\ Eligible(shape)
    /\ pending # NoPending
    /\ ~(shape.decode \subseteq rows)

Submit(step, reqs) ==
    \/ /\ ~stepEligible
       /\ Raise("ineligible submit")
       /\ UNCHANGED <<pending, resolved, rows, pendingSerial, queue>>
    \/ /\ stepEligible
       /\ resolved # EmptySlot
       /\ Raise("slot occupied")
       /\ UNCHANGED <<pending, resolved, rows, pendingSerial, queue>>
    \/ /\ stepEligible
       /\ resolved = EmptySlot
       /\ resolved' = SlotAfterBarrier
       /\ pending' = [step |-> step, reqs |-> reqs]
       /\ pendingSerial' = pendingSerial + 1
       /\ rows' = reqs
       /\ queue' = Append(queue, Async(step, pendingSerial + 1))
       /\ UNCHANGED raised

(* Mutant of Resolve: a pending step is resolved first, and whatever the   *)
(* slot holds is returned.                                                 *)
ResolveNewest(serial) ==
    /\ consumed' = SlotAfterBarrier.step
    /\ resolved' = EmptySlot
    /\ pending' = NoPending
    /\ rows' = {}
    /\ UNCHANGED raised

(* get_output of the wrapper for serial; consumed is the step whose output *)
(* comes back, whichever step the wrapper was made for.                    *)
Resolve(serial) ==
    \/ /\ resolved # EmptySlot
       /\ resolved.serial = serial
       /\ consumed' = resolved.step
       /\ resolved' = EmptySlot
       /\ UNCHANGED <<pending, rows, raised>>
    \/ /\ resolved = EmptySlot \/ resolved.serial # serial
       /\ pending # NoPending
       /\ pendingSerial = serial
       /\ consumed' = pending.step
       /\ pending' = NoPending
       /\ rows' = {}
       /\ resolved' = EmptySlot
       /\ UNCHANGED raised
    \/ /\ resolved = EmptySlot \/ resolved.serial # serial
       /\ pending = NoPending \/ pendingSerial # serial
       /\ Raise("no output")
       /\ UNCHANGED <<pending, rows, resolved, consumed>>

-----------------------------------------------------------------------------
(* The engine's calls. *)

Refused == sampleFailure

(* execute_model: the gate runs before anything else. A step with no       *)
(* scheduled tokens returns its output at once; any other step waits for   *)
(* sample_tokens.                                                          *)
ExecuteModel(shape) ==
    /\ raised = "none"
    /\ phase = "execute"
    /\ Len(queue) < QueueDepth
    /\ steps < MaxSteps
    /\ ~Refused
    /\ BeginStep(shape)
    /\ steps' = steps + 1
    /\ current' = shape.decode
    /\ \/ /\ MissingRow(shape)
          /\ Raise("no pending row")
          /\ UNCHANGED <<phase, queue>>
       \/ /\ ~MissingRow(shape)
          /\ shape.forward
          /\ phase' = "sample"
          /\ UNCHANGED <<queue, raised>>
       \/ /\ ~MissingRow(shape)
          /\ ~shape.forward
          /\ queue' = Append(queue, Done(steps + 1))
          /\ UNCHANGED <<phase, raised>>
    /\ UNCHANGED <<consumed, sampleFailure>>

(* After a failed sample execute_model raises before it touches anything,  *)
(* and sample_tokens finds no stashed forward.                             *)
ExecuteRefused ==
    /\ raised = "none"
    /\ phase = "execute"
    /\ Len(queue) < QueueDepth
    /\ steps < MaxSteps
    /\ Refused
    /\ steps' = steps + 1
    /\ queue' = Append(queue, Failed(steps + 1))
    /\ UNCHANGED <<pipelineVars, phase, current, consumed, sampleFailure, raised>>

(* sample_tokens on a gate-eligible step: the sample is submitted lazily.  *)
SampleDeferred ==
    /\ raised = "none"
    /\ phase = "sample"
    /\ stepEligible
    /\ Submit(steps, current)
    /\ phase' = "execute"
    /\ UNCHANGED <<stepEligible, current, steps, consumed, sampleFailure>>

(* sample_tokens on any other step: the output is complete on return.      *)
SampleSynchronous ==
    /\ raised = "none"
    /\ phase = "sample"
    /\ ~stepEligible
    /\ phase' = "execute"
    /\ queue' = Append(queue, Done(steps))
    /\ UNCHANGED <<pipelineVars, current, steps, consumed, sampleFailure, raised>>

(* sample_tokens raises before it submits or stores anything. The engine   *)
(* learns of it only when it reads this step's output.                     *)
SampleFails ==
    /\ raised = "none"
    /\ phase = "sample"
    /\ phase' = "execute"
    /\ sampleFailure' = TRUE
    /\ queue' = Append(queue, Failed(steps))
    /\ UNCHANGED <<pipelineVars, current, steps, consumed, raised>>

(* The engine reads the oldest output: between steps, or before it samples *)
(* a step whose grammar needs that output, which is never eligible.        *)
GetOutput ==
    /\ raised = "none"
    /\ queue # <<>>
    /\ phase = "execute" \/ ~stepEligible
    /\ queue' = Tail(queue)
    /\ \/ /\ Head(queue).kind = "done"
          /\ consumed' = Head(queue).step
          /\ UNCHANGED <<pending, resolved, rows, raised>>
       \/ /\ Head(queue).kind = "async"
          /\ Resolve(Head(queue).serial)
       \/ /\ Head(queue).kind = "failed"
          /\ Raise("sample failure")
          /\ UNCHANGED <<pending, resolved, rows, consumed>>
    /\ UNCHANGED <<pendingSerial, stepEligible, phase, current, steps, sampleFailure>>

Next ==
    \/ \E shape \in Shape : ExecuteModel(shape)
    \/ ExecuteRefused
    \/ SampleDeferred
    \/ SampleSynchronous
    \/ SampleFails
    \/ GetOutput

Spec == Init /\ [][Next]_vars

-----------------------------------------------------------------------------
(* Properties. *)

(* submit, assemble_decode_input_ids and resolve raise RuntimeErrors they  *)
(* call desyncs (an occupied slot, a decode request without a row, an      *)
(* output read twice or out of order). None is reachable with an engine    *)
(* that leaves at most two outputs unread.                                 *)
NoDesync == raised \notin Desyncs

(* Every output read is that of the step after the one read before:        *)
(* deferral, the barrier and the one-slot cache never reorder, lose or     *)
(* repeat a step's output.                                                 *)
OutputsInOrder == [][consumed' # consumed => consumed' = consumed + 1]_vars

(* An occupied slot always belongs to the oldest unread output, and        *)
(* becomes free before any step that may be submitted: the slot is never   *)
(* overwritten by a barrier that runs while an older result waits.         *)
SlotHoldsOldest ==
    resolved # EmptySlot =>
        /\ queue # <<>>
        /\ queue[1] = [step |-> resolved.step, kind |-> "async",
                       serial |-> resolved.serial]
        /\ ~(phase = "sample" /\ stepEligible)

(* Every step the engine issued is read in the end, deferred or not,       *)
(* unless a failed sample stops the engine first.                          *)
EveryStepConsumed ==
    \A n \in 1..MaxSteps : (steps >= n) ~> (consumed >= n \/ raised = "sample failure")

=============================================================================
