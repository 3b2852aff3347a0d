------------------------- MODULE DecodeRunner_proofs --------------------------
(***************************************************************************)
(* First the pipeline alone, for any set of requests, any number of steps  *)
(* and an engine that leaves one or two outputs unread.                    *)
(*                                                                         *)
(* The runner with its scheduler is a DecodePipeline: whatever it submits  *)
(* and reads, the gate it computes from its own request states gives the   *)
(* pipeline only the steps DecodePipeline allows. So what is proved of the *)
(* pipeline holds of the composed system.                                  *)
(*                                                                         *)
(* And the runner and the scheduler agree, for any set of requests, prompt *)
(* and output lengths, preemptions and aborts: the invariant, every other  *)
(* step, then execute_model, whatever the scheduler plans.                 *)
(*                                                                         *)
(* Last, DecodeRunner implements TokenStream: what a client reads is its   *)
(* request's tokens, each once and in order, up to the length at which the *)
(* engine finishes the request.                                            *)
(***************************************************************************)
EXTENDS DecodeRunner, FiniteSetTheorems, TLAPS

(* Steps issued and not yet queued as outputs: the one being executed. *)
InHand == IF phase = "sample" THEN 1 ELSE 0

(* The unread outputs are those of consecutive steps, and there is room    *)
(* for the output of the step being executed.                              *)
QueueInOrder ==
    /\ steps = consumed + Len(queue) + InHand
    /\ Len(queue) + InHand <= QueueDepth
    /\ \A i \in 1..Len(queue) : queue[i].step = consumed + i

(* The pending step's output is unread, and its rows are the requests it   *)
(* was submitted for.                                                      *)
PendingQueued ==
    /\ rows = pending.reqs
    /\ pending # NoPending =>
         \E i \in 1..Len(queue) : queue[i] = Async(pending.step, pendingSerial)

(* An occupied slot belongs to the oldest unread output and leaves no room *)
(* for another step, so the gate of the next step finds it empty.          *)
SlotOldest ==
    resolved # EmptySlot =>
        /\ Len(queue) + InHand = 2
        /\ queue[1] = Async(resolved.step, resolved.serial)
        /\ pending # NoPending => resolved.serial # pendingSerial
        /\ ~(phase = "sample" /\ stepEligible)

(* Every unread wrapper can still be answered. *)
AsyncAnswerable ==
    \A i \in 1..Len(queue) : queue[i].kind = "async" =>
        /\ queue[i].serial \in 1..pendingSerial
        /\ \/ pending # NoPending /\ queue[i] = Async(pending.step, pendingSerial)
           \/ i = 1 /\ resolved # EmptySlot
                    /\ queue[i] = Async(resolved.step, resolved.serial)

Running == QueueInOrder /\ PendingQueued /\ SlotOldest /\ AsyncAnswerable

IInv ==
    /\ TypeOK
    /\ NoDesync
    /\ raised = "none" => Running
    /\ raised = "sample failure" => resolved = EmptySlot

-----------------------------------------------------------------------------
(* What the queue looks like after an output was appended to it. *)
LEMMA AppendOutput ==
    ASSUME NEW q \in Seq(Output), NEW o \in Output
    PROVE  /\ Append(q, o) \in Seq(Output)
           /\ Len(Append(q, o)) = Len(q) + 1
           /\ Append(q, o)[Len(q) + 1] = o
           /\ \A i \in 1..Len(q) : Append(q, o)[i] = q[i]
  OBVIOUS

(* What it looks like after its head was read. *)
LEMMA TailOutput ==
    ASSUME NEW q \in Seq(Output), q # <<>>
    PROVE  /\ Tail(q) \in Seq(Output)
           /\ Len(Tail(q)) = Len(q) - 1
           /\ Len(q) > 0
           /\ Head(q) = q[1]
           /\ q[1] \in Output
           /\ \A i \in 1..Len(Tail(q)) : Tail(q)[i] = q[i + 1]
  OBVIOUS

(* The three kinds of queued output: a finished one, a failed one and the  *)
(* wrapper execute_model returns for a deferred sample.                    *)
LEMMA OutputKinds ==
    /\ \A n \in Nat : Done(n) \in Output /\ Failed(n) \in Output
    /\ \A n, m \in Nat : Async(n, m) \in Output
    /\ \A n \in Nat : Done(n).step = n /\ Failed(n).step = n
    /\ \A n \in Nat : Done(n).kind = "done" /\ Failed(n).kind = "failed"
    /\ \A n, m \in Nat : Async(n, m).kind = "async" /\ Async(n, m).step = n
                          /\ Async(n, m).serial = m
  BY DEF Output, Done, Failed, Async

(* A new pipeline with an engine that issued nothing satisfies IInv.       *)
LEMMA InitIInv == Init => IInv
  <1> SUFFICES ASSUME Init PROVE IInv
    OBVIOUS
  <1>1. TypeOK
    <2>1. <<>> \in Seq(Output)
      OBVIOUS
    <2>2. NoPending \in [step : Nat, reqs : SUBSET Req]
      BY DEF NoPending
    <2>3. EmptySlot \in [serial : Nat, step : Nat]
      BY DEF EmptySlot
    <2> QED
      BY <2>1, <2>2, <2>3 DEF Init, TypeOK
  <1>2. NoDesync /\ resolved = EmptySlot
    BY DEF Init, NoDesync, Desyncs
  <1>3. Running
    BY QueueDepthAssumption DEF Init, Running, QueueInOrder, PendingQueued,
       SlotOldest, AsyncAnswerable, InHand, NoPending
  <1> QED
    BY <1>1, <1>2, <1>3 DEF IInv

-----------------------------------------------------------------------------
(* Facts every action that starts from a running engine may use. *)
LEMMA RunningFacts ==
    ASSUME IInv, raised = "none"
    PROVE  /\ TypeOK /\ Running
           /\ Len(queue) \in Nat
           /\ Len(queue) + InHand <= 2
           /\ InHand \in {0, 1}
           /\ \A i \in 1..Len(queue) : queue[i] \in Output
           /\ resolved # EmptySlot => Len(queue) + InHand = QueueDepth
           /\ pending # NoPending => pendingSerial > 0
           /\ steps \in Nat /\ consumed \in Nat /\ pendingSerial \in Nat
           /\ pending.step \in Nat /\ queue \in Seq(Output)
           /\ resolved.step \in Nat /\ resolved.serial \in Nat
  <1>1. TypeOK /\ Running
    BY DEF IInv
  <1>0. /\ steps \in Nat /\ consumed \in Nat /\ pendingSerial \in Nat
        /\ pending.step \in Nat /\ queue \in Seq(Output)
        /\ resolved.step \in Nat /\ resolved.serial \in Nat
    BY <1>1 DEF TypeOK
  <1>2. Len(queue) \in Nat /\ \A i \in 1..Len(queue) : queue[i] \in Output
    BY <1>1 DEF TypeOK
  <1>3. InHand \in {0, 1}
    BY DEF InHand
  <1>4. Len(queue) + InHand <= QueueDepth
    BY <1>1 DEF Running, QueueInOrder
  <1>5. Len(queue) + InHand <= 2
    BY <1>2, <1>3, <1>4, QueueDepthAssumption
  <1>6. resolved # EmptySlot => Len(queue) + InHand = QueueDepth
    BY <1>1, <1>2, <1>3, <1>4, QueueDepthAssumption DEF Running, SlotOldest
  <1>7. pending # NoPending => pendingSerial > 0
    <2> SUFFICES ASSUME pending # NoPending PROVE pendingSerial > 0
      OBVIOUS
    <2>1. PICK i \in 1..Len(queue) : queue[i] = Async(pending.step, pendingSerial)
      BY <1>1 DEF Running, PendingQueued
    <2>2. queue[i].kind = "async" /\ queue[i].serial = pendingSerial
      BY <2>1 DEF Async
    <2> QED
      BY <1>1, <2>1, <2>2 DEF Running, AsyncAnswerable, TypeOK
  <1> QED
    BY <1>0, <1>1, <1>2, <1>3, <1>5, <1>6, <1>7

(* Below QueueDepth = 2 there is no or one unread output ...               *)
LEMMA AtMostOne == ASSUME NEW n \in Nat, n <= 1 PROVE n \in {0, 1}
  OBVIOUS

(* ... and if there is one it is the head of the queue.                    *)
LEMMA OnlyIndex == ASSUME NEW n \in {0, 1}, NEW k \in 1..n PROVE n = 1 /\ k = 1
  OBVIOUS

(* The barrier leaves a well-typed slot, no pending step and no rows.      *)
LEMMA BarrierTypes ==
    ASSUME TypeOK
    PROVE  /\ SlotAfterBarrier \in [serial : Nat, step : Nat]
           /\ Barrier => /\ pending' \in [step : Nat, reqs : SUBSET Req]
                         /\ resolved' \in [serial : Nat, step : Nat]
                         /\ rows' \in SUBSET Req
  <1>1. pending.step \in Nat /\ pendingSerial \in Nat
    BY DEF TypeOK
  <1>2. SlotAfterBarrier \in [serial : Nat, step : Nat]
    BY <1>1 DEF TypeOK, SlotAfterBarrier
  <1>3. NoPending \in [step : Nat, reqs : SUBSET Req]
    BY DEF NoPending
  <1> QED
    BY <1>2, <1>3 DEF Barrier

(* execute_model with any facts: the gate, and the barrier of a step that  *)
(* is not eligible, which fills the slot while an older output waits.      *)
LEMMA ExecuteModelIInv ==
    ASSUME IInv, NEW shape \in Shape, ExecuteModel(shape)
    PROVE  IInv'
  <1>1. raised = "none" /\ phase = "execute" /\ Len(queue) < QueueDepth
    BY DEF ExecuteModel
  <1>2. /\ TypeOK /\ Running /\ InHand = 0
        /\ Len(queue) \in Nat /\ Len(queue) <= 1
        /\ \A i \in 1..Len(queue) : queue[i] \in Output
        /\ pending # NoPending => pendingSerial > 0
        /\ steps \in Nat /\ consumed \in Nat /\ pendingSerial \in Nat
        /\ pending.step \in Nat /\ queue \in Seq(Output)
    BY <1>1, RunningFacts, QueueDepthAssumption DEF InHand
  <1>3. resolved = EmptySlot
    BY <1>1, <1>2, RunningFacts, QueueDepthAssumption
  <1>4. /\ ~MissingRow(shape)
        /\ raised' = "none"
        /\ steps' = steps + 1 /\ consumed' = consumed
        /\ pendingSerial' = pendingSerial
    BY <1>1 DEF ExecuteModel, BeginStep, MissingRow, Eligible, PendingCovers
  <1>5. \/ shape.forward /\ phase' = "sample" /\ queue' = queue
        \/ phase' = phase /\ queue' = Append(queue, Done(steps + 1))
    BY <1>4 DEF ExecuteModel
  <1>6. Done(steps + 1) \in Output /\ Done(steps + 1).step = steps + 1
        /\ Done(steps + 1).kind = "done"
    <2>1. steps + 1 \in Nat
      BY <1>2
    <2> QED
      BY <2>1, OutputKinds
  <1>7. /\ queue' \in Seq(Output)
        /\ Len(queue') \in Nat /\ InHand' \in {0, 1}
        /\ Len(queue') + InHand' = Len(queue) + 1
        /\ Len(queue') \in {Len(queue), Len(queue) + 1}
        /\ \A i \in 1..Len(queue) : queue'[i] = queue[i]
        /\ \A i \in 1..Len(queue') : i > Len(queue) => queue'[i] = Done(steps + 1)
    <2>1. CASE shape.forward /\ phase' = "sample" /\ queue' = queue
      <3>1. InHand' = 1
        BY <2>1 DEF InHand
      <3> QED
        BY <1>2, <2>1, <3>1
    <2>2. CASE phase' = phase /\ queue' = Append(queue, Done(steps + 1))
      <3>1. /\ queue' \in Seq(Output) /\ Len(queue') = Len(queue) + 1
            /\ queue'[Len(queue) + 1] = Done(steps + 1)
            /\ \A i \in 1..Len(queue) : queue'[i] = queue[i]
        <4>1. queue \in Seq(Output) /\ Done(steps + 1) \in Output
          BY <1>2, <1>6
        <4> QED
          BY <2>2, <4>1, AppendOutput
      <3>2. InHand' = 0
        BY <1>1, <2>2 DEF InHand
      <3> QED
        BY <1>2, <3>1, <3>2
    <2> QED
      BY <1>5, <2>1, <2>2
  <1>8. TypeOK'
    <2>1. BeginStep(shape) /\ current' = shape.decode /\ sampleFailure' = sampleFailure
      BY DEF ExecuteModel
    <2>2. stepEligible' \in BOOLEAN
      BY <2>1, Zenon DEF BeginStep, Shape, Eligible, PendingCovers
    <2>3. /\ pending' \in [step : Nat, reqs : SUBSET Req]
          /\ resolved' \in [serial : Nat, step : Nat]
          /\ rows' \in SUBSET Req
      BY <1>2, <2>1, BarrierTypes DEF BeginStep, TypeOK
    <2>4. current' \in SUBSET Req
      BY <2>1 DEF Shape
    <2>5. phase' \in {"execute", "sample"}
      BY <1>1, <1>5
    <2>6. steps' \in Nat /\ consumed' \in Nat /\ pendingSerial' \in Nat
      BY <1>2, <1>4
    <2>7. sampleFailure' \in BOOLEAN
      BY <1>2, <2>1 DEF TypeOK
    <2> QED
      BY <1>4, <1>7, <2>2, <2>3, <2>4, <2>5, <2>6, <2>7 DEF TypeOK
  <1>9. QueueInOrder'
    <2>1. steps = consumed + Len(queue)
      BY <1>2 DEF QueueInOrder, Running
    <2>2. \A i \in 1..Len(queue) : queue[i].step = consumed + i
      BY <1>2 DEF QueueInOrder, Running
    <2>3. ASSUME NEW i \in 1..Len(queue')
          PROVE  queue'[i].step = consumed' + i
      <3>1. CASE i <= Len(queue)
        BY <1>2, <1>4, <1>7, <2>2, <3>1
      <3>2. CASE i > Len(queue)
        <4>1. i = Len(queue) + 1
          BY <1>2, <1>7, <3>2
        <4> QED
          BY <1>2, <1>4, <1>6, <1>7, <2>1, <3>2, <4>1
      <3> QED
        BY <1>2, <3>1, <3>2
    <2>4. Len(queue') + InHand' <= QueueDepth
      BY <1>1, <1>2, <1>7, QueueDepthAssumption
    <2>5. steps' = consumed' + Len(queue') + InHand'
      BY <1>2, <1>4, <1>7, <2>1
    <2> QED
      BY <2>3, <2>4, <2>5 DEF QueueInOrder
  <1>10. CASE Eligible(shape)
    <2>1. UNCHANGED <<pending, resolved, rows>>
      BY <1>10 DEF ExecuteModel, BeginStep
    <2>2. PendingQueued'
      BY <1>2, <1>4, <1>7, <2>1 DEF PendingQueued, Running, Async, NoPending
    <2>3. SlotOldest'
      BY <1>3, <2>1 DEF SlotOldest, EmptySlot
    <2>4. AsyncAnswerable'
      BY <1>2, <1>3, <1>4, <1>6, <1>7, <2>1
      DEF AsyncAnswerable, Running, Async, EmptySlot, NoPending
    <2> QED
      BY <1>4, <1>8, <1>9, <2>2, <2>3, <2>4 DEF IInv, NoDesync, Desyncs, Running
  <1>11. CASE ~Eligible(shape)
    <2>1. BeginStep(shape)
      BY DEF ExecuteModel
    <2>2. /\ pending' = NoPending /\ rows' = {} /\ resolved' = SlotAfterBarrier
          /\ stepEligible' = FALSE
      BY <1>11, <2>1 DEF BeginStep, Barrier
    <2>3. PendingQueued'
      BY <2>2 DEF PendingQueued, NoPending
    <2>4. CASE pending = NoPending
      <3>1. resolved' = EmptySlot
        BY <1>3, <2>2, <2>4 DEF SlotAfterBarrier
      <3>2. SlotOldest'
        BY <3>1 DEF SlotOldest, EmptySlot
      <3>3. AsyncAnswerable'
        BY <1>2, <1>3, <1>4, <1>6, <1>7, <2>4
        DEF AsyncAnswerable, Running
      <3> QED
        BY <1>4, <1>8, <1>9, <2>3, <3>2, <3>3 DEF IInv, NoDesync, Desyncs, Running
    <2>5. CASE pending # NoPending
      <3>1. PICK k \in 1..Len(queue) : queue[k] = Async(pending.step, pendingSerial)
        BY <1>2, <2>5 DEF Running, PendingQueued
      <3>2. Len(queue) = 1 /\ k = 1
        <4>1. Len(queue) \in Nat /\ Len(queue) <= 1
          BY <1>2
        <4>2. Len(queue) \in {0, 1}
          BY <4>1, AtMostOne
        <4> QED
          BY <4>2
      <3>3. /\ resolved'.serial = pendingSerial /\ resolved'.step = pending.step
        BY <2>2, <2>5 DEF SlotAfterBarrier
      <3>4. queue'[1] = Async(resolved'.step, resolved'.serial)
        BY <1>7, <3>1, <3>2, <3>3
      <3>5. SlotOldest'
        BY <1>2, <1>7, <2>2, <3>2, <3>4 DEF SlotOldest
      <3>6. resolved' # EmptySlot
        BY <1>2, <2>5, <3>3 DEF EmptySlot
      <3>7. queue'[1].serial = pendingSerial
        BY <1>2, <3>3, <3>4, OutputKinds
      <3>8. AsyncAnswerable'
        BY <1>2, <1>4, <1>6, <1>7, <2>5, <3>2, <3>4, <3>6, <3>7
        DEF AsyncAnswerable
      <3> QED
        BY <1>4, <1>8, <1>9, <2>3, <3>5, <3>8 DEF IInv, NoDesync, Desyncs, Running
    <2> QED
      BY <2>4, <2>5
  <1> QED
    BY <1>10, <1>11

(* The output of the step just issued continues the queue's order.         *)
LEMMA AppendInOrder ==
    ASSUME IInv, raised = "none", NEW o \in Output,
           o.step = steps + 1 - InHand, queue' = Append(queue, o),
           consumed' = consumed, steps' = steps + 1 - InHand, phase' = "execute",
           Len(queue) < QueueDepth
    PROVE  /\ queue' \in Seq(Output) /\ Len(queue') = Len(queue) + 1
           /\ queue'[Len(queue) + 1] = o
           /\ \A i \in 1..Len(queue) : queue'[i] = queue[i]
           /\ InHand' = 0
           /\ QueueInOrder'
  <1>1. /\ Running /\ InHand \in {0, 1}
        /\ Len(queue) \in Nat /\ Len(queue) + InHand <= 2
        /\ steps \in Nat /\ consumed \in Nat /\ queue \in Seq(Output)
    BY RunningFacts
  <1>2. /\ queue' \in Seq(Output) /\ Len(queue') = Len(queue) + 1
        /\ queue'[Len(queue) + 1] = o
        /\ \A i \in 1..Len(queue) : queue'[i] = queue[i]
    BY <1>1, AppendOutput
  <1>3. InHand' = 0
    BY DEF InHand
  <1>4. /\ steps = consumed + Len(queue) + InHand
        /\ Len(queue) + InHand <= QueueDepth
        /\ \A i \in 1..Len(queue) : queue[i].step = consumed + i
    BY <1>1 DEF Running, QueueInOrder
  <1>5. ASSUME NEW i \in 1..Len(queue')
        PROVE  queue'[i].step = consumed' + i
    <2>1. CASE i <= Len(queue)
      BY <1>1, <1>2, <1>4, <2>1
    <2>2. CASE i > Len(queue)
      <3>1. i = Len(queue) + 1
        BY <1>1, <1>2, <2>2
      <3> QED
        BY <1>1, <1>2, <1>4, <3>1
    <2> QED
      BY <1>1, <2>1, <2>2
  <1>6. Len(queue') + InHand' <= QueueDepth
    BY <1>1, <1>2, <1>3, QueueDepthAssumption
  <1>7. steps' = consumed' + Len(queue') + InHand'
    BY <1>1, <1>2, <1>3, <1>4
  <1> QED
    BY <1>2, <1>3, <1>5, <1>6, <1>7 DEF QueueInOrder

(* Appending an output that is not a wrapper leaves every promise intact,  *)
(* provided it is the output that fills the queue.                         *)
LEMMA AppendPlain ==
    ASSUME IInv, raised = "none", NEW o \in Output, o.kind # "async",
           Len(queue') = Len(queue) + 1,
           queue'[Len(queue) + 1] = o,
           \A i \in 1..Len(queue) : queue'[i] = queue[i],
           InHand' = 0, phase' = "execute",
           InHand = 1 \/ resolved = EmptySlot,
           UNCHANGED <<pending, pendingSerial, resolved, rows>>
    PROVE  PendingQueued' /\ SlotOldest' /\ AsyncAnswerable'
  <1>1. /\ Running /\ InHand \in {0, 1} /\ Len(queue) \in Nat
    BY RunningFacts
  <1>2. PendingQueued'
    BY <1>1 DEF PendingQueued, Running, Async, NoPending
  <1>3. SlotOldest'
    BY <1>1 DEF SlotOldest, Running, Async, EmptySlot, NoPending
  <1>4. AsyncAnswerable'
    BY <1>1 DEF AsyncAnswerable, Running, Async, EmptySlot, NoPending
  <1> QED
    BY <1>2, <1>3, <1>4

(* A step refused after a failed sample touches nothing of the pipeline.   *)
LEMMA ExecuteRefusedIInv == ASSUME IInv, ExecuteRefused PROVE IInv'
  <1>1. /\ raised = "none" /\ phase = "execute" /\ Len(queue) < QueueDepth
        /\ steps' = steps + 1 /\ queue' = Append(queue, Failed(steps + 1))
        /\ consumed' = consumed /\ phase' = "execute" /\ raised' = "none"
        /\ UNCHANGED <<pending, pendingSerial, resolved, rows, stepEligible,
                       current, sampleFailure>>
    BY DEF ExecuteRefused, pipelineVars
  <1>2. /\ TypeOK /\ InHand = 0 /\ steps \in Nat /\ Len(queue) \in Nat
        /\ steps + 1 \in Nat
    BY <1>1, RunningFacts DEF InHand
  <1>3. /\ Failed(steps + 1) \in Output /\ Failed(steps + 1).kind = "failed"
        /\ Failed(steps + 1).step = steps + 1
    BY <1>2, OutputKinds
  <1>4. resolved = EmptySlot
    BY <1>1, <1>2, RunningFacts, QueueDepthAssumption
  <1>5. /\ queue' \in Seq(Output) /\ Len(queue') = Len(queue) + 1
        /\ queue'[Len(queue) + 1] = Failed(steps + 1)
        /\ \A i \in 1..Len(queue) : queue'[i] = queue[i]
        /\ InHand' = 0 /\ QueueInOrder'
    <2>1. Failed(steps + 1).step = steps + 1 - InHand /\ steps' = steps + 1 - InHand
      BY <1>1, <1>2, <1>3
    <2> QED
      BY <1>1, <1>3, <2>1, AppendInOrder
  <1>6. PendingQueued' /\ SlotOldest' /\ AsyncAnswerable'
    BY <1>1, <1>3, <1>4, <1>5, AppendPlain
  <1>7. TypeOK'
    BY <1>1, <1>2, <1>5 DEF TypeOK
  <1> QED
    BY <1>1, <1>5, <1>6, <1>7 DEF IInv, NoDesync, Desyncs, Running

(* submit: the slot is free, the pending predecessor is resolved into it,  *)
(* and the new step becomes the pending one under a new serial.            *)
LEMMA SampleDeferredIInv == ASSUME IInv, SampleDeferred PROVE IInv'
  <1>1. /\ raised = "none" /\ phase = "sample" /\ stepEligible
        /\ Submit(steps, current) /\ phase' = "execute"
        /\ UNCHANGED <<stepEligible, current, steps, consumed, sampleFailure>>
    BY DEF SampleDeferred
  <1>2. /\ TypeOK /\ Running /\ InHand = 1 /\ steps \in Nat
        /\ Len(queue) \in {0, 1} /\ Len(queue) + InHand <= QueueDepth
        /\ pendingSerial \in Nat /\ pending.step \in Nat
        /\ pending # NoPending => pendingSerial > 0
    <2>1. /\ TypeOK /\ Running /\ steps \in Nat /\ Len(queue) \in Nat
          /\ Len(queue) + InHand <= 2
          /\ pendingSerial \in Nat /\ pending.step \in Nat
          /\ pending # NoPending => pendingSerial > 0
      BY <1>1, RunningFacts
    <2>2. InHand = 1
      BY <1>1 DEF InHand
    <2>3. Len(queue) + InHand <= QueueDepth
      BY <2>1 DEF Running, QueueInOrder
    <2>4. Len(queue) <= 1
      BY <2>1, <2>2
    <2>5. Len(queue) \in {0, 1}
      BY <2>1, <2>4, AtMostOne
    <2> QED
      BY <2>1, <2>2, <2>3, <2>5
  <1>0. steps # 0
    <2>1. steps = consumed + Len(queue) + InHand /\ consumed \in Nat
      BY <1>2 DEF Running, QueueInOrder, TypeOK
    <2> QED
      BY <1>2, <2>1
  <1>3. resolved = EmptySlot
    BY <1>1, <1>2 DEF Running, SlotOldest
  <1>4. /\ resolved' = SlotAfterBarrier
        /\ pending' = [step |-> steps, reqs |-> current]
        /\ pendingSerial' = pendingSerial + 1
        /\ rows' = current
        /\ queue' = Append(queue, Async(steps, pendingSerial + 1))
        /\ raised' = "none"
    BY <1>1, <1>3 DEF Submit
  <1>5. /\ Async(steps, pendingSerial + 1) \in Output
        /\ Async(steps, pendingSerial + 1).step = steps
        /\ Async(steps, pendingSerial + 1).serial = pendingSerial + 1
    BY <1>2, OutputKinds
  <1>6. /\ queue' \in Seq(Output) /\ Len(queue') = Len(queue) + 1
        /\ queue'[Len(queue) + 1] = Async(steps, pendingSerial + 1)
        /\ \A i \in 1..Len(queue) : queue'[i] = queue[i]
        /\ InHand' = 0 /\ QueueInOrder'
    <2>1. /\ Async(steps, pendingSerial + 1).step = steps + 1 - InHand
          /\ steps' = steps + 1 - InHand /\ consumed' = consumed
          /\ Len(queue) < QueueDepth
      BY <1>1, <1>2, <1>5, QueueDepthAssumption
    <2> QED
      BY <1>1, <1>4, <1>5, <2>1, AppendInOrder
  <1>7. TypeOK'
    <2>1. pending' \in [step : Nat, reqs : SUBSET Req]
      BY <1>2, <1>4 DEF TypeOK
    <2> QED
      BY <1>1, <1>2, <1>4, <1>6, <2>1, BarrierTypes DEF TypeOK
  <1>8. PendingQueued'
    <2>1. pending'.step = steps /\ pending'.reqs = current
      BY <1>4
    <2>2. 1..Len(queue') # {} /\ Len(queue) + 1 \in 1..Len(queue')
      BY <1>2, <1>6
    <2> QED
      BY <1>4, <1>6, <2>1, <2>2 DEF PendingQueued
  <1>9. CASE pending = NoPending
    <2>1. resolved' = EmptySlot
      BY <1>3, <1>4, <1>9 DEF SlotAfterBarrier
    <2>2. SlotOldest'
      BY <2>1 DEF SlotOldest, EmptySlot
    <2>3. \A i \in 1..Len(queue) : queue[i].kind # "async"
      BY <1>2, <1>3, <1>9 DEF Running, AsyncAnswerable
    <2>4. AsyncAnswerable'
      <3>1. pending' # NoPending
        BY <1>0, <1>4 DEF NoPending
      <3> QED
        BY <1>2, <1>4, <1>5, <1>6, <2>3, <3>1 DEF AsyncAnswerable
    <2> QED
      BY <1>4, <1>6, <1>7, <1>8, <2>2, <2>4 DEF IInv, NoDesync, Desyncs, Running
  <1>10. CASE pending # NoPending
    <2>1. PICK k \in 1..Len(queue) : queue[k] = Async(pending.step, pendingSerial)
      BY <1>2, <1>10 DEF Running, PendingQueued
    <2>2. Len(queue) = 1 /\ k = 1
      <3>1. Len(queue) \in {0, 1}
        BY <1>2
      <3>2. k \in 1..Len(queue)
        BY <2>1
      <3> QED
        BY <3>1, <3>2, OnlyIndex
    <2>3. resolved'.serial = pendingSerial /\ resolved'.step = pending.step
      BY <1>4, <1>10 DEF SlotAfterBarrier
    <2>4. queue'[1] = Async(resolved'.step, resolved'.serial)
      BY <1>6, <2>1, <2>2, <2>3
    <2>5. SlotOldest'
      BY <1>1, <1>2, <1>4, <1>6, <2>2, <2>3, <2>4 DEF SlotOldest
    <2>6. resolved' # EmptySlot /\ queue'[1].serial = pendingSerial
      BY <1>2, <1>10, <2>3, <2>4, OutputKinds DEF EmptySlot
    <2>7. AsyncAnswerable'
      <3>1. pending' # NoPending
        BY <1>0, <1>4 DEF NoPending
      <3>2. queue'[2] = Async(pending'.step, pendingSerial')
        BY <1>4, <1>6, <2>2
      <3>3. Len(queue') = 2
        BY <1>6, <2>2
      <3> QED
        BY <1>2, <1>4, <1>5, <1>6, <1>10, <2>2, <2>4, <2>6, <3>1, <3>2, <3>3
        DEF AsyncAnswerable
    <2> QED
      BY <1>4, <1>6, <1>7, <1>8, <2>5, <2>7 DEF IInv, NoDesync, Desyncs, Running
  <1> QED
    BY <1>9, <1>10

(* sample_tokens of an ineligible step queues a finished output.           *)
LEMMA SampleSynchronousIInv == ASSUME IInv, SampleSynchronous PROVE IInv'
  <1>1. /\ raised = "none" /\ phase = "sample" /\ ~stepEligible
        /\ steps' = steps /\ queue' = Append(queue, Done(steps))
        /\ consumed' = consumed /\ phase' = "execute" /\ raised' = "none"
        /\ UNCHANGED <<pending, pendingSerial, resolved, rows, stepEligible,
                       current, sampleFailure>>
    BY DEF SampleSynchronous, pipelineVars
  <1>2. /\ TypeOK /\ InHand = 1 /\ steps \in Nat /\ Len(queue) \in Nat
        /\ Len(queue) + InHand <= QueueDepth
    BY <1>1, RunningFacts DEF InHand, Running, QueueInOrder
  <1>3. /\ Done(steps) \in Output /\ Done(steps).kind = "done"
        /\ Done(steps).step = steps
    BY <1>2, OutputKinds
  <1>5. /\ queue' \in Seq(Output) /\ Len(queue') = Len(queue) + 1
        /\ queue'[Len(queue) + 1] = Done(steps)
        /\ \A i \in 1..Len(queue) : queue'[i] = queue[i]
        /\ InHand' = 0 /\ QueueInOrder'
    <2>1. /\ Done(steps).step = steps + 1 - InHand /\ steps' = steps + 1 - InHand
          /\ Len(queue) < QueueDepth
      BY <1>1, <1>2, <1>3, QueueDepthAssumption
    <2> QED
      BY <1>1, <1>3, <2>1, AppendInOrder
  <1>6. PendingQueued' /\ SlotOldest' /\ AsyncAnswerable'
    BY <1>1, <1>2, <1>3, <1>5, AppendPlain
  <1>7. TypeOK'
    BY <1>1, <1>2, <1>5 DEF TypeOK
  <1> QED
    BY <1>1, <1>5, <1>6, <1>7 DEF IInv, NoDesync, Desyncs, Running

(* sample_tokens that raises leaves the pipeline as execute_model left it. *)
LEMMA SampleFailsIInv == ASSUME IInv, SampleFails PROVE IInv'
  <1>1. /\ raised = "none" /\ phase = "sample"
        /\ steps' = steps /\ queue' = Append(queue, Failed(steps))
        /\ consumed' = consumed /\ phase' = "execute" /\ raised' = "none"
        /\ sampleFailure' = TRUE
        /\ UNCHANGED <<pending, pendingSerial, resolved, rows, stepEligible, current>>
    BY DEF SampleFails, pipelineVars
  <1>2. /\ TypeOK /\ InHand = 1 /\ steps \in Nat /\ Len(queue) \in Nat
        /\ Len(queue) + InHand <= QueueDepth
    BY <1>1, RunningFacts DEF InHand, Running, QueueInOrder
  <1>3. /\ Failed(steps) \in Output /\ Failed(steps).kind = "failed"
        /\ Failed(steps).step = steps
    BY <1>2, OutputKinds
  <1>5. /\ queue' \in Seq(Output) /\ Len(queue') = Len(queue) + 1
        /\ queue'[Len(queue) + 1] = Failed(steps)
        /\ \A i \in 1..Len(queue) : queue'[i] = queue[i]
        /\ InHand' = 0 /\ QueueInOrder'
    <2>1. /\ Failed(steps).step = steps + 1 - InHand /\ steps' = steps + 1 - InHand
          /\ Len(queue) < QueueDepth
      BY <1>1, <1>2, <1>3, QueueDepthAssumption
    <2> QED
      BY <1>1, <1>3, <2>1, AppendInOrder
  <1>6. PendingQueued' /\ SlotOldest' /\ AsyncAnswerable'
    BY <1>1, <1>2, <1>3, <1>5, AppendPlain
  <1>7. TypeOK'
    BY <1>1, <1>2, <1>5 DEF TypeOK
  <1> QED
    BY <1>1, <1>5, <1>6, <1>7 DEF IInv, NoDesync, Desyncs, Running

(* get_output of the oldest unread output finds its step in the slot, or   *)
(* still pending, or complete.                                             *)
LEMMA GetOutputIInv == ASSUME IInv, GetOutput PROVE IInv'
  <1>1. /\ raised = "none" /\ queue # <<>> /\ queue' = Tail(queue)
        /\ phase = "execute" \/ ~stepEligible
        /\ UNCHANGED <<pendingSerial, stepEligible, phase, current, steps, sampleFailure>>
    BY DEF GetOutput
  <1>2. /\ TypeOK /\ Running /\ InHand \in {0, 1} /\ steps \in Nat
        /\ Len(queue) \in Nat /\ Len(queue) + InHand <= 2
        /\ pendingSerial \in Nat /\ consumed \in Nat
        /\ pending.step \in Nat /\ queue \in Seq(Output)
        /\ resolved.step \in Nat /\ resolved.serial \in Nat
    BY <1>1, RunningFacts
  <1>3. /\ queue' \in Seq(Output) /\ Len(queue') = Len(queue) - 1
        /\ Len(queue) > 0 /\ Head(queue) = queue[1] /\ queue[1] \in Output
        /\ \A i \in 1..Len(queue') : queue'[i] = queue[i + 1]
    BY <1>1, <1>2, TailOutput
  <1>4. queue[1].kind \in {"done", "async", "failed"} /\ queue[1].serial \in Nat
    BY <1>3 DEF Output
  <1>5. InHand' = InHand
    BY <1>1 DEF InHand
  <1>6. queue[1].step = consumed + 1
    BY <1>2, <1>3 DEF Running, QueueInOrder
  <1>7. ASSUME consumed' = consumed + 1 PROVE QueueInOrder'
    <2>1. /\ steps = consumed + Len(queue) + InHand
          /\ Len(queue) + InHand <= QueueDepth
          /\ \A i \in 1..Len(queue) : queue[i].step = consumed + i
      BY <1>2 DEF Running, QueueInOrder
    <2>2. ASSUME NEW i \in 1..Len(queue') PROVE queue'[i].step = consumed' + i
      <3>1. i + 1 \in 1..Len(queue) /\ queue'[i] = queue[i + 1]
        BY <1>2, <1>3
      <3> QED
        BY <1>2, <1>7, <2>1, <3>1
    <2>3. /\ steps' = consumed' + Len(queue') + InHand'
          /\ Len(queue') + InHand' <= QueueDepth
      BY <1>1, <1>2, <1>3, <1>5, <1>7, <2>1, QueueDepthAssumption
    <2> QED
      BY <2>2, <2>3 DEF QueueInOrder
  <1>8. CASE queue[1].kind = "done"
    <2>1. /\ consumed' = consumed + 1 /\ raised' = "none"
          /\ UNCHANGED <<pending, resolved, rows>>
      BY <1>1, <1>3, <1>6, <1>8 DEF GetOutput
    <2>2. resolved = EmptySlot
      BY <1>2, <1>8, OutputKinds DEF Running, SlotOldest
    <2>3. PendingQueued'
      <3>1. rows' = pending'.reqs
        BY <1>2, <2>1 DEF Running, PendingQueued
      <3>2. ASSUME pending # NoPending
            PROVE  \E i \in 1..Len(queue') : queue'[i] = Async(pending.step, pendingSerial)
        <4>1. PICK k \in 1..Len(queue) : queue[k] = Async(pending.step, pendingSerial)
          BY <1>2, <3>2 DEF Running, PendingQueued
        <4>2. k # 1
          BY <1>2, <1>8, <4>1, OutputKinds
        <4>3. k - 1 \in 1..Len(queue') /\ queue'[k - 1] = queue[k]
          BY <1>2, <1>3, <4>1, <4>2
        <4> QED
          BY <4>1, <4>3
      <3> QED
        BY <1>1, <2>1, <3>1, <3>2 DEF PendingQueued, NoPending
    <2>4. SlotOldest'
      BY <2>1, <2>2 DEF SlotOldest, EmptySlot
    <2>5. AsyncAnswerable'
      <3>1. \A i \in 1..Len(queue') : i + 1 \in 1..Len(queue)
        BY <1>2, <1>3
      <3> QED
        BY <1>1, <1>2, <1>3, <2>1, <2>2, <3>1
        DEF AsyncAnswerable, Running, EmptySlot, NoPending, Async
    <2>6. TypeOK'
      BY <1>1, <1>2, <1>3, <2>1 DEF TypeOK
    <2> QED
      BY <1>7, <2>1, <2>3, <2>4, <2>5, <2>6 DEF IInv, NoDesync, Desyncs, Running
  <1>9. CASE queue[1].kind = "failed"
    <2>1. raised' = "sample failure" /\ UNCHANGED <<pending, resolved, rows, consumed>>
      BY <1>1, <1>3, <1>9 DEF GetOutput, Raise
    <2>2. resolved = EmptySlot
      BY <1>2, <1>9, OutputKinds DEF Running, SlotOldest
    <2>3. TypeOK'
      BY <1>1, <1>2, <1>3, <2>1 DEF TypeOK
    <2> QED
      BY <2>1, <2>2, <2>3 DEF IInv, NoDesync, Desyncs, EmptySlot
  <1>10. CASE queue[1].kind = "async"
    <2>1. Resolve(queue[1].serial)
      BY <1>1, <1>3, <1>10 DEF GetOutput
    <2>2. /\ queue[1].serial \in 1..pendingSerial
          /\ \/ pending # NoPending /\ queue[1] = Async(pending.step, pendingSerial)
             \/ resolved # EmptySlot /\ queue[1] = Async(resolved.step, resolved.serial)
      BY <1>2, <1>3, <1>10 DEF Running, AsyncAnswerable
    <2>3. CASE resolved # EmptySlot
      <3>1. queue[1] = Async(resolved.step, resolved.serial)
        BY <1>2, <2>3 DEF Running, SlotOldest
      <3>2. queue[1].serial = resolved.serial /\ queue[1].step = resolved.step
        BY <1>2, <3>1, OutputKinds
      <3>3. /\ consumed' = consumed + 1 /\ resolved' = EmptySlot /\ raised' = "none"
            /\ UNCHANGED <<pending, rows>>
        BY <1>1, <1>6, <2>1, <2>3, <3>2 DEF Resolve
      <3>4. PendingQueued'
        <4>1. rows' = pending'.reqs
          BY <1>2, <3>3 DEF Running, PendingQueued
        <4>2. ASSUME pending # NoPending
              PROVE  \E i \in 1..Len(queue') : queue'[i] = Async(pending.step, pendingSerial)
          <5>1. PICK k \in 1..Len(queue) : queue[k] = Async(pending.step, pendingSerial)
            BY <1>2, <4>2 DEF Running, PendingQueued
          <5>2. resolved.serial # pendingSerial
            BY <1>2, <2>3, <4>2 DEF Running, SlotOldest
          <5>3. k # 1
            BY <1>2, <3>2, <5>1, <5>2, OutputKinds
          <5>4. k - 1 \in 1..Len(queue') /\ queue'[k - 1] = queue[k]
            BY <1>2, <1>3, <5>1, <5>3
          <5> QED
            BY <5>1, <5>4
        <4> QED
          BY <1>1, <3>3, <4>1, <4>2 DEF PendingQueued, NoPending
      <3>5. SlotOldest'
        BY <3>3 DEF SlotOldest, EmptySlot
      <3>6. AsyncAnswerable'
        <4>1. \A i \in 1..Len(queue') : i + 1 \in 1..Len(queue) /\ i + 1 # 1
          BY <1>2, <1>3
        <4> QED
          BY <1>1, <1>2, <1>3, <3>3, <4>1
          DEF AsyncAnswerable, Running, EmptySlot, NoPending, Async
      <3>7. TypeOK'
        BY <1>1, <1>2, <1>3, <3>3 DEF TypeOK, EmptySlot
      <3> QED
        BY <1>7, <3>3, <3>4, <3>5, <3>6, <3>7 DEF IInv, NoDesync, Desyncs, Running
    <2>4. CASE resolved = EmptySlot
      <3>1. pending # NoPending /\ queue[1] = Async(pending.step, pendingSerial)
        BY <2>2, <2>4
      <3>2. queue[1].serial = pendingSerial /\ queue[1].step = pending.step
        BY <1>2, <3>1, OutputKinds
      <3>3. /\ consumed' = consumed + 1 /\ resolved' = EmptySlot /\ raised' = "none"
            /\ pending' = NoPending /\ rows' = {}
        BY <1>1, <1>6, <2>1, <2>4, <3>1, <3>2 DEF Resolve
      <3>4. PendingQueued' /\ SlotOldest'
        BY <3>3 DEF PendingQueued, SlotOldest, NoPending, EmptySlot
      <3>5. ASSUME NEW i \in 1..Len(queue'), queue'[i].kind = "async" PROVE FALSE
        <4>1. i + 1 \in 1..Len(queue) /\ queue'[i] = queue[i + 1]
          BY <1>2, <1>3
        <4>2. queue[i + 1] = Async(pending.step, pendingSerial)
          BY <1>2, <2>4, <3>5, <4>1 DEF Running, AsyncAnswerable
        <4>3. queue[i + 1].step = consumed + (i + 1)
          BY <1>2, <4>1 DEF Running, QueueInOrder
        <4>4. queue[i + 1].step = queue[1].step
          BY <3>1, <4>2
        <4> QED
          BY <1>2, <1>6, <4>3, <4>4
      <3>6. AsyncAnswerable'
        BY <3>5 DEF AsyncAnswerable
      <3>7. TypeOK'
        BY <1>1, <1>2, <1>3, <3>3 DEF TypeOK, EmptySlot, NoPending
      <3> QED
        BY <1>7, <3>3, <3>4, <3>6, <3>7 DEF IInv, NoDesync, Desyncs, Running
    <2> QED
      BY <2>3, <2>4
  <1> QED
    BY <1>4, <1>8, <1>9, <1>10

-----------------------------------------------------------------------------
(* The results. *)

(* IInv is an invariant of the pipeline under the engine's calls, for any  *)
(* set of requests and any queue of at most two unread outputs.            *)
THEOREM Invariance == Spec => []IInv
  <1>1. Init => IInv
    BY InitIInv
  <1>2. IInv /\ [Next]_vars => IInv'
    <2> SUFFICES ASSUME IInv, [Next]_vars PROVE IInv'
      OBVIOUS
    <2>1. ASSUME NEW shape \in Shape, ExecuteModel(shape) PROVE IInv'
      BY <2>1, ExecuteModelIInv
    <2>2. CASE ExecuteRefused
      BY <2>2, ExecuteRefusedIInv
    <2>3. CASE SampleDeferred
      BY <2>3, SampleDeferredIInv
    <2>4. CASE SampleSynchronous
      BY <2>4, SampleSynchronousIInv
    <2>5. CASE SampleFails
      BY <2>5, SampleFailsIInv
    <2>6. CASE GetOutput
      BY <2>6, GetOutputIInv
    <2>7. CASE UNCHANGED vars
      BY <2>7 DEF IInv, TypeOK, NoDesync, Running, QueueInOrder, PendingQueued,
         SlotOldest, AsyncAnswerable, InHand, vars, pipelineVars, engineVars
    <2> QED
      BY <2>1, <2>2, <2>3, <2>4, <2>5, <2>6, <2>7 DEF Next
  <1> QED
    BY <1>1, <1>2, PTL DEF Spec

(* Every variable keeps its type. *)
THEOREM TypeCorrect == Spec => []TypeOK
  <1>1. IInv => TypeOK
    BY DEF IInv
  <1> QED
    BY <1>1, Invariance, PTL

(* No RuntimeError of submit, assemble_decode_input_ids or resolve is      *)
(* reachable with an engine that leaves at most two outputs unread.        *)
THEOREM NeverDesyncs == Spec => []NoDesync
  <1>1. IInv => NoDesync
    BY DEF IInv
  <1> QED
    BY <1>1, Invariance, PTL

(* The one-slot cache only ever holds the oldest unread output, and is     *)
(* empty when an eligible step is about to be submitted.                   *)
THEOREM SlotIsOldest == Spec => []SlotHoldsOldest
  <1>1. ASSUME IInv PROVE SlotHoldsOldest
    <2> SUFFICES ASSUME resolved # EmptySlot
                 PROVE  /\ queue # <<>>
                        /\ queue[1] = [step |-> resolved.step, kind |-> "async",
                                       serial |-> resolved.serial]
                        /\ ~(phase = "sample" /\ stepEligible)
      BY DEF SlotHoldsOldest
    <2>1. raised = "none"
      BY <1>1 DEF IInv, TypeOK, NoDesync
    <2>2. /\ Len(queue) + InHand = 2 /\ Len(queue) \in Nat /\ InHand \in {0, 1}
          /\ queue[1] = Async(resolved.step, resolved.serial)
          /\ ~(phase = "sample" /\ stepEligible)
      BY <1>1, <2>1, RunningFacts DEF Running, SlotOldest
    <2>3. queue # <<>>
      BY <2>2
    <2> QED
      BY <2>2, <2>3 DEF Async
  <1> QED
    BY <1>1, Invariance, PTL

(* The engine reads the output of every step once, in the order the steps  *)
(* were issued.                                                            *)
THEOREM ReadInOrder == Spec => OutputsInOrder
  <1>1. IInv /\ IInv' /\ [Next]_vars => (consumed' # consumed => consumed' = consumed + 1)
    <2> SUFFICES ASSUME IInv, IInv', [Next]_vars, consumed' # consumed
                 PROVE  consumed' = consumed + 1
      OBVIOUS
    <2>1. GetOutput /\ raised = "none"
      BY DEF Next, ExecuteModel, ExecuteRefused, SampleDeferred, SampleSynchronous,
         SampleFails, GetOutput, vars, engineVars
    <2>2. raised' = "none"
      BY <2>1 DEF GetOutput, Resolve, Raise, IInv, NoDesync, Desyncs
    <2>3. Running /\ Running' /\ steps' = steps /\ InHand' = InHand
      BY <2>1, <2>2 DEF IInv, GetOutput, InHand
    <2>4. Len(queue') = Len(queue) - 1 /\ Len(queue) \in Nat
      BY <2>1, RunningFacts, TailOutput DEF GetOutput
    <2>5. steps \in Nat /\ consumed \in Nat /\ consumed' \in Nat /\ InHand \in {0, 1}
      BY <2>1, RunningFacts DEF IInv, TypeOK
    <2>6. /\ steps = consumed + Len(queue) + InHand
          /\ steps' = consumed' + Len(queue') + InHand'
      BY <2>3 DEF Running, QueueInOrder
    <2> QED
      BY <2>3, <2>4, <2>5, <2>6
  <1>2. [Next]_vars /\ IInv /\ IInv' => [consumed' # consumed => consumed' = consumed + 1]_vars
    BY <1>1
  <1> QED
    BY <1>2, Invariance, PTL DEF Spec, OutputsInOrder

-----------------------------------------------------------------------------

(* The gate's facts are consistent: decode requests are scheduled, and a   *)
(* step with work that nothing blocks decodes.                             *)
LEMMA GateShapeAllowed ==
    ASSUME NEW p, p \in Plans
    PROVE  GateShape(p) \in Shape
  <1>1. p.sel \in SUBSET Req
    <2>1. PICK pre \in SUBSET RunningReqs, drop \in BOOLEAN : p \in PlansWith(pre, drop)
      BY DEF Plans
    <2> QED
      BY <2>1 DEF PlansWith
  <1>2. Decodes(p, states) \in SUBSET Req /\ Decodes(p, states) \subseteq p.sel
    BY <1>1 DEF Decodes, Cached
  <1>3. ASSUME GateShape(p).forward, GateShape(p).clear
        PROVE  GateShape(p).decode # {}
    <2>1. p.sel # {} /\ New(p) = {}
      BY <1>3 DEF GateShape
    <2>2. \A r \in Cached(p) : states[r].gen # 0
      BY <1>3 DEF GateShape
    <2>3. Cached(p) # {}
      BY <2>1 DEF Cached
    <2> QED
      BY <2>2, <2>3 DEF GateShape, Decodes
  <1>4. GateShape(p).clear \in BOOLEAN /\ GateShape(p).forward \in BOOLEAN
    BY Zenon DEF GateShape
  <1>5. GateShape(p).decode # {} => GateShape(p).forward
    BY <1>2 DEF GateShape
  <1>6. GateShape(p) \in [clear : BOOLEAN, decode : SUBSET Req, forward : BOOLEAN]
    BY <1>2, <1>4 DEF GateShape
  <1> QED
    BY <1>3, <1>5, <1>6 DEF Shape

(* Every step of the composed system is a step of the pipeline or leaves   *)
(* the pipeline and the engine's queue alone.                              *)
LEMMA StepSimulation == [RunnerNext]_allVars => [Next]_vars
  <1> SUFFICES ASSUME [RunnerNext]_allVars PROVE [Next]_vars
    OBVIOUS
  <1>1. CASE \E r \in Req : Arrive(r) \/ Abort(r)
    BY <1>1 DEF Arrive, Abort
  <1>2. CASE ExecuteStep
    <2>1. PICK p \in Plans : ExecuteModel(GateShape(p))
      BY <1>2 DEF ExecuteStep, ExecutePlan
    <2>2. GateShape(p) \in Shape
      BY <2>1, GateShapeAllowed
    <2> QED
      BY <2>1, <2>2 DEF Next
  <1>3. CASE RefuseStep
    BY <1>3 DEF RefuseStep, Next
  <1>4. CASE DeferSample
    BY <1>4 DEF DeferSample, Next
  <1>5. CASE SampleStep
    BY <1>5 DEF SampleStep, Next
  <1>6. CASE FailSample
    BY <1>6 DEF FailSample, Next
  <1>7. CASE \E complete \in SUBSET Req : ReadOutput(complete)
    BY <1>7 DEF ReadOutput, Next
  <1>8. CASE UNCHANGED allVars
    BY <1>8 DEF allVars
  <1> QED
    BY <1>1, <1>2, <1>3, <1>4, <1>5, <1>6, <1>7, <1>8 DEF RunnerNext

(* The composed system implements DecodePipeline: execute_model never      *)
(* hands the pipeline a step its gate could not have produced.             *)
THEOREM RunnerIsPipeline == RunnerSpec => Spec
  <1>1. RunnerInit => Init
    BY DEF RunnerInit
  <1> QED
    BY <1>1, StepSimulation, PTL DEF RunnerSpec, Spec

(* So, for any number of requests, any prompt and output lengths, any      *)
(* preemptions and aborts, the runner never meets a pipeline desync.       *)
THEOREM RunnerNeverDesyncs == RunnerSpec => []NoDesync
  BY RunnerIsPipeline, NeverDesyncs

(* And the engine still reads every step's output once and in order.       *)
THEOREM RunnerReadInOrder == RunnerSpec => OutputsInOrder
  BY RunnerIsPipeline, ReadInOrder

-----------------------------------------------------------------------------
(* Domains of the runner and scheduler records.                            *)
Modes == {"intermediate", "new_final", "cached_final"}
RequestState == [tokens : Seq(Int), gen : Nat]
PrefillRows == [req : Req, target : Int, mode : Modes, value : Int]
EntryRows == [req : Req, index : Int, value : Int, current : BOOLEAN]
Outputs == UNION {[S -> Int] : S \in SUBSET Req}

(* The variables of the runner and of the scheduler are well-typed.        *)
RunnerTypeOK ==
    /\ states \in [Req -> RequestState]
    /\ seqLen \in [Req -> Int]
    /\ awaiting \in SUBSET Req
    /\ exec.decode \in Seq([req : Req, value : Int])
    /\ exec.prefill \in SUBSET PrefillRows
    /\ entries \in Seq(EntryRows)
    /\ kv \in [Req -> Int]
    /\ batch \in Seq(Outputs)
    /\ status \in [Req -> {"absent", "waiting", "running", "preempted"}]
    /\ computed \in [Req -> Nat]
    /\ delivered \in [Req -> Seq(Int)]
    /\ accept \in Seq(SUBSET Req)
    /\ finishedIds \in SUBSET Req

(* The requests of the pending step, of a forward, and the ones that ended *)
(* but were not reported to the runner yet.                                *)
EntryReqs == {entries[i].req : i \in DOMAIN entries}
PrefillReqs == {row.req : row \in exec.prefill}
ExecReqs == DecodeReqs \cup PrefillReqs
Gone(r) == status[r] = "absent" /\ r \in finishedIds

(* Outputs, batches and acceptances of the unread steps line up.           *)
Aligned ==
    /\ Len(batch) = Len(queue) + InHand
    /\ Len(accept) = Len(queue) + InHand
    /\ \A k \in 1..Len(batch) : accept[k] \subseteq DOMAIN batch[k]
    /\ pending # NoPending =>
         \A k \in 1..Len(queue) :
            k = pending.step - consumed => DOMAIN batch[k] = pending.reqs
    /\ phase = "sample" => DOMAIN batch[Len(batch)] = ExecReqs

(* Who is known to whom: the scheduler's statuses, the finished ids it has *)
(* still to report and the runner's readmission ledger.                    *)
Ledger ==
    /\ \A r \in Req : status[r] \in {"running", "preempted"} => r \notin finishedIds
    /\ \A r \in Req : status[r] = "preempted" => r \in awaiting /\ states[r] # NoState
    /\ \A r \in awaiting : status[r] = "preempted" \/ r \in finishedIds
    /\ \A r \in Req : status[r] = "waiting" => delivered[r] = <<>> /\ ~Unread(r)
    /\ \A k \in 1..Len(accept) : \A r \in accept[k] : status[r] \in {"running", "preempted"}
    /\ NoLeak

(* Every token the runner keeps is the true one or a placeholder, and      *)
(* every token the engine read is the true one.                            *)
TokensTrue ==
    /\ \A r \in Req :
        /\ \A i \in 1..Len(states[r].tokens) : states[r].tokens[i] \in {i, Hole}
        /\ states[r] # NoState => Len(states[r].tokens) >= PromptLen
    /\ \A r \in Req : \A i \in 1..Len(delivered[r]) : delivered[r][i] = PromptLen + i

(* A row of the pending step carries the token that follows its request's, *)
(* and belongs to a request that was not evicted, or is not current.       *)
EntryOwned(row) ==
    /\ row.value = row.index
    /\ row.current => /\ row.index = Len(states[row.req].tokens)
                      /\ row.index > 0
                      /\ status[row.req] = "running" \/ Gone(row.req)
    /\ ~row.current => status[row.req] = "absent"

EntriesOwned ==
    /\ EntryReqs = pending.reqs
    /\ \A i, j \in 1..Len(entries) : entries[i].req = entries[j].req => i = j
    /\ \A i \in 1..Len(entries) : EntryOwned(entries[i])
    /\ phase = "sample" /\ ~stepEligible => entries = <<>>

(* What the engine will read for a request of the k-th unread step, and    *)
(* what it has to be.                                                      *)
OutValue(k, r) ==
    IF pending # NoPending /\ k = pending.step - consumed
    THEN entries[RowOf(r)].value ELSE batch[k][r]
Due(k, r) == Known(r) + (IF k = 2 /\ r \in accept[1] THEN 2 ELSE 1)

(* The output row of every unread step holds, for each request the engine  *)
(* still waits for, the token it has to be: get_output delivers it.        *)
OutputsDue ==
    \A k \in 1..Len(queue) : queue[k].kind # "failed" =>
        \A r \in accept[k] : OutValue(k, r) = Due(k, r)

(* A running request outside the step being executed.                      *)
Settled(r) ==
    /\ Len(states[r].tokens) = Total(r)
    /\ seqLen[r] = computed[r]
    /\ kv[r] = computed[r]
    /\ states[r].gen # 0 => computed[r] = Total(r) - 1

Idle(r) == \/ phase = "execute" /\ ~sampleFailure
           \/ phase = "sample" /\ r \notin ExecReqs

(* Between steps every running request is settled.                         *)
RunnersSettled == \A r \in Req : status[r] = "running" /\ Idle(r) => Settled(r)

(* A decode row of the step being executed, and what it will extend.       *)
DecodeRowDue(row) ==
    LET r == row.req
        n == Len(states[r].tokens)
    IN  /\ row.value = n + 1
        /\ n >= PromptLen
        /\ status[r] = "running" \/ Gone(r)
        /\ status[r] = "running" =>
             /\ Position(seqLen, states, r) + 1 = n
             /\ computed[r] = n
             /\ kv[r] = n
             /\ Total(r) = n + 1

(* A prefill row of the step being executed, and the state it will extend  *)
(* or create.                                                              *)
PrefillRowDue(row) ==
    LET r == row.req
        st == states[r]
    IN  /\ row.value = row.target + 1
        /\ row.target > 0
        /\ row.mode = "intermediate" => st # NoState /\ st.gen = 0
        /\ row.mode = "new_final" => st = NoState /\ row.target = PromptLen
        /\ row.mode = "cached_final" => st # NoState /\ Len(st.tokens) = row.target
        /\ status[r] = "running" \/ Gone(r)
        /\ status[r] = "running" =>
             /\ computed[r] = row.target
             /\ kv[r] = row.target
             /\ IF row.mode = "intermediate"
                THEN Len(st.tokens) = Total(r) /\ r \notin accept[Len(accept)]
                ELSE Total(r) = row.target + 1

(* The forward that execute_model stored for sample_tokens.                *)
ExecDue ==
    /\ phase = "execute" => exec = NoExec
    /\ phase = "sample" /\ stepEligible => exec.prefill = {} /\ current = DecodeReqs
    /\ \A i \in 1..Len(exec.decode) : DecodeRowDue(exec.decode[i])
    /\ \A i, j \in 1..Len(exec.decode) :
         exec.decode[i].req = exec.decode[j].req => i = j
    /\ \A row \in exec.prefill : PrefillRowDue(row) /\ row.req \notin DecodeReqs
    /\ \A p, q \in exec.prefill : p.req = q.req => p = q

(* What holds while the engine runs.                                       *)
Agreement == Aligned /\ OutputsDue /\ RunnersSettled /\ ExecDue
             /\ (sampleFailure => phase = "execute")

(* The inductive invariant of the runner with its scheduler.               *)
RInv ==
    /\ RunnerTypeOK /\ Ledger /\ TokensTrue /\ EntriesOwned
    /\ PlaceholderOwned /\ ForwardSound
    /\ fault = "none"
    /\ raised = "none" => Agreement

-----------------------------------------------------------------------------
(* The number of unread steps that still owe a request a token.            *)
In(a, k, r) == IF k \in DOMAIN a /\ r \in a[k] THEN 1 ELSE 0

(* Of at most two unread steps, those that owe r a token.                  *)
LEMMA CountTwo ==
    ASSUME NEW a, NEW n \in Nat, n <= 2, DOMAIN a = 1..n, NEW r
    PROVE  Cardinality({i \in DOMAIN a : r \in a[i]}) = In(a, 1, r) + In(a, 2, r)
  <1> DEFINE S == {i \in DOMAIN a : r \in a[i]}
  <1>0. /\ S \subseteq {1, 2}
        /\ In(a, 1, r) = IF 1 \in S THEN 1 ELSE 0
        /\ In(a, 2, r) = IF 2 \in S THEN 1 ELSE 0
    BY DEF In
  <1> HIDE DEF S
  <1>1. Cardinality({1}) = 1 /\ Cardinality({2}) = 1 /\ IsFiniteSet({1})
    BY FS_Singleton
  <1>2. Cardinality({1, 2}) = 2
    <2>1. {1, 2} = {1} \cup {2} /\ 2 \notin {1}
      OBVIOUS
    <2>2. Cardinality({1} \cup {2}) = Cardinality({1}) + 1
      BY <1>1, <2>1, FS_AddElement, Zenon
    <2>3. Cardinality({1, 2}) = Cardinality({1}) + 1
      BY ONLY <2>1, <2>2, Zenon
    <2> QED
      BY ONLY <1>1, <2>3
  <1>3. Cardinality({}) = 0
    BY FS_EmptySet
  <1>4. S \in {{}, {1}, {2}, {1, 2}}
    BY <1>0
  <1>5. Cardinality(S) = In(a, 1, r) + In(a, 2, r)
    <2>1. CASE S = {}
      BY <1>0, <1>3, <2>1
    <2>2. CASE S = {1}
      BY <1>0, <1>1, <2>2
    <2>3. CASE S = {2}
      BY <1>0, <1>1, <2>3
    <2>4. CASE S = {1, 2}
      BY <1>0, <1>2, <2>4
    <2> QED
      BY <1>4, <2>1, <2>2, <2>3, <2>4
  <1> QED
    BY <1>5 DEF S

(* Facts every action that starts from a running engine may use.           *)
LEMMA AgreementFacts ==
    ASSUME IInv, RInv, raised = "none"
    PROVE  /\ RunnerTypeOK /\ Aligned /\ OutputsDue /\ RunnersSettled /\ ExecDue
           /\ Len(queue) \in Nat /\ Len(batch) \in Nat /\ Len(accept) \in Nat
           /\ InHand \in {0, 1} /\ Len(accept) <= 2
           /\ Len(batch) = Len(queue) + InHand
           /\ Len(accept) = Len(queue) + InHand
           /\ DOMAIN accept = 1..Len(accept)
           /\ DOMAIN batch = 1..Len(batch)
           /\ DOMAIN entries = 1..Len(entries)
           /\ DOMAIN exec.decode = 1..Len(exec.decode)
           /\ pending # NoPending =>
                /\ pending.step - consumed \in 1..Len(queue)
                /\ queue[pending.step - consumed].kind = "async"
                /\ DOMAIN batch[pending.step - consumed] = pending.reqs
           /\ consumed \in Nat /\ pending.step \in Nat /\ steps \in Nat
           /\ steps = consumed + Len(queue) + InHand
           /\ QueueDepth \in 1..2
  <1>1. /\ TypeOK /\ Running /\ Len(queue) \in Nat /\ Len(queue) + InHand <= 2
        /\ InHand \in {0, 1} /\ consumed \in Nat /\ pending.step \in Nat /\ steps \in Nat
    BY RunningFacts
  <1>2. RunnerTypeOK /\ Aligned /\ OutputsDue /\ RunnersSettled /\ ExecDue
    BY DEF RInv, Agreement
  <1>3. /\ Len(batch) \in Nat /\ Len(accept) \in Nat
        /\ DOMAIN accept = 1..Len(accept)
        /\ DOMAIN batch = 1..Len(batch)
        /\ DOMAIN entries = 1..Len(entries)
        /\ DOMAIN exec.decode = 1..Len(exec.decode)
    BY <1>2 DEF RunnerTypeOK
  <1>4. /\ Len(batch) = Len(queue) + InHand
        /\ Len(accept) = Len(queue) + InHand
    BY <1>2 DEF Aligned
  <1>5. ASSUME pending # NoPending
        PROVE  /\ pending.step - consumed \in 1..Len(queue)
               /\ queue[pending.step - consumed].kind = "async"
               /\ DOMAIN batch[pending.step - consumed] = pending.reqs
    <2>1. PICK i \in 1..Len(queue) : queue[i] = Async(pending.step, pendingSerial)
      BY <1>1, <1>5 DEF Running, PendingQueued
    <2>2. queue[i].step = consumed + i
      BY <1>1 DEF Running, QueueInOrder
    <2>3. queue[i].step = pending.step /\ queue[i].kind = "async"
      BY <2>1 DEF Async
    <2>4. i = pending.step - consumed
      BY <1>1, <2>2, <2>3
    <2> QED
      BY <1>2, <1>5, <2>3, <2>4 DEF Aligned
  <1>6. steps = consumed + Len(queue) + InHand
    BY <1>1 DEF Running, QueueInOrder
  <1> QED
    BY <1>1, <1>2, <1>3, <1>4, <1>5, <1>6, QueueDepthAssumption

(* What a request's length is for the scheduler.                           *)
LEMMA TotalFacts ==
    ASSUME IInv, RInv, raised = "none", NEW r \in Req
    PROVE  /\ Known(r) \in Nat /\ Known(r) >= PromptLen /\ Inflight(r) \in Nat
           /\ Total(r) \in Nat
           /\ Inflight(r) = In(accept, 1, r) + In(accept, 2, r)
           /\ Total(r) = Known(r) + In(accept, 1, r) + In(accept, 2, r)
           /\ Known(r) = PromptLen + Len(delivered[r])
  <1>1. delivered[r] \in Seq(Int) /\ PromptLen \in Nat
    BY LenAssumption DEF RInv, RunnerTypeOK
  <1>2. Known(r) \in Nat /\ Known(r) >= PromptLen
    BY <1>1 DEF Known
  <1>3. Inflight(r) = In(accept, 1, r) + In(accept, 2, r)
    BY AgreementFacts, CountTwo DEF Inflight
  <1>4. In(accept, 1, r) \in Nat /\ In(accept, 2, r) \in Nat
    BY DEF In
  <1> QED
    BY <1>2, <1>3, <1>4 DEF Total, Known

(* The tokens the scheduler knows are the true ones.                       *)
LEMMA AllTokensTrue ==
    ASSUME NEW r \in Req, delivered[r] \in Seq(Int),
           \A i \in 1..Len(delivered[r]) : delivered[r][i] = PromptLen + i
    PROVE  /\ AllTokens(r) \in Seq(Int)
           /\ Len(AllTokens(r)) = Known(r)
           /\ \A i \in 1..Known(r) : AllTokens(r)[i] = i
  <1>1. PromptLen \in Nat
    BY LenAssumption
  <1>2. Tokens(PromptLen) \in Seq(Int) /\ Len(Tokens(PromptLen)) = PromptLen
        /\ \A i \in 1..PromptLen : Tokens(PromptLen)[i] = i
    BY <1>1 DEF Tokens
  <1> DEFINE s == Tokens(PromptLen)
             t == delivered[r]
  <1>3. /\ s \o t \in Seq(Int)
        /\ Len(s \o t) = Len(s) + Len(t)
        /\ \A i \in 1..(Len(s) + Len(t)) :
             (s \o t)[i] = IF i <= Len(s) THEN s[i] ELSE t[i - Len(s)]
    <2> HIDE DEF s, t
    <2>1. s \in Seq(Int) /\ t \in Seq(Int)
      BY <1>2 DEF s, t
    <2> QED
      BY <2>1
  <1>4. AllTokens(r) = s \o t /\ Known(r) = Len(s) + Len(t) /\ Len(s) = PromptLen
    BY <1>2 DEF AllTokens, Known
  <1>5. ASSUME NEW i \in 1..Known(r) PROVE AllTokens(r)[i] = i
    <2>1. CASE i <= PromptLen
      BY <1>1, <1>2, <1>3, <1>4, <2>1
    <2>2. CASE i > PromptLen
      <3> HIDE DEF s, t
      <3>1. i - PromptLen \in 1..Len(t) /\ i \in 1..(Len(s) + Len(t)) /\ Len(s) = PromptLen
        <4>1. Len(t) \in Nat
          BY DEF t
        <4> QED BY <1>1, <1>4, <2>2, <4>1
      <3>2. (s \o t)[i] = t[i - PromptLen]
        BY <1>1, <1>3, <2>2, <3>1
      <3>3. t[i - PromptLen] = PromptLen + (i - PromptLen)
        BY <3>1 DEF t
      <3>4. AllTokens(r)[i] = PromptLen + (i - PromptLen)
        BY <1>4, <3>2, <3>3
      <3> QED
        BY <1>1, <3>4
    <2> QED
      BY <1>1, <2>1, <2>2
  <1> QED
    BY <1>3, <1>4, <1>5

(* A new runner with a scheduler that admitted nothing satisfies RInv.     *)
LEMMA InitRInv == RunnerInit => RInv
  <1> SUFFICES ASSUME RunnerInit PROVE RInv
    OBVIOUS
  <1>0. /\ raised = "none" /\ queue = <<>> /\ phase = "execute" /\ pending = NoPending
        /\ sampleFailure = FALSE /\ rows = {}
        /\ states = [r \in Req |-> NoState]
        /\ exec = NoExec /\ entries = <<>> /\ batch = <<>> /\ accept = <<>>
        /\ status = [r \in Req |-> "absent"]
        /\ delivered = [r \in Req |-> <<>>]
    BY DEF RunnerInit, Init
  <1>1. NoState \in RequestState /\ NoState.tokens = <<>>
    BY DEF NoState, RequestState
  <1>2. exec.decode = <<>> /\ exec.prefill = {}
    BY <1>0 DEF NoExec
  <1>3. RunnerTypeOK
    BY <1>0, <1>1, <1>2 DEF RunnerInit, RunnerTypeOK, Absent
  <1>4. Ledger
    BY <1>0 DEF RunnerInit, Ledger, NoLeak
  <1>5. TokensTrue
    BY <1>0, <1>1 DEF TokensTrue
  <1>6. EntriesOwned
    BY <1>0 DEF EntriesOwned, EntryReqs, NoPending
  <1>7. PlaceholderOwned
    BY <1>0, <1>1 DEF PlaceholderOwned
  <1>8. ForwardSound /\ ExecDue
    BY <1>0, <1>2 DEF ForwardSound, ExecDue
  <1>9. Aligned /\ OutputsDue
    BY <1>0 DEF Aligned, OutputsDue, InHand
  <1>10. RunnersSettled
    BY <1>0 DEF RunnersSettled
  <1> QED
    BY <1>0, <1>3, <1>4, <1>5, <1>6, <1>7, <1>8, <1>9, <1>10
    DEF RInv, Agreement, RunnerInit

-----------------------------------------------------------------------------
(* A running or preempted request keeps what the scheduler owes it when    *)
(* neither its tokens nor its place among the unread steps changes.        *)
LEMMA TotalUnchanged ==
    ASSUME IInv, RInv, raised = "none", NEW r \in Req,
           delivered'[r] = delivered[r],
           DOMAIN accept' = DOMAIN accept,
           \A k \in DOMAIN accept : r \in accept'[k] <=> r \in accept[k]
    PROVE  Known(r)' = Known(r) /\ Total(r)' = Total(r) /\ Inflight(r)' = Inflight(r)
  <1>1. Known(r)' = Known(r)
    BY DEF Known
  <1>2. {i \in DOMAIN accept' : r \in accept'[i]} = {i \in DOMAIN accept : r \in accept[i]}
    OBVIOUS
  <1>3. Inflight(r)' = Inflight(r)
    BY <1>2 DEF Inflight
  <1> QED
    BY <1>1, <1>3 DEF Total

(* A request of a row of the pending or of the executed step is among the  *)
(* requests of an unread step.                                             *)
LEMMA RowsUnread ==
    ASSUME IInv, RInv, raised = "none"
    PROVE  /\ \A r \in EntryReqs : Unread(r)
           /\ \A i \in 1..Len(entries) : entries[i].req \in EntryReqs
           /\ phase = "sample" => \A r \in ExecReqs : Unread(r)
           /\ \A i \in 1..Len(exec.decode) : exec.decode[i].req \in ExecReqs
           /\ \A row \in exec.prefill : row.req \in ExecReqs
           /\ phase = "execute" => exec.decode = <<>> /\ exec.prefill = {}
           /\ EntryReqs \subseteq Req /\ ExecReqs \subseteq Req
           /\ \A i \in 1..Len(entries) : entries[i] \in EntryRows
           /\ \A i \in 1..Len(exec.decode) : exec.decode[i] \in [req : Req, value : Int]
  <1>1. ASSUME NEW r \in EntryReqs PROVE Unread(r)
    <2>1. r \in pending.reqs
      BY DEF RInv, EntriesOwned
    <2>2. pending # NoPending
      BY <2>1 DEF NoPending
    <2>3. pending.step - consumed \in 1..Len(queue)
          /\ DOMAIN batch[pending.step - consumed] = pending.reqs
      BY <2>2, AgreementFacts
    <2>4. pending.step - consumed \in DOMAIN batch
      BY <2>3, AgreementFacts
    <2> QED
      BY <2>1, <2>3, <2>4 DEF Unread
  <1>2. \A i \in 1..Len(entries) : entries[i].req \in EntryReqs
    BY AgreementFacts DEF EntryReqs
  <1>3. ASSUME phase = "sample", NEW r \in ExecReqs PROVE Unread(r)
    <2>1. DOMAIN batch[Len(batch)] = ExecReqs
      BY <1>3, AgreementFacts DEF Aligned
    <2>2. Len(batch) \in DOMAIN batch
      BY <1>3, AgreementFacts DEF InHand
    <2> QED
      BY <1>3, <2>1, <2>2 DEF Unread
  <1>4. /\ \A i \in 1..Len(exec.decode) : exec.decode[i].req \in ExecReqs
        /\ \A row \in exec.prefill : row.req \in ExecReqs
    BY AgreementFacts DEF ExecReqs, DecodeReqs, PrefillReqs
  <1>5. phase = "execute" => exec.decode = <<>> /\ exec.prefill = {}
    BY AgreementFacts DEF ExecDue, NoExec
  <1>6. /\ \A i \in 1..Len(entries) : entries[i] \in EntryRows
        /\ \A i \in 1..Len(exec.decode) : exec.decode[i] \in [req : Req, value : Int]
        /\ exec.prefill \subseteq PrefillRows
    <2>1. /\ entries \in Seq(EntryRows) /\ exec.prefill \subseteq PrefillRows
          /\ exec.decode \in Seq([req : Req, value : Int])
      BY DEF RInv, RunnerTypeOK
    <2> DEFINE D == [req : Req, value : Int]
    <2>2. exec.decode \in Seq(D) => \A i \in 1..Len(exec.decode) : exec.decode[i] \in D
      <3> HIDE DEF D
      <3> QED OBVIOUS
    <2> QED
      BY <2>1, <2>2
  <1>7. EntryReqs \subseteq Req
    BY <1>6, AgreementFacts DEF EntryReqs, EntryRows
  <1>8. ExecReqs \subseteq Req
    <2>1. DecodeReqs \subseteq Req
      BY <1>6, AgreementFacts DEF DecodeReqs
    <2>2. PrefillReqs \subseteq Req
      BY <1>6 DEF PrefillReqs, PrefillRows
    <2> QED
      BY <2>1, <2>2 DEF ExecReqs
  <1> QED
    BY <1>1, <1>2, <1>3, <1>4, <1>5, <1>6, <1>7, <1>8

(* The rows of the executed step stay due when none of their requests      *)
(* comes back or gets another token.                                       *)
LEMMA ExecFrame ==
    ASSUME IInv, RInv, raised = "none",
           UNCHANGED <<exec, states, seqLen, kv, phase, stepEligible, current>>,
           \A r \in ExecReqs :
              /\ status[r] = "running" => status'[r] = "running" \/ Gone(r)'
              /\ Gone(r) => Gone(r)'
              /\ status'[r] = "running" =>
                   /\ status[r] = "running" /\ computed'[r] = computed[r]
                   /\ Total(r)' = Total(r)
                   /\ r \in accept'[Len(accept')] => r \in accept[Len(accept)]
    PROVE  ExecDue'
  <1>1. ExecDue /\ ExecReqs \subseteq Req
    BY AgreementFacts, RowsUnread
  <1>2. ASSUME NEW i \in 1..Len(exec.decode) PROVE DecodeRowDue(exec.decode[i])'
    <2>1. DecodeRowDue(exec.decode[i]) /\ exec.decode[i].req \in ExecReqs
      BY <1>1, RowsUnread DEF ExecDue
    <2> QED
      BY <2>1 DEF DecodeRowDue, Position
  <1>3. ASSUME NEW row \in exec.prefill PROVE PrefillRowDue(row)'
    <2>1. PrefillRowDue(row) /\ row.req \in ExecReqs
      BY <1>1, RowsUnread DEF ExecDue
    <2> QED
      BY <2>1 DEF PrefillRowDue
  <1>4. DecodeReqs' = DecodeReqs
    BY DEF DecodeReqs
  <1> QED
    BY <1>1, <1>2, <1>3, <1>4 DEF ExecDue

(* The rows of the pending step stay owned when none of their requests     *)
(* comes back.                                                             *)
LEMMA EntriesFrame ==
    ASSUME EntriesOwned, entries \in Seq(EntryRows),
           UNCHANGED <<entries, pending, states>>,
           phase' = "sample" /\ ~stepEligible' => phase = "sample" /\ ~stepEligible,
           \A r \in EntryReqs :
              /\ status[r] = "running" => status'[r] = "running" \/ Gone(r)'
              /\ Gone(r) => Gone(r)'
              /\ status[r] = "absent" => status'[r] = "absent"
    PROVE  EntriesOwned'
  <1>1. EntryReqs' = EntryReqs
    BY DEF EntryReqs
  <1>2. ASSUME NEW i \in 1..Len(entries) PROVE EntryOwned(entries[i])'
    <2>1. EntryOwned(entries[i]) /\ entries[i].req \in EntryReqs
      BY DEF EntriesOwned, EntryReqs
    <2> QED
      BY <2>1 DEF EntryOwned
  <1> QED
    BY <1>1, <1>2 DEF EntriesOwned

(* A settled request stays settled when it keeps its length on both sides. *)
LEMMA SettledFrame ==
    ASSUME IInv, RInv, raised = "none",
           NEW r \in Req, status[r] = "running", Idle(r),
           Len(states'[r].tokens) = Len(states[r].tokens),
           states'[r].gen = states[r].gen,
           seqLen'[r] = seqLen[r], kv'[r] = kv[r], computed'[r] = computed[r],
           Total(r)' = Total(r)
    PROVE  Settled(r)'
  <1>1. Settled(r)
    BY AgreementFacts DEF RunnersSettled
  <1> QED
    BY <1>1 DEF Settled

(* A request that arrives is in nobody's way: no unread step holds its id. *)
LEMMA ArriveRInv ==
    ASSUME IInv, RInv, NEW a \in Req, Arrive(a)
    PROVE  RInv'
  <1>1. /\ raised = "none" /\ status[a] = "absent" /\ ~Unread(a)
        /\ status' = [status EXCEPT ![a] = "waiting"]
        /\ delivered' = [delivered EXCEPT ![a] = <<>>]
        /\ UNCHANGED <<states, seqLen, awaiting, exec, entries, fault, kv, batch,
                       computed, accept, finishedIds>>
        /\ UNCHANGED <<pending, phase, stepEligible, current, queue, consumed,
                       sampleFailure, raised>>
    BY DEF Arrive, Quiet, runnerVars, vars, pipelineVars, engineVars
  <1>2. RunnerTypeOK /\ Ledger /\ TokensTrue /\ EntriesOwned
        /\ PlaceholderOwned /\ ForwardSound /\ fault = "none"
    BY DEF RInv
  <1>3. status'[a] = "waiting" /\ delivered'[a] = <<>>
        /\ \A r \in Req : r # a => status'[r] = status[r] /\ delivered'[r] = delivered[r]
    BY <1>1, <1>2 DEF RunnerTypeOK
  <1>4. RunnerTypeOK'
    BY <1>1, <1>2 DEF RunnerTypeOK
  <1>5. \A k \in 1..Len(accept) : a \notin accept[k]
    BY <1>1, <1>2 DEF Ledger
  <1>6. \A k \in 1..Len(accept) : accept[k] \subseteq Req
    BY <1>2 DEF RunnerTypeOK
  <1>7. Ledger'
    <2>1. Unread(a)' = Unread(a) /\ \A r \in Req : Unread(r)' = Unread(r)
      BY <1>1 DEF Unread
    <2>2. NoLeak'
      BY <1>1, <1>2, <1>3 DEF Ledger, NoLeak
    <2>3. \A k \in 1..Len(accept') : \A r \in accept'[k] :
             status'[r] \in {"running", "preempted"}
      BY <1>1, <1>2, <1>3, <1>5, <1>6 DEF Ledger
    <2>4. awaiting \subseteq Req
      BY <1>2 DEF RunnerTypeOK
    <2> QED
      BY <1>1, <1>2, <1>3, <2>1, <2>2, <2>3, <2>4 DEF Ledger
  <1>8. TokensTrue'
    BY <1>1, <1>2, <1>3 DEF TokensTrue
  <1>10. EntriesOwned'
    <2>1. a \notin EntryReqs /\ EntryReqs \subseteq Req
      BY <1>1, RowsUnread
    <2>2. entries \in Seq(EntryRows)
      BY <1>2 DEF RunnerTypeOK
    <2>3. \A r \in EntryReqs : status'[r] = status[r]
      BY <1>3, <2>1
    <2> QED
      BY <1>1, <1>2, <2>1, <2>2, <2>3, EntriesFrame DEF Gone
  <1>11. PlaceholderOwned' /\ ForwardSound'
    BY <1>1, <1>2 DEF PlaceholderOwned, ForwardSound
  <1>12. \A r \in Req : r # a => Known(r)' = Known(r) /\ Total(r)' = Total(r)
    BY <1>1, <1>3, TotalUnchanged
  <1>13. Aligned'
    <2>1. ExecReqs' = ExecReqs /\ InHand' = InHand
      BY <1>1 DEF ExecReqs, DecodeReqs, PrefillReqs, InHand
    <2> QED
      BY <1>1, <2>1, AgreementFacts DEF Aligned
  <1>14. OutputsDue'
    <2> SUFFICES ASSUME NEW k \in 1..Len(queue), queue[k].kind # "failed",
                        NEW r \in accept[k]
                 PROVE  OutValue(k, r)' = Due(k, r)'
      BY <1>1 DEF OutputsDue
    <2>0. k \in 1..Len(accept)
      BY <1>1, AgreementFacts
    <2>1. r # a /\ r \in Req
      BY <1>5, <1>6, <2>0
    <2>2. OutValue(k, r)' = OutValue(k, r)
      BY <1>1 DEF OutValue, RowOf
    <2>3. Due(k, r)' = Due(k, r)
      BY <1>1, <1>12, <2>1 DEF Due
    <2>4. OutValue(k, r) = Due(k, r)
      BY <1>1, AgreementFacts DEF OutputsDue
    <2> QED
      BY <2>2, <2>3, <2>4
  <1>15. RunnersSettled'
    <2> SUFFICES ASSUME NEW r \in Req, status'[r] = "running", Idle(r)'
                 PROVE  Settled(r)'
      BY DEF RunnersSettled
    <2>1. r # a /\ status[r] = "running"
      BY <1>3
    <2>2. Idle(r)
      BY <1>1 DEF Idle, ExecReqs, DecodeReqs, PrefillReqs
    <2> QED
      BY <1>1, <1>12, <2>1, <2>2, SettledFrame
  <1>16. ExecDue'
    <2>1. \A r \in ExecReqs : r # a /\ r \in Req
      <3>1. ExecReqs \subseteq Req
        BY <1>1, RowsUnread
      <3>2. phase \in {"execute", "sample"}
        BY RunningFacts, <1>1 DEF TypeOK
      <3>3. phase = "execute" => ExecReqs = {}
        BY <1>1, RowsUnread DEF ExecReqs, DecodeReqs, PrefillReqs
      <3> QED
        BY <1>1, <3>1, <3>2, <3>3, RowsUnread
    <2> QED
      BY <1>1, <1>3, <1>12, <2>1, ExecFrame DEF Gone
  <1>17. (sampleFailure => phase = "execute")'
    BY <1>1 DEF RInv, Agreement
  <1> QED
    BY <1>1, <1>2, <1>4, <1>7, <1>8, <1>10, <1>11, <1>13, <1>14, <1>15, <1>16, <1>17
    DEF RInv, Agreement

(* A request that is aborted takes its unread tokens out of the count; its *)
(* rows stay where they are until the runner hears of it.                  *)
LEMMA AbortRInv ==
    ASSUME IInv, RInv, NEW a \in Req, Abort(a)
    PROVE  RInv'
  <1>1. /\ raised = "none"
        /\ status' = [r \in Req |-> IF r \in {a} THEN "absent" ELSE status[r]]
        /\ computed' = [r \in Req |-> IF r \in {a} THEN 0 ELSE computed[r]]
        /\ finishedIds' = finishedIds \cup {a}
        /\ accept' = [i \in DOMAIN accept |-> accept[i] \ {a}]
        /\ UNCHANGED <<states, seqLen, awaiting, exec, entries, fault, kv, batch,
                       delivered>>
        /\ UNCHANGED <<pending, phase, stepEligible, current, queue, consumed,
                       sampleFailure, raised>>
    BY DEF Abort, Finish, Quiet, runnerVars, vars, pipelineVars, engineVars
  <1>2. RunnerTypeOK /\ Ledger /\ TokensTrue /\ EntriesOwned
        /\ PlaceholderOwned /\ ForwardSound /\ fault = "none"
    BY DEF RInv
  <1>3. /\ status'[a] = "absent" /\ Gone(a)'
        /\ \A r \in Req : r # a => status'[r] = status[r] /\ computed'[r] = computed[r]
                                   /\ (Gone(r)' <=> Gone(r))
    BY <1>1 DEF Gone
  <1>4. DOMAIN accept = 1..Len(accept) /\ Len(accept) \in Nat
        /\ \A k \in 1..Len(accept) : accept[k] \subseteq Req
    <2>1. accept \in Seq(SUBSET Req)
      BY <1>2 DEF RunnerTypeOK
    <2> QED
      BY <2>1
  <1>5. /\ accept' \in Seq(SUBSET Req) /\ Len(accept') = Len(accept)
        /\ DOMAIN accept' = DOMAIN accept
        /\ \A k \in 1..Len(accept) : accept'[k] = accept[k] \ {a}
    BY <1>1, <1>4
  <1>6. RunnerTypeOK'
    BY <1>1, <1>2, <1>5 DEF RunnerTypeOK
  <1>7. Ledger'
    <2>1. \A r \in Req : Unread(r)' = Unread(r)
      BY <1>1 DEF Unread
    <2>2. NoLeak'
      BY <1>1, <1>2, <1>3 DEF Ledger, NoLeak
    <2>3. \A k \in 1..Len(accept') : \A r \in accept'[k] :
             status'[r] \in {"running", "preempted"}
      BY <1>2, <1>3, <1>4, <1>5 DEF Ledger
    <2>4. awaiting \subseteq Req
      BY <1>2 DEF RunnerTypeOK
    <2>5. \A r \in Req : status'[r] \in {"running", "preempted"} => r \notin finishedIds'
      BY <1>1, <1>2, <1>3 DEF Ledger
    <2>6. \A r \in Req : status'[r] = "preempted" => r \in awaiting' /\ states'[r] # NoState
      BY <1>1, <1>2, <1>3 DEF Ledger
    <2>7. \A r \in awaiting' : status'[r] = "preempted" \/ r \in finishedIds'
      BY <1>1, <1>2, <1>3, <2>4 DEF Ledger
    <2>8. \A r \in Req : status'[r] = "waiting" => delivered'[r] = <<>> /\ ~Unread(r)'
      BY <1>1, <1>2, <1>3, <2>1 DEF Ledger
    <2> QED
      BY <2>2, <2>3, <2>5, <2>6, <2>7, <2>8 DEF Ledger
  <1>8. TokensTrue' /\ PlaceholderOwned' /\ ForwardSound'
    BY <1>1, <1>2 DEF TokensTrue, PlaceholderOwned, ForwardSound
  <1>9. EntriesOwned'
    <2>1. EntryReqs \subseteq Req
      BY <1>1, RowsUnread
    <2>2. entries \in Seq(EntryRows)
      BY <1>2 DEF RunnerTypeOK
    <2>3. \A r \in EntryReqs :
              /\ status[r] = "running" => status'[r] = "running" \/ Gone(r)'
              /\ Gone(r) => Gone(r)'
              /\ status[r] = "absent" => status'[r] = "absent"
      BY <1>3, <2>1
    <2> QED
      BY <1>1, <1>2, <2>2, <2>3, EntriesFrame
  <1>10. \A r \in Req : r # a => Known(r)' = Known(r) /\ Total(r)' = Total(r)
    BY <1>1, <1>4, <1>5, TotalUnchanged
  <1>11. Aligned'
    <2>1. ExecReqs' = ExecReqs /\ InHand' = InHand
      BY <1>1 DEF ExecReqs, DecodeReqs, PrefillReqs, InHand
    <2>2. Aligned /\ Len(batch) = Len(accept)
      BY <1>1, AgreementFacts
    <2> QED
      BY <1>1, <1>5, <2>1, <2>2 DEF Aligned
  <1>12. OutputsDue'
    <2> SUFFICES ASSUME NEW k \in 1..Len(queue), queue[k].kind # "failed",
                        NEW r \in accept'[k]
                 PROVE  OutValue(k, r)' = Due(k, r)'
      BY <1>1 DEF OutputsDue
    <2>0. k \in 1..Len(accept) /\ Len(accept) \in Nat
      BY <1>1, AgreementFacts
    <2>1. r # a /\ r \in Req /\ r \in accept[k]
      BY <1>4, <1>5, <2>0
    <2>2. OutValue(k, r)' = OutValue(k, r)
      BY <1>1 DEF OutValue, RowOf
    <2>3. Due(k, r)' = Due(k, r)
      <3>1. k = 2 => 1 \in 1..Len(accept)
        BY <2>0
      <3>2. k = 2 => (r \in accept'[1] <=> r \in accept[1])
        BY <1>5, <2>1, <3>1
      <3> QED
        BY <1>10, <2>1, <3>2 DEF Due
    <2>4. OutValue(k, r) = Due(k, r)
      BY <1>1, <2>1, AgreementFacts DEF OutputsDue
    <2> QED
      BY <2>2, <2>3, <2>4
  <1>13. RunnersSettled'
    <2> SUFFICES ASSUME NEW r \in Req, status'[r] = "running", Idle(r)'
                 PROVE  Settled(r)'
      BY DEF RunnersSettled
    <2>1. r # a /\ status[r] = "running"
      BY <1>3
    <2>2. Idle(r)
      BY <1>1 DEF Idle, ExecReqs, DecodeReqs, PrefillReqs
    <2> QED
      BY <1>1, <1>3, <1>10, <2>1, <2>2, SettledFrame
  <1>14. ExecDue'
    <2>1. ExecReqs \subseteq Req
      BY <1>1, RowsUnread
    <2>2. \A r : r \in accept'[Len(accept')] => r \in accept[Len(accept)]
      <3>1. CASE Len(accept) = 0
        <4>1. accept' = accept
          BY <1>1, <1>4, <3>1
        <4> QED
          BY <4>1
      <3>2. CASE Len(accept) # 0
        <4>1. Len(accept) \in 1..Len(accept)
          BY <1>4, <3>2
        <4> QED
          BY <1>5, <4>1
      <3> QED
        BY <3>1, <3>2
    <2>3. ASSUME NEW r \in ExecReqs
          PROVE  /\ status[r] = "running" => status'[r] = "running" \/ Gone(r)'
                 /\ Gone(r) => Gone(r)'
                 /\ status'[r] = "running" =>
                      /\ status[r] = "running" /\ computed'[r] = computed[r]
                      /\ Total(r)' = Total(r)
                      /\ r \in accept'[Len(accept')] => r \in accept[Len(accept)]
      BY <1>3, <1>10, <2>1, <2>2
    <2> QED
      BY <1>1, <2>3, ExecFrame
  <1>15. (sampleFailure => phase = "execute")'
    BY <1>1 DEF RInv, Agreement
  <1> QED
    BY <1>1, <1>2, <1>6, <1>7, <1>8, <1>9, <1>11, <1>12, <1>13, <1>14, <1>15
    DEF RInv, Agreement

(* What holds of any state holds when only the pipeline's engine moved.    *)
LEMMA StateFrame ==
    ASSUME RInv,
           UNCHANGED <<states, seqLen, awaiting, finishedIds, fault, kv, entries,
                       delivered, status, pending>>,
           phase' = "execute" \/ UNCHANGED <<phase, stepEligible>>
    PROVE  /\ TokensTrue' /\ PlaceholderOwned' /\ EntriesOwned' /\ NoLeak'
           /\ fault' = "none"
  <1>1. /\ RunnerTypeOK /\ Ledger /\ TokensTrue /\ EntriesOwned
        /\ PlaceholderOwned /\ fault = "none"
    BY DEF RInv
  <1>2. TokensTrue' /\ PlaceholderOwned' /\ NoLeak'
    BY <1>1 DEF TokensTrue, PlaceholderOwned, Ledger, NoLeak
  <1>3. EntriesOwned'
    <2>1. entries \in Seq(EntryRows)
      BY <1>1 DEF RunnerTypeOK
    <2> QED
      BY <1>1, <2>1, EntriesFrame DEF Gone
  <1> QED
    BY <1>1, <1>2, <1>3

(* A failed sample leaves an output nobody will use and a runner that      *)
(* refuses every later step.                                               *)
LEMMA FailSampleRInv ==
    ASSUME IInv, RInv, FailSample
    PROVE  RInv'
  <1>1. /\ raised = "none" /\ phase = "sample" /\ phase' = "execute"
        /\ sampleFailure' = TRUE /\ queue' = Append(queue, Failed(steps))
        /\ exec' = NoExec /\ raised' = raised
        /\ UNCHANGED <<states, seqLen, awaiting, entries, fault, kv, batch>>
        /\ UNCHANGED <<status, computed, delivered, accept, finishedIds>>
        /\ UNCHANGED <<pending, stepEligible, consumed>>
    BY DEF FailSample, SampleFails, Quiet, pipelineVars, schedulerVars
  <1>2. RunnerTypeOK /\ Ledger
    BY DEF RInv
  <1>3. exec'.decode = <<>> /\ exec'.prefill = {}
    BY <1>1 DEF NoExec
  <1>4. RunnerTypeOK'
    BY <1>1, <1>2, <1>3 DEF RunnerTypeOK
  <1>5. /\ TokensTrue' /\ PlaceholderOwned' /\ EntriesOwned' /\ NoLeak'
        /\ fault' = "none"
    BY <1>1, StateFrame
  <1>6. Ledger'
    BY <1>1, <1>2, <1>5 DEF Ledger, Unread
  <1>7. ForwardSound' /\ ExecDue'
    BY <1>1, <1>3 DEF ForwardSound, ExecDue
  <1>8. /\ Len(queue') = Len(queue) + 1 /\ queue'[Len(queue) + 1] = Failed(steps)
        /\ \A k \in 1..Len(queue) : queue'[k] = queue[k]
    BY <1>1, RunningFacts, OutputKinds, AppendOutput
  <1>9. Aligned'
    <2>1. InHand = 1 /\ InHand' = 0
      BY <1>1 DEF InHand
    <2>2. ASSUME pending' # NoPending, NEW k \in 1..Len(queue'), k = pending'.step - consumed'
          PROVE  DOMAIN batch'[k] = pending'.reqs
      BY <1>1, <2>2, AgreementFacts
    <2> QED
      BY <1>1, <1>8, <2>1, <2>2, AgreementFacts DEF Aligned
  <1>10. OutputsDue'
    <2> SUFFICES ASSUME NEW k \in 1..Len(queue'), queue'[k].kind # "failed",
                        NEW r \in accept[k]
                 PROVE  OutValue(k, r)' = Due(k, r)'
      BY <1>1 DEF OutputsDue
    <2>1. k # Len(queue) + 1
      BY <1>8, RunningFacts, <1>1, OutputKinds
    <2>2. k \in 1..Len(queue) /\ queue[k].kind # "failed"
      BY <1>1, <1>8, <2>1, RunningFacts
    <2>3. OutValue(k, r)' = OutValue(k, r) /\ Due(k, r)' = Due(k, r)
      BY <1>1 DEF OutValue, RowOf, Due, Known
    <2> QED
      BY <1>1, <2>2, <2>3, AgreementFacts DEF OutputsDue
  <1>11. RunnersSettled'
    BY <1>1 DEF RunnersSettled, Idle
  <1> QED
    BY <1>1, <1>4, <1>5, <1>6, <1>7, <1>9, <1>10, <1>11 DEF RInv, Agreement

(* A refused step adds an empty, failed output.                            *)
LEMMA RefuseStepRInv ==
    ASSUME IInv, RInv, RefuseStep
    PROVE  RInv'
  <1>1. /\ raised = "none" /\ phase = "execute" /\ sampleFailure
        /\ queue' = Append(queue, Failed(steps + 1))
        /\ batch' = Append(batch, <<>>) /\ accept' = Append(accept, {})
        /\ UNCHANGED <<states, seqLen, awaiting, exec, entries, fault, kv>>
        /\ UNCHANGED <<status, computed, delivered, finishedIds>>
        /\ UNCHANGED <<pending, phase, stepEligible, current, consumed, sampleFailure, raised>>
    BY DEF RefuseStep, ExecuteRefused, Refused, Quiet, runnerVars, pipelineVars
  <1>2. RunnerTypeOK /\ Ledger /\ ForwardSound
    BY DEF RInv
  <1>3. /\ Len(batch) \in Nat /\ Len(accept) \in Nat /\ Len(queue) \in Nat
        /\ Len(batch) = Len(queue) /\ Len(accept) = Len(queue)
    <2>1. InHand = 0 /\ raised = "none"
      BY <1>1 DEF InHand
    <2>2. /\ Len(batch) \in Nat /\ Len(accept) \in Nat /\ Len(queue) \in Nat
          /\ Len(batch) = Len(queue) + InHand /\ Len(accept) = Len(queue) + InHand
      BY <2>1, AgreementFacts
    <2> QED
      BY <2>1, <2>2
  <1>4. <<>> \in Outputs /\ DOMAIN <<>> = {}
    <2>1. DOMAIN <<>> = {} /\ <<>> = [i \in {} |-> 0]
      OBVIOUS
    <2>2. <<>> \in [{} -> Int]
      BY <2>1
    <2>3. {} \in SUBSET Req
      OBVIOUS
    <2> QED
      BY <2>1, <2>2, <2>3 DEF Outputs
  <1>5. /\ batch' \in Seq(Outputs) /\ Len(batch') = Len(batch) + 1
        /\ batch'[Len(batch) + 1] = <<>>
        /\ \A k \in 1..Len(batch) : batch'[k] = batch[k]
        /\ DOMAIN batch' = 1..(Len(batch) + 1) /\ DOMAIN batch = 1..Len(batch)
    <2>1. batch \in Seq(Outputs)
      BY <1>2 DEF RunnerTypeOK
    <2> HIDE DEF Outputs
    <2> QED
      BY <1>1, <1>4, <2>1
  <1>6. /\ accept' \in Seq(SUBSET Req) /\ Len(accept') = Len(accept) + 1
        /\ accept'[Len(accept) + 1] = {}
        /\ \A k \in 1..Len(accept) : accept'[k] = accept[k]
        /\ DOMAIN accept' = 1..(Len(accept) + 1) /\ DOMAIN accept = 1..Len(accept)
    <2>1. accept \in Seq(SUBSET Req)
      BY <1>2 DEF RunnerTypeOK
    <2> QED
      BY <1>1, <2>1
  <1>7. RunnerTypeOK'
    BY <1>1, <1>2, <1>5, <1>6 DEF RunnerTypeOK
  <1>8. /\ TokensTrue' /\ PlaceholderOwned' /\ EntriesOwned' /\ NoLeak'
        /\ fault' = "none"
    BY <1>1, StateFrame
  <1>9. Ledger'
    <2>1. \A r \in Req : Unread(r)' <=> Unread(r)
      <3>1. \A k \in DOMAIN batch' : k \in DOMAIN batch \/ batch'[k] = <<>>
        BY <1>3, <1>5
      <3> QED
        BY <1>3, <1>4, <1>5, <3>1 DEF Unread
    <2>2. \A k \in 1..Len(accept') : \A r \in accept'[k] :
             status'[r] \in {"running", "preempted"}
      <3>1. \A k \in 1..Len(accept') : k \in 1..Len(accept) \/ accept'[k] = {}
        BY <1>3, <1>6
      <3> QED
        BY <1>1, <1>2, <1>6, <3>1 DEF Ledger
    <2> QED
      BY <1>1, <1>2, <1>8, <2>1, <2>2 DEF Ledger
  <1>10. ForwardSound'
    BY <1>1, <1>2 DEF ForwardSound
  <1>11. ExecDue'
    <2>1. ExecReqs = {} /\ exec.decode = <<>> /\ exec.prefill = {}
      BY <1>1, RowsUnread DEF ExecReqs, DecodeReqs, PrefillReqs
    <2>2. exec = NoExec
      BY <1>1, AgreementFacts DEF ExecDue
    <2> QED
      BY <1>1, <2>1, <2>2 DEF ExecDue
  <1>12. /\ Len(queue') = Len(queue) + 1 /\ queue'[Len(queue) + 1] = Failed(steps + 1)
         /\ \A k \in 1..Len(queue) : queue'[k] = queue[k]
    <2>1. steps + 1 \in Nat /\ queue \in Seq(Output)
      BY <1>1, RunningFacts
    <2> QED
      BY <1>1, <2>1, OutputKinds, AppendOutput
  <1>13. Aligned'
    <2>1. InHand' = 0
      BY <1>1 DEF InHand
    <2>2. ASSUME pending' # NoPending, NEW k \in 1..Len(queue'), k = pending'.step - consumed'
          PROVE  DOMAIN batch'[k] = pending'.reqs
      <3>1. k \in 1..Len(queue) /\ DOMAIN batch[k] = pending.reqs
        BY <1>1, <2>2, AgreementFacts
      <3> QED
        BY <1>1, <1>3, <1>5, <3>1
    <2>3. \A k \in 1..Len(batch') : accept'[k] \subseteq DOMAIN batch'[k]
      <3> SUFFICES ASSUME NEW k \in 1..Len(batch') PROVE accept'[k] \subseteq DOMAIN batch'[k]
        OBVIOUS
      <3>1. CASE k \in 1..Len(batch)
        BY <1>1, <1>3, <1>5, <1>6, <3>1, AgreementFacts DEF Aligned
      <3>2. CASE k \notin 1..Len(batch)
        BY <1>3, <1>5, <1>6, <3>2
      <3> QED
        BY <3>1, <3>2
    <2> QED
      BY <1>1, <1>3, <1>5, <1>6, <1>12, <2>1, <2>2, <2>3 DEF Aligned
  <1>14. OutputsDue'
    <2> SUFFICES ASSUME NEW k \in 1..Len(queue'), queue'[k].kind # "failed",
                        NEW r \in accept'[k]
                 PROVE  OutValue(k, r)' = Due(k, r)'
      BY DEF OutputsDue
    <2>1. k # Len(queue) + 1
      <3>1. Failed(steps + 1).kind = "failed"
        BY DEF Failed
      <3> QED
        BY <1>12, <3>1
    <2>2. k \in 1..Len(queue) /\ queue[k].kind # "failed"
      BY <1>3, <1>12, <2>1
    <2>3. k \in 1..Len(accept) /\ r \in accept[k] /\ (k = 2 => accept'[1] = accept[1])
      BY <1>3, <1>6, <2>2
    <2>4. OutValue(k, r)' = OutValue(k, r) /\ Due(k, r)' = Due(k, r)
      <3>1. k \in 1..Len(batch)
        BY <1>3, <2>2
      <3> QED
        BY <1>1, <1>5, <2>3, <3>1 DEF OutValue, RowOf, Due, Known
    <2> QED
      BY <1>1, <2>2, <2>3, <2>4, AgreementFacts DEF OutputsDue
  <1>15. RunnersSettled'
    BY <1>1 DEF RunnersSettled, Idle
  <1> QED
    BY <1>1, <1>7, <1>8, <1>9, <1>10, <1>11, <1>13, <1>14, <1>15 DEF RInv, Agreement

-----------------------------------------------------------------------------
(* A request has at most one row in the pending step.                      *)
LEMMA RowOfFacts ==
    ASSUME EntriesOwned, entries \in Seq(EntryRows)
    PROVE  /\ DOMAIN entries = 1..Len(entries)
           /\ \A j \in 1..Len(entries) : RowOf(entries[j].req) = j
           /\ \A r \in EntryReqs : RowOf(r) \in 1..Len(entries) /\ entries[RowOf(r)].req = r
           /\ \A j \in 1..Len(entries) : entries[j] \in EntryRows
           /\ EntryReqs = pending.reqs
  <1>1. DOMAIN entries = 1..Len(entries)
        /\ \A j \in 1..Len(entries) : entries[j] \in EntryRows
    <2> HIDE DEF EntryRows
    <2> QED OBVIOUS
  <1>2. \A i, j \in 1..Len(entries) : entries[i].req = entries[j].req => i = j
    BY DEF EntriesOwned
  <1>3. ASSUME NEW r, \E j \in 1..Len(entries) : entries[j].req = r
        PROVE  RowOf(r) \in 1..Len(entries) /\ entries[RowOf(r)].req = r
    BY <1>1, <1>3 DEF RowOf
  <1>4. \A j \in 1..Len(entries) : RowOf(entries[j].req) = j
    BY <1>2, <1>3
  <1>5. \A r \in EntryReqs : RowOf(r) \in 1..Len(entries) /\ entries[RowOf(r)].req = r
    BY <1>1, <1>3 DEF EntryReqs
  <1> QED
    BY <1>1, <1>4, <1>5 DEF EntriesOwned

(* The placeholder a current row of the pending step will fill.            *)
Filled(r, i) == \E j \in 1..Len(entries) :
    entries[j].current /\ entries[j].req = r /\ entries[j].index = i

(* Backfill puts the true token at every placeholder of the pending step   *)
(* and touches nothing else; no placeholder was overwritten.               *)
LEMMA BackfillFacts ==
    ASSUME EntriesOwned, entries \in Seq(EntryRows), Resolving,
           NEW st \in [Req -> RequestState],
           \A r \in Req : \A i \in Int :
              Filled(r, i) => i \in 1..Len(st[r].tokens) /\ st[r].tokens[i] = Hole
    PROVE  /\ Backfill(st) \in [Req -> RequestState]
           /\ ~Overwritten(st)
           /\ \A r \in Req : /\ Len(Backfill(st)[r].tokens) = Len(st[r].tokens)
                             /\ Backfill(st)[r].gen = st[r].gen
           /\ \A r \in Req : \A i \in 1..Len(st[r].tokens) :
                Backfill(st)[r].tokens[i] = IF Filled(r, i) THEN i ELSE st[r].tokens[i]
  <1>1. ~Overwritten(st)
    <2>1. ASSUME NEW j \in 1..Len(entries), entries[j].current
          PROVE  /\ entries[j].index \in DOMAIN st[entries[j].req].tokens
                 /\ st[entries[j].req].tokens[entries[j].index] = Hole
      <3>1. entries[j].req \in Req /\ entries[j].index \in Int
        BY RowOfFacts DEF EntryRows
      <3>2. Filled(entries[j].req, entries[j].index)
        BY <2>1 DEF Filled
      <3>3. st[entries[j].req].tokens \in Seq(Int)
        BY <3>1 DEF RequestState
      <3> QED
        BY <3>1, <3>2, <3>3
    <2> QED
      BY <2>1, RowOfFacts DEF Overwritten
  <1>2. ASSUME NEW r \in Req
        PROVE  /\ Backfill(st)[r] \in RequestState
               /\ Len(Backfill(st)[r].tokens) = Len(st[r].tokens)
               /\ Backfill(st)[r].gen = st[r].gen
               /\ \A i \in 1..Len(st[r].tokens) :
                    Backfill(st)[r].tokens[i] =
                        IF Filled(r, i) THEN i ELSE st[r].tokens[i]
    <2>1. st[r] \in RequestState /\ st[r].tokens \in Seq(Int) /\ st[r].gen \in Nat
      BY DEF RequestState
    <2>2. CASE Owns(r)
      <3>1. PICK j \in 1..Len(entries) : entries[j].req = r /\ entries[j].current
        BY <2>2, RowOfFacts DEF Owns
      <3>2. RowOf(r) = j
        BY <3>1, RowOfFacts
      <3>3. entries[j].value = entries[j].index /\ entries[j].index \in Int
        <4>1. EntryOwned(entries[j])
          BY <3>1 DEF EntriesOwned
        <4>2. entries[j].index \in Int
          BY <3>1, RowOfFacts DEF EntryRows
        <4> QED
          BY <4>1, <4>2 DEF EntryOwned
      <3>4. \A i \in Int : Filled(r, i) <=> i = entries[j].index
        BY <3>1, <3>3 DEF Filled, EntriesOwned
      <3>5. entries[j].index \in 1..Len(st[r].tokens)
        BY <3>3, <3>4
      <3> DEFINE toks == [st[r].tokens EXCEPT ![entries[j].index] = entries[j].value]
      <3>6. Backfill(st)[r] = [st[r] EXCEPT !.tokens = toks]
        BY <2>2, <3>2 DEF Backfill
      <3>7. toks \in Seq(Int) /\ Len(toks) = Len(st[r].tokens)
            /\ \A i \in 1..Len(st[r].tokens) :
                 toks[i] = IF i = entries[j].index THEN i ELSE st[r].tokens[i]
        BY <2>1, <3>3, <3>5
      <3>8. Backfill(st)[r] = [tokens |-> toks, gen |-> st[r].gen]
        BY <2>1, <3>6 DEF RequestState
      <3> HIDE DEF toks
      <3> QED
        <4>1. Backfill(st)[r] \in RequestState
          BY <2>1, <3>7, <3>8 DEF RequestState
        <4>2. Backfill(st)[r].tokens = toks /\ Backfill(st)[r].gen = st[r].gen
          BY <3>8
        <4>3. \A i \in 1..Len(st[r].tokens) :
                toks[i] = IF Filled(r, i) THEN i ELSE st[r].tokens[i]
          BY <3>4, <3>7
        <4> QED BY <3>7, <4>1, <4>2, <4>3
    <2>3. CASE ~Owns(r)
      <3>1. Backfill(st)[r] = st[r]
        BY <2>3 DEF Backfill
      <3>2. \A i \in Int : ~Filled(r, i)
        BY <2>3, RowOfFacts DEF Owns, Filled
      <3> QED
        BY <2>1, <3>1, <3>2
    <2> QED
      BY <2>2, <2>3
  <1>3. Backfill(st) \in [Req -> RequestState]
    <2>1. Backfill(st) = [r \in Req |-> Backfill(st)[r]]
      BY DEF Backfill
    <2> QED
      BY <1>2, <2>1
  <1> QED
    BY <1>1, <1>2, <1>3

(* The output of the pending step receives the pending tokens, the others  *)
(* stay as they are: what is filled in is what was due.                    *)
LEMMA FillFacts ==
    ASSUME IInv, RInv, raised = "none",
           Resolving \/ pending = NoPending
    PROVE  /\ FillBatch(batch) \in Seq(Outputs)
           /\ Len(FillBatch(batch)) = Len(batch)
           /\ \A k \in 1..Len(batch) : DOMAIN FillBatch(batch)[k] = DOMAIN batch[k]
           /\ \A k \in 1..Len(batch) : \A r \in DOMAIN batch[k] :
                FillBatch(batch)[k][r] = OutValue(k, r)
  <1>1. /\ batch \in Seq(Outputs) /\ entries \in Seq(EntryRows) /\ EntriesOwned
        /\ Len(batch) \in Nat /\ Len(queue) \in Nat /\ Len(batch) >= Len(queue)
        /\ DOMAIN batch = 1..Len(batch)
    BY AgreementFacts DEF RInv, RunnerTypeOK
  <1>2. CASE pending = NoPending
    BY <1>1, <1>2 DEF FillBatch, Resolving, OutValue
  <1>3. CASE pending # NoPending
    <2> DEFINE k0 == pending.step - consumed
               f == [r \in DOMAIN batch[k0] |-> entries[RowOf(r)].value]
    <2>1. Resolving /\ k0 \in 1..Len(batch) /\ DOMAIN batch[k0] = pending.reqs
      BY <1>1, <1>3, AgreementFacts
    <2>2. FillBatch(batch) = [batch EXCEPT ![k0] = f]
      BY <2>1 DEF FillBatch
    <2>3. DOMAIN f = EntryReqs /\ EntryReqs \subseteq Req
          /\ \A r \in EntryReqs : f[r] \in Int
      BY <1>1, <2>1, RowOfFacts, RowsUnread DEF EntryRows
    <2>4. f \in Outputs
      <3>1. f \in [EntryReqs -> Int]
        BY <2>3
      <3> QED
        BY <2>3, <3>1 DEF Outputs
    <2> HIDE DEF f, k0, Outputs
    <2>5. /\ FillBatch(batch) \in Seq(Outputs)
          /\ Len(FillBatch(batch)) = Len(batch)
          /\ \A k \in 1..Len(batch) :
               FillBatch(batch)[k] = IF k = k0 THEN f ELSE batch[k]
      BY <1>1, <2>1, <2>2, <2>4
    <2>6. \A k \in 1..Len(batch) : DOMAIN FillBatch(batch)[k] = DOMAIN batch[k]
      BY <2>5 DEF f
    <2>7. ASSUME NEW k \in 1..Len(batch), NEW r \in DOMAIN batch[k]
          PROVE  FillBatch(batch)[k][r] = OutValue(k, r)
      <3>1. CASE k = k0
        BY <1>3, <2>5, <3>1 DEF f, k0, OutValue
      <3>2. CASE k # k0
        BY <2>5, <3>2 DEF k0, OutValue
      <3> QED
        BY <3>1, <3>2
    <2> QED
      BY <2>5, <2>6, <2>7
  <1> QED
    BY <1>2, <1>3

(* A request has no state exactly when it has no tokens and no count.      *)
LEMMA NoStateIff ==
    ASSUME NEW s \in RequestState
    PROVE  /\ s.tokens \in Seq(Int) /\ s.gen \in Nat
           /\ s = [tokens |-> s.tokens, gen |-> s.gen]
           /\ s = NoState <=> Len(s.tokens) = 0 /\ s.gen = 0
  <1>1. s.tokens \in Seq(Int) /\ s.gen \in Nat /\ s = [tokens |-> s.tokens, gen |-> s.gen]
    BY DEF RequestState
  <1>2. Len(s.tokens) = 0 => s.tokens = <<>>
    BY <1>1
  <1> QED
    BY <1>1, <1>2 DEF NoState

(* Backfilling the request states: lengths and counts stay, the tokens are *)
(* the true ones, and no placeholder survives the pending step.            *)
LEMMA BackfilledStates ==
    ASSUME RInv
    PROVE  /\ Backfill(states) \in [Req -> RequestState]
           /\ ~Overwritten(states)
           /\ ~Resolving => Backfill(states) = states
           /\ \A r \in Req :
                /\ Len(Backfill(states)[r].tokens) = Len(states[r].tokens)
                /\ Backfill(states)[r].gen = states[r].gen
                /\ Backfill(states)[r] = NoState <=> states[r] = NoState
                /\ \A i \in 1..Len(states[r].tokens) :
                     /\ Backfill(states)[r].tokens[i] \in {i, Hole}
                     /\ Resolving \/ entries = <<>> => Backfill(states)[r].tokens[i] = i
  <1>1. /\ states \in [Req -> RequestState] /\ entries \in Seq(EntryRows)
        /\ EntriesOwned /\ TokensTrue /\ PlaceholderOwned
    BY DEF RInv, RunnerTypeOK
  <1>2. ASSUME NEW r \in Req
        PROVE  /\ states[r] \in RequestState /\ states[r].tokens \in Seq(Int)
               /\ DOMAIN states[r].tokens = 1..Len(states[r].tokens)
               /\ \A i \in 1..Len(states[r].tokens) :
                    /\ states[r].tokens[i] \in {i, Hole}
                    /\ states[r].tokens[i] = Hole <=> Filled(r, i)
    <2>1. states[r] \in RequestState /\ states[r].tokens \in Seq(Int)
      BY <1>1, NoStateIff
    <2>2. DOMAIN states[r].tokens = 1..Len(states[r].tokens)
      BY <2>1
    <2>3. DOMAIN entries = 1..Len(entries)
      BY <1>1, RowOfFacts
    <2>4. \A i \in 1..Len(states[r].tokens) : states[r].tokens[i] \in {i, Hole}
      BY <1>1, <2>2 DEF TokensTrue
    <2>5. \A i \in 1..Len(states[r].tokens) : states[r].tokens[i] = Hole <=> Filled(r, i)
      BY <1>1, <2>2, <2>3 DEF PlaceholderOwned, Filled
    <2> QED
      BY <2>1, <2>2, <2>4, <2>5
  <1>3. ASSUME NEW r \in Req, NEW i \in Int, Filled(r, i)
        PROVE  i \in 1..Len(states[r].tokens) /\ states[r].tokens[i] = Hole
    <2>1. PICK j \in 1..Len(entries) :
             entries[j].current /\ entries[j].req = r /\ entries[j].index = i
      BY <1>3 DEF Filled
    <2>2. EntryOwned(entries[j])
      BY <1>1 DEF EntriesOwned
    <2>3. i = Len(states[r].tokens) /\ i > 0
      BY <2>1, <2>2 DEF EntryOwned
    <2> QED
      BY <1>2, <1>3, <2>3
  <1>4. CASE Resolving
    <2>1. /\ Backfill(states) \in [Req -> RequestState]
          /\ ~Overwritten(states)
          /\ \A r \in Req : /\ Len(Backfill(states)[r].tokens) = Len(states[r].tokens)
                            /\ Backfill(states)[r].gen = states[r].gen
          /\ \A r \in Req : \A i \in 1..Len(states[r].tokens) :
               Backfill(states)[r].tokens[i] =
                 IF Filled(r, i) THEN i ELSE states[r].tokens[i]
      BY <1>1, <1>3, <1>4, BackfillFacts
    <2>2. \A r \in Req : Backfill(states)[r] \in RequestState
      BY <2>1
    <2>3. ASSUME NEW r \in Req
          PROVE  Backfill(states)[r] = NoState <=> states[r] = NoState
      <3>1. states[r] = NoState <=> Len(states[r].tokens) = 0 /\ states[r].gen = 0
        BY <1>2, NoStateIff
      <3>2. Backfill(states)[r] = NoState <=>
              Len(Backfill(states)[r].tokens) = 0 /\ Backfill(states)[r].gen = 0
        BY <2>2, NoStateIff
      <3> QED
        BY <2>1, <3>1, <3>2
    <2>4. \A r \in Req : \A i \in 1..Len(states[r].tokens) :
             Backfill(states)[r].tokens[i] = i
      BY <1>2, <2>1
    <2> QED
      BY <1>4, <2>1, <2>3, <2>4
  <1>5. CASE ~Resolving
    <2>1. Backfill(states) = states /\ ~Overwritten(states)
      BY <1>5 DEF Backfill, Overwritten
    <2>2. entries = <<>> => \A r \in Req : \A i : ~Filled(r, i)
      BY DEF Filled
    <2> QED
      BY <1>1, <1>2, <1>5, <2>1, <2>2
  <1> QED
    BY <1>4, <1>5

(* Reading an output moves the pipeline's pending step only by resolving   *)
(* it; an error leaves the pipeline and the runner as they are.            *)
LEMMA ReadMoves ==
    ASSUME IInv, RInv, Quiet, GetOutput
    PROVE  /\ queue # <<>> /\ queue' = Tail(queue)
           /\ UNCHANGED <<stepEligible, phase, current, sampleFailure>>
           /\ phase = "execute" \/ ~stepEligible
           /\ raised' \in {"none", "sample failure"}
           /\ raised' # "none" => UNCHANGED <<pending, consumed>> /\ ~Resolving
           /\ raised' = "none" =>
                /\ queue[1].kind # "failed"
                /\ consumed' = consumed + 1
                /\ \/ pending' = pending /\ ~Resolving
                   \/ pending' = NoPending /\ Resolving
                /\ pending' # NoPending => pending'.step - consumed' \in 1..Len(queue')
  <1>1. /\ raised = "none" /\ queue # <<>> /\ queue' = Tail(queue)
        /\ UNCHANGED <<stepEligible, phase, current, steps, sampleFailure>>
        /\ phase = "execute" \/ ~stepEligible
    BY DEF GetOutput, Quiet
  <1>2. IInv'
    BY GetOutputIInv
  <1>3. raised' \in {"none", "sample failure"} /\ TypeOK'
    BY <1>2 DEF IInv, NoDesync, TypeOK
  <1>4. Head(queue) = queue[1] /\ Len(queue') = Len(queue) - 1 /\ Len(queue) \in Nat
    BY <1>1, RunningFacts, TailOutput
  <1>5. ASSUME raised' # "none" PROVE UNCHANGED <<pending, consumed>> /\ ~Resolving
    <2>1. raised' = "sample failure"
      BY <1>3, <1>5
    <2>2. UNCHANGED <<pending, consumed>>
      BY <1>1, <2>1 DEF GetOutput, Resolve, Raise
    <2> QED
      BY <2>2 DEF Resolving
  <1>6. ASSUME raised' = "none"
        PROVE  /\ queue[1].kind # "failed"
               /\ consumed' = consumed + 1
               /\ \/ pending' = pending /\ ~Resolving
                  \/ pending' = NoPending /\ Resolving
               /\ pending' # NoPending => pending'.step - consumed' \in 1..Len(queue')
    <2>1. queue[1].kind # "failed"
      BY <1>4, <1>6 DEF GetOutput, Raise
    <2>2. pending' = pending \/ pending' = NoPending
      BY <1>6, <2>1 DEF GetOutput, Resolve
    <2>3. \/ pending' = pending /\ ~Resolving
          \/ pending' = NoPending /\ Resolving
      BY <2>2 DEF Resolving
    <2>4. Running'
      BY <1>2, <1>6 DEF IInv
    <2>5. consumed' = consumed + 1
      <3>1. steps' = consumed' + Len(queue') + InHand'
        BY <2>4 DEF Running, QueueInOrder
      <3>2. InHand' = InHand /\ steps' = steps
        BY <1>1 DEF InHand
      <3>3. steps = consumed + Len(queue) + InHand /\ InHand \in {0, 1} /\ consumed \in Nat
        BY <1>1, AgreementFacts
      <3>4. consumed' \in Nat
        BY <1>3 DEF TypeOK
      <3> QED
        BY <1>4, <3>1, <3>2, <3>3, <3>4
    <2>6. ASSUME pending' # NoPending PROVE pending'.step - consumed' \in 1..Len(queue')
      <3>1. PICK i \in 1..Len(queue') : queue'[i] = Async(pending'.step, pendingSerial')
        BY <2>4, <2>6 DEF Running, PendingQueued
      <3>2. queue'[i].step = consumed' + i
        BY <2>4 DEF Running, QueueInOrder
      <3>3. queue'[i].step = pending'.step
        BY <3>1 DEF Async
      <3>4. consumed' \in Nat
        BY <1>3 DEF TypeOK
      <3>5. i = pending'.step - consumed'
        BY <3>2, <3>3, <3>4
      <3> QED
        BY <3>5
    <2> QED
      BY <2>1, <2>3, <2>5, <2>6
  <1> QED
    BY <1>1, <1>3, <1>5, <1>6

(* A read that meets the failed step's output stops the engine and touches *)
(* nothing else.                                                           *)
LEMMA ReadFailureRInv ==
    ASSUME IInv, RInv, NEW complete \in SUBSET Req, ReadOutput(complete),
           raised' # "none"
    PROVE  RInv'
  <1>1. ~Resolving /\ UNCHANGED <<pending, stepEligible, phase>>
    BY ReadMoves DEF ReadOutput
  <1>2. /\ UNCHANGED <<states, entries, batch, accept, delivered, status, computed,
                       finishedIds, seqLen, awaiting, exec, kv>>
        /\ fault' = "none"
    <2>1. Backfill(states) = states /\ ~Overwritten(states) /\ fault = "none"
      BY <1>1, BackfilledStates DEF RInv
    <2> QED
      BY <1>1, <2>1 DEF ReadOutput
  <1>3. TokensTrue' /\ PlaceholderOwned' /\ EntriesOwned' /\ NoLeak'
    BY <1>1, <1>2, StateFrame DEF RInv
  <1>4. RunnerTypeOK' /\ ForwardSound'
    BY <1>2 DEF RInv, RunnerTypeOK, ForwardSound
  <1>5. Ledger'
    BY <1>2, <1>3 DEF RInv, Ledger, Unread
  <1> QED
    BY <1>2, <1>3, <1>4, <1>5 DEF RInv

(* A read that returns a step's output hands every request that still      *)
(* wants one its next true token.                                          *)
LEMMA ReadSuccessRInv ==
    ASSUME IInv, RInv, NEW complete \in SUBSET Req, ReadOutput(complete),
           raised' = "none"
    PROVE  RInv'
  <1> DEFINE filled == FillBatch(batch)
             wants == Head(accept)
             out == filled[consumed' - consumed]
  <1>1. /\ Quiet /\ GetOutput /\ raised = "none"
        /\ states' = Backfill(states)
        /\ fault' = IF Overwritten(states) THEN "state desync" ELSE fault
        /\ entries' = IF Resolving THEN <<>> ELSE entries
        /\ complete \subseteq wants
        /\ delivered' = [r \in Req |->
              IF r \in wants THEN Append(delivered[r], out[r]) ELSE delivered[r]]
        /\ status' = [r \in Req |-> IF r \in complete THEN "absent" ELSE status[r]]
        /\ computed' = [r \in Req |-> IF r \in complete THEN 0 ELSE computed[r]]
        /\ finishedIds' = finishedIds \cup complete
        /\ batch' = Tail(filled)
        /\ accept' = [i \in DOMAIN Tail(accept) |-> Tail(accept)[i] \ complete]
        /\ UNCHANGED <<seqLen, awaiting, exec, kv>>
    BY DEF ReadOutput, Finish, Quiet
  <1>2. /\ queue # <<>> /\ queue' = Tail(queue)
        /\ UNCHANGED <<stepEligible, phase, current, sampleFailure>>
        /\ phase = "execute" \/ ~stepEligible
        /\ queue[1].kind # "failed" /\ consumed' = consumed + 1
        /\ \/ pending' = pending /\ ~Resolving
           \/ pending' = NoPending /\ Resolving
        /\ pending' # NoPending => pending'.step - consumed' \in 1..Len(queue')
    BY <1>1, ReadMoves
  <1>3. RunnerTypeOK /\ Ledger /\ TokensTrue /\ EntriesOwned
        /\ PlaceholderOwned /\ ForwardSound /\ fault = "none"
    BY DEF RInv
  (* The sequences that lose their head. *)
  <1>4. /\ Len(queue) \in Nat /\ Len(batch) \in Nat /\ Len(accept) \in Nat
        /\ InHand \in {0, 1} /\ consumed \in Nat /\ Len(accept) <= 2 /\ Len(queue) > 0
        /\ Len(batch) = Len(queue) + InHand /\ Len(accept) = Len(queue) + InHand
        /\ Len(queue') = Len(queue) - 1
        /\ \A k \in 1..Len(queue') : queue'[k] = queue[k + 1]
    BY <1>1, <1>2, AgreementFacts, RunningFacts, TailOutput
  <1>a. Len(accept) > 0 /\ Len(batch) > 0 /\ Len(accept) - 1 \in Nat
    BY <1>4
  <1>5. /\ accept \in Seq(SUBSET Req) /\ DOMAIN accept = 1..Len(accept)
        /\ wants = accept[1] /\ wants \subseteq Req
        /\ \A k \in 1..Len(accept) : accept[k] \subseteq Req
        /\ accept' \in Seq(SUBSET Req)
        /\ Len(accept') = Len(accept) - 1
        /\ DOMAIN accept' = 1..(Len(accept) - 1)
        /\ \A k \in 1..(Len(accept) - 1) : accept'[k] = accept[k + 1] \ complete
    <2>1. accept \in Seq(SUBSET Req) /\ accept # <<>>
      BY <1>3, <1>4 DEF RunnerTypeOK
    <2>2. /\ Tail(accept) \in Seq(SUBSET Req) /\ Len(Tail(accept)) = Len(accept) - 1
          /\ DOMAIN Tail(accept) = 1..(Len(accept) - 1)
          /\ \A k \in 1..(Len(accept) - 1) : Tail(accept)[k] = accept[k + 1]
          /\ DOMAIN accept = 1..Len(accept) /\ wants = accept[1]
          /\ \A k \in 1..Len(accept) : accept[k] \subseteq Req
      BY <2>1
    <2>4. \A k \in 1..(Len(accept) - 1) : accept'[k] = accept[k + 1] \ complete
      BY <1>1, <2>2
    <2>5. \A k \in 1..(Len(accept) - 1) : accept[k + 1] \subseteq Req
      BY <1>4, <2>2
    <2>6. /\ DOMAIN accept' = 1..(Len(accept) - 1) /\ Len(accept) - 1 \in Nat
          /\ accept' = [i \in 1..(Len(accept) - 1) |-> accept'[i]]
      BY <1>1, <1>a, <2>2
    <2>7. accept' \in [1..(Len(accept) - 1) -> SUBSET Req]
      BY <2>4, <2>5, <2>6
    <2>3. /\ accept' \in Seq(SUBSET Req) /\ Len(accept') = Len(accept) - 1
          /\ DOMAIN accept' = 1..(Len(accept) - 1)
      BY <2>6, <2>7
    <2> QED
      BY <1>4, <2>1, <2>2, <2>3, <2>4
  <1>6. /\ ~Overwritten(states)
        /\ \A r \in Req :
             /\ Len(states'[r].tokens) = Len(states[r].tokens)
             /\ states'[r].gen = states[r].gen
             /\ states'[r] = NoState <=> states[r] = NoState
             /\ \A i \in 1..Len(states[r].tokens) :
                  /\ states'[r].tokens[i] \in {i, Hole}
                  /\ Resolving \/ entries = <<>> => states'[r].tokens[i] = i
        /\ ~Resolving => states' = states
        /\ states' \in [Req -> RequestState]
    BY <1>1, BackfilledStates
  <1>7. /\ filled \in Seq(Outputs) /\ Len(filled) = Len(batch)
        /\ \A k \in 1..Len(batch) : DOMAIN filled[k] = DOMAIN batch[k]
        /\ \A k \in 1..Len(batch) : \A r \in DOMAIN batch[k] :
             (Resolving \/ pending = NoPending \/ k # pending.step - consumed)
                 => filled[k][r] = OutValue(k, r)
    <2>1. CASE Resolving \/ pending = NoPending
      BY <1>1, <2>1, FillFacts
    <2>2. CASE ~Resolving
      <3>1. filled = batch
        BY <2>2 DEF FillBatch
      <3>2. batch \in Seq(Outputs)
        BY <1>3 DEF RunnerTypeOK
      <3> QED
        BY <2>2, <3>1, <3>2 DEF OutValue
    <2> QED
      BY <2>1, <2>2
  <1>8. /\ batch' \in Seq(Outputs) /\ Len(batch') = Len(batch) - 1
        /\ DOMAIN batch' = 1..(Len(batch) - 1)
        /\ \A k \in 1..(Len(batch) - 1) : batch'[k] = filled[k + 1]
        /\ DOMAIN batch = 1..Len(batch)
    <2>1. batch \in Seq(Outputs) /\ filled # <<>>
      BY <1>3, <1>4, <1>7 DEF RunnerTypeOK
    <2>2. batch' = Tail(filled)
      BY <1>1
    <2> HIDE DEF filled, Outputs
    <2> QED
      BY <1>4, <1>7, <1>a, <2>1, <2>2
  <1> HIDE DEF filled
  (* The token read is the one due. *)
  <1>9. ASSUME NEW r \in wants
        PROVE  out[r] = Known(r) + 1 /\ r \in Req /\ status[r] \in {"running", "preempted"}
    <2>1. 1 \in 1..Len(queue) /\ 1 \in 1..Len(accept) /\ 1 \in 1..Len(batch)
      BY <1>4
    <2>2. r \in accept[1] /\ r \in Req /\ r \in DOMAIN batch[1]
      BY <1>1, <1>5, <2>1, AgreementFacts DEF Aligned
    <2>3. OutValue(1, r) = Due(1, r)
      BY <1>1, <1>2, <2>1, <2>2, AgreementFacts DEF OutputsDue
    <2>4. consumed' - consumed = 1
      BY <1>2, <1>4
    <2>5. Resolving \/ pending = NoPending \/ 1 # pending.step - consumed
      <3> SUFFICES ASSUME ~Resolving, pending # NoPending PROVE 1 # pending.step - consumed
        OBVIOUS
      <3>1. pending.step - consumed' \in 1..Len(queue') /\ pending.step \in Nat
        BY <1>1, <1>2, AgreementFacts
      <3> QED
        BY <1>2, <1>4, <3>1
    <2>6. out[r] = OutValue(1, r)
      BY <1>7, <2>1, <2>2, <2>4, <2>5
    <2> QED
      BY <1>3, <2>1, <2>2, <2>3, <2>6 DEF Due, Ledger
  <1>10. ASSUME NEW r \in Req
         PROVE  /\ Known(r) \in Nat /\ Known(r) = PromptLen + Len(delivered[r])
                /\ delivered[r] \in Seq(Int) /\ delivered'[r] \in Seq(Int)
                /\ Known(r)' = Known(r) + IF r \in wants THEN 1 ELSE 0
                /\ r \notin wants => delivered'[r] = delivered[r]
                /\ r \in wants => delivered'[r] = Append(delivered[r], Known(r) + 1)
    <2>1. delivered[r] \in Seq(Int) /\ PromptLen \in Nat /\ Known(r) \in Nat
          /\ Known(r) = PromptLen + Len(delivered[r])
      BY <1>1, <1>3, LenAssumption, TotalFacts DEF RunnerTypeOK
    <2>2. r \notin wants => delivered'[r] = delivered[r]
      BY <1>1
    <2>3. r \in wants => delivered'[r] = Append(delivered[r], Known(r) + 1)
      BY <1>1, <1>9
    <2>5. Known(r)' = PromptLen + Len(delivered'[r])
      BY DEF Known
    <2>4. /\ delivered'[r] \in Seq(Int)
          /\ Known(r)' = Known(r) + IF r \in wants THEN 1 ELSE 0
      <3>1. CASE r \in wants
        <4>1. delivered'[r] = Append(delivered[r], Known(r) + 1)
          BY <2>3, <3>1
        <4>2. Len(delivered'[r]) = Len(delivered[r]) + 1 /\ delivered'[r] \in Seq(Int)
          BY <2>1, <4>1
        <4> HIDE DEF wants
        <4> QED
          BY <2>1, <2>5, <3>1, <4>2
      <3>2. CASE r \notin wants
        <4>1. delivered'[r] = delivered[r]
          BY <2>2, <3>2
        <4> HIDE DEF wants
        <4> QED
          BY <2>1, <2>5, <3>2, <4>1
      <3> QED
        BY <3>1, <3>2
    <2> QED
      BY <2>1, <2>2, <2>3, <2>4
  <1>11. ASSUME NEW r \in Req, r \notin complete
         PROVE  Total(r)' = Total(r)
    <2>1. Total(r) = Known(r) + In(accept, 1, r) + In(accept, 2, r)
      BY <1>1, TotalFacts
    <2>2. Inflight(r)' = In(accept', 1, r) + In(accept', 2, r)
      <3>1. Len(accept) - 1 \in Nat /\ Len(accept) - 1 <= 2
        BY <1>4
      <3> QED
        BY <1>5, <3>1, CountTwo DEF Inflight
    <2>3. In(accept, 1, r) = IF r \in wants THEN 1 ELSE 0
      BY <1>4, <1>5 DEF In
    <2>4. In(accept', 2, r) = 0
      BY <1>4, <1>5 DEF In
    <2>5. In(accept', 1, r) = In(accept, 2, r)
      <3>1. CASE Len(accept) = 2
        BY <1>5, <1>11, <3>1 DEF In
      <3>2. CASE Len(accept) = 1
        BY <1>5, <3>2 DEF In
      <3> QED
        BY <1>4, <3>1, <3>2
    <2>6. In(accept, 2, r) \in {0, 1}
      BY DEF In
    <2> QED
      BY <1>10, <2>1, <2>2, <2>3, <2>4, <2>5, <2>6 DEF Total
  <1>12. \A r \in Req :
           /\ r \in complete => status'[r] = "absent" /\ Gone(r)' /\ status[r] \in {"running", "preempted"}
           /\ r \notin complete => status'[r] = status[r] /\ computed'[r] = computed[r]
                                   /\ (Gone(r)' <=> Gone(r))
    BY <1>1, <1>9 DEF Gone
  <1>13. RunnerTypeOK'
    <2>1. entries' \in Seq(EntryRows)
      <3>1. entries \in Seq(EntryRows) /\ <<>> \in Seq(EntryRows)
        BY <1>3 DEF RunnerTypeOK
      <3> QED
        BY <1>1, <3>1
    <2>2. delivered' \in [Req -> Seq(Int)]
      BY <1>1, <1>10
    <2> QED
      BY <1>1, <1>3, <1>5, <1>6, <1>8, <2>1, <2>2 DEF RunnerTypeOK
  <1>14. Ledger'
    <2>1. ASSUME NEW r \in Req, Unread(r)' PROVE Unread(r)
      <3>1. PICK k \in 1..(Len(batch) - 1) : r \in DOMAIN batch'[k]
        BY <1>8, <2>1 DEF Unread
      <3>2. k + 1 \in 1..Len(batch)
        BY <1>4
      <3>3. r \in DOMAIN batch[k + 1]
        BY <1>7, <1>8, <3>1, <3>2
      <3> QED
        BY <1>8, <3>2, <3>3 DEF Unread
    <2>2. NoLeak'
      <3>1. NoLeak
        BY <1>3 DEF Ledger
      <3> QED
        BY <1>1, <1>6, <1>12, <3>1 DEF NoLeak
    <2>3. ASSUME NEW k \in 1..Len(accept'), NEW r \in accept'[k]
          PROVE  status'[r] \in {"running", "preempted"}
      <3>1. k \in 1..(Len(accept) - 1) /\ k + 1 \in 1..Len(accept)
        BY <1>4, <1>5
      <3>2. r \in accept[k + 1] /\ r \notin complete /\ r \in Req
        BY <1>5, <2>3, <3>1
      <3> QED
        BY <1>3, <1>12, <3>1, <3>2 DEF Ledger
    <2>4. awaiting \subseteq Req
      BY <1>3 DEF RunnerTypeOK
    <2>5. \A r \in Req : status'[r] \in {"running", "preempted"} => r \notin finishedIds'
      BY <1>1, <1>3, <1>12 DEF Ledger
    <2>6. \A r \in Req : status'[r] = "preempted" => r \in awaiting' /\ states'[r] # NoState
      BY <1>1, <1>3, <1>6, <1>12 DEF Ledger
    <2>7. \A r \in awaiting' : status'[r] = "preempted" \/ r \in finishedIds'
      BY <1>1, <1>3, <1>12, <2>4 DEF Ledger
    <2>8. \A r \in Req : status'[r] = "waiting" => delivered'[r] = <<>> /\ ~Unread(r)'
      BY <1>3, <1>9, <1>10, <1>12, <2>1 DEF Ledger
    <2> QED
      BY <2>2, <2>3, <2>5, <2>6, <2>7, <2>8 DEF Ledger
  <1>15. TokensTrue'
    <2>1. ASSUME NEW r \in Req, NEW i \in 1..Len(delivered'[r])
          PROVE  delivered'[r][i] = PromptLen + i
      <3>1. \A j \in 1..Len(delivered[r]) : delivered[r][j] = PromptLen + j
        BY <1>3 DEF TokensTrue
      <3>2. CASE r \in wants
        <4>1. delivered'[r] = Append(delivered[r], Known(r) + 1)
              /\ delivered[r] \in Seq(Int) /\ Known(r) = PromptLen + Len(delivered[r])
              /\ Known(r) \in Nat /\ PromptLen \in Nat
          BY <1>10, <3>2, LenAssumption
        <4>2. Len(delivered'[r]) = Len(delivered[r]) + 1 /\ Len(delivered[r]) \in Nat
          BY <4>1
        <4>3. CASE i \in 1..Len(delivered[r])
          BY <3>1, <4>1, <4>3
        <4>4. CASE i = Len(delivered[r]) + 1
          BY <4>1, <4>4
        <4> QED
          BY <2>1, <4>2, <4>3, <4>4
      <3>3. CASE r \notin wants
        BY <1>10, <2>1, <3>1, <3>3
      <3> QED
        BY <3>2, <3>3
    <2> QED
      BY <1>3, <1>6, <2>1 DEF TokensTrue
  <1>16. EntriesOwned' /\ PlaceholderOwned'
    <2>1. CASE Resolving
      <3>1. entries' = <<>> /\ pending' = NoPending
        BY <1>1, <1>2, <2>1
      <3>2. EntriesOwned'
        BY <3>1 DEF EntriesOwned, EntryReqs, NoPending
      <3>3. ASSUME NEW r \in Req, NEW i \in DOMAIN states'[r].tokens
            PROVE  states'[r].tokens[i] # Hole
        <4>1. i \in 1..Len(states[r].tokens) /\ Len(states[r].tokens) \in Nat
          <5>1. states'[r] \in RequestState /\ Len(states'[r].tokens) = Len(states[r].tokens)
            BY <1>6
          <5>2. states'[r].tokens \in Seq(Int)
            BY <5>1, NoStateIff
          <5> QED
            BY <3>3, <5>1, <5>2
        <4> QED
          BY <1>6, <2>1, <4>1 DEF Hole
      <3> QED
        BY <3>1, <3>2, <3>3 DEF PlaceholderOwned
    <2>2. CASE ~Resolving
      <3>1. UNCHANGED <<entries, pending, states>> /\ entries \in Seq(EntryRows)
        BY <1>1, <1>2, <1>3, <1>6, <2>2 DEF RunnerTypeOK
      <3>2. PlaceholderOwned'
        BY <1>3, <3>1 DEF PlaceholderOwned
      <3>3. EntryReqs \subseteq Req
        BY <1>1, RowsUnread
      <3> QED
        BY <1>2, <1>3, <1>12, <3>1, <3>2, <3>3, EntriesFrame
    <2> QED
      BY <2>1, <2>2
  <1>17. ForwardSound'
    BY <1>1, <1>3 DEF ForwardSound
  <1>18. ExecReqs' = ExecReqs /\ InHand' = InHand
    BY <1>1, <1>2 DEF ExecReqs, DecodeReqs, PrefillReqs, InHand
  <1>19. Aligned'
    <2>1. Aligned
      BY <1>1, AgreementFacts
    <2>2. ASSUME NEW k \in 1..Len(batch')
          PROVE  /\ k + 1 \in 1..Len(batch) /\ DOMAIN batch'[k] = DOMAIN batch[k + 1]
                 /\ accept'[k] \subseteq accept[k + 1]
      BY <1>4, <1>5, <1>7, <1>8
    <2>3. \A k \in 1..Len(batch') : accept'[k] \subseteq DOMAIN batch'[k]
      BY <1>4, <2>1, <2>2 DEF Aligned
    <2>4. ASSUME pending' # NoPending, NEW k \in 1..Len(queue'),
                 k = pending'.step - consumed'
          PROVE  DOMAIN batch'[k] = pending'.reqs
      <3>0. pending' = pending /\ pending.step \in Nat
        BY <1>1, <1>2, <2>4, AgreementFacts
      <3>1. pending' = pending /\ k + 1 = pending.step - consumed
        BY <1>2, <1>4, <2>4, <3>0
      <3>2. k + 1 \in 1..Len(queue) /\ k \in 1..Len(batch')
        BY <1>4, <1>8
      <3> QED
        BY <1>1, <2>2, <2>4, <3>1, <3>2, AgreementFacts
    <2>5. phase' = "sample" => DOMAIN batch'[Len(batch')] = ExecReqs'
      <3> SUFFICES ASSUME phase = "sample" PROVE DOMAIN batch'[Len(batch')] = ExecReqs'
        BY <1>2
      <3>1. InHand = 1
        BY DEF InHand
      <3>2. Len(batch') \in 1..Len(batch') /\ Len(batch') + 1 = Len(batch)
        BY <1>4, <1>8, <3>1
      <3> QED
        BY <1>18, <2>1, <2>2, <3>2 DEF Aligned
    <2> QED
      BY <1>4, <1>5, <1>8, <1>18, <2>3, <2>4, <2>5 DEF Aligned
  <1>20. OutputsDue'
    <2> SUFFICES ASSUME NEW k \in 1..Len(queue'), queue'[k].kind # "failed",
                        NEW r \in accept'[k]
                 PROVE  OutValue(k, r)' = Due(k, r)'
      BY DEF OutputsDue
    <2>1. k = 1 /\ 2 \in 1..Len(queue) /\ 2 \in 1..Len(accept) /\ 2 \in 1..Len(batch)
          /\ queue[2].kind # "failed"
      BY <1>4
    <2>2. r \in accept[2] /\ r \notin complete /\ r \in Req /\ r \in DOMAIN batch[2]
      <3>1. accept'[1] = accept[2] \ complete /\ accept[2] \subseteq Req
        BY <1>4, <1>5, <2>1
      <3>2. accept[2] \subseteq DOMAIN batch[2]
        BY <1>1, <2>1, AgreementFacts DEF Aligned
      <3> QED
        BY <2>1, <3>1, <3>2
    <2>3. OutValue(2, r) = Due(2, r)
      BY <1>1, <2>1, <2>2, AgreementFacts DEF OutputsDue
    <2>4. Due(1, r)' = Due(2, r)
      BY <1>5, <1>10, <2>1, <2>2 DEF Due
    <2>5. batch'[1][r] = filled[2][r]
      BY <1>4, <1>8, <2>1
    <2>6. CASE Resolving \/ pending = NoPending
      <3>1. pending' = NoPending
        BY <1>2, <2>6
      <3>2. OutValue(1, r)' = batch'[1][r]
        BY <3>1 DEF OutValue
      <3> QED
        BY <1>7, <2>1, <2>2, <2>3, <2>4, <2>5, <2>6, <3>2
    <2>7. CASE ~Resolving /\ pending # NoPending
      <3>1. pending' = pending /\ entries' = entries
        BY <1>1, <1>2, <2>7
      <3>2. (1 = pending'.step - consumed') <=> (2 = pending.step - consumed)
        <4>1. pending.step \in Nat
          BY <1>1, AgreementFacts
        <4> QED
          BY <1>2, <1>4, <3>1, <4>1
      <3>3. CASE 2 = pending.step - consumed
        BY <2>1, <2>3, <2>4, <2>7, <3>1, <3>2, <3>3 DEF OutValue, RowOf
      <3>4. CASE 2 # pending.step - consumed
        <4>1. filled[2][r] = OutValue(2, r)
          BY <1>7, <2>1, <2>2, <3>4
        <4>2. OutValue(1, r)' = batch'[1][r]
          BY <3>2, <3>4 DEF OutValue
        <4> QED
          BY <2>1, <2>3, <2>4, <2>5, <4>1, <4>2
      <3> QED
        BY <3>3, <3>4
    <2> QED
      BY <2>6, <2>7
  <1>21. RunnersSettled'
    <2> SUFFICES ASSUME NEW r \in Req, status'[r] = "running", Idle(r)'
                 PROVE  Settled(r)'
      BY DEF RunnersSettled
    <2>1. r \notin complete /\ status[r] = "running" /\ computed'[r] = computed[r]
      BY <1>12
    <2>2. Idle(r)
      BY <1>2, <1>18 DEF Idle
    <2> QED
      BY <1>1, <1>6, <1>11, <2>1, <2>2, SettledFrame
  <1>22. ExecDue'
    <2>1. CASE phase = "execute"
      <3>1. exec' = NoExec /\ phase' = "execute"
        BY <1>1, <1>2, <2>1, AgreementFacts DEF ExecDue
      <3>2. exec'.decode = <<>> /\ exec'.prefill = {}
        BY <3>1 DEF NoExec
      <3> QED
        BY <3>1, <3>2 DEF ExecDue
    <2>2. CASE phase = "sample"
      <3>1. entries = <<>>
        BY <1>2, <1>3, <2>2 DEF EntriesOwned
      <3>2. states' = states
        <4>1. \A r \in Req : ~Owns(r)
          BY <3>1 DEF Owns
        <4>2. states = [r \in Req |-> states[r]]
          BY <1>3 DEF RunnerTypeOK
        <4> QED
          BY <1>1, <4>1, <4>2 DEF Backfill
      <3>3. ExecReqs \subseteq Req
        BY <1>1, RowsUnread
      <3>4. \A r : r \in accept'[Len(accept')] => r \in accept[Len(accept)]
        <4>1. InHand = 1
          BY <2>2 DEF InHand
        <4>2. Len(accept') \in 1..(Len(accept) - 1) /\ Len(accept') + 1 = Len(accept)
          BY <1>4, <1>5, <4>1
        <4> QED
          BY <1>5, <4>2
      <3>5. ASSUME NEW r \in ExecReqs
            PROVE  /\ status[r] = "running" => status'[r] = "running" \/ Gone(r)'
                   /\ Gone(r) => Gone(r)'
                   /\ status'[r] = "running" =>
                        /\ status[r] = "running" /\ computed'[r] = computed[r]
                        /\ Total(r)' = Total(r)
                        /\ r \in accept'[Len(accept')] => r \in accept[Len(accept)]
        <4>1. CASE r \in complete
          BY <1>12, <3>3, <4>1
        <4>2. CASE r \notin complete
          BY <1>11, <1>12, <3>3, <3>4, <4>2
        <4> QED
          BY <4>1, <4>2
      <3> QED
        BY <1>1, <1>2, <3>2, <3>5, ExecFrame
    <2> QED
      BY <1>1, <2>1, <2>2, RunningFacts DEF TypeOK
  <1>23. (sampleFailure => phase = "execute")'
    BY <1>1, <1>2 DEF RInv, Agreement
  <1> QED
    BY <1>1, <1>3, <1>6, <1>13, <1>14, <1>15, <1>16, <1>17, <1>19, <1>20, <1>21, <1>22, <1>23
    DEF RInv, Agreement

-----------------------------------------------------------------------------
(* A request has one row in the executed step, of one kind.                *)
LEMMA ExecRows ==
    ASSUME IInv, RInv, raised = "none"
    PROVE  /\ \A i \in 1..Len(exec.decode) :
                /\ exec.decode[i].req \in DecodeReqs
                /\ DecodeValue(exec.decode[i].req) = exec.decode[i].value
                /\ DecodeRowDue(exec.decode[i])
           /\ \A r \in DecodeReqs :
                /\ r \in Req
                /\ \E i \in 1..Len(exec.decode) : exec.decode[i].req = r
           /\ \A row \in exec.prefill :
                /\ row \in PrefillRows
                /\ row.req \notin DecodeReqs
                /\ HasRow(exec.prefill, row.req) /\ RowFor(exec.prefill, row.req) = row
                /\ PrefillRowDue(row)
           /\ \A row \in FinalRows :
                HasRow(FinalRows, row.req) /\ RowFor(FinalRows, row.req) = row
           /\ \A r : HasRow(exec.prefill, r) <=> r \in PrefillReqs
           /\ \A row \in exec.prefill : row.mode = "intermediate" => ~HasRow(FinalRows, row.req)
           /\ \A r : HasRow(FinalRows, r) => r \in PrefillReqs
  <1>1. /\ ExecDue /\ DOMAIN exec.decode = 1..Len(exec.decode)
        /\ exec.prefill \subseteq PrefillRows
    BY AgreementFacts DEF RunnerTypeOK
  <1>2. \A i, j \in 1..Len(exec.decode) : exec.decode[i].req = exec.decode[j].req => i = j
    BY <1>1 DEF ExecDue
  <1>3. \A p, q \in exec.prefill : p.req = q.req => p = q
    BY <1>1 DEF ExecDue
  <1>4. ASSUME NEW i \in 1..Len(exec.decode)
        PROVE  DecodeValue(exec.decode[i].req) = exec.decode[i].value
    <2>1. exec.decode[i] \in RowSet(exec.decode)
      BY <1>1 DEF RowSet
    <2>2. \A row \in RowSet(exec.decode) : row.req = exec.decode[i].req => row = exec.decode[i]
      BY <1>1, <1>2 DEF RowSet
    <2>3. RowFor(RowSet(exec.decode), exec.decode[i].req) = exec.decode[i]
      BY <2>1, <2>2 DEF RowFor
    <2> QED
      BY <2>3 DEF DecodeValue
  <1>5. \A r \in DecodeReqs :
          /\ r \in Req
          /\ \E i \in 1..Len(exec.decode) : exec.decode[i].req = r
    BY <1>1, RowsUnread DEF DecodeReqs, ExecReqs
  <1>6. ASSUME NEW row \in exec.prefill
        PROVE  HasRow(exec.prefill, row.req) /\ RowFor(exec.prefill, row.req) = row
    BY <1>3 DEF HasRow, RowFor
  <1>7. ASSUME NEW row \in FinalRows
        PROVE  HasRow(FinalRows, row.req) /\ RowFor(FinalRows, row.req) = row
    <2>1. FinalRows \subseteq exec.prefill
      BY DEF FinalRows
    <2> QED
      BY <1>3, <2>1 DEF HasRow, RowFor
  <1>8. \A r : HasRow(exec.prefill, r) <=> r \in PrefillReqs
    BY DEF HasRow, PrefillReqs
  <1>9. \A row \in exec.prefill : row.mode = "intermediate" => ~HasRow(FinalRows, row.req)
    BY <1>3 DEF HasRow, FinalRows
  <1>10. \A r : HasRow(FinalRows, r) => r \in PrefillReqs
    BY DEF HasRow, FinalRows, PrefillReqs
  <1>11. \A i \in 1..Len(exec.decode) :
           exec.decode[i].req \in DecodeReqs /\ DecodeRowDue(exec.decode[i])
    BY <1>1 DEF DecodeReqs, ExecDue
  <1>12. \A row \in exec.prefill : row.req \notin DecodeReqs /\ PrefillRowDue(row)
    BY <1>1 DEF ExecDue
  <1> QED
    BY <1>1, <1>4, <1>5, <1>6, <1>7, <1>8, <1>9, <1>10, <1>11, <1>12

(* The token the step in hand yields for a running request is its next.    *)
LEMMA DueOfLast ==
    ASSUME IInv, RInv, raised = "none", phase = "sample",
           NEW r \in accept[Len(accept)]
    PROVE  /\ r \in Req /\ r \in ExecReqs
           /\ status[r] = "running"
           /\ Len(accept) = Len(queue) + 1 /\ Len(batch) = Len(queue) + 1
           /\ Due(Len(queue) + 1, r) = Total(r)
  <1>1. InHand = 1
    BY DEF InHand
  <1>2. /\ Len(accept) = Len(queue) + 1 /\ Len(batch) = Len(queue) + 1
        /\ Len(queue) \in Nat /\ Len(accept) <= 2 /\ Aligned
        /\ DOMAIN accept = 1..Len(accept)
    BY <1>1, AgreementFacts
  <1>3. Len(accept) \in 1..Len(accept) /\ Len(accept) \in 1..Len(batch)
    BY <1>2
  <1>4. r \in ExecReqs
    BY <1>2, <1>3 DEF Aligned
  <1>5. r \in Req
    BY <1>4, RowsUnread
  <1>6. status[r] \in {"running", "preempted"}
    BY <1>3 DEF RInv, Ledger
  <1>7. status[r] = "running" \/ Gone(r)
    <2>1. CASE r \in DecodeReqs
      BY <2>1, ExecRows DEF DecodeRowDue
    <2>2. CASE r \in PrefillReqs
      BY <2>2, ExecRows DEF PrefillRowDue, PrefillReqs
    <2> QED
      BY <1>4, <2>1, <2>2 DEF ExecReqs
  <1>8. Total(r) = Known(r) + In(accept, 1, r) + In(accept, 2, r) /\ Known(r) \in Nat
    BY <1>5, TotalFacts
  <1>9. Due(Len(queue) + 1, r) = Total(r)
    <2>1. CASE Len(queue) = 0
      <3>1. In(accept, 1, r) = 1 /\ In(accept, 2, r) = 0
        BY <1>2, <2>1 DEF In
      <3> QED
        BY <1>8, <2>1, <3>1 DEF Due
    <2>2. CASE Len(queue) = 1
      <3>1. In(accept, 2, r) = 1 /\ In(accept, 1, r) = IF r \in accept[1] THEN 1 ELSE 0
        BY <1>2, <2>2 DEF In
      <3> QED
        BY <1>8, <2>2, <3>1 DEF Due
    <2>3. Len(queue) \in Nat /\ Len(queue) <= 1
      BY <1>2
    <2>4. Len(queue) \in {0, 1}
      BY <2>3, AtMostOne
    <2> QED
      BY <2>1, <2>2, <2>4
  <1> QED
    BY <1>2, <1>4, <1>5, <1>6, <1>7, <1>9 DEF Gone

(* What a synchronous sample makes of a request, by the kind of its row.   *)
LEMMA SampledCases ==
    ASSUME IInv, RInv, raised = "none", phase = "sample", NEW r \in Req
    PROVE  /\ r \in DecodeReqs =>
                LET n == Len(states[r].tokens) IN
                /\ SampledState(r) = [tokens |-> Append(states[r].tokens, n + 1),
                                      gen |-> states[r].gen + 1]
                /\ SampledToken(r) = n + 1
                /\ SampledLen(r) = Advanced(r)
                /\ n >= PromptLen /\ (status[r] = "running" \/ Gone(r))
                /\ status[r] = "running" =>
                     /\ Position(seqLen, states, r) + 1 = n
                     /\ computed[r] = n /\ kv[r] = n /\ Total(r) = n + 1
           /\ \A row \in FinalRows : row.req = r =>
                /\ SampledState(r) = FinalState(row)
                /\ SampledToken(r) = row.target + 1
                /\ SampledLen(r) = row.target
           /\ \A row \in exec.prefill : row.req = r /\ row.mode = "intermediate" =>
                /\ SampledState(r) = states[r]
                /\ SampledToken(r) = NoToken
                /\ SampledLen(r) = row.target
           /\ r \notin ExecReqs =>
                /\ SampledState(r) = states[r]
                /\ SampledToken(r) = NoToken
                /\ SampledLen(r) = seqLen[r]
  <1>1. ASSUME r \in DecodeReqs
        PROVE  LET n == Len(states[r].tokens) IN
               /\ SampledState(r) = [tokens |-> Append(states[r].tokens, n + 1),
                                      gen |-> states[r].gen + 1]
               /\ SampledToken(r) = n + 1
               /\ SampledLen(r) = Advanced(r)
               /\ n >= PromptLen /\ (status[r] = "running" \/ Gone(r))
               /\ status[r] = "running" =>
                     /\ Position(seqLen, states, r) + 1 = n
                     /\ computed[r] = n /\ kv[r] = n /\ Total(r) = n + 1
    <2>1. PICK i \in 1..Len(exec.decode) : exec.decode[i].req = r
      BY <1>1, ExecRows
    <2>2. DecodeRowDue(exec.decode[i]) /\ DecodeValue(r) = exec.decode[i].value
      BY <2>1, ExecRows
    <2>3. DecodeValue(r) = Len(states[r].tokens) + 1
      BY <2>1, <2>2 DEF DecodeRowDue
    <2>4. /\ SampledState(r) = [tokens |-> Append(states[r].tokens, DecodeValue(r)),
                                gen |-> states[r].gen + 1]
          /\ SampledToken(r) = DecodeValue(r)
          /\ SampledLen(r) = Advanced(r)
      <3>1. \A row \in exec.prefill : row.req # r
        BY <1>1, ExecRows
      <3>2. ~HasRow(exec.prefill, r) /\ ~HasRow(FinalRows, r)
        BY <3>1 DEF HasRow, FinalRows
      <3> QED
        BY <1>1, <3>2 DEF SampledState, SampledToken, SampledLen
    <2> QED
      BY <2>1, <2>2, <2>3, <2>4 DEF DecodeRowDue
  <1>2. ASSUME NEW row \in FinalRows, row.req = r
        PROVE  /\ SampledState(r) = FinalState(row)
               /\ SampledToken(r) = row.target + 1
               /\ SampledLen(r) = row.target
    <2>1. row \in exec.prefill
      BY DEF FinalRows
    <2>2. /\ r \notin DecodeReqs /\ HasRow(FinalRows, r) /\ RowFor(FinalRows, r) = row
          /\ HasRow(exec.prefill, r) /\ RowFor(exec.prefill, r) = row
          /\ row.value = row.target + 1
      BY <1>2, <2>1, ExecRows DEF PrefillRowDue
    <2> QED
      BY <2>2 DEF SampledState, SampledToken, SampledLen
  <1>3. ASSUME NEW row \in exec.prefill, row.req = r, row.mode = "intermediate"
        PROVE  /\ SampledState(r) = states[r]
               /\ SampledToken(r) = NoToken
               /\ SampledLen(r) = row.target
    <2>1. /\ r \notin DecodeReqs /\ ~HasRow(FinalRows, r)
          /\ HasRow(exec.prefill, r) /\ RowFor(exec.prefill, r) = row
      BY <1>3, ExecRows
    <2> QED
      BY <2>1 DEF SampledState, SampledToken, SampledLen
  <1>4. ASSUME r \notin ExecReqs
        PROVE  /\ SampledState(r) = states[r]
               /\ SampledToken(r) = NoToken
               /\ SampledLen(r) = seqLen[r]
    <2>1. r \notin DecodeReqs /\ ~HasRow(FinalRows, r) /\ ~HasRow(exec.prefill, r)
      BY <1>4, ExecRows DEF ExecReqs
    <2> QED
      BY <2>1 DEF SampledState, SampledToken, SampledLen
  <1> QED
    BY <1>1, <1>2, <1>3, <1>4

(* The state a final prefill row leaves: one true token more than its      *)
(* chunk ends with.                                                        *)
LEMMA FinalStateTrue ==
    ASSUME IInv, RInv, raised = "none", phase = "sample", ~stepEligible, NEW row \in FinalRows
    PROVE  /\ FinalState(row) \in RequestState
           /\ Len(FinalState(row).tokens) = row.target + 1
           /\ \A i \in 1..(row.target + 1) : FinalState(row).tokens[i] = i
           /\ FinalState(row).gen # 0
           /\ row.target >= PromptLen
  <1>1. row \in exec.prefill /\ row.req \in Req /\ row.mode \in {"new_final", "cached_final"}
        /\ row.target \in Int /\ PrefillRowDue(row)
    BY ExecRows DEF FinalRows, PrefillRows, Modes
  <1>2. PromptLen \in Nat /\ PromptLen > 0 /\ row.value = row.target + 1
    BY <1>1, LenAssumption DEF PrefillRowDue
  <1> DEFINE toks == IF row.mode = "new_final" THEN Tokens(PromptLen)
                     ELSE states[row.req].tokens
  <1>3. /\ toks \in Seq(Int) /\ Len(toks) = row.target /\ row.target >= PromptLen
        /\ \A i \in 1..Len(toks) : toks[i] = i
    <2>1. CASE row.mode = "new_final"
      <3>1. row.target = PromptLen
        BY <1>1, <2>1 DEF PrefillRowDue
      <3> QED
        BY <1>2, <2>1, <3>1 DEF Tokens
    <2>2. CASE row.mode # "new_final"
      <3>1. Len(states[row.req].tokens) = row.target /\ states[row.req] # NoState
        BY <1>1, <2>2 DEF PrefillRowDue
      <3>2. states[row.req] \in RequestState /\ TokensTrue /\ PlaceholderOwned /\ entries = <<>>
        BY <1>1 DEF RInv, RunnerTypeOK, EntriesOwned
      <3>3. states[row.req].tokens \in Seq(Int)
        BY <3>2, NoStateIff
      <3>4. \A i \in 1..Len(states[row.req].tokens) : states[row.req].tokens[i] = i
        BY <1>1, <3>2, <3>3 DEF TokensTrue, PlaceholderOwned
      <3>5. row.target >= PromptLen
        BY <1>1, <3>1, <3>2 DEF TokensTrue
      <3> QED
        BY <2>2, <3>1, <3>3, <3>4, <3>5
    <2> QED
      BY <2>1, <2>2
  <1>4. FinalState(row) = [tokens |-> Append(toks, row.target + 1),
                           gen |-> Len(toks) + 1 - PromptLen]
    BY <1>2 DEF FinalState
  <1> HIDE DEF toks
  <1>5. /\ Append(toks, row.target + 1) \in Seq(Int)
        /\ Len(Append(toks, row.target + 1)) = row.target + 1
        /\ \A i \in 1..(row.target + 1) : Append(toks, row.target + 1)[i] = i
    BY <1>1, <1>3
  <1>6. Len(toks) + 1 - PromptLen \in Nat \ {0}
    BY <1>1, <1>2, <1>3
  <1> QED
    BY <1>3, <1>4, <1>5, <1>6 DEF RequestState

(* A synchronous sample extends every request of the step by its next true *)
(* token, and leaves the runner and the scheduler in agreement.            *)
LEMMA SampleStepRInv ==
    ASSUME IInv, RInv, SampleStep
    PROVE  RInv'
  <1>1. /\ raised = "none" /\ phase = "sample" /\ ~stepEligible /\ phase' = "execute"
        /\ queue' = Append(queue, Done(steps))
        /\ states' = [r \in Req |-> SampledState(r)]
        /\ seqLen' = [r \in Req |-> SampledLen(r)]
        /\ batch' = SetOutputs(batch)
        /\ exec' = NoExec
        /\ UNCHANGED <<awaiting, entries, fault, kv>>
        /\ UNCHANGED <<status, computed, delivered, accept, finishedIds>>
        /\ UNCHANGED <<pending, consumed, sampleFailure, raised, stepEligible>>
    BY DEF SampleStep, SampleSynchronous, Quiet, pipelineVars, schedulerVars
  <1>2. RunnerTypeOK /\ Ledger /\ TokensTrue /\ EntriesOwned
        /\ PlaceholderOwned /\ fault = "none" /\ entries = <<>>
    BY <1>1 DEF RInv, EntriesOwned
  <1>3. /\ Len(queue) \in Nat /\ Len(batch) = Len(queue) + 1 /\ Len(accept) = Len(queue) + 1
        /\ DOMAIN accept = 1..Len(accept) /\ DOMAIN batch = 1..Len(batch) /\ Aligned
    <2>1. InHand = 1
      BY <1>1 DEF InHand
    <2> QED
      BY <1>1, <2>1, AgreementFacts
  <1>4. ExecReqs = DecodeReqs \cup {row.req : row \in exec.prefill} /\ ExecReqs \subseteq Req
    BY <1>1, RowsUnread DEF ExecReqs, PrefillReqs
  (* The four kinds of request. *)
  <1>5. ASSUME NEW r \in Req
        PROVE  \/ r \in DecodeReqs
               \/ \E row \in FinalRows : row.req = r
               \/ \E row \in exec.prefill : row.req = r /\ row.mode = "intermediate"
               \/ r \notin ExecReqs
    BY <1>4 DEF FinalRows
  (* Every request's tokens stay the true ones. *)
  <1>6. ASSUME NEW r \in Req
        PROVE  /\ states'[r] \in RequestState
               /\ \A i \in 1..Len(states'[r].tokens) : states'[r].tokens[i] = i
               /\ states'[r] # NoState => Len(states'[r].tokens) >= PromptLen
               /\ seqLen'[r] \in Int /\ SampledToken(r) \in Int
               /\ r \notin ExecReqs => states'[r] = states[r] /\ seqLen'[r] = seqLen[r]
    <2>1. states'[r] = SampledState(r) /\ seqLen'[r] = SampledLen(r) /\ seqLen[r] \in Int
      BY <1>1, <1>2 DEF RunnerTypeOK
    <2>2. /\ states[r] \in RequestState /\ states[r].tokens \in Seq(Int)
          /\ states[r].gen \in Nat
          /\ \A i \in 1..Len(states[r].tokens) : states[r].tokens[i] = i
          /\ states[r] # NoState => Len(states[r].tokens) >= PromptLen
      <3>1. states[r] \in RequestState
        BY <1>2 DEF RunnerTypeOK
      <3>2. states[r].tokens \in Seq(Int) /\ states[r].gen \in Nat
        BY <3>1, NoStateIff
      <3>3. \A i \in 1..Len(states[r].tokens) : states[r].tokens[i] # Hole
        BY <1>2, <3>2 DEF PlaceholderOwned
      <3> QED
        BY <1>2, <3>1, <3>2, <3>3 DEF TokensTrue
    <2>3. CASE r \in DecodeReqs
      <3> DEFINE n == Len(states[r].tokens)
      <3>1. /\ SampledState(r) = [tokens |-> Append(states[r].tokens, n + 1),
                                  gen |-> states[r].gen + 1]
            /\ SampledToken(r) = n + 1 /\ SampledLen(r) = Advanced(r)
            /\ n >= PromptLen
        BY <1>1, <2>3, SampledCases
      <3>2. n \in Nat
        BY <2>2
      <3>3. Advanced(r) \in Int
        BY <2>1, <3>2 DEF Advanced, Position
      <3>4. /\ Append(states[r].tokens, n + 1) \in Seq(Int)
            /\ Len(Append(states[r].tokens, n + 1)) = n + 1
            /\ \A i \in 1..(n + 1) : Append(states[r].tokens, n + 1)[i] = i
        BY <2>2, <3>2
      <3>5. SampledState(r) \in RequestState
        BY <2>2, <3>1, <3>4 DEF RequestState
      <3>6. PromptLen \in Nat
        BY LenAssumption
      <3> QED
        BY <1>4, <2>1, <2>3, <3>1, <3>2, <3>3, <3>4, <3>5, <3>6
    <2>4. CASE \E row \in FinalRows : row.req = r
      <3>1. PICK row \in FinalRows : row.req = r
        BY <2>4
      <3>2. /\ SampledState(r) = FinalState(row) /\ SampledToken(r) = row.target + 1
            /\ SampledLen(r) = row.target
        BY <1>1, <3>1, SampledCases
      <3>3. row \in exec.prefill /\ row.target \in Int
        BY <1>1, ExecRows DEF FinalRows, PrefillRows
      <3>4. r \in ExecReqs
        BY <1>4, <3>1, <3>3
      <3>5. PromptLen \in Nat
        BY LenAssumption
      <3> QED
        BY <1>1, <2>1, <3>2, <3>3, <3>4, <3>5, FinalStateTrue
    <2>5. CASE \E row \in exec.prefill : row.req = r /\ row.mode = "intermediate"
      <3>1. PICK row \in exec.prefill : row.req = r /\ row.mode = "intermediate"
        BY <2>5
      <3>2. /\ SampledState(r) = states[r] /\ SampledToken(r) = NoToken
            /\ SampledLen(r) = row.target
        BY <1>1, <3>1, SampledCases
      <3>3. row.target \in Int /\ r \in ExecReqs
        BY <1>1, <1>4, <3>1, ExecRows DEF PrefillRows
      <3> QED
        BY <2>1, <2>2, <3>2, <3>3 DEF NoToken
    <2>6. CASE r \notin ExecReqs
      <3>1. /\ SampledState(r) = states[r] /\ SampledToken(r) = NoToken
            /\ SampledLen(r) = seqLen[r]
        BY <1>1, <2>6, SampledCases
      <3> QED
        BY <2>1, <2>2, <3>1 DEF NoToken
    <2> QED
      BY <1>5, <2>3, <2>4, <2>5, <2>6
  <1>7. /\ batch' \in Seq(Outputs) /\ Len(batch') = Len(batch)
        /\ \A k \in 1..Len(queue) : batch'[k] = batch[k]
        /\ batch'[Len(batch)] = SampledRow(ExecReqs)
        /\ DOMAIN batch[Len(batch)] = ExecReqs
    <2>1. Len(batch) \in 1..Len(batch) /\ DOMAIN batch[Len(batch)] = ExecReqs
      BY <1>1, <1>3 DEF Aligned
    <2>2. SampledRow(ExecReqs) \in Outputs
      <3>1. SampledRow(ExecReqs) \in [ExecReqs -> Int]
        BY <1>4, <1>6 DEF SampledRow
      <3> QED
        BY <1>4, <3>1 DEF Outputs
    <2>3. batch' = [batch EXCEPT ![Len(batch)] = SampledRow(ExecReqs)]
      BY <1>1, <2>1 DEF SetOutputs
    <2>4. batch \in Seq(Outputs)
      BY <1>2 DEF RunnerTypeOK
    <2> HIDE DEF Outputs
    <2> QED
      BY <1>3, <2>1, <2>2, <2>3, <2>4
  <1>8. \A k \in 1..Len(batch) : DOMAIN batch'[k] = DOMAIN batch[k]
    BY <1>3, <1>7 DEF SampledRow
  <1>9. exec'.decode = <<>> /\ exec'.prefill = {}
    BY <1>1 DEF NoExec
  <1>10. RunnerTypeOK'
    <2>1. states' \in [Req -> RequestState] /\ seqLen' \in [Req -> Int]
      BY <1>1, <1>6
    <2> QED
      BY <1>1, <1>2, <1>7, <1>9, <2>1 DEF RunnerTypeOK
  <1>11. \A r \in ExecReqs : status[r] = "running" \/ Gone(r)
    BY <1>1, <1>4, ExecRows DEF PrefillRowDue, DecodeRowDue
  <1>12. Ledger'
    <2>1. \A r \in Req : Unread(r)' <=> Unread(r)
      BY <1>3, <1>7, <1>8 DEF Unread
    <2>2. \A r \in Req : status[r] = "preempted" => states'[r] # NoState
      BY <1>2, <1>6, <1>11 DEF Ledger, Gone
    <2>3. NoLeak'
      <3>1. NoLeak
        BY <1>2 DEF Ledger
      <3> QED
        BY <1>1, <1>6, <1>11, <3>1 DEF NoLeak, Gone
    <2> QED
      BY <1>1, <1>2, <2>1, <2>2, <2>3 DEF Ledger
  <1>13. TokensTrue' /\ PlaceholderOwned'
    <2>1. TokensTrue'
      BY <1>1, <1>2, <1>6 DEF TokensTrue
    <2>2. ASSUME NEW r \in Req, NEW i \in DOMAIN states'[r].tokens
          PROVE  states'[r].tokens[i] # Hole
      <3>1. states'[r].tokens \in Seq(Int)
        BY <1>6, NoStateIff
      <3>2. i \in 1..Len(states'[r].tokens) /\ Len(states'[r].tokens) \in Nat
        BY <2>2, <3>1
      <3> QED
        BY <1>6, <3>2 DEF Hole
    <2> QED
      BY <1>1, <1>2, <2>1, <2>2 DEF PlaceholderOwned
  <1>14. EntriesOwned'
    BY <1>1, <1>2 DEF EntriesOwned, EntryReqs
  <1>15. ForwardSound' /\ ExecDue'
    BY <1>1, <1>9 DEF ForwardSound, ExecDue
  <1>16. /\ Len(queue') = Len(queue) + 1
         /\ \A k \in 1..Len(queue) : queue'[k] = queue[k]
    BY <1>1, RunningFacts, OutputKinds, AppendOutput
  <1>17. Aligned'
    <2>1. InHand' = 0
      BY <1>1 DEF InHand
    <2>2. ASSUME pending' # NoPending, NEW k \in 1..Len(queue'), k = pending'.step - consumed'
          PROVE  DOMAIN batch'[k] = pending'.reqs
      <3>1. k \in 1..Len(queue) /\ DOMAIN batch[k] = pending.reqs
        BY <1>1, <2>2, AgreementFacts
      <3> QED
        BY <1>1, <1>3, <1>8, <3>1
    <2> QED
      BY <1>1, <1>3, <1>7, <1>8, <1>16, <2>1, <2>2 DEF Aligned
  <1>18. OutputsDue'
    <2> SUFFICES ASSUME NEW k \in 1..Len(queue'), queue'[k].kind # "failed",
                        NEW r \in accept[k]
                 PROVE  OutValue(k, r)' = Due(k, r)'
      BY <1>1 DEF OutputsDue
    <2>1. Due(k, r)' = Due(k, r)
      BY <1>1 DEF Due, Known
    <2>2. CASE k \in 1..Len(queue)
      <3>1. OutValue(k, r)' = OutValue(k, r)
        BY <1>1, <1>7, <2>2 DEF OutValue, RowOf
      <3>2. queue[k].kind # "failed"
        BY <1>16, <2>2
      <3> QED
        BY <1>1, <2>1, <2>2, <3>1, <3>2, AgreementFacts DEF OutputsDue
    <2>3. CASE k \notin 1..Len(queue)
      <3>1. k = Len(queue) + 1 /\ k = Len(accept) /\ k = Len(batch)
        BY <1>3, <1>16, <2>3
      <3>2. r \in Req /\ r \in ExecReqs /\ status[r] = "running" /\ Due(k, r) = Total(r)
        BY <1>1, <3>1, DueOfLast
      <3>3. OutValue(k, r)' = SampledToken(r)
        <4>1. ~(pending' # NoPending /\ k = pending'.step - consumed')
          BY <1>1, <2>3, AgreementFacts
        <4>2. batch'[k][r] = SampledToken(r)
          BY <1>7, <3>1, <3>2 DEF SampledRow
        <4> QED
          BY <4>1, <4>2 DEF OutValue
      <3>4. SampledToken(r) = Total(r)
        <4>1. CASE r \in DecodeReqs
          BY <1>1, <3>2, <4>1, SampledCases
        <4>2. CASE \E row \in FinalRows : row.req = r
          <5>1. PICK row \in FinalRows : row.req = r
            BY <4>2
          <5>2. row \in exec.prefill /\ row.mode # "intermediate"
            BY DEF FinalRows
          <5>3. PrefillRowDue(row)
            BY <1>1, <5>2, ExecRows
          <5>4. Total(r) = row.target + 1
            BY <3>2, <5>1, <5>2, <5>3 DEF PrefillRowDue
          <5> QED
            BY <1>1, <3>2, <5>1, <5>4, SampledCases
        <4>3. CASE \E row \in exec.prefill : row.req = r /\ row.mode = "intermediate"
          <5>1. PICK row \in exec.prefill : row.req = r /\ row.mode = "intermediate"
            BY <4>3
          <5>2. PrefillRowDue(row)
            BY <1>1, ExecRows
          <5> QED
            BY <3>1, <3>2, <5>1, <5>2 DEF PrefillRowDue
        <4> QED
          BY <1>5, <3>2, <4>1, <4>2, <4>3
      <3> QED
        BY <2>1, <3>2, <3>3, <3>4
    <2> QED
      BY <2>2, <2>3
  <1>19. RunnersSettled'
    <2> SUFFICES ASSUME NEW r \in Req, status[r] = "running"
                 PROVE  Settled(r)'
      BY <1>1 DEF RunnersSettled
    <2>1. Total(r)' = Total(r)
      BY <1>1, TotalUnchanged
    <2>2. states'[r] = SampledState(r) /\ seqLen'[r] = SampledLen(r)
      BY <1>1
    <2>3. CASE r \in DecodeReqs
      <3> DEFINE n == Len(states[r].tokens)
      <3>1. /\ SampledState(r) = [tokens |-> Append(states[r].tokens, n + 1),
                                  gen |-> states[r].gen + 1]
            /\ SampledLen(r) = Advanced(r)
            /\ Position(seqLen, states, r) + 1 = n
            /\ computed[r] = n /\ kv[r] = n /\ Total(r) = n + 1
        BY <1>1, <2>3, SampledCases
      <3>2. states[r].tokens \in Seq(Int) /\ n \in Nat
        BY <1>2, NoStateIff DEF RunnerTypeOK
      <3>3. Len(states'[r].tokens) = n + 1
        BY <2>2, <3>1, <3>2
      <3>4. seqLen'[r] = n
        BY <2>2, <3>1 DEF Advanced
      <3> QED
        BY <1>1, <2>1, <3>1, <3>2, <3>3, <3>4 DEF Settled
    <2>4. CASE \E row \in FinalRows : row.req = r
      <3>1. PICK row \in FinalRows : row.req = r
        BY <2>4
      <3>2. row \in exec.prefill /\ row.mode # "intermediate"
        BY DEF FinalRows
      <3>3. PrefillRowDue(row) /\ row.target \in Int
        BY <1>1, <3>2, ExecRows DEF PrefillRows
      <3>4. Total(r) = row.target + 1 /\ computed[r] = row.target /\ kv[r] = row.target
        BY <3>1, <3>2, <3>3 DEF PrefillRowDue
      <3>5. states'[r] = FinalState(row) /\ seqLen'[r] = row.target
        BY <1>1, <2>2, <3>1, SampledCases
      <3>6. Len(states'[r].tokens) = row.target + 1
        BY <1>1, <3>5, FinalStateTrue
      <3> QED
        BY <1>1, <2>1, <3>3, <3>4, <3>5, <3>6 DEF Settled
    <2>5. CASE \E row \in exec.prefill : row.req = r /\ row.mode = "intermediate"
      <3>1. PICK row \in exec.prefill : row.req = r /\ row.mode = "intermediate"
        BY <2>5
      <3>2. PrefillRowDue(row)
        BY <1>1, ExecRows
      <3>3. states'[r] = states[r] /\ seqLen'[r] = row.target
        BY <1>1, <2>2, <3>1, SampledCases
      <3> QED
        BY <1>1, <2>1, <3>1, <3>2, <3>3 DEF PrefillRowDue, Settled
    <2>6. CASE r \notin ExecReqs
      <3>1. Idle(r)
        BY <1>1, <2>6 DEF Idle
      <3> QED
        BY <1>1, <1>6, <2>1, <2>6, <3>1, SettledFrame
    <2> QED
      BY <1>5, <2>3, <2>4, <2>5, <2>6
  <1> QED
    BY <1>1, <1>2, <1>10, <1>12, <1>13, <1>14, <1>15, <1>17, <1>18, <1>19
    DEF RInv, Agreement

-----------------------------------------------------------------------------
(* The pipeline's side of a deferred sample: the pending step, if there is *)
(* one, is resolved, and the step in hand takes its place.                 *)
LEMMA DeferMoves ==
    ASSUME IInv, RInv, raised = "none", SampleDeferred
    PROVE  /\ phase = "sample" /\ stepEligible /\ phase' = "execute"
           /\ raised' = "none"
           /\ pending' = [step |-> steps, reqs |-> current]
           /\ queue' = Append(queue, Async(steps, pendingSerial + 1))
           /\ UNCHANGED <<stepEligible, current, steps, consumed, sampleFailure>>
           /\ Resolving \/ pending = NoPending
           /\ pending' # NoPending /\ pending'.step - consumed' = Len(queue) + 1
  <1>1. IInv'
    BY SampleDeferredIInv
  <1>2. raised' \notin Desyncs
    BY <1>1 DEF IInv, NoDesync
  <1>3. /\ phase = "sample" /\ stepEligible /\ phase' = "execute"
        /\ Submit(steps, current)
        /\ UNCHANGED <<stepEligible, current, steps, consumed, sampleFailure>>
    BY DEF SampleDeferred
  <1>4. /\ pending' = [step |-> steps, reqs |-> current] /\ raised' = raised
        /\ queue' = Append(queue, Async(steps, pendingSerial + 1))
    BY <1>2, <1>3 DEF Submit, Raise, Desyncs
  <1>5. /\ steps = consumed + Len(queue) + 1 /\ consumed \in Nat /\ Len(queue) \in Nat
        /\ steps \in Nat
        /\ pending # NoPending => pending.step - consumed \in 1..Len(queue)
        /\ pending.step \in Nat
    <2>1. InHand = 1
      BY <1>3 DEF InHand
    <2> QED
      BY <2>1, AgreementFacts
  <1>6. pending'.step = steps
    BY <1>4
  <1>7. pending' # NoPending
    BY <1>5, <1>6 DEF NoPending
  <1>8. pending # NoPending => pending' # pending
    BY <1>5, <1>6
  <1> QED
    BY <1>3, <1>4, <1>5, <1>6, <1>7, <1>8 DEF Resolving

(* What a deferred sample makes of a request: every older placeholder is   *)
(* filled, and a decode request gets the one new placeholder.              *)
LEMMA DeferredStates ==
    ASSUME IInv, RInv, raised = "none", phase = "sample",
           Resolving \/ pending = NoPending
    PROVE  /\ Backfill(Deferred) \in [Req -> RequestState]
           /\ ~Overwritten(Deferred)
           /\ \A r \in Req :
                LET n == Len(states[r].tokens)
                    new == Backfill(Deferred)[r]
                IN  /\ r \notin DecodeReqs => Len(new.tokens) = n /\ new.gen = states[r].gen
                    /\ r \in DecodeReqs => /\ Len(new.tokens) = n + 1
                                           /\ new.tokens[n + 1] = Hole
                                           /\ new.gen = states[r].gen + 1
                    /\ \A i \in 1..n : new.tokens[i] = i
                    /\ n \in Nat /\ states[r].gen \in Nat
                    /\ DOMAIN new.tokens = 1..Len(new.tokens)
                    /\ r \notin DecodeReqs => (new = NoState <=> states[r] = NoState)
  <1>1. /\ states \in [Req -> RequestState] /\ entries \in Seq(EntryRows)
        /\ EntriesOwned /\ TokensTrue /\ PlaceholderOwned
    BY DEF RInv, RunnerTypeOK
  <1>2. ASSUME NEW r \in Req
        PROVE  /\ states[r] \in RequestState /\ states[r].tokens \in Seq(Int)
               /\ states[r].gen \in Nat
               /\ Len(states[r].tokens) \in Nat
               /\ \A i \in 1..Len(states[r].tokens) :
                    /\ states[r].tokens[i] \in {i, Hole}
                    /\ states[r].tokens[i] = Hole <=> Filled(r, i)
    <2>1. states[r] \in RequestState /\ states[r].tokens \in Seq(Int) /\ states[r].gen \in Nat
      BY <1>1, NoStateIff
    <2>2. DOMAIN states[r].tokens = 1..Len(states[r].tokens) /\ Len(states[r].tokens) \in Nat
      BY <2>1
    <2>3. DOMAIN entries = 1..Len(entries)
      BY <1>1, RowOfFacts
    <2>4. \A i \in 1..Len(states[r].tokens) : states[r].tokens[i] \in {i, Hole}
      BY <1>1, <2>2 DEF TokensTrue
    <2>5. \A i \in 1..Len(states[r].tokens) : states[r].tokens[i] = Hole <=> Filled(r, i)
      BY <1>1, <2>2, <2>3 DEF PlaceholderOwned, Filled
    <2> QED
      BY <2>1, <2>2, <2>4, <2>5
  <1>3. ASSUME NEW r \in Req, NEW i \in Int, Filled(r, i)
        PROVE  i = Len(states[r].tokens) /\ i > 0
    <2>1. PICK j \in 1..Len(entries) :
             entries[j].current /\ entries[j].req = r /\ entries[j].index = i
      BY <1>3 DEF Filled
    <2>2. EntryOwned(entries[j])
      BY <1>1 DEF EntriesOwned
    <2> QED
      BY <2>1, <2>2 DEF EntryOwned
  <1>4. ASSUME NEW r \in Req
        PROVE  /\ Deferred[r] \in RequestState /\ Deferred[r].tokens \in Seq(Int)
               /\ r \notin DecodeReqs => Deferred[r] = states[r]
               /\ r \in DecodeReqs =>
                    /\ Len(Deferred[r].tokens) = Len(states[r].tokens) + 1
                    /\ Deferred[r].tokens[Len(states[r].tokens) + 1] = Hole
                    /\ Deferred[r].gen = states[r].gen + 1
               /\ \A i \in 1..Len(states[r].tokens) : Deferred[r].tokens[i] = states[r].tokens[i]
    <2>1. CASE r \in DecodeReqs
      <3>1. Deferred[r] = [tokens |-> Append(states[r].tokens, Hole), gen |-> states[r].gen + 1]
        BY <2>1 DEF Deferred
      <3>2. /\ Append(states[r].tokens, Hole) \in Seq(Int)
            /\ Len(Append(states[r].tokens, Hole)) = Len(states[r].tokens) + 1
            /\ Append(states[r].tokens, Hole)[Len(states[r].tokens) + 1] = Hole
            /\ \A i \in 1..Len(states[r].tokens) :
                 Append(states[r].tokens, Hole)[i] = states[r].tokens[i]
        BY <1>2 DEF Hole
      <3> QED
        BY <1>2, <2>1, <3>1, <3>2 DEF RequestState
    <2>2. CASE r \notin DecodeReqs
      BY <1>2, <2>2 DEF Deferred
    <2> QED
      BY <2>1, <2>2
  <1>5. Deferred \in [Req -> RequestState]
    <2>1. Deferred = [r \in Req |-> Deferred[r]]
      BY DEF Deferred
    <2> QED
      BY <1>4, <2>1
  <1>6. ASSUME NEW r \in Req, NEW i \in Int, Filled(r, i)
        PROVE  i \in 1..Len(Deferred[r].tokens) /\ Deferred[r].tokens[i] = Hole
    <2>1. i = Len(states[r].tokens) /\ i \in 1..Len(states[r].tokens)
      BY <1>2, <1>3, <1>6
    <2>2. states[r].tokens[i] = Hole
      BY <1>2, <1>6, <2>1
    <2>3. i \in 1..Len(Deferred[r].tokens)
      BY <1>2, <1>4, <2>1
    <2> QED
      BY <1>4, <2>1, <2>2, <2>3
  <1>7. /\ Backfill(Deferred) \in [Req -> RequestState]
        /\ ~Overwritten(Deferred)
        /\ \A r \in Req : /\ Len(Backfill(Deferred)[r].tokens) = Len(Deferred[r].tokens)
                          /\ Backfill(Deferred)[r].gen = Deferred[r].gen
        /\ \A r \in Req : \A i \in 1..Len(Deferred[r].tokens) :
             Backfill(Deferred)[r].tokens[i] =
               IF Filled(r, i) THEN i ELSE Deferred[r].tokens[i]
    <2>1. CASE Resolving
      BY <1>1, <1>5, <1>6, <2>1, BackfillFacts
    <2>2. CASE ~Resolving
      <3>1. Backfill(Deferred) = Deferred /\ ~Overwritten(Deferred)
        BY <2>2 DEF Backfill, Overwritten
      <3>2. EntryReqs = {} /\ DOMAIN entries = 1..Len(entries)
        BY <1>1, <2>2, RowOfFacts DEF NoPending
      <3>3. \A r, i : ~Filled(r, i)
        BY <3>2 DEF Filled, EntryReqs
      <3> QED
        BY <1>5, <3>1, <3>3
    <2> QED
      BY <2>1, <2>2
  <1>8. ASSUME NEW r \in Req
        PROVE  LET n == Len(states[r].tokens)
                   new == Backfill(Deferred)[r]
               IN  /\ r \notin DecodeReqs => Len(new.tokens) = n /\ new.gen = states[r].gen
                   /\ r \in DecodeReqs => /\ Len(new.tokens) = n + 1
                                          /\ new.tokens[n + 1] = Hole
                                          /\ new.gen = states[r].gen + 1
                   /\ \A i \in 1..n : new.tokens[i] = i
                   /\ n \in Nat /\ states[r].gen \in Nat
                   /\ DOMAIN new.tokens = 1..Len(new.tokens)
                   /\ r \notin DecodeReqs => (new = NoState <=> states[r] = NoState)
    <2> DEFINE n == Len(states[r].tokens)
               new == Backfill(Deferred)[r]
    <2>1. new \in RequestState /\ new.tokens \in Seq(Int) /\ DOMAIN new.tokens = 1..Len(new.tokens)
      <3>1. new \in RequestState
        BY <1>7
      <3>2. new.tokens \in Seq(Int)
        BY <3>1, NoStateIff
      <3> QED
        BY <3>1, <3>2
    <2>2. Len(new.tokens) = Len(Deferred[r].tokens) /\ new.gen = Deferred[r].gen
      BY <1>7
    <2>3. r \notin DecodeReqs => Len(new.tokens) = n /\ new.gen = states[r].gen
      BY <1>4, <2>2
    <2>4. ASSUME NEW i \in 1..n PROVE new.tokens[i] = i
      <3>1. i \in 1..Len(Deferred[r].tokens)
        BY <1>2, <1>4
      <3>2. new.tokens[i] = IF Filled(r, i) THEN i ELSE states[r].tokens[i]
        BY <1>4, <1>7, <3>1
      <3> QED
        BY <1>2, <3>2
    <2>5. ASSUME r \in DecodeReqs
          PROVE  Len(new.tokens) = n + 1 /\ new.tokens[n + 1] = Hole
                 /\ new.gen = states[r].gen + 1
      <3>1. Len(new.tokens) = n + 1 /\ new.gen = states[r].gen + 1
        BY <1>4, <2>2, <2>5
      <3>2. n + 1 \in 1..Len(Deferred[r].tokens) /\ n + 1 \in Int /\ n + 1 # n
        BY <1>2, <1>4, <2>5
      <3>3. ~Filled(r, n + 1)
        BY <1>3, <3>2
      <3> QED
        BY <1>4, <1>7, <2>5, <3>1, <3>2, <3>3
    <2>6. r \notin DecodeReqs => (new = NoState <=> states[r] = NoState)
      BY <1>2, <2>1, <2>3, NoStateIff
    <2> QED
      BY <1>2, <2>1, <2>3, <2>4, <2>5, <2>6
  <1> QED
    BY <1>7, <1>8

(* A deferred sample leaves one placeholder per decode request, owned by   *)
(* the row that will fill it, and resolves the step that was pending.      *)
LEMMA DeferSampleRInv ==
    ASSUME IInv, RInv, DeferSample
    PROVE  RInv'
  <1>1. /\ raised = "none" /\ SampleDeferred
        /\ states' = Backfill(Deferred)
        /\ fault' = IF Overwritten(Deferred) THEN "state desync" ELSE fault
        /\ seqLen' = [r \in Req |-> IF r \in DecodeReqs THEN Advanced(r) ELSE seqLen[r]]
        /\ entries' = [row \in DOMAIN exec.decode |->
                        [req |-> exec.decode[row].req,
                         index |-> Len(states[exec.decode[row].req].tokens) + 1,
                         value |-> exec.decode[row].value,
                         current |-> TRUE]]
        /\ batch' = FillBatch(batch)
        /\ exec' = NoExec
        /\ UNCHANGED <<awaiting, kv>>
        /\ UNCHANGED <<status, computed, delivered, accept, finishedIds>>
    BY DEF DeferSample, Quiet, schedulerVars
  <1>2. /\ phase = "sample" /\ stepEligible /\ phase' = "execute"
        /\ raised' = "none"
        /\ pending' = [step |-> steps, reqs |-> current]
        /\ queue' = Append(queue, Async(steps, pendingSerial + 1))
        /\ UNCHANGED <<stepEligible, current, steps, consumed, sampleFailure>>
        /\ Resolving \/ pending = NoPending
        /\ pending' # NoPending /\ pending'.step - consumed' = Len(queue) + 1
    BY <1>1, DeferMoves
  <1>0. raised = "none" /\ phase = "sample" /\ phase' = "execute" /\ exec' = NoExec
        /\ UNCHANGED <<awaiting, kv, status, computed, delivered, accept, finishedIds>>
    BY <1>1, <1>2
  <1>3. RunnerTypeOK /\ Ledger /\ TokensTrue /\ fault = "none"
    BY DEF RInv
  <1>4. /\ Len(queue) \in Nat /\ Len(batch) = Len(queue) + 1 /\ Len(accept) = Len(queue) + 1
        /\ DOMAIN accept = 1..Len(accept) /\ DOMAIN batch = 1..Len(batch) /\ Aligned
        /\ exec.prefill = {} /\ current = DecodeReqs
        /\ DOMAIN exec.decode = 1..Len(exec.decode)
    <2>1. InHand = 1
      BY <1>2 DEF InHand
    <2> QED
      BY <1>1, <1>2, <2>1, AgreementFacts DEF ExecDue
  <1>5. ExecReqs = DecodeReqs /\ ExecReqs \subseteq Req
    BY <1>1, <1>4, RowsUnread DEF ExecReqs, PrefillReqs
  <1>6. /\ states' \in [Req -> RequestState] /\ fault' = "none"
        /\ \A r \in Req :
             LET n == Len(states[r].tokens) IN
             /\ r \notin DecodeReqs => /\ Len(states'[r].tokens) = n
                                       /\ states'[r].gen = states[r].gen
                                       /\ states'[r] = NoState <=> states[r] = NoState
             /\ r \in DecodeReqs => /\ Len(states'[r].tokens) = n + 1
                                    /\ states'[r].tokens[n + 1] = Hole
                                    /\ states'[r].gen = states[r].gen + 1
             /\ \A i \in 1..n : states'[r].tokens[i] = i
             /\ n \in Nat /\ states[r].gen \in Nat
             /\ DOMAIN states'[r].tokens = 1..Len(states'[r].tokens)
    BY <1>1, <1>2, <1>3, DeferredStates
  (* The decode requests of the step. *)
  <1>7. ASSUME NEW r \in DecodeReqs
        PROVE  /\ r \in Req
               /\ Len(states[r].tokens) >= PromptLen /\ Len(states[r].tokens) > 0
               /\ status[r] = "running" \/ Gone(r)
               /\ status[r] = "running" =>
                    /\ seqLen'[r] = Len(states[r].tokens)
                    /\ computed[r] = Len(states[r].tokens)
                    /\ kv[r] = Len(states[r].tokens)
                    /\ Total(r) = Len(states[r].tokens) + 1
    <2>1. r \in Req /\ PromptLen \in Nat /\ PromptLen > 0
      BY <1>5, LenAssumption
    <2>2. /\ Len(states[r].tokens) >= PromptLen
          /\ status[r] = "running" \/ Gone(r)
          /\ status[r] = "running" =>
               /\ Position(seqLen, states, r) + 1 = Len(states[r].tokens)
               /\ computed[r] = Len(states[r].tokens)
               /\ kv[r] = Len(states[r].tokens)
               /\ Total(r) = Len(states[r].tokens) + 1
      BY <1>1, <1>2, <2>1, SampledCases
    <2>3. seqLen'[r] = Position(seqLen, states, r) + 1
      BY <1>1, <2>1 DEF Advanced
    <2> QED
      BY <1>6, <2>1, <2>2, <2>3
  <1>8. /\ entries' \in Seq(EntryRows) /\ Len(entries') = Len(exec.decode)
        /\ DOMAIN entries' = 1..Len(exec.decode)
        /\ \A j \in 1..Len(exec.decode) :
             /\ entries'[j].req = exec.decode[j].req
             /\ entries'[j].req \in DecodeReqs
             /\ entries'[j].index = Len(states[entries'[j].req].tokens) + 1
             /\ entries'[j].value = Len(states[entries'[j].req].tokens) + 1
             /\ entries'[j].current
    <2>1. DOMAIN entries' = 1..Len(exec.decode)
      BY <1>1, <1>4
    <2>2. ASSUME NEW j \in 1..Len(exec.decode)
          PROVE  /\ entries'[j] = [req |-> exec.decode[j].req,
                                   index |-> Len(states[exec.decode[j].req].tokens) + 1,
                                   value |-> Len(states[exec.decode[j].req].tokens) + 1,
                                   current |-> TRUE]
                 /\ exec.decode[j].req \in DecodeReqs
                 /\ exec.decode[j].req \in Req
      <3>1. exec.decode[j].req \in DecodeReqs /\ DecodeRowDue(exec.decode[j])
        BY <1>1, ExecRows
      <3> QED
        BY <1>1, <1>4, <1>5, <3>1 DEF DecodeRowDue
    <2>3. ASSUME NEW j \in 1..Len(exec.decode)
          PROVE  /\ entries'[j] \in EntryRows
                 /\ entries'[j].req = exec.decode[j].req
                 /\ entries'[j].req \in DecodeReqs
                 /\ entries'[j].index = Len(states[entries'[j].req].tokens) + 1
                 /\ entries'[j].value = Len(states[entries'[j].req].tokens) + 1
                 /\ entries'[j].current
      <3> DEFINE q == exec.decode[j].req
                 m == Len(states[q].tokens) + 1
      <3>0. q \in Req /\ q \in DecodeReqs
        BY <2>2
      <3>1. m \in Int /\ q \in Req /\ q \in DecodeReqs
        <4> HIDE DEF q
        <4> QED
          BY <1>6, <3>0
      <3>2. entries'[j] = [req |-> q, index |-> m, value |-> m, current |-> TRUE]
        BY <2>2
      <3>3. m = Len(states[q].tokens) + 1 /\ q = exec.decode[j].req
        OBVIOUS
      <3> HIDE DEF q, m
      <3>4. /\ entries'[j].req = q /\ entries'[j].index = m /\ entries'[j].value = m
            /\ entries'[j].current = TRUE
        BY <3>2
      <3>5. entries'[j] \in EntryRows
        BY <3>1, <3>2 DEF EntryRows
      <3> QED
        BY <3>1, <3>3, <3>4, <3>5
    <2>4. Len(exec.decode) \in Nat
      BY <1>3 DEF RunnerTypeOK
    <2>5. entries' \in Seq(EntryRows) /\ Len(entries') = Len(exec.decode)
      <3>1. entries' = [j \in 1..Len(exec.decode) |-> entries'[j]]
        BY <1>1, <1>4
      <3>2. entries' \in [1..Len(exec.decode) -> EntryRows]
        BY <2>3, <3>1
      <3> HIDE DEF EntryRows
      <3> QED
        BY <2>1, <2>4, <3>2
    <2> QED
      BY <2>1, <2>3, <2>5
  <1>9. EntryReqs' = DecodeReqs
    BY <1>4, <1>8 DEF EntryReqs, DecodeReqs
  <1>10. exec'.decode = <<>> /\ exec'.prefill = {}
    BY <1>1 DEF NoExec
  <1>11. /\ batch' \in Seq(Outputs) /\ Len(batch') = Len(batch)
         /\ \A k \in 1..Len(batch) : DOMAIN batch'[k] = DOMAIN batch[k]
         /\ \A k \in 1..Len(batch) : \A r \in DOMAIN batch[k] :
              batch'[k][r] = OutValue(k, r)
    BY <1>1, <1>2, FillFacts
  <1>12. DOMAIN batch' = 1..Len(batch)
    <2> HIDE DEF Outputs
    <2> QED
      BY <1>11
  <1>13. RunnerTypeOK'
    <2>1. seqLen' \in [Req -> Int]
      <3>1. \A r \in Req : Advanced(r) \in Int
        BY <1>3, <1>6 DEF Advanced, Position, RunnerTypeOK
      <3> QED
        BY <1>1, <1>3, <3>1 DEF RunnerTypeOK
    <2>2. exec'.decode \in Seq([req : Req, value : Int]) /\ exec'.prefill \in SUBSET PrefillRows
      BY <1>10
    <2> HIDE DEF Outputs, EntryRows, RequestState, PrefillRows
    <2> QED
      BY <1>0, <1>3, <1>6, <1>8, <1>11, <2>1, <2>2 DEF RunnerTypeOK
  <1>14. Ledger'
    <2>1. \A r \in Req : Unread(r)' <=> Unread(r)
      BY <1>4, <1>11, <1>12 DEF Unread
    <2>2. \A r \in Req : status[r] = "preempted" => states'[r] # NoState
      BY <1>3, <1>6, <1>7 DEF Ledger, Gone
    <2>3. NoLeak'
      <3>1. NoLeak
        BY <1>3 DEF Ledger
      <3>2. \A r \in Req : r \notin DecodeReqs => seqLen'[r] = seqLen[r]
        BY <1>1
      <3> QED
        BY <1>1, <1>6, <1>7, <3>1, <3>2 DEF NoLeak, Gone
    <2> QED
      BY <1>1, <1>3, <2>1, <2>2, <2>3 DEF Ledger
  <1>15. ASSUME NEW r \in Req, NEW i \in 1..Len(states'[r].tokens)
         PROVE  /\ i \in Int /\ i > 0
                /\ i <= Len(states[r].tokens) => states'[r].tokens[i] = i
                /\ i > Len(states[r].tokens) =>
                     r \in DecodeReqs /\ i = Len(states[r].tokens) + 1
                     /\ states'[r].tokens[i] = Hole
    BY <1>6
  <1>16. TokensTrue'
    <2>1. ASSUME NEW r \in Req, NEW i \in 1..Len(states'[r].tokens)
          PROVE  states'[r].tokens[i] \in {i, Hole}
      BY <1>6, <1>15
    <2>2. ASSUME NEW r \in Req, states'[r] # NoState
          PROVE  Len(states'[r].tokens) >= PromptLen
      BY <1>3, <1>6, <1>7, <2>2, LenAssumption DEF TokensTrue
    <2> QED
      BY <1>1, <1>3, <2>1, <2>2 DEF TokensTrue
  <1>17. EntriesOwned'
    <2>1. EntryReqs' = pending'.reqs
      BY <1>2, <1>4, <1>9
    <2>2. \A i, j \in 1..Len(entries') : entries'[i].req = entries'[j].req => i = j
      BY <1>1, <1>8, AgreementFacts DEF ExecDue
    <2>3. ASSUME NEW j \in 1..Len(entries') PROVE EntryOwned(entries[j])'
      <3>1. /\ entries'[j].req \in DecodeReqs /\ entries'[j].current
            /\ entries'[j].index = Len(states[entries'[j].req].tokens) + 1
            /\ entries'[j].value = Len(states[entries'[j].req].tokens) + 1
        BY <1>8
      <3>2. entries'[j].index = Len(states'[entries'[j].req].tokens) /\ entries'[j].index > 0
        BY <1>6, <1>7, <3>1
      <3>3. entries'[j].value = entries'[j].index
        BY <3>1
      <3>4. status[entries'[j].req] = "running" \/ Gone(entries'[j].req)
        BY <1>7, <3>1
      <3>5. status' = status /\ finishedIds' = finishedIds
        BY <1>0
      <3>6. (status[entries[j].req] = "running" \/ Gone(entries[j].req))'
        BY <3>4, <3>5 DEF Gone
      <3> QED
        BY <3>1, <3>2, <3>3, <3>6 DEF EntryOwned
    <2>4. ~(phase' = "sample")
      BY <1>0
    <2> QED
      BY <2>1, <2>2, <2>3, <2>4 DEF EntriesOwned
  <1>18. PlaceholderOwned'
    <2> SUFFICES ASSUME NEW r \in Req, NEW i \in 1..Len(states'[r].tokens)
                 PROVE  (states'[r].tokens[i] = Hole) <=>
                          \E j \in DOMAIN entries' :
                             entries'[j].current /\ entries'[j].req = r /\ entries'[j].index = i
      <3>1. \A r \in Req : DOMAIN states'[r].tokens = 1..Len(states'[r].tokens)
        BY <1>6
      <3> QED
        BY <3>1 DEF PlaceholderOwned
    <2>0. DOMAIN entries' = 1..Len(exec.decode)
      BY <1>8
    <2>1. CASE i <= Len(states[r].tokens)
      <3>1. states'[r].tokens[i] # Hole
        BY <1>15, <2>1 DEF Hole
      <3>2. \A j \in 1..Len(exec.decode) : entries'[j].req = r => entries'[j].index # i
        BY <1>6, <1>8, <1>15, <2>1
      <3> QED
        BY <2>0, <3>1, <3>2
    <2>2. CASE i > Len(states[r].tokens)
      <3>1. r \in DecodeReqs /\ i = Len(states[r].tokens) + 1 /\ states'[r].tokens[i] = Hole
        BY <1>15, <2>2
      <3>2. PICK j \in 1..Len(exec.decode) : exec.decode[j].req = r
        BY <1>1, <3>1, ExecRows
      <3>3. entries'[j].current /\ entries'[j].req = r /\ entries'[j].index = i
        BY <1>8, <3>1, <3>2
      <3> QED
        BY <2>0, <3>1, <3>3
    <2>3. i \in Int /\ Len(states[r].tokens) \in Nat
      BY <1>6, <1>15
    <2> QED
      BY <2>1, <2>2, <2>3
  <1>19. ForwardSound' /\ ExecDue'
    BY <1>0, <1>10 DEF ForwardSound, ExecDue
  <1>20. /\ Len(queue') = Len(queue) + 1
         /\ \A k \in 1..Len(queue) : queue'[k] = queue[k]
    <2>1. steps \in Nat /\ pendingSerial + 1 \in Nat /\ queue \in Seq(Output)
      BY <1>0, RunningFacts
    <2>2. Async(steps, pendingSerial + 1) \in Output
      BY <2>1, OutputKinds
    <2> QED
      BY <1>2, <2>1, <2>2, AppendOutput
  <1>21. DOMAIN batch[Len(batch)] = DecodeReqs /\ Len(batch) \in 1..Len(batch)
    BY <1>2, <1>4, <1>5 DEF Aligned
  <1>22. Aligned'
    <2>1. InHand' = 0
      BY <1>2 DEF InHand
    <2>2. ASSUME NEW k \in 1..Len(queue'), k = pending'.step - consumed'
          PROVE  DOMAIN batch'[k] = pending'.reqs
      <3>1. k = Len(batch)
        BY <1>2, <1>4, <2>2
      <3> QED
        BY <1>2, <1>4, <1>11, <1>21, <3>1
    <2>3. \A k \in 1..Len(batch') : accept'[k] \subseteq DOMAIN batch'[k]
      BY <1>0, <1>4, <1>11 DEF Aligned
    <2> QED
      BY <1>0, <1>4, <1>11, <1>20, <2>1, <2>2, <2>3 DEF Aligned
  <1>23. OutputsDue'
    <2> SUFFICES ASSUME NEW k \in 1..Len(queue'), queue'[k].kind # "failed",
                        NEW r \in accept[k]
                 PROVE  OutValue(k, r)' = Due(k, r)'
      BY <1>1 DEF OutputsDue
    <2>1. Due(k, r)' = Due(k, r)
      BY <1>1 DEF Due, Known
    <2>2. CASE k \in 1..Len(queue)
      <3>1. k # pending'.step - consumed'
        BY <1>2, <1>4, <2>2
      <3>2. k \in 1..Len(batch) /\ r \in DOMAIN batch[k] /\ queue[k].kind # "failed"
        BY <1>4, <1>20, <2>2 DEF Aligned
      <3>3. OutValue(k, r)' = batch'[k][r]
        BY <3>1 DEF OutValue
      <3> QED
        BY <1>1, <1>11, <2>1, <2>2, <3>2, <3>3, AgreementFacts DEF OutputsDue
    <2>3. CASE k \notin 1..Len(queue)
      <3>1. k = Len(queue) + 1 /\ k = Len(accept)
        BY <1>4, <1>20, <2>3
      <3>2. r \in Req /\ r \in DecodeReqs /\ status[r] = "running" /\ Due(k, r) = Total(r)
        BY <1>1, <1>2, <1>5, <3>1, DueOfLast
      <3>3. OutValue(k, r)' = entries'[RowOf(r)'].value
        BY <1>2, <3>1 DEF OutValue
      <3>4. RowOf(r)' \in 1..Len(exec.decode) /\ entries'[RowOf(r)'].req = r
        <4>1. PICK j \in 1..Len(exec.decode) : exec.decode[j].req = r
          BY <1>1, <3>2, ExecRows
        <4>2. j \in DOMAIN entries' /\ entries'[j].req = r
          BY <1>8, <4>1
        <4> QED
          BY <1>8, <4>2 DEF RowOf
      <3>5. entries'[RowOf(r)'].value = Len(states[r].tokens) + 1
        BY <1>8, <3>4
      <3> QED
        BY <1>7, <2>1, <3>2, <3>3, <3>5
    <2> QED
      BY <2>2, <2>3
  <1>24. RunnersSettled'
    <2> SUFFICES ASSUME NEW r \in Req, status[r] = "running"
                 PROVE  Settled(r)'
      BY <1>1 DEF RunnersSettled
    <2>1. Total(r)' = Total(r)
      BY <1>1, TotalUnchanged
    <2>2. CASE r \in DecodeReqs
      <3> DEFINE n == Len(states[r].tokens)
      <3>1. /\ Len(states'[r].tokens) = n + 1 /\ n \in Nat
            /\ seqLen'[r] = n /\ computed'[r] = n /\ kv'[r] = n /\ Total(r)' = n + 1
        BY <1>0, <1>6, <1>7, <2>1, <2>2
      <3> HIDE DEF n
      <3> QED
        BY <3>1 DEF Settled
    <2>3. CASE r \notin DecodeReqs
      <3>1. Idle(r)
        BY <1>2, <1>5, <2>3 DEF Idle
      <3> QED
        BY <1>1, <1>6, <2>1, <2>3, <3>1, SettledFrame
    <2> QED
      BY <2>2, <2>3
  <1>25. (sampleFailure => phase = "execute")'
    BY <1>2
  <1> QED
    BY <1>2, <1>6, <1>13, <1>14, <1>16, <1>17, <1>18, <1>19, <1>22, <1>23, <1>24, <1>25
    DEF RInv, Agreement

-----------------------------------------------------------------------------
(* A running engine between two steps. *)
Ready == /\ IInv /\ RInv
         /\ raised = "none" /\ phase = "execute" /\ ~sampleFailure
         /\ Len(queue) < QueueDepth

(* The requests of a plan that neither are new nor come back. *)
Continued(p) == Cached(p) \ Resumed(p)

-----------------------------------------------------------------------------
(* What the scheduler may plan. *)
LEMMA PlanFacts ==
    ASSUME NEW p \in Plans
    PROVE  /\ p.pre \subseteq Req /\ p.sel \subseteq Req
           /\ \A r \in p.pre : status[r] = "running"
           /\ p.whole \subseteq p.sel /\ p.hit \subseteq Admitted(p)
           /\ \A r \in p.sel : Schedulable(r, p.pre, p.drop)
           /\ \A r \in p.sel : Remaining(p, r) = 1 => r \in p.whole
  <1>1. PICK pre \in SUBSET RunningReqs, drop \in BOOLEAN : p \in PlansWith(pre, drop)
    BY DEF Plans
  <1>2. p.pre = pre /\ p.drop = drop /\ p.sel \subseteq {r \in Req : Schedulable(r, pre, drop)}
    BY <1>1 DEF PlansWith
  <1>3. \A r \in p.sel : Schedulable(r, p.pre, p.drop)
    BY <1>2
  <1>4. p.pre \subseteq Req /\ p.sel \subseteq Req /\ \A r \in p.pre : status[r] = "running"
    BY <1>2 DEF RunningReqs
  <1> QED
    BY <1>3, <1>4 DEF Plans

(* What is so before a step is planned. *)
LEMMA ReadyFacts ==
    ASSUME Ready
    PROVE  /\ RunnerTypeOK /\ Ledger /\ TokensTrue /\ EntriesOwned /\ Aligned
           /\ Len(queue) \in {0, 1}
           /\ Len(batch) = Len(queue) /\ Len(accept) = Len(queue)
           /\ DOMAIN accept = 1..Len(accept) /\ DOMAIN batch = 1..Len(batch)
           /\ DOMAIN entries = 1..Len(entries)
           /\ entries \in Seq(EntryRows)
           /\ PromptLen \in Nat /\ PromptLen > 0
           /\ fault = "none" /\ raised = "none"
           /\ \A r \in Req : status[r] = "running" => Settled(r)
           /\ pending = NoPending => entries = <<>>
  <1>1. /\ IInv /\ RInv /\ raised = "none" /\ phase = "execute" /\ ~sampleFailure
        /\ Len(queue) < QueueDepth
    BY DEF Ready
  <1>2. /\ RunnerTypeOK /\ Ledger /\ TokensTrue /\ EntriesOwned /\ fault = "none"
    BY <1>1 DEF RInv
  <1>3. /\ Aligned /\ Len(queue) \in Nat
        /\ DOMAIN accept = 1..Len(accept) /\ DOMAIN batch = 1..Len(batch)
        /\ DOMAIN entries = 1..Len(entries)
        /\ RunnersSettled
    BY <1>1, AgreementFacts
  <1>4. Len(queue) \in {0, 1}
    <2>1. Len(queue) <= 1
      BY <1>1, <1>3, QueueDepthAssumption
    <2> QED
      BY <1>3, <2>1, AtMostOne
  <1>5. Len(batch) = Len(queue) /\ Len(accept) = Len(queue)
    <2>1. InHand = 0
      BY <1>1 DEF InHand
    <2> QED
      BY <1>3, <2>1 DEF Aligned
  <1>6. \A r \in Req : status[r] = "running" => Settled(r)
    BY <1>1, <1>3 DEF RunnersSettled, Idle
  <1>7. entries \in Seq(EntryRows)
    BY <1>2 DEF RunnerTypeOK
  <1>8. pending = NoPending => entries = <<>>
    <2> SUFFICES ASSUME pending = NoPending PROVE entries = <<>>
      OBVIOUS
    <2>1. EntryReqs = {}
      BY <1>2 DEF EntriesOwned, NoPending
    <2>2. DOMAIN entries = {}
      BY <2>1 DEF EntryReqs
    <2>3. entries \in Seq(EntryRows) /\ Len(entries) = 0
      BY <1>3, <1>7, <2>2
    <2> HIDE DEF EntryRows
    <2> QED
      BY <2>3
  <1> QED
    BY <1>1, <1>2, <1>3, <1>4, <1>5, <1>6, <1>7, <1>8, LenAssumption

(* What the gate, the barrier and the step counter do in execute_model.    *)
LEMMA ExecuteMoves ==
    ASSUME Ready, NEW p \in Plans, ExecuteModel(GateShape(p))
    PROVE  /\ raised' = "none"
           /\ \/ phase' = "sample" /\ queue' = queue /\ p.sel # {}
              \/ phase' = "execute" /\ queue' = Append(queue, Done(steps + 1)) /\ p.sel = {}
           /\ UNCHANGED <<consumed, sampleFailure>>
           /\ current' = Decodes(p, states)
           /\ stepEligible' = Eligible(GateShape(p))
           /\ \/ /\ stepEligible' /\ pending' = pending /\ ~Resolving
                 /\ New(p) = {} /\ Resumed(p) = {} /\ p.pre = {}
                 /\ \A r \in Cached(p) : states[r].gen # 0
                 /\ pending # NoPending => Decodes(p, states) \subseteq EntryReqs
              \/ /\ ~stepEligible' /\ pending' = NoPending
                 /\ Resolving <=> pending # NoPending
           /\ Resolving => pending' = NoPending
           /\ ~Resolving => pending' = pending
  <1>1. IInv /\ RInv /\ raised = "none" /\ phase = "execute" /\ GateShape(p) \in Shape
    BY GateShapeAllowed DEF Ready
  <1>2. IInv'
    BY <1>1, ExecuteModelIInv
  <1>3. raised' \notin Desyncs
    BY <1>2 DEF IInv, NoDesync
  <1>4. /\ ~MissingRow(GateShape(p)) /\ raised' = "none"
    BY <1>1, <1>3 DEF ExecuteModel, Raise, Desyncs
  <1>5. GateShape(p).forward <=> p.sel # {}
    BY DEF GateShape
  <1>6. \/ phase' = "sample" /\ queue' = queue /\ p.sel # {}
        \/ phase' = "execute" /\ queue' = Append(queue, Done(steps + 1)) /\ p.sel = {}
    BY <1>1, <1>4, <1>5 DEF ExecuteModel
  <1>7. /\ UNCHANGED <<consumed, sampleFailure>>
        /\ current' = Decodes(p, states)
        /\ BeginStep(GateShape(p))
    BY DEF ExecuteModel, GateShape
  <1>8. stepEligible' = Eligible(GateShape(p))
    BY <1>7 DEF BeginStep
  <1>9. CASE Eligible(GateShape(p))
    <2>1. stepEligible' /\ pending' = pending /\ ~Resolving
      BY <1>7, <1>8, <1>9 DEF BeginStep, Resolving
    <2>2. GateShape(p).clear /\ PendingCovers(Decodes(p, states))
      BY <1>9 DEF Eligible, GateShape
    <2>3. /\ New(p) = {} /\ Resumed(p) = {} /\ p.pre = {}
          /\ \A r \in Cached(p) : states[r].gen # 0
      BY <2>2 DEF GateShape
    <2>4. rows = EntryReqs
      BY <1>1, RunningFacts, ReadyFacts DEF Running, PendingQueued, EntriesOwned
    <2>5. pending # NoPending => Decodes(p, states) \subseteq EntryReqs
      BY <2>2, <2>4 DEF PendingCovers
    <2> QED
      BY <1>4, <1>6, <1>7, <1>8, <2>1, <2>3, <2>5
  <1>10. CASE ~Eligible(GateShape(p))
    <2>1. ~stepEligible' /\ pending' = NoPending
      BY <1>7, <1>8, <1>10 DEF BeginStep, Barrier
    <2>2. Resolving <=> pending # NoPending
      BY <2>1 DEF Resolving
    <2> QED
      BY <1>4, <1>6, <1>7, <1>8, <2>1, <2>2
  <1> QED
    BY <1>9, <1>10

-----------------------------------------------------------------------------
(* A scheduled request is new, comes back, or goes on.                     *)
FreshRow(p, r) ==
    /\ r \in Fresh(p) /\ r \in Admitted(p)
    /\ r \notin Readmitted(p) /\ r \notin Resumed(p) /\ r \notin Cached(p)
    /\ status[r] = "waiting" /\ r \notin p.pre
    /\ delivered[r] = <<>> /\ r \notin EntryReqs /\ Inflight(r) = 0
    /\ states[r] = NoState \/ r \in Evicted
    /\ seqLen[r] = Absent \/ r \in Evicted

ReturnRow(p, r) ==
    /\ r \in Readmitted(p) \cup Resumed(p) /\ r \in Admitted(p)
    /\ r \notin Fresh(p) /\ r \notin Continued(p) /\ r \notin Evicted
    /\ states[r] # NoState
    /\ \/ status[r] = "preempted" /\ Inflight(r) = 0
       \/ status[r] = "running" /\ r \in p.pre /\ p.drop

ContinuedRow(p, r) ==
    /\ r \in Continued(p) /\ r \in Cached(p) /\ r \notin Admitted(p)
    /\ r \notin Fresh(p) /\ r \notin Readmitted(p) /\ r \notin Resumed(p)
    /\ status[r] = "running" /\ r \notin p.pre /\ r \notin Evicted
    /\ states[r] # NoState /\ Settled(r) /\ computed[r] < Total(r)

(* A running request has a state, and its tokens.                          *)
LEMMA RunningState ==
    ASSUME Ready, NEW r \in Req, status[r] = "running"
    PROVE  /\ Settled(r) /\ r \notin finishedIds
           /\ states[r] # NoState /\ Len(states[r].tokens) > 0
  <1>1. Settled(r) /\ r \notin finishedIds /\ PromptLen \in Nat /\ PromptLen > 0
    BY ReadyFacts DEF Ledger
  <1>2. Len(states[r].tokens) = Total(r)
    BY <1>1 DEF Settled
  <1>3. Total(r) \in Nat /\ Total(r) > 0
    <2>1. /\ Known(r) \in Nat /\ Inflight(r) \in Nat /\ Known(r) >= PromptLen
          /\ Total(r) = Known(r) + Inflight(r)
      BY TotalFacts DEF Ready, Total
    <2> QED
      BY <1>1, <2>1
  <1>4. NoState.tokens = <<>>
    BY DEF NoState
  <1>5. states[r] # NoState
    BY <1>2, <1>3, <1>4
  <1> QED
    BY <1>1, <1>2, <1>3, <1>5

(* Every scheduled request is one of the three, for which the runner's     *)
(* classification and the scheduler's status agree.                        *)
LEMMA ScheduledRows ==
    ASSUME Ready, NEW p \in Plans, NEW r \in p.sel
    PROVE  r \in Req /\ (FreshRow(p, r) \/ ReturnRow(p, r) \/ ContinuedRow(p, r))
  <1>1. /\ r \in Req /\ Schedulable(r, p.pre, p.drop)
        /\ r \in p.pre => status[r] = "running"
    BY PlanFacts
  <1>2. /\ Ledger /\ NoLeak /\ RunnerTypeOK
    BY ReadyFacts DEF Ledger
  <1>3. CASE status[r] = "waiting"
    <2>1. r \notin p.pre /\ Inflight(r) = 0 /\ r \in New(p) /\ r \in Admitted(p)
      BY <1>1, <1>3 DEF Schedulable, New, Admitted
    <2>2. r \notin AwaitingAfter(p)
      BY <1>1, <1>2, <1>3, <2>1 DEF AwaitingAfter, Ledger, Evicted
    <2>3. r \in Fresh(p) /\ r \notin Readmitted(p) /\ r \notin Resumed(p) /\ r \notin Cached(p)
      BY <2>1, <2>2 DEF Fresh, Readmitted, Resumed, Cached
    <2>4. delivered[r] = <<>> /\ ~Unread(r)
      BY <1>1, <1>2, <1>3 DEF Ledger
    <2>5. r \notin EntryReqs
      BY <2>4, RowsUnread DEF Ready
    <2>6. /\ states[r] = NoState \/ r \in Evicted
          /\ seqLen[r] = Absent \/ r \in Evicted
      BY <1>1, <1>2, <1>3 DEF NoLeak, Evicted
    <2> QED
      BY <1>1, <1>3, <2>1, <2>3, <2>4, <2>5, <2>6 DEF FreshRow
  <1>4. CASE status[r] = "preempted" \/ r \in p.pre
    <2>1. /\ r \in Admitted(p) /\ r \notin finishedIds /\ states[r] # NoState
          /\ r \in awaiting \cup p.pre
          /\ \/ status[r] = "preempted" /\ Inflight(r) = 0
             \/ status[r] = "running" /\ r \in p.pre /\ p.drop
      BY <1>1, <1>2, <1>4, RunningState DEF Ledger, Admitted, Schedulable
    <2>2. r \in Resumed(p) \/ (r \in New(p) /\ r \in AwaitingAfter(p) /\ r \notin Resumed(p))
      BY <2>1 DEF Resumed, AwaitingAfter, Evicted
    <2>3. r \in Readmitted(p) \cup Resumed(p) /\ r \notin Fresh(p) /\ r \notin Continued(p)
      BY <2>2 DEF Readmitted, Fresh, Continued, Cached, Resumed
    <2> QED
      BY <1>1, <2>1, <2>3 DEF ReturnRow, Evicted
  <1>5. CASE ~(status[r] = "waiting") /\ ~(status[r] = "preempted" \/ r \in p.pre)
    <2>1. status[r] = "running" /\ r \notin p.pre /\ computed[r] < Total(r)
      BY <1>1, <1>5 DEF Schedulable
    <2>2. r \notin Admitted(p)
      BY <2>1 DEF Admitted
    <2>3. /\ r \in Continued(p) /\ r \in Cached(p)
          /\ r \notin Fresh(p) /\ r \notin Readmitted(p) /\ r \notin Resumed(p)
      BY <2>2 DEF Continued, Cached, New, Fresh, Readmitted, Resumed
    <2> QED
      BY <1>1, <2>1, <2>2, <2>3, RunningState DEF ContinuedRow, Evicted
  <1> QED
    BY <1>1, <1>3, <1>4, <1>5

(* A request that is not scheduled is in none of the groups.               *)
LEMMA OutsideRows ==
    ASSUME NEW p, NEW r, r \notin p.sel
    PROVE  /\ r \notin New(p) /\ r \notin Cached(p) /\ r \notin Admitted(p)
           /\ r \notin Fresh(p) /\ r \notin Readmitted(p) /\ r \notin Resumed(p)
  BY DEF New, Cached, Admitted, Fresh, Readmitted, Resumed

(* The tokens the scheduler may ask of a scheduled request, and how many a *)
(* plan asks: all that are known when it is whole, and fewer otherwise.    *)
Limit(p, r) == IF r \in Admitted(p) THEN Known(r) ELSE Total(r)

(* Where a scheduled request starts and stops: strictly after its start and*)
(* never behind its limit.                                                 *)
LEMMA TargetFacts ==
    ASSUME Ready, NEW p \in Plans, NEW r \in p.sel
    PROVE  /\ Start(p, r) \in Nat /\ Target(p, r) \in Nat /\ Limit(p, r) \in Nat
           /\ Start(p, r) < Target(p, r) /\ Target(p, r) <= Limit(p, r)
           /\ Target(p, r) = Limit(p, r) <=> r \in p.whole
           /\ r \notin Admitted(p) => Start(p, r) = computed[r]
           /\ ContinuedRow(p, r) /\ states[r].gen # 0 =>
                /\ r \in p.whole /\ Target(p, r) = Total(r)
                /\ computed[r] = Total(r) - 1
  <1>1. /\ r \in Req /\ (FreshRow(p, r) \/ ReturnRow(p, r) \/ ContinuedRow(p, r))
        /\ Remaining(p, r) = 1 => r \in p.whole
    BY ScheduledRows, PlanFacts
  <1>2. /\ Known(r) \in Nat /\ Known(r) > 0 /\ Total(r) \in Nat /\ computed[r] \in Nat
    <2>1. Known(r) \in Nat /\ Known(r) >= PromptLen /\ Total(r) \in Nat
      BY <1>1, TotalFacts DEF Ready
    <2> QED
      BY <1>1, <2>1, LenAssumption, ReadyFacts DEF RunnerTypeOK
  <1>3. /\ Target(p, r) = Start(p, r) + (IF r \in p.whole THEN Remaining(p, r) ELSE 1)
        /\ Remaining(p, r) = Limit(p, r) - Start(p, r)
    BY DEF Target, Remaining, Limit
  <1>4. CASE r \in Admitted(p)
    <2>1. /\ Limit(p, r) = Known(r) /\ Start(p, r) \in {0, Known(r) - 1}
          /\ ~ContinuedRow(p, r)
      BY <1>4 DEF Limit, Start, ContinuedRow
    <2>2. Start(p, r) \in Nat /\ Start(p, r) < Limit(p, r) /\ Limit(p, r) \in Nat
      BY <1>2, <2>1
    <2> QED
      BY <1>1, <1>3, <1>4, <2>1, <2>2
  <1>5. CASE r \notin Admitted(p)
    <2>1. ContinuedRow(p, r) /\ Limit(p, r) = Total(r) /\ Start(p, r) = computed[r]
      BY <1>1, <1>5 DEF Limit, Start, FreshRow, ReturnRow
    <2>2. Start(p, r) \in Nat /\ Start(p, r) < Limit(p, r) /\ Limit(p, r) \in Nat
      BY <1>2, <2>1 DEF ContinuedRow
    <2>3. states[r].gen # 0 => computed[r] = Total(r) - 1
      BY <2>1 DEF ContinuedRow, Settled
    <2> QED
      BY <1>1, <1>2, <1>3, <2>1, <2>2, <2>3
  <1> QED
    BY <1>4, <1>5

(* The request states after eviction, admission and the cached updates.    *)
LEMMA StatesAfterFacts ==
    ASSUME Ready, NEW p \in Plans, NEW r \in Req
    PROVE  LET st == Backfill(states)
               after == StatesAfter(p, st)
               lens == SeqLenAfter(p)
           IN  /\ after[r] \in RequestState
               /\ lens[r] \in Int
               /\ r \in p.sel /\ FreshRow(p, r) =>
                    /\ lens[r] = Absent
                    /\ after[r] = IF Target(p, r) < PromptLen
                                  THEN [tokens |-> Tokens(PromptLen), gen |-> 0]
                                  ELSE NoState
               /\ r \in p.sel /\ ReturnRow(p, r) =>
                    /\ lens[r] = Absent
                    /\ after[r] = [tokens |-> AllTokens(r), gen |-> 0]
               /\ r \in p.sel /\ ContinuedRow(p, r) =>
                    after[r] = st[r] /\ lens[r] = seqLen[r]
               /\ r \notin p.sel =>
                    /\ after[r] = IF r \in Evicted THEN NoState ELSE st[r]
                    /\ lens[r] = IF r \in Evicted THEN Absent ELSE seqLen[r]
  <1> DEFINE st == Backfill(states)
             after == StatesAfter(p, st)
             lens == SeqLenAfter(p)
  <1>1. /\ st[r] \in RequestState /\ seqLen[r] \in Int /\ Absent \in Int
        /\ st[r] = NoState <=> states[r] = NoState
    BY BackfilledStates, ReadyFacts DEF Ready, RunnerTypeOK, Absent
  <1>2. after[r] = IF r \in Readmitted(p) \cup Resumed(p)
                   THEN [tokens |-> AllTokens(r), gen |-> 0]
                   ELSE IF r \in Fresh(p) /\ Target(p, r) < PromptLen
                   THEN [tokens |-> Tokens(PromptLen), gen |-> 0]
                   ELSE IF r \in Evicted THEN NoState ELSE st[r]
    BY DEF StatesAfter
  <1>3. lens[r] = IF r \in Evicted \cup Readmitted(p) \cup Resumed(p)
                  THEN Absent ELSE seqLen[r]
    BY DEF SeqLenAfter
  <1>4. /\ [tokens |-> AllTokens(r), gen |-> 0] \in RequestState
        /\ [tokens |-> Tokens(PromptLen), gen |-> 0] \in RequestState
        /\ NoState \in RequestState
    <2>1. AllTokens(r) \in Seq(Int)
      BY AllTokensTrue, ReadyFacts DEF RunnerTypeOK, TokensTrue
    <2>2. Tokens(PromptLen) \in Seq(Int)
      BY ReadyFacts DEF Tokens
    <2> QED
      BY <2>1, <2>2 DEF RequestState, NoState
  <1> HIDE DEF st, after, lens
  <1>5. after[r] \in RequestState /\ lens[r] \in Int
    BY <1>1, <1>2, <1>3, <1>4
  <1>6. ASSUME FreshRow(p, r)
        PROVE  /\ lens[r] = Absent
               /\ after[r] = IF Target(p, r) < PromptLen
                             THEN [tokens |-> Tokens(PromptLen), gen |-> 0]
                             ELSE NoState
    BY <1>1, <1>2, <1>3, <1>6 DEF FreshRow
  <1>7. ASSUME ReturnRow(p, r)
        PROVE  lens[r] = Absent /\ after[r] = [tokens |-> AllTokens(r), gen |-> 0]
    BY <1>2, <1>3, <1>7 DEF ReturnRow
  <1>8. ASSUME ContinuedRow(p, r)
        PROVE  after[r] = st[r] /\ lens[r] = seqLen[r]
    BY <1>2, <1>3, <1>8 DEF ContinuedRow
  <1>9. ASSUME r \notin p.sel
        PROVE  /\ after[r] = IF r \in Evicted THEN NoState ELSE st[r]
               /\ lens[r] = IF r \in Evicted THEN Absent ELSE seqLen[r]
    BY <1>2, <1>3, <1>9, OutsideRows
  <1> QED
    BY <1>5, <1>6, <1>7, <1>8, <1>9 DEF st, after, lens

(* The lemmas below speak of the step's states by these names.             *)
After(p) == StatesAfter(p, Backfill(states))
Lens(p) == SeqLenAfter(p)
Decoded(p) == Decodes(p, After(p))

(* A prompt is the first PromptLen tokens.                                 *)
LEMMA PromptTokens ==
    /\ Tokens(PromptLen) \in Seq(Int) /\ Len(Tokens(PromptLen)) = PromptLen
    /\ \A i \in 1..PromptLen : Tokens(PromptLen)[i] = i
  BY LenAssumption DEF Tokens

(* Every token of those states is the true one or the placeholder of a     *)
(* pending row; what a returning request gets is what the engine read.     *)
LEMMA AfterTokens ==
    ASSUME Ready, NEW p \in Plans, NEW r \in Req
    PROVE  /\ \A i \in 1..Len(After(p)[r].tokens) : After(p)[r].tokens[i] \in {i, Hole}
           /\ Resolving \/ entries = <<>> =>
                \A i \in 1..Len(After(p)[r].tokens) : After(p)[r].tokens[i] = i
           /\ After(p)[r] # NoState => Len(After(p)[r].tokens) >= PromptLen
           /\ r \in p.sel /\ FreshRow(p, r) =>
                /\ Known(r) = PromptLen
                /\ Target(p, r) < PromptLen => Len(After(p)[r].tokens) = PromptLen
                /\ Target(p, r) < PromptLen <=> After(p)[r] # NoState
                /\ After(p)[r].gen = 0
           /\ r \in p.sel /\ ReturnRow(p, r) =>
                /\ Len(After(p)[r].tokens) = Known(r)
                /\ \A i \in 1..Known(r) : After(p)[r].tokens[i] = i
                /\ After(p)[r].gen = 0 /\ After(p)[r] # NoState
           /\ r \in p.sel /\ ContinuedRow(p, r) =>
                /\ Len(After(p)[r].tokens) = Total(r)
                /\ After(p)[r].gen = states[r].gen
                /\ After(p)[r] # NoState
  <1> DEFINE after == StatesAfter(p, Backfill(states))
             st == Backfill(states)
  <1>0. After(p) = after
    BY DEF After
  <1>1. /\ r \in p.sel /\ FreshRow(p, r) =>
             after[r] = IF Target(p, r) < PromptLen
                        THEN [tokens |-> Tokens(PromptLen), gen |-> 0]
                        ELSE NoState
        /\ r \in p.sel /\ ReturnRow(p, r) => after[r] = [tokens |-> AllTokens(r), gen |-> 0]
        /\ r \in p.sel /\ ContinuedRow(p, r) => after[r] = st[r]
        /\ r \notin p.sel => after[r] = IF r \in Evicted THEN NoState ELSE st[r]
    BY StatesAfterFacts
  <1>2. /\ Len(st[r].tokens) = Len(states[r].tokens)
        /\ st[r].gen = states[r].gen
        /\ st[r] = NoState <=> states[r] = NoState
        /\ \A i \in 1..Len(states[r].tokens) :
             /\ st[r].tokens[i] \in {i, Hole}
             /\ Resolving \/ entries = <<>> => st[r].tokens[i] = i
        /\ states[r] # NoState => Len(states[r].tokens) >= PromptLen
    BY BackfilledStates, ReadyFacts DEF Ready, TokensTrue
  <1>3. /\ Len(AllTokens(r)) = Known(r)
        /\ \A i \in 1..Known(r) : AllTokens(r)[i] = i
    BY AllTokensTrue, ReadyFacts DEF RunnerTypeOK, TokensTrue
  <1>4. Known(r) \in Nat /\ Known(r) >= PromptLen /\ PromptLen \in Nat /\ PromptLen > 0
    BY TotalFacts, ReadyFacts DEF Ready
  <1>5. r \in p.sel => FreshRow(p, r) \/ ReturnRow(p, r) \/ ContinuedRow(p, r)
    BY ScheduledRows
  <1>6. NoState.tokens = <<>> /\ NoState.gen = 0
    BY DEF NoState
  <1> HIDE DEF after, st
  <1>7. CASE r \in p.sel /\ FreshRow(p, r)
    <2>1. Known(r) = PromptLen
      BY <1>7, <1>4 DEF Known, FreshRow
    <2>2. ~ReturnRow(p, r) /\ ~ContinuedRow(p, r)
      BY <1>7 DEF FreshRow, ReturnRow, ContinuedRow
    <2>3. CASE Target(p, r) < PromptLen
      <3>1. after[r].tokens = Tokens(PromptLen) /\ after[r].gen = 0
        BY <1>1, <1>7, <2>3
      <3>2. after[r] # NoState
        BY <1>4, <1>6, <3>1, PromptTokens
      <3> QED
        BY <1>0, <1>4, <1>7, <2>1, <2>2, <2>3, <3>1, <3>2, PromptTokens
    <2>4. CASE ~(Target(p, r) < PromptLen)
      <3>1. after[r] = NoState /\ after[r].tokens = <<>> /\ after[r].gen = 0
        BY <1>1, <1>6, <1>7, <2>4
      <3> QED
        BY <1>0, <1>7, <2>1, <2>2, <2>4, <3>1
    <2> QED
      BY <2>3, <2>4
  <1>8. CASE r \in p.sel /\ ReturnRow(p, r)
    <2>1. after[r].tokens = AllTokens(r) /\ after[r].gen = 0
      BY <1>1, <1>8
    <2>2. ~FreshRow(p, r) /\ ~ContinuedRow(p, r)
      BY <1>8 DEF FreshRow, ReturnRow, ContinuedRow
    <2>3. after[r] # NoState
      BY <1>3, <1>4, <1>6, <2>1
    <2> QED
      BY <1>0, <1>3, <1>4, <1>8, <2>1, <2>2, <2>3
  <1>9. CASE r \in p.sel /\ ContinuedRow(p, r)
    <2>1. after[r] = st[r]
      BY <1>1, <1>9
    <2>2. ~FreshRow(p, r) /\ ~ReturnRow(p, r)
      BY <1>9 DEF FreshRow, ReturnRow, ContinuedRow
    <2>3. Len(states[r].tokens) = Total(r) /\ states[r] # NoState
      BY <1>9 DEF ContinuedRow, Settled
    <2> QED
      BY <1>0, <1>2, <1>9, <2>1, <2>2, <2>3
  <1>10. CASE r \notin p.sel
    <2>1. CASE r \in Evicted
      <3>1. after[r] = NoState /\ after[r].tokens = <<>>
        BY <1>1, <1>6, <1>10, <2>1
      <3> QED
        BY <1>0, <1>10, <3>1
    <2>2. CASE r \notin Evicted
      <3>1. after[r] = st[r]
        BY <1>1, <1>10, <2>2
      <3> QED
        BY <1>0, <1>2, <1>10, <3>1
    <2> QED
      BY <2>1, <2>2
  <1> QED
    BY <1>5, <1>7, <1>8, <1>9, <1>10

(* The decode requests of a step are the continued ones with an output;    *)
(* no request the step continues or brings back is missing.                *)
LEMMA DecodedFacts ==
    ASSUME Ready, NEW p \in Plans
    PROVE  /\ Decoded(p) \subseteq p.sel
           /\ \A r \in Decoded(p) : ContinuedRow(p, r) /\ states[r].gen # 0
           /\ \A r \in p.sel : ContinuedRow(p, r) /\ states[r].gen # 0 => r \in Decoded(p)
           /\ ~Overwritten(states) /\ ~MissingState(p, Backfill(states))
  <1>1. \A r \in Cached(p) : r \in p.sel /\ ~FreshRow(p, r)
    BY DEF Cached, FreshRow
  <1>2. p.sel \subseteq Req
    BY PlanFacts
  <1>3. ASSUME NEW r \in Cached(p), After(p)[r].gen # 0
        PROVE  ContinuedRow(p, r) /\ states[r].gen # 0
    BY <1>1, <1>2, <1>3, ScheduledRows, AfterTokens
  <1>4. ASSUME NEW r \in p.sel, ContinuedRow(p, r), states[r].gen # 0
        PROVE  r \in Decoded(p)
    BY <1>2, <1>4, AfterTokens DEF Decoded, Decodes, ContinuedRow
  <1>5. ~Overwritten(states) /\ \A r \in Req : Backfill(states)[r] = NoState <=> states[r] = NoState
    BY BackfilledStates DEF Ready
  <1>6. \A r \in Cached(p) \cup Readmitted(p) : r \in p.sel
    BY DEF Cached, Readmitted, New, Admitted
  <1>7. \A r \in Cached(p) \cup Readmitted(p) : r \notin Evicted /\ states[r] # NoState
    <2> SUFFICES ASSUME NEW r \in Cached(p) \cup Readmitted(p)
                 PROVE  r \notin Evicted /\ states[r] # NoState
      OBVIOUS
    <2>1. ~FreshRow(p, r)
      BY DEF FreshRow
    <2> QED
      BY <1>6, <2>1, ScheduledRows DEF ReturnRow, ContinuedRow
  <1>8. ~MissingState(p, Backfill(states))
    BY <1>2, <1>5, <1>6, <1>7 DEF MissingState
  <1> QED
    BY <1>1, <1>3, <1>4, <1>5, <1>8 DEF Decoded, Decodes

-----------------------------------------------------------------------------
(* A prefill row covers known tokens of its request over a prefix that is  *)
(* there, so it yields the token after its last one.                       *)
PrefillRowRight(p, row, r) ==
    /\ row \in PrefillRows /\ row.req = r /\ row.target = Target(p, r)
    /\ row.value = Target(p, r) + 1
    /\ row.mode = "intermediate" =>
         /\ After(p)[r] # NoState /\ After(p)[r].gen = 0
         /\ Target(p, r) < Limit(p, r) /\ Len(After(p)[r].tokens) = Limit(p, r)
    /\ row.mode = "new_final" =>
         After(p)[r] = NoState /\ Target(p, r) = PromptLen /\ Target(p, r) = Limit(p, r)
    /\ row.mode = "cached_final" =>
         /\ After(p)[r] # NoState /\ Len(After(p)[r].tokens) = Target(p, r)
         /\ Target(p, r) = Limit(p, r)

(* Every prefill row of a planned step is right.                           *)
LEMMA PrefillRowFacts ==
    ASSUME Ready, NEW p \in Plans, ExecuteModel(GateShape(p)),
           NEW r \in p.sel, r \notin Decoded(p)
    PROVE  PrefillRowRight(p, PrefillRow(p, After(p), r), r)
  <1> DEFINE toks == PrefillTokens(p, After(p), r)
             row == PrefillRow(p, After(p), r)
             t == Target(p, r)
  <1>1. r \in Req /\ (FreshRow(p, r) \/ ReturnRow(p, r) \/ ContinuedRow(p, r))
    BY ScheduledRows
  <1>2. /\ Start(p, r) \in Nat /\ t \in Nat /\ Limit(p, r) \in Nat
        /\ Start(p, r) < t /\ t <= Limit(p, r)
    BY TargetFacts
  (* The tokens the chunk is cut from are right. *)
  <1>3. /\ Len(toks) = Limit(p, r)
        /\ \A i \in 1..Limit(p, r) : toks[i] = i
        /\ KvBefore(p, r) = Start(p, r)
        /\ FreshRow(p, r) => r \in Fresh(p) /\ Limit(p, r) = PromptLen
        /\ ~FreshRow(p, r) =>
             /\ r \notin Fresh(p) /\ toks = After(p)[r].tokens
             /\ After(p)[r] # NoState /\ After(p)[r].gen = 0
    <2>1. CASE FreshRow(p, r)
      <3>1. /\ r \in Fresh(p) /\ r \in Admitted(p)
        BY <2>1 DEF FreshRow
      <3>2. toks = Tokens(PromptLen) /\ Limit(p, r) = Known(r) /\ KvBefore(p, r) = Start(p, r)
        BY <3>1 DEF PrefillTokens, Limit, KvBefore
      <3>3. Known(r) = PromptLen
        BY <1>1, <2>1, AfterTokens
      <3> QED
        BY <2>1, <3>1, <3>2, <3>3, PromptTokens
    <2>2. CASE ReturnRow(p, r)
      <3>1. r \notin Fresh(p) /\ r \in Admitted(p) /\ ~FreshRow(p, r)
        BY <2>2 DEF ReturnRow, FreshRow
      <3>2. /\ toks = After(p)[r].tokens /\ Limit(p, r) = Known(r)
            /\ KvBefore(p, r) = Start(p, r)
        BY <3>1 DEF PrefillTokens, Limit, KvBefore
      <3> QED
        BY <1>1, <2>2, <3>1, <3>2, AfterTokens
    <2>3. CASE ContinuedRow(p, r)
      <3>1. r \notin Fresh(p) /\ r \notin Admitted(p) /\ ~FreshRow(p, r) /\ r \in Cached(p)
        BY <2>3 DEF ContinuedRow, FreshRow
      <3>2. toks = After(p)[r].tokens /\ Limit(p, r) = Total(r) /\ KvBefore(p, r) = kv[r]
        BY <3>1 DEF PrefillTokens, Limit, KvBefore
      <3>3. states[r].gen = 0
        BY <2>3, DecodedFacts
      <3>4. Resolving \/ entries = <<>>
        BY <3>1, <3>3, ExecuteMoves, ReadyFacts
      <3>5. kv[r] = computed[r] /\ Start(p, r) = computed[r]
        BY <2>3, <3>1, TargetFacts DEF ContinuedRow, Settled
      <3> QED
        BY <1>1, <2>3, <3>1, <3>2, <3>3, <3>4, <3>5, AfterTokens
    <2> QED
      BY <1>1, <2>1, <2>2, <2>3
  <1>4. PrefillRight(p, After(p), r)
    <2>1. KvBefore(p, r) >= Start(p, r)
      BY <1>2, <1>3
    <2>2. \A i \in (Start(p, r) + 1)..t : toks[i] = i
      BY <1>2, <1>3
    <2> QED
      BY <1>2, <1>3, <2>1, <2>2 DEF PrefillRight
  <1>5. row = [req |-> r, target |-> t,
               mode |-> IF t < Len(toks) THEN "intermediate"
                        ELSE IF r \in Fresh(p) THEN "new_final" ELSE "cached_final",
               value |-> t + 1]
    BY <1>4 DEF PrefillRow, Row
  <1>6. FreshRow(p, r) =>
           /\ t < PromptLen <=> After(p)[r] # NoState
           /\ t < PromptLen => Len(After(p)[r].tokens) = PromptLen
           /\ After(p)[r].gen = 0
    BY <1>1, AfterTokens
  <1>7. row \in PrefillRows
    BY <1>1, <1>2, <1>5 DEF PrefillRows, Modes
  <1> HIDE DEF toks, row
  <1>8. t = Target(p, r)
    OBVIOUS
  <1> HIDE DEF t
  <1>9. row.req = r /\ row.target = t /\ row.value = t + 1
    BY <1>5
  <1>10. row.mode = "intermediate" =>
         /\ After(p)[r] # NoState /\ After(p)[r].gen = 0
         /\ t < Limit(p, r) /\ Len(After(p)[r].tokens) = Limit(p, r)
    BY <1>2, <1>3, <1>5, <1>6
  <1>11. row.mode = "new_final" =>
         After(p)[r] = NoState /\ t = PromptLen /\ t = Limit(p, r)
    BY <1>2, <1>3, <1>5, <1>6, LenAssumption
  <1>12. row.mode = "cached_final" =>
         /\ After(p)[r] # NoState /\ Len(After(p)[r].tokens) = t
         /\ t = Limit(p, r)
    BY <1>2, <1>3, <1>5
  <1> QED
    BY <1>7, <1>8, <1>9, <1>10, <1>11, <1>12 DEF PrefillRowRight, row

(* A list without repetitions that is as long as a finite set of its       *)
(* members is a list of the whole set.                                     *)
LEMMA OrderCovers ==
    ASSUME NEW S, IsFiniteSet(S), NEW order \in Orders(S)
    PROVE  /\ Cardinality(S) \in Nat
           /\ order \in [1..Cardinality(S) -> S]
           /\ \A i, j \in 1..Cardinality(S) : order[i] = order[j] => i = j
           /\ \A x \in S : \E i \in 1..Cardinality(S) : order[i] = x
  <1> DEFINE n == Cardinality(S)
  <1>1. n \in Nat
    BY FS_CardinalityType
  <1>2. /\ order \in [1..n -> S]
        /\ \A i, j \in 1..n : order[i] = order[j] => i = j
    BY DEF Orders
  <1>3. order \in Injection(1..n, S)
    BY <1>2 DEF Injection, IsInjective
  <1>4. IsFiniteSet(1..n) /\ Cardinality(1..n) = n
    <2>1. Cardinality(1..n) = IF 1 > n THEN 0 ELSE n - 1 + 1
      BY <1>1, FS_Interval
    <2> QED
      BY <1>1, <2>1, FS_Interval
  <1>5. order \in Surjection(1..n, S)
    BY <1>3, <1>4, FS_Injection
  <1>6. \A x \in S : \E i \in 1..n : order[i] = x
    BY <1>5 DEF Surjection
  <1> QED
    BY <1>1, <1>2, <1>6

(* A decode row reads its request's newest token, from the host or from    *)
(* the row of the pending step that is its own, and yields the next one.   *)
LEMMA DecodeRowValue ==
    ASSUME Ready, NEW p \in Plans, ExecuteModel(GateShape(p)),
           NEW order, NEW i, order[i] \in Decoded(p)
    PROVE  LET r == order[i] IN
           /\ DecodeRight(Lens(p), After(p), order, i)
           /\ Position(Lens(p), After(p), r) = Target(p, r) - 1
           /\ Len(After(p)[r].tokens) = Target(p, r)
           /\ Target(p, r) = Total(r) /\ r \in p.whole
  <1> DEFINE r == order[i]
             n == Target(p, r)
  <1>1. /\ r \in p.sel /\ r \in Req /\ ContinuedRow(p, r) /\ states[r].gen # 0
    BY DecodedFacts, PlanFacts
  <1>2. /\ n \in Nat /\ n > 0 /\ n = Total(r) /\ r \in p.whole /\ computed[r] = n - 1
    <2>1. /\ Start(p, r) \in Nat /\ n \in Nat /\ Start(p, r) < n /\ r \in p.whole
          /\ n = Total(r) /\ computed[r] = Total(r) - 1
      BY <1>1, TargetFacts
    <2> QED
      BY <2>1
  <1>3. /\ seqLen[r] = n - 1 /\ kv[r] = n - 1
        /\ status[r] = "running" /\ Len(states[r].tokens) = n
    BY <1>1, <1>2 DEF ContinuedRow, Settled
  <1>4. Lens(p)[r] = seqLen[r]
    BY <1>1, StatesAfterFacts DEF Lens
  <1>5. Len(After(p)[r].tokens) = n
    BY <1>1, <1>2, AfterTokens
  <1>6. Position(Lens(p), After(p), r) = n - 1
    <2>1. Lens(p)[r] # Absent
      BY <1>2, <1>3, <1>4 DEF Absent
    <2> QED
      BY <1>3, <1>4, <2>1 DEF Position
  <1>7. DecodeInput(After(p), order, i) = n
    <2>1. CASE stepEligible' /\ pending' # NoPending
      <3>1. /\ pending # NoPending
            /\ Decodes(p, states) \subseteq EntryReqs
        BY <2>1, ExecuteMoves
      <3>2. r \in EntryReqs
        BY <1>1, <3>1 DEF Decodes, ContinuedRow
      <3>3. /\ RowOf(r) \in 1..Len(entries) /\ entries[RowOf(r)].req = r
            /\ entries[RowOf(r)] \in EntryRows
            /\ EntryOwned(entries[RowOf(r)])
        BY <3>2, RowOfFacts, ReadyFacts DEF EntriesOwned
      <3>4. entries[RowOf(r)].current
        BY <1>3, <3>3 DEF EntryOwned
      <3>5. entries[RowOf(r)].value = n
        BY <1>3, <3>3, <3>4 DEF EntryOwned
      <3> QED
        BY <2>1, <3>5 DEF DecodeInput, GatheredRow
    <2>2. CASE ~(stepEligible' /\ pending' # NoPending)
      <3>1. Resolving \/ entries = <<>>
        BY <2>2, ExecuteMoves, ReadyFacts
      <3>2. After(p)[r].tokens[n] = n
        BY <1>1, <1>2, <1>5, <3>1, AfterTokens
      <3> QED
        BY <1>5, <2>2, <3>2 DEF DecodeInput, Last
    <2> QED
      BY <2>1, <2>2
  <1>8. DecodeRight(Lens(p), After(p), order, i)
    BY <1>2, <1>3, <1>6, <1>7 DEF DecodeRight
  <1> QED
    BY <1>2, <1>5, <1>6, <1>8

(* The decode rows of a planned step: one for every decode request, right. *)
LEMMA DecodeRowFacts ==
    ASSUME Ready, NEW p \in Plans, ExecuteModel(GateShape(p)),
           NEW order \in Orders(Decoded(p))
    PROVE  LET D == DecodeRows(Lens(p), After(p), order) IN
           /\ D \in Seq([req : Req, value : Int])
           /\ DOMAIN D = 1..Len(D)
           /\ \A i \in 1..Len(D) : /\ D[i].req \in Decoded(p)
                                   /\ D[i].value = Target(p, D[i].req) + 1
           /\ \A i, j \in 1..Len(D) : D[i].req = D[j].req => i = j
           /\ \A r \in Decoded(p) : \E i \in 1..Len(D) : D[i].req = r
           /\ Decoded(p) = {} => D = <<>>
  <1> DEFINE S == Decoded(p)
             n == Cardinality(S)
             D == DecodeRows(Lens(p), After(p), order)
  <1>1. IsFiniteSet(S) /\ S \subseteq Req /\ S \subseteq p.sel
    <2>1. S \subseteq Req /\ S \subseteq p.sel
      BY DecodedFacts, PlanFacts
    <2> QED
      BY <2>1, ReqFinite, FS_Subset
  <1>2. /\ n \in Nat
        /\ order \in [1..n -> S]
        /\ \A i, j \in 1..n : order[i] = order[j] => i = j
        /\ \A x \in S : \E i \in 1..n : order[i] = x
    BY <1>1, OrderCovers
  <1>3. ASSUME NEW i \in 1..n
        PROVE  /\ order[i] \in S /\ order[i] \in Req
               /\ Target(p, order[i]) + 1 \in Int
               /\ Row(DecodeRight(Lens(p), After(p), order, i),
                      Position(Lens(p), After(p), order[i]) + 1)
                  = Target(p, order[i]) + 1
    <2>1. order[i] \in S /\ order[i] \in Req /\ order[i] \in p.sel
      BY <1>1, <1>2
    <2>2. Target(p, order[i]) \in Nat
      BY <2>1, TargetFacts
    <2>3. /\ DecodeRight(Lens(p), After(p), order, i)
          /\ Position(Lens(p), After(p), order[i]) = Target(p, order[i]) - 1
      BY <2>1, DecodeRowValue
    <2> QED
      BY <2>1, <2>2, <2>3 DEF Row
  <1>4. D = [i \in 1..n |-> [req |-> order[i], value |-> Target(p, order[i]) + 1]]
    BY <1>2, <1>3 DEF DecodeRows
  <1> HIDE DEF D, n, S
  <1>5. /\ D \in [1..n -> [req : Req, value : Int]]
        /\ \A i \in 1..n : D[i].req = order[i] /\ D[i].value = Target(p, order[i]) + 1
    BY <1>3, <1>4
  <1>6. D \in Seq([req : Req, value : Int]) /\ Len(D) = n /\ DOMAIN D = 1..n
    BY <1>2, <1>4, <1>5
  <1>7. S = {} => D = <<>>
    <2> SUFFICES ASSUME S = {} PROVE D = <<>>
      OBVIOUS
    <2>1. n = 0
      BY FS_EmptySet DEF n
    <2> QED
      BY <1>6, <2>1
  <1>8. /\ \A i \in 1..n : D[i].req \in S /\ D[i].value = Target(p, D[i].req) + 1
        /\ \A i, j \in 1..n : D[i].req = D[j].req => i = j
        /\ \A r \in S : \E i \in 1..n : D[i].req = r
    BY <1>2, <1>5
  <1> QED
    BY <1>6, <1>7, <1>8 DEF D, S

(* So the forward of a planned step runs, over one right row per scheduled *)
(* request, and leaves each the KV of all it was scheduled for.            *)
LEMMA ForwardFacts ==
    ASSUME Ready, NEW p \in Plans, ExecutePlan(p)
    PROVE  /\ fault' = "none"
           /\ exec'.decode \in Seq([req : Req, value : Int])
           /\ DOMAIN exec'.decode = 1..Len(exec'.decode)
           /\ \A i \in 1..Len(exec'.decode) :
                /\ exec'.decode[i].req \in Decoded(p)
                /\ exec'.decode[i].value = Target(p, exec'.decode[i].req) + 1
           /\ \A i, j \in 1..Len(exec'.decode) :
                exec'.decode[i].req = exec'.decode[j].req => i = j
           /\ \A r \in Decoded(p) : \E i \in 1..Len(exec'.decode) : exec'.decode[i].req = r
           /\ exec'.prefill = {PrefillRow(p, After(p), r) : r \in p.sel \ Decoded(p)}
           /\ \A r \in p.sel \ Decoded(p) : PrefillRowRight(p, PrefillRow(p, After(p), r), r)
           /\ p.sel = {} => exec' = NoExec
           /\ kv' \in [Req -> Int]
           /\ \A r \in Req : kv'[r] = IF r \in p.sel THEN Target(p, r) ELSE kv[r]
  <1>1. ExecuteModel(GateShape(p)) /\ Prepare(p)
    BY DEF ExecutePlan
  <1>2. raised' = "none" /\ ~Overwritten(states) /\ ~MissingState(p, Backfill(states))
    BY <1>1, ExecuteMoves, DecodedFacts
  <1> DEFINE prefills == {PrefillRow(p, After(p), r) : r \in p.sel \ Decoded(p)}
  <1>3. PICK order \in Orders(Decoded(p)) :
           /\ exec' = [decode |-> DecodeRows(Lens(p), After(p), order), prefill |-> prefills]
           /\ kv' = KvAfter(p, RowSet(exec'.decode) \cup prefills)
           /\ fault' = fault
    BY <1>1, <1>2 DEF Prepare, Decoded, After, Lens
  <1> DEFINE D == exec'.decode
             forward == RowSet(D) \cup prefills
  <1>4. D = DecodeRows(Lens(p), After(p), order) /\ exec'.prefill = prefills
    BY <1>3
  <1>5. /\ D \in Seq([req : Req, value : Int])
        /\ DOMAIN D = 1..Len(D)
        /\ \A i \in 1..Len(D) : /\ D[i].req \in Decoded(p)
                                /\ D[i].value = Target(p, D[i].req) + 1
        /\ \A i, j \in 1..Len(D) : D[i].req = D[j].req => i = j
        /\ \A r \in Decoded(p) : \E i \in 1..Len(D) : D[i].req = r
        /\ Decoded(p) = {} => D = <<>>
    <2> DEFINE E == DecodeRows(Lens(p), After(p), order)
    <2>1. /\ E \in Seq([req : Req, value : Int])
          /\ DOMAIN E = 1..Len(E)
          /\ \A i \in 1..Len(E) : /\ E[i].req \in Decoded(p)
                                  /\ E[i].value = Target(p, E[i].req) + 1
          /\ \A i, j \in 1..Len(E) : E[i].req = E[j].req => i = j
          /\ \A r \in Decoded(p) : \E i \in 1..Len(E) : E[i].req = r
          /\ Decoded(p) = {} => E = <<>>
      BY <1>1, DecodeRowFacts
    <2>2. D = E
      BY <1>4
    <2> HIDE DEF E, D
    <2> QED
      BY <2>1, <2>2
  <1>6. \A r \in p.sel \ Decoded(p) : PrefillRowRight(p, PrefillRow(p, After(p), r), r)
    BY <1>1, PrefillRowFacts
  <1>7. p.sel = {} => exec' = NoExec
    <2> SUFFICES ASSUME p.sel = {} PROVE exec' = NoExec
      OBVIOUS
    <2>1. D = <<>> /\ prefills = {}
      BY <1>5, DecodedFacts
    <2> QED
      BY <1>3, <1>4, <2>1 DEF NoExec
  (* The rows of a scheduled request all yield the token after its target. *)
  <1>8. ASSUME NEW row \in forward
        PROVE  row.req \in p.sel /\ row.value = Target(p, row.req) + 1
    <2>1. CASE row \in RowSet(D)
      <3>1. PICK i \in 1..Len(D) : row = D[i]
        BY <1>5, <2>1 DEF RowSet
      <3> QED
        BY <1>5, <3>1, DecodedFacts
    <2>2. CASE row \in prefills
      <3>1. PICK r \in p.sel \ Decoded(p) : row = PrefillRow(p, After(p), r)
        BY <2>2
      <3> QED
        BY <1>6, <3>1 DEF PrefillRowRight
    <2> QED
      BY <2>1, <2>2
  <1>9. ASSUME NEW r \in p.sel
        PROVE  HasRow(forward, r)
    <2>1. CASE r \in Decoded(p)
      <3>1. PICK i \in 1..Len(D) : D[i].req = r
        BY <1>5, <2>1
      <3>2. D[i] \in RowSet(D)
        BY <1>5 DEF RowSet
      <3> QED
        BY <3>1, <3>2 DEF HasRow
    <2>2. CASE r \notin Decoded(p)
      <3>1. PrefillRow(p, After(p), r) \in prefills
        BY <2>2
      <3>2. PrefillRow(p, After(p), r).req = r
        BY <1>6, <2>2 DEF PrefillRowRight
      <3> QED
        BY <3>1, <3>2 DEF HasRow
    <2> QED
      BY <2>1, <2>2
  <1>10. kv \in [Req -> Int] /\ fault = "none" /\ p.sel \subseteq Req
    BY ReadyFacts, PlanFacts DEF RunnerTypeOK
  <1>11. ASSUME NEW r \in Req
         PROVE  /\ kv'[r] = IF r \in p.sel THEN Target(p, r) ELSE kv[r]
                /\ kv'[r] \in Int
    <2>1. kv'[r] = IF HasRow(forward, r) /\ RowFor(forward, r).value # Wrong
                   THEN RowFor(forward, r).value - 1 ELSE KvBefore(p, r)
      BY <1>3 DEF KvAfter
    <2> HIDE DEF forward
    <2>2. CASE r \in p.sel
      <3>1. RowFor(forward, r) \in forward /\ RowFor(forward, r).req = r
        BY <1>9, <2>2 DEF HasRow, RowFor
      <3>2. RowFor(forward, r).value = Target(p, r) + 1
        BY <1>8, <3>1
      <3>3. Target(p, r) \in Nat
        BY <2>2, TargetFacts
      <3> QED
        BY <1>9, <2>1, <2>2, <3>2, <3>3 DEF Wrong
    <2>3. CASE r \notin p.sel
      <3>1. ~HasRow(forward, r)
        BY <1>8, <2>3 DEF HasRow
      <3>2. KvBefore(p, r) = kv[r]
        BY <2>3 DEF KvBefore, Admitted
      <3> QED
        BY <1>10, <2>1, <2>3, <3>1, <3>2
    <2> QED
      BY <2>2, <2>3
  <1>12. kv' \in [Req -> Int]
    <2>1. DOMAIN kv' = Req /\ kv' = [r \in Req |-> kv'[r]]
      BY <1>3 DEF KvAfter
    <2> QED
      BY <1>11, <2>1
  <1> QED
    BY <1>3, <1>4, <1>5, <1>6, <1>7, <1>10, <1>11, <1>12

-----------------------------------------------------------------------------
(* The scheduler's side of the step: what it knows of every request, and   *)
(* how many tokens it expects of it.                                       *)
LEMMA ScheduleFacts ==
    ASSUME Ready, NEW p \in Plans, ExecutePlan(p)
    PROVE  /\ delivered' = delivered /\ finishedIds' = {}
           /\ accept' \in Seq(SUBSET Req) /\ Len(accept') = Len(accept) + 1
           /\ DOMAIN accept' = 1..Len(accept')
           /\ accept'[Len(accept) + 1] = p.whole
           /\ \A k \in 1..Len(accept) : accept'[k] \subseteq accept[k]
           /\ \A k \in 1..Len(accept) : \A r : r \notin p.pre =>
                (r \in accept'[k] <=> r \in accept[k])
           /\ p.drop => \A k \in 1..Len(accept) : \A r \in p.pre : r \notin accept'[k]
           /\ status' \in [Req -> {"absent", "waiting", "running", "preempted"}]
           /\ computed' \in [Req -> Nat]
           /\ \A r \in Req :
                /\ status'[r] = IF r \in p.sel THEN "running"
                                ELSE IF r \in p.pre THEN "preempted" ELSE status[r]
                /\ computed'[r] = IF r \in p.sel THEN Target(p, r)
                                  ELSE IF r \in p.pre THEN 0 ELSE computed[r]
  <1>1. /\ RunnerTypeOK /\ DOMAIN accept = 1..Len(accept) /\ Len(accept) \in Nat
    BY ReadyFacts
  <1>2. /\ delivered' = delivered /\ finishedIds' = {}
        /\ accept' = Append([k \in DOMAIN accept |->
                               IF p.drop THEN accept[k] \ p.pre ELSE accept[k]],
                            {r \in p.sel : r \in p.whole})
        /\ status' = [r \in Req |-> IF r \in p.sel THEN "running"
                                    ELSE IF r \in p.pre THEN "preempted" ELSE status[r]]
        /\ computed' = [r \in Req |-> IF r \in p.sel THEN Target(p, r)
                                      ELSE IF r \in p.pre THEN 0 ELSE computed[r]]
    BY DEF ExecutePlan, Schedule
  <1>3. p.sel \subseteq Req /\ p.whole \subseteq p.sel
    BY PlanFacts
  <1> DEFINE kept == [k \in DOMAIN accept |->
                        IF p.drop THEN accept[k] \ p.pre ELSE accept[k]]
  <1>4. /\ \A k \in 1..Len(accept) : accept[k] \in SUBSET Req
        /\ kept = [k \in 1..Len(accept) |-> IF p.drop THEN accept[k] \ p.pre ELSE accept[k]]
    BY <1>1 DEF RunnerTypeOK
  <1>5. kept \in Seq(SUBSET Req) /\ Len(kept) = Len(accept)
    BY <1>1, <1>4
  <1>6. {r \in p.sel : r \in p.whole} = p.whole /\ p.whole \in SUBSET Req
    BY <1>3
  <1>7. \A k \in 1..Len(accept) : kept[k] = IF p.drop THEN accept[k] \ p.pre ELSE accept[k]
    BY <1>4
  <1>8. accept' = Append(kept, p.whole)
    BY <1>2, <1>6
  <1> HIDE DEF kept
  <1>9. /\ accept' \in Seq(SUBSET Req) /\ Len(accept') = Len(accept) + 1
        /\ DOMAIN accept' = 1..Len(accept')
        /\ accept'[Len(accept) + 1] = p.whole
        /\ \A k \in 1..Len(accept) : accept'[k] = kept[k]
    BY <1>1, <1>5, <1>6, <1>8
  <1>10. /\ \A k \in 1..Len(accept) : accept'[k] \subseteq accept[k]
         /\ \A k \in 1..Len(accept) : \A r : r \notin p.pre =>
              (r \in accept'[k] <=> r \in accept[k])
         /\ p.drop => \A k \in 1..Len(accept) : \A r \in p.pre : r \notin accept'[k]
    BY <1>7, <1>9
  <1>11. /\ \A r \in Req :
              /\ status'[r] = IF r \in p.sel THEN "running"
                              ELSE IF r \in p.pre THEN "preempted" ELSE status[r]
              /\ computed'[r] = IF r \in p.sel THEN Target(p, r)
                                ELSE IF r \in p.pre THEN 0 ELSE computed[r]
    BY <1>2
  <1>12. status' \in [Req -> {"absent", "waiting", "running", "preempted"}]
    BY <1>1, <1>2 DEF RunnerTypeOK
  <1>13. computed' \in [Req -> Nat]
    <2>1. \A r \in p.sel : Target(p, r) \in Nat
      BY TargetFacts
    <2> QED
      BY <1>1, <1>2, <2>1 DEF RunnerTypeOK
  <1> QED
    BY <1>2, <1>9, <1>10, <1>11, <1>12, <1>13

(* A scheduled request is expected to have one token more than its limit   *)
(* when it was scheduled whole; any other running request as many as       *)
(* before.                                                                 *)
LEMMA TotalAfter ==
    ASSUME Ready, NEW p \in Plans, ExecutePlan(p), NEW r \in Req
    PROVE  /\ Known(r)' = Known(r)
           /\ r \in p.sel => Total(r)' = Limit(p, r) + (IF r \in p.whole THEN 1 ELSE 0)
           /\ r \notin p.sel /\ r \notin p.pre => Total(r)' = Total(r)
           /\ r \notin p.sel => Total(r)' \in Nat /\ Total(r)' <= Total(r)
  <1>1. /\ Len(accept) \in {0, 1} /\ DOMAIN accept = 1..Len(accept)
    BY ReadyFacts
  <1>2. /\ delivered' = delivered /\ Len(accept') = Len(accept) + 1
        /\ DOMAIN accept' = 1..Len(accept')
        /\ accept'[Len(accept) + 1] = p.whole
        /\ \A k \in 1..Len(accept) : accept'[k] \subseteq accept[k]
        /\ \A k \in 1..Len(accept) : r \notin p.pre =>
             (r \in accept'[k] <=> r \in accept[k])
        /\ p.drop => \A k \in 1..Len(accept) : r \in p.pre => r \notin accept'[k]
    BY ScheduleFacts
  <1>3. /\ Known(r) \in Nat /\ Inflight(r) \in Nat /\ Total(r) \in Nat
        /\ Inflight(r) = In(accept, 1, r) + In(accept, 2, r)
        /\ Total(r) = Known(r) + Inflight(r)
    BY TotalFacts DEF Ready, Total
  <1>4. Known(r)' = Known(r)
    BY <1>2 DEF Known
  <1>5. Inflight(r)' = In(accept', 1, r) + In(accept', 2, r)
    <2>1. Len(accept') \in Nat /\ Len(accept') <= 2
      BY <1>1, <1>2
    <2> QED
      BY <1>2, <2>1, CountTwo DEF Inflight
  <1> DEFINE keptOne == IF 1 \in 1..Len(accept) /\ r \in accept'[1] THEN 1 ELSE 0
             oneMore == IF r \in p.whole THEN 1 ELSE 0
  <1>6. In(accept', 1, r) + In(accept', 2, r) = keptOne + oneMore
    <2>1. CASE Len(accept) = 0
      BY <1>2, <2>1 DEF In
    <2>2. CASE Len(accept) = 1
      BY <1>2, <2>2 DEF In
    <2> QED
      BY <1>1, <2>1, <2>2
  <1>7. In(accept, 2, r) = 0 /\ Inflight(r) = In(accept, 1, r)
    <2>1. In(accept, 2, r) = 0
      BY <1>1 DEF In
    <2>2. In(accept, 1, r) \in Nat
      BY DEF In
    <2> QED
      BY <1>3, <2>1, <2>2
  <1>8. r \notin p.pre => keptOne = Inflight(r)
    BY <1>1, <1>2, <1>7 DEF In
  <1>9. p.drop /\ r \in p.pre => keptOne = 0
    BY <1>2
  <1>10. Total(r)' = Known(r) + keptOne + oneMore
    <2>1. Total(r)' = Known(r)' + Inflight(r)'
      BY DEF Total
    <2>2. keptOne \in Nat /\ oneMore \in Nat
      OBVIOUS
    <2> HIDE DEF keptOne, oneMore
    <2> QED
      BY <1>3, <1>4, <1>5, <1>6, <2>1, <2>2
  <1>11. ASSUME r \notin p.sel, r \notin p.pre PROVE Total(r)' = Total(r)
    <2>1. oneMore = 0
      BY <1>11, PlanFacts
    <2>2. keptOne = Inflight(r)
      BY <1>8, <1>11
    <2> HIDE DEF keptOne, oneMore
    <2> QED
      BY <1>3, <1>10, <2>1, <2>2
  <1>13. ASSUME r \notin p.sel PROVE Total(r)' \in Nat /\ Total(r)' <= Total(r)
    <2>1. oneMore = 0
      BY <1>13, PlanFacts
    <2>2. keptOne \in Nat /\ keptOne <= Inflight(r)
      BY <1>1, <1>2, <1>7 DEF In
    <2> HIDE DEF keptOne, oneMore
    <2> QED
      BY <1>3, <1>10, <2>1, <2>2
  <1>12. ASSUME r \in p.sel PROVE Total(r)' = Limit(p, r) + oneMore
    <2>1. FreshRow(p, r) \/ ReturnRow(p, r) \/ ContinuedRow(p, r)
      BY <1>12, ScheduledRows
    <2>2. CASE FreshRow(p, r)
      <3>1. Limit(p, r) = Known(r) /\ keptOne = 0
        BY <1>8, <2>2 DEF FreshRow, Limit
      <3>2. oneMore \in Nat
        OBVIOUS
      <3> HIDE DEF keptOne, oneMore
      <3> QED
        BY <1>3, <1>10, <3>1, <3>2
    <2>3. CASE ReturnRow(p, r)
      <3>1. Limit(p, r) = Known(r)
        BY <2>3 DEF ReturnRow, Limit
      <3>2. keptOne = 0
        <4>1. CASE status[r] = "preempted" /\ Inflight(r) = 0
          <5>1. r \notin p.pre
            BY <4>1, PlanFacts
          <5> QED
            BY <1>8, <4>1, <5>1
        <4>2. CASE r \in p.pre /\ p.drop
          BY <1>9, <4>2
        <4> QED
          BY <2>3, <4>1, <4>2 DEF ReturnRow
      <3>3. oneMore \in Nat
        OBVIOUS
      <3> HIDE DEF keptOne, oneMore
      <3> QED
        BY <1>3, <1>10, <3>1, <3>2, <3>3
    <2>4. CASE ContinuedRow(p, r)
      <3>1. Limit(p, r) = Total(r) /\ keptOne = Inflight(r)
        BY <1>8, <2>4 DEF ContinuedRow, Limit
      <3>2. oneMore \in Nat
        OBVIOUS
      <3> HIDE DEF keptOne, oneMore
      <3> QED
        BY <1>3, <1>10, <3>1, <3>2
    <2> QED
      BY <2>1, <2>2, <2>3, <2>4
  <1> QED
    BY <1>4, <1>11, <1>12, <1>13

-----------------------------------------------------------------------------
(* The outputs of the unread steps, and an empty row per scheduled request *)
(* for the new step.                                                       *)
LEMMA BatchAfter ==
    ASSUME Ready, NEW p \in Plans, ExecutePlan(p)
    PROVE  /\ batch' \in Seq(Outputs) /\ Len(batch') = Len(batch) + 1
           /\ DOMAIN batch' = 1..(Len(batch) + 1) /\ Len(batch) \in Nat
           /\ DOMAIN batch'[Len(batch) + 1] = p.sel
           /\ \A k \in 1..Len(batch) : DOMAIN batch'[k] = DOMAIN batch[k]
           /\ ~Resolving => \A k \in 1..Len(batch) : batch'[k] = batch[k]
           /\ Resolving => \A k \in 1..Len(batch) : \A r \in DOMAIN batch[k] :
                batch'[k][r] = OutValue(k, r)
  <1>1. /\ IInv /\ RInv /\ raised = "none" /\ batch \in Seq(Outputs)
        /\ p.sel \subseteq Req /\ Len(batch) \in Nat
    BY ReadyFacts, PlanFacts DEF Ready, RunnerTypeOK
  <1>2. batch' = Append(FillBatch(batch), [r \in p.sel |-> NoToken])
    BY DEF ExecutePlan, Prepare
  <1>3. [r \in p.sel |-> NoToken] \in Outputs
    <2>1. [r \in p.sel |-> NoToken] \in [p.sel -> Int]
      BY DEF NoToken
    <2> QED
      BY <1>1, <2>1 DEF Outputs
  <1>4. ~Resolving => FillBatch(batch) = batch
    BY DEF FillBatch
  <1>5. /\ FillBatch(batch) \in Seq(Outputs) /\ Len(FillBatch(batch)) = Len(batch)
        /\ \A k \in 1..Len(batch) : DOMAIN FillBatch(batch)[k] = DOMAIN batch[k]
        /\ Resolving => \A k \in 1..Len(batch) : \A r \in DOMAIN batch[k] :
             FillBatch(batch)[k][r] = OutValue(k, r)
    <2> HIDE DEF Outputs
    <2>1. CASE Resolving
      BY <1>1, <2>1, FillFacts
    <2>2. CASE ~Resolving
      BY <1>1, <1>4, <2>2
    <2> QED
      BY <2>1, <2>2
  <1>6. DOMAIN [r \in p.sel |-> NoToken] = p.sel
    OBVIOUS
  <1> DEFINE f == FillBatch(batch)
             new == [r \in p.sel |-> NoToken]
  <1>7. f \in Seq(Outputs) /\ new \in Outputs /\ Len(f) = Len(batch) /\ batch' = Append(f, new)
    BY <1>2, <1>3, <1>5
  <1>8. /\ batch' \in Seq(Outputs) /\ Len(batch') = Len(batch) + 1
        /\ DOMAIN batch' = 1..(Len(batch) + 1)
        /\ batch'[Len(batch) + 1] = new
        /\ \A k \in 1..Len(batch) : batch'[k] = f[k]
    <2> HIDE DEF Outputs, f, new
    <2> QED
      BY <1>1, <1>7
  <1> QED
    BY <1>1, <1>4, <1>5, <1>6, <1>8

(* The pending step's rows: gone when it was resolved, and no longer       *)
(* current where their request was evicted.                                *)
LEMMA EntriesAfter ==
    ASSUME Ready, NEW p \in Plans, ExecutePlan(p)
    PROVE  /\ entries' \in Seq(EntryRows)
           /\ DOMAIN entries' = 1..Len(entries')
           /\ Resolving => entries' = <<>>
           /\ ~Resolving =>
                /\ Len(entries') = Len(entries)
                /\ \A j \in 1..Len(entries) :
                     /\ entries'[j].req = entries[j].req
                     /\ entries'[j].index = entries[j].index
                     /\ entries'[j].value = entries[j].value
                     /\ entries'[j].current <=> entries[j].current /\ entries[j].req \notin Evicted
  <1>1. /\ entries \in Seq(EntryRows) /\ DOMAIN entries = 1..Len(entries)
        /\ Len(entries) \in Nat
    BY ReadyFacts
  <1>2. entries' = IF Resolving THEN <<>>
                   ELSE [j \in DOMAIN entries |->
                           [entries[j] EXCEPT !.current = @ /\ entries[j].req \notin Evicted]]
    BY DEF ExecutePlan, Prepare
  <1>3. CASE Resolving
    BY <1>2, <1>3
  <1>4. CASE ~Resolving
    <2>1. entries' = [j \in 1..Len(entries) |->
                        [entries[j] EXCEPT !.current = @ /\ entries[j].req \notin Evicted]]
      BY <1>1, <1>2, <1>4
    <2>2. ASSUME NEW j \in 1..Len(entries)
          PROVE  /\ entries'[j] \in EntryRows
                 /\ entries'[j].req = entries[j].req
                 /\ entries'[j].index = entries[j].index
                 /\ entries'[j].value = entries[j].value
                 /\ entries'[j].current <=> entries[j].current /\ entries[j].req \notin Evicted
      <3> DEFINE e == entries[j]
                 c == e.current /\ e.req \notin Evicted
      <3>1. e \in EntryRows
        BY <1>1
      <3>2. entries'[j] = [e EXCEPT !.current = c]
        BY <2>1
      <3>3. c \in BOOLEAN
        OBVIOUS
      <3>4. c <=> e.current /\ e.req \notin Evicted
        OBVIOUS
      <3> HIDE DEF e, c
      <3>5. /\ entries'[j].req = e.req /\ entries'[j].index = e.index
            /\ entries'[j].value = e.value /\ entries'[j].current = c
            /\ entries'[j] \in EntryRows
        BY <3>1, <3>2, <3>3 DEF EntryRows
      <3> QED
        BY <3>4, <3>5 DEF e
    <2>3. entries' \in Seq(EntryRows) /\ Len(entries') = Len(entries)
          /\ DOMAIN entries' = 1..Len(entries')
      <3>1. entries' = [j \in 1..Len(entries) |-> entries'[j]]
        BY <2>1
      <3>2. entries' \in [1..Len(entries) -> EntryRows]
        BY <2>2, <3>1
      <3> HIDE DEF EntryRows
      <3> QED
        BY <1>1, <3>2
    <2> QED
      BY <1>4, <2>2, <2>3
  <1> QED
    BY <1>3, <1>4

(* A planned step keeps every variable well-typed.                         *)
LEMMA ExecuteTypes ==
    ASSUME Ready, NEW p \in Plans, ExecutePlan(p)
    PROVE  RunnerTypeOK'
  <1>1. RunnerTypeOK
    BY ReadyFacts
  <1>2. /\ states' = After(p) /\ seqLen' = Lens(p)
        /\ awaiting' = AwaitingAfter(p) \ New(p)
    BY DEF ExecutePlan, Prepare, After, Lens
  <1>3. states' \in [Req -> RequestState] /\ seqLen' \in [Req -> Int]
    <2>1. \A r \in Req : After(p)[r] \in RequestState /\ Lens(p)[r] \in Int
      BY StatesAfterFacts DEF After, Lens
    <2>2. After(p) = [r \in Req |-> After(p)[r]] /\ Lens(p) = [r \in Req |-> Lens(p)[r]]
      BY DEF After, Lens, StatesAfter, SeqLenAfter
    <2> QED
      BY <1>2, <2>1, <2>2
  <1>4. awaiting' \in SUBSET Req
    BY <1>1, <1>2, PlanFacts DEF RunnerTypeOK, AwaitingAfter
  <1>5. exec'.prefill \in SUBSET PrefillRows
    BY ForwardFacts DEF PrefillRowRight
  <1>6. exec'.decode \in Seq([req : Req, value : Int]) /\ kv' \in [Req -> Int]
    BY ForwardFacts
  <1>7. batch' \in Seq(Outputs) /\ entries' \in Seq(EntryRows)
    BY BatchAfter, EntriesAfter
  <1>8. /\ status' \in [Req -> {"absent", "waiting", "running", "preempted"}]
        /\ computed' \in [Req -> Nat] /\ accept' \in Seq(SUBSET Req)
        /\ delivered' = delivered /\ finishedIds' = {}
    BY ScheduleFacts
  <1> HIDE DEF Outputs, EntryRows, RequestState, PrefillRows
  <1> QED
    BY <1>1, <1>3, <1>4, <1>5, <1>6, <1>7, <1>8 DEF RunnerTypeOK

(* Nobody is forgotten or remembered wrongly: the ledger after a step.     *)
LEMMA ExecuteLedger ==
    ASSUME Ready, NEW p \in Plans, ExecutePlan(p)
    PROVE  Ledger'
  <1>1. RunnerTypeOK /\ Ledger /\ NoLeak /\ DOMAIN batch = 1..Len(batch)
        /\ DOMAIN accept = 1..Len(accept) /\ Len(accept) \in Nat
    BY ReadyFacts DEF Ledger
  <1>2. /\ states' = After(p) /\ seqLen' = Lens(p)
        /\ awaiting' = AwaitingAfter(p) \ New(p)
    BY DEF ExecutePlan, Prepare, After, Lens
  <1>3. /\ delivered' = delivered /\ finishedIds' = {}
        /\ \A r \in Req : status'[r] = IF r \in p.sel THEN "running"
                                       ELSE IF r \in p.pre THEN "preempted" ELSE status[r]
    BY ScheduleFacts
  <1>4. /\ p.sel \subseteq Req /\ p.pre \subseteq Req /\ p.whole \subseteq p.sel
        /\ \A r \in p.pre : status[r] = "running"
    BY PlanFacts
  <1>5. ASSUME NEW r \in Req, r \notin p.sel
        PROVE  /\ r \in Evicted => After(p)[r] = NoState /\ Lens(p)[r] = Absent
               /\ r \notin Evicted => /\ After(p)[r] = NoState <=> states[r] = NoState
                                      /\ Lens(p)[r] = seqLen[r]
    <2>1. Backfill(states)[r] = NoState <=> states[r] = NoState
      BY BackfilledStates DEF Ready
    <2> QED
      BY <1>5, <2>1, StatesAfterFacts DEF After, Lens
  <1>6. ASSUME NEW r \in Req, status'[r] = "preempted"
        PROVE  r \in awaiting' /\ states'[r] # NoState
    <2>1. r \notin p.sel /\ (r \in p.pre \/ status[r] = "preempted")
      BY <1>3, <1>6
    <2>2. r \notin finishedIds /\ states[r] # NoState /\ r \in awaiting \cup p.pre
      BY <1>1, <1>4, <2>1, RunningState DEF Ledger
    <2>3. states'[r] # NoState
      BY <1>2, <1>5, <2>1, <2>2 DEF Evicted
    <2>4. r \in awaiting'
      BY <1>2, <2>1, <2>2, OutsideRows DEF AwaitingAfter, Evicted
    <2> QED
      BY <2>3, <2>4
  <1>7. ASSUME NEW r \in awaiting'
        PROVE  r \in Req /\ status'[r] = "preempted"
    <2>1. r \in awaiting \cup p.pre /\ r \notin finishedIds /\ r \notin New(p) /\ r \notin Resumed(p)
      BY <1>2 DEF AwaitingAfter, Evicted
    <2>2. r \in Req /\ (status[r] = "preempted" \/ r \in p.pre)
      BY <1>1, <1>4, <2>1 DEF Ledger, RunnerTypeOK
    <2>3. r \notin p.sel
      BY <2>1, <2>2 DEF Resumed, Admitted
    <2> QED
      BY <1>3, <2>2, <2>3
  <1>8. ASSUME NEW r \in Req, status'[r] = "waiting"
        PROVE  delivered'[r] = <<>> /\ ~Unread(r)'
    <2>1. status[r] = "waiting" /\ r \notin p.sel
      BY <1>3, <1>8
    <2>2. delivered[r] = <<>> /\ ~Unread(r)
      BY <1>1, <2>1 DEF Ledger
    <2>3. ASSUME NEW k \in DOMAIN batch' PROVE r \notin DOMAIN batch'[k]
      <3>1. k \in 1..Len(batch) \/ k = Len(batch) + 1
        BY BatchAfter
      <3> QED
        BY <1>1, <2>1, <2>2, <3>1, BatchAfter DEF Unread
    <2> QED
      BY <1>3, <2>2, <2>3 DEF Unread
  <1>9. ASSUME NEW k \in 1..Len(accept'), NEW r \in accept'[k]
        PROVE  status'[r] \in {"running", "preempted"}
    <2>1. Len(accept') = Len(accept) + 1
      BY ScheduleFacts
    <2>2. CASE k \in 1..Len(accept)
      <3>1. r \in accept[k]
        BY <2>2, ScheduleFacts
      <3>2. status[r] \in {"running", "preempted"} /\ r \in Req
        BY <1>1, <2>2, <3>1 DEF Ledger, RunnerTypeOK
      <3> QED
        BY <1>3, <3>2
    <2>3. CASE k = Len(accept) + 1
      BY <1>3, <1>4, <2>3, ScheduleFacts
    <2> QED
      BY <1>1, <2>1, <2>2, <2>3
  <1>10. NoLeak'
    <2> SUFFICES ASSUME NEW r \in Req,
                        states'[r] # NoState \/ seqLen'[r] # Absent \/ r \in awaiting'
                 PROVE  status'[r] \in {"running", "preempted"}
      BY DEF NoLeak
    <2>1. CASE r \in p.sel \/ r \in awaiting'
      BY <1>3, <1>7, <2>1
    <2>2. CASE r \notin p.sel /\ r \notin awaiting'
      <3>1. r \notin finishedIds /\ (states[r] # NoState \/ seqLen[r] # Absent)
        BY <1>2, <1>5, <2>2 DEF Evicted
      <3>2. status[r] \in {"running", "preempted"}
        BY <1>1, <3>1 DEF NoLeak
      <3> QED
        BY <1>3, <2>2, <3>2
    <2> QED
      BY <2>1, <2>2
  <1> QED
    BY <1>3, <1>6, <1>7, <1>8, <1>9, <1>10 DEF Ledger

(* A planned step keeps every token true or a placeholder.                 *)
LEMMA ExecuteTokens ==
    ASSUME Ready, NEW p \in Plans, ExecutePlan(p)
    PROVE  TokensTrue'
  <1>1. states' = After(p) /\ delivered' = delivered /\ TokensTrue
    BY ScheduleFacts, ReadyFacts DEF ExecutePlan, Prepare, After
  <1>2. \A r \in Req :
          /\ \A i \in 1..Len(After(p)[r].tokens) : After(p)[r].tokens[i] \in {i, Hole}
          /\ After(p)[r] # NoState => Len(After(p)[r].tokens) >= PromptLen
    BY AfterTokens
  <1> QED
    BY <1>1, <1>2 DEF TokensTrue

(* A step that keeps the pending step admits and preempts nobody, so each  *)
(* request but the evicted keeps its state.                                *)
LEMMA KeptStates ==
    ASSUME Ready, NEW p \in Plans, ExecutePlan(p), entries' # <<>>
    PROVE  /\ ~Resolving /\ p.pre = {} /\ Len(entries) > 0 /\ stepEligible'
           /\ \A r \in p.sel : ContinuedRow(p, r)
           /\ \A r \in Req : states'[r] = IF r \in Evicted THEN NoState ELSE states[r]
  <1>1. ExecuteModel(GateShape(p)) /\ states' = After(p)
    BY DEF ExecutePlan, Prepare, After
  <1>2. ~Resolving /\ Len(entries') = Len(entries)
    BY EntriesAfter
  <1>3. Len(entries) > 0
    <2>1. entries' \in Seq(EntryRows) /\ Len(entries') \in Nat
      BY EntriesAfter
    <2>2. Len(entries') # 0
      <3> HIDE DEF EntryRows
      <3> QED
        BY <2>1
    <2> QED
      BY <1>2, <2>1, <2>2
  <1>4. pending # NoPending
    BY <1>3, ReadyFacts
  <1>5. /\ stepEligible' /\ New(p) = {} /\ Resumed(p) = {} /\ p.pre = {}
    BY <1>1, <1>2, <1>4, ExecuteMoves
  <1>6. ASSUME NEW r \in p.sel PROVE ContinuedRow(p, r)
    BY <1>5, ScheduledRows DEF FreshRow, ReturnRow, Fresh, Readmitted
  <1>7. Backfill(states) = states
    BY <1>2, BackfilledStates DEF Ready
  <1>8. ASSUME NEW r \in Req
        PROVE  After(p)[r] = IF r \in Evicted THEN NoState ELSE states[r]
    <2>1. CASE r \in p.sel
      BY <1>6, <1>7, <2>1, StatesAfterFacts DEF ContinuedRow, After
    <2>2. CASE r \notin p.sel
      BY <1>7, <2>2, StatesAfterFacts DEF After
    <2> QED
      BY <2>1, <2>2
  <1> QED
    BY <1>1, <1>2, <1>3, <1>5, <1>6, <1>8

(* After a planned step the pending rows still own their placeholders.     *)
LEMMA ExecuteEntries ==
    ASSUME Ready, NEW p \in Plans, ExecutePlan(p)
    PROVE  EntriesOwned' /\ PlaceholderOwned'
  <1>1. /\ EntriesOwned /\ Ledger /\ RunnerTypeOK /\ DOMAIN entries = 1..Len(entries)
    BY ReadyFacts
  <1>2. ExecuteModel(GateShape(p)) /\ states' = After(p)
    BY DEF ExecutePlan, Prepare, After
  <1>3. \A r \in Req : states'[r] \in RequestState
                       /\ DOMAIN states'[r].tokens = 1..Len(states'[r].tokens)
    <2>1. \A r \in Req : states'[r] \in RequestState
      BY <1>2, StatesAfterFacts DEF After
    <2>2. \A r \in Req : states'[r].tokens \in Seq(Int)
      BY <2>1, NoStateIff
    <2> QED
      BY <2>1, <2>2
  <1>4. CASE entries' = <<>>
    <2>1. EntryReqs' = {}
      BY <1>4 DEF EntryReqs
    <2>2. pending'.reqs = {}
      <3>1. CASE Resolving
        BY <1>2, <3>1, ExecuteMoves DEF NoPending
      <3>2. CASE ~Resolving
        <4>1. pending' = pending
          BY <1>2, <3>2, ExecuteMoves
        <4>2. Len(entries) = 0
          BY <1>4, <3>2, EntriesAfter
        <4>3. EntryReqs = {}
          BY <1>1, <4>2 DEF EntryReqs
        <4> QED
          BY <1>1, <4>1, <4>3 DEF EntriesOwned
      <3> QED
        BY <3>1, <3>2
    <2>3. EntriesOwned'
      BY <1>4, <2>1, <2>2 DEF EntriesOwned
    <2>4. Resolving \/ entries = <<>>
      <3> SUFFICES ASSUME ~Resolving PROVE entries = <<>>
        OBVIOUS
      <3>1. Len(entries) = 0 /\ entries \in Seq(EntryRows)
        BY <1>4, EntriesAfter, ReadyFacts
      <3> HIDE DEF EntryRows
      <3> QED
        BY <3>1
    <2>5. \A r \in Req : \A i \in 1..Len(states'[r].tokens) : states'[r].tokens[i] # Hole
      <3>1. \A r \in Req : \A i \in 1..Len(states'[r].tokens) : states'[r].tokens[i] = i
        BY <1>2, <2>4, AfterTokens
      <3> QED
        BY <3>1 DEF Hole
    <2>6. PlaceholderOwned'
      BY <1>3, <1>4, <2>5 DEF PlaceholderOwned
    <2> QED
      BY <2>3, <2>6
  <1>5. CASE entries' # <<>>
    <2>1. /\ ~Resolving /\ p.pre = {} /\ stepEligible'
          /\ \A r \in p.sel : ContinuedRow(p, r)
          /\ \A r \in Req : states'[r] = IF r \in Evicted THEN NoState ELSE states[r]
      BY <1>5, KeptStates
    <2>2. pending' = pending
      BY <1>2, <2>1, ExecuteMoves
    <2>3. /\ DOMAIN entries' = 1..Len(entries)
          /\ Len(entries') = Len(entries)
          /\ \A j \in 1..Len(entries) :
                /\ entries'[j].req = entries[j].req
                /\ entries'[j].index = entries[j].index
                /\ entries'[j].value = entries[j].value
                /\ entries'[j].current <=> entries[j].current /\ entries[j].req \notin Evicted
      BY <2>1, EntriesAfter
    <2>4. EntryReqs' = EntryReqs
      BY <1>1, <2>3 DEF EntryReqs
    <2>5. ASSUME NEW j \in 1..Len(entries)
          PROVE  /\ entries[j].req \in Req /\ EntryOwned(entries[j])
      BY <1>1, RowsUnread DEF EntriesOwned, Ready
    <2>6. \A r \in Req : status'[r] = IF r \in p.sel THEN "running" ELSE status[r]
      BY <2>1, ScheduleFacts
    <2>7. ASSUME NEW j \in 1..Len(entries)
          PROVE  EntryOwned(entries[j])'
      <3> DEFINE r == entries[j].req
      <3>1. r \in Req /\ entries'[j].req = r
        BY <2>3, <2>5
      <3>2. entries'[j].value = entries'[j].index
        BY <2>3, <2>5 DEF EntryOwned
      <3>3. ASSUME entries'[j].current
            PROVE  /\ entries'[j].index = Len(states'[r].tokens) /\ entries'[j].index > 0
                   /\ status'[r] = "running"
        <4>1. entries[j].current /\ r \notin finishedIds
          BY <2>3, <3>3 DEF Evicted
        <4>2. /\ entries[j].index = Len(states[r].tokens) /\ entries[j].index > 0
              /\ status[r] = "running"
          BY <2>5, <4>1 DEF EntryOwned, Gone
        <4>3. states'[r] = states[r]
          BY <2>1, <3>1, <4>1 DEF Evicted
        <4> QED
          BY <2>3, <2>6, <3>1, <4>2, <4>3
      <3>4. ASSUME ~entries'[j].current
            PROVE  status'[r] = "absent"
        <4>1. ~entries[j].current \/ r \in finishedIds
          BY <2>3, <3>4 DEF Evicted
        <4>2. r \in finishedIds => status[r] # "running"
          BY <1>1, <3>1 DEF Ledger
        <4>3. status[r] = "absent"
          BY <2>5, <4>1, <4>2 DEF EntryOwned, Gone
        <4>4. r \notin p.sel
          BY <2>1, <4>3 DEF ContinuedRow
        <4> QED
          BY <2>6, <3>1, <4>3, <4>4
      <3> HIDE DEF r
      <3> QED
        BY <3>1, <3>2, <3>3, <3>4 DEF EntryOwned
    <2>8. EntriesOwned'
      <3>1. EntryReqs' = pending'.reqs
        BY <1>1, <2>2, <2>4 DEF EntriesOwned
      <3>2. \A i, j \in 1..Len(entries') : entries'[i].req = entries'[j].req => i = j
        BY <1>1, <2>3 DEF EntriesOwned
      <3>3. \A j \in 1..Len(entries') : EntryOwned(entries[j])'
        BY <2>3, <2>7
      <3>4. ~(phase' = "sample" /\ ~stepEligible')
        BY <2>1
      <3> QED
        BY <3>1, <3>2, <3>3, <3>4 DEF EntriesOwned
    <2>9. PlaceholderOwned'
      <3> SUFFICES ASSUME NEW r \in Req, NEW i \in DOMAIN states'[r].tokens
                   PROVE  (states'[r].tokens[i] = Hole) <=>
                            \E j \in DOMAIN entries' :
                               /\ entries'[j].current
                               /\ entries'[j].req = r
                               /\ entries'[j].index = i
        BY DEF PlaceholderOwned
      <3>1. r \notin Evicted /\ states'[r] = states[r]
        <4>1. NoState.tokens = <<>>
          BY DEF NoState
        <4> QED
          BY <2>1, <4>1
      <3>2. PlaceholderOwned
        BY DEF Ready, RInv
      <3>3. (states[r].tokens[i] = Hole) <=>
              \E j \in DOMAIN entries :
                 entries[j].current /\ entries[j].req = r /\ entries[j].index = i
        BY <3>1, <3>2 DEF PlaceholderOwned
      <3>4. \A j \in 1..Len(entries) :
               (entries'[j].current /\ entries'[j].req = r /\ entries'[j].index = i)
               <=> (entries[j].current /\ entries[j].req = r /\ entries[j].index = i)
        BY <2>3, <3>1
      <3> QED
        BY <1>1, <2>3, <3>1, <3>3, <3>4
    <2> QED
      BY <2>8, <2>9
  <1> QED
    BY <1>4, <1>5

(* A scheduled request after the step: its computed positions and its KV   *)
(* reach its target.                                                       *)
LEMMA ScheduledAfter ==
    ASSUME Ready, NEW p \in Plans, ExecutePlan(p), NEW r \in p.sel
    PROVE  /\ r \in Req /\ status'[r] = "running"
           /\ computed'[r] = Target(p, r) /\ kv'[r] = Target(p, r)
           /\ states'[r] = After(p)[r] /\ seqLen' = Lens(p) /\ states' = After(p)
           /\ Total(r)' = Limit(p, r) + (IF r \in p.whole THEN 1 ELSE 0)
           /\ r \in accept'[Len(accept')] <=> r \in p.whole
  <1>1. r \in Req
    BY PlanFacts
  <1>2. states' = After(p) /\ seqLen' = Lens(p)
    BY DEF ExecutePlan, Prepare, After, Lens
  <1>3. status'[r] = "running" /\ computed'[r] = Target(p, r)
    BY <1>1, ScheduleFacts
  <1>4. kv'[r] = Target(p, r)
    BY <1>1, ForwardFacts
  <1>5. Total(r)' = Limit(p, r) + (IF r \in p.whole THEN 1 ELSE 0)
    BY <1>1, TotalAfter
  <1>6. accept'[Len(accept')] = p.whole
    BY ScheduleFacts
  <1> QED
    BY <1>1, <1>2, <1>3, <1>4, <1>5, <1>6

(* The rows the step hands to sample_tokens extend their requests rightly. *)
LEMMA ExecuteRows ==
    ASSUME Ready, NEW p \in Plans, ExecutePlan(p)
    PROVE  ExecDue' /\ ForwardSound' /\ ExecReqs' = p.sel
  <1>1. ExecuteModel(GateShape(p))
    BY DEF ExecutePlan
  <1>2. /\ DOMAIN exec'.decode = 1..Len(exec'.decode)
        /\ \A i \in 1..Len(exec'.decode) :
             /\ exec'.decode[i].req \in Decoded(p)
             /\ exec'.decode[i].value = Target(p, exec'.decode[i].req) + 1
        /\ \A i, j \in 1..Len(exec'.decode) :
             exec'.decode[i].req = exec'.decode[j].req => i = j
        /\ \A r \in Decoded(p) : \E i \in 1..Len(exec'.decode) : exec'.decode[i].req = r
        /\ exec'.prefill = {PrefillRow(p, After(p), r) : r \in p.sel \ Decoded(p)}
        /\ \A r \in p.sel \ Decoded(p) : PrefillRowRight(p, PrefillRow(p, After(p), r), r)
        /\ p.sel = {} => exec' = NoExec
    BY ForwardFacts
  <1>3. Decoded(p) \subseteq p.sel
    BY DecodedFacts
  <1>4. DecodeReqs' = Decoded(p)
    BY <1>2 DEF DecodeReqs
  <1>5. ASSUME NEW row \in exec'.prefill
        PROVE  /\ row.req \in p.sel /\ row.req \notin Decoded(p)
               /\ PrefillRowRight(p, row, row.req)
               /\ row = PrefillRow(p, After(p), row.req)
    <2>1. PICK r \in p.sel \ Decoded(p) : row = PrefillRow(p, After(p), r)
      BY <1>2
    <2>2. PrefillRowRight(p, row, r)
      BY <1>2, <2>1
    <2>3. row.req = r
      BY <2>2 DEF PrefillRowRight
    <2> QED
      BY <2>1, <2>2, <2>3
  <1>6. PrefillReqs' = p.sel \ Decoded(p)
    <2>1. ASSUME NEW r \in p.sel \ Decoded(p)
          PROVE  r \in PrefillReqs'
      <3>1. PrefillRow(p, After(p), r) \in exec'.prefill
        BY <1>2, <2>1
      <3>2. PrefillRow(p, After(p), r).req = r
        BY <1>2, <2>1 DEF PrefillRowRight
      <3> QED
        BY <3>1, <3>2 DEF PrefillReqs
    <2> QED
      BY <1>5, <2>1 DEF PrefillReqs
  <1>7. ExecReqs' = p.sel
    BY <1>3, <1>4, <1>6 DEF ExecReqs
  <1>8. \A r \in p.sel : Target(p, r) \in Nat /\ Target(p, r) > 0
    <2>1. \A r \in p.sel : Start(p, r) \in Nat /\ Target(p, r) \in Nat /\ Start(p, r) < Target(p, r)
      BY TargetFacts
    <2> QED
      BY <2>1
  <1>9. ForwardSound'
    <2>1. \A i \in 1..Len(exec'.decode) : exec'.decode[i].value # Wrong
      BY <1>2, <1>3, <1>8 DEF Wrong
    <2>2. \A row \in exec'.prefill : row.value # Wrong
      BY <1>5, <1>8 DEF PrefillRowRight, Wrong
    <2> QED
      BY <1>2, <2>1, <2>2 DEF ForwardSound
  <1>10. ASSUME NEW i \in 1..Len(exec'.decode) PROVE DecodeRowDue(exec.decode[i])'
    <2>0. PICK r \in Decoded(p) : r = exec'.decode[i].req
      BY <1>2
    <2> DEFINE n == Target(p, r)
    <2>1. r \in Decoded(p) /\ r \in p.sel /\ exec'.decode[i].value = n + 1 /\ n \in Nat
      BY <1>2, <1>3, <1>8, <2>0
    <2>2. /\ status'[r] = "running" /\ computed'[r] = n /\ kv'[r] = n
          /\ states' = After(p) /\ seqLen' = Lens(p) /\ r \in Req
          /\ Total(r)' = Limit(p, r) + (IF r \in p.whole THEN 1 ELSE 0)
      BY <2>1, ScheduledAfter
    <2>3. /\ Position(Lens(p), After(p), r) = n - 1
          /\ Len(After(p)[r].tokens) = n /\ r \in p.whole
      <3> DEFINE order == [j \in {i} |-> r]
      <3>1. order[i] = r
        OBVIOUS
      <3> HIDE DEF order
      <3>2. order[i] \in Decoded(p)
        BY <2>1, <3>1
      <3>3. /\ Position(Lens(p), After(p), order[i]) = Target(p, order[i]) - 1
            /\ Len(After(p)[order[i]].tokens) = Target(p, order[i])
            /\ order[i] \in p.whole
        BY <1>1, <3>2, DecodeRowValue
      <3> QED
        BY <3>1, <3>3
    <2>4. Limit(p, r) = n
      BY <2>1, <2>3, TargetFacts
    <2>5. Total(r)' = n + 1
      BY <2>2, <2>3, <2>4
    <2>6. n >= PromptLen
      <3>1. ContinuedRow(p, r)
        BY <2>1, DecodedFacts
      <3>2. After(p)[r] # NoState
        BY <2>1, <2>2, <3>1, AfterTokens
      <3> QED
        BY <2>2, <2>3, <3>2, AfterTokens
    <2>7. Len(states'[r].tokens) = n /\ Position(seqLen', states', r) = n - 1
      BY <2>2, <2>3
    <2>8. n - 1 + 1 = n
      BY <2>1
    <2> HIDE DEF n
    <2>9. /\ exec'.decode[i].value = Len(states'[r].tokens) + 1
          /\ Len(states'[r].tokens) >= PromptLen
          /\ Position(seqLen', states', r) + 1 = Len(states'[r].tokens)
          /\ computed'[r] = Len(states'[r].tokens) /\ kv'[r] = Len(states'[r].tokens)
          /\ Total(r)' = Len(states'[r].tokens) + 1
      BY <2>1, <2>2, <2>5, <2>6, <2>7, <2>8
    <2> QED
      BY <2>0, <2>2, <2>9 DEF DecodeRowDue, Total, Known, Inflight
  <1>11. ASSUME NEW row \in exec'.prefill PROVE PrefillRowDue(row)'
    <2> DEFINE r == row.req
               n == Target(p, r)
    <2>1. r \in p.sel /\ PrefillRowRight(p, row, r) /\ n \in Nat /\ n > 0
      BY <1>5, <1>8
    <2>2. /\ status'[r] = "running" /\ computed'[r] = n /\ kv'[r] = n
          /\ states'[r] = After(p)[r] /\ r \in Req
          /\ Total(r)' = Limit(p, r) + (IF r \in p.whole THEN 1 ELSE 0)
          /\ r \in accept'[Len(accept')] <=> r \in p.whole
      BY <2>1, ScheduledAfter
    <2>3. n = Limit(p, r) <=> r \in p.whole
      BY <2>1, TargetFacts
    <2>4. Limit(p, r) \in Nat
      BY <2>1, TargetFacts
    <2>5. /\ row.target = n /\ row.value = n + 1
          /\ row.mode = "intermediate" =>
               /\ After(p)[r] # NoState /\ After(p)[r].gen = 0
               /\ n < Limit(p, r) /\ Len(After(p)[r].tokens) = Limit(p, r)
          /\ row.mode = "new_final" =>
               After(p)[r] = NoState /\ n = PromptLen /\ n = Limit(p, r)
          /\ row.mode = "cached_final" =>
               /\ After(p)[r] # NoState /\ Len(After(p)[r].tokens) = n
               /\ n = Limit(p, r)
          /\ row.mode \in Modes
      BY <2>1 DEF PrefillRowRight, PrefillRows
    <2>6. r = row.req
      OBVIOUS
    <2> HIDE DEF n, r
    <2>7. row.mode = "intermediate" =>
            /\ states'[r] # NoState /\ states'[r].gen = 0
            /\ Len(states'[r].tokens) = Total(r)' /\ r \notin accept'[Len(accept')]
      BY <2>1, <2>2, <2>3, <2>4, <2>5
    <2>8. row.mode # "intermediate" => Total(r)' = n + 1
      BY <2>1, <2>2, <2>3, <2>4, <2>5 DEF Modes
    <2>9. /\ row.mode = "new_final" => states'[r] = NoState /\ row.target = PromptLen
          /\ row.mode = "cached_final" => states'[r] # NoState /\ Len(states'[r].tokens) = row.target
      BY <2>2, <2>5
    <2>10. row.value = row.target + 1 /\ row.target > 0 /\ computed'[r] = row.target
           /\ kv'[r] = row.target /\ status'[r] = "running" /\ row.target = n
      BY <2>1, <2>2, <2>5
    <2> QED
      BY <2>6, <2>7, <2>8, <2>9, <2>10 DEF PrefillRowDue
  <1>12. phase' = "execute" => exec' = NoExec
    BY <1>1, <1>2, ExecuteMoves
  <1>13. phase' = "sample" /\ stepEligible' => exec'.prefill = {} /\ current' = DecodeReqs'
    <2> SUFFICES ASSUME stepEligible' PROVE exec'.prefill = {} /\ current' = DecodeReqs'
      OBVIOUS
    <2>1. /\ New(p) = {} /\ Resumed(p) = {}
          /\ \A r \in Cached(p) : states[r].gen # 0
          /\ current' = Decodes(p, states)
      BY <1>1, ExecuteMoves
    <2>2. \A r \in p.sel : r \in Cached(p) /\ ContinuedRow(p, r) /\ states[r].gen # 0
      BY <2>1, ScheduledRows DEF FreshRow, ReturnRow, Fresh, Readmitted, ContinuedRow
    <2>3. Decoded(p) = p.sel
      BY <1>3, <2>2, DecodedFacts
    <2>4. Decodes(p, states) = p.sel
      BY <2>2 DEF Decodes, Cached
    <2> QED
      BY <1>2, <1>4, <2>1, <2>3, <2>4
  <1>14. \A row \in exec'.prefill : row.req \notin DecodeReqs'
    BY <1>4, <1>5
  <1>15. \A a, b \in exec'.prefill : a.req = b.req => a = b
    BY <1>5
  <1>16. ExecDue'
    BY <1>2, <1>10, <1>11, <1>12, <1>13, <1>14, <1>15 DEF ExecDue
  <1> QED
    BY <1>7, <1>9, <1>16

(* Batches, outputs and settled requests after a planned step.             *)
LEMMA ExecuteAgreement ==
    ASSUME Ready, NEW p \in Plans, ExecutePlan(p)
    PROVE  Aligned' /\ OutputsDue' /\ RunnersSettled'
  <1>1. ExecuteModel(GateShape(p))
    BY DEF ExecutePlan
  <1>2. /\ Len(queue) \in {0, 1} /\ Len(batch) = Len(queue) /\ Len(accept) = Len(queue)
        /\ Aligned /\ RunnerTypeOK /\ EntriesOwned /\ DOMAIN entries = 1..Len(entries)
    BY ReadyFacts
  <1>3. IInv /\ RInv /\ raised = "none" /\ queue \in Seq(Output) /\ OutputsDue
        /\ steps + 1 \in Nat
    BY AgreementFacts, RunningFacts DEF Ready
  <1>4. /\ \/ phase' = "sample" /\ queue' = queue /\ p.sel # {}
           \/ phase' = "execute" /\ queue' = Append(queue, Done(steps + 1)) /\ p.sel = {}
        /\ consumed' = consumed /\ sampleFailure' = sampleFailure
        /\ Resolving => pending' = NoPending
        /\ ~Resolving => pending' = pending
    BY <1>1, ExecuteMoves
  <1>5. /\ Len(batch') = Len(batch) + 1
        /\ DOMAIN batch'[Len(batch) + 1] = p.sel
        /\ \A k \in 1..Len(batch) : DOMAIN batch'[k] = DOMAIN batch[k]
        /\ ~Resolving => \A k \in 1..Len(batch) : batch'[k] = batch[k]
        /\ Resolving => \A k \in 1..Len(batch) : \A r \in DOMAIN batch[k] :
             batch'[k][r] = OutValue(k, r)
    BY BatchAfter
  <1>6. /\ Len(accept') = Len(accept) + 1
        /\ accept'[Len(accept) + 1] = p.whole
        /\ \A k \in 1..Len(accept) : accept'[k] \subseteq accept[k]
        /\ p.whole \subseteq p.sel /\ p.sel \subseteq Req
    BY ScheduleFacts, PlanFacts
  <1>7. ExecReqs' = p.sel
    BY ExecuteRows
  <1>8. /\ Len(queue') + InHand' = Len(queue) + 1
        /\ Len(queue') \in Nat
        /\ \A k \in 1..Len(queue) : queue'[k] = queue[k]
        /\ Len(queue') = Len(queue) \/ (Len(queue') = Len(queue) + 1 /\ p.sel = {})
    <2>1. CASE phase' = "sample" /\ queue' = queue
      <3>1. InHand' = 1
        BY <2>1 DEF InHand
      <3> QED
        BY <1>2, <2>1, <3>1
    <2>2. CASE phase' = "execute" /\ queue' = Append(queue, Done(steps + 1)) /\ p.sel = {}
      <3>1. InHand' = 0
        BY <2>2 DEF InHand
      <3>2. /\ Len(Append(queue, Done(steps + 1))) = Len(queue) + 1
            /\ \A k \in 1..Len(queue) : Append(queue, Done(steps + 1))[k] = queue[k]
        BY <1>3, OutputKinds, AppendOutput
      <3> QED
        BY <1>2, <2>2, <3>1, <3>2
    <2> QED
      BY <1>4, <2>1, <2>2
  <1>9. Aligned'
    <2>1. ASSUME NEW k \in 1..Len(batch') PROVE accept'[k] \subseteq DOMAIN batch'[k]
      <3>1. CASE k \in 1..Len(batch)
        BY <1>2, <1>5, <1>6, <3>1 DEF Aligned
      <3>2. CASE k \notin 1..Len(batch)
        <4>1. k = Len(batch) + 1
          BY <1>2, <1>5, <3>2
        <4> QED
          BY <1>2, <1>5, <1>6, <4>1
      <3> QED
        BY <3>1, <3>2
    <2>2. ASSUME pending' # NoPending, NEW k \in 1..Len(queue'), k = pending'.step - consumed'
          PROVE  DOMAIN batch'[k] = pending'.reqs
      <3>1. pending' = pending
        BY <1>4, <2>2
      <3>2. k \in 1..Len(queue) /\ DOMAIN batch[k] = pending.reqs
        BY <1>3, <1>4, <2>2, <3>1, AgreementFacts
      <3> QED
        BY <1>2, <1>5, <3>1, <3>2
    <2>3. phase' = "sample" => DOMAIN batch'[Len(batch')] = ExecReqs'
      BY <1>5, <1>7
    <2>4. Len(batch') = Len(queue') + InHand' /\ Len(accept') = Len(queue') + InHand'
      BY <1>2, <1>5, <1>6, <1>8
    <2> QED
      BY <2>1, <2>2, <2>3, <2>4 DEF Aligned
  <1>10. OutputsDue'
    <2> SUFFICES ASSUME NEW k \in 1..Len(queue'), queue'[k].kind # "failed",
                        NEW r \in accept'[k]
                 PROVE  OutValue(k, r)' = Due(k, r)'
      BY DEF OutputsDue
    <2>1. k \in 1..Len(queue)
      <3> SUFFICES ASSUME k \notin 1..Len(queue) PROVE FALSE
        OBVIOUS
      <3>1. k = Len(accept) + 1 /\ p.sel = {}
        BY <1>2, <1>8
      <3>2. accept'[k] = {}
        BY <1>6, <3>1
      <3> QED
        BY <3>2
    <2>2. k = 1 /\ k \in 1..Len(accept) /\ k \in 1..Len(batch)
      BY <1>2, <2>1
    <2>3. r \in accept[k] /\ r \in DOMAIN batch[k] /\ queue[k].kind # "failed"
      BY <1>2, <1>6, <1>8, <2>1, <2>2 DEF Aligned
    <2>4. Due(k, r)' = Due(k, r)
      <3>1. delivered' = delivered
        BY ScheduleFacts
      <3> QED
        BY <2>2, <3>1 DEF Due, Known
    <2>5. OutValue(k, r)' = OutValue(k, r)
      <3>1. CASE Resolving
        <4>1. pending' = NoPending /\ batch'[k][r] = OutValue(k, r)
          BY <1>4, <1>5, <2>2, <2>3, <3>1
        <4> QED
          BY <4>1 DEF OutValue
      <3>2. CASE ~Resolving
        <4>1. pending' = pending /\ batch'[k] = batch[k] /\ consumed' = consumed
          BY <1>4, <1>5, <2>2, <3>2
        <4>2. CASE pending # NoPending /\ k = pending.step - consumed
          <5>1. r \in EntryReqs
            BY <1>2, <2>1, <2>3, <4>2 DEF Aligned, EntriesOwned
          <5>2. RowOf(r) \in 1..Len(entries) /\ entries[RowOf(r)].req = r
            BY <1>2, <5>1, RowOfFacts DEF RunnerTypeOK
          <5>3. /\ DOMAIN entries' = 1..Len(entries)
                /\ \A j \in 1..Len(entries) :
                     entries'[j].req = entries[j].req /\ entries'[j].value = entries[j].value
            BY <3>2, EntriesAfter
          <5>4. RowOf(r)' \in DOMAIN entries' /\ entries'[RowOf(r)'].req = r
            <6>1. \E row \in DOMAIN entries' : entries'[row].req = r
              BY <5>2, <5>3
            <6> QED
              BY <6>1 DEF RowOf
          <5>5. RowOf(r)' = RowOf(r)
            BY <1>2, <5>2, <5>3, <5>4 DEF EntriesOwned
          <5>6. entries'[RowOf(r)'].value = entries[RowOf(r)].value
            BY <5>2, <5>3, <5>5
          <5> QED
            BY <4>1, <4>2, <5>6 DEF OutValue
        <4>3. CASE ~(pending # NoPending /\ k = pending.step - consumed)
          BY <4>1, <4>3 DEF OutValue
        <4> QED
          BY <4>2, <4>3
      <3> QED
        BY <3>1, <3>2
    <2> QED
      BY <1>3, <2>1, <2>3, <2>4, <2>5 DEF OutputsDue
  <1>11. RunnersSettled'
    <2> SUFFICES ASSUME NEW r \in Req, status'[r] = "running", Idle(r)'
                 PROVE  Settled(r)'
      BY DEF RunnersSettled
    <2>1. r \notin p.sel
      BY <1>4, <1>7 DEF Idle
    <2>2. /\ status[r] = "running" /\ r \notin p.pre /\ computed'[r] = computed[r]
      BY <2>1, ScheduleFacts
    <2>3. Settled(r) /\ r \notin Evicted /\ Idle(r)
      BY <2>2, RunningState DEF Evicted, Idle, Ready
    <2>4. states' = After(p) /\ seqLen' = Lens(p)
      BY DEF ExecutePlan, Prepare, After, Lens
    <2>5. states'[r] = Backfill(states)[r] /\ seqLen'[r] = seqLen[r]
      BY <2>1, <2>3, <2>4, StatesAfterFacts DEF After, Lens
    <2>6. Len(states'[r].tokens) = Len(states[r].tokens) /\ states'[r].gen = states[r].gen
      BY <2>5, BackfilledStates DEF Ready
    <2>7. kv'[r] = kv[r]
      BY <2>1, ForwardFacts
    <2>8. Total(r)' = Total(r)
      BY <2>1, <2>2, TotalAfter
    <2> QED
      BY <1>3, <2>2, <2>3, <2>5, <2>6, <2>7, <2>8, SettledFrame
  <1> QED
    BY <1>9, <1>10, <1>11

(* execute_model, with any plan. *)
LEMMA ExecuteStepRInv ==
    ASSUME IInv, RInv, ExecuteStep
    PROVE  RInv'
  <1>1. PICK p \in Plans : ExecutePlan(p)
    BY DEF ExecuteStep
  <1>2. Ready
    BY <1>1 DEF ExecuteStep, CanExecute, Quiet, ExecutePlan, ExecuteModel, Refused, Ready
  <1>3. RunnerTypeOK' /\ Ledger' /\ TokensTrue' /\ EntriesOwned' /\ PlaceholderOwned'
    BY <1>1, <1>2, ExecuteTypes, ExecuteLedger, ExecuteTokens, ExecuteEntries
  <1>4. ExecDue' /\ ForwardSound' /\ Aligned' /\ OutputsDue' /\ RunnersSettled'
    BY <1>1, <1>2, ExecuteRows, ExecuteAgreement
  <1>5. fault' = "none"
    BY <1>1, <1>2, ForwardFacts
  <1>6. (sampleFailure => phase = "execute")'
    BY <1>1, <1>2, ExecuteMoves DEF ExecutePlan, Ready
  <1> QED
    BY <1>3, <1>4, <1>5, <1>6 DEF RInv, Agreement

(* Reading an output, whatever completes with it. *)
LEMMA ReadOutputRInv ==
    ASSUME IInv, RInv, NEW complete \in SUBSET Req, ReadOutput(complete)
    PROVE  RInv'
  <1>1. CASE raised' # "none"
    BY <1>1, ReadFailureRInv
  <1>2. CASE raised' = "none"
    BY <1>2, ReadSuccessRInv
  <1> QED
    BY <1>1, <1>2

-----------------------------------------------------------------------------
(* Every call of the engine keeps them in agreement.                       *)
LEMMA StepRInv == IInv /\ RInv /\ [RunnerNext]_allVars => RInv'
  <1> SUFFICES ASSUME IInv, RInv, [RunnerNext]_allVars PROVE RInv'
    OBVIOUS
  <1>1. CASE \E r \in Req : Arrive(r)
    BY <1>1, ArriveRInv
  <1>2. CASE \E r \in Req : Abort(r)
    BY <1>2, AbortRInv
  <1>3. CASE ExecuteStep
    BY <1>3, ExecuteStepRInv
  <1>4. CASE RefuseStep
    BY <1>4, RefuseStepRInv
  <1>5. CASE DeferSample
    BY <1>5, DeferSampleRInv
  <1>6. CASE SampleStep
    BY <1>6, SampleStepRInv
  <1>7. CASE FailSample
    BY <1>7, FailSampleRInv
  <1>8. CASE \E complete \in SUBSET Req : ReadOutput(complete)
    BY <1>8, ReadOutputRInv
  <1>9. CASE UNCHANGED allVars
    <2>1. /\ phase' = phase /\ stepEligible' = stepEligible /\ pending' = pending
          /\ queue' = queue /\ consumed' = consumed /\ current' = current
          /\ sampleFailure' = sampleFailure /\ raised' = raised
          /\ states' = states /\ seqLen' = seqLen /\ awaiting' = awaiting
          /\ exec' = exec /\ entries' = entries /\ fault' = fault
          /\ kv' = kv /\ batch' = batch /\ status' = status /\ computed' = computed
          /\ delivered' = delivered /\ accept' = accept /\ finishedIds' = finishedIds
      BY <1>9 DEF allVars, vars, pipelineVars, engineVars, runnerVars, schedulerVars
    <2>2. RunnerTypeOK' /\ Ledger' /\ TokensTrue'
      BY <2>1 DEF RInv, RunnerTypeOK, Ledger, NoLeak, Unread, TokensTrue
    <2>3. EntriesOwned' /\ PlaceholderOwned' /\ ForwardSound' /\ fault' = "none"
      BY <2>1 DEF RInv, EntriesOwned, EntryReqs, EntryOwned, Gone, PlaceholderOwned,
                  ForwardSound
    <2>4. ASSUME raised' = "none"
          PROVE  Agreement'
      <3>1. Agreement
        BY <2>1, <2>4 DEF RInv
      <3>2. Aligned'
        BY <2>1, <3>1 DEF Agreement, Aligned, InHand, ExecReqs, DecodeReqs, PrefillReqs
      <3>3. OutputsDue'
        BY <2>1, <3>1 DEF Agreement, OutputsDue, OutValue, RowOf, Due, Known
      <3>4. RunnersSettled'
        BY <2>1, <3>1 DEF Agreement, RunnersSettled, Idle, ExecReqs, DecodeReqs,
           PrefillReqs, Settled, Total, Known, Inflight
      <3>5. ExecDue'
        <4>1. IInv /\ RInv /\ raised = "none" /\ DOMAIN accept = 1..Len(accept)
          BY <2>1, <2>4, AgreementFacts
        <4>2. \A r \in ExecReqs : r \in Req /\ Total(r)' = Total(r)
          BY <2>1, <4>1, RowsUnread DEF Total, Known, Inflight
        <4>3. \A r \in ExecReqs : status[r] = "running" => status'[r] = "running" \/ Gone(r)'
          BY <2>1
        <4>4. \A r \in ExecReqs : Gone(r) => Gone(r)'
          BY <2>1 DEF Gone
        <4> QED
          BY <2>1, <4>1, <4>2, <4>3, <4>4, ExecFrame
      <3> QED
        BY <2>1, <3>1, <3>2, <3>3, <3>4, <3>5 DEF Agreement
    <2> QED
      BY <2>2, <2>3, <2>4 DEF RInv
  <1> QED
    BY <1>1, <1>2, <1>3, <1>4, <1>5, <1>6, <1>7, <1>8, <1>9 DEF RunnerNext

(* The runner and the scheduler agree in every reachable state of          *)
(* execute_model, sample_tokens and get_output, for any set of requests.   *)
THEOREM RunnerInvariance == RunnerSpec => []RInv
  <1>1. RunnerInit => RInv
    BY InitRInv
  <1>2. RunnerSpec => []IInv
    BY RunnerIsPipeline, Invariance, PTL
  <1> QED
    BY <1>1, <1>2, StepRInv, PTL DEF RunnerSpec


(* The state-tracking errors of the runner, the pipeline's and its own     *)
(* placeholder check, are unreachable, whatever the scheduler does.        *)
THEOREM NeverStateDesync == RunnerSpec => []NoStateDesync
  <1>1. IInv /\ RInv => NoStateDesync
    BY DEF IInv, RInv, NoDesync, NoStateDesync
  <1> QED
    BY <1>1, RunnerIsPipeline, Invariance, RunnerInvariance, PTL

(* No forward of execute_model reads a placeholder, another request's lazy *)
(* token, a stale position or KV that is not there.                        *)
THEOREM ForwardsSound == RunnerSpec => []ForwardSound
  <1>1. RInv => ForwardSound
    BY DEF RInv
  <1> QED
    BY <1>1, RunnerInvariance, PTL

(* Every placeholder the deferred path leaves in a request's tokens is     *)
(* owned by the row of the pending step that will fill it.                 *)
THEOREM PlaceholdersOwned == RunnerSpec => []PlaceholderOwned
  <1>1. RInv => PlaceholderOwned
    BY DEF RInv
  <1> QED
    BY <1>1, RunnerInvariance, PTL

(* The runner keeps nothing of a request that is neither scheduled nor     *)
(* still to be reported as finished.                                       *)
THEOREM NothingLeaks == RunnerSpec => []NoLeak
  <1>1. RInv => NoLeak
    BY DEF RInv, Ledger
  <1> QED
    BY <1>1, RunnerInvariance, PTL

(* Between steps the runner has of every running request the tokens, the   *)
(* positions and the KV the scheduler thinks it has.                       *)
THEOREM RunnerAgrees == RunnerSpec => []RunnerMatchesScheduler
  <1>1. ASSUME IInv, RInv PROVE RunnerMatchesScheduler
    <2> SUFFICES ASSUME phase = "execute", Quiet, ~sampleFailure,
                        NEW r \in Req, status[r] = "running"
                 PROVE  /\ Len(states[r].tokens) = Total(r)
                        /\ \A i \in 1..Known(r) :
                             states[r].tokens[i] \in {AllTokens(r)[i], Hole}
                        /\ seqLen[r] = computed[r]
                        /\ kv[r] = computed[r]
      BY DEF RunnerMatchesScheduler, RunningReqs
    <2>1. raised = "none" /\ Settled(r)
      BY <1>1, AgreementFacts DEF Quiet, RunnersSettled, Idle
    <2>2. /\ Known(r) \in Nat /\ Total(r) = Known(r) + Inflight(r) /\ Inflight(r) \in Nat
      BY <1>1, <2>1, TotalFacts DEF Total
    <2>3. Len(states[r].tokens) = Total(r) /\ seqLen[r] = computed[r] /\ kv[r] = computed[r]
      BY <2>1 DEF Settled
    <2>4. /\ \A i \in 1..Len(states[r].tokens) : states[r].tokens[i] \in {i, Hole}
          /\ delivered[r] \in Seq(Int)
          /\ \A i \in 1..Len(delivered[r]) : delivered[r][i] = PromptLen + i
      BY <1>1 DEF RInv, TokensTrue, RunnerTypeOK
    <2>5. \A i \in 1..Known(r) : AllTokens(r)[i] = i
      BY <2>4, AllTokensTrue
    <2>6. \A i \in 1..Known(r) : i \in 1..Len(states[r].tokens)
      BY <2>2, <2>3
    <2> QED
      BY <2>3, <2>4, <2>5, <2>6
  <1> QED
    BY <1>1, RunnerIsPipeline, Invariance, RunnerInvariance, PTL

-----------------------------------------------------------------------------
(* A request is never expected to have more than MaxLen tokens, and is     *)
(* finished when it has read as many.                                      *)
WithinLength ==
    raised = "none" =>
        \A r \in Req : status[r] # "absent" => Known(r) < MaxLen /\ Total(r) <= MaxLen

(* What the refinement needs of a state.                                   *)
StreamInv == IInv /\ RInv /\ WithinLength

(* A request whose tokens and acceptances a step leaves alone stays within *)
(* its length.                                                             *)
LEMMA WithinLengthFrame ==
    ASSUME StreamInv, raised = "none", delivered' = delivered,
           \A r \in Req : status'[r] # "absent" =>
              status[r] # "absent" /\ Total(r)' = Total(r)
    PROVE  WithinLength'
  BY DEF StreamInv, WithinLength, Known

(* The engine waits for one more token of the requests it schedules whole, *)
(* which had room for one.                                                 *)
LEMMA ExecuteWithinLength ==
    ASSUME StreamInv, ExecuteStep
    PROVE  /\ WithinLength' /\ delivered' = delivered
           /\ {r \in Req : status'[r] # "absent"} = {r \in Req : status[r] # "absent"}
  <1>1. PICK p \in Plans : ExecutePlan(p)
    BY DEF ExecuteStep
  <1>2. Ready
    BY <1>1 DEF ExecuteStep, CanExecute, Quiet, ExecutePlan, ExecuteModel, Refused, Ready,
       StreamInv
  <1>3. /\ p.sel \subseteq Req /\ \A r \in p.pre : status[r] = "running"
        /\ \A r \in p.sel : Schedulable(r, p.pre, p.drop)
    BY PlanFacts
  <1>4. /\ delivered' = delivered
        /\ \A r \in Req : status'[r] = IF r \in p.sel THEN "running"
                                       ELSE IF r \in p.pre THEN "preempted" ELSE status[r]
    BY <1>1, <1>2, ScheduleFacts
  <1>5. \A r \in p.sel : FreshRow(p, r) \/ ReturnRow(p, r) \/ ContinuedRow(p, r)
    BY <1>2, ScheduledRows
  <1>6. \A r \in p.sel : status[r] # "absent"
    BY <1>5 DEF FreshRow, ReturnRow, ContinuedRow
  <1>7. {r \in Req : status'[r] # "absent"} = {r \in Req : status[r] # "absent"}
    BY <1>3, <1>4, <1>6
  <1>8. ASSUME NEW r \in Req, status'[r] # "absent"
        PROVE  Known(r)' < MaxLen /\ Total(r)' <= MaxLen
    <2>1. status[r] # "absent" /\ raised = "none"
      BY <1>2, <1>7, <1>8 DEF Ready
    <2>2. /\ Known(r) \in Nat /\ Inflight(r) \in Nat /\ Total(r) = Known(r) + Inflight(r)
          /\ Known(r) < MaxLen /\ Total(r) <= MaxLen /\ MaxLen \in Nat
      BY <1>2, <2>1, TotalFacts, LenAssumption DEF Ready, StreamInv, WithinLength, Total
    <2>3. Known(r)' = Known(r)
      BY <1>1, <1>2, TotalAfter
    <2>4. CASE r \in p.sel
      <3>1. Total(r)' = Limit(p, r) + (IF r \in p.whole THEN 1 ELSE 0)
        BY <1>1, <1>2, <2>4, TotalAfter
      <3>2. Limit(p, r) \in Nat /\ Limit(p, r) < MaxLen
        <4>1. CASE r \in Admitted(p)
          BY <2>2, <4>1 DEF Limit
        <4>2. CASE r \notin Admitted(p)
          <5>1. ContinuedRow(p, r)
            BY <1>5, <2>4, <4>2 DEF FreshRow, ReturnRow
          <5>2. Total(r) < MaxLen
            BY <1>3, <2>4, <5>1 DEF ContinuedRow, Schedulable
          <5> QED
            BY <2>2, <4>2, <5>2 DEF Limit
        <4> QED
          BY <4>1, <4>2
      <3> QED
        BY <2>2, <2>3, <3>1, <3>2
    <2>5. CASE r \notin p.sel /\ r \notin p.pre
      BY <1>1, <1>2, <2>2, <2>3, <2>5, TotalAfter
    <2>6. CASE r \notin p.sel /\ r \in p.pre
      <3>1. Total(r)' <= Total(r) /\ Total(r)' \in Nat
        BY <1>1, <1>2, <2>6, TotalAfter
      <3> QED
        BY <2>2, <2>3, <3>1
    <2> QED
      BY <2>4, <2>5, <2>6
  <1> QED
    BY <1>4, <1>7, <1>8 DEF WithinLength

(* Reading an output delivers to the requests that want it their next      *)
(* token, and finishes those that have all of theirs.                      *)
LEMMA ReadWithinLength ==
    ASSUME StreamInv, NEW complete \in SUBSET Req, ReadOutput(complete)
    PROVE  /\ WithinLength'
           /\ \/ UNCHANGED <<status, delivered>>
              \/ \E wants \in SUBSET {r \in Req : status[r] # "absent"} :
                    /\ complete \subseteq wants
                    /\ \A r \in wants : Known(r) + 1 <= MaxLen
                    /\ \A r \in wants : Known(r) + 1 = MaxLen => r \in complete
                    /\ delivered' = [r \in Req |->
                          IF r \in wants THEN Append(delivered[r], Known(r) + 1)
                          ELSE delivered[r]]
                    /\ status' = [r \in Req |->
                          IF r \in complete THEN "absent" ELSE status[r]]
  <1>1. CASE raised' # "none"
    BY <1>1 DEF ReadOutput, WithinLength
  <1>2. CASE raised' = "none"
    <2> DEFINE wants == Head(accept)
               out == FillBatch(batch)[consumed' - consumed]
    <2>1. /\ IInv /\ RInv /\ WithinLength /\ raised = "none" /\ GetOutput /\ Quiet
          /\ complete \subseteq wants
          /\ \A r \in wants : Known(r) + 1 = MaxLen => r \in complete
          /\ delivered' = [r \in Req |->
                IF r \in wants THEN Append(delivered[r], out[r]) ELSE delivered[r]]
          /\ status' = [r \in Req |-> IF r \in complete THEN "absent" ELSE status[r]]
          /\ accept' = [i \in DOMAIN Tail(accept) |-> Tail(accept)[i] \ complete]
      BY <1>2 DEF ReadOutput, Finish, Quiet, StreamInv
    <2>2. /\ Len(queue) \in Nat /\ Len(queue) > 0 /\ Len(accept) \in Nat
          /\ InHand \in {0, 1} /\ Len(accept) <= 2 /\ Len(accept) = Len(queue) + InHand
          /\ accept \in Seq(SUBSET Req) /\ DOMAIN accept = 1..Len(accept) /\ Ledger
          /\ TokensTrue /\ RunnerTypeOK
      <3>1. queue # <<>> /\ queue \in Seq(Output)
        BY <2>1, ReadMoves, RunningFacts
      <3>2. Len(queue) > 0
        BY <3>1, TailOutput
      <3> QED
        BY <2>1, <3>2, AgreementFacts DEF RInv, RunnerTypeOK
    <2>3. Len(accept) \in {1, 2}
      BY <2>2
    <2>4. /\ wants = accept[1] /\ wants \subseteq Req
          /\ Len(accept') = Len(accept) - 1
          /\ DOMAIN accept' = 1..Len(accept')
          /\ \A k \in 1..(Len(accept) - 1) : accept'[k] = accept[k + 1] \ complete
      <3>1. /\ Tail(accept) \in Seq(SUBSET Req) /\ Len(Tail(accept)) = Len(accept) - 1
            /\ DOMAIN Tail(accept) = 1..(Len(accept) - 1)
            /\ \A k \in 1..(Len(accept) - 1) : Tail(accept)[k] = accept[k + 1]
            /\ wants = accept[1] /\ wants \subseteq Req
        BY <2>2, <2>3
      <3>2. Len(accept) - 1 \in Nat
        BY <2>3
      <3>3. accept' = [k \in 1..(Len(accept) - 1) |-> accept[k + 1] \ complete]
        BY <2>1, <3>1
      <3> QED
        BY <3>1, <3>2, <3>3
    <2> HIDE DEF wants
    <2>5. ASSUME NEW r \in wants
          PROVE  r \in Req /\ status[r] \in {"running", "preempted"}
      BY <2>2, <2>3, <2>4 DEF Ledger
    (* The token read is the next one, since what was read stays true. *)
    <2>6. RInv'
      BY <1>2, <2>1, ReadSuccessRInv
    <2>7. ASSUME NEW r \in wants PROVE delivered'[r] = Append(delivered[r], Known(r) + 1)
      <3> DEFINE n == Len(delivered[r])
                 e == out[r]
      <3>1. /\ delivered[r] \in Seq(Int) /\ delivered'[r] = Append(delivered[r], e)
            /\ delivered'[r] \in Seq(Int) /\ PromptLen \in Nat
            /\ \A i \in 1..Len(delivered'[r]) : delivered'[r][i] = PromptLen + i
        BY <2>1, <2>2, <2>5, <2>6, LenAssumption DEF RInv, RunnerTypeOK, TokensTrue
      <3> HIDE DEF e
      <3>2. /\ Len(Append(delivered[r], e)) = n + 1 /\ n \in Nat
            /\ Append(delivered[r], e)[n + 1] = e
        BY <3>1
      <3>3. e = PromptLen + (n + 1)
        BY <3>1, <3>2
      <3>4. e = Known(r) + 1
        BY <3>1, <3>2, <3>3 DEF Known
      <3> QED
        BY <3>1, <3>4
    <2>8. delivered' = [r \in Req |->
             IF r \in wants THEN Append(delivered[r], Known(r) + 1) ELSE delivered[r]]
      BY <2>1, <2>4, <2>7
    <2>9. ASSUME NEW r \in Req, status[r] # "absent"
          PROVE  /\ Known(r) \in Nat /\ Known(r) < MaxLen /\ Total(r) <= MaxLen
                 /\ Total(r) = Known(r) + In(accept, 1, r) + In(accept, 2, r)
                 /\ In(accept, 1, r) \in {0, 1} /\ In(accept, 2, r) \in {0, 1}
                 /\ delivered[r] \in Seq(Int) /\ MaxLen \in Nat
                 /\ Known(r) = PromptLen + Len(delivered[r]) /\ PromptLen \in Nat
      <3>1. In(accept, 1, r) \in {0, 1} /\ In(accept, 2, r) \in {0, 1}
        BY DEF In
      <3> QED
        BY <2>1, <2>2, <2>9, <3>1, TotalFacts, LenAssumption DEF WithinLength, RunnerTypeOK
    <2>10. \A r \in wants : Known(r) + 1 <= MaxLen
      <3> SUFFICES ASSUME NEW r \in wants PROVE Known(r) + 1 <= MaxLen
        OBVIOUS
      <3>1. Known(r) \in Nat /\ Known(r) < MaxLen /\ MaxLen \in Nat
        BY <2>5, <2>9
      <3> QED
        BY <3>1
    <2>11. ASSUME NEW r \in Req, status'[r] # "absent"
           PROVE  Known(r)' < MaxLen /\ Total(r)' <= MaxLen
      <3>1. status[r] # "absent" /\ r \notin complete
        BY <2>1, <2>11
      <3>2. Known(r)' = Known(r) + In(accept, 1, r)
        <4>1. CASE r \in wants
          <5>1. delivered'[r] = Append(delivered[r], Known(r) + 1)
            BY <2>7, <4>1
          <5>2. Len(delivered'[r]) = Len(delivered[r]) + 1
            BY <2>9, <3>1, <5>1
          <5>3. In(accept, 1, r) = 1
            BY <2>2, <2>3, <2>4, <4>1 DEF In
          <5>4. Known(r)' = PromptLen + Len(delivered'[r])
            BY DEF Known
          <5>5. Len(delivered[r]) \in Nat
            BY <2>9, <3>1
          <5> QED
            BY <2>9, <3>1, <5>2, <5>3, <5>4, <5>5
        <4>2. CASE r \notin wants
          <5>1. delivered'[r] = delivered[r]
            BY <2>8, <4>2
          <5>2. In(accept, 1, r) = 0
            BY <2>4, <4>2 DEF In
          <5>3. Known(r)' = PromptLen + Len(delivered'[r])
            BY DEF Known
          <5> QED
            BY <2>9, <3>1, <5>1, <5>2, <5>3
        <4> QED
          BY <4>1, <4>2
      <3>3. Inflight(r)' = In(accept, 2, r)
        <4>1. Inflight(r)' = In(accept', 1, r) + In(accept', 2, r)
          <5>1. Len(accept') \in Nat /\ Len(accept') <= 2
            BY <2>3, <2>4
          <5> QED
            BY <2>4, <5>1, CountTwo DEF Inflight
        <4>2. In(accept', 2, r) = 0
          BY <2>3, <2>4 DEF In
        <4>3. In(accept', 1, r) = In(accept, 2, r)
          <5>1. CASE Len(accept) = 1
            <6>1. Len(accept') = 0
              BY <2>4, <5>1
            <6>2. 1 \notin DOMAIN accept' /\ 2 \notin DOMAIN accept
              BY <2>2, <2>4, <5>1, <6>1
            <6> QED
              BY <6>2 DEF In
          <5>2. CASE Len(accept) = 2
            <6>1. Len(accept') = 1 /\ 1 \in 1..(Len(accept) - 1) /\ 1 + 1 = 2
              BY <2>4, <5>2
            <6>2. accept'[1] = accept[2] \ complete
              BY <2>4, <6>1
            <6>3. 1 \in DOMAIN accept' /\ 2 \in DOMAIN accept
              BY <2>2, <2>4, <5>2, <6>1
            <6> QED
              BY <3>1, <6>2, <6>3 DEF In
          <5> QED
            BY <2>3, <5>1, <5>2
        <4> QED
          BY <2>9, <3>1, <4>1, <4>2, <4>3
      <3>4. Total(r)' = Known(r)' + Inflight(r)'
        BY DEF Total
      <3>5. Known(r) + In(accept, 1, r) < MaxLen
        <4>1. CASE r \in wants
          <5>1. Known(r) + 1 # MaxLen
            BY <2>1, <3>1, <4>1
          <5> QED
            BY <2>9, <3>1, <5>1
        <4>2. CASE r \notin wants
          <5>1. In(accept, 1, r) = 0
            BY <2>4, <4>2 DEF In
          <5> QED
            BY <2>9, <3>1, <5>1
        <4> QED
          BY <4>1, <4>2
      <3> QED
        BY <2>9, <3>1, <3>2, <3>3, <3>4, <3>5
    <2>12. WithinLength'
      BY <2>11 DEF WithinLength
    <2>13. wants \in SUBSET {r \in Req : status[r] # "absent"}
      BY <2>5
    <2> QED
      BY <2>1, <2>8, <2>10, <2>12, <2>13
  <1> QED
    BY <1>1, <1>2


(* A new engine starts the stream.                                         *)
LEMMA InitStream == RunnerInit => WithinLength /\ Stream!Init
  <1> SUFFICES ASSUME RunnerInit PROVE WithinLength /\ Stream!Init
    OBVIOUS
  <1>1. /\ status = [r \in Req |-> "absent"] /\ delivered = [r \in Req |-> <<>>]
    BY DEF RunnerInit
  <1> QED
    BY <1>1 DEF WithinLength, Stream!Init

(* Every step of the runner is a step of the stream or leaves it alone.    *)
LEMMA StepStream ==
    ASSUME StreamInv, [RunnerNext]_allVars
    PROVE  WithinLength' /\ [Stream!Next]_Stream!streamVars
  <1> DEFINE open == {r \in Req : status[r] # "absent"}
  <1>0. IInv /\ RInv /\ RunnerTypeOK
    BY DEF StreamInv, RInv
  <1>1. ASSUME NEW a \in Req, Arrive(a)
        PROVE  WithinLength' /\ Stream!Next
    <2>1. /\ raised = "none" /\ status[a] = "absent"
          /\ status' = [status EXCEPT ![a] = "waiting"]
          /\ delivered' = [delivered EXCEPT ![a] = <<>>]
          /\ accept' = accept
      BY <1>1 DEF Arrive, Quiet
    <2>2. a \notin open /\ open' = open \cup {a}
      BY <1>0, <2>1 DEF RunnerTypeOK
    <2>3. Stream!Next
      BY <2>1, <2>2 DEF Stream!Next, Stream!Open
    <2>4. ASSUME NEW r \in Req, status'[r] # "absent"
          PROVE  Known(r)' < MaxLen /\ Total(r)' <= MaxLen
      <3>1. Inflight(r)' = Inflight(r) /\ Inflight(r) \in Nat /\ Known(r) \in Nat
            /\ Total(r) = Known(r) + Inflight(r) /\ Total(r)' = Known(r)' + Inflight(r)'
        BY <1>0, <2>1, TotalFacts DEF Total, Inflight
      <3>2. CASE r = a
        <4>1. \A k \in DOMAIN accept : r \notin accept[k]
          BY <1>0, <2>1, <3>2, AgreementFacts DEF RInv, Ledger
        <4>2. In(accept, 1, r) = 0 /\ In(accept, 2, r) = 0
          BY <4>1 DEF In
        <4>3. Inflight(r) = 0
          BY <1>0, <2>1, <4>2, TotalFacts
        <4>4. delivered'[r] = <<>>
          BY <1>0, <2>1, <3>2 DEF RunnerTypeOK
        <4>5. Known(r)' = PromptLen
          BY <4>4, LenAssumption DEF Known
        <4> QED
          BY <3>1, <4>3, <4>5, LenAssumption
      <3>3. CASE r # a
        <4>1. status[r] # "absent" /\ delivered'[r] = delivered[r]
          BY <1>0, <2>1, <2>4, <3>3 DEF RunnerTypeOK
        <4>2. Known(r)' = Known(r)
          BY <4>1 DEF Known
        <4> QED
          BY <2>1, <3>1, <4>1, <4>2 DEF StreamInv, WithinLength
      <3> QED
        BY <3>2, <3>3
    <2> QED
      BY <2>3, <2>4 DEF WithinLength
  <1>2. ASSUME NEW a \in Req, Abort(a)
        PROVE  WithinLength' /\ Stream!Next
    <2>1. /\ raised = "none" /\ status[a] # "absent"
          /\ status' = [r \in Req |-> IF r \in {a} THEN "absent" ELSE status[r]]
          /\ delivered' = delivered
          /\ accept' = [i \in DOMAIN accept |-> accept[i] \ {a}]
      BY <1>2 DEF Abort, Finish, Quiet
    <2>2. a \in open /\ open' = open \ {a}
      BY <2>1
    <2>3. Stream!Next
      BY <2>1, <2>2 DEF Stream!Next, Stream!Close
    <2>4. ASSUME NEW r \in Req, status'[r] # "absent"
          PROVE  status[r] # "absent" /\ Total(r)' = Total(r)
      <3>1. r # a /\ status[r] # "absent"
        BY <2>1, <2>4
      <3>2. \A k \in DOMAIN accept : r \in accept'[k] <=> r \in accept[k]
        BY <2>1, <3>1
      <3> QED
        BY <1>0, <2>1, <3>1, <3>2, TotalUnchanged
    <2>5. WithinLength'
      BY <2>1, <2>4, WithinLengthFrame
    <2> QED
      BY <2>3, <2>5
  <1>3. ASSUME ExecuteStep
        PROVE  WithinLength' /\ UNCHANGED Stream!streamVars
    BY <1>3, ExecuteWithinLength DEF Stream!streamVars
  <1>4. ASSUME RefuseStep
        PROVE  WithinLength' /\ UNCHANGED Stream!streamVars
    <2>1. /\ raised = "none" /\ phase = "execute" /\ Len(queue) < QueueDepth
          /\ accept' = Append(accept, {}) /\ delivered' = delivered /\ status' = status
      BY <1>4 DEF RefuseStep, ExecuteRefused, Quiet
    <2>2. Len(accept) \in {0, 1} /\ accept \in Seq(SUBSET Req) /\ DOMAIN accept = 1..Len(accept)
      <3>1. InHand = 0
        BY <2>1 DEF InHand
      <3>2. Len(accept) \in Nat /\ Len(accept) <= 1
        BY <1>0, <2>1, <3>1, AgreementFacts
      <3>3. Len(accept) \in {0, 1}
        BY <3>2, AtMostOne
      <3> QED
        BY <1>0, <2>1, <3>3, AgreementFacts DEF RunnerTypeOK
    <2>3. ASSUME NEW r \in Req PROVE Total(r)' = Total(r)
      <3>1. /\ Len(accept') = Len(accept) + 1 /\ DOMAIN accept' = 1..(Len(accept) + 1)
            /\ accept'[Len(accept) + 1] = {}
            /\ \A k \in 1..Len(accept) : accept'[k] = accept[k]
        BY <2>1, <2>2
      <3>2. In(accept', 1, r) = In(accept, 1, r) /\ In(accept', 2, r) = In(accept, 2, r)
        <4>1. CASE Len(accept) = 0
          BY <2>2, <3>1, <4>1 DEF In
        <4>2. CASE Len(accept) = 1
          BY <2>2, <3>1, <4>2 DEF In
        <4> QED
          BY <2>2, <4>1, <4>2
      <3>3. Inflight(r)' = In(accept', 1, r) + In(accept', 2, r)
        <4>1. Len(accept') \in Nat /\ Len(accept') <= 2 /\ DOMAIN accept' = 1..Len(accept')
          BY <2>2, <3>1
        <4> QED
          BY <4>1, CountTwo DEF Inflight
      <3>4. Inflight(r) = In(accept, 1, r) + In(accept, 2, r)
        BY <1>0, <2>1, TotalFacts
      <3> QED
        BY <2>1, <3>2, <3>3, <3>4 DEF Total, Known
    <2>4. WithinLength'
      BY <2>1, <2>3, WithinLengthFrame
    <2> QED
      BY <2>1, <2>4 DEF Stream!streamVars
  <1>5. ASSUME DeferSample \/ SampleStep \/ FailSample \/ UNCHANGED allVars
        PROVE  WithinLength' /\ UNCHANGED Stream!streamVars
    <2>1. /\ status' = status /\ delivered' = delivered /\ accept' = accept
          /\ raised' = "none" => raised = "none"
      BY <1>5 DEF DeferSample, SampleStep, FailSample, allVars, schedulerVars, Quiet,
         vars, engineVars
    <2>2. WithinLength'
      BY <2>1 DEF StreamInv, WithinLength, Total, Known, Inflight
    <2> QED
      BY <2>1, <2>2 DEF Stream!streamVars
  <1>6. ASSUME NEW complete \in SUBSET Req, ReadOutput(complete)
        PROVE  WithinLength' /\ [Stream!Next]_Stream!streamVars
    <2>1. WithinLength'
      BY <1>6, ReadWithinLength
    <2>2. CASE UNCHANGED <<status, delivered>>
      BY <2>1, <2>2 DEF Stream!streamVars
    <2>3. CASE ~UNCHANGED <<status, delivered>>
      <3>1. PICK wants \in SUBSET open :
               /\ complete \subseteq wants
               /\ \A r \in wants : Known(r) + 1 <= MaxLen
               /\ \A r \in wants : Known(r) + 1 = MaxLen => r \in complete
               /\ delivered' = [r \in Req |->
                     IF r \in wants THEN Append(delivered[r], Known(r) + 1)
                     ELSE delivered[r]]
               /\ status' = [r \in Req |->
                     IF r \in complete THEN "absent" ELSE status[r]]
        BY <1>6, <2>3, ReadWithinLength
      <3>2. \A r : Stream!NextToken(r) = Known(r) + 1
        BY DEF Stream!NextToken, Known
      <3>3. open' = open \ complete
        BY <3>1
      <3>4. Stream!Deliver(wants, complete)
        BY <3>1, <3>2, <3>3 DEF Stream!Deliver
      <3>5. wants \in SUBSET open /\ complete \in SUBSET wants
        BY <3>1
      <3>6. Stream!Next
        BY <3>4, <3>5 DEF Stream!Next
      <3> QED
        BY <2>1, <3>6
    <2> QED
      BY <2>2, <2>3
  <1> QED
    BY <1>1, <1>2, <1>3, <1>4, <1>5, <1>6 DEF RunnerNext

(* execute_model and sample_tokens implement the abstract token stream:    *)
(* every client reads its tokens once and in order, deferred or not.       *)
THEOREM RunnerStreams == RunnerSpec => ImplementsTokenStream
  <1>1. RunnerInit => WithinLength /\ Stream!Init
    BY InitStream
  <1>2. IInv /\ RInv /\ WithinLength /\ [RunnerNext]_allVars
        => WithinLength' /\ [Stream!Next]_Stream!streamVars
    BY StepStream DEF StreamInv
  <1>3. RunnerSpec => [](IInv /\ RInv)
    BY RunnerIsPipeline, Invariance, RunnerInvariance, PTL
  <1> QED
    BY <1>1, <1>2, <1>3, PTL DEF RunnerSpec, ImplementsTokenStream, Stream!Spec

=============================================================================
