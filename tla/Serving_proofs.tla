--------------------------- MODULE Serving_proofs ---------------------------
(***************************************************************************)
(* What a step of the runner hands on, for any number of requests, stages  *)
(* and tokens: the stages of a pipeline agree, and a prompt is scored      *)
(* once.                                                                   *)
(*                                                                         *)
(* The pipeline. What a stage receives is the packed step it is about to   *)
(* run, computed from the true tokens, and each layer of the model belongs *)
(* to one stage. All stages run one sequence of scheduler outputs; the     *)
(* last stage is furthest behind, so its queue holds what the others have  *)
(* yet to run too. The invariant describes every stage by where it stands  *)
(* in that queue, with two witnesses the system does not keep: how much of *)
(* each request the first i of those steps schedule, and how much was      *)
(* known of a request when it was last admitted.                           *)
(*                                                                         *)
(* Prompt logprobs. Whichever way a request is admitted, it is registered  *)
(* exactly while the scheduler holds no output of one that asked; the rows *)
(* between two boundaries of the packed step are those of the segment; and *)
(* so each chunk extends the scored prefix of the prompt, the last one to  *)
(* its end.                                                                *)
(***************************************************************************)
EXTENDS PipelineLink, PromptLogprobs, Subsequences_proofs, FiniteSetTheorems,
        SequenceTheorems

-----------------------------------------------------------------------------
(* The pipeline.                                                           *)

(* Concatenating sequences over S gives one. *)
LEMMA FlattenType ==
    ASSUME NEW S, NEW ss \in Seq(Seq(S))
    PROVE  FlattenSeq(ss) \in Seq(S)
<1> DEFINE Joined(f, i) == IF i = 1 THEN ss[i] ELSE f[i - 1] \o ss[i]
           T == {k \in Nat : \E f : f = [i \in 1..k |-> Joined(f, i)]}
<1>1. 0 \in T
  <2> DEFINE f == [i \in 1..0 |-> ss[i]]
  <2>1. f = [i \in 1..0 |-> Joined(f, i)]
    OBVIOUS
  <2> QED BY <2>1
<1>2. ASSUME NEW k \in Nat, k \in T PROVE k + 1 \in T
  <2>1. PICK g : g = [i \in 1..k |-> Joined(g, i)]
    BY <1>2
  <2> DEFINE h == [i \in 1..(k + 1) |-> IF i = k + 1 THEN Joined(g, k + 1) ELSE g[i]]
  <2>2. \A i \in 1..(k + 1) : h[i] = Joined(h, i)
    <3> TAKE i \in 1..(k + 1)
    <3>1. CASE i = k + 1
      <4>1. h[i] = Joined(g, k + 1) /\ (i # 1 => h[i - 1] = g[i - 1])
        BY <3>1
      <4> QED BY <3>1, <4>1
    <3>2. CASE i # k + 1
      <4>1. i \in 1..k /\ (i # 1 => i - 1 \in 1..k)
        BY <3>2
      <4>2. h[i] = g[i] /\ (i # 1 => h[i - 1] = g[i - 1])
        BY <4>1
      <4>3. g[i] = Joined(g, i)
        BY <4>1, <2>1, Zenon
      <4> QED BY <4>2, <4>3
    <3> QED BY <3>1, <3>2
  <2>3. h = [i \in 1..(k + 1) |-> Joined(h, i)]
    BY <2>2
  <2>4. \E f : f = [i \in 1..(k + 1) |-> Joined(f, i)]
    <3> HIDE DEF h
    <3> QED BY <2>3, Zenon
  <2>5. k + 1 \in Nat
    OBVIOUS
  <2> QED BY <2>4, <2>5, Zenon
<1>3. Len(ss) \in T
  <2> HIDE DEF T
  <2> QED BY <1>1, <1>2, NatSetInduction
<1> DEFINE flatten == CHOOSE f : f = [i \in 1..Len(ss) |-> IF i = 1 THEN ss[i] ELSE f[i - 1] \o ss[i]]
<1>4. flatten = [i \in 1..Len(ss) |-> Joined(flatten, i)]
  BY <1>3
<1>5. FlattenSeq(ss) = IF Len(ss) = 0 THEN ss ELSE flatten[Len(ss)]
  BY DEF FlattenSeq
<1> DEFINE U == {k \in Nat : k \in 1..Len(ss) => flatten[k] \in Seq(S)}
<1> HIDE DEF flatten, T
<1>6. ASSUME NEW k \in Nat, k \in U PROVE k + 1 \in U
  <2> SUFFICES ASSUME k + 1 \in 1..Len(ss) PROVE flatten[k + 1] \in Seq(S)
    OBVIOUS
  <2>1. flatten[k + 1] = Joined(flatten, k + 1)
    BY <1>4, Zenon
  <2>2. ss[k + 1] \in Seq(S)
    OBVIOUS
  <2>3. CASE k = 0
    BY <2>1, <2>2, <2>3
  <2>4. CASE k # 0
    <3>1. flatten[k] \in Seq(S) /\ k + 1 # 1 /\ (k + 1) - 1 = k
      BY <2>4, <1>6
    <3> QED BY <3>1, <2>1, <2>2
  <2> QED BY <2>3, <2>4
<1>7. \A k \in Nat : k \in U
  <2>1. 0 \in U
    OBVIOUS
  <2> HIDE DEF U
  <2> QED BY <2>1, <1>6, NatSetInduction
<1>8. Len(ss) \in U
  BY <1>7
<1> QED BY <1>5, <1>8

-----------------------------------------------------------------------------
(* The pipeline. Stages run one sequence of steps, each as far as it has   *)
(* come. `pos[q][i]` is what the first i steps that the last stage has yet *)
(* to run have scheduled of q, and `base[q]` how much was known of q when  *)
(* it was last admitted: what lies behind is sampled token by token.       *)

Queue == orders[pp.size - 1]
Behind(r) == Len(Queue) - Len(orders[r])
Has(work, q) == \E i \in DOMAIN work : work[i].req = q
Larger(a, b) == IF a < b THEN b ELSE a

Row == PpReqs \X Nat \X Nat
EntryType ==
    [req : PpReqs, kind : {"new", "cached", "resumed"}, start : Nat, n : Nat \ {0},
     all : Seq(Nat), span : Seq(Nat)]
RequestType == [tokens : Seq(Nat), prompt : Nat, generated : Int]

PpTypeOK ==
    /\ pp \in [size : PpSizes, layers : PpLayers, readmits : BOOLEAN]
    /\ stage \in [Ranks -> [up : {"loading", "up", "refused"}, layers : SUBSET Nat,
                            reqs : [PpReqs -> RequestType]]]
    /\ orders \in [Ranks -> Seq(Seq(EntryType))]
    /\ wire \in [Ranks -> Seq(Seq(Row))]
    /\ sched \in [PpReqs -> [status : {"waiting", "running", "preempted", "ended"},
                             computed : Nat, outs : Nat]]
    /\ issued \in Nat /\ ppFault \in BOOLEAN

(* The rows an entry stands for, computed from its true tokens. *)
TrueRows(e) == [i \in 1..e.n |-> <<e.req, e.start + i, e.start + i>>]
TruePacked(work, base) ==
    LET rows == [i \in DOMAIN work |-> TrueRows(work[i])]
        decoding == {i \in DOMAIN work : work[i].start >= base[work[i].req]}
    IN  FlattenSeq(Part(rows, decoding) \o Part(rows, DOMAIN rows \ decoding))

EntryOK(e, base) ==
    /\ IF e.start < base[e.req] THEN e.start + e.n <= base[e.req] ELSE e.n = 1
    /\ e.start = 0 <=> e.kind # "cached"
    /\ e.kind # "cached" => e.all = Tokens(base[e.req])
    /\ e.span = [i \in 1..e.n |-> e.start + i]

(* The steps in flight cut each request's tokens without gap or overlap.   *)
Traced(pos, base) ==
    /\ base \in [PpReqs -> Nat] /\ \A q \in PpReqs : base[q] >= PpPrompt
    /\ pos \in [PpReqs -> [0..Len(Queue) -> Nat]]
    /\ \A q \in PpReqs :
          /\ pos[q][Len(Queue)] = sched[q].computed
          /\ \A i \in 0..Len(Queue) : pos[q][i] <= sched[q].computed
          /\ \A i \in 1..Len(Queue) : ~Has(Queue[i], q) => pos[q][i] = pos[q][i - 1]
    /\ \A i \in 1..Len(Queue) :
          /\ \A j, k \in DOMAIN Queue[i] : Queue[i][j].req = Queue[i][k].req => j = k
          /\ \A j \in DOMAIN Queue[i] :
                LET e == Queue[i][j] IN
                /\ EntryOK(e, base)
                /\ pos[e.req][i - 1] = e.start /\ pos[e.req][i] = e.start + e.n

(* Each stage has yet to run the last of these steps, and what is on its   *)
(* wire is what it will compute.                                           *)
Aligned(base) ==
    /\ \A r \in Ranks :
          /\ Len(orders[r]) <= Len(Queue)
          /\ \A i \in 1..Len(orders[r]) : orders[r][i] = Queue[Behind(r) + i]
          /\ \A i \in 1..Len(wire[r]) : wire[r][i] = TruePacked(orders[r][i], base)
    /\ \A r \in Ranks \ {0} : Len(orders[r]) = Len(orders[r - 1]) + Len(wire[r])
    /\ \A r, s \in Ranks : r <= s => Len(orders[r]) <= Len(orders[s])
    /\ wire[0] = << >>

(* A stage holds what is known of a request where it stands; the last      *)
(* stage also the token it sampled.                                        *)
Held(r, d) == IF IsLast(r) THEN d + 1 ELSE d
Mirrors(pos, base) ==
    \A r \in Ranks, q \in PpReqs :
        LET d == pos[q][Behind(r)]
            state == stage[r].reqs[q]
        IN  /\ state.prompt <= PpPrompt /\ state.generated >= 0
            /\ d > 0 => /\ state.tokens = Tokens(Larger(base[q], Held(r, d)))
                        /\ state.generated > 0 <=> Held(r, d) > base[q]

Scheduled(pos, base) ==
    \A q \in PpReqs :
        /\ sched[q].status = "running" => sched[q].computed > 0
        /\ sched[q].status \in {"waiting", "preempted"} => sched[q].computed = 0
        /\ sched[q].computed > 0 => Known(q) = Larger(base[q], pos[q][0] + 1)

PpInv(pos, base) ==
    /\ Traced(pos, base) /\ Aligned(base) /\ Mirrors(pos, base) /\ Scheduled(pos, base)
    /\ ~ppFault

Sliced == \A r \in Ranks : stage[r].up # "loading" => stage[r].layers = Owned(r)

PipelineInv == PpTypeOK /\ Sliced /\ \E pos, base : PpInv(pos, base)

-----------------------------------------------------------------------------
(* The tokens of a request are the first numbers.                          *)
LEMMA TokensAre ==
    ASSUME NEW n \in Nat
    PROVE  /\ Tokens(n) \in Seq(Nat) /\ Len(Tokens(n)) = n /\ DOMAIN Tokens(n) = 1..n
           /\ \A i \in 1..n : Tokens(n)[i] = i
           /\ Append(Tokens(n), n + 1) = Tokens(n + 1)
<1>1. \A m \in Nat : Tokens(m) \in Seq(Nat) /\ Len(Tokens(m)) = m
  BY DEF Tokens, Token
<1>2. Append(Tokens(n), n + 1) = Tokens(n + 1)
  <2> DEFINE s == Append(Tokens(n), n + 1)
  <2>1. s \in Seq(Nat) /\ Len(s) = n + 1
    BY <1>1
  <2>2. \A i \in 1..(n + 1) : s[i] = Tokens(n + 1)[i]
    BY <1>1 DEF Tokens, Token
  <2>3. DOMAIN s = 1..(n + 1) /\ DOMAIN Tokens(n + 1) = 1..(n + 1)
    BY <2>1, <1>1
  <2> HIDE DEF s
  <2>4. s \in [1..(n + 1) -> Nat] /\ Tokens(n + 1) \in [1..(n + 1) -> Nat]
    <3>1. Tokens(n + 1) \in [1..(n + 1) -> Nat]
      BY DEF Tokens, Token
    <3>2. \A t \in Seq(Nat) : t \in [1..Len(t) -> Nat]
      OBVIOUS
    <3>3. s \in [1..Len(s) -> Nat]
      BY <3>2, <2>1
    <3> QED BY <3>1, <3>3, <2>1
  <2>5. s = Tokens(n + 1)
    BY <2>2, <2>4
  <2> QED BY <2>5 DEF s
<1> QED BY <1>1, <1>2 DEF Tokens, Token

LEMMA RanksAre ==
    ASSUME PpTypeOK
    PROVE  pp.size \in Nat /\ pp.size >= 2 /\ pp.size - 1 \in Ranks /\ 0 \in Ranks
           /\ Ranks = 0..(pp.size - 1)
<1>1. pp.size \in PpSizes
  BY DEF PpTypeOK
<1>2. pp.size \in Nat /\ pp.size >= 2
  <2>1. pp.size \in Nat \ {0, 1}
    BY <1>1, PipelineLinkAssumption DEF PipelineLinkAssumption
  <2> QED BY <2>1
<1> QED BY <1>2 DEF Ranks

(* The step at the head of a stage's queue, and where the stage stands.    *)
LEMMA HeadOf ==
    ASSUME PpTypeOK, NEW pos, NEW base, PpInv(pos, base), NEW r \in Ranks, orders[r] # << >>
    PROVE  LET work == Head(orders[r]) i == Behind(r) IN
           /\ i \in 0..Len(Queue) /\ i + 1 \in 1..Len(Queue)
           /\ work = Queue[i + 1] /\ work \in Seq(EntryType)
           /\ \A j, k \in DOMAIN work : work[j].req = work[k].req => j = k
           /\ \A j \in DOMAIN work :
                 /\ EntryOK(work[j], base) /\ work[j] \in EntryType
                 /\ pos[work[j].req][i] = work[j].start
                 /\ pos[work[j].req][i + 1] = work[j].start + work[j].n
<1>1. Queue \in Seq(Seq(EntryType)) /\ orders[r] \in Seq(Seq(EntryType))
  BY RanksAre DEF PpTypeOK, Queue
<1>2. Len(orders[r]) \in Nat /\ Len(orders[r]) > 0 /\ Len(orders[r]) <= Len(Queue) /\ Len(Queue) \in Nat
  BY <1>1 DEF PpInv, Aligned
<1>3. Behind(r) \in 0..Len(Queue) /\ Behind(r) + 1 \in 1..Len(Queue)
  BY <1>2 DEF Behind
<1>4. Head(orders[r]) = orders[r][1] /\ orders[r][1] = Queue[Behind(r) + 1]
  BY <1>1, <1>2 DEF PpInv, Aligned
<1>5. Queue[Behind(r) + 1] \in Seq(EntryType)
  BY <1>1, <1>3
<1>6. (Behind(r) + 1) - 1 = Behind(r)
  BY <1>3
<1> HIDE DEF Queue, Behind
<1>7. /\ \A j, k \in DOMAIN Queue[Behind(r) + 1] :
            Queue[Behind(r) + 1][j].req = Queue[Behind(r) + 1][k].req => j = k
      /\ \A j \in DOMAIN Queue[Behind(r) + 1] :
            LET e == Queue[Behind(r) + 1][j] IN
            /\ EntryOK(e, base)
            /\ pos[e.req][(Behind(r) + 1) - 1] = e.start
            /\ pos[e.req][Behind(r) + 1] = e.start + e.n
  BY <1>3 DEF PpInv, Traced
<1> QED BY <1>3, <1>4, <1>5, <1>6, <1>7

(* What a stage computes the entry's rows from.                            *)
LEMMA PreparedRight ==
    ASSUME PpTypeOK, NEW pos, NEW base, PpInv(pos, base), NEW r \in Ranks, orders[r] # << >>,
           NEW j \in DOMAIN Head(orders[r])
    PROVE  LET e == Head(orders[r])[j]
               state == Prepared(r, e)
           IN  /\ state \in RequestType /\ state.prompt <= PpPrompt /\ state.generated >= 0
               /\ state.tokens = Tokens(Larger(base[e.req], e.start + 1))
               /\ state.generated > 0 <=> e.start >= base[e.req]
<1> DEFINE e == Head(orders[r])[j]
           q == e.req
           b == base[q]
           held == stage[r].reqs[q]
           seen == IF IsLast(r) THEN held ELSE Mirror(held, e)
<1>1. /\ e \in EntryType /\ EntryOK(e, base) /\ pos[q][Behind(r)] = e.start
  BY HeadOf
<1>2. q \in PpReqs /\ held \in RequestType /\ b \in Nat /\ b >= PpPrompt
  BY <1>1, SMTT(40) DEF PpTypeOK, EntryType, PpInv, Traced
<1>3. e.start \in Nat /\ e.n \in Nat /\ e.n > 0
  BY <1>1 DEF EntryType
<1>4. Len(e.span) = e.n /\ e.span \in Seq(Nat) /\ \A i \in 1..e.n : e.span[i] = e.start + i
  <2>1. e.span = [i \in 1..e.n |-> e.start + i]
    BY <1>1, Zenon DEF EntryOK
  <2>2. e.span \in Seq(Nat)
    BY <1>1 DEF EntryType
  <2> HIDE DEF e
  <2> QED BY <2>1, <2>2, <1>3
<1>5. /\ held.prompt <= PpPrompt /\ held.generated >= 0
      /\ e.start > 0 => /\ held.tokens = Tokens(Larger(b, Held(r, e.start)))
                        /\ held.generated > 0 <=> Held(r, e.start) > b
  BY <1>1, <1>2 DEF PpInv, Mirrors
<1>6. held.prompt \in Nat /\ held.generated \in Int /\ held.tokens \in Seq(Nat) /\ PpPrompt \in Nat \ {0}
  BY <1>2, PipelineLinkAssumption DEF RequestType, PipelineLinkAssumption
<1> HIDE DEF e, q, b, held
<1>7. seen \in RequestType /\ seen.prompt = held.prompt
  <2> DEFINE new == e.start + Len(e.span) - Len(held.tokens)
             more == SubSeq(e.span, Len(e.span) - new + 1, Len(e.span))
  <2>a. Len(held.tokens) \in Nat /\ Len(held.tokens) >= e.start
    <3>1. CASE e.start = 0
      BY <3>1, <1>6
    <3>2. CASE e.start > 0
      <4>1. Larger(b, Held(r, e.start)) \in Nat /\ Larger(b, Held(r, e.start)) >= e.start
        BY <1>2, <1>3 DEF Larger, Held
      <4> QED BY <4>1, <3>2, <1>5, TokensAre
    <3> QED BY <3>1, <3>2, <1>3
  <2>b. new \in Int /\ new <= e.n
    BY <2>a, <1>3, <1>4
  <2>c. ASSUME new > 0 PROVE more \in Seq(Nat)
    <3>1. Len(e.span) - new + 1 \in 1..(Len(e.span) + 1)
      BY <2>b, <2>c, <1>3, <1>4
    <3> HIDE DEF new
    <3> QED BY <3>1, <1>4
  <2>1. new \in Int /\ (new > 0 => more \in Seq(Nat))
    BY <2>b, <2>c
  <2>d. Mirror(held, e) = IF new <= 0 THEN held
                          ELSE [held EXCEPT !.tokens = @ \o more,
                                            !.generated = Len(held.tokens) + new - held.prompt]
    BY DEF Mirror
  <2>e. Len(held.tokens) + new - held.prompt \in Int
    <3> HIDE DEF new
    <3> QED BY <2>a, <2>b, <1>6
  <2> HIDE DEF new, more
  <2>2. Mirror(held, e) \in RequestType /\ Mirror(held, e).prompt = held.prompt
    <3>1. CASE new <= 0
      BY <3>1, <2>d, <1>2
    <3>2. CASE ~(new <= 0)
      <4>1. held.tokens \o more \in Seq(Nat)
        BY <3>2, <2>1, <1>6
      <4> QED BY <4>1, <3>2, <2>d, <2>e, <1>2 DEF RequestType
    <3> QED BY <3>1, <3>2
  <2> QED BY <2>2, <1>2
<1>8. CASE e.kind # "cached"
  <2>1. e.start = 0 /\ e.all = Tokens(b) /\ b > 0 /\ Larger(b, e.start + 1) = b
    BY <1>8, <1>1, <1>2, <1>3, <1>6 DEF EntryOK, Larger, q, b
  <2>2. e.kind = "new" \/ e.kind = "resumed"
    BY <1>8, <1>1 DEF EntryType
  <2>3. Tokens(b) \in Seq(Nat)
    BY <1>2, TokensAre
  <2>4. Prepared(r, e) = IF e.kind = "new" THEN [tokens |-> e.all, prompt |-> PpPrompt, generated |-> 0]
                         ELSE Resumed(seen, e)
    BY <2>2 DEF Prepared, held, q
  <2> HIDE DEF seen
  <2>5. Prepared(r, e) \in RequestType /\ Prepared(r, e).prompt <= PpPrompt
        /\ Prepared(r, e).tokens = Tokens(b) /\ Prepared(r, e).generated = 0
    <3>1. Resumed(seen, e) = [seen EXCEPT !.tokens = Tokens(b), !.generated = 0]
      BY <2>1 DEF Resumed
    <3>2. /\ Resumed(seen, e) \in RequestType /\ Resumed(seen, e).prompt = held.prompt
          /\ Resumed(seen, e).tokens = Tokens(b) /\ Resumed(seen, e).generated = 0
      <4>1. seen \in [tokens : Seq(Nat), prompt : Nat, generated : Int] /\ 0 \in Int
        BY <1>7 DEF RequestType
      <4> QED BY <4>1, <3>1, <2>3, <1>7 DEF RequestType
    <3>3. [tokens |-> e.all, prompt |-> PpPrompt, generated |-> 0] \in RequestType
      BY <2>1, <2>3, <1>6 DEF RequestType
    <3> QED BY <3>2, <3>3, <2>1, <2>4, <1>5, <1>6
  <2> QED BY <2>1, <2>5, <1>2 DEF e, q, b
<1>9. CASE e.kind = "cached"
  <2>1. e.start > 0 /\ Prepared(r, e) = seen
    BY <1>9, <1>1, <1>3 DEF EntryOK, Prepared, held, q
  <2>2. CASE IsLast(r)
    BY <2>1, <2>2, <1>2, <1>3, <1>5, <1>7 DEF Held, e, q, b, Larger
  <2>3. CASE ~IsLast(r)
    <3>1. seen = Mirror(held, e) /\ held.tokens = Tokens(Larger(b, e.start))
          /\ (held.generated > 0 <=> e.start > b)
      BY <2>1, <2>3, <1>5 DEF Held
    <3>2. Larger(b, e.start) \in Nat
      BY <1>2, <1>3 DEF Larger
    <3>3. Len(held.tokens) = Larger(b, e.start)
      BY <3>1, <3>2, TokensAre
    <3>4. CASE e.start < b
      <4>1. e.start + e.n <= b /\ Larger(b, e.start) = b /\ Larger(b, e.start + 1) = b
        BY <3>4, <1>1, <1>2, <1>3 DEF EntryOK, Larger, q, b
      <4>2. seen = held
        BY <4>1, <3>1, <3>3, <1>4, <1>3, <1>2 DEF Mirror
      <4> QED BY <4>1, <4>2, <3>1, <3>4, <2>1, <1>2, <1>3, <1>5, <1>7 DEF e, q, b
    <3>5. CASE e.start >= b
      <4>1. e.n = 1 /\ Larger(b, e.start) = e.start /\ Larger(b, e.start + 1) = e.start + 1
        BY <3>5, <1>1, <1>2, <1>3 DEF EntryOK, Larger, q, b
      <4> DEFINE tail == SubSeq(e.span, Len(e.span) - 1 + 1, Len(e.span))
      <4>2. tail = <<e.start + 1>>
        <5>1. e.span \in Seq(Nat) /\ Len(e.span) = 1 /\ e.span[1] = e.start + 1
          BY <4>1, <1>4, <1>3
        <5>2. tail \in Seq(Nat) /\ Len(tail) = 1 /\ tail[1] = e.start + 1
          BY <5>1
        <5> HIDE DEF tail
        <5> QED BY <5>2
      <4>3. seen = [held EXCEPT !.tokens = @ \o tail, !.generated = Len(held.tokens) + 1 - held.prompt]
        <5>1. Len(e.span) = 1 /\ Len(held.tokens) = e.start
          BY <4>1, <1>4, <3>3
        <5>2. e.start + Len(e.span) - Len(held.tokens) = 1 /\ Len(held.tokens) + 1 = e.start + 1
          BY <5>1, <1>3
        <5>3. ~(1 <= 0) /\ Len(e.span) - 1 + 1 = Len(e.span)
          BY <5>1
        <5> QED BY <5>2, <5>3, <3>1, Zenon DEF Mirror
      <4>4. held.tokens \o tail = Append(held.tokens, e.start + 1)
        <5>1. \A s \in Seq(Nat), x \in Nat : s \o <<x>> = Append(s, x)
          OBVIOUS
        <5> HIDE DEF tail
        <5> QED BY <5>1, <4>2, <1>6, <1>3
      <4>5. seen.tokens = Tokens(e.start + 1) /\ seen.generated = e.start + 1 - held.prompt
        <5>1. seen.tokens = held.tokens \o tail /\ seen.generated = Len(held.tokens) + 1 - held.prompt
          BY <4>3, <1>2 DEF RequestType
        <5>2. Len(held.tokens) + 1 = e.start + 1
          BY <4>1, <3>3
        <5> QED BY <5>1, <5>2, <4>1, <4>4, <3>1, <1>3, TokensAre
      <4>6. seen.generated > 0 /\ seen.generated >= 0
        BY <4>5, <3>5, <1>2, <1>3, <1>5, <1>6
      <4> QED BY <4>1, <4>5, <4>6, <3>5, <2>1, <1>5, <1>7 DEF e, q, b
    <3> QED BY <3>4, <3>5, <1>2, <1>3
  <2> QED BY <2>2, <2>3
<1> QED BY <1>8, <1>9 DEF e, q, b

(* The rows a stage packs are those the step stands for.                   *)
LEMMA RowsRight ==
    ASSUME PpTypeOK, NEW pos, NEW base, PpInv(pos, base), NEW r \in Ranks, orders[r] # << >>,
           NEW j \in DOMAIN Head(orders[r])
    PROVE  LET e == Head(orders[r])[j] IN Rows(Prepared(r, e), e) = TrueRows(e)
<1> DEFINE e == Head(orders[r])[j]
           b == base[e.req]
           state == Prepared(r, e)
<1>1. e \in EntryType /\ EntryOK(e, base)
  BY HeadOf
<1>2. e.req \in PpReqs /\ e.start \in Nat /\ e.n \in Nat \ {0} /\ b \in Nat
  BY <1>1 DEF EntryType, PpInv, Traced
<1>3. state \in RequestType /\ state.tokens = Tokens(Larger(b, e.start + 1))
      /\ (state.generated > 0 <=> e.start >= b)
  BY PreparedRight
<1>4. IF e.start < b THEN e.start + e.n <= b ELSE e.n = 1
  BY <1>1 DEF EntryOK
<1> HIDE DEF e, b, state
<1>5. CASE e.start < b
  <2>1. Larger(b, e.start + 1) = b /\ ~(state.generated > 0)
    BY <1>2, <1>3, <1>5 DEF Larger
  <2>2. Len(state.tokens) = b /\ \A i \in 1..b : state.tokens[i] = i
    BY <2>1, <1>2, <1>3, TokensAre
  <2>3. \A i \in 1..e.n : e.start + i <= b /\ e.start + i \in 1..b
    BY <1>2, <1>4, <1>5
  <2>4. \A i \in 1..e.n : (IF e.start + i <= Len(state.tokens) THEN state.tokens[e.start + i] ELSE 0)
                            = e.start + i
    BY <2>2, <2>3
  <2>5. Rows(state, e) = TrueRows(e)
    BY <2>1, <2>4 DEF Rows, TrueRows
  <2> QED BY <2>5 DEF state, e
<1>6. CASE e.start >= b
  <2>1. Larger(b, e.start + 1) = e.start + 1 /\ state.generated > 0 /\ e.n = 1
    BY <1>2, <1>3, <1>4, <1>6 DEF Larger
  <2>2. Len(state.tokens) = e.start + 1 /\ state.tokens[e.start + 1] = e.start + 1
    <3>1. state.tokens = Tokens(e.start + 1) /\ e.start + 1 \in Nat /\ e.start + 1 \in 1..(e.start + 1)
      BY <2>1, <1>2, <1>3
    <3> QED BY <3>1, TokensAre
  <2>3. Last(state.tokens) = e.start + 1
    BY <2>2 DEF Last
  <2>4. Rows(state, e) = << <<e.req, e.start + 1, e.start + 1>> >>
    BY <2>1, <2>2, <2>3 DEF Rows
  <2>5. TrueRows(e) = << <<e.req, e.start + 1, e.start + 1>> >>
    BY <2>1 DEF TrueRows
  <2> QED BY <2>4, <2>5 DEF state, e
<1> QED BY <1>2, <1>5, <1>6

(* So is the packed step, in every stage.                                  *)
LEMMA PackedRight ==
    ASSUME PpTypeOK, NEW pos, NEW base, PpInv(pos, base), NEW r \in Ranks, orders[r] # << >>
    PROVE  Packed(r, Head(orders[r])) = TruePacked(Head(orders[r]), base)
<1> DEFINE work == Head(orders[r])
           rows == [i \in DOMAIN work |-> Rows(Prepared(r, work[i]), work[i])]
           right == [i \in DOMAIN work |-> TrueRows(work[i])]
           decoding == {i \in DOMAIN work : Prepared(r, work[i]).generated > 0}
           behind == {i \in DOMAIN work : work[i].start >= base[work[i].req]}
<1>1. rows = right
  BY RowsRight
<1>2. decoding = behind
  BY PreparedRight
<1> HIDE DEF work
<1>3. Packed(r, work) = FlattenSeq(Part(rows, decoding) \o Part(rows, DOMAIN rows \ decoding))
  BY DEF Packed
<1>4. TruePacked(work, base) = FlattenSeq(Part(right, behind) \o Part(right, DOMAIN right \ behind))
  BY DEF TruePacked
<1>5. work = Head(orders[r])
  BY DEF work
<1> HIDE DEF rows, right, decoding, behind
<1> QED BY <1>1, <1>2, <1>3, <1>4, <1>5

(* Each of these rows is a token at its own position.                      *)
LEMMA TruePackedType ==
    ASSUME NEW work \in Seq(EntryType), NEW base
    PROVE  TruePacked(work, base) \in Seq({<<q, i, i>> : q \in PpReqs, i \in Nat})
<1> DEFINE R == {<<q, i, i>> : q \in PpReqs, i \in Nat}
           right == [i \in DOMAIN work |-> TrueRows(work[i])]
           I == {i \in DOMAIN work : work[i].start >= base[work[i].req]}
<1>1. ASSUME NEW e \in EntryType PROVE TrueRows(e) \in Seq(R)
  <2>1. e.req \in PpReqs /\ e.start \in Nat /\ e.n \in Nat
    BY DEF EntryType
  <2>2. \A i \in 1..e.n : <<e.req, e.start + i, e.start + i>> \in R
    BY <2>1
  <2> HIDE DEF R
  <2> QED BY <2>1, <2>2 DEF TrueRows
<1> HIDE DEF R
<1>2. right \in Seq(Seq(R))
  <2>1. \A i \in 1..Len(work) : TrueRows(work[i]) \in Seq(R)
    BY <1>1
  <2>2. right = [i \in 1..Len(work) |-> TrueRows(work[i])]
    OBVIOUS
  <2> HIDE DEF right
  <2> QED BY <2>1, <2>2
<1> HIDE DEF right, I
<1>3. Part(right, I) \in Seq(Seq(R)) /\ Part(right, DOMAIN right \ I) \in Seq(Seq(R))
  BY <1>2, PartElems
<1>4. Part(right, I) \o Part(right, DOMAIN right \ I) \in Seq(Seq(R))
  BY <1>3
<1>5. FlattenSeq(Part(right, I) \o Part(right, DOMAIN right \ I)) \in Seq(R)
  BY <1>4, FlattenType
<1> QED BY <1>5 DEF TruePacked, right, I, R

(* The state a stage keeps of an entry's request when it has run it.       *)
Kept(r, e) ==
    LET state == Prepared(r, e)
    IN  IF IsLast(r) /\ Samples(state, e) THEN Sampled(state) ELSE state

LEMMA KeptRight ==
    ASSUME PpTypeOK, NEW pos, NEW base, PpInv(pos, base), NEW r \in Ranks, orders[r] # << >>,
           NEW j \in DOMAIN Head(orders[r])
    PROVE  LET e == Head(orders[r])[j]
               b == base[e.req]
               held == Held(r, e.start + e.n)
           IN  /\ Kept(r, e) \in RequestType /\ Kept(r, e).prompt <= PpPrompt
               /\ Kept(r, e).generated >= 0
               /\ Kept(r, e).tokens = Tokens(Larger(b, held))
               /\ Kept(r, e).generated > 0 <=> held > b
               /\ Samples(Prepared(r, e), e) <=> e.start + e.n >= b
<1> DEFINE e == Head(orders[r])[j]
           b == base[e.req]
           state == Prepared(r, e)
<1>1. e \in EntryType /\ EntryOK(e, base)
  BY HeadOf
<1>2. e.req \in PpReqs /\ e.start \in Nat /\ e.n \in Nat \ {0} /\ b \in Nat
  BY <1>1 DEF EntryType, PpInv, Traced
<1>3. /\ state \in RequestType /\ state.prompt <= PpPrompt /\ state.generated >= 0
      /\ state.tokens = Tokens(Larger(b, e.start + 1))
      /\ (state.generated > 0 <=> e.start >= b)
  BY PreparedRight
<1>4. IF e.start < b THEN e.start + e.n <= b ELSE e.n = 1
  BY <1>1 DEF EntryOK
<1> HIDE DEF e, b, state
<1>5. Larger(b, e.start + 1) \in Nat
  BY <1>2 DEF Larger
<1>6. Len(state.tokens) = Larger(b, e.start + 1)
  BY <1>3, <1>5, TokensAre
<1>7. Samples(state, e) <=> e.start + e.n >= b
  <2>1. CASE e.start < b
    BY <2>1, <1>2, <1>3, <1>4, <1>6 DEF Samples, Larger
  <2>2. CASE e.start >= b
    BY <2>2, <1>2, <1>3, <1>4, <1>6 DEF Samples, Larger
  <2> QED BY <2>1, <2>2, <1>2
<1>8. CASE IsLast(r) /\ Samples(state, e)
  <2>1. e.start + e.n >= b /\ Held(r, e.start + e.n) = e.start + e.n + 1
    BY <1>7, <1>8 DEF Held
  <2>2. Larger(b, e.start + 1) + 1 = Larger(b, e.start + e.n + 1)
    BY <2>1, <1>2, <1>4 DEF Larger
  <2>3. Sampled(state).tokens = Append(state.tokens, Larger(b, e.start + 1) + 1)
        /\ Sampled(state).generated = state.generated + 1
        /\ Sampled(state).prompt = state.prompt
    BY <1>3, <1>6 DEF Sampled, Token, RequestType
  <2>4. Sampled(state).tokens = Tokens(Larger(b, e.start + e.n + 1))
    BY <2>2, <2>3, <1>3, <1>5, TokensAre
  <2>5. Sampled(state) \in RequestType
    <3>1. Append(state.tokens, Len(state.tokens) + 1) \in Seq(Nat) /\ state.generated + 1 \in Int
      BY <1>3, <1>6, <1>5 DEF RequestType
    <3> QED BY <3>1, <1>3 DEF Sampled, Token, RequestType
  <2>6. Sampled(state).generated > 0 /\ e.start + e.n + 1 > b
    BY <2>1, <2>3, <1>2, <1>3 DEF RequestType
  <2>7. Kept(r, e) = Sampled(state)
    BY <1>8 DEF Kept, state
  <2> HIDE DEF Kept
  <2>8. Sampled(state).generated >= 0
    BY <2>3, <1>3 DEF RequestType
  <2>9. /\ Kept(r, e) \in RequestType /\ Kept(r, e).prompt <= PpPrompt /\ Kept(r, e).generated >= 0
        /\ Kept(r, e).tokens = Tokens(Larger(b, Held(r, e.start + e.n)))
        /\ Kept(r, e).generated > 0 /\ Held(r, e.start + e.n) > b
    BY <2>1, <2>3, <2>4, <2>5, <2>6, <2>7, <2>8, <1>3
  <2> QED BY <2>9, <1>7 DEF e, b, state
<1>9. CASE ~(IsLast(r) /\ Samples(state, e))
  <2>1. Kept(r, e) = state
    BY <1>9 DEF Kept, state
  <2>2. Larger(b, e.start + 1) = Larger(b, Held(r, e.start + e.n))
        /\ (e.start >= b <=> Held(r, e.start + e.n) > b)
    BY <1>2, <1>4, <1>7, <1>9 DEF Larger, Held
  <2> QED BY <2>1, <2>2, <1>3, <1>7 DEF e, b, state
<1> QED BY <1>8, <1>9

-----------------------------------------------------------------------------
LEMMA SizesAre ==
    ASSUME PpTypeOK, NEW r \in Ranks
    PROVE  PartSize(r) \in Nat /\ Before(r) \in Nat /\ Owned(r) \subseteq Nat
<1>1. pp.size \in Nat /\ pp.size > 0 /\ pp.layers \in Nat
  <2>1. pp.layers \in PpLayers /\ PpLayers \subseteq Nat
    BY PipelineLinkAssumption DEF PpTypeOK, PipelineLinkAssumption
  <2>2. pp.size \in Nat /\ pp.size >= 2
    BY RanksAre
  <2>3. pp.layers \in Nat
    BY <2>1
  <2>4. \A n \in Nat : n >= 2 => n > 0
    OBVIOUS
  <2> QED BY <2>2, <2>3, <2>4
<1>2. ASSUME NEW s \in 0..r PROVE PartSize(s) \in Nat
  <2>1. pp.layers \div pp.size \in Nat
    BY <1>1
  <2> QED BY <2>1 DEF PartSize
<1>3. r \in Nat
  BY DEF Ranks
<1>4. [s \in 1..r |-> PartSize(s - 1)] \in Seq(Nat)
  <2>1. \A s \in 1..r : PartSize(s - 1) \in Nat
    BY <1>2, <1>3
  <2> QED BY <2>1, <1>3
<1>5. Before(r) \in Nat
  BY <1>4, SumType DEF Before
<1> QED BY <1>2, <1>3, <1>5 DEF Owned

LEMMA LinkStarts == PpInit => PipelineInv
<1> SUFFICES ASSUME PpInit PROVE PipelineInv
  OBVIOUS
<1> USE PipelineLinkAssumption DEF PipelineLinkAssumption
<1>1. pp \in [size : PpSizes, layers : PpLayers, readmits : BOOLEAN]
  BY DEF PpInit
<1>2. pp.size - 1 \in Ranks /\ 0 \in Ranks
  <2>1. pp.size \in Nat \ {0, 1}
    BY <1>1
  <2> QED BY <2>1 DEF Ranks
<1>3. PpTypeOK
  <2>1. NoReq \in RequestType
    BY DEF NoReq, RequestType
  <2>2. stage \in [Ranks -> [up : {"loading", "up", "refused"}, layers : SUBSET Nat,
                             reqs : [PpReqs -> RequestType]]]
    BY <2>1 DEF PpInit
  <2>3. sched \in [PpReqs -> [status : {"waiting", "running", "preempted", "ended"},
                              computed : Nat, outs : Nat]]
    BY DEF PpInit, Waiting
  <2>4. orders \in [Ranks -> Seq(Seq(EntryType))] /\ wire \in [Ranks -> Seq(Seq(Row))]
    <3>1. \A T : << >> \in Seq(T)
      OBVIOUS
    <3> QED BY <3>1, Zenon DEF PpInit
  <2>5. issued \in Nat /\ ppFault \in BOOLEAN
    BY DEF PpInit
  <2> QED BY <1>1, <2>2, <2>3, <2>4, <2>5 DEF PpTypeOK
<1> DEFINE pos == [q \in PpReqs |-> [i \in 0..0 |-> 0]]
           base == [q \in PpReqs |-> PpPrompt]
<1>4. Queue = << >> /\ Len(Queue) = 0 /\ 0..Len(Queue) = 0..0 /\ 1..Len(Queue) = {}
  BY <1>2 DEF Queue, PpInit
<1>5. \A r \in Ranks : orders[r] = << >> /\ wire[r] = << >> /\ Behind(r) = 0
  BY <1>4 DEF PpInit, Behind
<1>6. Traced(pos, base)
  BY <1>4 DEF Traced, PpInit, Waiting
<1>7. Aligned(base)
  <2>1. \A r \in Ranks \ {0} : r - 1 \in Ranks
    BY <1>2, <1>1, PipelineLinkAssumption DEF Ranks
  <2>2. Len(<< >>) = 0 /\ 1..0 = {} /\ 0 <= 0 /\ 0 + 0 = 0
    OBVIOUS
  <2> HIDE DEF base
  <2> QED BY <2>1, <2>2, <1>2, <1>4, <1>5, ZenonT(60) DEF Aligned
<1>8. Mirrors(pos, base)
  BY <1>5 DEF Mirrors, PpInit, NoReq
<1>9. Scheduled(pos, base)
  BY DEF Scheduled, PpInit, Waiting
<1>10. ~ppFault /\ Sliced
  BY DEF PpInit, Sliced
<1> HIDE DEF pos, base
<1> QED BY <1>3, <1>6, <1>7, <1>8, <1>9, <1>10 DEF PipelineInv, PpInv

LEMMA LoadHolds ==
    ASSUME PipelineInv, NEW r \in Ranks, LoadStage(r)
    PROVE  PipelineInv'
<1> PICK pos, base : PpInv(pos, base)
  BY DEF PipelineInv
<1>1. PpTypeOK /\ Sliced
  BY DEF PipelineInv
<1>2. /\ pp' = pp /\ orders' = orders /\ wire' = wire /\ sched' = sched /\ issued' = issued
      /\ ppFault' = ppFault
      /\ stage' = [stage EXCEPT ![r].up = IF Owned(r) = {} THEN "refused" ELSE "up",
                                ![r].layers = Owned(r)]
  BY DEF LoadStage
<1>3. Ranks' = Ranks /\ Queue' = Queue /\ \A p \in Ranks : Behind(p)' = Behind(p) /\ Owned(p)' = Owned(p)
  BY <1>2 DEF Ranks, Queue, Behind, Owned, Before, PartSize
<1>4. PpTypeOK'
  <2>1. Owned(r) \in SUBSET Nat
    BY <1>1, SizesAre
  <2>2. stage' \in [Ranks -> [up : {"loading", "up", "refused"}, layers : SUBSET Nat,
                             reqs : [PpReqs -> RequestType]]]
    <3> DEFINE up == IF Owned(r) = {} THEN "refused" ELSE "up"
               owned == Owned(r)
    <3>1. stage \in [Ranks -> [up : {"loading", "up", "refused"}, layers : SUBSET Nat,
                               reqs : [PpReqs -> RequestType]]]
      BY <1>1 DEF PpTypeOK
    <3>2. up \in {"loading", "up", "refused"} /\ owned \in SUBSET Nat
          /\ stage' = [stage EXCEPT ![r].up = up, ![r].layers = owned]
      BY <1>2, <2>1
    <3> HIDE DEF up, owned
    <3> QED BY <3>1, <3>2
  <2> QED BY <1>1, <1>2, <1>3, <2>2 DEF PpTypeOK
<1>5. \A p \in Ranks : /\ stage'[p].reqs = stage[p].reqs
                       /\ p # r => stage'[p] = stage[p]
                       /\ p = r => stage'[p].layers = Owned(r)
  BY <1>1, <1>2 DEF PpTypeOK
<1>6. Sliced'
  BY <1>1, <1>3, <1>5 DEF Sliced
<1>7. Traced(pos, base)'
  BY <1>2, <1>3 DEF PpInv, Traced, EntryOK
<1>8. Aligned(base)'
  <2>1. Aligned(base)
    BY DEF PpInv
  <2> QED BY <2>1, <1>2, <1>3, ZenonT(60) DEF Aligned
<1>9. Mirrors(pos, base)'
  <2>1. Mirrors(pos, base)
    BY DEF PpInv
  <2>2. \A p \in Ranks : \A d : Held(p, d)' = Held(p, d)
    BY <1>2 DEF Held, IsLast
  <2> QED BY <2>1, <2>2, <1>3, <1>5 DEF Mirrors
<1>10. Scheduled(pos, base)'
  BY <1>2 DEF PpInv, Scheduled, Known
<1>11. ~ppFault'
  BY <1>2 DEF PpInv
<1> QED BY <1>4, <1>6, <1>7, <1>8, <1>9, <1>10, <1>11 DEF PipelineInv, PpInv


-----------------------------------------------------------------------------
LEMMA OrderIs ==
    ASSUME NEW order \in Orders
    PROVE  order \in Seq(PpReqs) /\ Distinct(order) /\ Elems(order) \subseteq PpReqs
<1>1. PICK k \in 1..Cardinality(PpReqs) : order \in [1..k -> PpReqs]
  BY DEF Orders
<1>2. Cardinality(PpReqs) \in Nat
  BY PipelineLinkAssumption, FS_CardinalityType DEF PipelineLinkAssumption
<1>3. order \in Seq(PpReqs)
  BY <1>1, <1>2
<1> QED BY <1>3 DEF Orders, Elems

(* What the scheduler broadcasts of one request. *)
LEMMA EntryIs ==
    ASSUME PpTypeOK, NEW q \in PpReqs, NEW m \in Nat, m > 0, sched[q].status # "ended",
           sched[q].computed + m <= Known(q), NEW pos, NEW base, Scheduled(pos, base)
    PROVE  LET e == Entry(q, m) IN
           /\ e \in EntryType
           /\ e.req = q /\ e.start = sched[q].computed /\ e.n = m
           /\ e.all = Tokens(Known(q)) /\ Known(q) \in Nat /\ Known(q) >= PpPrompt
           /\ e.kind = "cached" <=> sched[q].computed > 0
           /\ e.span = [i \in 1..m |-> sched[q].computed + i]
<1> DEFINE c == sched[q].computed
           K == Known(q)
<1>1. /\ sched[q].status \in {"waiting", "running", "preempted", "ended"}
      /\ c \in Nat /\ sched[q].outs \in Nat
  BY DEF PpTypeOK
<1>2. K \in Nat /\ K >= PpPrompt /\ c + m <= K
  <2>1. PpPrompt \in Nat
    BY PipelineLinkAssumption DEF PipelineLinkAssumption
  <2> QED BY <2>1, <1>1 DEF Known
<1>3. Tokens(K) \in Seq(Nat) /\ Len(Tokens(K)) = K /\ \A i \in 1..K : Tokens(K)[i] = i
  BY <1>2, TokensAre
<1> HIDE DEF c, K
<1>4. SubSeq(Tokens(K), c + 1, c + m) = [i \in 1..m |-> c + i]
  <2> DEFINE t == Tokens(K)
             s == SubSeq(t, c + 1, c + m)
  <2>1. t \in Seq(Nat) /\ Len(t) = K /\ \A i \in 1..K : t[i] = i
    BY <1>3
  <2> HIDE DEF t
  <2>a. c + 1 \in 1..(Len(t) + 1) /\ c + m \in c..Len(t) /\ c + m - (c + 1) + 1 = m
        /\ \A i \in 1..m : c + 1 + i - 1 = c + i
    BY <2>1, <1>1, <1>2
  <2>b. s \in Seq(Nat) /\ Len(s) = c + m - (c + 1) + 1
        /\ \A i \in 1..(c + m - (c + 1) + 1) : s[i] = t[c + 1 + i - 1]
    BY <2>1, <2>a, <1>1
  <2>2. s \in Seq(Nat) /\ Len(s) = m /\ \A i \in 1..m : s[i] = t[c + i]
    <3> HIDE DEF s
    <3> QED BY <2>a, <2>b
  <2>3. \A i \in 1..m : c + i \in 1..K
    BY <1>1, <1>2
  <2>4. \A i \in 1..m : s[i] = c + i
    BY <2>1, <2>2, <2>3
  <2>5. DOMAIN s = 1..m /\ s \in [1..m -> Nat]
    <3> HIDE DEF s
    <3> QED BY <2>2
  <2> HIDE DEF s
  <2>6. s = [i \in 1..m |-> c + i]
    BY <2>4, <2>5
  <2> QED BY <2>6 DEF s, t
<1>5. [i \in 1..m |-> c + i] \in Seq(Nat)
  BY <1>1
<1>6. /\ c > 0 <=> sched[q].status = "running"
      /\ sched[q].status \in {"waiting", "running", "preempted"}
  BY <1>1 DEF Scheduled, c
<1> DEFINE kind == CASE sched[q].status = "running" -> "cached"
                     [] sched[q].status = "waiting" -> "new"
                     [] OTHER -> IF pp.readmits THEN "new" ELSE "resumed"
<1>7. kind \in {"new", "cached", "resumed"} /\ (kind = "cached" <=> c > 0)
  BY <1>6
<1> HIDE DEF kind
<1>8. Entry(q, m) = [req |-> q, kind |-> kind, start |-> c, n |-> m, all |-> Tokens(K),
                     span |-> SubSeq(Tokens(K), c + 1, c + m)]
  BY DEF Entry, kind, c, K
<1>9. Entry(q, m) = [req |-> q, kind |-> kind, start |-> c, n |-> m, all |-> Tokens(K),
                     span |-> [i \in 1..m |-> c + i]]
  BY <1>4, <1>8
<1>10. Entry(q, m) \in EntryType
  <2>1. m \in Nat \ {0}
    OBVIOUS
  <2> QED BY <2>1, <1>1, <1>3, <1>5, <1>7, <1>9 DEF EntryType
<1> QED BY <1>2, <1>7, <1>9, <1>10 DEF c, K


(* How far each stage has come. *)
LEMMA LevelsAre ==
    ASSUME PpTypeOK, NEW base, Aligned(base)
    PROVE  /\ Queue \in Seq(Seq(EntryType)) /\ Len(Queue) \in Nat
           /\ \A r \in Ranks :
                 /\ orders[r] \in Seq(Seq(EntryType)) /\ wire[r] \in Seq(Seq(Row))
                 /\ Len(orders[r]) \in Nat /\ Len(wire[r]) \in Nat
                 /\ Len(orders[r]) <= Len(Queue) /\ Len(wire[r]) <= Len(orders[r])
                 /\ Behind(r) = Len(Queue) - Len(orders[r]) /\ Behind(r) \in 0..Len(Queue)
           /\ \A r \in Ranks : r # 0 => /\ r - 1 \in Ranks
                                        /\ Len(orders[r]) = Len(orders[r - 1]) + Len(wire[r])
<1>1. pp.size - 1 \in Ranks /\ Ranks = 0..(pp.size - 1) /\ pp.size \in Nat
  BY RanksAre
<1>2. \A r \in Ranks : /\ orders[r] \in Seq(Seq(EntryType)) /\ wire[r] \in Seq(Seq(Row))
                       /\ Len(orders[r]) \in Nat /\ Len(wire[r]) \in Nat
  BY DEF PpTypeOK
<1>3. Queue \in Seq(Seq(EntryType)) /\ Len(Queue) \in Nat
  BY <1>1, <1>2 DEF Queue
<1>4. \A r \in Ranks : Len(orders[r]) <= Len(Queue)
  BY DEF Aligned
<1>5. ASSUME NEW r \in Ranks, r # 0
      PROVE  r - 1 \in Ranks /\ Len(orders[r]) = Len(orders[r - 1]) + Len(wire[r])
  <2>1. r - 1 \in Ranks
    BY <1>1, <1>5
  <2>2. r \in Ranks \ {0}
    BY <1>5
  <2> QED BY <2>1, <2>2 DEF Aligned
<1>6. ASSUME NEW r \in Ranks PROVE Len(wire[r]) <= Len(orders[r])
  <2>1. CASE r = 0
    <3>1. Len(wire[r]) = 0
      BY <2>1 DEF Aligned
    <3> QED BY <3>1, <1>2
  <2>2. CASE r # 0
    <3> DEFINE a == Len(orders[r])
               b == Len(orders[r - 1])
               c == Len(wire[r])
    <3>1. a = b + c /\ a \in Nat /\ b \in Nat /\ c \in Nat
      BY <2>2, <1>2, <1>5
    <3> HIDE DEF a, b, c
    <3>2. c <= a
      BY <3>1
    <3> QED BY <3>2 DEF a, c
  <2> QED BY <2>1, <2>2
<1>7. ASSUME NEW r \in Ranks
      PROVE  Behind(r) = Len(Queue) - Len(orders[r]) /\ Behind(r) \in 0..Len(Queue)
  <2>1. Behind(r) = Len(Queue) - Len(orders[r])
    BY DEF Behind
  <2> QED BY <2>1, <1>2, <1>3, <1>4
<1> QED BY <1>2, <1>3, <1>4, <1>5, <1>6, <1>7

(* A request in flight has been scheduled. *)
LEMMA InQueue ==
    ASSUME PpTypeOK, NEW pos, NEW base, Traced(pos, base),
           NEW k \in 1..Len(Queue), NEW j \in DOMAIN Queue[k]
    PROVE  LET e == Queue[k][j] IN
           /\ e \in EntryType /\ EntryOK(e, base) /\ Has(Queue[k], e.req)
           /\ pos[e.req][k - 1] = e.start /\ pos[e.req][k] = e.start + e.n
           /\ sched[e.req].computed > 0
<1> DEFINE e == Queue[k][j]
<1>1. Queue \in Seq(Seq(EntryType))
  BY RanksAre DEF PpTypeOK, Queue
<1>2. Queue[k] \in Seq(EntryType) /\ e \in EntryType
  BY <1>1
<1> HIDE DEF Queue
<1>3. EntryOK(e, base) /\ pos[e.req][k - 1] = e.start /\ pos[e.req][k] = e.start + e.n
  BY DEF Traced
<1>4. e.req \in PpReqs /\ e.start \in Nat /\ e.n \in Nat /\ e.n > 0
  BY <1>2 DEF EntryType
<1>5. k \in 0..Len(Queue)
  <2>1. Len(Queue) \in Nat
    BY <1>1
  <2> QED BY <2>1
<1>6. pos[e.req][k] <= sched[e.req].computed /\ sched[e.req].computed \in Nat
  BY <1>4, <1>5 DEF Traced, PpTypeOK
<1>7. sched[e.req].computed > 0
  BY <1>3, <1>4, <1>6
<1> QED BY <1>2, <1>3, <1>7 DEF Has

LEMMA SameRows ==
    ASSUME NEW work, NEW base, NEW base2,
           \A j \in DOMAIN work : base2[work[j].req] = base[work[j].req]
    PROVE  TruePacked(work, base2) = TruePacked(work, base)
<1>1. {i \in DOMAIN work : work[i].start >= base2[work[i].req]}
      = {i \in DOMAIN work : work[i].start >= base[work[i].req]}
  OBVIOUS
<1> QED BY <1>1, Zenon DEF TruePacked

LEMMA ScheduleHolds ==
    ASSUME PipelineInv, NEW order \in Orders,
           NEW n \in [Elems(order) -> 1..(PpPrompt + PpMaxOuts)], Schedule(order, n)
    PROVE  PipelineInv'
<1> PICK pos, base : PpInv(pos, base)
  BY DEF PipelineInv
<1> DEFINE L == Len(Queue)
           W == [i \in DOMAIN order |-> Entry(order[i], n[order[i]])]
           now(q) == IF q \notin Elems(order) THEN sched[q]
                     ELSE [sched[q] EXCEPT !.status = "running", !.computed = @ + n[q]]
           fresh(q) == q \in Elems(order) /\ sched[q].computed = 0
<1>1. PpTypeOK /\ Sliced
  BY DEF PipelineInv
<1>2. /\ pp' = pp /\ stage' = stage /\ wire' = wire /\ issued' = issued + 1 /\ ppFault' = ppFault
      /\ orders' = [r \in Ranks |-> Append(orders[r], W)]
      /\ sched' = [q \in PpReqs |-> now(q)]
  BY DEF Schedule
<1>3. /\ Traced(pos, base) /\ Aligned(base) /\ Mirrors(pos, base) /\ Scheduled(pos, base)
  BY DEF PpInv
<1>4. /\ order \in Seq(PpReqs) /\ Distinct(order) /\ Elems(order) \subseteq PpReqs
      /\ DOMAIN order = 1..Len(order)
  BY OrderIs
<1>5. \A q \in Elems(order) :
          /\ n[q] \in Nat /\ n[q] > 0 /\ sched[q].status # "ended"
          /\ sched[q].computed + n[q] <= Known(q)
  <2>1. PpPrompt + PpMaxOuts \in Nat
    BY PipelineLinkAssumption DEF PipelineLinkAssumption
  <2>2. \A q \in Elems(order) : n[q] \in Nat /\ n[q] > 0
    BY <2>1
  <2>3. \A q \in Elems(order) : sched[q].status # "ended" /\ sched[q].computed + n[q] <= Known(q)
    BY Zenon DEF Schedule
  <2> QED BY <2>2, <2>3
<1>6. /\ pp.size - 1 \in Ranks /\ 0 \in Ranks
      /\ \A r \in Ranks : orders[r] \in Seq(Seq(EntryType)) /\ Len(orders[r]) \in Nat
  BY <1>1, RanksAre DEF PpTypeOK
<1>7. Queue \in Seq(Seq(EntryType)) /\ L \in Nat
  BY <1>6 DEF Queue
<1>8. \A i \in DOMAIN order : LET e == W[i] q == order[i] IN
          /\ q \in Elems(order) /\ q \in PpReqs
          /\ e \in EntryType /\ e.req = q /\ e.start = sched[q].computed /\ e.n = n[q]
          /\ e.all = Tokens(Known(q)) /\ Known(q) \in Nat /\ Known(q) >= PpPrompt
          /\ e.kind = "cached" <=> sched[q].computed > 0
          /\ e.span = [k \in 1..e.n |-> e.start + k]
  <2> TAKE i \in DOMAIN order
  <2>1. order[i] \in Elems(order) /\ order[i] \in PpReqs
    BY <1>4 DEF Elems
  <2> DEFINE q == order[i]
             e == Entry(q, n[q])
  <2>2. W[i] = e
    OBVIOUS
  <2>3. q \in Elems(order) /\ q \in PpReqs /\ n[q] \in Nat /\ n[q] > 0 /\ sched[q].status # "ended"
        /\ sched[q].computed + n[q] <= Known(q)
    BY <2>1, <1>5
  <2> HIDE DEF W, q
  <2>4. /\ e \in EntryType
        /\ e.req = q /\ e.start = sched[q].computed /\ e.n = n[q]
        /\ e.all = Tokens(Known(q)) /\ Known(q) \in Nat /\ Known(q) >= PpPrompt
        /\ e.kind = "cached" <=> sched[q].computed > 0
        /\ e.span = [k \in 1..n[q] |-> sched[q].computed + k]
    BY <2>3, <1>1, <1>3, EntryIs
  <2> HIDE DEF e
  <2>5. e.span = [k \in 1..e.n |-> e.start + k]
    BY <2>4
  <2> QED BY <2>2, <2>3, <2>4, <2>5 DEF q
<1>9. W \in Seq(EntryType) /\ DOMAIN W = 1..Len(order)
  <2>1. W = [i \in 1..Len(order) |-> W[i]] /\ DOMAIN W = 1..Len(order)
    BY <1>4
  <2>2. \A i \in 1..Len(order) : W[i] \in EntryType
    BY <1>8, <1>4
  <2>3. Len(order) \in Nat
    BY <1>4
  <2> HIDE DEF W
  <2> QED BY <2>1, <2>2, <2>3
<1>10. \A q \in PpReqs : Has(W, q) <=> q \in Elems(order)
  <2>1. DOMAIN W = DOMAIN order /\ \A i \in DOMAIN order : W[i].req = order[i]
    BY <1>4, <1>8, <1>9
  <2> HIDE DEF W
  <2> QED BY <2>1 DEF Has, Elems
<1>11. \A j, k \in DOMAIN W : W[j].req = W[k].req => j = k
  <2>1. DOMAIN W = DOMAIN order /\ \A i \in DOMAIN order : W[i].req = order[i]
    BY <1>4, <1>8, <1>9
  <2> HIDE DEF W
  <2> QED BY <2>1, <1>4 DEF Distinct
<1> HIDE DEF W
<1>12. Queue' = Append(Queue, W) /\ Ranks' = Ranks
  BY <1>2, <1>6 DEF Queue, Ranks
<1>13. Len(Queue') = L + 1 /\ Queue'[L + 1] = W /\ \A i \in 1..L : Queue'[i] = Queue[i]
  BY <1>7, <1>9, <1>12
<1>14. \A r \in Ranks : /\ Len(orders'[r]) = Len(orders[r]) + 1
                        /\ orders'[r][Len(orders[r]) + 1] = W
                        /\ \A i \in 1..Len(orders[r]) : orders'[r][i] = orders[r][i]
  <2> TAKE r \in Ranks
  <2>1. orders'[r] = Append(orders[r], W)
    BY <1>2
  <2>2. orders[r] \in Seq(Seq(EntryType)) /\ W \in Seq(EntryType)
    BY <1>6, <1>9
  <2> QED BY <2>1, <2>2
<1>15. \A r \in Ranks : Behind(r)' = Behind(r) /\ Behind(r) \in 0..L
  <2> TAKE r \in Ranks
  <2>1. Behind(r)' = Len(Queue') - Len(orders'[r])
    BY DEF Behind
  <2>2. Len(orders[r]) <= L
    BY <1>3 DEF Aligned
  <2>3. Len(orders'[r]) = Len(orders[r]) + 1 /\ Len(orders[r]) \in Nat /\ L \in Nat
    BY <1>14, <1>6, <1>7
  <2>4. Len(Queue') = L + 1
    BY <1>13
  <2> HIDE DEF L
  <2>5. Behind(r) = L - Len(orders[r])
    BY DEF Behind, L
  <2> QED BY <2>1, <2>2, <2>3, <2>4, <2>5
<1>16. PICK pos2, base2 :
          /\ base2 = [q \in PpReqs |-> IF fresh(q) THEN Known(q) ELSE base[q]]
          /\ pos2 = [q \in PpReqs |-> [i \in 0..(L + 1) |->
                       IF i = L + 1 THEN now(q).computed ELSE pos[q][i]]]
  OBVIOUS
<1>17. \A q \in PpReqs :
          /\ sched'[q] = now(q)
          /\ sched[q].computed \in Nat /\ sched[q].outs \in Nat
          /\ sched'[q].outs = sched[q].outs /\ sched'[q].computed \in Nat
          /\ q \in Elems(order) => /\ sched'[q].computed = sched[q].computed + n[q]
                                   /\ sched'[q].status = "running"
          /\ q \notin Elems(order) => sched'[q] = sched[q]
          /\ sched'[q] \in [status : {"waiting", "running", "preempted", "ended"},
                            computed : Nat, outs : Nat]
  <2> TAKE q \in PpReqs
  <2>1. sched'[q] = now(q)
    BY <1>2
  <2>2. sched[q] \in [status : {"waiting", "running", "preempted", "ended"},
                      computed : Nat, outs : Nat]
    BY <1>1 DEF PpTypeOK
  <2>3. CASE q \in Elems(order)
    <3>1. n[q] \in Nat /\ sched'[q] = [sched[q] EXCEPT !.status = "running", !.computed = @ + n[q]]
      BY <2>1, <2>3, <1>5
    <3>2. /\ sched'[q].outs = sched[q].outs /\ sched'[q].computed = sched[q].computed + n[q]
          /\ sched'[q].status = "running"
          /\ sched'[q] \in [status : {"waiting", "running", "preempted", "ended"},
                            computed : Nat, outs : Nat]
      <4> HIDE DEF now
      <4> DEFINE c == sched[q].computed + n[q]
      <4>1. sched'[q] = [sched[q] EXCEPT !.status = "running", !.computed = c]
        BY <3>1
      <4>2. c \in Nat
        BY <2>2, <3>1
      <4> HIDE DEF c
      <4>3. sched'[q].computed = c /\ sched'[q].status = "running" /\ sched'[q].outs = sched[q].outs
        BY <2>2, <4>1
      <4>4. sched'[q] \in [status : {"waiting", "running", "preempted", "ended"},
                           computed : Nat, outs : Nat]
        BY <2>2, <4>1, <4>2
      <4> QED BY <4>3, <4>4 DEF c
    <3>3. sched[q].computed + n[q] \in Nat
      BY <2>2, <3>1
    <3> HIDE DEF now
    <3> QED BY <2>1, <2>2, <2>3, <3>1, <3>2, <3>3
  <2>4. CASE q \notin Elems(order)
    <3>1. sched'[q] = sched[q]
      BY <2>1, <2>4
    <3> QED BY <2>1, <2>2, <2>4, <3>1
  <2> QED BY <2>3, <2>4
<1> HIDE DEF now, fresh, L
<1>18. \A q \in PpReqs : /\ sched[q].computed > 0 => base2[q] = base[q]
                         /\ sched[q].computed = 0 /\ q \in Elems(order) => base2[q] = Known(q)
                         /\ q \notin Elems(order) => base2[q] = base[q]
                         /\ base2[q] = Known(q) \/ base2[q] = base[q]
                         /\ pos2[q][L + 1] = sched'[q].computed
                         /\ \A i \in 0..L : pos2[q][i] = pos[q][i]
  BY <1>16, <1>17, <1>7 DEF fresh
<1>19. \A q \in PpReqs : Known(q) \in Nat /\ Known(q) >= PpPrompt /\ Known(q)' = Known(q)
  <2>1. PpPrompt \in Nat
    BY PipelineLinkAssumption DEF PipelineLinkAssumption
  <2> QED BY <2>1, <1>17 DEF Known
<1>20. \A k \in 1..L : \A j \in DOMAIN Queue[k] :
          /\ Queue[k][j].req \in PpReqs /\ sched[Queue[k][j].req].computed > 0
          /\ base2[Queue[k][j].req] = base[Queue[k][j].req]
          /\ EntryOK(Queue[k][j], base)
  <2> TAKE k \in 1..L
  <2> TAKE j \in DOMAIN Queue[k]
  <2>1. /\ Queue[k][j] \in EntryType /\ sched[Queue[k][j].req].computed > 0
        /\ EntryOK(Queue[k][j], base)
    BY <1>1, <1>3, InQueue DEF L
  <2>2. Queue[k][j].req \in PpReqs
    BY <2>1 DEF EntryType
  <2> QED BY <2>1, <2>2, <1>18
<1>21. PpTypeOK'
  <2>1. orders' \in [Ranks -> Seq(Seq(EntryType))]
    <3>1. \A r \in Ranks : Append(orders[r], W) \in Seq(Seq(EntryType))
      BY <1>6, <1>9
    <3> QED BY <3>1, <1>2
  <2>2. sched' \in [PpReqs -> [status : {"waiting", "running", "preempted", "ended"},
                               computed : Nat, outs : Nat]]
    BY <1>2, <1>17
  <2> QED BY <2>1, <2>2, <1>1, <1>2, <1>12 DEF PpTypeOK
<1>22. Traced(pos2, base2)'
  <2>1. base2 \in [PpReqs -> Nat] /\ \A q \in PpReqs : base2[q] >= PpPrompt
    <3>1. \A q \in PpReqs : base[q] \in Nat /\ base[q] >= PpPrompt
      BY <1>3 DEF Traced
    <3> QED BY <3>1, <1>16, <1>18, <1>19
  <2>2. pos2 \in [PpReqs -> [0..(L + 1) -> Nat]]
    <3>1. \A q \in PpReqs : \A i \in 0..L : pos[q][i] \in Nat
      BY <1>3 DEF Traced, L
    <3>2. \A q \in PpReqs : now(q).computed \in Nat
      BY <1>17
    <3>3. \A q \in PpReqs : \A i \in 0..(L + 1) : i = L + 1 \/ i \in 0..L
      BY <1>7
    <3> QED BY <3>1, <3>2, <3>3, <1>16
  <2>3. \A q \in PpReqs : \A i \in 0..(L + 1) : pos2[q][i] <= sched'[q].computed
    <3> TAKE q \in PpReqs
    <3> TAKE i \in 0..(L + 1)
    <3>1. CASE i = L + 1
      BY <3>1, <1>17, <1>18
    <3>2. CASE i # L + 1
      <4>1. i \in 0..L /\ pos2[q][i] = pos[q][i]
        BY <3>2, <1>7, <1>18
      <4>2. pos[q][i] <= sched[q].computed /\ pos[q][i] \in Nat
        BY <4>1, <1>3 DEF Traced, L
      <4>3. sched[q].computed <= sched'[q].computed
        BY <1>17, <1>5
      <4> QED BY <4>1, <4>2, <4>3, <1>17
    <3> QED BY <3>1, <3>2
  <2>4. ASSUME NEW q \in PpReqs, NEW i \in 1..(L + 1), ~Has(Queue'[i], q)
        PROVE  pos2[q][i] = pos2[q][i - 1]
    <3>1. CASE i = L + 1
      <4>1. q \notin Elems(order) /\ sched'[q].computed = sched[q].computed
        BY <2>4, <3>1, <1>10, <1>13, <1>17
      <4>2. pos2[q][L] = pos[q][L] /\ pos[q][L] = sched[q].computed
        BY <1>3, <1>7, <1>18 DEF Traced, L
      <4>3. i - 1 = L
        BY <3>1, <1>7
      <4> QED BY <4>1, <4>2, <4>3, <3>1, <1>18
    <3>2. CASE i # L + 1
      <4>1. i \in 1..L /\ i \in 0..L /\ i - 1 \in 0..L
        BY <3>2, <1>7
      <4>2. ~Has(Queue[i], q)
        BY <2>4, <4>1, <1>13
      <4>3. pos[q][i] = pos[q][i - 1]
        BY <4>1, <4>2, <1>3 DEF Traced, L
      <4> QED BY <4>1, <4>3, <1>18
    <3> QED BY <3>1, <3>2
  <2>5. ASSUME NEW i \in 1..(L + 1)
        PROVE  /\ \A j, k \in DOMAIN Queue'[i] : Queue'[i][j].req = Queue'[i][k].req => j = k
               /\ \A j \in DOMAIN Queue'[i] :
                     LET e == Queue'[i][j] IN
                     /\ EntryOK(e, base2)
                     /\ pos2[e.req][i - 1] = e.start /\ pos2[e.req][i] = e.start + e.n
    <3>1. CASE i = L + 1
      <4>1. Queue'[i] = W
        BY <3>1, <1>13
      <4>2. ASSUME NEW j \in DOMAIN W
            PROVE  LET e == W[j] IN /\ EntryOK(e, base2)
                     /\ pos2[e.req][i - 1] = e.start /\ pos2[e.req][i] = e.start + e.n
        <5> DEFINE e == W[j]
                   q == order[j]
        <5>1. j \in DOMAIN order
          BY <1>9, <1>4
        <5>2. /\ q \in Elems(order) /\ q \in PpReqs
              /\ e \in EntryType /\ e.req = q /\ e.start = sched[q].computed /\ e.n = n[q]
              /\ e.all = Tokens(Known(q)) /\ Known(q) \in Nat /\ Known(q) >= PpPrompt
              /\ e.kind = "cached" <=> sched[q].computed > 0
              /\ e.span = [k \in 1..e.n |-> e.start + k]
          BY <5>1, <1>8
        <5>3. sched[q].computed \in Nat /\ n[q] \in Nat /\ n[q] > 0 /\ sched[q].computed + n[q] <= Known(q)
          BY <5>2, <1>5, <1>17
        <5> HIDE DEF e, q
        <5>4. pos2[q][i] = e.start + e.n
          BY <5>2, <3>1, <1>17, <1>18
        <5>5. pos2[q][i - 1] = e.start
          <6>1. i - 1 = L /\ L \in 0..L
            BY <3>1, <1>7
          <6>2. pos[q][L] = sched[q].computed
            BY <5>2, <1>3 DEF Traced, L
          <6> QED BY <6>1, <6>2, <5>2, <1>18
        <5>6. EntryOK(e, base2)
          <6>1. CASE sched[q].computed = 0
            <7>1. base2[q] = Known(q)
              BY <6>1, <5>2, <1>18
            <7>2. e.start < Known(q) /\ e.start + e.n <= Known(q) /\ e.kind # "cached" /\ e.start = 0
              BY <6>1, <5>2, <5>3
            <7> QED BY <7>1, <7>2, <5>2 DEF EntryOK
          <6>2. CASE sched[q].computed > 0
            <7>1. base2[q] = base[q] /\ base[q] \in Nat
              BY <6>2, <5>2, <1>18, <1>3 DEF Traced
            <7>2. Known(q) = Larger(base[q], pos[q][0] + 1)
              BY <6>2, <5>2, <1>3 DEF Scheduled
            <7>3. pos[q][0] \in Nat /\ pos[q][0] <= sched[q].computed
              <8>1. 0 \in 0..L
                BY <1>7
              <8> QED BY <8>1, <5>2, <1>3 DEF Traced, L
            <7>4. IF sched[q].computed < base[q] THEN sched[q].computed + n[q] <= base[q] ELSE n[q] = 1
              BY <7>1, <7>2, <7>3, <5>3 DEF Larger
            <7>5. e.kind = "cached" /\ e.start # 0
              BY <6>2, <5>2, <5>3
            <7> QED BY <7>1, <7>4, <7>5, <5>2 DEF EntryOK
          <6> QED BY <6>1, <6>2, <5>3
        <5> QED BY <5>2, <5>4, <5>5, <5>6 DEF e
      <4> QED BY <4>1, <4>2, <1>11
    <3>2. CASE i # L + 1
      <4>1. i \in 1..L /\ i \in 0..L /\ i - 1 \in 0..L
        BY <3>2, <1>7
      <4>2. Queue'[i] = Queue[i]
        BY <4>1, <1>13
      <4>3. \A j, k \in DOMAIN Queue[i] : Queue[i][j].req = Queue[i][k].req => j = k
        BY <4>1, <1>3 DEF Traced, L
      <4>4. ASSUME NEW j \in DOMAIN Queue[i]
            PROVE  LET e == Queue[i][j] IN /\ EntryOK(e, base2)
                     /\ pos2[e.req][i - 1] = e.start /\ pos2[e.req][i] = e.start + e.n
        <5>1. LET e == Queue[i][j] IN
              /\ EntryOK(e, base) /\ base2[e.req] = base[e.req] /\ e.req \in PpReqs
          BY <4>1, <1>20
        <5>2. LET e == Queue[i][j] IN pos[e.req][i - 1] = e.start /\ pos[e.req][i] = e.start + e.n
          BY <4>1, <1>3 DEF Traced, L
        <5>3. EntryOK(Queue[i][j], base2)
          BY <5>1 DEF EntryOK
        <5> QED BY <5>1, <5>2, <5>3, <4>1, <1>18
      <4> QED BY <4>2, <4>3, <4>4
    <3> QED BY <3>1, <3>2
  <2>6. /\ \A q \in PpReqs : \A i \in 1..(L + 1) : ~Has(Queue'[i], q) => pos2[q][i] = pos2[q][i - 1]
        /\ \A q \in PpReqs : pos2[q][L + 1] = sched'[q].computed
    BY <2>4, <1>18
  <2>7. Len(Queue') = L + 1
    BY <1>13
  <2> HIDE DEF L
  <2> QED BY <2>1, <2>2, <2>3, <2>5, <2>6, <2>7, ZenonT(60) DEF Traced, Has, EntryOK
<1>23. Aligned(base2)'
  <2>a. /\ \A r \in Ranks :
               /\ Len(orders[r]) \in Nat /\ Len(wire[r]) \in Nat
               /\ Len(orders[r]) <= L /\ Len(wire[r]) <= Len(orders[r])
               /\ Behind(r) = L - Len(orders[r])
        /\ \A r \in Ranks : r # 0 => /\ r - 1 \in Ranks
                                     /\ Len(orders[r]) = Len(orders[r - 1]) + Len(wire[r])
    BY <1>1, <1>3, LevelsAre DEF L
  <2>1. ASSUME NEW r \in Ranks, NEW i \in 1..Len(orders'[r])
        PROVE  orders'[r][i] = Queue'[Behind(r) + i]
    <3>1. CASE i = Len(orders[r]) + 1
      <4>1. Behind(r) + i = L + 1
        BY <3>1, <2>a, <1>7
      <4> QED BY <4>1, <3>1, <1>13, <1>14
    <3>2. CASE i # Len(orders[r]) + 1
      <4>1. i \in 1..Len(orders[r])
        BY <3>2, <1>6, <1>14
      <4>2. Behind(r) + i \in 1..L
        BY <4>1, <2>a, <1>7
      <4>3. orders[r][i] = Queue[Behind(r) + i]
        BY <4>1, <1>3 DEF Aligned
      <4> QED BY <4>1, <4>2, <4>3, <1>13, <1>14
    <3> QED BY <3>1, <3>2
  <2>2. ASSUME NEW r \in Ranks, NEW i \in 1..Len(wire[r])
        PROVE  wire[r][i] = TruePacked(orders'[r][i], base2)
    <3>1. wire[r][i] = TruePacked(orders[r][i], base)
      BY <1>3 DEF Aligned
    <3>2. i \in 1..Len(orders[r])
      BY <2>a
    <3>3. orders[r][i] = Queue[Behind(r) + i] /\ Behind(r) + i \in 1..L
      <4>1. Behind(r) + i \in 1..L
        BY <3>2, <2>a, <1>7
      <4> QED BY <3>2, <4>1, <1>3 DEF Aligned
    <3>4. \A j \in DOMAIN orders[r][i] : base2[orders[r][i][j].req] = base[orders[r][i][j].req]
      BY <3>3, <1>20
    <3>5. TruePacked(orders[r][i], base2) = TruePacked(orders[r][i], base)
      BY <3>4, SameRows
    <3>6. orders'[r][i] = orders[r][i]
      BY <3>2, <1>14
    <3> QED BY <3>1, <3>5, <3>6
  <2>3. \A r \in Ranks : Len(orders'[r]) <= Len(Queue')
    <3>1. \A r \in Ranks : Len(orders[r]) <= L
      BY <1>3 DEF Aligned, L
    <3> QED BY <3>1, <1>6, <1>7, <1>13, <1>14
  <2>4. \A r \in Ranks \ {0} : Len(orders'[r]) = Len(orders'[r - 1]) + Len(wire[r])
    <3> TAKE r \in Ranks \ {0}
    <3> DEFINE a == Len(orders[r])
               b == Len(orders[r - 1])
               c == Len(wire[r])
    <3>1. r - 1 \in Ranks /\ a = b + c /\ a \in Nat /\ b \in Nat /\ c \in Nat
      BY <2>a
    <3>2. Len(orders'[r]) = a + 1 /\ Len(orders'[r - 1]) = b + 1
      BY <3>1, <1>14
    <3> HIDE DEF a, b, c
    <3>3. a + 1 = (b + 1) + c
      BY <3>1
    <3> QED BY <3>2, <3>3 DEF c
  <2>5. \A r, s \in Ranks : r <= s => Len(orders'[r]) <= Len(orders'[s])
    <3>1. \A r, s \in Ranks : r <= s => Len(orders[r]) <= Len(orders[s])
      BY <1>3 DEF Aligned
    <3> QED BY <3>1, <1>6, <1>14
  <2>6. wire'[0] = << >> /\ wire' = wire
    BY <1>2, <1>3 DEF Aligned
  <2>7. \A r \in Ranks : Behind(r)' = Behind(r)
    BY <1>15
  <2> QED BY <2>1, <2>2, <2>3, <2>4, <2>5, <2>6, <2>7, <1>12 DEF Aligned
<1>24. Mirrors(pos2, base2)'
  <2>1. ASSUME NEW r \in Ranks, NEW q \in PpReqs
        PROVE  /\ stage[r].reqs[q].prompt <= PpPrompt /\ stage[r].reqs[q].generated >= 0
               /\ pos2[q][Behind(r)] > 0 =>
                    /\ stage[r].reqs[q].tokens = Tokens(Larger(base2[q], Held(r, pos2[q][Behind(r)])))
                    /\ stage[r].reqs[q].generated > 0 <=> Held(r, pos2[q][Behind(r)]) > base2[q]
    <3>1. pos2[q][Behind(r)] = pos[q][Behind(r)]
      BY <1>15, <1>18
    <3>2. ASSUME pos[q][Behind(r)] > 0 PROVE base2[q] = base[q]
      <4>1. pos[q][Behind(r)] <= sched[q].computed /\ pos[q][Behind(r)] \in Nat
        BY <1>3, <1>15 DEF Traced, L
      <4> QED BY <3>2, <4>1, <1>17, <1>18
    <3> QED BY <3>1, <3>2, <1>3 DEF Mirrors
  <2>2. \A r \in Ranks : \A d : Held(r, d)' = Held(r, d)
    BY <1>2 DEF Held, IsLast
  <2>3. \A r \in Ranks : Behind(r)' = Behind(r)
    BY <1>15
  <2> QED BY <2>1, <2>2, <2>3, <1>2, <1>12 DEF Mirrors
<1>25. Scheduled(pos2, base2)'
  <2>1. ASSUME NEW q \in PpReqs
        PROVE  /\ sched'[q].status = "running" => sched'[q].computed > 0
               /\ sched'[q].status \in {"waiting", "preempted"} => sched'[q].computed = 0
               /\ sched'[q].computed > 0 => Known(q) = Larger(base2[q], pos2[q][0] + 1)
    <3>1. 0 \in 0..L /\ pos2[q][0] = pos[q][0] /\ pos[q][0] \in Nat /\ pos[q][0] <= sched[q].computed
      <4>1. 0 \in 0..L
        BY <1>7
      <4> QED BY <4>1, <1>3, <1>18 DEF Traced, L
    <3>2. CASE q \notin Elems(order)
      BY <3>1, <3>2, <1>3, <1>17, <1>18 DEF Scheduled
    <3>3. CASE q \in Elems(order)
      <4>1. sched'[q].computed > 0 /\ sched'[q].status = "running"
        BY <3>3, <1>5, <1>17
      <4>2. CASE sched[q].computed = 0
        <5>1. base2[q] = Known(q) /\ pos2[q][0] = 0 /\ PpPrompt >= 1
          BY <4>2, <3>1, <3>3, <1>18, PipelineLinkAssumption DEF PipelineLinkAssumption
        <5>2. Known(q) >= 1
          BY <5>1, <1>19, PipelineLinkAssumption DEF PipelineLinkAssumption
        <5> QED BY <4>1, <5>1, <5>2, <1>19 DEF Larger
      <4>3. CASE sched[q].computed > 0
        BY <4>1, <4>3, <3>1, <1>3, <1>18 DEF Scheduled
      <4> QED BY <4>2, <4>3, <1>17
    <3> QED BY <3>2, <3>3
  <2> QED BY <2>1, <1>19 DEF Scheduled
<1>26. Sliced' /\ ~ppFault'
  BY <1>1, <1>2, <1>12 DEF Sliced, Owned, Before, PartSize, PpInv
<1> QED BY <1>21, <1>22, <1>23, <1>24, <1>25, <1>26 DEF PipelineInv, PpInv

LEMMA TakeOffHolds ==
    ASSUME PipelineInv, NEW q \in PpReqs, TakeOff(q)
    PROVE  PipelineInv'
<1> PICK pos, base : PpInv(pos, base)
  BY DEF PipelineInv
<1> DEFINE L == Len(Queue)
<1>1. PpTypeOK /\ Sliced
  BY DEF PipelineInv
<1>2. /\ pp' = pp /\ stage' = stage /\ orders' = orders /\ wire' = wire /\ issued' = issued
      /\ ppFault' = ppFault /\ ~InFlight(q)
      /\ sched' = [sched EXCEPT ![q].status = "preempted", ![q].computed = 0]
  BY DEF TakeOff
<1>3. /\ Traced(pos, base) /\ Aligned(base) /\ Mirrors(pos, base) /\ Scheduled(pos, base)
  BY DEF PpInv
<1>4. L \in Nat /\ \A r \in Ranks : Behind(r) \in 0..L
  BY <1>1, <1>3, LevelsAre
<1>5. \A k \in 1..L : ~Has(Queue[k], q)
  <2>1. DOMAIN Queue = 1..L
    BY <1>1, <1>3, LevelsAre
  <2> QED BY <2>1, <1>2 DEF InFlight, Has, Queue
<1>6. Ranks' = Ranks /\ Queue' = Queue /\ \A p \in Ranks : Behind(p)' = Behind(p) /\ Owned(p)' = Owned(p)
  BY <1>2 DEF Ranks, Queue, Behind, Owned, Before, PartSize
<1>7. /\ \A p \in PpReqs \ {q} : sched'[p] = sched[p]
      /\ sched'[q].status = "preempted" /\ sched'[q].computed = 0
      /\ sched' \in [PpReqs -> [status : {"waiting", "running", "preempted", "ended"},
                                computed : Nat, outs : Nat]]
  <2> DEFINE T == [status : {"waiting", "running", "preempted", "ended"}, computed : Nat, outs : Nat]
             rec == [sched[q] EXCEPT !.status = "preempted", !.computed = 0]
  <2>1. sched \in [PpReqs -> T]
    BY <1>1 DEF PpTypeOK
  <2>2. rec \in T /\ rec.status = "preempted" /\ rec.computed = 0
    BY <2>1
  <2>3. sched' = [sched EXCEPT ![q] = rec]
    BY <1>2, <2>1
  <2> HIDE DEF rec, T
  <2>4. /\ \A p \in PpReqs \ {q} : sched'[p] = sched[p]
        /\ sched'[q] = rec /\ sched' \in [PpReqs -> T]
    BY <2>1, <2>2, <2>3
  <2> QED BY <2>2, <2>4 DEF T
<1>8. PICK pos2 : pos2 = [p \in PpReqs |-> IF p = q THEN [i \in 0..L |-> 0] ELSE pos[p]]
  OBVIOUS
<1>9. /\ \A p \in PpReqs \ {q} : pos2[p] = pos[p]
      /\ pos2[q] = [i \in 0..L |-> 0] /\ \A i \in 0..L : pos2[q][i] = 0
  BY <1>8
<1> HIDE DEF L
<1>10. PpTypeOK'
  BY <1>1, <1>2, <1>6, <1>7 DEF PpTypeOK
<1>11. Sliced'
  BY <1>1, <1>2, <1>6 DEF Sliced
<1>12. Traced(pos2, base)'
  <2>1. pos2 \in [PpReqs -> [0..L -> Nat]]
    BY <1>3, <1>8 DEF Traced, L
  <2>2. ASSUME NEW p \in PpReqs
        PROVE  /\ pos2[p][L] = sched'[p].computed
               /\ \A i \in 0..L : pos2[p][i] <= sched'[p].computed
               /\ \A i \in 1..L : ~Has(Queue[i], p) => pos2[p][i] = pos2[p][i - 1]
    <3>1. CASE p = q
      <4>1. L \in 0..L /\ \A i \in 1..L : i \in 0..L /\ i - 1 \in 0..L
        BY <1>4
      <4>2. \A i \in 0..L : pos2[p][i] = 0
        BY <3>1, <1>9
      <4>3. sched'[p].computed = 0
        BY <3>1, <1>7
      <4>4. \A i \in 0..L : pos2[p][i] <= sched'[p].computed
        BY <4>2, <4>3
      <4>5. \A i \in 1..L : pos2[p][i] = pos2[p][i - 1]
        BY <4>1, <4>2
      <4> QED BY <4>1, <4>2, <4>3, <4>4, <4>5
    <3>2. CASE p # q
      <4>1. pos2[p] = pos[p] /\ sched'[p] = sched[p]
        BY <3>2, <1>7, <1>9
      <4>2. /\ pos[p][L] = sched[p].computed
            /\ \A i \in 0..L : pos[p][i] <= sched[p].computed
            /\ \A i \in 1..L : ~Has(Queue[i], p) => pos[p][i] = pos[p][i - 1]
        BY <1>3 DEF Traced, L
      <4> QED BY <4>1, <4>2
    <3> QED BY <3>1, <3>2
  <2>3. ASSUME NEW i \in 1..L
        PROVE  /\ \A j, k \in DOMAIN Queue[i] : Queue[i][j].req = Queue[i][k].req => j = k
               /\ \A j \in DOMAIN Queue[i] :
                     LET e == Queue[i][j] IN
                     /\ EntryOK(e, base)
                     /\ pos2[e.req][i - 1] = e.start /\ pos2[e.req][i] = e.start + e.n
    <3>1. ASSUME NEW j \in DOMAIN Queue[i]
          PROVE  Queue[i][j].req \in PpReqs \ {q}
      <4>1. Queue[i][j] \in EntryType
        BY <1>1, <1>3, InQueue DEF L
      <4>2. Queue[i][j].req # q
        BY <1>5 DEF Has
      <4> QED BY <4>1, <4>2 DEF EntryType
    <3> QED BY <3>1, <1>3, <1>9 DEF Traced, L
  <2>4. base \in [PpReqs -> Nat] /\ \A p \in PpReqs : base[p] >= PpPrompt
    BY <1>3 DEF Traced
  <2>5. Len(Queue') = L
    BY <1>6 DEF L
  <2>6. /\ \A p \in PpReqs :
              /\ pos2[p][L] = sched'[p].computed
              /\ \A i \in 0..L : pos2[p][i] <= sched'[p].computed
              /\ \A i \in 1..L : ~Has(Queue'[i], p) => pos2[p][i] = pos2[p][i - 1]
        /\ \A i \in 1..L :
              /\ \A j, k \in DOMAIN Queue'[i] : Queue'[i][j].req = Queue'[i][k].req => j = k
              /\ \A j \in DOMAIN Queue'[i] :
                    LET e == Queue'[i][j] IN
                    /\ EntryOK(e, base)
                    /\ pos2[e.req][i - 1] = e.start /\ pos2[e.req][i] = e.start + e.n
    BY <2>2, <2>3, <1>6
  <2> QED BY <2>1, <2>4, <2>5, <2>6, ZenonT(60) DEF Traced, Has, EntryOK
<1>13. Aligned(base)'
  BY <1>2, <1>3, <1>6 DEF Aligned
<1>14. Mirrors(pos2, base)'
  <2>1. \A r \in Ranks : \A d : Held(r, d)' = Held(r, d)
    BY <1>2 DEF Held, IsLast
  <2>2. ASSUME NEW r \in Ranks, NEW p \in PpReqs
        PROVE  /\ stage[r].reqs[p].prompt <= PpPrompt /\ stage[r].reqs[p].generated >= 0
               /\ pos2[p][Behind(r)] > 0 =>
                    /\ stage[r].reqs[p].tokens = Tokens(Larger(base[p], Held(r, pos2[p][Behind(r)])))
                    /\ stage[r].reqs[p].generated > 0 <=> Held(r, pos2[p][Behind(r)]) > base[p]
    <3>1. CASE p = q
      <4>1. pos2[p][Behind(r)] = 0 /\ ~(0 > 0)
        BY <3>1, <1>4, <1>9
      <4> QED BY <4>1, <1>3 DEF Mirrors
    <3>2. CASE p # q
      BY <3>2, <1>3, <1>9 DEF Mirrors
    <3> QED BY <3>1, <3>2
  <2> QED BY <2>1, <2>2, <1>2, <1>6 DEF Mirrors
<1>15. Scheduled(pos2, base)'
  <2>1. \A p \in PpReqs \ {q} : Known(p)' = Known(p)
    BY <1>7 DEF Known
  <2>2. ~(0 > 0) /\ "preempted" # "running"
    OBVIOUS
  <2> QED BY <2>1, <2>2, <1>3, <1>7, <1>9, ZenonT(60) DEF Scheduled
<1>16. ~ppFault'
  BY <1>2 DEF PpInv
<1> QED BY <1>10, <1>11, <1>12, <1>13, <1>14, <1>15, <1>16 DEF PipelineInv, PpInv


-----------------------------------------------------------------------------
(* What running one step does, told by the entries of the step.            *)
Deliver(r, got) ==
    [p \in Ranks |-> IF p = r /\ r # 0 THEN Tail(wire[p])
                     ELSE IF p = r + 1 THEN Append(wire[p], got)
                     ELSE wire[p]]

Rests(q) ==
    /\ sched'[q].computed = sched[q].computed
    /\ sched'[q].status \in {sched[q].status, "ended"}

LEMMA RunDoes ==
    ASSUME PpTypeOK, NEW pos, NEW base, PpInv(pos, base), NEW r \in Ranks, RunStage(r)
    PROVE  LET work == Head(orders[r]) IN
           /\ orders[r] # << >> /\ (r # 0 => wire[r] # << >>)
           /\ pp' = pp /\ issued' = issued /\ orders' = [orders EXCEPT ![r] = Tail(@)]
           /\ ~ppFault'
           /\ wire' = Deliver(r, TruePacked(work, base))
           /\ \A p \in Ranks \ {r} : stage'[p] = stage[p]
           /\ stage'[r].up = stage[r].up /\ stage'[r].layers = stage[r].layers
           /\ \A q \in PpReqs : ~Has(work, q) => stage'[r].reqs[q] = stage[r].reqs[q]
           /\ \A j \in DOMAIN work : stage'[r].reqs[work[j].req] = Kept(r, work[j])
           /\ stage' \in [Ranks -> [up : {"loading", "up", "refused"}, layers : SUBSET Nat,
                                    reqs : [PpReqs -> RequestType]]]
           /\ ~IsLast(r) => sched' = sched
           /\ IsLast(r) =>
                 /\ sched' \in [PpReqs -> [status : {"waiting", "running", "preempted", "ended"},
                                           computed : Nat, outs : Nat]]
                 /\ \A q \in PpReqs : Rests(q)
                 /\ \A q \in PpReqs : ~Has(work, q) => sched'[q] = sched[q]
                 /\ \A j \in DOMAIN work : LET e == work[j] IN
                       sched'[e.req].outs = sched[e.req].outs
                                            + IF e.start + e.n >= base[e.req] THEN 1 ELSE 0
<1> DEFINE work == Head(orders[r])
           rows == Packed(r, work)
           got == IF r = 0 THEN rows ELSE Head(wire[r])
           Of(q) == CHOOSE e \in Elems(work) : e.req = q
           ids == {e.req : e \in Elems(work)}
           final == {q \in ids : Samples(Prepared(r, Of(q)), Of(q))}
           done(q) == IF IsLast(r) /\ q \in final
                      THEN Sampled(Prepared(r, Of(q))) ELSE Prepared(r, Of(q))
           reqs == [q \in PpReqs |-> IF q \notin ids THEN stage[r].reqs[q] ELSE done(q)]
           one(q) == IF q \in final THEN 1 ELSE 0
           told == [q \in PpReqs |->
                       IF q \notin ids THEN sched[q]
                       ELSE [sched[q] EXCEPT
                               !.outs = @ + one(q),
                               !.status = IF q \in final /\ sched[q].outs + 1 >= PpMaxOuts
                                          THEN "ended" ELSE @]]
<1>1. /\ orders[r] # << >> /\ (r # 0 => wire[r] # << >>)
      /\ pp' = pp /\ issued' = issued /\ orders' = [orders EXCEPT ![r] = Tail(@)]
  BY DEF RunStage
<1>2. /\ stage' = [stage EXCEPT ![r].reqs = [q \in PpReqs |-> IF q \notin ids THEN @[q] ELSE done(q)]]
      /\ wire' = Deliver(r, got)
      /\ ppFault' = (ppFault \/ Len(got) # Len(rows)
                     \/ \E i \in DOMAIN rows : \/ got[i][1] # rows[i][1]
                                               \/ got[i][2] # rows[i][2]
                                               \/ got[i][3] # Token(rows[i][2]))
      /\ sched' = IF ~IsLast(r) THEN sched ELSE told
  BY Zenon DEF RunStage, Deliver
<1>0. orders[r] # << >>
  BY <1>1
<1>3. /\ work \in Seq(EntryType)
      /\ \A j, k \in DOMAIN work : work[j].req = work[k].req => j = k
      /\ \A j \in DOMAIN work : work[j] \in EntryType /\ work[j].req \in PpReqs
  <2>1. /\ work \in Seq(EntryType)
        /\ \A j, k \in DOMAIN work : work[j].req = work[k].req => j = k
        /\ \A j \in DOMAIN work : work[j] \in EntryType
    BY <1>0, HeadOf
  <2>2. \A e \in EntryType : e.req \in PpReqs
    BY DEF EntryType
  <2> HIDE DEF work
  <2> QED BY <2>1, <2>2
<1>4. rows = TruePacked(work, base)
  BY <1>0, PackedRight
<1>5. got = rows
  <2> SUFFICES ASSUME r # 0 PROVE Head(wire[r]) = rows
    OBVIOUS
  <2>1. /\ wire[r] \in Seq(Seq(Row)) /\ Len(wire[r]) \in Nat /\ Len(wire[r]) <= Len(orders[r])
        /\ orders[r] \in Seq(Seq(EntryType))
    BY LevelsAre DEF PpInv
  <2>2. 1 \in 1..Len(wire[r]) /\ Head(wire[r]) = wire[r][1] /\ work = orders[r][1]
    <3>1. wire[r] # << >>
      BY <1>1
    <3>2. 1 \in 1..Len(wire[r]) /\ Head(wire[r]) = wire[r][1]
      BY <3>1, <2>1
    <3>3. Head(orders[r]) = orders[r][1]
      BY <2>1, <1>0
    <3> QED BY <3>2, <3>3
  <2>3. wire[r][1] = TruePacked(orders[r][1], base)
    BY <2>2 DEF PpInv, Aligned
  <2> QED BY <1>4, <2>2, <2>3
<1>6. ~ppFault'
  <2>1. rows \in Seq({<<q, i, i>> : q \in PpReqs, i \in Nat})
    BY <1>3, <1>4, TruePackedType
  <2>2. \A i \in DOMAIN rows : rows[i] \in {<<q, k, k>> : q \in PpReqs, k \in Nat}
    BY <2>1
  <2> HIDE DEF rows, got
  <2>3. \A i \in DOMAIN rows : rows[i][3] = rows[i][2]
    BY <2>2
  <2>4. ~ppFault
    BY DEF PpInv
  <2> QED BY <1>2, <1>5, <2>3, <2>4 DEF Token
<1> HIDE DEF rows, got
<1>7. wire' = Deliver(r, TruePacked(work, base))
  BY <1>2, <1>4, <1>5
<1> HIDE <1>2
<1>8. /\ \A q \in PpReqs : q \in ids <=> Has(work, q)
      /\ \A j \in DOMAIN work : work[j].req \in ids
  <2> HIDE DEF work
  <2> QED BY DEF Has, Elems
<1>9. \A j \in DOMAIN work : Of(work[j].req) = work[j]
  <2> HIDE DEF work
  <2> TAKE j \in DOMAIN work
  <2>1. work[j] \in Elems(work) /\ work[j].req = work[j].req
    BY DEF Elems
  <2>2. Of(work[j].req) \in Elems(work) /\ Of(work[j].req).req = work[j].req
    BY <2>1
  <2>3. PICK k \in DOMAIN work : Of(work[j].req) = work[k]
    BY <2>2 DEF Elems
  <2>4. j = k
    BY <2>2, <2>3, <1>3
  <2> QED BY <2>3, <2>4
<1>10. \A j \in DOMAIN work :
          /\ work[j].req \in final <=> Samples(Prepared(r, work[j]), work[j])
          /\ work[j].req \in final <=> work[j].start + work[j].n >= base[work[j].req]
          /\ done(work[j].req) = Kept(r, work[j]) /\ Kept(r, work[j]) \in RequestType
  <2> TAKE j \in DOMAIN work
  <2>1. work[j].req \in final <=> Samples(Prepared(r, work[j]), work[j])
    <3> HIDE DEF work, Of
    <3> QED BY <1>8, <1>9
  <2>2. /\ Samples(Prepared(r, work[j]), work[j]) <=> work[j].start + work[j].n >= base[work[j].req]
        /\ Kept(r, work[j]) \in RequestType
    BY <1>0, KeptRight
  <2>3. done(work[j].req) = Kept(r, work[j])
    <3> HIDE DEF work, Of, final
    <3> QED BY <1>9, <2>1, Zenon DEF Kept
  <2> QED BY <2>1, <2>2, <2>3
<1>11. stage \in [Ranks -> [up : {"loading", "up", "refused"}, layers : SUBSET Nat,
                            reqs : [PpReqs -> RequestType]]]
  BY DEF PpTypeOK
<1>12. /\ reqs \in [PpReqs -> RequestType]
       /\ \A q \in PpReqs : ~Has(work, q) => reqs[q] = stage[r].reqs[q]
       /\ \A j \in DOMAIN work : reqs[work[j].req] = Kept(r, work[j])
  <2> HIDE DEF work, ids, done
  <2>1. /\ \A q \in PpReqs : q \notin ids => reqs[q] = stage[r].reqs[q]
        /\ \A q \in PpReqs : q \in ids => reqs[q] = done(q)
    OBVIOUS
  <2>2. \A q \in PpReqs : q \in ids => done(q) \in RequestType
    <3>1. \A q \in PpReqs : q \in ids => \E j \in DOMAIN work : work[j].req = q
      BY <1>8 DEF Has
    <3> QED BY <3>1, <1>10
  <2>3. \A q \in PpReqs : stage[r].reqs[q] \in RequestType
    BY <1>11
  <2>4. reqs \in [PpReqs -> RequestType]
    BY <2>2, <2>3
  <2> HIDE DEF reqs
  <2> QED BY <2>1, <2>4, <1>3, <1>8, <1>10
<1>13. stage' = [stage EXCEPT ![r].reqs = reqs]
  BY <1>2, <1>11
<1>14. /\ \A p \in Ranks \ {r} : stage'[p] = stage[p]
       /\ stage'[r].up = stage[r].up /\ stage'[r].layers = stage[r].layers
       /\ stage'[r].reqs = reqs
       /\ stage' \in [Ranks -> [up : {"loading", "up", "refused"}, layers : SUBSET Nat,
                                reqs : [PpReqs -> RequestType]]]
  <2> HIDE DEF reqs
  <2>1. reqs \in [PpReqs -> RequestType]
    BY <1>12
  <2> QED BY <2>1, <1>11, <1>13
<1>15. ~IsLast(r) => sched' = sched
  BY <1>2
<1>16. ASSUME IsLast(r)
       PROVE  /\ sched' \in [PpReqs -> [status : {"waiting", "running", "preempted", "ended"},
                                        computed : Nat, outs : Nat]]
              /\ \A q \in PpReqs : Rests(q)
              /\ \A q \in PpReqs : ~Has(work, q) => sched'[q] = sched[q]
              /\ \A j \in DOMAIN work : LET e == work[j] IN
                    sched'[e.req].outs = sched[e.req].outs
                                         + IF e.start + e.n >= base[e.req] THEN 1 ELSE 0
  <2> DEFINE T == [status : {"waiting", "running", "preempted", "ended"}, computed : Nat, outs : Nat]
  <2>1. sched \in [PpReqs -> T]
    BY DEF PpTypeOK
  <2>2. sched' = told
    BY <1>2, <1>16
  <2> HIDE DEF work, ids, final
  <2>3. ASSUME NEW q \in PpReqs
        PROVE  /\ sched'[q] \in T /\ Rests(q)
               /\ q \notin ids => sched'[q] = sched[q]
               /\ q \in ids => sched'[q].outs = sched[q].outs + one(q)
    <3>1. CASE q \notin ids
      <4>1. sched'[q] = sched[q]
        BY <2>2, <3>1
      <4> QED BY <4>1, <3>1, <2>1 DEF Rests
    <3>2. CASE q \in ids
      <4> DEFINE outs == sched[q].outs + one(q)
                 status == IF q \in final /\ sched[q].outs + 1 >= PpMaxOuts
                           THEN "ended" ELSE sched[q].status
      <4>1. sched'[q] = [sched[q] EXCEPT !.outs = outs, !.status = status]
        BY <2>2, <3>2
      <4>2. sched[q] \in T /\ outs \in Nat /\ status \in {"waiting", "running", "preempted", "ended"}
            /\ status \in {sched[q].status, "ended"}
        BY <2>1
      <4> HIDE DEF outs, status, one
      <4>3. sched'[q] \in T /\ sched'[q].outs = outs /\ sched'[q].status = status
            /\ sched'[q].computed = sched[q].computed
        BY <4>1, <4>2
      <4> HIDE DEF T
      <4> QED BY <4>2, <4>3, <3>2 DEF Rests, outs
    <3> QED BY <3>1, <3>2
  <2>4. sched' \in [PpReqs -> T]
    <3>1. sched' = [q \in PpReqs |-> sched'[q]]
      BY <2>2
    <3> HIDE DEF T, told
    <3> QED BY <3>1, <2>3
  <2>5. \A j \in DOMAIN work : LET e == work[j] IN
           one(e.req) = IF e.start + e.n >= base[e.req] THEN 1 ELSE 0
    BY <1>10
  <2> HIDE DEF one
  <2> QED BY <2>3, <2>4, <2>5, <1>3, <1>8
<1> QED BY <1>1, <1>6, <1>7, <1>12, <1>14, <1>15, <1>16, ZenonT(60)

(* The queues and the wires it moves. *)
LEMMA RunMoves ==
    ASSUME PpTypeOK, NEW pos, NEW base, PpInv(pos, base), NEW r \in Ranks, RunStage(r)
    PROVE  /\ PpTypeOK' /\ Ranks' = Ranks
           /\ Len(orders'[r]) = Len(orders[r]) - 1
           /\ \A i \in 1..Len(orders'[r]) : orders'[r][i] = orders[r][i + 1]
           /\ \A p \in Ranks : p # r => orders'[p] = orders[p]
           /\ \A p \in Ranks : \A i \in 1..Len(wire'[p]) :
                 wire'[p][i] = TruePacked(orders'[p][i], base)
           /\ \A p \in Ranks : p # 0 => Len(orders'[p]) = Len(orders'[p - 1]) + Len(wire'[p])
           /\ \A p, s \in Ranks : p <= s => Len(orders'[p]) <= Len(orders'[s])
           /\ wire'[0] = << >>
<1> DEFINE work == Head(orders[r])
           right == TruePacked(work, base)
<1>1. /\ orders[r] # << >> /\ (r # 0 => wire[r] # << >>)
      /\ pp' = pp /\ issued' = issued /\ orders' = [orders EXCEPT ![r] = Tail(@)]
      /\ ~ppFault'
      /\ wire' = Deliver(r, right)
      /\ stage' \in [Ranks -> [up : {"loading", "up", "refused"}, layers : SUBSET Nat,
                               reqs : [PpReqs -> RequestType]]]
      /\ sched' \in [PpReqs -> [status : {"waiting", "running", "preempted", "ended"},
                                computed : Nat, outs : Nat]]
  <2>1. sched \in [PpReqs -> [status : {"waiting", "running", "preempted", "ended"},
                              computed : Nat, outs : Nat]]
    BY DEF PpTypeOK
  <2> QED BY <2>1, RunDoes
<1>2. Ranks' = Ranks
  BY <1>1 DEF Ranks
<1>3. /\ work \in Seq(EntryType) /\ work = Queue[Behind(r) + 1]
      /\ Behind(r) + 1 \in 1..Len(Queue)
  BY <1>1, HeadOf
<1>4. right \in Seq(Row)
  <2> DEFINE S == {<<q, i, i>> : q \in PpReqs, i \in Nat}
  <2>1. right \in Seq(S)
    BY <1>3, TruePackedType
  <2>2. S \subseteq Row
    BY DEF Row
  <2> HIDE DEF right, S
  <2>3. \A i \in 1..Len(right) : right[i] \in Row
    BY <2>1, <2>2
  <2>4. Len(right) \in Nat /\ right = [i \in 1..Len(right) |-> right[i]]
    <3>1. Len(right) \in Nat /\ right \in [1..Len(right) -> S]
      BY <2>1, LenProperties
    <3> QED BY <3>1
  <2> QED BY <2>3, <2>4
<1> HIDE DEF work, right
<1>5. /\ Len(Queue) \in Nat
      /\ \A p \in Ranks :
            /\ orders[p] \in Seq(Seq(EntryType)) /\ wire[p] \in Seq(Seq(Row))
            /\ Len(orders[p]) \in Nat /\ Len(wire[p]) \in Nat
            /\ Len(orders[p]) <= Len(Queue) /\ Len(wire[p]) <= Len(orders[p])
            /\ Behind(p) = Len(Queue) - Len(orders[p])
      /\ \A p \in Ranks : p # 0 => /\ p - 1 \in Ranks
                                   /\ Len(orders[p]) = Len(orders[p - 1]) + Len(wire[p])
  BY LevelsAre DEF PpInv
<1>6. Ranks \subseteq Nat /\ \A p \in Ranks : p + 1 # p /\ p - 1 # p
  BY DEF Ranks
<1>7. /\ Len(orders'[r]) = Len(orders[r]) - 1 /\ orders'[r] \in Seq(Seq(EntryType))
      /\ Len(orders[r]) > 0
      /\ \A i \in 1..Len(orders'[r]) : orders'[r][i] = orders[r][i + 1]
      /\ \A p \in Ranks : p # r => orders'[p] = orders[p]
  <2>1. orders \in [Ranks -> Seq(Seq(EntryType))]
    BY DEF PpTypeOK
  <2>2. orders'[r] = Tail(orders[r]) /\ \A p \in Ranks : p # r => orders'[p] = orders[p]
    BY <1>1, <2>1
  <2>3. orders[r] # << >> /\ orders[r] \in Seq(Seq(EntryType))
    BY <1>1, <1>5
  <2>4. /\ Len(Tail(orders[r])) = Len(orders[r]) - 1 /\ Tail(orders[r]) \in Seq(Seq(EntryType))
        /\ \A i \in 1..Len(Tail(orders[r])) : Tail(orders[r])[i] = orders[r][i + 1]
    BY <2>3, HeadTailProperties
  <2>5. Len(orders[r]) > 0
    BY <2>3
  <2> QED BY <2>2, <2>4, <2>5
<1>8. /\ \A p \in Ranks : p # r /\ p # r + 1 => wire'[p] = wire[p]
      /\ r + 1 \in Ranks => /\ Len(wire'[r + 1]) = Len(wire[r + 1]) + 1
                            /\ wire'[r + 1][Len(wire[r + 1]) + 1] = right
                            /\ \A i \in 1..Len(wire[r + 1]) : wire'[r + 1][i] = wire[r + 1][i]
                            /\ wire'[r + 1] \in Seq(Seq(Row))
      /\ r # 0 => /\ Len(wire'[r]) = Len(wire[r]) - 1 /\ Len(wire[r]) > 0
                  /\ \A i \in 1..Len(wire'[r]) : wire'[r][i] = wire[r][i + 1]
                  /\ wire'[r] \in Seq(Seq(Row))
      /\ r = 0 => wire'[r] = wire[r]
  <2>1. /\ \A p \in Ranks : p # r /\ p # r + 1 => wire'[p] = wire[p]
        /\ r + 1 \in Ranks => wire'[r + 1] = Append(wire[r + 1], right)
        /\ r # 0 => wire'[r] = Tail(wire[r])
        /\ r = 0 => wire'[r] = wire[r]
    BY <1>1, <1>6 DEF Deliver
  <2>2. ASSUME r + 1 \in Ranks
        PROVE  /\ Len(wire'[r + 1]) = Len(wire[r + 1]) + 1
               /\ wire'[r + 1][Len(wire[r + 1]) + 1] = right
               /\ \A i \in 1..Len(wire[r + 1]) : wire'[r + 1][i] = wire[r + 1][i]
               /\ wire'[r + 1] \in Seq(Seq(Row))
    <3>1. wire[r + 1] \in Seq(Seq(Row)) /\ wire'[r + 1] = Append(wire[r + 1], right)
      BY <2>1, <2>2, <1>5
    <3> DEFINE w == wire[r + 1]
    <3>2. w \in Seq(Seq(Row)) /\ right \in Seq(Row)
      BY <3>1, <1>4
    <3> DEFINE T == Seq(Row)
    <3> HIDE DEF w, T
    <3>a. w \in Seq(T) /\ right \in T
      BY <3>2 DEF T
    <3>3. /\ Append(w, right) \in Seq(Seq(Row)) /\ Len(Append(w, right)) = Len(w) + 1
          /\ \A i \in 1..Len(w) : Append(w, right)[i] = w[i]
          /\ Append(w, right)[Len(w) + 1] = right
      BY <3>a, AppendProperties DEF T
    <3> QED BY <3>1, <3>3 DEF w
  <2>3. ASSUME r # 0
        PROVE  /\ Len(wire'[r]) = Len(wire[r]) - 1 /\ Len(wire[r]) > 0
               /\ \A i \in 1..Len(wire'[r]) : wire'[r][i] = wire[r][i + 1]
               /\ wire'[r] \in Seq(Seq(Row))
    <3>1. wire[r] # << >> /\ wire[r] \in Seq(Seq(Row)) /\ wire'[r] = Tail(wire[r])
      BY <1>1, <1>5, <2>1, <2>3
    <3>2. /\ Len(Tail(wire[r])) = Len(wire[r]) - 1 /\ Tail(wire[r]) \in Seq(Seq(Row))
          /\ \A i \in 1..Len(Tail(wire[r])) : Tail(wire[r])[i] = wire[r][i + 1]
      BY <3>1, HeadTailProperties
    <3>3. Len(wire[r]) > 0
      BY <3>1
    <3> QED BY <3>1, <3>2, <3>3
  <2> QED BY <2>1, <2>2, <2>3
<1>9. PpTypeOK'
  <2>1. orders' \in [Ranks -> Seq(Seq(EntryType))]
    <3>1. orders' = [p \in Ranks |-> orders'[p]]
      BY <1>1 DEF PpTypeOK
    <3>2. \A p \in Ranks : orders'[p] \in Seq(Seq(EntryType))
      BY <1>5, <1>7
    <3> QED BY <3>1, <3>2
  <2>2. wire' \in [Ranks -> Seq(Seq(Row))]
    <3>1. wire' = [p \in Ranks |-> wire'[p]]
      BY <1>1 DEF Deliver
    <3>2. \A p \in Ranks : wire'[p] \in Seq(Seq(Row))
      BY <1>5, <1>8
    <3> QED BY <3>1, <3>2
  <2>3. pp' \in [size : PpSizes, layers : PpLayers, readmits : BOOLEAN] /\ issued' \in Nat
        /\ ppFault' \in BOOLEAN
    <3>1. ppFault' = FALSE
      BY <1>1
    <3>2. pp' = pp /\ issued' = issued
      BY <1>1
    <3> QED BY <3>1, <3>2 DEF PpTypeOK
  <2> QED BY <1>1, <1>2, <2>1, <2>2, <2>3 DEF PpTypeOK
<1>10. ASSUME NEW p \in Ranks, NEW i \in 1..Len(wire'[p])
       PROVE  wire'[p][i] = TruePacked(orders'[p][i], base)
  <2>1. ASSUME NEW k \in 1..Len(wire[p])
        PROVE  wire[p][k] = TruePacked(orders[p][k], base)
    BY DEF PpInv, Aligned
  <2>2. CASE p = r
    <3>1. CASE r = 0
      BY <2>2, <3>1, <1>8 DEF PpInv, Aligned
    <3>2. CASE r # 0
      <4>a. /\ Len(wire'[p]) = Len(wire[p]) - 1 /\ Len(wire[p]) \in Nat
            /\ \A k \in 1..Len(wire'[p]) : wire'[p][k] = wire[p][k + 1]
        BY <2>2, <3>2, <1>5, <1>8
      <4>b. i \in 1..(Len(wire[p]) - 1)
        BY <4>a
      <4>1. wire'[p][i] = wire[p][i + 1] /\ i + 1 \in 1..Len(wire[p])
        BY <4>a, <4>b
      <4>2. i \in 1..Len(orders'[p])
        <5>1. Len(wire'[p]) = Len(wire[p]) - 1 /\ Len(orders'[p]) = Len(orders[p]) - 1
          BY <2>2, <3>2, <1>7, <1>8
        <5> QED BY <5>1, <1>5
      <4>3. orders'[p][i] = orders[p][i + 1]
        BY <2>2, <4>2, <1>7
      <4> QED BY <4>1, <4>3, <2>1
    <3> QED BY <3>1, <3>2
  <2>3. CASE p # r /\ p = r + 1
    <3>1. orders'[p] = orders[p] /\ p # 0 /\ p - 1 = r
      BY <2>3, <1>6, <1>7
    <3>2. CASE i = Len(wire[p]) + 1
      <4> DEFINE a == Len(orders[p])
                 b == Len(orders[r])
                 c == Len(wire[p])
                 m == Len(Queue)
      <4>1. a = b + c /\ a \in Nat /\ b \in Nat /\ c \in Nat /\ m \in Nat /\ b > 0 /\ a <= m
        BY <3>1, <1>5, <1>7
      <4>2. i = c + 1 /\ Behind(p) = m - a /\ Behind(r) = m - b
        BY <3>2, <1>5
      <4> HIDE DEF a, b, c, m
      <4>3. i \in 1..a /\ Behind(p) + i = Behind(r) + 1
        BY <4>1, <4>2
      <4>4. orders[p][i] = Queue[Behind(p) + i]
        BY <4>3 DEF PpInv, Aligned, a
      <4>5. orders[p][i] = work
        BY <4>3, <4>4, <1>3
      <4> QED BY <4>5, <3>1, <3>2, <2>3, <1>8 DEF right
    <3>3. CASE i # Len(wire[p]) + 1
      <4>1. i \in 1..Len(wire[p])
        BY <3>3, <2>3, <1>5, <1>8
      <4> QED BY <4>1, <3>1, <2>1, <2>3, <1>8
    <3> QED BY <3>2, <3>3
  <2>4. CASE p # r /\ p # r + 1
    BY <2>1, <2>4, <1>7, <1>8
  <2> QED BY <2>2, <2>3, <2>4
<1>11. ASSUME NEW p \in Ranks, p # 0
       PROVE  Len(orders'[p]) = Len(orders'[p - 1]) + Len(wire'[p])
  <2> DEFINE a == Len(orders[p])
             b == Len(orders[p - 1])
             c == Len(wire[p])
  <2>1. a = b + c /\ a \in Nat /\ b \in Nat /\ c \in Nat /\ p - 1 \in Ranks
    BY <1>5, <1>11
  <2>2. CASE p = r
    <3>1. Len(orders'[p]) = a - 1 /\ Len(orders'[p - 1]) = b /\ Len(wire'[p]) = c - 1
      BY <2>1, <2>2, <1>6, <1>7, <1>8, <1>11
    <3> HIDE DEF a, b, c
    <3>2. a - 1 = b + (c - 1)
      BY <2>1
    <3> QED BY <3>1, <3>2
  <2>3. CASE p # r /\ p = r + 1
    <3>1. p - 1 = r
      BY <2>3, <1>6
    <3>2. Len(orders'[p]) = a /\ Len(orders'[p - 1]) = b - 1 /\ Len(wire'[p]) = c + 1
      BY <2>3, <3>1, <1>7, <1>8
    <3> HIDE DEF a, b, c
    <3>3. a = (b - 1) + (c + 1)
      BY <2>1
    <3> QED BY <3>2, <3>3
  <2>4. CASE p # r /\ p # r + 1
    <3>1. p - 1 # r
      BY <2>4, <1>6
    <3> QED BY <2>1, <2>4, <3>1, <1>7, <1>8
  <2> QED BY <2>2, <2>3, <2>4
<1>12. ASSUME NEW p \in Ranks, NEW s \in Ranks, p <= s
       PROVE  Len(orders'[p]) <= Len(orders'[s])
  <2>1. Len(orders[p]) <= Len(orders[s]) /\ Len(orders[p]) \in Nat /\ Len(orders[s]) \in Nat
    BY <1>5, <1>12 DEF PpInv, Aligned
  <2>2. CASE p = s
    <3>1. Len(orders'[p]) \in Nat
      BY <1>5, <1>7
    <3> QED BY <2>2, <3>1
  <2>3. CASE p # s /\ s = r
    <3>1. p < r /\ r # 0 /\ p <= r - 1
      BY <2>3, <1>6, <1>12
    <3> DEFINE a == Len(orders[r])
               b == Len(orders[r - 1])
               c == Len(wire[r])
    <3>2. a = b + c /\ a \in Nat /\ b \in Nat /\ c \in Nat /\ c > 0 /\ r - 1 \in Ranks
      BY <3>1, <1>5, <1>8
    <3>3. Len(orders[p]) <= b
      BY <3>1, <3>2 DEF PpInv, Aligned
    <3>4. Len(orders'[p]) = Len(orders[p]) /\ Len(orders'[s]) = a - 1
      BY <2>3, <1>7
    <3> HIDE DEF a, b, c
    <3>5. Len(orders[p]) <= a - 1
      BY <3>2, <3>3, <2>1
    <3> QED BY <3>4, <3>5
  <2>4. CASE p # s /\ s # r
    <3>1. orders'[s] = orders[s] /\ Len(orders'[p]) <= Len(orders[p]) /\ Len(orders'[p]) \in Int
      <4>1. orders'[s] = orders[s]
        BY <2>4, <1>7
      <4>2. CASE p = r
        <5>1. Len(orders'[p]) = Len(orders[p]) - 1
          BY <4>2, <1>7
        <5> QED BY <5>1, <4>1, <2>1
      <4>3. CASE p # r
        <5>1. orders'[p] = orders[p]
          BY <4>3, <1>7
        <5> QED BY <5>1, <4>1, <2>1
      <4> QED BY <4>2, <4>3
    <3> QED BY <3>1, <2>1
  <2> QED BY <2>2, <2>3, <2>4
<1>13. wire'[0] = << >>
  <2>1. 0 \in Ranks /\ wire[0] = << >>
    BY RanksAre DEF PpInv, Aligned
  <2> QED BY <2>1, <1>6, <1>8
<1> QED BY <1>2, <1>7, <1>9, <1>10, <1>11, <1>12, <1>13


(* The state of each request where the stage has come to. *)
LEMMA RunKeeps ==
    ASSUME PpTypeOK, NEW pos, NEW base, PpInv(pos, base), NEW r \in Ranks, RunStage(r),
           NEW q \in PpReqs
    PROVE  LET d == pos[q][Behind(r) + 1]
               state == stage'[r].reqs[q]
           IN  /\ state.prompt <= PpPrompt /\ state.generated >= 0
               /\ d > 0 => /\ state.tokens = Tokens(Larger(base[q], Held(r, d)))
                           /\ state.generated > 0 <=> Held(r, d) > base[q]
<1> DEFINE work == Head(orders[r])
           i == Behind(r)
<1>1. orders[r] # << >>
  BY RunDoes
<1>2. /\ work = Queue[i + 1] /\ i + 1 \in 1..Len(Queue)
      /\ \A j \in DOMAIN work :
            /\ pos[work[j].req][i] = work[j].start
            /\ pos[work[j].req][i + 1] = work[j].start + work[j].n
  BY <1>1, HeadOf
<1>3. /\ ~Has(work, q) => stage'[r].reqs[q] = stage[r].reqs[q]
      /\ \A j \in DOMAIN work : stage'[r].reqs[work[j].req] = Kept(r, work[j])
  BY RunDoes
<1> HIDE DEF work, i
<1>4. CASE ~Has(work, q)
  <2>1. pos[q][i + 1] = pos[q][(i + 1) - 1]
    BY <1>2, <1>4 DEF PpInv, Traced
  <2>2. (i + 1) - 1 = i
    <3>1. i \in Int
      BY <1>1, HeadOf DEF i
    <3> QED BY <3>1
  <2> QED BY <2>1, <2>2, <1>3, <1>4 DEF PpInv, Mirrors, i
<1>5. CASE Has(work, q)
  <2>1. PICK j \in DOMAIN work : work[j].req = q
    BY <1>5 DEF Has
  <2>2. LET e == work[j] held == Held(r, e.start + e.n) IN
           /\ Kept(r, e).prompt <= PpPrompt /\ Kept(r, e).generated >= 0
           /\ Kept(r, e).tokens = Tokens(Larger(base[e.req], held))
           /\ Kept(r, e).generated > 0 <=> held > base[e.req]
    BY <1>1, KeptRight DEF work
  <2>3. stage'[r].reqs[q] = Kept(r, work[j]) /\ pos[q][i + 1] = work[j].start + work[j].n
    BY <1>2, <1>3, <2>1
  <2> HIDE DEF Kept
  <2> QED BY <2>1, <2>2, <2>3 DEF i
<1> QED BY <1>4, <1>5

LEMMA ForwardHolds ==
    ASSUME PipelineInv, NEW r \in Ranks, RunStage(r), ~IsLast(r)
    PROVE  PipelineInv'
<1> PICK pos, base : PpInv(pos, base)
  BY DEF PipelineInv
<1>1. PpTypeOK /\ Sliced /\ PpTypeOK'
  BY RunMoves DEF PipelineInv
<1>2. /\ Ranks' = Ranks
      /\ Len(orders'[r]) = Len(orders[r]) - 1
      /\ \A i \in 1..Len(orders'[r]) : orders'[r][i] = orders[r][i + 1]
      /\ \A p \in Ranks : p # r => orders'[p] = orders[p]
      /\ \A p \in Ranks : \A i \in 1..Len(wire'[p]) : wire'[p][i] = TruePacked(orders'[p][i], base)
      /\ \A p \in Ranks : p # 0 => Len(orders'[p]) = Len(orders'[p - 1]) + Len(wire'[p])
      /\ \A p, s \in Ranks : p <= s => Len(orders'[p]) <= Len(orders'[s])
      /\ wire'[0] = << >>
  BY <1>1, RunMoves
<1>3. /\ pp' = pp /\ ~ppFault' /\ sched' = sched
      /\ \A p \in Ranks \ {r} : stage'[p] = stage[p]
      /\ stage'[r].up = stage[r].up /\ stage'[r].layers = stage[r].layers
  BY <1>1, RunDoes
<1>4. Queue' = Queue
  <2>1. pp.size - 1 \in Ranks /\ pp.size - 1 # r
    BY <1>1, RanksAre DEF IsLast
  <2> QED BY <2>1, <1>2, <1>3 DEF Queue
<1>5. /\ Len(Queue) \in Nat
      /\ \A p \in Ranks : /\ Len(orders[p]) \in Nat /\ Behind(p) = Len(Queue) - Len(orders[p])
                          /\ Len(orders[p]) <= Len(Queue)
  BY <1>1, LevelsAre DEF PpInv
<1>6. /\ Behind(r)' = Behind(r) + 1
      /\ \A p \in Ranks : p # r => Behind(p)' = Behind(p)
  <2>1. \A p \in Ranks : Behind(p)' = Len(Queue') - Len(orders'[p])
    BY DEF Behind
  <2>2. ASSUME NEW m \in Nat, NEW k \in Nat PROVE m - (k - 1) = (m - k) + 1
    OBVIOUS
  <2>3. Behind(r)' = Behind(r) + 1
    BY <2>1, <2>2, <1>2, <1>4, <1>5
  <2>4. ASSUME NEW p \in Ranks, p # r PROVE Behind(p)' = Behind(p)
    BY <2>1, <2>4, <1>2, <1>4, <1>5
  <2> QED BY <2>3, <2>4
<1>7. Traced(pos, base)'
  <2>1. Traced(pos, base)
    BY DEF PpInv
  <2>2. sched' = sched
    BY <1>3
  <2> QED BY ONLY <2>1, <2>2, <1>4 DEF Traced, EntryOK, Has
<1>8. Aligned(base)'
  <2>1. ASSUME NEW p \in Ranks, NEW i \in 1..Len(orders'[p])
        PROVE  orders'[p][i] = Queue[Behind(p)' + i]
    <3>1. CASE p = r
      <4>1. i + 1 \in 1..Len(orders[r]) /\ orders'[r][i] = orders[r][i + 1]
        BY <3>1, <1>2, <1>5
      <4>2. orders[r][i + 1] = Queue[Behind(r) + (i + 1)]
        BY <4>1 DEF PpInv, Aligned
      <4>3. Behind(p)' + i = Behind(r) + (i + 1)
        BY <3>1, <1>5, <1>6
      <4> QED BY <3>1, <4>1, <4>2, <4>3
    <3>2. CASE p # r
      BY <3>2, <1>2, <1>6 DEF PpInv, Aligned
    <3> QED BY <3>1, <3>2
  <2>2. \A p \in Ranks : Len(orders'[p]) <= Len(Queue)
    <3>1. ASSUME NEW p \in Ranks PROVE Len(orders'[p]) <= Len(Queue)
      <4>1. CASE p = r
        BY <4>1, <1>2, <1>5
      <4>2. CASE p # r
        BY <4>2, <1>2, <1>5
      <4> QED BY <4>1, <4>2
    <3> QED BY <3>1
  <2> QED BY <2>1, <2>2, <1>2, <1>4 DEF Aligned
<1>9. Mirrors(pos, base)'
  <2>1. \A p \in Ranks : \A d : Held(p, d)' = Held(p, d)
    BY <1>3 DEF Held, IsLast
  <2>2. ASSUME NEW p \in Ranks, NEW q \in PpReqs
        PROVE  LET d == pos[q][Behind(p)']
                   state == stage'[p].reqs[q]
               IN  /\ state.prompt <= PpPrompt /\ state.generated >= 0
                   /\ d > 0 => /\ state.tokens = Tokens(Larger(base[q], Held(p, d)))
                               /\ state.generated > 0 <=> Held(p, d) > base[q]
    <3>1. CASE p = r
      BY <3>1, <1>1, <1>6, RunKeeps
    <3>2. CASE p # r
      BY <3>2, <1>3, <1>6 DEF PpInv, Mirrors
    <3> QED BY <3>1, <3>2
  <2> QED BY <2>1, <2>2, <1>2 DEF Mirrors
<1>10. Scheduled(pos, base)'
  BY <1>3 DEF PpInv, Scheduled, Known
<1>11. Sliced'
  <2>1. \A p \in Ranks : Owned(p)' = Owned(p)
    BY <1>3 DEF Owned, Before, PartSize
  <2>2. \A p \in Ranks : stage'[p].up = stage[p].up /\ stage'[p].layers = stage[p].layers
    BY <1>3
  <2> QED BY <2>1, <2>2, <1>1, <1>2 DEF Sliced
<1> QED BY <1>1, <1>3, <1>7, <1>8, <1>9, <1>10, <1>11 DEF PipelineInv, PpInv


LEMMA LastHolds ==
    ASSUME PipelineInv, NEW r \in Ranks, RunStage(r), IsLast(r)
    PROVE  PipelineInv'
<1> PICK pos, base : PpInv(pos, base)
  BY DEF PipelineInv
<1> DEFINE L == Len(Queue)
           work == Head(orders[r])
<1>1. PpTypeOK /\ Sliced /\ PpTypeOK'
  BY RunMoves DEF PipelineInv
<1>2. /\ Ranks' = Ranks
      /\ Len(orders'[r]) = Len(orders[r]) - 1
      /\ \A i \in 1..Len(orders'[r]) : orders'[r][i] = orders[r][i + 1]
      /\ \A p \in Ranks : p # r => orders'[p] = orders[p]
      /\ \A p \in Ranks : \A i \in 1..Len(wire'[p]) : wire'[p][i] = TruePacked(orders'[p][i], base)
      /\ \A p \in Ranks : p # 0 => Len(orders'[p]) = Len(orders'[p - 1]) + Len(wire'[p])
      /\ \A p, s \in Ranks : p <= s => Len(orders'[p]) <= Len(orders'[s])
      /\ wire'[0] = << >>
  BY <1>1, RunMoves
<1>3. /\ pp' = pp /\ ~ppFault'
      /\ \A p \in Ranks \ {r} : stage'[p] = stage[p]
      /\ stage'[r].up = stage[r].up /\ stage'[r].layers = stage[r].layers
      /\ \A q \in PpReqs : Rests(q)
      /\ \A q \in PpReqs : ~Has(work, q) => sched'[q] = sched[q]
      /\ \A j \in DOMAIN work : LET e == work[j] IN
            sched'[e.req].outs = sched[e.req].outs
                                 + IF e.start + e.n >= base[e.req] THEN 1 ELSE 0
  BY <1>1, RunDoes
<1>4. r = pp.size - 1 /\ Queue = orders[r] /\ Queue' = orders'[r] /\ \A p \in Ranks : p <= r
  <2>1. r = pp.size - 1
    BY DEF IsLast
  <2>2. Queue = orders[r]
    BY <2>1 DEF Queue
  <2>3. Queue' = orders'[r]
    BY <2>1, <1>3 DEF Queue
  <2>4. \A p \in Ranks : p <= r
    BY <2>1, <1>1, RanksAre
  <2> QED BY <2>1, <2>2, <2>3, <2>4
<1>5. /\ L \in Nat
      /\ \A p \in Ranks : /\ Len(orders[p]) \in Nat /\ Behind(p) = L - Len(orders[p])
                          /\ Len(orders[p]) <= L
  BY <1>1, LevelsAre DEF PpInv
<1>6. L > 0 /\ Behind(r) = 0 /\ work = Queue[1]
      /\ \A j \in DOMAIN work :
            /\ work[j] \in EntryType /\ EntryOK(work[j], base)
            /\ pos[work[j].req][0] = work[j].start
            /\ pos[work[j].req][1] = work[j].start + work[j].n
  <2>1. orders[r] # << >>
    BY <1>1, RunDoes
  <2>2. Behind(r) = 0
    <3>1. Behind(r) = L - L
      BY <1>4, <1>5
    <3> QED BY <3>1, <1>5
  <2>3. LET i == Behind(r) IN
        /\ i + 1 \in 1..L /\ work = Queue[i + 1]
        /\ \A j \in DOMAIN work :
            /\ work[j] \in EntryType /\ EntryOK(work[j], base)
            /\ pos[work[j].req][i] = work[j].start
            /\ pos[work[j].req][i + 1] = work[j].start + work[j].n
    BY <1>1, <2>1, HeadOf
  <2>4. 1 \in 1..L /\ work = Queue[1]
        /\ \A j \in DOMAIN work :
            /\ work[j] \in EntryType /\ EntryOK(work[j], base)
            /\ pos[work[j].req][0] = work[j].start
            /\ pos[work[j].req][1] = work[j].start + work[j].n
    <3>1. 0 + 1 = 1
      OBVIOUS
    <3> QED BY <2>2, <2>3, <3>1
  <2>5. L > 0
    BY <2>4, <1>5
  <2> QED BY <2>2, <2>4, <2>5
<1>7. PICK pos2 : pos2 = [q \in PpReqs |-> [i \in 0..(L - 1) |-> pos[q][i + 1]]]
  OBVIOUS
<1>8. \A q \in PpReqs : \A i \in 0..(L - 1) : pos2[q][i] = pos[q][i + 1]
  BY <1>7
<1> HIDE DEF L, work
<1>9. Len(Queue') = L - 1 /\ \A i \in 1..(L - 1) : Queue'[i] = Queue[i + 1]
  BY <1>2, <1>4 DEF L
<1>10. ASSUME NEW p \in Ranks, p # r
       PROVE  Behind(p)' = Behind(p) - 1 /\ Behind(p) \in 1..L
  <2>1. Behind(p)' = Len(Queue') - Len(orders'[p])
    BY DEF Behind
  <2>2. Len(orders'[p]) = Len(orders[p]) /\ Len(orders[p]) \in Nat /\ Behind(p) = L - Len(orders[p])
    BY <1>2, <1>5, <1>10
  <2>3. Len(orders'[p]) <= Len(Queue')
    BY <1>2, <1>4
  <2> QED BY <2>1, <2>2, <2>3, <1>5, <1>9
<1>11. Behind(r)' = 0
  <2>1. Behind(r)' = Len(Queue') - Len(orders'[r])
    BY DEF Behind
  <2> QED BY <2>1, <1>4, <1>5, <1>9
<1>12. Traced(pos2, base)'
  <2>1. \A i \in 1..(L - 1) : i \in 0..(L - 1) /\ i - 1 \in 0..(L - 1) /\ i + 1 \in 1..L
                              /\ (i - 1) + 1 = i /\ (i + 1) - 1 = i
    BY <1>5
  <2>2. \A i \in 0..(L - 1) : i + 1 \in 0..L
    BY <1>5
  <2>3. L - 1 \in 0..(L - 1) /\ (L - 1) + 1 = L
    BY <1>5, <1>6
  <2>4. pos2 \in [PpReqs -> [0..(L - 1) -> Nat]]
    <3>1. \A q \in PpReqs : \A i \in 0..L : pos[q][i] \in Nat
      BY DEF PpInv, Traced, L
    <3> QED BY <3>1, <2>2, <1>7
  <2>5. ASSUME NEW q \in PpReqs
        PROVE  /\ pos2[q][L - 1] = sched'[q].computed
               /\ \A i \in 0..(L - 1) : pos2[q][i] <= sched'[q].computed
               /\ \A i \in 1..(L - 1) : ~Has(Queue[i + 1], q) => pos2[q][i] = pos2[q][i - 1]
    <3>1. sched'[q].computed = sched[q].computed
      BY <1>3 DEF Rests
    <3>2. /\ pos[q][L] = sched[q].computed
          /\ \A i \in 0..L : pos[q][i] <= sched[q].computed
          /\ \A i \in 1..L : ~Has(Queue[i], q) => pos[q][i] = pos[q][i - 1]
      BY DEF PpInv, Traced, L
    <3>3. pos2[q][L - 1] = sched'[q].computed
      BY <3>1, <3>2, <2>3, <1>8
    <3>4. \A i \in 0..(L - 1) : pos2[q][i] <= sched'[q].computed
      BY <3>1, <3>2, <2>2, <1>8
    <3>5. ASSUME NEW i \in 1..(L - 1), ~Has(Queue[i + 1], q) PROVE pos2[q][i] = pos2[q][i - 1]
      <4>1. pos[q][i + 1] = pos[q][(i + 1) - 1]
        BY <3>2, <3>5, <2>1
      <4> QED BY <4>1, <2>1, <1>8
    <3> QED BY <3>3, <3>4, <3>5
  <2>6. ASSUME NEW i \in 1..(L - 1)
        PROVE  LET now == Queue[i + 1] IN
               /\ \A j, k \in DOMAIN now : now[j].req = now[k].req => j = k
               /\ \A j \in DOMAIN now :
                     LET e == now[j] IN
                     /\ EntryOK(e, base)
                     /\ pos2[e.req][i - 1] = e.start /\ pos2[e.req][i] = e.start + e.n
    <3>1. i + 1 \in 1..L
      BY <2>1
    <3>2. \A j, k \in DOMAIN Queue[i + 1] : Queue[i + 1][j].req = Queue[i + 1][k].req => j = k
      BY <3>1 DEF PpInv, Traced, L
    <3>3. ASSUME NEW j \in DOMAIN Queue[i + 1]
          PROVE  LET e == Queue[i + 1][j] IN
                 /\ EntryOK(e, base)
                 /\ pos2[e.req][i - 1] = e.start /\ pos2[e.req][i] = e.start + e.n
      <4> DEFINE e == Queue[i + 1][j]
      <4>1. /\ e \in EntryType /\ EntryOK(e, base)
            /\ pos[e.req][(i + 1) - 1] = e.start /\ pos[e.req][i + 1] = e.start + e.n
        BY <3>1, <1>1, InQueue DEF PpInv, L
      <4>2. e.req \in PpReqs
        BY <4>1 DEF EntryType
      <4> HIDE DEF e
      <4>3. pos2[e.req][i - 1] = e.start /\ pos2[e.req][i] = e.start + e.n
        BY <4>1, <4>2, <2>1, <1>8
      <4> QED BY <4>1, <4>3 DEF e
    <3> QED BY <3>2, <3>3
  <2>7. base \in [PpReqs -> Nat] /\ \A q \in PpReqs : base[q] >= PpPrompt
    BY DEF PpInv, Traced
  <2>8. /\ \A q \in PpReqs :
              /\ pos2[q][L - 1] = sched'[q].computed
              /\ \A i \in 0..(L - 1) : pos2[q][i] <= sched'[q].computed
              /\ \A i \in 1..(L - 1) : ~Has(Queue'[i], q) => pos2[q][i] = pos2[q][i - 1]
        /\ \A i \in 1..(L - 1) :
              /\ \A j, k \in DOMAIN Queue'[i] : Queue'[i][j].req = Queue'[i][k].req => j = k
              /\ \A j \in DOMAIN Queue'[i] :
                    LET e == Queue'[i][j] IN
                    /\ EntryOK(e, base)
                    /\ pos2[e.req][i - 1] = e.start /\ pos2[e.req][i] = e.start + e.n
    <3>1. \A i \in 1..(L - 1) : Queue'[i] = Queue[i + 1]
      BY <1>9
    <3>2. \A q \in PpReqs : \A i \in 1..(L - 1) : ~Has(Queue'[i], q) => pos2[q][i] = pos2[q][i - 1]
      BY <2>5, <3>1, Zenon
    <3>3. ASSUME NEW i \in 1..(L - 1)
          PROVE  /\ \A j, k \in DOMAIN Queue'[i] : Queue'[i][j].req = Queue'[i][k].req => j = k
                 /\ \A j \in DOMAIN Queue'[i] :
                       LET e == Queue'[i][j] IN
                       /\ EntryOK(e, base)
                       /\ pos2[e.req][i - 1] = e.start /\ pos2[e.req][i] = e.start + e.n
      <4>1. PICK now : now = Queue[i + 1]
        OBVIOUS
      <4>2. Queue'[i] = now
        BY <3>1, <4>1
      <4>3. /\ \A j, k \in DOMAIN now : now[j].req = now[k].req => j = k
            /\ \A j \in DOMAIN now :
                  LET e == now[j] IN
                  /\ EntryOK(e, base)
                  /\ pos2[e.req][i - 1] = e.start /\ pos2[e.req][i] = e.start + e.n
        BY <2>6, <4>1
      <4> QED BY ONLY <4>2, <4>3, Zenon
    <3> QED BY <2>5, <3>2, <3>3, Zenon
  <2>9. Len(Queue') = L - 1
    BY <1>9
  <2> QED BY <2>4, <2>7, <2>8, <2>9, ZenonT(60) DEF Traced, Has, EntryOK
<1>13. Aligned(base)'
  <2>1. ASSUME NEW p \in Ranks, NEW i \in 1..Len(orders'[p])
        PROVE  orders'[p][i] = Queue'[Behind(p)' + i]
    <3>1. CASE p = r
      <4>1. 0 + i = i
        OBVIOUS
      <4> QED BY <3>1, <4>1, <1>4, <1>11
    <3>2. CASE p # r
      <4>1. /\ Behind(p)' = Behind(p) - 1 /\ Behind(p) \in 1..L /\ orders'[p] = orders[p]
            /\ Behind(p) = L - Len(orders[p]) /\ Len(orders[p]) \in Nat
        BY <3>2, <1>2, <1>5, <1>10
      <4>2. orders[p][i] = Queue[Behind(p) + i]
        BY <4>1 DEF PpInv, Aligned
      <4>3. Behind(p)' + i \in 1..(L - 1) /\ (Behind(p)' + i) + 1 = Behind(p) + i
        BY <4>1, <1>5
      <4> QED BY <4>1, <4>2, <4>3, <1>9
    <3> QED BY <3>1, <3>2
  <2>2. \A p \in Ranks : Len(orders'[p]) <= Len(Queue')
    BY <1>2, <1>4
  <2> QED BY <2>1, <2>2, <1>2 DEF Aligned
<1>14. Mirrors(pos2, base)'
  <2>1. \A p \in Ranks : \A d : Held(p, d)' = Held(p, d)
    BY <1>3 DEF Held, IsLast
  <2>2. ASSUME NEW p \in Ranks, NEW q \in PpReqs
        PROVE  LET d == pos2[q][Behind(p)']
                   state == stage'[p].reqs[q]
               IN  /\ state.prompt <= PpPrompt /\ state.generated >= 0
                   /\ d > 0 => /\ state.tokens = Tokens(Larger(base[q], Held(p, d)))
                               /\ state.generated > 0 <=> Held(p, d) > base[q]
    <3>1. CASE p = r
      <4>1. pos2[q][Behind(p)'] = pos[q][Behind(p) + 1]
        <5>1. 0 \in 0..(L - 1) /\ 0 + 1 = 1
          BY <1>5, <1>6
        <5> QED BY <5>1, <3>1, <1>6, <1>8, <1>11
      <4> QED BY <3>1, <4>1, <1>1, RunKeeps
    <3>2. CASE p # r
      <4>1. Behind(p)' = Behind(p) - 1 /\ Behind(p) - 1 \in 0..(L - 1) /\ (Behind(p) - 1) + 1 = Behind(p)
        BY <3>2, <1>5, <1>10
      <4>2. pos2[q][Behind(p)'] = pos[q][Behind(p)]
        BY <4>1, <1>8
      <4>3. stage'[p] = stage[p]
        BY <3>2, <1>3
      <4> QED BY <4>2, <4>3 DEF PpInv, Mirrors
    <3> QED BY <3>1, <3>2
  <2> QED BY <2>1, <2>2, <1>2 DEF Mirrors
<1>15. Scheduled(pos2, base)'
  <2>1. ASSUME NEW q \in PpReqs
        PROVE  /\ sched'[q].status = "running" => sched'[q].computed > 0
               /\ sched'[q].status \in {"waiting", "preempted"} => sched'[q].computed = 0
               /\ sched'[q].computed > 0 =>
                    PpPrompt + sched'[q].outs = Larger(base[q], pos2[q][0] + 1)
    <3>1. sched'[q].computed = sched[q].computed /\ sched'[q].status \in {sched[q].status, "ended"}
      BY <1>3 DEF Rests
    <3>2. /\ sched[q].status = "running" => sched[q].computed > 0
          /\ sched[q].status \in {"waiting", "preempted"} => sched[q].computed = 0
          /\ sched[q].computed > 0 => PpPrompt + sched[q].outs = Larger(base[q], pos[q][0] + 1)
      BY DEF PpInv, Scheduled, Known
    <3>3. 1 \in 1..L /\ 0 \in 0..(L - 1) /\ 0 + 1 = 1 /\ 1 - 1 = 0 /\ pos2[q][0] = pos[q][1]
      <4>1. 1 \in 1..L /\ 0 \in 0..(L - 1) /\ 0 + 1 = 1 /\ 1 - 1 = 0
        BY <1>5, <1>6
      <4> QED BY <4>1, <1>8
    <3>4. ASSUME sched[q].computed > 0
          PROVE  PpPrompt + sched'[q].outs = Larger(base[q], pos[q][1] + 1)
      <4>1. CASE ~Has(work, q)
        <5>1. pos[q][1] = pos[q][0]
          BY <4>1, <3>3, <1>6 DEF PpInv, Traced, L
        <5>2. sched'[q] = sched[q]
          BY <4>1, <1>3
        <5> QED BY <5>1, <5>2, <3>2, <3>4
      <4>2. CASE Has(work, q)
        <5>1. PICK j \in DOMAIN work : work[j].req = q
          BY <4>2 DEF Has
        <5> DEFINE e == work[j]
        <5>2. /\ e \in EntryType /\ EntryOK(e, base) /\ e.req = q
              /\ pos[q][0] = e.start /\ pos[q][1] = e.start + e.n
              /\ sched'[q].outs = sched[q].outs + IF e.start + e.n >= base[q] THEN 1 ELSE 0
          BY <5>1, <1>3, <1>6
        <5>3. e.start \in Nat /\ e.n \in Nat \ {0} /\ base[q] \in Nat /\ sched[q].outs \in Nat
              /\ PpPrompt \in Nat
          BY <5>2, <1>1, PipelineLinkAssumption
             DEF EntryType, PpTypeOK, PpInv, Traced, PipelineLinkAssumption
        <5> HIDE DEF e
        <5>4. IF e.start < base[q] THEN e.start + e.n <= base[q] ELSE e.n = 1
          BY <5>2 DEF EntryOK
        <5>5. PpPrompt + sched[q].outs = Larger(base[q], e.start + 1)
          BY <5>2, <3>2, <3>4
        <5> DEFINE s == e.start
                   m == e.n
                   b == base[q]
                   k == PpPrompt + sched[q].outs
                   one == IF s + m >= b THEN 1 ELSE 0
        <5>6. /\ k = Larger(b, s + 1) /\ k \in Nat /\ s \in Nat /\ m \in Nat /\ m > 0 /\ b \in Nat
              /\ IF s < b THEN s + m <= b ELSE m = 1
          BY <5>3, <5>4, <5>5
        <5>7. PpPrompt + sched'[q].outs = k + one
          BY <5>2, <5>3
        <5> HIDE DEF s, m, b, k
        <5>8. k + one = Larger(b, (s + m) + 1)
          BY <5>6 DEF Larger
        <5> QED BY <5>2, <5>7, <5>8 DEF s, m, b
      <4> QED BY <4>1, <4>2
    <3> QED BY <3>1, <3>2, <3>3, <3>4
  <2> QED BY <2>1 DEF Scheduled, Known
<1>16. Sliced'
  <2>1. \A p \in Ranks : Owned(p)' = Owned(p)
    BY <1>3 DEF Owned, Before, PartSize
  <2>2. \A p \in Ranks : stage'[p].up = stage[p].up /\ stage'[p].layers = stage[p].layers
    BY <1>3
  <2> QED BY <2>1, <2>2, <1>1, <1>2 DEF Sliced
<1> QED BY <1>1, <1>3, <1>12, <1>13, <1>14, <1>15, <1>16 DEF PipelineInv, PpInv


-----------------------------------------------------------------------------
LEMMA LinkStepHolds == PipelineInv /\ [PpNext]_ppVars => PipelineInv'
<1> SUFFICES ASSUME PipelineInv, [PpNext]_ppVars PROVE PipelineInv'
  OBVIOUS
<1>1. ASSUME NEW r \in Ranks, LoadStage(r) PROVE PipelineInv'
  BY <1>1, LoadHolds
<1>2. ASSUME NEW order \in Orders, NEW n \in [Elems(order) -> 1..(PpPrompt + PpMaxOuts)],
             Schedule(order, n)
      PROVE  PipelineInv'
  BY <1>2, ScheduleHolds
<1>3. ASSUME NEW q \in PpReqs, TakeOff(q) PROVE PipelineInv'
  BY <1>3, TakeOffHolds
<1>4. ASSUME NEW r \in Ranks, RunStage(r) PROVE PipelineInv'
  BY <1>4, ForwardHolds, LastHolds
<1>5. CASE UNCHANGED ppVars
  <2> PICK pos, base : PpInv(pos, base)
    BY DEF PipelineInv
  <2>1. /\ pp' = pp /\ stage' = stage /\ orders' = orders /\ wire' = wire /\ sched' = sched
        /\ issued' = issued /\ ppFault' = ppFault
    BY <1>5 DEF ppVars
  <2>2. Ranks' = Ranks /\ Queue' = Queue
    BY <2>1 DEF Ranks, Queue
  <2>3. \A p \in Ranks : Behind(p)' = Behind(p) /\ Owned(p)' = Owned(p)
    BY <2>1, <2>2 DEF Behind, Owned, Before, PartSize
  <2>4. PpTypeOK' /\ Sliced'
    BY <2>1, <2>2, <2>3 DEF PipelineInv, PpTypeOK, Sliced
  <2>5. Traced(pos, base)'
    BY <2>1, <2>2 DEF PpInv, Traced, EntryOK, Has
  <2>6. Aligned(base)'
    BY <2>1, <2>2, <2>3 DEF PpInv, Aligned
  <2>7. \A p \in Ranks : \A d : Held(p, d)' = Held(p, d)
    BY <2>1 DEF Held, IsLast
  <2>8. Mirrors(pos, base)'
    BY <2>1, <2>2, <2>3, <2>7 DEF PpInv, Mirrors
  <2>9. Scheduled(pos, base)' /\ ~ppFault'
    BY <2>1 DEF PpInv, Scheduled, Known
  <2> QED BY <2>4, <2>5, <2>6, <2>8, <2>9 DEF PipelineInv, PpInv
<1> QED BY <1>1, <1>2, <1>3, <1>4, <1>5 DEF PpNext


-----------------------------------------------------------------------------
(* The slices of the stages, one after the other, are the model.           *)
LEMMA PartSizeIs ==
    ASSUME PpTypeOK
    PROVE  LET q == pp.layers \div pp.size m == pp.layers % pp.size IN
           /\ q \in Nat /\ m \in Nat /\ m < pp.size /\ pp.layers \in Nat
           /\ pp.layers = pp.size * q + m
           /\ \A k \in Nat : /\ PartSize(k) \in Nat
                             /\ PartSize(k) = q + IF k <= pp.size - 2 /\ k > pp.size - 2 - m
                                                  THEN 1 ELSE 0
<1>1. pp.layers \in PpLayers /\ pp.size \in PpSizes /\ PpLayers \subseteq Nat
  BY PipelineLinkAssumption DEF PpTypeOK, PipelineLinkAssumption
<1>2. pp.size \in Nat /\ pp.size >= 2
  BY RanksAre
<1> DEFINE a == pp.layers
           n == pp.size
           q == a \div n
           m == a % n
<1>3. a \in Nat /\ n \in Nat /\ n > 0
  <2>1. \A x \in Nat : x >= 2 => x > 0
    OBVIOUS
  <2>2. n > 0 /\ a \in Nat
    BY <1>1, <1>2, <2>1
  <2> QED BY <1>2, <2>2
<1>4. q \in Nat /\ m \in Nat /\ m < n /\ a = n * q + m
  <2> HIDE DEF a, n
  <2> QED BY <1>3
<1>5. \A k \in Nat : PartSize(k) = q + IF k <= n - 2 /\ k > n - 2 - m THEN 1 ELSE 0
  BY DEF PartSize
<1> HIDE DEF a, n, q, m
<1>6. \A k \in Nat : PartSize(k) \in Nat
  BY <1>4, <1>5
<1> QED BY <1>3, <1>4, <1>5, <1>6 DEF a, n, q, m

LEMMA BeforeIs ==
    ASSUME PpTypeOK
    PROVE  /\ Before(0) = 0 /\ Before(pp.size) = pp.layers
           /\ \A k \in Nat : /\ Before(k) \in Nat /\ PartSize(k) \in Nat
                             /\ Before(k + 1) = Before(k) + PartSize(k)
           /\ \A j, k \in Nat : j <= k => Before(j) <= Before(k)
<1> DEFINE n == pp.size
           q == pp.layers \div n
           m == pp.layers % n
           parts(k) == [s \in 1..k |-> PartSize(s - 1)]
           extra(k) == IF k <= n - 1 - m THEN 0 ELSE IF k <= n - 1 THEN k - (n - 1 - m) ELSE m
<1>1. /\ q \in Nat /\ m \in Nat /\ m < n /\ pp.layers \in Nat
      /\ pp.layers = n * q + m
      /\ \A k \in Nat : /\ PartSize(k) \in Nat
                        /\ PartSize(k) = q + IF k <= n - 2 /\ k > n - 2 - m THEN 1 ELSE 0
  BY PartSizeIs
<1>2. n \in Nat /\ n >= 2
  BY RanksAre
<1> HIDE DEF n, q, m
<1>3. \A k \in Nat : parts(k) \in Seq(Nat) /\ Len(parts(k)) = k
  <2> TAKE k \in Nat
  <2>1. \A s \in 1..k : PartSize(s - 1) \in Nat
    BY <1>1
  <2> QED BY <2>1
<1>4. Before(0) = 0
  <2>1. parts(0) = << >>
    OBVIOUS
  <2> QED BY <2>1, SumEmpty DEF Before
<1>5. \A k \in Nat : Before(k) \in Nat
  BY <1>3, SumType DEF Before
<1>6. \A k \in Nat : Before(k + 1) = Before(k) + PartSize(k)
  <2> TAKE k \in Nat
  <2> DEFINE one == parts(k)
             two == parts(k + 1)
             x == PartSize(k)
  <2>1. /\ one \in Seq(Nat) /\ two \in Seq(Nat) /\ Len(one) = k /\ Len(two) = k + 1 /\ x \in Nat
        /\ \A i \in 1..k : one[i] = two[i]
        /\ two[k + 1] = x
    <3>1. \A i \in 1..k : i \in 1..(k + 1)
      OBVIOUS
    <3>2. k + 1 \in 1..(k + 1) /\ (k + 1) - 1 = k
      OBVIOUS
    <3>3. \A i \in 1..k : one[i] = two[i]
      BY <3>1
    <3>4. two[k + 1] = PartSize((k + 1) - 1)
      BY <3>2
    <3>5. k + 1 \in Nat
      OBVIOUS
    <3>6. one \in Seq(Nat) /\ Len(one) = k
      BY <1>3
    <3>7. two \in Seq(Nat) /\ Len(two) = k + 1
      BY <1>3, <3>5
    <3> HIDE DEF one, two, parts
    <3> QED BY <3>2, <3>3, <3>4, <3>6, <3>7, <1>1
  <2>2. Before(k) = SeqSum(one) /\ Before(k + 1) = SeqSum(two)
    BY DEF Before
  <2> HIDE DEF one, two, x
  <2>3. two = Append(one, x)
    BY <2>1
  <2>4. one \in Seq(Int) /\ x \in Int
    BY <2>1
  <2> QED BY <2>2, <2>3, <2>4, SumAppend DEF x
<1> DEFINE T == {k \in Nat : k <= n => Before(k) = k * q + extra(k)}
<1>7. 0 \in T
  <2>1. 0 * q = 0 /\ extra(0) = 0
    BY <1>1, <1>2
  <2> QED BY <2>1, <1>4
<1>8. ASSUME NEW k \in Nat, k \in T PROVE k + 1 \in T
  <2> SUFFICES ASSUME k + 1 <= n PROVE Before(k + 1) = (k + 1) * q + extra(k + 1)
    OBVIOUS
  <2>1. Before(k) = k * q + extra(k)
    BY <1>2, <1>8
  <2>2. extra(k + 1) = extra(k) + IF k <= n - 2 /\ k > n - 2 - m THEN 1 ELSE 0
    BY <1>1, <1>2
  <2>3. (k + 1) * q = k * q + q /\ k * q \in Nat
    BY <1>1
  <2>4. extra(k) \in Nat /\ PartSize(k) = q + (extra(k + 1) - extra(k)) /\ extra(k + 1) \in Nat
    BY <2>2, <1>1, <1>2
  <2> DEFINE e == extra(k)
             f == extra(k + 1)
             kq == k * q
             all == (k + 1) * q
  <2>5. /\ e \in Nat /\ f \in Nat /\ kq \in Nat /\ q \in Nat /\ all = kq + q
        /\ Before(k + 1) = (kq + e) + (q + (f - e))
    BY <2>1, <2>3, <2>4, <1>1, <1>6
  <2> HIDE DEF e, f, kq, all, extra
  <2>6. Before(k + 1) = all + f
    BY <2>5
  <2> QED BY <2>6 DEF f, all
<1>9. \A k \in Nat : k \in T
  <2> HIDE DEF T
  <2> QED BY <1>7, <1>8, NatSetInduction
<1>10. Before(n) = pp.layers
  <2>1. Before(n) = n * q + extra(n)
    BY <1>2, <1>9
  <2>2. extra(n) = m
    BY <1>1, <1>2
  <2> QED BY <2>1, <2>2, <1>1
<1> DEFINE U == {k \in Nat : \A j \in Nat : j <= k => Before(j) <= Before(k)}
<1>11. 0 \in U
  <2>1. \A j \in Nat : j <= 0 => j = 0
    OBVIOUS
  <2> QED BY <2>1, <1>4
<1>12. ASSUME NEW k \in Nat, k \in U PROVE k + 1 \in U
  <2> SUFFICES ASSUME NEW j \in Nat, j <= k + 1 PROVE Before(j) <= Before(k + 1)
    OBVIOUS
  <2>1. /\ Before(k + 1) = Before(k) + PartSize(k) /\ PartSize(k) \in Nat /\ Before(k) \in Nat
        /\ Before(j) \in Nat
    BY <1>1, <1>5, <1>6
  <2>2. CASE j = k + 1
    BY <2>1, <2>2
  <2>3. CASE j # k + 1
    <3>1. j <= k
      BY <2>3
    <3>2. Before(j) <= Before(k)
      BY <3>1, <1>12
    <3> QED BY <2>1, <3>2
  <2> QED BY <2>2, <2>3
<1>13. \A k \in Nat : k \in U
  <2> HIDE DEF U
  <2> QED BY <1>11, <1>12, NatSetInduction
<1> QED BY <1>1, <1>4, <1>5, <1>6, <1>10, <1>13 DEF n


LEMMA SlicesCover ==
    ASSUME PpTypeOK, Sliced
    PROVE  LayersOnce
<1>1. pp.size \in Nat /\ Ranks = 0..(pp.size - 1) /\ Ranks \subseteq Nat
  BY RanksAre DEF Ranks
<1>2. /\ Before(0) = 0 /\ Before(pp.size) = pp.layers
      /\ \A k \in Nat : /\ Before(k) \in Nat /\ PartSize(k) \in Nat
                        /\ Before(k + 1) = Before(k) + PartSize(k)
      /\ \A j, k \in Nat : j <= k => Before(j) <= Before(k)
  BY BeforeIs
<1>3. \A r \in Ranks : Owned(r) = (Before(r) + 1)..Before(r + 1)
  BY <1>1, <1>2 DEF Owned
<1> SUFFICES ASSUME \A r \in Ranks : stage[r].up = "up"
             PROVE  /\ UNION {stage[r].layers : r \in Ranks} = 1..pp.layers
                    /\ \A r, s \in Ranks : r # s => stage[r].layers \cap stage[s].layers = {}
  BY DEF LayersOnce
<1>4. \A r \in Ranks : stage[r].layers = (Before(r) + 1)..Before(r + 1)
  BY <1>3 DEF Sliced
<1>5. ASSUME NEW r \in Ranks, NEW l \in stage[r].layers
      PROVE  l \in 1..pp.layers
  <2>1. r + 1 \in Nat /\ r + 1 <= pp.size /\ r \in Nat
    BY <1>1
  <2>2. Before(r + 1) <= pp.layers /\ Before(r) \in Nat /\ Before(r + 1) \in Nat /\ pp.layers \in Nat
    BY <2>1, <1>1, <1>2
  <2>3. l \in (Before(r) + 1)..Before(r + 1)
    BY <1>4, <1>5
  <2> QED BY <2>2, <2>3
<1>6. ASSUME NEW l \in 1..pp.layers
      PROVE  \E r \in Ranks : l \in stage[r].layers
  <2> DEFINE T == {k \in Nat : l <= Before(k)}
  <2>1. pp.size \in T /\ T \subseteq Nat
    <3>1. pp.layers \in Nat
      BY <1>1, <1>2
    <3>2. l <= pp.layers
      BY <3>1
    <3> QED BY <3>2, <1>1, <1>2
  <2>2. PICK k \in T : \A j \in T : k <= j
    <3> HIDE DEF T
    <3> QED BY <2>1, LeastNat
  <2>3. k \in Nat /\ l <= Before(k) /\ k <= pp.size
    BY <2>1, <2>2
  <2>4. pp.layers \in Nat /\ l \in Nat /\ l >= 1
    <3>1. pp.layers \in Nat
      BY <1>1, <1>2
    <3> QED BY <3>1
  <2>5. k # 0
    BY <2>3, <2>4, <1>2
  <2>6. k - 1 \in Nat /\ k - 1 \in Ranks /\ (k - 1) + 1 = k
    BY <2>3, <2>5, <1>1
  <2>7. ~(l <= Before(k - 1))
    BY <2>2, <2>3, <2>6
  <2>8. l \in (Before(k - 1) + 1)..Before(k)
    BY <2>3, <2>4, <2>6, <2>7, <1>2
  <2> QED BY <2>6, <2>8, <1>4
<1>7. ASSUME NEW r \in Ranks, NEW s \in Ranks, r < s
      PROVE  stage[r].layers \cap stage[s].layers = {}
  <2>1. Before(r + 1) <= Before(s) /\ Before(r + 1) \in Nat /\ Before(s) \in Nat
    <3>1. r \in Nat /\ s \in Nat /\ r + 1 \in Nat /\ r + 1 <= s
      BY <1>1, <1>7
    <3> QED BY <3>1, <1>2
  <2> DEFINE a == Before(r) + 1
             b == Before(r + 1)
             c == Before(s) + 1
             d == Before(s + 1)
  <2>2. stage[r].layers = a..b /\ stage[s].layers = c..d
    BY <1>4
  <2>3. a \in Int /\ b \in Int /\ c \in Int /\ d \in Int /\ b < c
    <3>1. r \in Nat /\ s \in Nat /\ s + 1 \in Nat
      BY <1>1
    <3>2. Before(r) \in Nat /\ Before(r + 1) \in Nat /\ Before(s) \in Nat /\ Before(s + 1) \in Nat
      BY <3>1, <2>1, <1>2
    <3>3. \A x, y \in Nat : x <= y => x < y + 1 /\ y + 1 \in Int
      OBVIOUS
    <3> QED BY <3>2, <3>3, <2>1
  <2> HIDE DEF a, b, c, d
  <2> QED BY <2>2, <2>3
<1>8. \A r, s \in Ranks : r # s => r < s \/ s < r
  BY <1>1
<1>9. UNION {stage[r].layers : r \in Ranks} = 1..pp.layers
  BY <1>5, <1>6
<1>10. \A r, s \in Ranks : r # s => stage[r].layers \cap stage[s].layers = {}
  BY <1>7, <1>8
<1> QED BY <1>9, <1>10

(* What a stage knows of a request is what has been scheduled of it where  *)
(* the stage stands, and what is on its wire is what it will compute       *)
(* (v1/model_runner.py:2895-2976, distributed/pipeline.py:199-316).        *)
THEOREM PipelineInvariance == PpSpec => []PipelineInv
<1>1. PpInit => PipelineInv
  BY LinkStarts
<1>2. PipelineInv /\ [PpNext]_ppVars => PipelineInv'
  BY LinkStepHolds
<1> QED BY <1>1, <1>2, PTL DEF PpSpec

(* Whatever the launch, the scheduler and the pace of the stages, what a   *)
(* stage receives is the step it is about to run and the stages hold each  *)
(* layer once (distributed/pipeline.py:160-234,                            *)
(* v1/model_runner.py:2895-2938).                                          *)
THEOREM StagesAlwaysAgree == PpSpec => []StagesAgree
<1>1. PipelineInv => StagesAgree
  BY SlicesCover DEF PipelineInv, PpInv, StagesAgree
<1> QED BY <1>1, PipelineInvariance, PTL

-----------------------------------------------------------------------------
(* Prompt logprobs.                                                        *)

IsBounds(cu, work) ==
    cu = [i \in 1..(Len(work) + 1) |-> IF i = 1 THEN 0 ELSE cu[i - 1] + work[i - 1].n]

(* The boundaries of a packed step exist. *)
LEMMA BoundsExist ==
    ASSUME NEW S, NEW work \in Seq(S)
    PROVE  IsBounds(Bounds(work), work)
<1> DEFINE Step(f, i) == IF i = 1 THEN 0 ELSE f[i - 1] + work[i - 1].n
           T == {k \in Nat : \E f : f = [i \in 1..(k + 1) |-> Step(f, i)]}
<1>1. 0 \in T
  <2> DEFINE g == [i \in 1..(0 + 1) |-> 0]
  <2>1. g = [i \in 1..(0 + 1) |-> Step(g, i)]
    OBVIOUS
  <2>2. \E f : f = [i \in 1..(0 + 1) |-> Step(f, i)]
    <3> HIDE DEF g
    <3> QED BY <2>1, Zenon
  <2> QED BY <2>2
<1>2. ASSUME NEW k \in Nat, k \in T PROVE k + 1 \in T
  <2>1. PICK g : g = [i \in 1..(k + 1) |-> Step(g, i)]
    BY <1>2
  <2> DEFINE h == [i \in 1..((k + 1) + 1) |-> IF i = (k + 1) + 1 THEN Step(g, i) ELSE g[i]]
  <2>2. \A i \in 1..((k + 1) + 1) : h[i] = Step(h, i)
    <3> TAKE i \in 1..((k + 1) + 1)
    <3>1. CASE i = (k + 1) + 1
      <4>1. h[i] = Step(g, i) /\ (i # 1 => h[i - 1] = g[i - 1])
        BY <3>1
      <4> QED BY <4>1
    <3>2. CASE i # (k + 1) + 1
      <4>1. i \in 1..(k + 1) /\ (i # 1 => i - 1 \in 1..(k + 1))
        BY <3>2
      <4>2. h[i] = g[i] /\ (i # 1 => h[i - 1] = g[i - 1])
        BY <4>1
      <4>3. g[i] = Step(g, i)
        BY <4>1, <2>1, Zenon
      <4> QED BY <4>2, <4>3
    <3> QED BY <3>1, <3>2
  <2>3. h = [i \in 1..((k + 1) + 1) |-> Step(h, i)]
    BY <2>2
  <2>4. \E f : f = [i \in 1..((k + 1) + 1) |-> Step(f, i)]
    <3> HIDE DEF h
    <3> QED BY <2>3, Zenon
  <2>5. k + 1 \in Nat
    OBVIOUS
  <2> QED BY <2>4, <2>5, Zenon
<1>3. Len(work) \in T
  <2> HIDE DEF T
  <2> QED BY <1>1, <1>2, NatSetInduction
<1> DEFINE cu == CHOOSE cu : cu = [i \in 1..(Len(work) + 1) |-> IF i = 1 THEN 0 ELSE cu[i - 1] + work[i - 1].n]
<1>4. IsBounds(cu, work)
  BY <1>3 DEF IsBounds
<1>5. Bounds(work) = cu
  BY DEF Bounds
<1> HIDE DEF cu
<1> QED
  BY <1>4, <1>5

Sized(work) == \A i \in DOMAIN work : work[i].n \in Nat \ {0} /\ work[i].start \in Nat

(* They rise from nothing by the sizes of the segments. *)
LEMMA BoundsRise ==
    ASSUME NEW S, NEW work \in Seq(S), Sized(work), NEW cu, cu = Bounds(work)
    PROVE  /\ \A i \in 1..(Len(work) + 1) : cu[i] \in Nat
           /\ \A i \in DOMAIN work : cu[i + 1] = cu[i] + work[i].n
           /\ \A i, j \in 1..(Len(work) + 1) : i <= j => cu[i] <= cu[j]
<1> DEFINE N == Len(work)
<1>1. N \in Nat /\ DOMAIN work = 1..N
  OBVIOUS
<1>2. cu = [i \in 1..(N + 1) |-> IF i = 1 THEN 0 ELSE cu[i - 1] + work[i - 1].n]
  BY BoundsExist DEF IsBounds
<1>3. \A i \in 1..(N + 1) : cu[i] = IF i = 1 THEN 0 ELSE cu[i - 1] + work[i - 1].n
  BY <1>2, Zenon
<1> HIDE DEF N
<1>4. \A i \in 1..N : cu[i + 1] = cu[i] + work[i].n
  <2> TAKE i \in 1..N
  <2>1. i + 1 \in 1..(N + 1) /\ i + 1 # 1 /\ (i + 1) - 1 = i
    BY <1>1
  <2> QED BY <1>3, <2>1
<1>5. cu[1] = 0
  BY <1>1, <1>3
<1>6. \A i \in 1..(N + 1) : cu[i] \in Nat
  <2> DEFINE T == {k \in Nat : k + 1 \in 1..(N + 1) => cu[k + 1] \in Nat}
  <2>1. 0 \in T
    BY <1>5
  <2>2. ASSUME NEW k \in Nat, k \in T PROVE k + 1 \in T
    <3>1. SUFFICES ASSUME (k + 1) + 1 \in 1..(N + 1) PROVE cu[(k + 1) + 1] \in Nat
      OBVIOUS
    <3>2. k + 1 \in 1..N /\ k + 1 \in 1..(N + 1)
      BY <1>1, <3>1
    <3>3. cu[(k + 1) + 1] = cu[k + 1] + work[k + 1].n /\ work[k + 1].n \in Nat
      BY <1>1, <1>4, <3>2 DEF Sized
    <3> QED BY <2>2, <3>2, <3>3
  <2>3. \A k \in Nat : k \in T
    <3> HIDE DEF T
    <3> QED BY <2>1, <2>2, NatSetInduction
  <2>4. \A i \in 1..(N + 1) : i - 1 \in Nat /\ (i - 1) + 1 = i
    BY <1>1
  <2> QED BY <2>3, <2>4
<1>7. ASSUME NEW i \in 1..(N + 1) PROVE \A j \in 1..(N + 1) : i <= j => cu[i] <= cu[j]
  <2> DEFINE T == {k \in Nat : i + k \in 1..(N + 1) => cu[i] <= cu[i + k]}
  <2>1. 0 \in T
    BY <1>6
  <2>2. ASSUME NEW k \in Nat, k \in T PROVE k + 1 \in T
    <3>1. SUFFICES ASSUME i + (k + 1) \in 1..(N + 1) PROVE cu[i] <= cu[i + (k + 1)]
      OBVIOUS
    <3>2. i + k \in 1..N /\ i + k \in 1..(N + 1) /\ (i + k) + 1 = i + (k + 1)
      BY <1>1, <3>1
    <3>3. cu[(i + k) + 1] = cu[i + k] + work[i + k].n /\ work[i + k].n \in Nat
      BY <1>1, <1>4, <3>2 DEF Sized
    <3>4. cu[i] <= cu[i + k] /\ cu[i] \in Nat /\ cu[i + k] \in Nat
      BY <1>6, <2>2, <3>2
    <3> QED BY <3>2, <3>3, <3>4
  <2>3. \A k \in Nat : k \in T
    <3> HIDE DEF T
    <3> QED BY <2>1, <2>2, NatSetInduction
  <2>4. \A j \in 1..(N + 1) : i <= j => j - i \in Nat /\ i + (j - i) = j
    BY <1>1
  <2> QED BY <2>3, <2>4
<1> QED
  BY <1>1, <1>4, <1>6, <1>7 DEF N

(* The rows between two boundaries are those of the segment, in the order  *)
(* of their positions.                                                     *)
LEMMA SegmentRows ==
    ASSUME NEW S, NEW work \in Seq(S), Sized(work), NEW i \in DOMAIN work,
           NEW seg, seg = SubSeq(PackedRows(work), Bounds(work)[i] + 1, Bounds(work)[i + 1])
    PROVE  /\ Len(seg) = work[i].n
           /\ \A j \in 1..work[i].n :
                seg[j] = <<client[work[i].req].life, work[i].start + j>>
<1>1. PICK cu : cu = Bounds(work)
  OBVIOUS
<1>2. /\ \A k \in 1..(Len(work) + 1) : cu[k] \in Nat
      /\ \A k \in DOMAIN work : cu[k + 1] = cu[k] + work[k].n
      /\ \A k, l \in 1..(Len(work) + 1) : k <= l => cu[k] <= cu[l]
  BY <1>1, BoundsRise
<1> DEFINE N == Len(work)
           total == cu[N + 1]
           RowAt(k) == LET x == CHOOSE x \in DOMAIN work : cu[x] < k /\ k <= cu[x + 1]
                     IN  <<client[work[x].req].life, work[x].start + k - cu[x]>>
           rows == [k \in 1..total |-> RowAt(k)]
<1>3. N \in Nat /\ DOMAIN work = 1..N /\ i \in 1..N /\ i + 1 \in 1..(N + 1) /\ i \in 1..(N + 1)
      /\ N + 1 \in 1..(N + 1)
  OBVIOUS
<1>4. PackedRows(work) = rows
  BY <1>1 DEF PackedRows
<1> HIDE DEF N
<1>5. /\ cu[i] \in Nat /\ cu[i + 1] = cu[i] + work[i].n /\ cu[i + 1] <= total /\ total \in Nat
      /\ work[i].n \in Nat \ {0}
  BY <1>2, <1>3 DEF Sized, N
<1> HIDE DEF RowAt, total
<1>6. PICK T : T = {rows[k] : k \in 1..total}
  OBVIOUS
<1>7. rows \in Seq(T) /\ Len(rows) = total
  BY <1>5, <1>6
<1>8. ASSUME NEW j \in 1..work[i].n
      PROVE  rows[cu[i] + j] = <<client[work[i].req].life, work[i].start + j>>
  <2>1. PICK k : k = cu[i] + j
    OBVIOUS
  <2>2. k \in 1..total /\ cu[i] < k /\ k <= cu[i + 1] /\ k - cu[i] = j /\ k \in Nat
    BY <1>5, <2>1
  <2>3. \A x \in DOMAIN work : cu[x] < k /\ k <= cu[x + 1] => x = i
    <3> TAKE x \in DOMAIN work
    <3>1. x \in 1..N /\ x + 1 \in 1..(N + 1) /\ x \in 1..(N + 1)
      BY <1>3
    <3>2. CASE x < i
      <4>1. cu[x + 1] <= cu[i] /\ cu[x + 1] \in Nat
        BY <1>2, <1>3, <3>1, <3>2 DEF N
      <4> QED BY <1>5, <2>2, <4>1
    <3>3. CASE x > i
      <4>1. cu[i + 1] <= cu[x] /\ cu[x] \in Nat
        BY <1>2, <1>3, <3>1, <3>3 DEF N
      <4> QED BY <1>5, <2>2, <4>1
    <3> QED BY <1>3, <3>1, <3>2, <3>3
  <2>4. (CHOOSE x \in DOMAIN work : cu[x] < k /\ k <= cu[x + 1]) = i
    BY <2>2, <2>3
  <2>5. RowAt(k) = <<client[work[i].req].life, work[i].start + k - cu[i]>>
    BY <2>4 DEF RowAt
  <2>6. work[i].start + k - cu[i] = work[i].start + j
    BY <1>5, <2>2 DEF Sized
  <2>7. rows[k] = RowAt(k)
    BY <2>2
  <2> QED BY <2>1, <2>5, <2>6, <2>7
<1> HIDE DEF rows
<1>9. seg = SubSeq(rows, cu[i] + 1, cu[i + 1])
  BY <1>1, <1>4
<1>10. Len(seg) = work[i].n /\ \A j \in 1..work[i].n : seg[j] = rows[cu[i] + j]
  <2>1. PICK a : a = cu[i] + 1
    OBVIOUS
  <2>2. PICK b : b = cu[i + 1]
    OBVIOUS
  <2>3. a \in 1..(Len(rows) + 1) /\ b \in Nat /\ b <= Len(rows) /\ a <= b /\ b - a + 1 = work[i].n
    BY <1>5, <1>7, <2>1, <2>2
  <2>4. Len(SubSeq(rows, a, b)) = b - a + 1
    BY <1>7, <2>3
  <2>5. \A j \in 1..(b - a + 1) : SubSeq(rows, a, b)[j] = rows[a + j - 1]
    BY <1>7, <2>3
  <2>6. \A j \in 1..work[i].n : a + j - 1 = cu[i] + j
    BY <1>5, <2>1
  <2> QED BY <1>9, <2>1, <2>2, <2>3, <2>4, <2>5, <2>6
<1> QED
  BY <1>8, <1>10

-----------------------------------------------------------------------------
(* The inductive invariant: what the tracker holds of a request follows    *)
(* from how far the scheduler has brought it.                              *)

Clean(r) == r \notin tracker.active /\ tracker.progress[r] = NoTensors

\* The accumulator of a request that is owed its prompt logprobs: none before
\* its first chunk, and what it has computed is scored.
Begun(r) ==
    LET c == client[r]
        progress == tracker.progress[r]
    IN  \/ progress = NoTensors /\ c.computed = 0
        \/ /\ progress = <<progress[1]>> /\ progress # NoTensors
           /\ DOMAIN progress[1] = 1..(c.prompt - 1)
           /\ \A p \in 1..(c.prompt - 1) : p <= c.computed => progress[1][p] = <<c.life, p>>

\* Who the runner does not know, or not yet.
Outside(r) ==
    /\ client[r].outs = 0 /\ client[r].computed = 0
    /\ r \notin leaving[2]
    /\ r \in leaving[1] \/ (Clean(r) /\ r \notin awaiting)

\* Who it does.
Inside(r) ==
    LET c == client[r]
        s == runnerReq[r]
    IN  /\ r \notin leaving[1]
        /\ c.prompt >= 1 /\ s.prompt = c.prompt
        /\ c.outs > 0 \/ ~c.asks => Clean(r)
        /\ c.outs > 0 =>
             delivered[r] = IF c.asks THEN <<Scores(c.life, c.prompt)>> ELSE << >>
        /\ c.asks /\ c.outs = 0 =>
             Begun(r) /\ (r \in tracker.active \/ (readmitsNew /\ c.status = "preempted"))
        /\ c.status = "running" => /\ r \notin leaving[2] /\ r \notin awaiting
                                   /\ s.len = c.prompt + c.outs
                                   /\ s.generated > 0 => c.outs > 0
        /\ c.status = "preempted" => c.computed = 0 /\ r \in leaving[2] \cup awaiting

Story(r) ==
    /\ client[r].outs = 0 => delivered[r] = << >>
    /\ client[r].status \in {"absent", "waiting"} => Outside(r)
    /\ client[r].status = "waiting" => client[r].prompt >= 1
    /\ client[r].status \in {"running", "preempted"} => Inside(r)

LpTypeOK ==
    /\ client \in [LpReqs -> [life : Nat, status : {"absent", "waiting", "running", "preempted"},
                              prompt : Nat, asks : BOOLEAN, computed : Nat, outs : Nat]]
    /\ leaving \in (SUBSET LpReqs) \X (SUBSET LpReqs)
    /\ readmitsNew \in BOOLEAN
    /\ DOMAIN tracker = {"active", "progress"}
    /\ DOMAIN tracker.progress = LpReqs
    /\ runnerReq \in [LpReqs -> [len : Nat, prompt : Nat, generated : Nat]]
    /\ DOMAIN delivered = LpReqs

LpInv == LpTypeOK /\ ~desynced /\ \A r \in LpReqs : Story(r)

-----------------------------------------------------------------------------

(* An action on one request leaves the story of the others.                *)
LEMMA Untouched ==
    ASSUME NEW q \in LpReqs, Story(q),
           client'[q] = client[q] /\ delivered'[q] = delivered[q],
           \A k \in {1, 2} : q \in leaving'[k] <=> q \in leaving[k],
           UNCHANGED <<tracker, runnerReq, awaiting, readmitsNew>>
    PROVE  Story(q)'
<1>1. Clean(q)' <=> Clean(q)
  BY DEF Clean
<1>2. Begun(q)' <=> Begun(q)
  BY DEF Begun
<1>3. Outside(q)' <=> Outside(q)
  BY <1>1 DEF Outside
<1>4. Inside(q)' <=> Inside(q)
  BY <1>1, <1>2 DEF Inside
<1> QED
  BY <1>3, <1>4 DEF Story

LEMMA ScoringStarts == LpInit => LpInv
  BY DEF LpInit, LpInv, LpTypeOK, Story, Outside, Clean, Gone, NoState

LEMMA ArriveKeepsStories ==
    ASSUME LpInv, NEW r \in LpReqs, NEW len \in LpPrompts, NEW asks \in BOOLEAN,
           Arrive(r, len, asks)
    PROVE  LpInv'
<1>1. len \in Nat /\ len >= 1
  BY PromptLogprobsAssumption
<1>2. LpTypeOK' /\ ~desynced'
  <2>1. client[r].life + 1 \in Nat
    BY DEF LpInv, LpTypeOK
  <2>2. client' = [client EXCEPT ![r] = [life |-> client[r].life + 1, status |-> "waiting", prompt |-> len,
                                         asks |-> asks, computed |-> 0, outs |-> 0]]
    BY DEF Arrive
  <2>3. client' \in [LpReqs -> [life : Nat, status : {"absent", "waiting", "running", "preempted"},
                                prompt : Nat, asks : BOOLEAN, computed : Nat, outs : Nat]]
    BY <1>1, <2>1, <2>2 DEF LpInv, LpTypeOK
  <2> QED BY <2>3 DEF LpInv, LpTypeOK, Arrive
<1>3. ASSUME NEW q \in LpReqs, q # r PROVE Story(q)'
  <2>1. client'[q] = client[q] /\ delivered'[q] = delivered[q]
    BY <1>3 DEF LpInv, LpTypeOK, Arrive
  <2>2. Story(q)
    BY DEF LpInv
  <2>3. UNCHANGED <<leaving, tracker, runnerReq, awaiting, readmitsNew>>
    BY DEF Arrive
  <2> QED BY <2>1, <2>2, <2>3, Untouched
<1>4. Story(r)'
  <2>1. Outside(r)
    BY DEF LpInv, Story, Arrive
  <2>2. client'[r] = [life |-> client[r].life + 1, status |-> "waiting", prompt |-> len,
                      asks |-> asks, computed |-> 0, outs |-> 0]
    BY DEF LpInv, LpTypeOK, Arrive
  <2>3. delivered'[r] = << >>
    BY DEF LpInv, LpTypeOK, Arrive
  <2> QED BY <1>1, <2>1, <2>2, <2>3 DEF Arrive, Story, Outside, Clean
<1> QED
  BY <1>2, <1>3, <1>4 DEF LpInv

LEMMA EndKeepsStories ==
    ASSUME LpInv, NEW r \in LpReqs, End(r)
    PROVE  LpInv'
<1>1. leaving' = <<leaving[1] \cup {r}, leaving[2] \ {r}>>
  BY DEF End
<1>2. /\ client' = [client EXCEPT ![r] = client'[r]]
      /\ client'[r] = [Gone EXCEPT !.life = client[r].life]
  BY DEF End, LpInv, LpTypeOK
<1>3. LpTypeOK' /\ ~desynced'
  <2>1. PICK g : g = Gone
    OBVIOUS
  <2>2. PICK T : T = {"absent", "waiting", "running", "preempted"}
    OBVIOUS
  <2>3. PICK B : B = BOOLEAN
    OBVIOUS
  <2>4. g \in [life : Nat, status : T, prompt : Nat, asks : B, computed : Nat, outs : Nat]
    BY <2>1, <2>2, <2>3 DEF Gone
  <2>5. client[r].life \in Nat
    BY DEF LpInv, LpTypeOK
  <2>6. [g EXCEPT !.life = client[r].life]
            \in [life : Nat, status : T, prompt : Nat, asks : B, computed : Nat, outs : Nat]
    BY ONLY <2>4, <2>5
  <2>7. client' \in [LpReqs -> [life : Nat, status : {"absent", "waiting", "running", "preempted"},
                                prompt : Nat, asks : BOOLEAN, computed : Nat, outs : Nat]]
    BY <1>2, <2>1, <2>2, <2>3, <2>6 DEF LpInv, LpTypeOK
  <2> QED BY <1>1, <2>7 DEF LpInv, LpTypeOK, End
<1>4. ASSUME NEW q \in LpReqs, q # r PROVE Story(q)'
  <2>1. client'[q] = client[q] /\ delivered'[q] = delivered[q]
    BY <1>2, <1>4 DEF LpInv, LpTypeOK, End
  <2>2. \A k \in {1, 2} : q \in leaving'[k] <=> q \in leaving[k]
    BY <1>1, <1>4
  <2>3. Story(q)
    BY DEF LpInv
  <2>4. UNCHANGED <<tracker, runnerReq, awaiting, readmitsNew>>
    BY DEF End
  <2> QED BY <2>1, <2>2, <2>3, <2>4, Untouched
<1>5. Story(r)'
  <2>1. delivered'[r] = << >>
    BY DEF LpInv, LpTypeOK, End
  <2>2. client'[r].status = "absent" /\ client'[r].outs = 0 /\ client'[r].computed = 0
    BY <1>2 DEF Gone
  <2> QED BY <1>1, <2>1, <2>2 DEF LpInv, LpTypeOK, Story, Outside
<1> QED
  BY <1>3, <1>4, <1>5 DEF LpInv

LEMMA PreemptKeepsStories ==
    ASSUME LpInv, NEW r \in LpReqs, NEW dropFirst \in BOOLEAN, Preempt(r, dropFirst)
    PROVE  LpInv'
<1>1. leaving' = <<leaving[1], leaving[2] \cup {r}>>
  BY DEF Preempt
<1>2. client[r] \in [life : Nat, status : {"absent", "waiting", "running", "preempted"},
                     prompt : Nat, asks : BOOLEAN, computed : Nat, outs : Nat]
  BY DEF LpInv, LpTypeOK
<1>3. /\ client' = [client EXCEPT ![r] = client'[r]]
      /\ client'[r] = [client[r] EXCEPT !.status = "preempted", !.computed = 0,
                                        !.outs = IF dropFirst THEN 0 ELSE @]
  BY <1>2 DEF Preempt, LpInv, LpTypeOK
<1>4. LpTypeOK' /\ ~desynced'
  <2>1. client'[r] \in [life : Nat, status : {"absent", "waiting", "running", "preempted"},
                     prompt : Nat, asks : BOOLEAN, computed : Nat, outs : Nat]
    <3>1. PICK c : c = client[r]
      OBVIOUS
    <3>2. PICK st : st = "preempted"
      OBVIOUS
    <3>3. PICK o : o = IF dropFirst THEN 0 ELSE c.outs
      OBVIOUS
    <3>4. client'[r] = [c EXCEPT !.status = st, !.computed = 0, !.outs = o]
      BY <1>3, <3>1, <3>2, <3>3, Zenon
    <3>5. o \in Nat
      BY <1>2, <3>1, <3>3
    <3>6. PICK T : T = {"absent", "waiting", "running", "preempted"}
      OBVIOUS
    <3>7. PICK B : B = BOOLEAN
      OBVIOUS
    <3>8. st \in T /\ c \in [life : Nat, status : T, prompt : Nat, asks : B,
                             computed : Nat, outs : Nat]
      BY <1>2, <3>1, <3>2, <3>6, <3>7
    <3>9. [c EXCEPT !.status = st, !.computed = 0, !.outs = o]
             \in [life : Nat, status : T, prompt : Nat, asks : B, computed : Nat, outs : Nat]
      BY ONLY <3>5, <3>8
    <3> QED BY <3>4, <3>6, <3>7, <3>9, Zenon
  <2>2. client' \in [LpReqs -> [life : Nat, status : {"absent", "waiting", "running", "preempted"},
                                prompt : Nat, asks : BOOLEAN, computed : Nat, outs : Nat]]
    BY <1>3, <2>1 DEF LpInv, LpTypeOK
  <2> QED BY <1>1, <2>2 DEF LpInv, LpTypeOK, Preempt
<1>5. ASSUME NEW q \in LpReqs, q # r PROVE Story(q)'
  <2>1. client'[q] = client[q] /\ delivered'[q] = delivered[q]
    BY <1>3, <1>5 DEF LpInv, LpTypeOK, Preempt
  <2>2. \A k \in {1, 2} : q \in leaving'[k] <=> q \in leaving[k]
    BY <1>1, <1>5
  <2>3. Story(q)
    BY DEF LpInv
  <2>4. UNCHANGED <<tracker, runnerReq, awaiting, readmitsNew>>
    BY DEF Preempt
  <2> QED BY <2>1, <2>2, <2>3, <2>4, Untouched
<1>6. Story(r)'
  <2>1. client[r].status = "running" /\ Inside(r) /\ (client[r].outs = 0 => delivered[r] = << >>)
    BY DEF LpInv, Story, Preempt
  <2>2. /\ client'[r].status = "preempted" /\ client'[r].computed = 0
        /\ client'[r].prompt = client[r].prompt /\ client'[r].asks = client[r].asks
        /\ client'[r].life = client[r].life
        /\ client'[r].outs = IF dropFirst THEN 0 ELSE client[r].outs
    BY <1>2, <1>3
  <2>3. delivered'[r] = IF dropFirst THEN << >> ELSE delivered[r]
    BY DEF LpInv, LpTypeOK, Preempt
  <2>4. UNCHANGED <<tracker, runnerReq, readmitsNew>> /\ (dropFirst => readmitsNew /\ client[r].outs = 1)
    BY DEF Preempt
  <2>5. r \notin leaving'[1] /\ r \in leaving'[2]
    BY <1>1, <2>1 DEF Inside
  <2>6. Clean(r)' <=> Clean(r)
    BY <2>4 DEF Clean
  <2>7. Begun(r) => Begun(r)'
    BY <1>2, <2>2, <2>4 DEF Begun
  <2>8. Clean(r) => Begun(r)'
    BY <2>2, <2>4 DEF Begun, Clean
  <2>9. Inside(r)'
    <3>1. client'[r].outs > 0 => ~dropFirst /\ client'[r].outs = client[r].outs
      BY <2>2
    <3>2. client'[r].outs > 0 \/ ~client'[r].asks => Clean(r)'
      BY <2>1, <2>2, <2>6, <3>1 DEF Inside
    <3>3. client'[r].outs > 0 =>
             delivered'[r] = IF client'[r].asks THEN <<Scores(client'[r].life, client'[r].prompt)>> ELSE << >>
      BY <2>1, <2>2, <2>3, <3>1 DEF Inside
    <3>4. client'[r].asks /\ client'[r].outs = 0 =>
             Begun(r)' /\ (r \in tracker'.active \/ (readmitsNew' /\ client'[r].status = "preempted"))
      <4>1. CASE dropFirst
        BY <2>1, <2>2, <2>4, <2>8, <4>1 DEF Inside
      <4>2. CASE ~dropFirst
        BY <2>1, <2>2, <2>4, <2>7, <4>2 DEF Inside
      <4> QED BY <4>1, <4>2
    <3>5. client'[r].prompt >= 1 /\ runnerReq'[r].prompt = client'[r].prompt
      BY <2>1, <2>2, <2>4 DEF Inside
    <3> QED BY <2>2, <2>5, <3>2, <3>3, <3>4, <3>5 DEF Inside
  <2>10. client'[r].outs = 0 => delivered'[r] = << >>
    BY <2>1, <2>2, <2>3
  <2> QED BY <2>2, <2>9, <2>10 DEF Story
<1> QED
  BY <1>4, <1>5, <1>6 DEF LpInv

(* What a step of the runner starts from.                                  *)
KnownNow == [r \in LpReqs |-> IF r \in leaving[1] THEN NoState ELSE runnerReq[r]]
SweptNow == Discarded(tracker, leaving[1])
GoneNow == (awaiting \cup leaving[2]) \ leaving[1]
StateOf(r) == Collected(r, KnownNow, GoneNow)
Registers(r) == \/ Route(r, GoneNow) = "new" /\ client[r].asks
                \/ Route(r, GoneNow) = "readmit" /\ OwedAgain(r)
Owed(r) == client[r].asks /\ client[r].outs = 0

StateType == [len : Nat, prompt : Nat, generated : Nat]

LEMMA Typed ==
    ASSUME LpInv, NEW r \in LpReqs
    PROVE  /\ client[r] \in [life : Nat, status : {"absent", "waiting", "running", "preempted"},
                             prompt : Nat, asks : BOOLEAN, computed : Nat, outs : Nat]
           /\ runnerReq[r] \in StateType
           /\ KnownNow[r] \in StateType
           /\ r \notin leaving[1] => /\ KnownNow[r] = runnerReq[r]
                                     /\ SweptNow.progress[r] = tracker.progress[r]
                                     /\ r \in SweptNow.active <=> r \in tracker.active
           /\ r \in leaving[1] => SweptNow.progress[r] = NoTensors /\ r \notin SweptNow.active
<1>1. NoState \in StateType
  BY DEF NoState, StateType
<1>2. /\ client[r] \in [life : Nat, status : {"absent", "waiting", "running", "preempted"},
                        prompt : Nat, asks : BOOLEAN, computed : Nat, outs : Nat]
      /\ runnerReq[r] \in StateType
  BY DEF LpInv, LpTypeOK, StateType
<1>3. KnownNow[r] = IF r \in leaving[1] THEN NoState ELSE runnerReq[r]
  BY DEF KnownNow
<1>4. /\ SweptNow.active = tracker.active \ leaving[1]
      /\ SweptNow.progress[r] = IF r \in leaving[1] THEN NoTensors ELSE tracker.progress[r]
  BY DEF SweptNow, Discarded
<1> QED
  BY <1>1, <1>2, <1>3, <1>4

(* Whatever way a request is admitted, the runner's state of it agrees     *)
(* with the scheduler's, and it is registered exactly while it is owed     *)
(* prompt logprobs.                                                        *)
LEMMA Admitted ==
    ASSUME LpInv, NEW r \in LpReqs, client[r].status # "absent"
    PROVE  /\ StateOf(r) \in StateType
           /\ StateOf(r).prompt = client[r].prompt /\ client[r].prompt >= 1
           /\ StateOf(r).len = client[r].prompt + client[r].outs
           /\ StateOf(r).generated > 0 => client[r].outs > 0
           /\ r \in SweptNow.active \/ Registers(r) <=> Owed(r)
           /\ Owed(r) => \/ SweptNow.progress[r] = NoTensors /\ client[r].computed = 0
                         \/ SweptNow.progress[r] = tracker.progress[r] /\ Begun(r)
           /\ ~Owed(r) => SweptNow.progress[r] = NoTensors
           /\ client[r].outs > 0 =>
                delivered[r] = IF client[r].asks
                               THEN <<Scores(client[r].life, client[r].prompt)>> ELSE << >>
           /\ client[r].outs = 0 => delivered[r] = << >>
<1>1. Story(r) /\ (client[r].outs = 0 => delivered[r] = << >>)
  BY DEF LpInv, Story
<1>2. PICK c : c = client[r]
  OBVIOUS
<1>3. /\ c.prompt \in Nat /\ c.outs \in Nat /\ c.computed \in Nat /\ c.asks \in BOOLEAN
      /\ c.status \in {"waiting", "running", "preempted"}
  BY <1>2, Typed
<1>4. DOMAIN leaving = {1, 2} /\ readmitsNew \in BOOLEAN
  BY DEF LpInv, LpTypeOK
<1>5. CASE c.status = "waiting"
  <2>1. Outside(r) /\ c.prompt >= 1
    BY <1>1, <1>2, <1>5 DEF Story
  <2>2. r \notin GoneNow /\ c.outs = 0 /\ c.computed = 0
    BY <1>2, <2>1 DEF Outside, GoneNow
  <2>3. Route(r, GoneNow) = "new"
    BY <1>2, <1>5, <2>2 DEF Route
  <2>4. StateOf(r) = [len |-> client[r].prompt, prompt |-> client[r].prompt, generated |-> 0]
    <3>1. Route(r, GoneNow) = "new" /\ Route(r, GoneNow) # "readmit" /\ client[r].status # "preempted"
      BY <1>2, <1>5, <2>3
    <3> QED BY <3>1, Zenon DEF StateOf, Collected
  <2>5. Registers(r) <=> c.asks
    BY <1>2, <2>3 DEF Registers
  <2>6. SweptNow.progress[r] = NoTensors /\ r \notin SweptNow.active
    BY <2>1, Typed DEF Outside, Clean
  <2>7. StateOf(r) \in StateType /\ StateOf(r).prompt = c.prompt /\ StateOf(r).len = c.prompt
        /\ StateOf(r).generated = 0
    BY <1>2, <1>3, <2>4 DEF StateType
  <2> QED BY <1>1, <1>2, <1>3, <2>1, <2>2, <2>5, <2>6, <2>7 DEF Owed
<1>6. CASE c.status \in {"running", "preempted"}
  <2>1. Inside(r)
    BY <1>1, <1>2, <1>6 DEF Story
  <2>2. r \notin leaving[1] /\ c.prompt >= 1
    BY <1>2, <2>1 DEF Inside
  <2>3. /\ KnownNow[r] = runnerReq[r] /\ runnerReq[r] \in StateType
        /\ SweptNow.progress[r] = tracker.progress[r]
        /\ r \in SweptNow.active <=> r \in tracker.active
    BY <2>2, Typed
  <2>4. /\ Owed(r) => Begun(r) /\ (r \in tracker.active \/ (readmitsNew /\ c.status = "preempted"))
        /\ ~Owed(r) => Clean(r)
    BY <1>2, <1>3, <2>1 DEF Inside, Owed
  <2>5. /\ Owed(r) => SweptNow.progress[r] = tracker.progress[r] /\ Begun(r)
        /\ ~Owed(r) => SweptNow.progress[r] = NoTensors
    BY <2>3, <2>4 DEF Clean
  <2>6. client[r].outs > 0 =>
                delivered[r] = IF client[r].asks
                               THEN <<Scores(client[r].life, client[r].prompt)>> ELSE << >>
    BY <2>1 DEF Inside
  <2>7. runnerReq[r].prompt = c.prompt
    BY <1>2, <2>1 DEF Inside
  <2>8. CASE c.status = "running" \/ ~readmitsNew
    <3>1. Route(r, GoneNow) = "cached"
      BY <1>2, <1>6, <2>8 DEF Route
    <3>2. ~Registers(r)
      BY <3>1 DEF Registers
    <3>3. r \in SweptNow.active <=> Owed(r)
      BY <2>3, <2>4, <2>8 DEF Clean
    <3>4. CASE c.status = "running"
      <4>1. StateOf(r) = runnerReq[r]
        BY <1>2, <2>3, <3>1, <3>4 DEF StateOf, Collected
      <4>2. runnerReq[r].len = c.prompt + c.outs /\ (runnerReq[r].generated > 0 => c.outs > 0)
        BY <1>2, <2>1, <3>4 DEF Inside
      <4> QED BY <1>1, <1>2, <2>2, <2>3, <2>5, <2>6, <2>7, <3>2, <3>3, <4>1, <4>2
    <3>5. CASE c.status = "preempted"
      <4>1. StateOf(r) = [runnerReq[r] EXCEPT !.len = c.prompt + c.outs, !.generated = 0]
        BY <1>2, <2>3, <3>1, <3>5 DEF StateOf, Collected
      <4>2. PICK s : s = runnerReq[r]
        OBVIOUS
      <4>3. PICK l : l = c.prompt + c.outs
        OBVIOUS
      <4>4. l \in Nat
        BY <1>3, <4>3
      <4>5. /\ [s EXCEPT !.len = l, !.generated = 0] \in StateType
            /\ [s EXCEPT !.len = l, !.generated = 0].prompt = s.prompt
            /\ [s EXCEPT !.len = l, !.generated = 0].len = l
            /\ [s EXCEPT !.len = l, !.generated = 0].generated = 0
        BY <2>3, <4>2, <4>4 DEF StateType
      <4>6. StateOf(r) \in StateType /\ StateOf(r).prompt = c.prompt /\ StateOf(r).len = c.prompt + c.outs
            /\ StateOf(r).generated = 0
        BY <2>7, <4>1, <4>2, <4>3, <4>5
      <4> QED BY <1>1, <1>2, <2>2, <2>5, <2>6, <3>2, <3>3, <4>6
    <3> QED BY <1>6, <3>4, <3>5
  <2>9. CASE c.status = "preempted" /\ readmitsNew
    <3>1. r \in GoneNow
      BY <1>2, <2>1, <2>9 DEF Inside, GoneNow
    <3>2. Route(r, GoneNow) = "readmit"
      BY <1>2, <2>9, <3>1 DEF Route
    <3>3. Registers(r) <=> Owed(r)
      BY <3>2 DEF Registers, OwedAgain, Owed
    <3>4. ~Owed(r) => r \notin SweptNow.active
      BY <2>3, <2>4 DEF Clean
    <3>5. StateOf(r) = [len |-> client[r].prompt + client[r].outs, prompt |-> client[r].prompt,
                        generated |-> 0]
      <4>1. PICK rt : rt = Route(r, GoneNow)
        OBVIOUS
      <4>2. rt = "readmit" /\ rt # "new" /\ rt # "cached"
        BY <3>2, <4>1
      <4> QED BY <4>1, <4>2, Zenon DEF StateOf, Collected
    <3>6. StateOf(r) \in StateType /\ StateOf(r).prompt = c.prompt /\ StateOf(r).len = c.prompt + c.outs
          /\ StateOf(r).generated = 0
      BY <1>2, <1>3, <3>5 DEF StateType
    <3> QED BY <1>1, <1>2, <2>2, <2>5, <2>6, <3>3, <3>4, <3>6
  <2> QED BY <1>4, <1>6, <2>8, <2>9
<1> QED
  BY <1>3, <1>5, <1>6

(* What a chunk of an owed request leaves in its accumulator, and when it  *)
(* completes.                                                              *)
ChunkOf(r, n, seg, w, acc) ==
    /\ client[r].computed + n <= StateOf(r).len
    /\ \A j \in 1..n : seg[j] = <<client[r].life, client[r].computed + j>>
    /\ w = Window(client[r].computed, n, StateOf(r).prompt)
    /\ acc = Filled(SweptNow.progress[r], client[r].computed, seg, w, StateOf(r).prompt)
ScoredBy(r, n, w, acc) ==
    /\ w.completes <=> client[r].computed + n >= StateOf(r).len
    /\ DOMAIN acc = 1..(client[r].prompt - 1)
    /\ \A p \in 1..(client[r].prompt - 1) :
          p <= client[r].computed + n => acc[p] = <<client[r].life, p>>
    /\ w.completes => acc = Scores(client[r].life, client[r].prompt)

LEMMA Scored ==
    ASSUME LpInv, NEW r \in LpReqs, client[r].status # "absent", Owed(r),
           NEW n \in Nat \ {0}, NEW seg, NEW w, NEW acc, ChunkOf(r, n, seg, w, acc)
    PROVE  ScoredBy(r, n, w, acc)
<1> USE DEF ChunkOf
<1>1. PICK start : start = client[r].computed
  OBVIOUS
<1>2. PICK len : len = client[r].prompt
  OBVIOUS
<1>3. PICK life : life = client[r].life
  OBVIOUS
<1>4. start \in Nat /\ len \in Nat /\ len >= 1 /\ StateOf(r).prompt = len /\ StateOf(r).len = len
  <2>1. client[r].computed \in Nat /\ client[r].prompt \in Nat
    BY Typed
  <2>2. StateOf(r).prompt = client[r].prompt /\ client[r].prompt >= 1
        /\ StateOf(r).len = client[r].prompt + client[r].outs
    BY Admitted
  <2>3. client[r].outs = 0
    BY DEF Owed
  <2> QED BY <1>1, <1>2, <2>1, <2>2, <2>3
<1>5. start + n <= len
  BY <1>1, <1>4
<1>6. w = IF n <= len - (start + 1) THEN [logits |-> n, completes |-> FALSE]
          ELSE [logits |-> IF len - (start + 1) > 0 THEN len - (start + 1) ELSE 0, completes |-> TRUE]
  BY <1>1, <1>4, Zenon DEF Window
<1>7. /\ w.completes \in BOOLEAN /\ (w.completes <=> start + n >= len)
      /\ w.logits = IF n <= len - (start + 1) THEN n ELSE len - (start + 1)
  <2>1. CASE n <= len - (start + 1)
    <3>1. w.logits = n /\ w.completes = FALSE
      BY <1>6, <2>1
    <3>2. ~(start + n >= len)
      BY <1>4, <2>1
    <3>3. w.completes \in BOOLEAN /\ (w.completes <=> start + n >= len)
      BY <3>1, <3>2, Zenon
    <3> QED BY <2>1, <3>1, <3>3
  <2>2. CASE ~(n <= len - (start + 1))
    <3>1. w.logits = (IF len - (start + 1) > 0 THEN len - (start + 1) ELSE 0) /\ w.completes = TRUE
      BY <1>6, <2>2
    <3>2. start + n >= len
      BY <1>4, <1>5, <2>2
    <3>3. w.completes \in BOOLEAN /\ (w.completes <=> start + n >= len)
      BY <3>1, <3>2, Zenon
    <3>4. (IF len - (start + 1) > 0 THEN len - (start + 1) ELSE 0) = len - (start + 1)
      BY <1>4, <1>5, <2>2
    <3> QED BY <2>2, <3>1, <3>3, <3>4
  <2> QED BY <2>1, <2>2
<1>8. PICK base : base = IF SweptNow.progress[r] = NoTensors
                         THEN [p \in 1..(len - 1) |-> Unscored] ELSE SweptNow.progress[r][1]
  OBVIOUS
<1>9. DOMAIN base = 1..(len - 1) /\ \A p \in 1..(len - 1) : p <= start => base[p] = <<life, p>>
  <2>1. CASE SweptNow.progress[r] = NoTensors /\ client[r].computed = 0
    BY <1>1, <1>4, <1>8, <2>1
  <2>2. CASE SweptNow.progress[r] # NoTensors /\ SweptNow.progress[r] = tracker.progress[r] /\ Begun(r)
    BY <1>1, <1>2, <1>3, <1>8, <2>2 DEF Begun
  <2>3. CASE SweptNow.progress[r] = NoTensors /\ SweptNow.progress[r] = tracker.progress[r] /\ Begun(r)
    BY <1>1, <1>4, <1>8, <2>3 DEF Begun
  <2> QED BY <2>1, <2>2, <2>3, Admitted
<1>10. acc = [p \in DOMAIN base |-> IF p \in (start + 1)..(start + w.logits)
                                    THEN seg[p - start] ELSE base[p]]
  BY <1>1, <1>4, <1>8, Zenon DEF Filled
<1>11. DOMAIN acc = 1..(len - 1)
  BY <1>9, <1>10
<1>12. ASSUME NEW p \in 1..(len - 1), p <= start + n PROVE acc[p] = <<life, p>>
  <2>1. p \in Nat /\ acc[p] = IF p \in (start + 1)..(start + w.logits) THEN seg[p - start] ELSE base[p]
    BY <1>9, <1>10
  <2>2. CASE p <= start
    BY <1>4, <1>9, <2>1, <2>2
  <2>3. CASE p > start
    <3>1. p \in (start + 1)..(start + w.logits) /\ p - start \in 1..n
      BY <1>4, <1>7, <1>12, <2>1, <2>3
    <3>2. acc[p] = seg[p - start]
      BY <2>1, <3>1
    <3>3. seg[p - start] = <<life, start + (p - start)>>
      BY <1>1, <1>3, <3>1
    <3>4. start + (p - start) = p
      BY <1>4, <2>1
    <3> QED BY <3>2, <3>3, <3>4
  <2> QED BY <1>4, <2>1, <2>2, <2>3
<1>13. w.completes => acc = Scores(life, len)
  <2>1. SUFFICES ASSUME w.completes PROVE acc = Scores(life, len)
    OBVIOUS
  <2>2. \A p \in 1..(len - 1) : p <= start + n
    BY <1>4, <1>7, <2>1
  <2>3. \A p \in 1..(len - 1) : acc[p] = <<life, p>>
    BY <1>12, <2>2
  <2>4. acc = [p \in 1..(len - 1) |-> acc[p]]
    BY <1>10, <1>11
  <2> QED BY <2>3, <2>4 DEF Scores
<1> QED
  BY <1>1, <1>2, <1>3, <1>4, <1>7, <1>11, <1>12, <1>13 DEF ScoredBy

LEMMA RunnerKeepsStories ==
    ASSUME LpInv, NEW order \in Packings, NEW n \in [Elems(order) -> 1..LpBudget],
           RunnerStep(order, n)
    PROVE  LpInv'
<1> DEFINE ids == Elems(order)
           states == [r \in LpReqs |-> IF r \in ids THEN StateOf(r) ELSE KnownNow[r]]
           registered == {r \in ids : Registers(r)}
           active == SweptNow.active \cup registered
           works == [r \in ids |-> WorkOf(r, n[r], states[r])]
           work == [i \in DOMAIN order |-> works[order[i]]]
           wanted == {r \in ids : ~works[r].decode /\ r \in active}
           out == Projection(work, wanted)
           SegmentOf(i) == IF out.cu = << >> THEN << >>
                           ELSE SubSeq(out.rows, out.cu[i] + 1, out.cu[i + 1])
           segment == [i \in DOMAIN work |-> SegmentOf(i)]
           at == [r \in ids |-> CHOOSE i \in DOMAIN order : order[i] = r]
           window == [r \in wanted |->
                        Window(works[r].start, works[r].n, states[r].prompt)]
           acc == [r \in wanted |->
                     Filled(SweptNow.progress[r], works[r].start, segment[at[r]],
                            window[r], states[r].prompt)]
           done == {r \in wanted : window[r].completes}
<1>1. /\ \A r \in ids : client[r].status # "absent"
      /\ \A r \in ids : /\ works[r].start + works[r].n <= states[r].len
                        /\ works[r].decode => n[r] = 1
      /\ IF \E r \in wanted : Len(segment[at[r]]) # works[r].n
         THEN /\ desynced' = TRUE
              /\ UNCHANGED <<tracker, runnerReq, awaiting, delivered, client>>
         ELSE /\ desynced' = desynced
              /\ tracker' =
                   [active |-> active \ done,
                    progress |-> [r \in LpReqs |->
                        IF r \in done THEN NoTensors
                        ELSE IF r \in wanted THEN <<acc[r]>>
                        ELSE SweptNow.progress[r]]]
              /\ runnerReq' = [r \in LpReqs |->
                   IF r \in ids /\ works[r].final
                   THEN [states[r] EXCEPT !.len = @ + 1, !.generated = @ + 1]
                   ELSE states[r]]
              /\ awaiting' = GoneNow \ ids
              /\ delivered' = [r \in LpReqs |->
                   IF r \in done THEN Append(delivered[r], acc[r])
                   ELSE delivered[r]]
              /\ client' = [r \in LpReqs |->
                   IF r \notin ids THEN client[r]
                   ELSE [client[r] EXCEPT
                           !.status = "running",
                           !.computed = works[r].start + works[r].n,
                           !.outs = @ + (IF works[r].final THEN 1 ELSE 0)]]
      /\ leaving' = <<{}, {}>>
      /\ UNCHANGED readmitsNew
  BY ZenonT(60) DEF RunnerStep, StateOf, KnownNow, SweptNow, GoneNow, Registers
<1>2. order \in Seq(LpReqs) /\ ids \subseteq LpReqs
  <2>1. PICK k \in 1..Cardinality(LpReqs) : order \in [1..k -> LpReqs]
    BY DEF Packings
  <2>2. Cardinality(LpReqs) \in Nat
    BY FS_CardinalityType, PromptLogprobsAssumption
  <2> QED BY <2>1, <2>2 DEF Elems
<1>3. ASSUME NEW r \in ids
      PROVE  /\ r \in LpReqs /\ client[r].status # "absent" /\ states[r] = StateOf(r)
             /\ n[r] \in Nat \ {0}
             /\ r \in active <=> Owed(r)
  <2>1. r \in LpReqs /\ client[r].status # "absent"
    BY <1>1, <1>2
  <2>2. r \in active <=> Owed(r)
    <3>1. r \in SweptNow.active \/ Registers(r) <=> Owed(r)
      BY <2>1, Admitted
    <3> QED BY <3>1
  <2>3. n[r] \in Nat \ {0}
    BY PromptLogprobsAssumption
  <2> QED BY <2>1, <2>2, <2>3
<1>4. ASSUME NEW r \in ids
      PROVE  LET d == StateOf(r).generated > 0
                 start == IF d THEN StateOf(r).len - 1 ELSE client[r].computed
             IN  /\ works[r].req = r /\ works[r].start = start
                 /\ works[r].n = IF d THEN 1 ELSE n[r]
                 /\ works[r].decode <=> d
                 /\ works[r].final <=> d \/ start + n[r] >= StateOf(r).len
  <2>1. works[r] = WorkOf(r, n[r], StateOf(r))
    BY <1>3
  <2> HIDE DEF works
  <2>2. PICK d : d = (StateOf(r).generated > 0)
    OBVIOUS
  <2>3. PICK start : start = IF d THEN StateOf(r).len - 1 ELSE client[r].computed
    OBVIOUS
  <2>4. works[r] = [req |-> r, start |-> start, n |-> IF d THEN 1 ELSE n[r], decode |-> d,
                    final |-> d \/ start + n[r] >= StateOf(r).len]
    BY <2>1, <2>2, <2>3, Zenon DEF WorkOf
  <2>5. /\ works[r].req = r /\ works[r].start = start /\ works[r].n = (IF d THEN 1 ELSE n[r])
        /\ works[r].decode = d /\ works[r].final = (d \/ start + n[r] >= StateOf(r).len)
    <3>1. PICK f : f = (d \/ start + n[r] >= StateOf(r).len)
      OBVIOUS
    <3>2. PICK m : m = IF d THEN 1 ELSE n[r]
      OBVIOUS
    <3>3. works[r] = [req |-> r, start |-> start, n |-> m, decode |-> d, final |-> f]
      BY <2>4, <3>1, <3>2, Zenon
    <3>4. /\ works[r].req = r /\ works[r].start = start /\ works[r].n = m
          /\ works[r].decode = d /\ works[r].final = f
      BY ONLY <3>3
    <3> QED BY <3>1, <3>2, <3>4, Zenon
  <2> QED BY <2>2, <2>3, <2>5, Zenon
<1>5. PICK W : W = works
  OBVIOUS
<1>6. ASSUME NEW r \in ids
      PROVE  /\ W[r].req = r /\ W[r].start \in Nat /\ W[r].n \in Nat \ {0}
             /\ W[r].start + W[r].n <= StateOf(r).len
             /\ W[r].final => client[r].outs > 0 \/ W[r].start + W[r].n >= StateOf(r).len
             /\ r \in wanted <=> Owed(r)
             /\ Owed(r) => /\ W[r].start = client[r].computed /\ W[r].n = n[r]
                           /\ W[r].final <=> client[r].computed + n[r] >= StateOf(r).len
  <2>1. /\ StateOf(r) \in StateType
        /\ StateOf(r).generated > 0 => client[r].outs > 0
        /\ client[r].prompt >= 1 /\ StateOf(r).len = client[r].prompt + client[r].outs
    BY <1>3, Admitted
  <2>2. client[r].computed \in Nat /\ client[r].prompt \in Nat /\ client[r].outs \in Nat
    BY <1>3, Typed
  <2>3. PICK s : s = StateOf(r)
    OBVIOUS
  <2>4. PICK d : d = (s.generated > 0)
    OBVIOUS
  <2>5. PICK start : start = IF d THEN s.len - 1 ELSE client[r].computed
    OBVIOUS
  <2>6. /\ W[r].req = r /\ W[r].start = start /\ W[r].n = IF d THEN 1 ELSE n[r]
        /\ W[r].decode <=> d
        /\ W[r].final <=> d \/ start + n[r] >= s.len
    BY <1>4, <1>5, <2>3, <2>4, <2>5, Zenon
  <2>7. W[r].start + W[r].n <= s.len /\ (W[r].decode => n[r] = 1)
    BY <1>1, <1>3, <1>5, <2>3, Zenon
  <2>8. s \in StateType /\ (s.generated > 0 => client[r].outs > 0) /\ s.len >= 1 /\ s.len \in Nat
        /\ s.generated \in Nat
    BY <2>1, <2>2, <2>3 DEF StateType
  <2>9. r \in wanted <=> ~W[r].decode /\ Owed(r)
    BY <1>3, <1>5
  <2> HIDE DEF wanted, works, ids
  <2>10. start \in Nat /\ n[r] \in Nat \ {0}
    <3>1. n[r] \in Nat \ {0}
      BY <1>3
    <3>2. s.len - 1 \in Nat
      BY <2>8
    <3> QED BY <2>2, <2>5, <3>1, <3>2, Zenon
  <2>11. Owed(r) => ~d
    <3>1. Owed(r) => ~(s.generated > 0)
      BY <2>8 DEF Owed
    <3> QED BY <2>4, <3>1, Zenon
  <2>12. W[r].n \in Nat \ {0}
    BY <2>6, <2>10
  <2> QED BY <2>3, <2>4, <2>5, <2>6, <2>7, <2>8, <2>9, <2>10, <2>11, <2>12
<1>7. work = [i \in DOMAIN order |-> W[order[i]]] /\ work \in Seq({W[r] : r \in ids}) /\ Sized(work)
  <2> HIDE DEF works
  <2>1. work = [i \in DOMAIN order |-> W[order[i]]]
    BY <1>5
  <2>2. \A i \in DOMAIN order : order[i] \in ids
    BY DEF Elems
  <2> HIDE DEF work, ids
  <2>3. work \in Seq({W[r] : r \in ids}) /\ DOMAIN work = DOMAIN order
    BY <1>2, <2>1, <2>2
  <2>4. \A i \in DOMAIN work : work[i] = W[order[i]] /\ order[i] \in ids
    BY <2>1, <2>2, <2>3
  <2> QED BY <1>6, <2>1, <2>3, <2>4 DEF Sized
<1>8. ASSUME NEW r \in wanted
      PROVE  /\ Len(segment[at[r]]) = W[r].n
             /\ \A j \in 1..W[r].n : segment[at[r]][j] = <<client[r].life, W[r].start + j>>
  <2>1. r \in ids
    OBVIOUS
  <2>2. PICK i : i = at[r]
    OBVIOUS
  <2>3. i \in DOMAIN order /\ order[i] = r
    <3>1. \E x \in DOMAIN order : order[x] = r
      BY DEF Elems
    <3>2. at[r] = CHOOSE x \in DOMAIN order : order[x] = r
      BY <2>1
    <3> QED BY <2>2, <3>1, <3>2
  <2>4. i \in DOMAIN work /\ work[i] = W[r] /\ Len(work) \in Nat
    <3> HIDE DEF work
    <3> QED BY <1>7, <2>3
  <2>5. out = [rows |-> PackedRows(work), cu |-> Bounds(work)]
    <3>1. wanted # {}
      OBVIOUS
    <3> HIDE DEF wanted, work
    <3> QED BY <3>1, Zenon DEF Projection
  <2>6. Bounds(work) # << >>
    <3> HIDE DEF work
    <3>1. IsBounds(Bounds(work), work)
      BY <1>7, BoundsExist
    <3>2. 1 \in DOMAIN Bounds(work)
      BY <2>4, <3>1 DEF IsBounds
    <3> QED BY <3>2
  <2>7. segment[i] = SubSeq(PackedRows(work), Bounds(work)[i] + 1, Bounds(work)[i + 1])
    <3> HIDE DEF work, out
    <3>1. segment[i] = SegmentOf(i)
      BY <2>4
    <3>2. out.rows = PackedRows(work) /\ out.cu = Bounds(work)
      BY <2>5
    <3> QED BY <2>6, <3>1, <3>2
  <2> HIDE DEF segment, out, work, at
  <2>8. /\ Len(segment[i]) = work[i].n
        /\ \A j \in 1..work[i].n :
              segment[i][j] = <<client[work[i].req].life, work[i].start + j>>
    <3>1. PICK S : S = {W[x] : x \in ids}
      OBVIOUS
    <3>2. PICK seg : seg = segment[i]
      OBVIOUS
    <3>3. work \in Seq(S) /\ Sized(work) /\ i \in DOMAIN work
          /\ seg = SubSeq(PackedRows(work), Bounds(work)[i] + 1, Bounds(work)[i + 1])
      BY <1>7, <2>4, <2>7, <3>1, <3>2
    <3>4. /\ Len(seg) = work[i].n
          /\ \A j \in 1..work[i].n : seg[j] = <<client[work[i].req].life, work[i].start + j>>
      BY ONLY SegmentRows, <3>3, ZenonT(30)
    <3>5. Len(segment[i]) = work[i].n
      BY <3>2, <3>4, Zenon
    <3>6. ASSUME NEW j \in 1..work[i].n
          PROVE  segment[i][j] = <<client[work[i].req].life, work[i].start + j>>
      BY <3>2, <3>4, Zenon
    <3> QED BY <3>5, <3>6, Zenon
  <2>9. W[r].req = r
    BY <1>6, <2>1
  <2> QED BY <2>2, <2>4, <2>8, <2>9
<1>9. ASSUME NEW r \in wanted
      PROVE  /\ r \in ids /\ r \in LpReqs /\ Owed(r)
             /\ r \in done <=> W[r].final
             /\ DOMAIN acc[r] = 1..(client[r].prompt - 1)
             /\ \A p \in 1..(client[r].prompt - 1) :
                  p <= W[r].start + W[r].n => acc[r][p] = <<client[r].life, p>>
             /\ r \in done => acc[r] = Scores(client[r].life, client[r].prompt)
  <2>1. r \in ids
    OBVIOUS
  <2>2. /\ r \in LpReqs /\ client[r].status # "absent" /\ states[r] = StateOf(r)
        /\ n[r] \in Nat \ {0} /\ Owed(r)
        /\ W[r].start = client[r].computed /\ W[r].n = n[r]
        /\ W[r].final <=> client[r].computed + n[r] >= StateOf(r).len
        /\ W[r].start + W[r].n <= StateOf(r).len
    BY <1>3, <1>6, <2>1
  <2>3. PICK seg : seg = segment[at[r]]
    OBVIOUS
  <2>4. PICK w : w = window[r]
    OBVIOUS
  <2>5. PICK a : a = acc[r]
    OBVIOUS
  <2>6. w = Window(works[r].start, works[r].n, states[r].prompt)
    <3> HIDE DEF works, states, wanted
    <3> QED BY <2>4
  <2>7. w = Window(client[r].computed, n[r], StateOf(r).prompt)
    <3> HIDE DEF works, states, wanted, window
    <3> QED BY <1>5, <2>2, <2>6
  <2>8. a = Filled(SweptNow.progress[r], works[r].start, segment[at[r]], window[r], states[r].prompt)
    <3> HIDE DEF works, states, wanted, window, segment, at
    <3> QED BY <2>5
  <2>9. a = Filled(SweptNow.progress[r], client[r].computed, seg, w, StateOf(r).prompt)
    <3> HIDE DEF works, states, wanted, window, segment, at
    <3> QED BY <1>5, <2>2, <2>3, <2>4, <2>8
  <2>10. r \in done <=> w.completes
    <3> HIDE DEF works, states, wanted, window
    <3> QED BY <2>4
  <2>11. \A j \in 1..n[r] : seg[j] = <<client[r].life, client[r].computed + j>>
    <3> HIDE DEF works, states, wanted, window, segment, at
    <3> QED BY <1>8, <2>2, <2>3
  <2> HIDE DEF works, work, states, wanted, window, segment, at, acc, done, ids
  <2>12. PICK m : m = n[r]
    OBVIOUS
  <2>13. ChunkOf(r, m, seg, w, a)
    BY <2>2, <2>7, <2>9, <2>11, <2>12 DEF ChunkOf
  <2>14. m \in Nat \ {0} /\ r \in LpReqs /\ client[r].status # "absent" /\ Owed(r)
    BY <2>2, <2>12
  <2>15. ScoredBy(r, m, w, a)
    BY ONLY Scored, <2>13, <2>14, LpInv
  <2> QED BY <2>1, <2>2, <2>5, <2>10, <2>12, <2>15 DEF ScoredBy
<1>10. ~\E r \in wanted : Len(segment[at[r]]) # works[r].n
  <2> HIDE DEF segment, at, works, wanted
  <2> QED BY <1>5, <1>8
<1>11. /\ desynced' = desynced /\ leaving' = <<{}, {}>> /\ readmitsNew' = readmitsNew
       /\ tracker' =
            [active |-> active \ done,
             progress |-> [r \in LpReqs |->
                 IF r \in done THEN NoTensors
                 ELSE IF r \in wanted THEN <<acc[r]>>
                 ELSE SweptNow.progress[r]]]
       /\ runnerReq' = [r \in LpReqs |->
            IF r \in ids /\ W[r].final
            THEN [states[r] EXCEPT !.len = @ + 1, !.generated = @ + 1]
            ELSE states[r]]
       /\ awaiting' = GoneNow \ ids
       /\ delivered' = [r \in LpReqs |->
            IF r \in done THEN Append(delivered[r], acc[r])
            ELSE delivered[r]]
       /\ client' = [r \in LpReqs |->
            IF r \notin ids THEN client[r]
            ELSE [client[r] EXCEPT
                    !.status = "running",
                    !.computed = W[r].start + W[r].n,
                    !.outs = @ + (IF W[r].final THEN 1 ELSE 0)]]
  <2> HIDE DEF segment, at, works, wanted, acc, done, active, states, ids
  <2> QED BY <1>1, <1>5, <1>10, Zenon
<1>12. ASSUME NEW r \in LpReqs, r \notin ids
       PROVE  /\ client'[r] = client[r] /\ delivered'[r] = delivered[r]
              /\ runnerReq'[r] = KnownNow[r] /\ runnerReq'[r] \in StateType
              /\ r \in awaiting' <=> r \in GoneNow
              /\ tracker'.progress[r] = SweptNow.progress[r]
              /\ r \in tracker'.active <=> r \in SweptNow.active
  <2>1. r \notin registered /\ r \notin wanted /\ r \notin done
    BY <1>12
  <2>2. KnownNow[r] \in StateType
    BY Typed
  <2>3. r \in active <=> r \in SweptNow.active
    BY <2>1
  <2>4. states[r] = KnownNow[r]
    BY <1>12
  <2> HIDE DEF segment, at, works, wanted, acc, done, active, states, ids
  <2> QED BY <1>11, <1>12, <2>1, <2>2, <2>3, <2>4
<1>13. ASSUME NEW r \in ids
       PROVE  /\ client'[r].status = "running" /\ client'[r].life = client[r].life
              /\ client'[r].prompt = client[r].prompt /\ client'[r].asks = client[r].asks
              /\ client'[r].computed = W[r].start + W[r].n
              /\ client'[r].outs = client[r].outs + (IF W[r].final THEN 1 ELSE 0)
              /\ client'[r] \in [life : Nat, status : {"absent", "waiting", "running", "preempted"},
                             prompt : Nat, asks : BOOLEAN, computed : Nat, outs : Nat]
              /\ runnerReq'[r] \in StateType
              /\ runnerReq'[r].prompt = StateOf(r).prompt
              /\ runnerReq'[r].len = StateOf(r).len + (IF W[r].final THEN 1 ELSE 0)
              /\ ~W[r].final => runnerReq'[r].generated = StateOf(r).generated
              /\ r \notin awaiting' /\ r \in LpReqs
  <2> HIDE DEF segment, at, works, wanted, acc, done, active
  <2>1. r \in LpReqs /\ W[r].start + W[r].n \in Nat /\ states[r] = StateOf(r)
    <3>1. W[r].start \in Nat /\ W[r].n \in Nat
      BY <1>6
    <3>2. r \in LpReqs /\ states[r] = StateOf(r)
      BY <1>3
    <3> HIDE DEF states
    <3> QED BY <3>1, <3>2
  <2> HIDE DEF states, ids
  <2>2. PICK T : T = {"absent", "waiting", "running", "preempted"}
    OBVIOUS
  <2>3. PICK B : B = BOOLEAN
    OBVIOUS
  <2>4. PICK c : c = client[r]
    OBVIOUS
  <2>5. PICK st : st = "running"
    OBVIOUS
  <2>6. PICK o : o = c.outs + (IF W[r].final THEN 1 ELSE 0)
    OBVIOUS
  <2>7. PICK k : k = W[r].start + W[r].n
    OBVIOUS
  <2>8. st \in T /\ c \in [life : Nat, status : T, prompt : Nat, asks : B, computed : Nat, outs : Nat]
    BY <2>1, <2>2, <2>3, <2>4, <2>5, Typed
  <2>9. o \in Nat /\ k \in Nat
    BY <2>1, <2>6, <2>7, <2>8
  <2>10. client'[r] = [c EXCEPT !.status = st, !.computed = k, !.outs = o]
    BY <1>11, <2>1, <2>4, <2>5, <2>6, <2>7
  <2>11. /\ [c EXCEPT !.status = st, !.computed = k, !.outs = o]
               \in [life : Nat, status : T, prompt : Nat, asks : B, computed : Nat, outs : Nat]
    BY ONLY <2>8, <2>9
  <2>12. /\ client'[r].status = st /\ client'[r].life = c.life /\ client'[r].prompt = c.prompt
         /\ client'[r].asks = c.asks /\ client'[r].computed = k /\ client'[r].outs = o
    BY ONLY <2>8, <2>10
  <2>13. PICK s : s = StateOf(r)
    OBVIOUS
  <2>14. s \in StateType
    BY <1>3, <2>13, Admitted
  <2>15. runnerReq'[r] = IF W[r].final THEN [s EXCEPT !.len = @ + 1, !.generated = @ + 1] ELSE s
    BY <1>11, <2>1, <2>13
  <2>16. /\ runnerReq'[r] \in StateType /\ runnerReq'[r].prompt = s.prompt
         /\ runnerReq'[r].len = s.len + (IF W[r].final THEN 1 ELSE 0)
         /\ ~W[r].final => runnerReq'[r].generated = s.generated
    <3>1. CASE W[r].final
      <4>1. PICK l : l = s.len + 1
        OBVIOUS
      <4>2. PICK g : g = s.generated + 1
        OBVIOUS
      <4>3. l \in Nat /\ g \in Nat
        BY <2>14, <4>1, <4>2 DEF StateType
      <4>4. runnerReq'[r] = [s EXCEPT !.len = l, !.generated = g]
        BY <2>15, <3>1, <4>1, <4>2, Zenon
      <4>5. /\ [s EXCEPT !.len = l, !.generated = g] \in StateType
            /\ [s EXCEPT !.len = l, !.generated = g].prompt = s.prompt
            /\ [s EXCEPT !.len = l, !.generated = g].len = l
        BY ONLY <2>14, <4>3 DEF StateType
      <4> QED BY <3>1, <4>1, <4>4, <4>5
    <3>2. CASE ~W[r].final
      BY <2>14, <2>15, <3>2 DEF StateType
    <3> QED BY <3>1, <3>2
  <2>17. r \notin awaiting'
    BY <1>11
  <2> QED BY <2>1, <2>2, <2>3, <2>4, <2>5, <2>6, <2>7, <2>10, <2>11, <2>12, <2>13, <2>16, <2>17
<1>14. ASSUME NEW r \in ids, ~Owed(r)
       PROVE  /\ delivered'[r] = delivered[r]
              /\ r \notin tracker'.active /\ tracker'.progress[r] = NoTensors
  <2>1. r \in LpReqs /\ r \notin active
    BY <1>3, <1>14
  <2>2. r \notin wanted
    BY <1>6, <1>14
  <2>3. r \notin done
    BY <2>2
  <2>4. SweptNow.progress[r] = NoTensors
    BY <1>3, <1>14, Admitted
  <2> HIDE DEF segment, at, works, wanted, acc, done, active, states, ids
  <2> QED BY <1>11, <2>1, <2>2, <2>3, <2>4
<1>15. ASSUME NEW r \in ids, Owed(r), W[r].final
       PROVE  /\ delivered'[r] = <<Scores(client[r].life, client[r].prompt)>>
              /\ r \notin tracker'.active /\ tracker'.progress[r] = NoTensors
  <2>1. r \in LpReqs /\ delivered[r] = << >>
    <3>1. client[r].outs = 0
      BY <1>15 DEF Owed
    <3> QED BY <1>3, <3>1, Admitted
  <2>2. r \in wanted
    BY <1>6, <1>15
  <2> HIDE DEF segment, at, works, wanted, acc, done, active, states, ids
  <2>3. r \in done /\ acc[r] = Scores(client[r].life, client[r].prompt)
    BY <1>9, <1>15, <2>2
  <2>4. delivered'[r] = Append(delivered[r], acc[r])
    BY <1>11, <2>1, <2>3
  <2>5. \A x : Append(<< >>, x) = <<x>>
    OBVIOUS
  <2>6. delivered'[r] = <<Scores(client[r].life, client[r].prompt)>>
    BY <2>1, <2>3, <2>4, <2>5, Zenon
  <2>7. r \notin tracker'.active /\ tracker'.progress[r] = NoTensors
    BY <1>11, <2>1, <2>3
  <2> QED BY <2>6, <2>7
<1>16. ASSUME NEW r \in ids, Owed(r), ~W[r].final
       PROVE  /\ delivered'[r] = << >> /\ r \in tracker'.active
              /\ tracker'.progress[r] = <<acc[r]>>
              /\ DOMAIN acc[r] = 1..(client[r].prompt - 1)
              /\ \A p \in 1..(client[r].prompt - 1) :
                   p <= W[r].start + W[r].n => acc[r][p] = <<client[r].life, p>>
  <2>1. r \in LpReqs /\ delivered[r] = << >> /\ r \in active
    <3>1. client[r].outs = 0
      BY <1>16 DEF Owed
    <3> QED BY <1>3, <1>16, <3>1, Admitted
  <2>2. r \in wanted
    BY <1>6, <1>16
  <2> HIDE DEF segment, at, works, wanted, acc, done, active, states, ids
  <2>3. /\ r \notin done /\ DOMAIN acc[r] = 1..(client[r].prompt - 1)
        /\ \A p \in 1..(client[r].prompt - 1) :
             p <= W[r].start + W[r].n => acc[r][p] = <<client[r].life, p>>
    BY <1>9, <1>16, <2>2
  <2> QED BY <1>11, <2>1, <2>2, <2>3
<1>17. LpTypeOK' /\ ~desynced'
  <2>1. ~desynced
    BY DEF LpInv
  <2>2. client' \in [LpReqs -> [life : Nat, status : {"absent", "waiting", "running", "preempted"},
                                prompt : Nat, asks : BOOLEAN, computed : Nat, outs : Nat]]
    <3>1. DOMAIN client' = LpReqs /\ client' = [r \in LpReqs |-> client'[r]]
      <4> HIDE DEF ids
      <4> QED BY <1>11
    <3>2. \A r \in LpReqs : client'[r] \in [life : Nat, status : {"absent", "waiting", "running", "preempted"},
                                prompt : Nat, asks : BOOLEAN, computed : Nat, outs : Nat]
      <4> HIDE DEF ids
      <4> QED BY <1>12, <1>13, Typed
    <3> QED BY ONLY <3>1, <3>2
  <2>3. runnerReq' \in [LpReqs -> [len : Nat, prompt : Nat, generated : Nat]]
    <3>1. DOMAIN runnerReq' = LpReqs /\ runnerReq' = [r \in LpReqs |-> runnerReq'[r]]
      <4> HIDE DEF ids, states
      <4> QED BY <1>11
    <3>2. \A r \in LpReqs : runnerReq'[r] \in StateType
      <4> HIDE DEF ids, states
      <4> QED BY <1>12, <1>13
    <3> QED BY ONLY <3>1, <3>2 DEF StateType
  <2>4. /\ DOMAIN tracker' = {"active", "progress"} /\ DOMAIN tracker'.progress = LpReqs
        /\ DOMAIN delivered' = LpReqs
    <3> HIDE DEF segment, at, works, wanted, acc, done, active, states, ids
    <3> QED BY <1>11
  <2>5. readmitsNew' \in BOOLEAN /\ leaving' \in (SUBSET LpReqs) \X (SUBSET LpReqs)
    <3>1. readmitsNew \in BOOLEAN
      BY DEF LpInv, LpTypeOK
    <3> QED BY <1>11, <3>1
  <2> HIDE DEF segment, at, works, wanted, acc, done, active, states, ids
  <2> QED BY <1>11, <2>1, <2>2, <2>3, <2>4, <2>5 DEF LpTypeOK
<1> HIDE DEF segment, at, works, wanted, acc, done, active, states, ids, registered, out, work, window
<1>18. leaving'[1] = {} /\ leaving'[2] = {}
  <2>1. leaving' = <<{}, {}>>
    BY <1>11, Zenon
  <2> QED BY ONLY <2>1
<1>19. ASSUME NEW r \in LpReqs, r \notin ids PROVE Story(r)'
  <2>1. Story(r)
    BY DEF LpInv
  <2>2. /\ client'[r] = client[r] /\ delivered'[r] = delivered[r]
        /\ r \in awaiting' <=> r \in (awaiting \cup leaving[2]) \ leaving[1]
        /\ r \notin leaving[1] => /\ runnerReq'[r] = runnerReq[r]
                                  /\ tracker'.progress[r] = tracker.progress[r]
                                  /\ r \in tracker'.active <=> r \in tracker.active
        /\ r \in leaving[1] => tracker'.progress[r] = NoTensors /\ r \notin tracker'.active
    <3>1. /\ client'[r] = client[r] /\ delivered'[r] = delivered[r]
          /\ runnerReq'[r] = KnownNow[r]
          /\ r \in awaiting' <=> r \in (awaiting \cup leaving[2]) \ leaving[1]
          /\ tracker'.progress[r] = SweptNow.progress[r]
          /\ r \in tracker'.active <=> r \in SweptNow.active
      BY <1>12, <1>19 DEF GoneNow
    <3> QED BY <3>1, Typed
  <2>3. readmitsNew' = readmitsNew
    BY <1>11
  <2>4. client[r].status \in {"absent", "waiting", "running", "preempted"}
    BY Typed
  <2>5. CASE client[r].status \in {"absent", "waiting"}
    <3>1. Outside(r)
      BY <2>1, <2>5 DEF Story
    <3>2. Clean(r)'
      BY <2>2, <3>1 DEF Outside, Clean
    <3>3. Outside(r)'
      BY <1>18, <2>2, <3>1, <3>2 DEF Outside
    <3> QED BY <2>1, <2>2, <2>5, <3>3 DEF Story
  <2>6. CASE client[r].status \in {"running", "preempted"}
    <3>1. Inside(r)
      BY <2>1, <2>6 DEF Story
    <3>2. r \notin leaving[1]
      BY <3>1 DEF Inside
    <3>3. /\ Clean(r)' <=> Clean(r)
          /\ Begun(r)' <=> Begun(r)
      BY <2>2, <3>2 DEF Clean, Begun
    <3>4. Inside(r)'
      BY <1>18, <2>2, <2>3, <2>6, <3>1, <3>2, <3>3 DEF Inside
    <3> QED BY <2>1, <2>2, <2>6, <3>4 DEF Story
  <2> QED BY <2>4, <2>5, <2>6
<1>20. ASSUME NEW r \in ids PROVE Story(r)'
  <2>1. /\ StateOf(r) \in StateType
        /\ StateOf(r).prompt = client[r].prompt /\ client[r].prompt >= 1
        /\ StateOf(r).len = client[r].prompt + client[r].outs
        /\ StateOf(r).generated > 0 => client[r].outs > 0
        /\ client[r].outs > 0 =>
             delivered[r] = IF client[r].asks
                            THEN <<Scores(client[r].life, client[r].prompt)>> ELSE << >>
        /\ client[r].outs = 0 => delivered[r] = << >>
    BY <1>3, Admitted
  <2>2. client[r].prompt \in Nat /\ client[r].outs \in Nat /\ client[r].asks \in BOOLEAN
    BY <1>3, Typed
  <2>3. PICK o : o = client[r].outs + (IF W[r].final THEN 1 ELSE 0)
    OBVIOUS
  <2>4. o \in Nat /\ client'[r].outs = o /\ (o = 0 => client[r].outs = 0 /\ ~W[r].final)
        /\ (o > 0 => client[r].outs > 0 \/ W[r].final)
        /\ (client[r].outs > 0 => o > 0)
    BY <1>13, <2>2, <2>3
  <2>5. /\ client'[r].life = client[r].life /\ client'[r].prompt = client[r].prompt
        /\ client'[r].asks = client[r].asks /\ client'[r].status = "running"
    BY <1>13
  <2>6. /\ r \notin leaving'[1] /\ r \notin leaving'[2] /\ r \notin awaiting'
        /\ client'[r].prompt >= 1 /\ runnerReq'[r].prompt = client'[r].prompt
        /\ runnerReq'[r].len = client'[r].prompt + client'[r].outs
        /\ runnerReq'[r].generated > 0 => client'[r].outs > 0
    <3>1. runnerReq'[r].len = client[r].prompt + o
      <4>1. runnerReq'[r].len = StateOf(r).len + (IF W[r].final THEN 1 ELSE 0)
        BY <1>13
      <4> QED BY <2>1, <2>2, <2>3, <4>1
    <3>2. runnerReq'[r].generated > 0 => o > 0
      <4>1. CASE W[r].final
        BY <2>2, <2>3, <4>1
      <4>2. CASE ~W[r].final
        BY <1>13, <2>1, <2>4, <4>2
      <4> QED BY <4>1, <4>2
    <3>3. runnerReq'[r].prompt = client[r].prompt /\ r \notin awaiting'
      BY <1>13, <2>1
    <3> QED BY <1>18, <2>1, <2>4, <2>5, <3>1, <3>2, <3>3
  <2>7. ASSUME /\ o > 0 \/ ~client[r].asks => Clean(r)'
               /\ o > 0 => delivered'[r] = IF client[r].asks
                               THEN <<Scores(client[r].life, client[r].prompt)>> ELSE << >>
               /\ client[r].asks /\ o = 0 => Begun(r)' /\ r \in tracker'.active
         PROVE  Inside(r)'
    <3>1. /\ client'[r].outs > 0 \/ ~client'[r].asks => Clean(r)'
          /\ client'[r].outs > 0 =>
               delivered'[r] = IF client'[r].asks
                      THEN <<Scores(client'[r].life, client'[r].prompt)>> ELSE << >>
          /\ client'[r].asks /\ client'[r].outs = 0 => Begun(r)' /\ r \in tracker'.active
      BY <2>4, <2>5, <2>7
    <3> QED BY <2>5, <2>6, <3>1 DEF Inside
  <2>8. CASE ~Owed(r)
    <3>1. delivered'[r] = delivered[r] /\ Clean(r)'
      BY <1>14, <2>8 DEF Clean
    <3>2. ~client[r].asks => delivered[r] = << >>
      BY <2>1, <2>2
    <3>3. client[r].asks => client[r].outs > 0
      BY <2>2, <2>8 DEF Owed
    <3>4. Inside(r)'
      BY <2>1, <2>2, <2>4, <2>7, <3>1, <3>2, <3>3
    <3>5. o = 0 => delivered'[r] = << >>
      BY <2>1, <2>4, <3>1
    <3> QED BY <1>13, <2>4, <3>4, <3>5 DEF Story
  <2>9. CASE Owed(r) /\ W[r].final
    <3>1. delivered'[r] = <<Scores(client[r].life, client[r].prompt)>> /\ Clean(r)'
      BY <1>15, <2>9 DEF Clean
    <3>2. o > 0 /\ client[r].asks
      BY <2>2, <2>3, <2>9 DEF Owed
    <3>3. Inside(r)'
      BY <2>7, <3>1, <3>2
    <3> QED BY <1>13, <2>4, <3>2, <3>3 DEF Story
  <2>10. CASE Owed(r) /\ ~W[r].final
    <3>1. /\ delivered'[r] = << >> /\ r \in tracker'.active
          /\ tracker'.progress[r] = <<acc[r]>>
          /\ DOMAIN acc[r] = 1..(client[r].prompt - 1)
          /\ \A p \in 1..(client[r].prompt - 1) :
               p <= W[r].start + W[r].n => acc[r][p] = <<client[r].life, p>>
      BY <1>16, <2>10
    <3>2. PICK a : a = acc[r]
      OBVIOUS
    <3>3. tracker'.progress[r] = <<a>> /\ <<a>>[1] = a /\ <<a>> # << >>
      BY <3>1, <3>2
    <3>4. /\ client'[r].computed = W[r].start + W[r].n
          /\ client'[r].prompt = client[r].prompt /\ client'[r].life = client[r].life
          /\ client'[r].asks = client[r].asks /\ client'[r].status = "running"
      BY <1>13
    <3>5. Begun(r)'
      BY <3>1, <3>2, <3>3, <3>4 DEF Begun, NoTensors
    <3>6. o = 0
      BY <2>2, <2>3, <2>10 DEF Owed
    <3>7. client'[r].asks
      BY <2>10, <3>4 DEF Owed
    <3>8. Inside(r)'
      BY <2>5, <2>7, <3>1, <3>5, <3>6, <3>7
    <3> QED BY <2>4, <3>1, <3>4, <3>6, <3>8 DEF Story
  <2> QED BY <2>8, <2>9, <2>10
<1> QED
  BY <1>17, <1>19, <1>20 DEF LpInv

-----------------------------------------------------------------------------

(* The runner's and the scheduler's views stay in step: a request is       *)
(* registered exactly while it is owed its prompt logprobs, and its        *)
(* accumulator holds the rows of what it has computed.                     *)
THEOREM PromptLogprobsInvariance == LpSpec => []LpInv
<1>1. LpInit => LpInv
  BY ScoringStarts
<1>2. LpInv /\ [LpNext]_lpVars => LpInv'
  <2> SUFFICES ASSUME LpInv, [LpNext]_lpVars PROVE LpInv'
    OBVIOUS
  <2>1. CASE UNCHANGED lpVars
    <3>1. \A r \in LpReqs : Story(r)'
      BY <2>1 DEF LpInv, lpVars, Story, Outside, Inside, Clean, Begun
    <3> QED BY <2>1, <3>1 DEF LpInv, LpTypeOK, lpVars
  <2>2. CASE \E r \in LpReqs, len \in LpPrompts, asks \in BOOLEAN : Arrive(r, len, asks)
    BY <2>2, ArriveKeepsStories
  <2>3. CASE \E r \in LpReqs : End(r)
    BY <2>3, EndKeepsStories
  <2>4. CASE \E r \in LpReqs, drop \in BOOLEAN : Preempt(r, drop)
    BY <2>4, PreemptKeepsStories
  <2>5. CASE \E order \in Packings : \E n \in [Elems(order) -> 1..LpBudget] : RunnerStep(order, n)
    BY <2>5, RunnerKeepsStories
  <2> QED BY <2>1, <2>2, <2>3, <2>4, <2>5 DEF LpNext
<1> QED
  BY <1>1, <1>2, PTL DEF LpSpec

(* However its prefill is cut, preempted, dropped or readmitted, a request *)
(* is given its prompt logprobs once, with its first output, each row the  *)
(* one that predicted that token, and no step finds rows missing.          *)
THEOREM PromptsScoredOnce == LpSpec => []PromptScoredOnce
<1>1. LpInv => PromptScoredOnce
  <2> SUFFICES ASSUME LpInv, NEW r \in LpReqs
               PROVE  /\ client[r].outs > 0 =>
                           delivered[r] = IF client[r].asks
                                          THEN <<Scores(client[r].life, client[r].prompt)>>
                                          ELSE << >>
                      /\ client[r].outs = 0 => delivered[r] = << >>
    BY DEF PromptScoredOnce, LpInv
  <2>1. Story(r)
    BY DEF LpInv
  <2>2. client[r].status \in {"absent", "waiting", "running", "preempted"}
    BY Typed
  <2> QED BY <2>1, <2>2 DEF Story, Outside, Inside
<1> QED
  BY <1>1, PromptLogprobsInvariance, PTL

=============================================================================
