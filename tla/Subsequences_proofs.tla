------------------------ MODULE Subsequences_proofs ------------------------
(***************************************************************************)
(* What filtering, appending and adding up do to a sequence of any length. *)
(* Induction is over the set of the sequences for which a fact holds.      *)
(***************************************************************************)
EXTENDS Subsequences, WellFoundedInduction, TLAPS

Less == {p \in Nat \X Nat : p[1] < p[2]}

LEMMA LessWellFounded == IsWellFoundedOn(Less, Nat)
  BY NatLessThanWellFounded DEF OpToRel, Less

(* A set of naturals that is not empty has a least element. *)
LEMMA LeastNat ==
    ASSUME NEW T, T \subseteq Nat, T # {}
    PROVE  \E n \in T : \A m \in T : n <= m
  <1>1. \E n \in T : \A m \in T : <<m, n>> \notin Less
    BY LessWellFounded, WFMin
  <1>2. \A n, m \in Nat : <<m, n>> \notin Less => n <= m
    BY DEF Less
  <1> QED
    BY <1>1, <1>2

(* A set with zero and the successor of each of its naturals has them all. *)
LEMMA NatSetInduction ==
    ASSUME NEW T, 0 \in T, \A n \in Nat : n \in T => n + 1 \in T
    PROVE  \A n \in Nat : n \in T
  <1> DEFINE U == {n \in Nat : n \notin T}
  <1>1. CASE U = {}
    BY <1>1
  <1>2. ASSUME U # {} PROVE FALSE
    <2>1. PICK n \in U : \A m \in U : n <= m
      BY <1>2, LeastNat
    <2>2. n # 0 /\ n - 1 \in Nat /\ n - 1 \notin U
      BY <2>1
    <2> QED
      BY <2>1, <2>2
  <1> QED
    BY <1>1, <1>2

(* A set with the empty sequence and every extension of its sequences has  *)
(* all of them.                                                            *)
LEMMA SeqSetInduction ==
    ASSUME NEW S, NEW T, <<>> \in T,
           \A s \in Seq(S), e \in S : s \in T => Append(s, e) \in T
    PROVE  \A s \in Seq(S) : s \in T
  <1> DEFINE N == {n \in Nat : \A s \in Seq(S) : Len(s) = n => s \in T}
  <1>1. 0 \in N
    OBVIOUS
  <1>2. ASSUME NEW n \in Nat, n \in N PROVE n + 1 \in N
    <2>1. ASSUME NEW s \in Seq(S), Len(s) = n + 1 PROVE s \in T
      <3> DEFINE f == SubSeq(s, 1, n)
      <3>1. f \in Seq(S) /\ Len(f) = n
        BY <2>1
      <3>2. s[n + 1] \in S /\ s = Append(f, s[n + 1])
        BY <2>1
      <3> HIDE DEF f
      <3> QED
        BY <1>2, <3>1, <3>2
    <2> QED
      BY <2>1
  <1> HIDE DEF N
  <1>3. \A n \in Nat : n \in N
    BY <1>1, <1>2, NatSetInduction
  <1> QED
    BY <1>3 DEF N

-----------------------------------------------------------------------------
(* Sums. *)

IsSum(sum, nums) ==
    sum = [i \in 0..Len(nums) |-> IF i = 0 THEN 0 ELSE sum[i - 1] + nums[i]]

(* The running sum exists and SeqSum is its last value. *)
LEMMA SumExists ==
    ASSUME NEW nums \in Seq(Int)
    PROVE  \E sum : IsSum(sum, nums) /\ sum[Len(nums)] = SeqSum(nums)
  <1> DEFINE T == {k \in Nat : \E g : g = [i \in 0..k |-> IF i = 0 THEN 0 ELSE g[i - 1] + nums[i]]}
  <1>1. 0 \in T
    <2> DEFINE g == [i \in 0..0 |-> 0]
    <2>1. g = [i \in 0..0 |-> IF i = 0 THEN 0 ELSE g[i - 1] + nums[i]]
      OBVIOUS
    <2> QED BY <2>1
  <1>2. ASSUME NEW k \in Nat, k \in T PROVE k + 1 \in T
    <2>1. PICK g : g = [i \in 0..k |-> IF i = 0 THEN 0 ELSE g[i - 1] + nums[i]]
      BY <1>2
    <2> DEFINE h == [i \in 0..(k + 1) |-> IF i = k + 1 THEN g[k] + nums[k + 1] ELSE g[i]]
    <2>2. \A i \in 0..(k + 1) : h[i] = IF i = 0 THEN 0 ELSE h[i - 1] + nums[i]
      <3> TAKE i \in 0..(k + 1)
      <3>1. CASE i = k + 1
        BY <3>1
      <3>2. CASE i # k + 1
        <4>1. i \in 0..k /\ (i # 0 => i - 1 \in 0..k)
          BY <3>2
        <4>2. h[i] = g[i] /\ (i # 0 => h[i - 1] = g[i - 1])
          BY <4>1
        <4>3. g[i] = IF i = 0 THEN 0 ELSE g[i - 1] + nums[i]
          BY <4>1, <2>1, Zenon
        <4> QED BY <4>2, <4>3
      <3> QED BY <3>1, <3>2
    <2>3. h = [i \in 0..(k + 1) |-> IF i = 0 THEN 0 ELSE h[i - 1] + nums[i]]
      BY <2>2
    <2>4. \E f : f = [i \in 0..(k + 1) |-> IF i = 0 THEN 0 ELSE f[i - 1] + nums[i]]
      <3> HIDE DEF h
      <3> QED BY <2>3, Zenon
    <2>5. k + 1 \in Nat
      OBVIOUS
    <2> QED BY <2>4, <2>5, Zenon
  <1> HIDE DEF T
  <1>3. Len(nums) \in T
    BY <1>1, <1>2, NatSetInduction
  <1>4. \E g : IsSum(g, nums)
    BY <1>3 DEF T, IsSum
  <1> DEFINE S == CHOOSE sum : sum = [i \in 0..Len(nums) |-> IF i = 0 THEN 0 ELSE sum[i - 1] + nums[i]]
  <1>5. IsSum(S, nums)
    BY <1>4 DEF IsSum
  <1>6. SeqSum(nums) = S[Len(nums)]
    BY DEF SeqSum
  <1> QED
    BY <1>5, <1>6

(* Two running sums agree as far as their sequences do. *)
LEMMA SumPrefix ==
    ASSUME NEW s \in Seq(Int), NEW t \in Seq(Int), NEW f, NEW g,
           IsSum(f, s), IsSum(g, t), Len(s) <= Len(t),
           \A i \in 1..Len(s) : s[i] = t[i]
    PROVE  \A i \in 0..Len(s) : f[i] = g[i]
  <1> DEFINE T == {k \in Nat : k \in 0..Len(s) => f[k] = g[k]}
  <1>1. /\ \A i \in 0..Len(s) : f[i] = IF i = 0 THEN 0 ELSE f[i - 1] + s[i]
        /\ \A i \in 0..Len(t) : g[i] = IF i = 0 THEN 0 ELSE g[i - 1] + t[i]
    <2>1. f = [i \in 0..Len(s) |-> IF i = 0 THEN 0 ELSE f[i - 1] + s[i]]
      BY DEF IsSum
    <2>2. g = [i \in 0..Len(t) |-> IF i = 0 THEN 0 ELSE g[i - 1] + t[i]]
      BY DEF IsSum
    <2>3. \A i \in 0..Len(s) : f[i] = IF i = 0 THEN 0 ELSE f[i - 1] + s[i]
      BY <2>1, Zenon
    <2>4. \A i \in 0..Len(t) : g[i] = IF i = 0 THEN 0 ELSE g[i - 1] + t[i]
      BY <2>2, Zenon
    <2> QED BY <2>3, <2>4
  <1>2. 0 \in T
    BY <1>1
  <1>3. ASSUME NEW k \in Nat, k \in T PROVE k + 1 \in T
    <2>1. SUFFICES ASSUME k + 1 \in 0..Len(s) PROVE f[k + 1] = g[k + 1]
      OBVIOUS
    <2>2. /\ k + 1 \in 0..Len(s) /\ k + 1 \in 0..Len(t) /\ k + 1 # 0
          /\ (k + 1) - 1 = k /\ s[k + 1] = t[k + 1] /\ f[k] = g[k]
      BY <1>3, <2>1
    <2>3. f[k + 1] = f[k] + s[k + 1] /\ g[k + 1] = g[k] + t[k + 1]
      BY <1>1, <2>2
    <2> QED
      BY <2>2, <2>3
  <1> HIDE DEF T
  <1>4. \A n \in Nat : n \in T
    BY <1>2, <1>3, NatSetInduction
  <1> QED
    BY <1>4 DEF T

(* SeqSum adds what is appended to what is there. *)
LEMMA SumEmpty == SeqSum(<<>>) = 0
  <1>1. SUFFICES ASSUME NEW nums \in Seq(Int), Len(nums) = 0 PROVE SeqSum(nums) = 0
    <2>1. <<>> \in Seq(Int) /\ Len(<<>>) = 0
      OBVIOUS
    <2> QED BY <2>1, <1>1
  <1>2. PICK sum : IsSum(sum, nums) /\ sum[Len(nums)] = SeqSum(nums)
    BY SumExists
  <1>3. sum = [i \in 0..Len(nums) |-> IF i = 0 THEN 0 ELSE sum[i - 1] + nums[i]]
    BY <1>2 DEF IsSum
  <1>4. 0 \in 0..Len(nums)
    OBVIOUS
  <1>5. sum[0] = IF 0 = 0 THEN 0 ELSE sum[0 - 1] + nums[0]
    BY <1>3, <1>4, Zenon
  <1> QED
    BY <1>1, <1>2, <1>5

LEMMA SumAppend ==
    ASSUME NEW s \in Seq(Int), NEW n \in Int
    PROVE  SeqSum(Append(s, n)) = SeqSum(s) + n
  <1> DEFINE t == Append(s, n)
  <1>1. /\ t \in Seq(Int) /\ Len(t) = Len(s) + 1 /\ t[Len(s) + 1] = n
        /\ \A i \in 1..Len(s) : s[i] = t[i]
    OBVIOUS
  <1> HIDE DEF t
  <1>2. PICK f : IsSum(f, s) /\ f[Len(s)] = SeqSum(s)
    BY SumExists
  <1>3. PICK g : IsSum(g, t) /\ g[Len(t)] = SeqSum(t)
    BY <1>1, SumExists
  <1>4. f[Len(s)] = g[Len(s)]
    BY <1>1, <1>2, <1>3, SumPrefix
  <1>5. g = [i \in 0..Len(t) |-> IF i = 0 THEN 0 ELSE g[i - 1] + t[i]]
    BY <1>3 DEF IsSum
  <1>6. Len(t) \in 0..Len(t) /\ Len(t) # 0 /\ Len(t) - 1 = Len(s)
    BY <1>1
  <1>7. g[Len(t)] = IF Len(t) = 0 THEN 0 ELSE g[Len(t) - 1] + t[Len(t)]
    BY <1>5, <1>6, Zenon
  <1> QED
    BY <1>1, <1>2, <1>3, <1>4, <1>6, <1>7 DEF t

LEMMA SumType ==
    ASSUME NEW s \in Seq(Nat)
    PROVE  SeqSum(s) \in Nat
  <1> DEFINE T == {q \in Seq(Nat) : SeqSum(q) \in Nat}
  <1>1. <<>> \in T
    BY SumEmpty
  <1>2. ASSUME NEW q \in Seq(Nat), NEW n \in Nat, q \in T PROVE Append(q, n) \in T
    <2>1. q \in Seq(Int) /\ Append(q, n) \in Seq(Nat)
      OBVIOUS
    <2>2. SeqSum(Append(q, n)) = SeqSum(q) + n
      BY <2>1, SumAppend
    <2>3. SeqSum(q) \in Nat
      BY <1>2
    <2> QED
      BY <2>1, <2>2, <2>3
  <1> HIDE DEF T
  <1>3. \A q \in Seq(Nat) : q \in T
    BY <1>1, <1>2, SeqSetInduction
  <1> QED
    BY <1>3 DEF T

-----------------------------------------------------------------------------
(* Parts. *)

IsPart(part, seq, I) ==
    part = [i \in 0..Len(seq) |->
              IF i = 0 THEN <<>>
              ELSE IF i \in I THEN Append(part[i - 1], seq[i]) ELSE part[i - 1]]

(* What is kept of the first elements exists, for every number of them. *)
LEMMA PartExists ==
    ASSUME NEW S, NEW seq \in Seq(S), NEW I
    PROVE  \E part : IsPart(part, seq, I) /\ part[Len(seq)] = Part(seq, I)
  <1> DEFINE Next(p, i) == IF i = 0 THEN <<>>
                           ELSE IF i \in I THEN Append(p[i - 1], seq[i]) ELSE p[i - 1]
             T == {k \in Nat : \E g : g = [i \in 0..k |-> Next(g, i)]}
  <1>1. 0 \in T
    <2> DEFINE g == [i \in 0..0 |-> <<>>]
    <2>1. g = [i \in 0..0 |-> Next(g, i)]
      OBVIOUS
    <2> QED BY <2>1
  <1>2. ASSUME NEW k \in Nat, k \in T PROVE k + 1 \in T
    <2>1. PICK g : g = [i \in 0..k |-> Next(g, i)]
      BY <1>2
    <2> DEFINE h == [i \in 0..(k + 1) |-> IF i = k + 1 THEN Next(g, k + 1) ELSE g[i]]
    <2>2. \A i \in 0..(k + 1) : h[i] = Next(h, i)
      <3> TAKE i \in 0..(k + 1)
      <3>1. CASE i = k + 1
        <4>1. h[i] = Next(g, k + 1) /\ h[i - 1] = g[i - 1] /\ i # 0
          BY <3>1
        <4> QED BY <3>1, <4>1
      <3>2. CASE i # k + 1
        <4>1. i \in 0..k /\ (i # 0 => i - 1 \in 0..k)
          BY <3>2
        <4>2. h[i] = g[i] /\ (i # 0 => h[i - 1] = g[i - 1])
          BY <4>1
        <4>3. g[i] = Next(g, i)
          BY <4>1, <2>1, Zenon
        <4> QED BY <4>2, <4>3
      <3> QED BY <3>1, <3>2
    <2>3. h = [i \in 0..(k + 1) |-> Next(h, i)]
      BY <2>2
    <2>4. \E g2 : g2 = [i \in 0..(k + 1) |-> Next(g2, i)]
      <3> HIDE DEF h
      <3> QED BY <2>3, Zenon
    <2>5. k + 1 \in Nat
      OBVIOUS
    <2> QED BY <2>4, <2>5, Zenon
  <1> HIDE DEF T
  <1>3. Len(seq) \in T
    BY <1>1, <1>2, NatSetInduction
  <1>4. \E g : IsPart(g, seq, I)
    BY <1>3 DEF T, IsPart
  <1> DEFINE P == CHOOSE part : part = [i \in 0..Len(seq) |->
                                          IF i = 0 THEN <<>>
                                          ELSE IF i \in I THEN Append(part[i - 1], seq[i])
                                               ELSE part[i - 1]]
  <1>5. IsPart(P, seq, I)
    BY <1>4 DEF IsPart
  <1>6. Part(seq, I) = P[Len(seq)]
    BY DEF Part
  <1> QED
    BY <1>5, <1>6

(* Two such tables agree as far as their sequences do. *)
LEMMA PartPrefix ==
    ASSUME NEW S, NEW s \in Seq(S), NEW t \in Seq(S), NEW I, NEW f, NEW g,
           IsPart(f, s, I), IsPart(g, t, I), Len(s) <= Len(t),
           \A i \in 1..Len(s) : s[i] = t[i]
    PROVE  \A i \in 0..Len(s) : f[i] = g[i]
  <1> DEFINE T == {k \in Nat : k \in 0..Len(s) => f[k] = g[k]}
  <1>1. \A i \in 0..Len(s) :
          f[i] = IF i = 0 THEN <<>> ELSE IF i \in I THEN Append(f[i - 1], s[i]) ELSE f[i - 1]
    <2>1. f = [i \in 0..Len(s) |-> IF i = 0 THEN <<>>
                 ELSE IF i \in I THEN Append(f[i - 1], s[i]) ELSE f[i - 1]]
      BY DEF IsPart
    <2> QED BY <2>1, Zenon
  <1>2. \A i \in 0..Len(t) :
          g[i] = IF i = 0 THEN <<>> ELSE IF i \in I THEN Append(g[i - 1], t[i]) ELSE g[i - 1]
    <2>1. g = [i \in 0..Len(t) |-> IF i = 0 THEN <<>>
                 ELSE IF i \in I THEN Append(g[i - 1], t[i]) ELSE g[i - 1]]
      BY DEF IsPart
    <2> QED BY <2>1, Zenon
  <1>3. 0 \in T
    BY <1>1, <1>2
  <1>4. ASSUME NEW k \in Nat, k \in T PROVE k + 1 \in T
    <2>1. SUFFICES ASSUME k + 1 \in 0..Len(s) PROVE f[k + 1] = g[k + 1]
      OBVIOUS
    <2>2. /\ k + 1 \in 0..Len(s) /\ k + 1 \in 0..Len(t) /\ k + 1 # 0
          /\ (k + 1) - 1 = k /\ s[k + 1] = t[k + 1] /\ f[k] = g[k]
      BY <1>4, <2>1
    <2>3. f[k + 1] = IF k + 1 \in I THEN Append(f[k], s[k + 1]) ELSE f[k]
      BY <1>1, <2>2
    <2>4. g[k + 1] = IF k + 1 \in I THEN Append(g[k], t[k + 1]) ELSE g[k]
      BY <1>2, <2>2
    <2> QED
      BY <2>2, <2>3, <2>4
  <1> HIDE DEF T
  <1>5. \A n \in Nat : n \in T
    BY <1>3, <1>4, NatSetInduction
  <1> QED
    BY <1>5 DEF T

(* Part filters what is appended and leaves the rest alone. *)
LEMMA PartEmpty ==
    ASSUME NEW I
    PROVE  Part(<<>>, I) = <<>>
  <1>0. <<>> \in Seq({})
    OBVIOUS
  <1>1. PICK p : IsPart(p, <<>>, I) /\ p[Len(<<>>)] = Part(<<>>, I)
    BY <1>0, PartExists
  <1>2. p = [i \in 0..Len(<<>>) |-> IF i = 0 THEN <<>>
               ELSE IF i \in I THEN Append(p[i - 1], <<>>[i]) ELSE p[i - 1]]
    BY <1>1 DEF IsPart
  <1>3. 0 \in 0..Len(<<>>) /\ Len(<<>>) = 0
    OBVIOUS
  <1>4. p[0] = IF 0 = 0 THEN <<>>
               ELSE IF 0 \in I THEN Append(p[0 - 1], <<>>[0]) ELSE p[0 - 1]
    BY <1>2, <1>3, Zenon
  <1> QED
    BY <1>1, <1>3, <1>4

LEMMA PartAppend ==
    ASSUME NEW S, NEW s \in Seq(S), NEW e \in S, NEW I
    PROVE  Part(Append(s, e), I) = IF Len(s) + 1 \in I THEN Append(Part(s, I), e)
                                   ELSE Part(s, I)
  <1> DEFINE t == Append(s, e)
  <1>1. /\ t \in Seq(S) /\ Len(t) = Len(s) + 1 /\ t[Len(s) + 1] = e
        /\ \A i \in 1..Len(s) : s[i] = t[i]
    OBVIOUS
  <1> HIDE DEF t
  <1>2. PICK f : IsPart(f, s, I) /\ f[Len(s)] = Part(s, I)
    BY PartExists
  <1>3. PICK g : IsPart(g, t, I) /\ g[Len(t)] = Part(t, I)
    BY <1>1, PartExists
  <1>4. f[Len(s)] = g[Len(s)]
    <2>1. \A i \in 0..Len(s) : f[i] = g[i]
      BY <1>1, <1>2, <1>3, PartPrefix
    <2> QED BY <2>1
  <1>5. g = [i \in 0..Len(t) |-> IF i = 0 THEN <<>>
               ELSE IF i \in I THEN Append(g[i - 1], t[i]) ELSE g[i - 1]]
    BY <1>3 DEF IsPart
  <1>6. Len(t) \in 0..Len(t) /\ Len(t) # 0 /\ Len(t) - 1 = Len(s)
    BY <1>1
  <1>7. g[Len(t)] = IF Len(t) = 0 THEN <<>>
                    ELSE IF Len(t) \in I THEN Append(g[Len(t) - 1], t[Len(t)]) ELSE g[Len(t) - 1]
    BY <1>5, <1>6, Zenon
  <1> QED
    BY <1>1, <1>2, <1>3, <1>4, <1>6, <1>7 DEF t

(* The positions that a part keeps: in I, in order, and all of them. *)
Embeds(h, part, seq, I) ==
    /\ h \in [DOMAIN part -> DOMAIN seq]
    /\ \A k \in DOMAIN part : h[k] \in I /\ part[k] = seq[h[k]]
    /\ \A k, l \in DOMAIN part : k < l => h[k] < h[l]
    /\ \A i \in DOMAIN seq : i \in I => \E k \in DOMAIN part : h[k] = i

(* The part that leaves nothing out is the whole. *)
LEMMA PartAll ==
    ASSUME NEW S, NEW seq \in Seq(S)
    PROVE  Part(seq, DOMAIN seq) = seq
  <1> DEFINE T == {q \in Seq(S) : \A I : DOMAIN q \subseteq I => Part(q, I) = q}
  <1>1. <<>> \in T
    <2>1. <<>> \in Seq(S) /\ \A I : Part(<<>>, I) = <<>>
      BY PartEmpty
    <2> QED BY <2>1
  <1>2. ASSUME NEW q \in Seq(S), NEW e \in S, q \in T PROVE Append(q, e) \in T
    <2>1. ASSUME NEW I, DOMAIN Append(q, e) \subseteq I PROVE Part(Append(q, e), I) = Append(q, e)
      <3>1. DOMAIN q \subseteq I /\ Len(q) + 1 \in I
        BY <2>1
      <3>2. Part(q, I) = q
        BY <1>2, <3>1
      <3> QED BY <3>1, <3>2, PartAppend
    <2>2. Append(q, e) \in Seq(S)
      OBVIOUS
    <2> QED BY <2>1, <2>2
  <1> HIDE DEF T
  <1>3. seq \in T
    BY <1>1, <1>2, SeqSetInduction
  <1> QED
    BY <1>3 DEF T

(* A part is a sequence of elements at positions of I, in their order. *)
LEMMA PartEmbeds ==
    ASSUME NEW S, NEW seq \in Seq(S), NEW I
    PROVE  Part(seq, I) \in Seq(S) /\ \E h : Embeds(h, Part(seq, I), seq, I)
  <1> DEFINE T == {q \in Seq(S) : Part(q, I) \in Seq(S) /\ \E h : Embeds(h, Part(q, I), q, I)}
  <1>1. <<>> \in T
    <2>1. Part(<<>>, I) = <<>> /\ <<>> \in Seq(S)
      BY PartEmpty
    <2>2. Embeds(<<>>, <<>>, <<>>, I)
      BY DEF Embeds
    <2> QED BY <2>1, <2>2
  <1>2. ASSUME NEW q \in Seq(S), NEW e \in S, q \in T PROVE Append(q, e) \in T
    <2> DEFINE t == Append(q, e)
               p == Part(q, I)
               n == Len(q) + 1
    <2>1. p \in Seq(S) /\ \E h : Embeds(h, p, q, I)
      BY <1>2
    <2>2. PICK h : Embeds(h, p, q, I)
      BY <2>1
    <2>3. Part(t, I) = IF n \in I THEN Append(p, e) ELSE p
      BY PartAppend
    <2>4. /\ t \in Seq(S) /\ Len(t) = n /\ t[n] = e /\ DOMAIN t = 1..n
          /\ \A i \in DOMAIN q : t[i] = q[i] /\ i \in DOMAIN t /\ i < n
          /\ \A i \in DOMAIN t : i = n \/ i \in DOMAIN q
      OBVIOUS
    <2>5. CASE n \notin I
      <3>1. Embeds(h, p, t, I)
        <4> HIDE DEF t, p
        <4> QED BY <2>2, <2>4, <2>5 DEF Embeds
      <3> QED BY <2>1, <2>3, <2>4, <2>5, <3>1
    <2>6. CASE n \in I
      <3> DEFINE r == Append(p, e)
                 g == [k \in DOMAIN r |-> IF k \in DOMAIN p THEN h[k] ELSE n]
      <3>1. /\ r \in Seq(S) /\ Len(r) = Len(p) + 1 /\ r[Len(p) + 1] = e
            /\ \A k \in DOMAIN p : r[k] = p[k] /\ k \in DOMAIN r
            /\ \A k \in DOMAIN r : k = Len(p) + 1 \/ k \in DOMAIN p
            /\ DOMAIN r = 1..(Len(p) + 1) /\ DOMAIN p = 1..Len(p)
        BY <2>1
      <3>2. Embeds(g, r, t, I)
        <4> HIDE DEF t, p, r
        <4>1. g \in [DOMAIN r -> DOMAIN t]
          BY <2>2, <2>4, <3>1 DEF Embeds
        <4>2. \A k \in DOMAIN r : g[k] \in I /\ r[k] = t[g[k]]
          BY <2>2, <2>4, <2>6, <3>1 DEF Embeds
        <4>3. \A k, l \in DOMAIN r : k < l => g[k] < g[l]
          BY <2>2, <2>4, <3>1 DEF Embeds
        <4>4. \A i \in DOMAIN t : i \in I => \E k \in DOMAIN r : g[k] = i
          <5>1. ASSUME NEW i \in DOMAIN q, i \in I PROVE \E k \in DOMAIN r : g[k] = i
            <6>1. PICK k \in DOMAIN p : h[k] = i
              BY <2>2, <5>1 DEF Embeds
            <6>2. k \in DOMAIN r /\ g[k] = i
              BY <3>1, <6>1
            <6> QED BY <6>2
          <5>2. Len(p) + 1 \in DOMAIN r /\ g[Len(p) + 1] = n
            <6>1. Len(p) \in Nat
              BY <2>1
            <6> QED BY <3>1, <6>1
          <5> QED BY <2>4, <5>1, <5>2
        <4> QED BY <4>1, <4>2, <4>3, <4>4 DEF Embeds
      <3>3. Part(t, I) = r
        BY <2>3, <2>6
      <3> HIDE DEF r, g, t
      <3>4. t \in Seq(S)
        BY <2>4
      <3> QED BY <3>1, <3>2, <3>3, <3>4 DEF t
    <2> QED BY <2>5, <2>6
  <1> HIDE DEF T
  <1>3. \A q \in Seq(S) : q \in T
    BY <1>1, <1>2, SeqSetInduction
  <1> QED
    BY <1>3 DEF T

(* It has the elements at those positions, and no element twice if the     *)
(* sequence has none.                                                      *)
LEMMA PartElems ==
    ASSUME NEW S, NEW seq \in Seq(S), NEW I
    PROVE  /\ Part(seq, I) \in Seq(S)
           /\ \A x : x \in Elems(Part(seq, I)) <=> \E i \in DOMAIN seq : i \in I /\ x = seq[i]
           /\ Distinct(seq) => Distinct(Part(seq, I))
  <1>1. Part(seq, I) \in Seq(S)
    BY PartEmbeds
  <1> DEFINE p == Part(seq, I)
  <1>2. PICK h : Embeds(h, p, seq, I)
    BY PartEmbeds
  <1> HIDE DEF p
  <1>3. \A x : x \in Elems(p) <=> \E i \in DOMAIN seq : i \in I /\ x = seq[i]
    BY <1>2 DEF Embeds, Elems
  <1>4. ASSUME Distinct(seq), NEW k \in DOMAIN p, NEW l \in DOMAIN p, p[k] = p[l] PROVE k = l
    <2>1. h[k] = h[l]
      BY <1>2, <1>4 DEF Embeds, Distinct
    <2>2. p \in Seq(S) /\ DOMAIN p \subseteq Nat /\ DOMAIN seq \subseteq Nat
      BY <1>1 DEF p
    <2>3. ~(k < l) /\ ~(l < k)
      BY <2>1, <2>2, <1>2 DEF Embeds
    <2> QED BY <2>2, <2>3
  <1> QED
    BY <1>1, <1>3, <1>4 DEF p, Distinct

LEMMA WithoutElems ==
    ASSUME NEW S, NEW seq \in Seq(S), NEW X
    PROVE  /\ Without(seq, X) \in Seq(S)
           /\ Elems(Without(seq, X)) = Elems(seq) \ X
           /\ Distinct(seq) => Distinct(Without(seq, X))
  <1> DEFINE I == {i \in DOMAIN seq : seq[i] \notin X}
             p == Part(seq, I)
  <1>1. /\ p \in Seq(S)
        /\ \A x : x \in Elems(p) <=> \E i \in DOMAIN seq : i \in I /\ x = seq[i]
        /\ Distinct(seq) => Distinct(p)
    BY PartElems
  <1>2. Without(seq, X) = p
    BY DEF Without
  <1>3. \A x : (\E i \in DOMAIN seq : i \in I /\ x = seq[i]) <=> x \in Elems(seq) \ X
    BY DEF Elems
  <1> HIDE DEF p, I
  <1>4. Elems(p) = Elems(seq) \ X
    BY <1>1, <1>3
  <1> QED
    BY <1>1, <1>2, <1>4

LEMMA AppendElems ==
    ASSUME NEW S, NEW seq \in Seq(S), NEW e \in S
    PROVE  /\ Append(seq, e) \in Seq(S)
           /\ Elems(Append(seq, e)) = Elems(seq) \cup {e}
           /\ Distinct(seq) /\ e \notin Elems(seq) => Distinct(Append(seq, e))
  <1> DEFINE t == Append(seq, e)
  <1>1. /\ t \in Seq(S) /\ DOMAIN t = 1..(Len(seq) + 1) /\ DOMAIN seq = 1..Len(seq)
        /\ t[Len(seq) + 1] = e /\ Len(seq) \in Nat
        /\ \A i \in DOMAIN seq : i \in DOMAIN t /\ t[i] = seq[i]
        /\ \A i \in DOMAIN t : i = Len(seq) + 1 \/ i \in DOMAIN seq
        /\ Len(seq) + 1 \in DOMAIN t
    OBVIOUS
  <1> HIDE DEF t
  <1>2. Elems(t) = Elems(seq) \cup {e}
    BY <1>1 DEF Elems
  <1>3. Distinct(seq) /\ e \notin Elems(seq) => Distinct(t)
    BY <1>1 DEF Elems, Distinct
  <1> QED
    BY <1>1, <1>2, <1>3 DEF t

LEMMA ConcatElems ==
    ASSUME NEW S, NEW s \in Seq(S), NEW t \in Seq(S)
    PROVE  /\ s \o t \in Seq(S)
           /\ Elems(s \o t) = Elems(s) \cup Elems(t)
           /\ Distinct(s) /\ Distinct(t) /\ Elems(s) \cap Elems(t) = {} => Distinct(s \o t)
  <1> DEFINE u == s \o t
  <1>1. /\ u \in Seq(S) /\ Len(u) = Len(s) + Len(t)
        /\ \A i \in DOMAIN s : i \in DOMAIN u /\ u[i] = s[i]
        /\ \A i \in DOMAIN t : Len(s) + i \in DOMAIN u /\ u[Len(s) + i] = t[i]
        /\ \A i \in DOMAIN u : i \notin DOMAIN s => i - Len(s) \in DOMAIN t /\ u[i] = t[i - Len(s)]
        /\ DOMAIN s \subseteq Nat /\ DOMAIN t \subseteq Nat /\ DOMAIN u \subseteq Nat
        /\ Len(s) \in Nat
    OBVIOUS
  <1> HIDE DEF u
  <1>2. Elems(u) = Elems(s) \cup Elems(t)
    <2>1. \A x \in Elems(u) : x \in Elems(s) \cup Elems(t)
      BY <1>1 DEF Elems
    <2>2. \A x \in Elems(s) \cup Elems(t) : x \in Elems(u)
      BY <1>1 DEF Elems
    <2> QED BY <2>1, <2>2
  <1>3. ASSUME Distinct(s), Distinct(t), Elems(s) \cap Elems(t) = {},
               NEW i \in DOMAIN u, NEW j \in DOMAIN u, u[i] = u[j]
        PROVE  i = j
    <2>1. CASE i \in DOMAIN s /\ j \in DOMAIN s
      BY <1>1, <1>3, <2>1 DEF Distinct
    <2>2. CASE i \notin DOMAIN s /\ j \notin DOMAIN s
      <3>1. i - Len(s) = j - Len(s)
        BY <1>1, <1>3, <2>2 DEF Distinct
      <3> QED BY <3>1, <1>1
    <2>3. \A k, l \in DOMAIN u : k \in DOMAIN s /\ l \notin DOMAIN s => u[k] # u[l]
      <3> TAKE k \in DOMAIN u, l \in DOMAIN u
      <3> HAVE k \in DOMAIN s /\ l \notin DOMAIN s
      <3>1. u[k] \in Elems(s)
        BY <1>1 DEF Elems
      <3>2. u[l] \in Elems(t)
        BY <1>1 DEF Elems
      <3> QED BY <1>3, <3>1, <3>2
    <2>4. (i \in DOMAIN s <=> j \in DOMAIN s)
      BY <1>3, <2>3
    <2> QED BY <2>1, <2>2, <2>3, <2>4
  <1> QED
    BY <1>1, <1>2, <1>3 DEF u, Distinct

-----------------------------------------------------------------------------
(* Sums over sequences of things that weigh something. *)

Weigh(seq, w) == SeqSum([i \in DOMAIN seq |-> w[seq[i]]])

LEMMA WeighEmpty == ASSUME NEW w PROVE Weigh(<<>>, w) = 0
  <1>1. [i \in DOMAIN <<>> |-> w[<<>>[i]]] = <<>>
    OBVIOUS
  <1> QED
    BY <1>1, SumEmpty DEF Weigh

LEMMA WeighAppend ==
    ASSUME NEW S, NEW w \in [S -> Nat], NEW s \in Seq(S), NEW e \in S
    PROVE  Weigh(Append(s, e), w) = Weigh(s, w) + w[e] /\ Weigh(s, w) \in Nat
  <1> DEFINE m == [i \in DOMAIN s |-> w[s[i]]]
             t == Append(s, e)
             n == [i \in DOMAIN t |-> w[t[i]]]
  <1>1. m \in Seq(Nat) /\ Len(m) = Len(s)
    <2>1. DOMAIN s = 1..Len(s) /\ Len(s) \in Nat /\ \A i \in DOMAIN s : s[i] \in S
      OBVIOUS
    <2>2. m \in [1..Len(s) -> Nat]
      BY <2>1
    <2> QED BY <2>1, <2>2
  <1>2. /\ DOMAIN t = 1..(Len(s) + 1) /\ t[Len(s) + 1] = e
        /\ \A i \in 1..Len(s) : t[i] = s[i]
        /\ DOMAIN s = 1..Len(s) /\ Len(s) \in Nat
    OBVIOUS
  <1>3. n = Append(m, w[e])
    <2>1. w[e] \in Nat
      OBVIOUS
    <2>2. Append(m, w[e]) = [i \in 1..(Len(m) + 1) |-> IF i <= Len(m) THEN m[i] ELSE w[e]]
      <3> HIDE DEF m
      <3> QED BY <1>1, <2>1
    <2>3. n = [i \in 1..(Len(s) + 1) |-> IF i <= Len(s) THEN m[i] ELSE w[e]]
      <3> HIDE DEF t
      <3> QED BY <1>2
    <2> HIDE DEF m, n
    <2> QED BY <1>1, <2>2, <2>3
  <1>4. SeqSum(Append(m, w[e])) = SeqSum(m) + w[e]
    <2> HIDE DEF m
    <2>1. m \in Seq(Int) /\ w[e] \in Int
      BY <1>1
    <2> QED BY <2>1, SumAppend
  <1>5. SeqSum(m) \in Nat
    <2> HIDE DEF m
    <2> QED BY <1>1, SumType
  <1> QED
    BY <1>3, <1>4, <1>5 DEF Weigh

LEMMA WeighType ==
    ASSUME NEW S, NEW w \in [S -> Nat], NEW s \in Seq(S)
    PROVE  Weigh(s, w) \in Nat
  <1>1. CASE S = {}
    <2>1. s = <<>>
      BY <1>1
    <2> QED BY <2>1, WeighEmpty
  <1>2. CASE S # {}
    <2>1. PICK e \in S : TRUE
      BY <1>2
    <2> QED BY WeighAppend
  <1> QED
    BY <1>1, <1>2

(* What weighs one each counts. *)
LEMMA WeighLen ==
    ASSUME NEW S, NEW s \in Seq(S)
    PROVE  Weigh(s, [x \in S |-> 1]) = Len(s)
  <1> DEFINE one == [x \in S |-> 1]
             T == {q \in Seq(S) : Weigh(q, one) = Len(q)}
  <1>1. <<>> \in T
    BY WeighEmpty
  <1>2. ASSUME NEW q \in Seq(S), NEW e \in S, q \in T PROVE Append(q, e) \in T
    <2>1. one \in [S -> Nat] /\ one[e] = 1
      OBVIOUS
    <2>2. Weigh(Append(q, e), one) = Weigh(q, one) + one[e]
      <3> HIDE DEF one
      <3> QED BY <2>1, WeighAppend
    <2>3. Append(q, e) \in Seq(S) /\ Len(Append(q, e)) = Len(q) + 1
      OBVIOUS
    <2>4. Weigh(q, one) = Len(q)
      BY <1>2
    <2> HIDE DEF one
    <2>5. Weigh(Append(q, e), one) = Len(Append(q, e))
      BY <2>1, <2>2, <2>3, <2>4
    <2> QED BY <2>3, <2>5, Zenon
  <1> HIDE DEF T
  <1>3. \A q \in Seq(S) : q \in T
    BY <1>1, <1>2, SeqSetInduction
  <1> QED
    BY <1>3 DEF T

(* What a part and its complement weigh is what the whole weighs. *)
LEMMA WeighSplit ==
    ASSUME NEW S, NEW w \in [S -> Nat], NEW seq \in Seq(S), NEW I, NEW J,
           \A i \in DOMAIN seq : i \in J <=> i \notin I
    PROVE  Weigh(Part(seq, I), w) + Weigh(Part(seq, J), w) = Weigh(seq, w)
  <1> DEFINE Split(q) == \A i \in DOMAIN q : i \in J <=> i \notin I
             T == {q \in Seq(S) : Split(q) =>
                     Weigh(Part(q, I), w) + Weigh(Part(q, J), w) = Weigh(q, w)}
  <1>1. <<>> \in T
    BY PartEmpty, WeighEmpty
  <1>2. ASSUME NEW q \in Seq(S), NEW e \in S, q \in T PROVE Append(q, e) \in T
    <2> DEFINE t == Append(q, e)
               n == Len(q) + 1
    <2>1. SUFFICES ASSUME Split(t)
                   PROVE  Weigh(Part(t, I), w) + Weigh(Part(t, J), w) = Weigh(t, w)
      <3>1. t \in Seq(S)
        OBVIOUS
      <3> HIDE DEF Split
      <3> QED BY <3>1
    <2>2. Split(q) /\ (n \in J <=> n \notin I)
      <3>1. DOMAIN t = 1..n /\ DOMAIN q = 1..Len(q) /\ Len(q) \in Nat
        OBVIOUS
      <3>2. n \in DOMAIN t /\ \A i \in DOMAIN q : i \in DOMAIN t
        BY <3>1
      <3> HIDE DEF t, n
      <3> QED BY <2>1, <3>2
    <2>3. /\ Part(t, I) = IF n \in I THEN Append(Part(q, I), e) ELSE Part(q, I)
          /\ Part(t, J) = IF n \in J THEN Append(Part(q, J), e) ELSE Part(q, J)
      BY PartAppend
    <2>4. Part(q, I) \in Seq(S) /\ Part(q, J) \in Seq(S)
      BY PartElems
    <2>5. /\ Weigh(Append(Part(q, I), e), w) = Weigh(Part(q, I), w) + w[e]
          /\ Weigh(Append(Part(q, J), e), w) = Weigh(Part(q, J), w) + w[e]
          /\ Weigh(t, w) = Weigh(q, w) + w[e]
      <3>1. Weigh(Append(Part(q, I), e), w) = Weigh(Part(q, I), w) + w[e]
        BY <2>4, WeighAppend
      <3>2. Weigh(Append(Part(q, J), e), w) = Weigh(Part(q, J), w) + w[e]
        BY <2>4, WeighAppend
      <3>3. Weigh(t, w) = Weigh(q, w) + w[e]
        BY WeighAppend
      <3> QED BY <3>1, <3>2, <3>3
    <2>6. w[e] \in Nat /\ Weigh(Part(q, I), w) \in Nat /\ Weigh(Part(q, J), w) \in Nat
      BY <2>4, WeighType
    <2>7. Weigh(Part(q, I), w) + Weigh(Part(q, J), w) = Weigh(q, w)
      BY <1>2, <2>2
    <2> HIDE DEF t, n, Split
    <2>8. CASE n \in I
      BY <2>2, <2>3, <2>5, <2>6, <2>7, <2>8
    <2>9. CASE n \notin I
      BY <2>2, <2>3, <2>5, <2>6, <2>7, <2>9
    <2> QED BY <2>8, <2>9
  <1> HIDE DEF T
  <1>3. \A q \in Seq(S) : q \in T
    BY <1>1, <1>2, SeqSetInduction
  <1> QED
    BY <1>3 DEF T

(* What two sequences weigh together. *)
LEMMA WeighConcat ==
    ASSUME NEW S, NEW w \in [S -> Nat], NEW s \in Seq(S), NEW t \in Seq(S)
    PROVE  Weigh(s \o t, w) = Weigh(s, w) + Weigh(t, w)
  <1> DEFINE T == {q \in Seq(S) : Weigh(s \o q, w) = Weigh(s, w) + Weigh(q, w)}
  <1>1. <<>> \in T
    <2>1. s \o <<>> = s /\ Weigh(s, w) \in Nat
      BY WeighType
    <2> QED BY <2>1, WeighEmpty
  <1>2. ASSUME NEW q \in Seq(S), NEW e \in S, q \in T PROVE Append(q, e) \in T
    <2>1. s \o Append(q, e) = Append(s \o q, e) /\ s \o q \in Seq(S)
      OBVIOUS
    <2>2. Weigh(Append(s \o q, e), w) = Weigh(s \o q, w) + w[e]
      BY <2>1, WeighAppend
    <2>3. Weigh(Append(q, e), w) = Weigh(q, w) + w[e]
      BY WeighAppend
    <2>4. Weigh(s, w) \in Nat /\ Weigh(q, w) \in Nat /\ w[e] \in Nat
      BY WeighType
    <2>5. Append(q, e) \in Seq(S)
      OBVIOUS
    <2>6. Weigh(s \o q, w) = Weigh(s, w) + Weigh(q, w)
      BY <1>2
    <2>7. Weigh(s \o Append(q, e), w) = Weigh(s, w) + Weigh(Append(q, e), w)
      BY <2>1, <2>2, <2>3, <2>4, <2>6
    <2> QED BY <2>5, <2>7
  <1> HIDE DEF T
  <1>3. \A q \in Seq(S) : q \in T
    BY <1>1, <1>2, SeqSetInduction
  <1> QED
    BY <1>3 DEF T

(* Two arrangements of the same elements have one length and one weight. *)
LEMMA Rearranged ==
    ASSUME NEW S, NEW w \in [S -> Nat], NEW s \in Seq(S), NEW t \in Seq(S),
           Distinct(s), Distinct(t), Elems(s) = Elems(t)
    PROVE  Len(s) = Len(t) /\ Weigh(s, w) = Weigh(t, w)
  <1> DEFINE Same(q) == \A r \in Seq(S) :
                          Distinct(q) /\ Distinct(r) /\ Elems(q) = Elems(r) =>
                            Len(q) = Len(r) /\ Weigh(q, w) = Weigh(r, w)
             T == {q \in Seq(S) : Same(q)}
  <1>1. <<>> \in T
    <2>1. ASSUME NEW r \in Seq(S), Elems(<<>>) = Elems(r) PROVE r = <<>>
      <3>1. Elems(<<>>) = {}
        BY DEF Elems
      <3>2. DOMAIN r = {}
        <4>1. ASSUME NEW i \in DOMAIN r PROVE FALSE
          <5>1. r[i] \in Elems(r)
            BY DEF Elems
          <5> QED BY <2>1, <3>1, <5>1
        <4> QED BY <4>1
      <3> QED BY <3>2
    <2> QED BY <2>1
  <1>2. ASSUME NEW q \in Seq(S), NEW e \in S, q \in T PROVE Append(q, e) \in T
    <2> DEFINE p == Append(q, e)
    <2>1. ASSUME NEW r \in Seq(S), Distinct(p), Distinct(r), Elems(p) = Elems(r)
          PROVE  Len(p) = Len(r) /\ Weigh(p, w) = Weigh(r, w)
      <3>0. /\ Elems(p) = Elems(q) \cup {e} /\ e \notin Elems(q) /\ Distinct(q)
            /\ Len(p) = Len(q) + 1
        <4>1. DOMAIN p = 1..(Len(q) + 1) /\ p[Len(q) + 1] = e /\ DOMAIN q = 1..Len(q)
              /\ Len(q) \in Nat /\ Len(p) = Len(q) + 1
              /\ \A i \in DOMAIN q : i \in DOMAIN p /\ p[i] = q[i] /\ i # Len(q) + 1
              /\ Len(q) + 1 \in DOMAIN p
          OBVIOUS
        <4>2. Elems(p) = Elems(q) \cup {e}
          BY AppendElems
        <4> HIDE DEF p
        <4>3. e \notin Elems(q) /\ Distinct(q)
          BY <2>1, <4>1 DEF Elems, Distinct
        <4> QED BY <4>1, <4>2, <4>3
      <3>1. PICK j \in DOMAIN r : r[j] = e
        BY <2>1, <3>0 DEF Elems
      <3> DEFINE J == {j}
                 I == DOMAIN r \ {j}
                 c == Part(r, I)
                 d == Part(r, J)
      <3>2. /\ c \in Seq(S) /\ Distinct(c)
            /\ \A x : x \in Elems(c) <=> \E i \in DOMAIN r : i \in I /\ x = r[i]
        BY <2>1, PartElems
      <3>3. Elems(c) = Elems(q)
        <4>1. \A x : x \in Elems(c) <=> x \in Elems(r) /\ x # e
          <5> TAKE x
          <5>1. ASSUME x \in Elems(c) PROVE x \in Elems(r) /\ x # e
            <6>1. PICK i \in DOMAIN r : i # j /\ x = r[i]
              BY <3>2, <5>1
            <6> QED BY <2>1, <3>1, <6>1 DEF Elems, Distinct
          <5>2. ASSUME x \in Elems(r), x # e PROVE x \in Elems(c)
            <6>1. PICK i \in DOMAIN r : x = r[i]
              BY <5>2 DEF Elems
            <6>2. i \in I
              BY <3>1, <5>2, <6>1
            <6> QED BY <3>2, <6>1, <6>2
          <5> QED BY <5>1, <5>2
        <4> HIDE DEF c
        <4> QED BY <2>1, <3>0, <4>1
      <3>4. Len(q) = Len(c) /\ Weigh(q, w) = Weigh(c, w)
        <4> HIDE DEF c
        <4> QED BY <1>2, <3>0, <3>2, <3>3
      <3>5. d = <<e>> /\ d \in Seq(S)
        <4>1. d \in Seq(S) /\ \E h : Embeds(h, d, r, J)
          BY PartEmbeds
        <4>2. PICK h : Embeds(h, d, r, J)
          BY <4>1
        <4> HIDE DEF d
        <4>3. DOMAIN d = 1..Len(d) /\ Len(d) \in Nat
          BY <4>1
        <4>4. \A k \in DOMAIN d : h[k] = j /\ d[k] = e
          BY <4>2, <3>1 DEF Embeds
        <4>5. \E k \in DOMAIN d : h[k] = j
          BY <4>2 DEF Embeds
        <4>6. \A k, l \in DOMAIN d : ~(k < l)
          <5> TAKE k \in DOMAIN d, l \in DOMAIN d
          <5>1. SUFFICES ASSUME k < l PROVE FALSE
            OBVIOUS
          <5>2. h[k] < h[l] /\ h[k] = j /\ h[l] = j
            BY <4>2, <4>4, <5>1 DEF Embeds
          <5>3. j \in Nat
            BY <3>1
          <5> QED BY <5>2, <5>3
        <4>7. Len(d) = 1
          <5>1. Len(d) # 0
            BY <4>3, <4>5
          <5>2. ~(Len(d) > 1)
            <6>1. ASSUME Len(d) > 1 PROVE FALSE
              <7>1. 1 \in DOMAIN d /\ 2 \in DOMAIN d
                BY <4>3, <6>1
              <7> QED BY <4>6, <7>1
            <6> QED BY <6>1
          <5> QED BY <4>3, <5>1, <5>2
        <4>8. d[1] = e
          BY <4>3, <4>4, <4>7
        <4> QED BY <4>1, <4>7, <4>8
      <3>6. Weigh(d, w) = w[e] /\ w[e] \in Nat
        <4>1. <<>> \in Seq(S) /\ d = Append(<<>>, e)
          BY <3>5
        <4>2. Weigh(Append(<<>>, e), w) = Weigh(<<>>, w) + w[e]
          BY <4>1, WeighAppend
        <4>3. w[e] \in Nat
          OBVIOUS
        <4> HIDE DEF d
        <4> QED BY <4>1, <4>2, <4>3, WeighEmpty
      <3>7. Weigh(c, w) + Weigh(d, w) = Weigh(r, w)
        <4>1. \A i \in DOMAIN r : i \in J <=> i \notin I
          OBVIOUS
        <4> HIDE DEF I, J
        <4> QED BY <4>1, WeighSplit
      <3>8. Len(r) = Len(c) + 1
        <4> DEFINE one == [x \in S |-> 1]
        <4>1. \A i \in DOMAIN r : i \in J <=> i \notin I
          OBVIOUS
        <4>2. one \in [S -> Nat]
          OBVIOUS
        <4>3. /\ Weigh(c, one) = Len(c) /\ Weigh(d, one) = Len(d)
              /\ Weigh(r, one) = Len(r)
          BY <3>2, <3>5, WeighLen
        <4>4. Weigh(c, one) + Weigh(d, one) = Weigh(r, one)
          <5> HIDE DEF I, J, one
          <5> QED BY <4>1, <4>2, WeighSplit
        <4>5. Len(d) = 1
          BY <3>5
        <4> HIDE DEF c, d, one
        <4> QED BY <4>3, <4>4, <4>5
      <3>9. Weigh(p, w) = Weigh(q, w) + w[e]
        BY WeighAppend
      <3> HIDE DEF c, d, p
      <3> QED BY <3>0, <3>4, <3>6, <3>7, <3>8, <3>9
    <2>2. p \in Seq(S)
      OBVIOUS
    <2> HIDE DEF p
    <2>3. Same(p)
      BY <2>1
    <2> QED BY <2>2, <2>3 DEF p
  <1> HIDE DEF T
  <1>3. \A q \in Seq(S) : q \in T
    BY <1>1, <1>2, SeqSetInduction
  <1>4. Same(s)
    BY <1>3 DEF T
  <1> QED
    BY <1>4

(* What a concatenation holds, and where. *)
LEMMA ConcatAt ==
    ASSUME NEW S, NEW s \in Seq(S), NEW t \in Seq(S)
    PROVE  /\ s \o t \in Seq(S) /\ Len(s \o t) = Len(s) + Len(t)
           /\ \A i \in 1..Len(s) : (s \o t)[i] = s[i]
           /\ \A i \in 1..Len(t) : (s \o t)[Len(s) + i] = t[i]
  OBVIOUS

(* A sequence is the concatenation of two that hold its elements in turn. *)
LEMMA Halves ==
    ASSUME NEW S, NEW seq \in Seq(S), NEW front \in Seq(S), NEW back \in Seq(S),
           Len(seq) = Len(front) + Len(back),
           \A i \in 1..Len(front) : seq[i] = front[i],
           \A i \in 1..Len(back) : seq[Len(front) + i] = back[i]
    PROVE  seq = front \o back
  <1> DEFINE both == front \o back
  <1>1. /\ both \in Seq(S) /\ Len(both) = Len(front) + Len(back)
        /\ \A i \in 1..Len(front) : both[i] = front[i]
        /\ \A i \in 1..Len(back) : both[Len(front) + i] = back[i]
    BY ConcatAt
  <1> HIDE DEF both
  <1>2. ASSUME NEW i \in 1..Len(seq) PROVE both[i] = seq[i]
    <2>1. Len(front) \in Nat /\ Len(back) \in Nat
      OBVIOUS
    <2>2. CASE i <= Len(front)
      BY <1>1, <2>1, <2>2
    <2>3. CASE i > Len(front)
      <3>1. PICK j \in 1..Len(back) : i = Len(front) + j
        <4>1. i - Len(front) \in 1..Len(back) /\ i = Len(front) + (i - Len(front))
          BY <2>1, <2>3
        <4> QED BY <4>1
      <3> QED BY <1>1, <3>1
    <2> QED BY <2>1, <2>2, <2>3
  <1>3. both = [i \in 1..Len(seq) |-> both[i]]
    BY <1>1
  <1>4. seq = [i \in 1..Len(seq) |-> seq[i]]
    OBVIOUS
  <1>5. [i \in 1..Len(seq) |-> both[i]] = [i \in 1..Len(seq) |-> seq[i]]
    BY <1>2, Zenon
  <1>6. both = seq
    BY ONLY <1>3, <1>4, <1>5, Zenon
  <1> QED
    BY <1>6 DEF both

(* Cutting a sequence in two. *)
LEMMA CutAt ==
    ASSUME NEW S, NEW seq \in Seq(S), NEW n \in 0..Len(seq)
    PROVE  /\ SubSeq(seq, 1, n) \in Seq(S) /\ Len(SubSeq(seq, 1, n)) = n
           /\ \A i \in 1..n : SubSeq(seq, 1, n)[i] = seq[i]
           /\ SubSeq(seq, n + 1, Len(seq)) \in Seq(S)
           /\ Len(SubSeq(seq, n + 1, Len(seq))) = Len(seq) - n
           /\ \A i \in 1..(Len(seq) - n) : SubSeq(seq, n + 1, Len(seq))[i] = seq[n + i]
           /\ seq = SubSeq(seq, 1, n) \o SubSeq(seq, n + 1, Len(seq))
  <1> DEFINE front == SubSeq(seq, 1, n)
             back == SubSeq(seq, n + 1, Len(seq))
  <1>1. n \in Nat /\ Len(seq) \in Nat /\ n <= Len(seq)
    OBVIOUS
  <1>2. front \in Seq(S) /\ Len(front) = n /\ \A i \in 1..n : front[i] = seq[i]
    BY <1>1
  <1>3. back \in Seq(S) /\ Len(back) = Len(seq) - n
        /\ \A i \in 1..(Len(seq) - n) : back[i] = seq[n + i]
    BY <1>1
  <1> HIDE DEF front, back
  <1>4. Len(seq) = Len(front) + Len(back)
    BY <1>1, <1>2, <1>3
  <1>5. front \in Seq(S) /\ back \in Seq(S)
    BY ONLY <1>2, <1>3
  <1>6. \A i \in 1..Len(front) : seq[i] = front[i]
    <2>1. \A i \in 1..n : seq[i] = front[i]
      BY ONLY <1>2
    <2> QED BY ONLY <1>2, <2>1, Zenon
  <1>7. \A i \in 1..Len(back) : seq[Len(front) + i] = back[i]
    <2>1. 1..Len(back) = 1..(Len(seq) - n)
      BY ONLY <1>3, Zenon
    <2>2. \A i \in 1..(Len(seq) - n) : seq[n + i] = back[i]
      BY ONLY <1>3, Zenon
    <2> QED BY ONLY <1>2, <2>1, <2>2, Zenon
  <1>8. seq = front \o back
    BY ONLY <1>4, <1>5, <1>6, <1>7, seq \in Seq(S), Halves, Zenon
  <1> QED
    BY <1>2, <1>3, <1>8 DEF front, back
=============================================================================
