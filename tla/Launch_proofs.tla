--------------------------- MODULE Launch_proofs ---------------------------
(***************************************************************************)
(* Two components that a launch relies on.                                 *)
(*                                                                         *)
(* The records of the native build vouch only for what is on disk, for any *)
(* set of shader libraries, any versions and toolchains and any number of  *)
(* interrupted builds: a build configuration is taken back before its      *)
(* artifact is replaced and written after the other records.               *)
(*                                                                         *)
(* The expert store serves every layer whole, for any number of experts    *)
(* and layers, any sizes and any budget.                                   *)
(***************************************************************************)
EXTENDS KernelBuild, ExpertStore, Subsequences_proofs, FiniteSetTheorems, SequenceTheorems

-----------------------------------------------------------------------------
(* The build. A build configuration is on disk only next to an artifact    *)
(* that was compiled from what its other records say: it is taken back     *)
(* before the artifact is replaced and written after them.                 *)

Op == [op : {"unlink", "compile", "hash", "mlx", "config", "stamp", "tool"},
       arts : SUBSET Artifacts]
Sources == Versions \X Versions
Inputs == Versions \X Versions \X Versions \X Toolchains

KTypes ==
    /\ env \in [src : [Artifacts -> Versions], mlx : Versions, config : Versions,
                tool : Toolchains]
    /\ file \in [Artifacts -> {None} \cup Inputs]
    /\ stamp \in [Artifacts -> {None} \cup Sources]
    /\ toolOf \in [Artifacts -> Toolchains \cup {Absent}]
    /\ configOf \in [Artifacts -> Versions \cup {Absent}]
    /\ mlxOf \in Versions \cup {Absent}
    /\ crashes \in Nat /\ edits \in Nat

(* A configuration vouches for the artifact next to it. *)
Vouches(a) ==
    configOf[a] # Absent =>
        /\ file[a] # None /\ stamp[a] # None
        /\ file[a][1] = stamp[a][1] /\ file[a][2] = stamp[a][2] /\ file[a][3] = configOf[a]
        /\ a \in Libs => file[a][4] = toolOf[a]

(* Where no build died, the stamp is that of the file. *)
Clean(a) == file[a] # None => stamp[a] = <<file[a][1], file[a][2]>>
CleanMlx == file[Out] # None => mlxOf = file[Out][2]
AllClean == crashes = 0 => CleanMlx /\ \A a \in Artifacts : Clean(a)

(* The build of `pending` with k of its steps behind it. *)
Steps(pending) == 6 + 3 * Cardinality(pending)
Rest(pending, k) == [i \in 1..(Steps(pending) - k) |-> BuildScript(pending)[k + i]]
Nth(pending, i) == Ordered(pending)[i]
Behind(pending, k) ==
    /\ k \in 1..5 => configOf[Out] = Absent
    /\ k >= 2 => \A i \in 1..Cardinality(pending) :
                    k < 6 + 3 * i => configOf[Nth(pending, i)] = Absent
    /\ k >= 3 => \A a \in pending \cup {Out} : file[a] = Compiled(a)
    /\ k >= 4 => stamp[Out] = Digest(Out)
    /\ k >= 5 => mlxOf = env.mlx
    /\ \A i \in 1..Cardinality(pending) :
          /\ k >= 6 + 3 * i - 2 => stamp[Nth(pending, i)] = Digest(Nth(pending, i))
          /\ k >= 6 + 3 * i - 1 => toolOf[Nth(pending, i)] = env.tool
    /\ crashes = 0 => \A a \in Artifacts \ (pending \cup {Out}) : Clean(a)
    /\ crashes = 0 /\ k < 3 => CleanMlx /\ \A a \in Artifacts : Clean(a)

CompileMps == [op |-> "compile", arts |-> {Mps}]
StampMps == [op |-> "stamp", arts |-> {Mps}]

Resting == script = <<>> /\ AllClean
Building(pending, k) ==
    /\ pending \subseteq Libs /\ k \in 0..(Steps(pending) - 1)
    /\ script = Rest(pending, k) /\ Behind(pending, k)
BuildingMps ==
    \/ script = <<CompileMps, StampMps>> /\ AllClean
    \/ /\ script = <<StampMps>> /\ file[Mps] = Compiled(Mps)
       /\ crashes = 0 => CleanMlx /\ \A a \in Artifacts \ {Mps} : Clean(a)

KInv ==
    /\ KTypes
    /\ configOf[Mps] = Absent /\ \A a \in Artifacts : Vouches(a)
    /\ \/ Resting \/ BuildingMps
       \/ \E pending, k : Building(pending, k)

(* The libraries of a build come in some order, each once. *)
LEMMA OrderedIs ==
    ASSUME NEW pending \in SUBSET Libs
    PROVE  /\ Cardinality(pending) \in Nat
           /\ Ordered(pending) \in [1..Cardinality(pending) -> pending]
           /\ Ordered(pending) \in Seq(pending) /\ Len(Ordered(pending)) = Cardinality(pending)
           /\ \A i, j \in 1..Cardinality(pending) : Nth(pending, i) = Nth(pending, j) => i = j
           /\ \A a \in pending : \E i \in 1..Cardinality(pending) : Nth(pending, i) = a
<1> DEFINE n == Cardinality(pending)
<1>1. IsFiniteSet(pending)
  BY FS_Subset, BuildAssumption DEF BuildAssumption
<1>2. n \in Nat /\ ExistsBijection(1..n, pending)
  BY <1>1, FS_CardinalityType
<1>3. PICK f \in [1..n -> pending] : /\ \A i, j \in 1..n : f[i] = f[j] => i = j
                                    /\ \A a \in pending : \E i \in 1..n : f[i] = a
  BY <1>2 DEF ExistsBijection, Bijection, Injection, Surjection, IsInjective
<1> DEFINE Good(o) == Distinct(o) /\ Elems(o) = pending
<1>4. Good(f)
  BY <1>3 DEF Distinct, Elems
<1> DEFINE o == Ordered(pending)
<1>5. o \in [1..n -> pending] /\ Good(o)
  BY <1>3, <1>4, Zenon DEF Ordered
<1> HIDE DEF o
<1>6. DOMAIN o = 1..n
  BY <1>5
<1>7. \A i, j \in 1..n : o[i] = o[j] => i = j
  BY <1>5, <1>6 DEF Distinct
<1>8. \A a \in pending : \E i \in 1..n : o[i] = a
  BY <1>5, <1>6 DEF Elems
<1>9. o \in Seq(pending) /\ Len(o) = n
  BY <1>2, <1>5
<1> QED
  BY <1>2, <1>5, <1>7, <1>8, <1>9 DEF o, Nth

(* What the steps of a build are, by their number. *)
LEMMA ScriptIs ==
    ASSUME NEW pending \in SUBSET Libs
    PROVE  LET script_ == BuildScript(pending) IN
           /\ Steps(pending) \in Nat
           /\ script_[1] = [op |-> "unlink", arts |-> {Out}]
           /\ script_[2] = [op |-> "unlink", arts |-> pending]
           /\ script_[3] = [op |-> "compile", arts |-> pending \cup {Out}]
           /\ script_[4] = [op |-> "hash", arts |-> {Out}]
           /\ script_[5] = [op |-> "mlx", arts |-> {Out}]
           /\ script_[6] = [op |-> "config", arts |-> {Out}]
           /\ \A i \in 1..Cardinality(pending) :
                /\ script_[6 + 3 * i - 2] = [op |-> "stamp", arts |-> {Nth(pending, i)}]
                /\ script_[6 + 3 * i - 1] = [op |-> "tool", arts |-> {Nth(pending, i)}]
                /\ script_[6 + 3 * i] = [op |-> "config", arts |-> {Nth(pending, i)}]
           /\ script_ = [i \in 1..Steps(pending) |-> script_[i]]
<1> DEFINE n == Cardinality(pending)
           o == Ordered(pending)
           r == Records(o)
           a == <<[op |-> "unlink", arts |-> {Out}], [op |-> "unlink", arts |-> pending]>>
           b == <<[op |-> "compile", arts |-> pending \cup {Out}], [op |-> "hash", arts |-> {Out}],
                  [op |-> "mlx", arts |-> {Out}], [op |-> "config", arts |-> {Out}]>>
<1>1. /\ n \in Nat /\ o \in [1..n -> pending] /\ Len(o) = n
  BY OrderedIs
<1>2. a \in Seq(Op) /\ Len(a) = 2
  BY DEF Artifacts, Op
<1>3. b \in Seq(Op) /\ Len(b) = 4
  BY DEF Artifacts, Op
<1> DEFINE opOf(k) == <<"stamp", "tool", "config">>[((k - 1) % 3) + 1]
           artOf(k) == o[((k - 1) \div 3) + 1]
<1>4. r = [k \in 1..(3 * n) |-> [op |-> opOf(k), arts |-> {artOf(k)}]]
  BY <1>1 DEF Records
<1>5. \A k \in 1..(3 * n) : opOf(k) \in {"stamp", "tool", "config"} /\ artOf(k) \in pending
  <2> TAKE k \in 1..(3 * n)
  <2>1. (k - 1) % 3 \in 0..2 /\ (k - 1) \div 3 \in 0..(n - 1)
    BY <1>1
  <2>2. (k - 1) % 3 = 0 \/ (k - 1) % 3 = 1 \/ (k - 1) % 3 = 2
    BY <2>1
  <2>3. opOf(k) \in {"stamp", "tool", "config"}
    BY <2>2
  <2>4. (k - 1) \div 3 + 1 \in 1..n
    BY <2>1, <1>1
  <2> QED BY <2>3, <2>4, <1>1
<1>6. \A i \in 1..n : /\ 3 * i - 2 \in 1..(3 * n) /\ 3 * i - 1 \in 1..(3 * n) /\ 3 * i \in 1..(3 * n)
                      /\ opOf(3 * i - 2) = "stamp" /\ opOf(3 * i - 1) = "tool"
                      /\ opOf(3 * i) = "config"
                      /\ artOf(3 * i - 2) = o[i] /\ artOf(3 * i - 1) = o[i] /\ artOf(3 * i) = o[i]
  <2> TAKE i \in 1..n
  <2>1. 3 * i - 2 \in 1..(3 * n) /\ 3 * i - 1 \in 1..(3 * n) /\ 3 * i \in 1..(3 * n)
    BY <1>1
  <2>2. /\ ((3 * i - 2) - 1) % 3 = 0 /\ ((3 * i - 1) - 1) % 3 = 1 /\ (3 * i - 1) % 3 = 2
        /\ ((3 * i - 2) - 1) \div 3 + 1 = i /\ ((3 * i - 1) - 1) \div 3 + 1 = i
        /\ (3 * i - 1) \div 3 + 1 = i
    BY <1>1
  <2> QED BY <2>1, <2>2
<1> HIDE DEF opOf, artOf
<1>7. r \in Seq(Op) /\ Len(r) = 3 * n
  <2>1. \A k \in 1..(3 * n) : [op |-> opOf(k), arts |-> {artOf(k)}] \in Op
    BY <1>5 DEF Artifacts, Op
  <2>2. 3 * n \in Nat
    BY <1>1
  <2> HIDE DEF r
  <2> QED BY <1>4, <2>1, <2>2
<1> DEFINE c == b \o r
           d == a \o c
<1> HIDE DEF a, b, r, n, o
<1>8. /\ c \in Seq(Op) /\ Len(c) = 4 + 3 * n
      /\ \A i \in 1..4 : c[i] = b[i]
      /\ \A i \in 1..(3 * n) : c[4 + i] = r[i]
  <2>0. b \in Seq(Op) /\ r \in Seq(Op)
    BY <1>3, <1>7
  <2>1. /\ b \o r \in Seq(Op) /\ Len(b \o r) = Len(b) + Len(r)
        /\ \A i \in 1..Len(b) : (b \o r)[i] = b[i]
        /\ \A i \in 1..Len(r) : (b \o r)[Len(b) + i] = r[i]
    BY <2>0, ConcatAt
  <2> QED BY <2>1, <1>3, <1>7
<1> HIDE DEF c
<1>9. /\ d \in Seq(Op) /\ Len(d) = 2 + (4 + 3 * n)
      /\ \A i \in 1..2 : d[i] = a[i]
      /\ \A i \in 1..(4 + 3 * n) : d[2 + i] = c[i]
  <2>0. a \in Seq(Op) /\ c \in Seq(Op)
    BY <1>2, <1>8
  <2>1. /\ a \o c \in Seq(Op) /\ Len(a \o c) = Len(a) + Len(c)
        /\ \A i \in 1..Len(a) : (a \o c)[i] = a[i]
        /\ \A i \in 1..Len(c) : (a \o c)[Len(a) + i] = c[i]
    BY <2>0, ConcatAt
  <2> QED BY <2>1, <1>2, <1>8
<1>10. d = BuildScript(pending)
  BY DEF d, c, a, b, r, o, BuildScript, CompileAndRecord
<1> HIDE DEF d
<1>11. /\ d[1] = a[1] /\ d[2] = a[2] /\ d[3] = b[1] /\ d[4] = b[2] /\ d[5] = b[3] /\ d[6] = b[4]
       /\ \A k \in 1..(3 * n) : d[6 + k] = r[k]
  <2>1. \A k \in 1..(3 * n) : 4 + k \in 1..(4 + 3 * n) /\ 2 + (4 + k) = 6 + k
    BY <1>1
  <2>2. \A k \in 1..4 : k \in 1..(4 + 3 * n)
    BY <1>1
  <2>3. \A k \in 1..(3 * n) : d[6 + k] = r[k]
    BY <2>1, <1>8, <1>9
  <2>4. d[2 + 1] = b[1] /\ d[2 + 2] = b[2] /\ d[2 + 3] = b[3] /\ d[2 + 4] = b[4]
    BY <2>2, <1>8, <1>9
  <2> QED BY <2>3, <2>4, <1>9
<1>12. \A i \in 1..n : /\ 6 + 3 * i - 2 = 6 + (3 * i - 2) /\ 6 + 3 * i - 1 = 6 + (3 * i - 1)
                       /\ 6 + 3 * i = 6 + (3 * i)
  BY <1>1
<1>13. \A i \in 1..n : /\ d[6 + 3 * i - 2] = [op |-> "stamp", arts |-> {o[i]}]
                       /\ d[6 + 3 * i - 1] = [op |-> "tool", arts |-> {o[i]}]
                       /\ d[6 + 3 * i] = [op |-> "config", arts |-> {o[i]}]
  BY <1>12, <1>11, <1>6, <1>4
<1>14. d = [i \in 1..(6 + 3 * n) |-> d[i]] /\ 6 + 3 * n \in Nat
  <2>1. 2 + (4 + 3 * n) = 6 + 3 * n /\ 6 + 3 * n \in Nat
    BY <1>1
  <2> QED BY <2>1, <1>9
<1> QED
  BY <1>10, <1>11, <1>13, <1>14 DEF a, b, n, o, Nth, Steps

(* What is left of a build after a step of it. *)
LEMMA RestIs ==
    ASSUME NEW pending \in SUBSET Libs, NEW k \in 0..(Steps(pending) - 1),
           script = Rest(pending, k)
    PROVE  /\ script # <<>> /\ Head(script) = BuildScript(pending)[k + 1]
           /\ Tail(script) = Rest(pending, k + 1)
           /\ k + 1 = Steps(pending) => Tail(script) = <<>>
<1> DEFINE n == Steps(pending)
           f(i) == BuildScript(pending)[i]
<1>1. n \in Nat
  BY ScriptIs
<1> HIDE DEF n, f
<1>2. k \in 0..(n - 1) /\ script = [i \in 1..(n - k) |-> f(k + i)]
  BY DEF Rest, n, f
<1>3. Rest(pending, k + 1) = [i \in 1..(n - (k + 1)) |-> f((k + 1) + i)]
  BY DEF Rest, n, f
<1>4. script # <<>> /\ Head(script) = f(k + 1)
  <2>1. n - k \in Nat /\ n - k # 0
    BY <1>1, <1>2
  <2>2. 1 \in 1..(n - k) /\ Len(script) = n - k
    BY <1>2, <2>1
  <2>3. script[1] = f(k + 1)
    BY <1>2, <2>2
  <2> QED BY <2>1, <2>2, <2>3
<1>5. Tail(script) = [i \in 1..(n - (k + 1)) |-> f((k + 1) + i)]
  <2> DEFINE m == n - k
             g(i) == f(k + i)
  <2>1. m \in Nat \ {0} /\ n - (k + 1) = m - 1
    BY <1>1, <1>2
  <2>2. \A i \in 1..(m - 1) : g(i + 1) = f((k + 1) + i)
    <3>1. \A i \in 1..(m - 1) : k + (i + 1) = (k + 1) + i
      BY <1>2, <2>1
    <3> QED BY <3>1
  <2>3. script = [i \in 1..m |-> g(i)]
    BY <1>2
  <2> HIDE DEF m, g
  <2>4. Tail(script) = [i \in 1..(m - 1) |-> g(i + 1)]
    BY <2>1, <2>3
  <2> QED BY <2>1, <2>2, <2>4
<1>6. k + 1 = n => [i \in 1..(n - (k + 1)) |-> f((k + 1) + i)] = <<>>
  BY <1>1
<1> QED
  BY <1>3, <1>4, <1>5, <1>6 DEF n, f

LEMMA CompiledType ==
    ASSUME KTypes, NEW a \in Artifacts
    PROVE  /\ Digest(a) \in Sources /\ Compiled(a) \in Inputs
           /\ Digest(a) # None /\ Compiled(a) # None
           /\ Compiled(a)[1] = Digest(a)[1] /\ Compiled(a)[2] = Digest(a)[2]
           /\ Digest(a) = <<Compiled(a)[1], Compiled(a)[2]>> /\ Compiled(a)[2] = env.mlx
           /\ Compiled(a)[3] = env.config /\ Compiled(a)[4] = env.tool
           /\ env.config \in Versions /\ env.tool \in Toolchains /\ env.mlx \in Versions
           /\ env.config # Absent
  BY BuildAssumption DEF BuildAssumption, KTypes, Digest, Compiled, Sources, Inputs, None, Absent

(* What one step of a build does. *)
LEMMA StepDoes ==
    ASSUME BuildStep, NEW s, s = Head(script)
    PROVE  /\ script # <<>> /\ script' = Tail(script)
           /\ file' = IF s.op = "compile"
                      THEN [a \in Artifacts |-> IF a \in s.arts THEN Compiled(a) ELSE file[a]]
                      ELSE file
           /\ stamp' = IF s.op \in {"hash", "stamp"}
                       THEN [a \in Artifacts |-> IF a \in s.arts THEN Digest(a) ELSE stamp[a]]
                       ELSE stamp
           /\ toolOf' = IF s.op = "tool"
                        THEN [a \in Artifacts |-> IF a \in s.arts THEN env.tool ELSE toolOf[a]]
                        ELSE toolOf
           /\ configOf' = IF s.op = "config"
                          THEN [a \in Artifacts |-> IF a \in s.arts THEN env.config ELSE configOf[a]]
                          ELSE IF s.op = "unlink"
                          THEN [a \in Artifacts |-> IF a \in s.arts THEN Absent ELSE configOf[a]]
                          ELSE configOf
           /\ mlxOf' = IF s.op = "mlx" THEN env.mlx ELSE mlxOf
           /\ env' = env /\ crashes' = crashes /\ edits' = edits
           /\ \A a : Digest(a)' = Digest(a) /\ Compiled(a)' = Compiled(a)
  BY DEF BuildStep, Put, Digest, Compiled

LEMMA StepTypes ==
    ASSUME KTypes, BuildStep
    PROVE  KTypes'
<1> DEFINE s == Head(script)
<1>1. PICK t : t = s
  OBVIOUS
<1> HIDE DEF s
<1>2. \A a \in Artifacts : /\ Digest(a) \in Sources /\ Compiled(a) \in Inputs
                           /\ env.config \in Versions /\ env.tool \in Toolchains
  BY CompiledType
<1>3. env' \in [src : [Artifacts -> Versions], mlx : Versions, config : Versions, tool : Toolchains]
  BY StepDoes DEF KTypes
<1>4. file' \in [Artifacts -> {None} \cup Inputs]
  BY StepDoes, <1>2 DEF KTypes
<1>5. stamp' \in [Artifacts -> {None} \cup Sources]
  BY StepDoes, <1>2 DEF KTypes
<1>6. toolOf' \in [Artifacts -> Toolchains \cup {Absent}]
  BY StepDoes, <1>2 DEF KTypes
<1>7. configOf' \in [Artifacts -> Versions \cup {Absent}]
  BY StepDoes, <1>2 DEF KTypes
<1>8. mlxOf' \in Versions \cup {Absent}
  BY StepDoes DEF KTypes
<1>9. crashes' \in Nat /\ edits' \in Nat
  BY StepDoes DEF KTypes
<1> QED
  BY <1>3, <1>4, <1>5, <1>6, <1>7, <1>8, <1>9 DEF KTypes

(* A build takes its next step. *)
LEMMA BuildMoves ==
    ASSUME KTypes, configOf[Mps] = Absent, \A a \in Artifacts : Vouches(a),
           NEW pending \in SUBSET Libs, NEW k \in 0..(Steps(pending) - 1),
           script = Rest(pending, k), Behind(pending, k), BuildStep
    PROVE  /\ configOf'[Mps] = Absent /\ \A a \in Artifacts : Vouches(a)'
           /\ Behind(pending, k + 1)'
<1> DEFINE n == Cardinality(pending)
           P == pending \cup {Out}
           o(i) == Nth(pending, i)
           d(a) == Digest(a)
           c(a) == Compiled(a)
           s == BuildScript(pending)[k + 1]
<1>1. /\ n \in Nat /\ Steps(pending) = 6 + 3 * n
      /\ \A i \in 1..n : o(i) \in pending
      /\ \A i, j \in 1..n : o(i) = o(j) => i = j
      /\ \A a \in pending : \E i \in 1..n : o(i) = a
  BY OrderedIs DEF Steps, Nth
<1>2. /\ Out \in Artifacts /\ Mps \in Artifacts /\ Out \notin Libs /\ Mps \notin Libs /\ Out # Mps
      /\ pending \subseteq Libs /\ Libs \subseteq Artifacts /\ Out \notin pending /\ Mps \notin pending
  BY BuildAssumption DEF BuildAssumption, Out, Mps, Artifacts
<1>3. /\ s = Head(script)
      /\ file' = IF s.op = "compile"
                 THEN [a \in Artifacts |-> IF a \in s.arts THEN c(a) ELSE file[a]] ELSE file
      /\ stamp' = IF s.op \in {"hash", "stamp"}
                  THEN [a \in Artifacts |-> IF a \in s.arts THEN d(a) ELSE stamp[a]] ELSE stamp
      /\ toolOf' = IF s.op = "tool"
                   THEN [a \in Artifacts |-> IF a \in s.arts THEN env.tool ELSE toolOf[a]]
                   ELSE toolOf
      /\ configOf' = IF s.op = "config"
                     THEN [a \in Artifacts |-> IF a \in s.arts THEN env.config ELSE configOf[a]]
                     ELSE IF s.op = "unlink"
                     THEN [a \in Artifacts |-> IF a \in s.arts THEN Absent ELSE configOf[a]]
                     ELSE configOf
      /\ mlxOf' = IF s.op = "mlx" THEN env.mlx ELSE mlxOf
      /\ env' = env /\ crashes' = crashes
      /\ \A a : d(a)' = d(a) /\ c(a)' = c(a)
  BY RestIs, StepDoes
<1>4. \A a \in Artifacts : /\ d(a) # None /\ c(a) # None
                           /\ c(a)[1] = d(a)[1] /\ c(a)[2] = d(a)[2] /\ c(a)[3] = env.config
                           /\ c(a)[4] = env.tool /\ env.config # Absent
                           /\ d(a) = <<c(a)[1], c(a)[2]>> /\ c(a)[2] = env.mlx
  BY CompiledType
<1>5. /\ DOMAIN file = Artifacts /\ DOMAIN stamp = Artifacts
      /\ DOMAIN toolOf = Artifacts /\ DOMAIN configOf = Artifacts
  BY DEF KTypes
<1>6. /\ k \in 1..5 => configOf[Out] = Absent
      /\ k >= 2 => \A i \in 1..n : k < 6 + 3 * i => configOf[o(i)] = Absent
      /\ k >= 3 => \A a \in P : file[a] = c(a)
      /\ k >= 4 => stamp[Out] = d(Out)
      /\ k >= 5 => mlxOf = env.mlx
      /\ \A i \in 1..n : /\ k >= 6 + 3 * i - 2 => stamp[o(i)] = d(o(i))
                         /\ k >= 6 + 3 * i - 1 => toolOf[o(i)] = env.tool
      /\ crashes = 0 => \A a \in Artifacts \ P : Clean(a)
      /\ crashes = 0 /\ k < 3 => CleanMlx /\ \A a \in Artifacts : Clean(a)
  BY DEF Behind
<1>7. (/\ k + 1 \in 1..5 => configOf'[Out] = Absent
       /\ k + 1 >= 2 => \A i \in 1..n : k + 1 < 6 + 3 * i => configOf'[o(i)] = Absent
       /\ k + 1 >= 3 => \A a \in P : file'[a] = c(a)
       /\ k + 1 >= 4 => stamp'[Out] = d(Out)
       /\ k + 1 >= 5 => mlxOf' = env.mlx
       /\ \A i \in 1..n : /\ k + 1 >= 6 + 3 * i - 2 => stamp'[o(i)] = d(o(i))
                          /\ k + 1 >= 6 + 3 * i - 1 => toolOf'[o(i)] = env.tool
       /\ crashes = 0 => \A a \in Artifacts \ P : Clean(a)'
       /\ crashes = 0 /\ k + 1 < 3 => CleanMlx' /\ \A a \in Artifacts : Clean(a)')
      => Behind(pending, k + 1)'
  BY <1>3 DEF Behind, Nth
<1>8. /\ k = 0 => s = [op |-> "unlink", arts |-> {Out}]
      /\ k = 1 => s = [op |-> "unlink", arts |-> pending]
      /\ k = 2 => s = [op |-> "compile", arts |-> P]
      /\ k = 3 => s = [op |-> "hash", arts |-> {Out}]
      /\ k = 4 => s = [op |-> "mlx", arts |-> {Out}]
      /\ k = 5 => s = [op |-> "config", arts |-> {Out}]
      /\ \A i \in 1..n : /\ k + 1 = 6 + 3 * i - 2 => s = [op |-> "stamp", arts |-> {o(i)}]
                         /\ k + 1 = 6 + 3 * i - 1 => s = [op |-> "tool", arts |-> {o(i)}]
                         /\ k + 1 = 6 + 3 * i => s = [op |-> "config", arts |-> {o(i)}]
  <2>1. \A i \in 1..n : /\ k + 1 = 6 + 3 * i - 2 => s = [op |-> "stamp", arts |-> {o(i)}]
                        /\ k + 1 = 6 + 3 * i - 1 => s = [op |-> "tool", arts |-> {o(i)}]
                        /\ k + 1 = 6 + 3 * i => s = [op |-> "config", arts |-> {o(i)}]
    <3> TAKE i \in 1..n
    <3>1. /\ BuildScript(pending)[6 + 3 * i - 2] = [op |-> "stamp", arts |-> {o(i)}]
          /\ BuildScript(pending)[6 + 3 * i - 1] = [op |-> "tool", arts |-> {o(i)}]
          /\ BuildScript(pending)[6 + 3 * i] = [op |-> "config", arts |-> {o(i)}]
      BY ScriptIs
    <3> DEFINE x == 6 + 3 * i - 2
               y == 6 + 3 * i - 1
               z == 6 + 3 * i
    <3> HIDE DEF x, y, z
    <3>2. /\ BuildScript(pending)[x] = [op |-> "stamp", arts |-> {o(i)}]
          /\ BuildScript(pending)[y] = [op |-> "tool", arts |-> {o(i)}]
          /\ BuildScript(pending)[z] = [op |-> "config", arts |-> {o(i)}]
      BY <3>1 DEF x, y, z
    <3>3. /\ k + 1 = x => s = [op |-> "stamp", arts |-> {o(i)}]
          /\ k + 1 = y => s = [op |-> "tool", arts |-> {o(i)}]
          /\ k + 1 = z => s = [op |-> "config", arts |-> {o(i)}]
      BY <3>2
    <3> QED BY <3>3 DEF x, y, z
  <2>2. /\ BuildScript(pending)[1] = [op |-> "unlink", arts |-> {Out}]
        /\ BuildScript(pending)[2] = [op |-> "unlink", arts |-> pending]
        /\ BuildScript(pending)[3] = [op |-> "compile", arts |-> P]
        /\ BuildScript(pending)[4] = [op |-> "hash", arts |-> {Out}]
        /\ BuildScript(pending)[5] = [op |-> "mlx", arts |-> {Out}]
        /\ BuildScript(pending)[6] = [op |-> "config", arts |-> {Out}]
    BY ScriptIs
  <2>3. k = 0 => s = [op |-> "unlink", arts |-> {Out}]
    BY <2>2
  <2>4. k = 1 => s = [op |-> "unlink", arts |-> pending]
    BY <2>2
  <2>5. k = 2 => s = [op |-> "compile", arts |-> P]
    BY <2>2
  <2>6. k = 3 => s = [op |-> "hash", arts |-> {Out}]
    BY <2>2
  <2>7. k = 4 => s = [op |-> "mlx", arts |-> {Out}]
    BY <2>2
  <2>8. k = 5 => s = [op |-> "config", arts |-> {Out}]
    BY <2>2
  <2> HIDE DEF P, s
  <2> QED BY <2>1, <2>3, <2>4, <2>5, <2>6, <2>7, <2>8
<1>9. \/ k \in 0..5
      \/ \E i \in 1..n : k + 1 = 6 + 3 * i - 2 \/ k + 1 = 6 + 3 * i - 1 \/ k + 1 = 6 + 3 * i
  <2> SUFFICES ASSUME k \notin 0..5
               PROVE  \E i \in 1..n : k + 1 = 6 + 3 * i - 2 \/ k + 1 = 6 + 3 * i - 1 \/ k + 1 = 6 + 3 * i
    OBVIOUS
  <2> DEFINE i == (k - 3) \div 3
  <2>1. k \in 6..(5 + 3 * n)
    BY <1>1
  <2>2. i \in 1..n /\ (k = 3 * i + 3 \/ k = 3 * i + 4 \/ k = 3 * i + 5)
    BY <2>1, <1>1
  <2> QED BY <2>1, <2>2
<1> DEFINE Goal == /\ configOf'[Mps] = Absent /\ \A a \in Artifacts : Vouches(a)'
                   /\ Behind(pending, k + 1)'
<1>10. k \in Nat
  BY <1>1
<1>11. \A a \in Artifacts : Vouches(a)' <=>
         (configOf'[a] # Absent =>
            /\ file'[a] # None /\ stamp'[a] # None
            /\ file'[a][1] = stamp'[a][1] /\ file'[a][2] = stamp'[a][2] /\ file'[a][3] = configOf'[a]
            /\ a \in Libs => file'[a][4] = toolOf'[a])
  BY DEF Vouches
<1>12. \A a \in Artifacts : Vouches(a) <=>
         (configOf[a] # Absent =>
            /\ file[a] # None /\ stamp[a] # None
            /\ file[a][1] = stamp[a][1] /\ file[a][2] = stamp[a][2] /\ file[a][3] = configOf[a]
            /\ a \in Libs => file[a][4] = toolOf[a])
  BY DEF Vouches
<1>13. \A a \in Artifacts : file'[a] = file[a] /\ stamp'[a] = stamp[a] /\ Clean(a) => Clean(a)'
  BY DEF Clean
<1>14. file'[Out] = file[Out] /\ mlxOf' = mlxOf /\ CleanMlx => CleanMlx'
  BY DEF CleanMlx
<1> HIDE DEF n, o, d, c, s
<1>15. CASE k = 0
  <2>1. s.op = "unlink" /\ s.arts = {Out}
    BY <1>8, <1>15
  <2>2. configOf'[Mps] = Absent /\ \A a \in Artifacts : Vouches(a)'
    BY <2>1, <1>15, <1>1, <1>2, <1>3, <1>4, <1>5, <1>6, <1>11, <1>12
  <2>3. crashes = 0 => \A a \in Artifacts \ P : Clean(a)'
    BY <2>1, <1>2, <1>3, <1>5, <1>6, <1>13
  <2>4. crashes = 0 /\ k + 1 < 3 => CleanMlx' /\ \A a \in Artifacts : Clean(a)'
    BY <2>1, <1>15, <1>2, <1>3, <1>5, <1>6, <1>13, <1>14
  <2>5. /\ k + 1 \in 1..5 => configOf'[Out] = Absent
        /\ k + 1 >= 2 => \A i \in 1..n : k + 1 < 6 + 3 * i => configOf'[o(i)] = Absent
    BY <2>1, <1>15, <1>1, <1>2, <1>3, <1>5, <1>6
  <2>6. /\ k + 1 >= 3 => \A a \in P : file'[a] = c(a)
        /\ k + 1 >= 4 => stamp'[Out] = d(Out)
        /\ k + 1 >= 5 => mlxOf' = env.mlx
    BY <2>1, <1>15, <1>1, <1>2, <1>3, <1>5, <1>6
  <2>7. \A i \in 1..n : /\ k + 1 >= 6 + 3 * i - 2 => stamp'[o(i)] = d(o(i))
                        /\ k + 1 >= 6 + 3 * i - 1 => toolOf'[o(i)] = env.tool
    BY <1>15, <1>1
  <2>8. Behind(pending, k + 1)'
    BY <2>3, <2>4, <2>5, <2>6, <2>7, <1>7
  <2> QED BY <2>2, <2>8
<1>16. CASE k = 1
  <2>1. s.op = "unlink" /\ s.arts = pending
    BY <1>8, <1>16
  <2>2. configOf'[Mps] = Absent /\ \A a \in Artifacts : Vouches(a)'
    BY <2>1, <1>16, <1>1, <1>2, <1>3, <1>4, <1>5, <1>6, <1>11, <1>12
  <2>3. crashes = 0 => \A a \in Artifacts \ P : Clean(a)'
    BY <2>1, <1>2, <1>3, <1>5, <1>6, <1>13
  <2>4. crashes = 0 /\ k + 1 < 3 => CleanMlx' /\ \A a \in Artifacts : Clean(a)'
    BY <2>1, <1>16, <1>2, <1>3, <1>5, <1>6, <1>13, <1>14
  <2>5. /\ k + 1 \in 1..5 => configOf'[Out] = Absent
        /\ k + 1 >= 2 => \A i \in 1..n : k + 1 < 6 + 3 * i => configOf'[o(i)] = Absent
    BY <2>1, <1>16, <1>1, <1>2, <1>3, <1>5, <1>6
  <2>6. /\ k + 1 >= 3 => \A a \in P : file'[a] = c(a)
        /\ k + 1 >= 4 => stamp'[Out] = d(Out)
        /\ k + 1 >= 5 => mlxOf' = env.mlx
    BY <2>1, <1>16, <1>1, <1>2, <1>3, <1>5, <1>6
  <2>7. \A i \in 1..n : /\ k + 1 >= 6 + 3 * i - 2 => stamp'[o(i)] = d(o(i))
                        /\ k + 1 >= 6 + 3 * i - 1 => toolOf'[o(i)] = env.tool
    BY <1>16, <1>1
  <2> QED BY <2>2, <2>3, <2>4, <2>5, <2>6, <2>7, <1>7
<1>17. CASE k = 2
  <2>1. s.op = "compile" /\ s.arts = P
    BY <1>8, <1>17
  <2>2. configOf'[Mps] = Absent /\ \A a \in Artifacts : Vouches(a)'
    BY <2>1, <1>17, <1>1, <1>2, <1>3, <1>4, <1>5, <1>6, <1>11, <1>12
  <2>3. crashes = 0 => \A a \in Artifacts \ P : Clean(a)'
    BY <2>1, <1>2, <1>3, <1>5, <1>6, <1>13
  <2>4. crashes = 0 /\ k + 1 < 3 => CleanMlx' /\ \A a \in Artifacts : Clean(a)'
    BY <2>1, <1>17, <1>2, <1>3, <1>5, <1>6, <1>13, <1>14
  <2>5. /\ k + 1 \in 1..5 => configOf'[Out] = Absent
        /\ k + 1 >= 2 => \A i \in 1..n : k + 1 < 6 + 3 * i => configOf'[o(i)] = Absent
    BY <2>1, <1>17, <1>1, <1>2, <1>3, <1>5, <1>6
  <2>6. /\ k + 1 >= 3 => \A a \in P : file'[a] = c(a)
        /\ k + 1 >= 4 => stamp'[Out] = d(Out)
        /\ k + 1 >= 5 => mlxOf' = env.mlx
    BY <2>1, <1>17, <1>1, <1>2, <1>3, <1>5, <1>6
  <2>7. \A i \in 1..n : /\ k + 1 >= 6 + 3 * i - 2 => stamp'[o(i)] = d(o(i))
                        /\ k + 1 >= 6 + 3 * i - 1 => toolOf'[o(i)] = env.tool
    BY <1>17, <1>1
  <2> QED BY <2>2, <2>3, <2>4, <2>5, <2>6, <2>7, <1>7
<1>18. CASE k = 3
  <2>1. s.op = "hash" /\ s.arts = {Out}
    BY <1>8, <1>18
  <2>2. configOf'[Mps] = Absent /\ \A a \in Artifacts : Vouches(a)'
    BY <2>1, <1>18, <1>1, <1>2, <1>3, <1>4, <1>5, <1>6, <1>11, <1>12
  <2>3. crashes = 0 => \A a \in Artifacts \ P : Clean(a)'
    BY <2>1, <1>2, <1>3, <1>5, <1>6, <1>13
  <2>4. crashes = 0 /\ k + 1 < 3 => CleanMlx' /\ \A a \in Artifacts : Clean(a)'
    BY <2>1, <1>18, <1>2, <1>3, <1>5, <1>6, <1>13, <1>14
  <2>5. /\ k + 1 \in 1..5 => configOf'[Out] = Absent
        /\ k + 1 >= 2 => \A i \in 1..n : k + 1 < 6 + 3 * i => configOf'[o(i)] = Absent
    BY <2>1, <1>18, <1>1, <1>2, <1>3, <1>5, <1>6
  <2>6. /\ k + 1 >= 3 => \A a \in P : file'[a] = c(a)
        /\ k + 1 >= 4 => stamp'[Out] = d(Out)
        /\ k + 1 >= 5 => mlxOf' = env.mlx
    BY <2>1, <1>18, <1>1, <1>2, <1>3, <1>5, <1>6
  <2>7. \A i \in 1..n : /\ k + 1 >= 6 + 3 * i - 2 => stamp'[o(i)] = d(o(i))
                        /\ k + 1 >= 6 + 3 * i - 1 => toolOf'[o(i)] = env.tool
    BY <1>18, <1>1
  <2> QED BY <2>2, <2>3, <2>4, <2>5, <2>6, <2>7, <1>7
<1>19. CASE k = 4
  <2>1. s.op = "mlx" /\ s.arts = {Out}
    BY <1>8, <1>19
  <2>2. configOf'[Mps] = Absent /\ \A a \in Artifacts : Vouches(a)'
    BY <2>1, <1>19, <1>1, <1>2, <1>3, <1>4, <1>5, <1>6, <1>11, <1>12
  <2>3. crashes = 0 => \A a \in Artifacts \ P : Clean(a)'
    BY <2>1, <1>2, <1>3, <1>5, <1>6, <1>13
  <2>4. crashes = 0 /\ k + 1 < 3 => CleanMlx' /\ \A a \in Artifacts : Clean(a)'
    BY <2>1, <1>19, <1>2, <1>3, <1>5, <1>6, <1>13, <1>14
  <2>5. /\ k + 1 \in 1..5 => configOf'[Out] = Absent
        /\ k + 1 >= 2 => \A i \in 1..n : k + 1 < 6 + 3 * i => configOf'[o(i)] = Absent
    BY <2>1, <1>19, <1>1, <1>2, <1>3, <1>5, <1>6
  <2>6. /\ k + 1 >= 3 => \A a \in P : file'[a] = c(a)
        /\ k + 1 >= 4 => stamp'[Out] = d(Out)
        /\ k + 1 >= 5 => mlxOf' = env.mlx
    BY <2>1, <1>19, <1>1, <1>2, <1>3, <1>5, <1>6
  <2>7. \A i \in 1..n : /\ k + 1 >= 6 + 3 * i - 2 => stamp'[o(i)] = d(o(i))
                        /\ k + 1 >= 6 + 3 * i - 1 => toolOf'[o(i)] = env.tool
    BY <1>19, <1>1
  <2> QED BY <2>2, <2>3, <2>4, <2>5, <2>6, <2>7, <1>7
<1>20. CASE k = 5
  <2>1. s.op = "config" /\ s.arts = {Out}
    BY <1>8, <1>20
  <2>2. configOf'[Mps] = Absent /\ \A a \in Artifacts : Vouches(a)'
    BY <2>1, <1>20, <1>1, <1>2, <1>3, <1>4, <1>5, <1>6, <1>11, <1>12
  <2>3. crashes = 0 => \A a \in Artifacts \ P : Clean(a)'
    BY <2>1, <1>2, <1>3, <1>5, <1>6, <1>13
  <2>4. crashes = 0 /\ k + 1 < 3 => CleanMlx' /\ \A a \in Artifacts : Clean(a)'
    BY <2>1, <1>20, <1>2, <1>3, <1>5, <1>6, <1>13, <1>14
  <2>5. /\ k + 1 \in 1..5 => configOf'[Out] = Absent
        /\ k + 1 >= 2 => \A i \in 1..n : k + 1 < 6 + 3 * i => configOf'[o(i)] = Absent
    BY <2>1, <1>20, <1>1, <1>2, <1>3, <1>5, <1>6
  <2>6. /\ k + 1 >= 3 => \A a \in P : file'[a] = c(a)
        /\ k + 1 >= 4 => stamp'[Out] = d(Out)
        /\ k + 1 >= 5 => mlxOf' = env.mlx
    BY <2>1, <1>20, <1>1, <1>2, <1>3, <1>5, <1>6
  <2>7. \A i \in 1..n : /\ k + 1 >= 6 + 3 * i - 2 => stamp'[o(i)] = d(o(i))
                        /\ k + 1 >= 6 + 3 * i - 1 => toolOf'[o(i)] = env.tool
    BY <1>20, <1>1
  <2> QED BY <2>2, <2>3, <2>4, <2>5, <2>6, <2>7, <1>7
<1>21. ASSUME NEW m \in 1..n, k + 1 = 6 + 3 * m - 2 PROVE Goal
  <2>1. s.op = "stamp" /\ s.arts = {o(m)}
    BY <1>8, <1>21
  <2>2. /\ o(m) \in pending /\ o(m) \in P /\ o(m) \in Libs /\ o(m) \in Artifacts
        /\ k >= 6 /\ m \in Nat
    BY <1>21, <1>1, <1>2
  <2>3. configOf'[Mps] = Absent /\ \A a \in Artifacts : Vouches(a)'
    BY <2>1, <2>2, <1>21, <1>1, <1>2, <1>3, <1>4, <1>5, <1>6, <1>11, <1>12
  <2>4. crashes = 0 => \A a \in Artifacts \ P : Clean(a)'
    BY <2>1, <2>2, <1>2, <1>3, <1>5, <1>6, <1>13
  <2>5. \A i \in 1..n : k + 1 < 6 + 3 * i => configOf'[o(i)] = Absent
    <3> TAKE i \in 1..n
    <3>1. k + 1 < 6 + 3 * i => k < 6 + 3 * i /\ k >= 2 /\ (s.op = "config" => i # m)
      BY <2>1, <2>2, <1>21, <1>1, <1>10
    <3>2. o(i) \in Artifacts /\ (i # m => o(i) # o(m))
      BY <1>1, <1>2, <1>21
    <3> QED BY <2>1, <3>1, <3>2, <1>3, <1>5, <1>6
  <2>6. (\A a \in P : file'[a] = c(a)) /\ stamp'[Out] = d(Out) /\ mlxOf' = env.mlx
    BY <2>1, <2>2, <1>2, <1>3, <1>5, <1>6
  <2>7. \A i \in 1..n : /\ k + 1 >= 6 + 3 * i - 2 => stamp'[o(i)] = d(o(i))
                        /\ k + 1 >= 6 + 3 * i - 1 => toolOf'[o(i)] = env.tool
    <3> TAKE i \in 1..n
    <3>1. /\ k + 1 >= 6 + 3 * i - 2 => k >= 6 + 3 * i - 2 \/ (i = m /\ s.op = "stamp")
          /\ k + 1 >= 6 + 3 * i - 1 => k >= 6 + 3 * i - 1 \/ (i = m /\ s.op = "tool")
      BY <2>1, <2>2, <1>21, <1>1, <1>10
    <3>2. o(i) \in Artifacts
      BY <1>1, <1>2
    <3> QED BY <2>1, <3>1, <3>2, <1>3, <1>5, <1>6
  <2>8. /\ ~(k + 1 \in 1..5) /\ ~(k + 1 < 3)
    BY <2>2
  <2> QED BY <2>3, <2>4, <2>5, <2>6, <2>7, <2>8, <1>7
<1>22. ASSUME NEW m \in 1..n, k + 1 = 6 + 3 * m - 1 PROVE Goal
  <2>1. s.op = "tool" /\ s.arts = {o(m)}
    BY <1>8, <1>22
  <2>2. /\ o(m) \in pending /\ o(m) \in P /\ o(m) \in Libs /\ o(m) \in Artifacts
        /\ k >= 6 /\ m \in Nat
    BY <1>22, <1>1, <1>2
  <2>3. configOf'[Mps] = Absent /\ \A a \in Artifacts : Vouches(a)'
    BY <2>1, <2>2, <1>22, <1>1, <1>2, <1>3, <1>4, <1>5, <1>6, <1>11, <1>12
  <2>4. crashes = 0 => \A a \in Artifacts \ P : Clean(a)'
    BY <2>1, <2>2, <1>2, <1>3, <1>5, <1>6, <1>13
  <2>5. \A i \in 1..n : k + 1 < 6 + 3 * i => configOf'[o(i)] = Absent
    <3> TAKE i \in 1..n
    <3>1. k + 1 < 6 + 3 * i => k < 6 + 3 * i /\ k >= 2 /\ (s.op = "config" => i # m)
      BY <2>1, <2>2, <1>22, <1>1, <1>10
    <3>2. o(i) \in Artifacts /\ (i # m => o(i) # o(m))
      BY <1>1, <1>2, <1>22
    <3> QED BY <2>1, <3>1, <3>2, <1>3, <1>5, <1>6
  <2>6. (\A a \in P : file'[a] = c(a)) /\ stamp'[Out] = d(Out) /\ mlxOf' = env.mlx
    BY <2>1, <2>2, <1>2, <1>3, <1>5, <1>6
  <2>7. \A i \in 1..n : /\ k + 1 >= 6 + 3 * i - 2 => stamp'[o(i)] = d(o(i))
                        /\ k + 1 >= 6 + 3 * i - 1 => toolOf'[o(i)] = env.tool
    <3> TAKE i \in 1..n
    <3>1. /\ k + 1 >= 6 + 3 * i - 2 => k >= 6 + 3 * i - 2 \/ (i = m /\ s.op = "stamp")
          /\ k + 1 >= 6 + 3 * i - 1 => k >= 6 + 3 * i - 1 \/ (i = m /\ s.op = "tool")
      BY <2>1, <2>2, <1>22, <1>1, <1>10
    <3>2. o(i) \in Artifacts
      BY <1>1, <1>2
    <3> QED BY <2>1, <3>1, <3>2, <1>3, <1>5, <1>6
  <2>8. /\ ~(k + 1 \in 1..5) /\ ~(k + 1 < 3)
    BY <2>2
  <2> QED BY <2>3, <2>4, <2>5, <2>6, <2>7, <2>8, <1>7
<1>23. ASSUME NEW m \in 1..n, k + 1 = 6 + 3 * m PROVE Goal
  <2>1. s.op = "config" /\ s.arts = {o(m)}
    BY <1>8, <1>23
  <2>2. /\ o(m) \in pending /\ o(m) \in P /\ o(m) \in Libs /\ o(m) \in Artifacts
        /\ k >= 6 /\ m \in Nat
    BY <1>23, <1>1, <1>2
  <2>3. configOf'[Mps] = Absent /\ \A a \in Artifacts : Vouches(a)'
    BY <2>1, <2>2, <1>23, <1>1, <1>2, <1>3, <1>4, <1>5, <1>6, <1>11, <1>12
  <2>4. crashes = 0 => \A a \in Artifacts \ P : Clean(a)'
    BY <2>1, <2>2, <1>2, <1>3, <1>5, <1>6, <1>13
  <2>5. \A i \in 1..n : k + 1 < 6 + 3 * i => configOf'[o(i)] = Absent
    <3> TAKE i \in 1..n
    <3>1. k + 1 < 6 + 3 * i => k < 6 + 3 * i /\ k >= 2 /\ (s.op = "config" => i # m)
      BY <2>1, <2>2, <1>23, <1>1, <1>10
    <3>2. o(i) \in Artifacts /\ (i # m => o(i) # o(m))
      BY <1>1, <1>2, <1>23
    <3> QED BY <2>1, <3>1, <3>2, <1>3, <1>5, <1>6
  <2>6. (\A a \in P : file'[a] = c(a)) /\ stamp'[Out] = d(Out) /\ mlxOf' = env.mlx
    BY <2>1, <2>2, <1>2, <1>3, <1>5, <1>6
  <2>7. \A i \in 1..n : /\ k + 1 >= 6 + 3 * i - 2 => stamp'[o(i)] = d(o(i))
                        /\ k + 1 >= 6 + 3 * i - 1 => toolOf'[o(i)] = env.tool
    <3> TAKE i \in 1..n
    <3>1. /\ k + 1 >= 6 + 3 * i - 2 => k >= 6 + 3 * i - 2 \/ (i = m /\ s.op = "stamp")
          /\ k + 1 >= 6 + 3 * i - 1 => k >= 6 + 3 * i - 1 \/ (i = m /\ s.op = "tool")
      BY <2>1, <2>2, <1>23, <1>1, <1>10
    <3>2. o(i) \in Artifacts
      BY <1>1, <1>2
    <3> QED BY <2>1, <3>1, <3>2, <1>3, <1>5, <1>6
  <2>8. /\ ~(k + 1 \in 1..5) /\ ~(k + 1 < 3)
    BY <2>2
  <2> QED BY <2>3, <2>4, <2>5, <2>6, <2>7, <2>8, <1>7
<1>24. k \in 0..5 => k = 0 \/ k = 1 \/ k = 2 \/ k = 3 \/ k = 4 \/ k = 5
  BY <1>10
<1> QED
  BY <1>9, <1>15, <1>16, <1>17, <1>18, <1>19, <1>20, <1>21, <1>22, <1>23, <1>24

LEMMA InitVouches == BuildInit => KInv
<1> SUFFICES ASSUME BuildInit PROVE KInv
  OBVIOUS
<1>1. FirstVersion \in Versions /\ (CHOOSE t \in Toolchains : t # "unavailable") \in Toolchains
  BY BuildAssumption DEF BuildAssumption, FirstVersion
<1>2. KTypes
  BY <1>1 DEF BuildInit, KTypes, NoFiles, None, Absent
<1>3. \A a \in Artifacts : configOf[a] = Absent /\ file[a] = None
  BY DEF BuildInit, NoFiles
<1>4. Out \in Artifacts /\ Mps \in Artifacts
  BY DEF Artifacts
<1>5. Resting
  BY <1>3, <1>4 DEF BuildInit, Resting, AllClean, Clean, CleanMlx
<1> QED
  BY <1>2, <1>3, <1>4, <1>5 DEF KInv, Vouches

(* No step of a build is left: none is running.                            *)
LEMMA RestsWhenEmpty ==
    ASSUME KInv, script = <<>>
    PROVE  Resting
<1>1. ASSUME NEW p, NEW k, Building(p, k) PROVE FALSE
  <2>1. script = Rest(p, k) /\ p \in SUBSET Libs /\ k \in 0..(Steps(p) - 1)
    BY <1>1 DEF Building
  <2> QED BY <2>1, RestIs
<1>2. ~BuildingMps
  BY DEF BuildingMps
<1> QED BY <1>1, <1>2 DEF KInv

(* A build begins with everything as it was. *)
LEMMA BuildBegins ==
    ASSUME KInv, BuildMetallibs
    PROVE  KInv'
<1>1. PICK pending \in SUBSET Libs : script' = BuildScript(pending)
  <2> DEFINE stale == {a \in Names : ~IsCurrent(a)}
             p == IF stale = {} THEN {"rope"} ELSE stale
  <2>1. p \in SUBSET Libs
    BY BuildAssumption DEF BuildAssumption, Names
  <2>2. script' = BuildScript(p)
    BY DEF BuildMetallibs
  <2> QED BY <2>1, <2>2
<1>2. script = <<>>
  BY DEF BuildMetallibs
<1>3. UNCHANGED <<env, file, stamp, toolOf, configOf, mlxOf, edits, crashes>>
  BY DEF BuildMetallibs
<1>4. KTypes' /\ configOf'[Mps] = Absent /\ \A a \in Artifacts : Vouches(a)'
  BY <1>3 DEF KInv, KTypes, Vouches
<1> DEFINE n == Cardinality(pending)
<1>5. n \in Nat /\ Steps(pending) = 6 + 3 * n
  BY <1>1, OrderedIs DEF Steps
<1>6. Resting
  BY <1>2, RestsWhenEmpty
<1>7. AllClean
  BY <1>6 DEF Resting
<1>8. Behind(pending, 0)'
  <2>1. \A a : Clean(a)' = Clean(a)
    BY <1>3 DEF Clean
  <2>2. CleanMlx' = CleanMlx
    BY <1>3 DEF CleanMlx
  <2>3. crashes' = crashes
    BY <1>3
  <2>4. \A i \in 1..n : ~(0 >= 6 + 3 * i - 2) /\ ~(0 >= 6 + 3 * i - 1)
    BY <1>5
  <2> HIDE DEF n
  <2>5. crashes = 0 => CleanMlx /\ \A a \in Artifacts : Clean(a)
    BY <1>7 DEF AllClean
  <2>6. n = Cardinality(pending)
    BY DEF n
  <2> QED BY <2>1, <2>2, <2>3, <2>4, <2>5, <2>6 DEF Behind
<1>9. script' = Rest(pending, 0)
  <2>1. BuildScript(pending) = [i \in 1..Steps(pending) |-> BuildScript(pending)[i]]
    BY <1>1, ScriptIs
  <2>2. Steps(pending) - 0 = Steps(pending) /\ \A i \in 1..Steps(pending) : 0 + i = i
    BY <1>5
  <2> QED BY <1>1, <2>1, <2>2 DEF Rest
<1>10. Building(pending, 0)'
  <2>1. 0 \in 0..(Steps(pending) - 1)
    BY <1>5
  <2> QED BY <2>1, <1>1, <1>8, <1>9 DEF Building
<1> QED
  BY <1>4, <1>10 DEF KInv

LEMMA MpsBegins ==
    ASSUME KInv, BuildMps
    PROVE  KInv'
<1>1. Resting /\ UNCHANGED <<env, file, stamp, toolOf, configOf, mlxOf, edits, crashes>>
  BY RestsWhenEmpty DEF BuildMps
<1>2. script' = <<CompileMps, StampMps>>
  BY DEF BuildMps, CompileMps, StampMps
<1>3. KTypes' /\ configOf'[Mps] = Absent /\ \A a \in Artifacts : Vouches(a)'
  BY <1>1 DEF KInv, KTypes, Vouches
<1>4. BuildingMps'
  BY <1>1, <1>2 DEF BuildingMps, Resting, AllClean, Clean, CleanMlx, CompileMps, StampMps
<1> QED BY <1>3, <1>4 DEF KInv

LEMMA EnvironChanges ==
    ASSUME KInv, NEW new, Change(new),
           new \in [src : [Artifacts -> Versions], mlx : Versions, config : Versions,
                    tool : Toolchains]
    PROVE  KInv'
<1>1. Resting /\ UNCHANGED <<file, stamp, toolOf, configOf, mlxOf, script, crashes>>
  BY RestsWhenEmpty DEF Change
<1>2. edits' \in Nat /\ env' = new
  BY DEF Change, KInv, KTypes
<1>3. KTypes' /\ configOf'[Mps] = Absent /\ \A a \in Artifacts : Vouches(a)'
  BY <1>1, <1>2 DEF KInv, KTypes, Vouches
<1>4. Resting'
  BY <1>1 DEF Resting, AllClean, Clean, CleanMlx
<1> QED BY <1>3, <1>4 DEF KInv

(* What a build has not vouched for yet is not vouched for when it dies.   *)
LEMMA DyingKeeps ==
    ASSUME KInv, NEW replaced \in SUBSET Artifacts, BuildDies(replaced)
    PROVE  KInv'
<1>1. /\ script # <<>> /\ script' = <<>> /\ crashes' = crashes + 1
      /\ replaced \subseteq (IF Head(script).op = "compile" THEN Head(script).arts ELSE {})
      /\ file' = [a \in Artifacts |-> IF a \in replaced THEN Compiled(a) ELSE file[a]]
      /\ UNCHANGED <<env, stamp, toolOf, configOf, mlxOf, edits>>
  BY DEF BuildDies, Put
<1>2. KTypes
  BY DEF KInv
<1>3. \A a \in replaced : configOf[a] = Absent
  <2>1. ~Resting
    BY <1>1 DEF Resting
  <2>2. CASE BuildingMps
    <3>1. Head(script) \in {CompileMps, StampMps}
      BY <2>2 DEF BuildingMps
    <3>2. replaced \subseteq {Mps}
      BY <3>1, <1>1 DEF CompileMps, StampMps
    <3> QED BY <3>2 DEF KInv
  <2>3. ASSUME NEW p, NEW k, Building(p, k) PROVE \A a \in replaced : configOf[a] = Absent
    <3>1. p \in SUBSET Libs /\ k \in 0..(Steps(p) - 1) /\ script = Rest(p, k) /\ Behind(p, k)
      BY <2>3 DEF Building
    <3>2. Head(script) = BuildScript(p)[k + 1]
      BY <3>1, RestIs
    <3> DEFINE n == Cardinality(p)
    <3>3. n \in Nat /\ Steps(p) = 6 + 3 * n
      BY <3>1, OrderedIs DEF Steps
    <3>4. CASE k = 2
      <4>1. BuildScript(p)[3] = [op |-> "compile", arts |-> p \cup {Out}]
        BY <3>1, ScriptIs
      <4>2. Head(script).arts = p \cup {Out}
        BY <4>1, <3>2, <3>4
      <4>3. configOf[Out] = Absent
        BY <3>1, <3>4 DEF Behind
      <4>4. \A i \in 1..n : configOf[Nth(p, i)] = Absent
        BY <3>1, <3>4, <3>3 DEF Behind
      <4>5. \A a \in p : \E i \in 1..n : Nth(p, i) = a
        BY <3>1, OrderedIs
      <4> QED BY <1>1, <4>2, <4>3, <4>4, <4>5
    <3>5. CASE k # 2
      <4>1. Head(script).op # "compile"
        <5>1. CASE k \in 0..5
          <6>1. k = 0 \/ k = 1 \/ k = 3 \/ k = 4 \/ k = 5
            BY <5>1, <3>5
          <6>2. /\ BuildScript(p)[1] = [op |-> "unlink", arts |-> {Out}]
                /\ BuildScript(p)[2] = [op |-> "unlink", arts |-> p]
                /\ BuildScript(p)[4] = [op |-> "hash", arts |-> {Out}]
                /\ BuildScript(p)[5] = [op |-> "mlx", arts |-> {Out}]
                /\ BuildScript(p)[6] = [op |-> "config", arts |-> {Out}]
            BY <3>1, ScriptIs
          <6>3. Head(script) \in {BuildScript(p)[1], BuildScript(p)[2], BuildScript(p)[4],
                                  BuildScript(p)[5], BuildScript(p)[6]}
            BY <6>1, <3>2
          <6> QED BY <6>2, <6>3
        <5>2. CASE k \notin 0..5
          <6> DEFINE i == (k - 3) \div 3
          <6>1. k \in 6..(5 + 3 * n)
            BY <3>1, <3>3, <5>2
          <6>2. /\ i \in 1..n
                /\ k + 1 = 6 + 3 * i - 2 \/ k + 1 = 6 + 3 * i - 1 \/ k + 1 = 6 + 3 * i
            BY <6>1, <3>3
          <6> HIDE DEF i
          <6>3. /\ BuildScript(p)[6 + 3 * i - 2] = [op |-> "stamp", arts |-> {Nth(p, i)}]
                /\ BuildScript(p)[6 + 3 * i - 1] = [op |-> "tool", arts |-> {Nth(p, i)}]
                /\ BuildScript(p)[6 + 3 * i] = [op |-> "config", arts |-> {Nth(p, i)}]
            BY <3>1, <6>2, ScriptIs
          <6>4. Head(script) \in {BuildScript(p)[6 + 3 * i - 2], BuildScript(p)[6 + 3 * i - 1],
                                  BuildScript(p)[6 + 3 * i]}
            BY <6>2, <3>2
          <6> QED BY <6>3, <6>4
        <5> QED BY <5>1, <5>2
      <4> QED BY <4>1, <1>1
    <3> QED BY <3>4, <3>5
  <2> QED BY <2>1, <2>2, <2>3 DEF KInv
<1>4. KTypes'
  <2>1. \A a \in Artifacts : Compiled(a) \in Inputs
    BY <1>2, CompiledType
  <2>2. file' \in [Artifacts -> {None} \cup Inputs]
    BY <1>1, <1>2, <2>1 DEF KTypes
  <2> QED BY <1>1, <1>2, <2>2 DEF KTypes
<1>5. \A a \in Artifacts : Vouches(a)'
  <2> TAKE a \in Artifacts
  <2>1. CASE a \in replaced
    BY <1>1, <1>3, <2>1 DEF Vouches
  <2>2. CASE a \notin replaced
    <3>1. file'[a] = file[a] /\ stamp'[a] = stamp[a] /\ toolOf'[a] = toolOf[a]
          /\ configOf'[a] = configOf[a]
      BY <1>1, <2>2
    <3>2. Vouches(a)
      BY DEF KInv
    <3> QED BY <3>1, <3>2 DEF Vouches
  <2> QED BY <2>1, <2>2
<1>6. Resting'
  <2>1. crashes' # 0
    BY <1>1, <1>2 DEF KTypes
  <2> QED BY <1>1, <2>1 DEF Resting, AllClean
<1> QED
  BY <1>1, <1>4, <1>5, <1>6 DEF KInv

(* Its last step leaves nothing unrecorded.                                *)
LEMMA BuildEnds ==
    ASSUME NEW pending \in SUBSET Libs, KTypes, Behind(pending, Steps(pending))
    PROVE  AllClean
<1> DEFINE n == Cardinality(pending)
<1>1. /\ n \in Nat /\ Steps(pending) = 6 + 3 * n
      /\ \A a \in pending : \E i \in 1..n : Nth(pending, i) = a
  BY OrderedIs DEF Steps
<1>2. /\ \A a \in pending \cup {Out} : file[a] = Compiled(a)
      /\ stamp[Out] = Digest(Out) /\ mlxOf = env.mlx
  BY <1>1 DEF Behind
<1>3. \A i \in 1..n : stamp[Nth(pending, i)] = Digest(Nth(pending, i))
  <2> TAKE i \in 1..n
  <2>1. Steps(pending) >= 6 + 3 * i - 2
    BY <1>1
  <2> QED BY <2>1 DEF Behind
<1>4. \A a \in pending \cup {Out} : a \in Artifacts /\ stamp[a] = Digest(a)
  BY <1>1, <1>2, <1>3 DEF Artifacts
<1>5. \A a \in pending \cup {Out} : Clean(a)
  BY <1>2, <1>4, CompiledType DEF Clean
<1>6. CleanMlx
  <2>1. Compiled(Out)[2] = env.mlx
    BY <1>4, CompiledType
  <2> QED BY <1>2, <2>1 DEF CleanMlx
<1>7. crashes = 0 => \A a \in Artifacts \ (pending \cup {Out}) : Clean(a)
  BY DEF Behind
<1> QED
  BY <1>5, <1>6, <1>7 DEF AllClean

LEMMA BuildEnded ==
    \A p \in SUBSET Libs : KTypes /\ Behind(p, Steps(p)) => AllClean
  BY BuildEnds

(* A step of a build keeps what the builds maintain.                        *)
LEMMA BuildStepKeeps ==
    ASSUME KInv, BuildStep
    PROVE  KInv'
<1>1. KTypes'
  BY StepTypes DEF KInv
<1>2. ~Resting
  BY StepDoes DEF Resting
<1>3. KTypes /\ configOf[Mps] = Absent /\ \A a \in Artifacts : Vouches(a)
  BY DEF KInv
<1>4. ASSUME NEW pending, NEW k, Building(pending, k) PROVE KInv'
  <2>1. /\ pending \in SUBSET Libs /\ k \in 0..(Steps(pending) - 1)
        /\ script = Rest(pending, k) /\ Behind(pending, k)
    BY <1>4 DEF Building
  <2>2. /\ configOf'[Mps] = Absent /\ \A a \in Artifacts : Vouches(a)'
        /\ Behind(pending, k + 1)'
    BY <1>3, <2>1, BuildMoves
  <2>3. /\ script' = Rest(pending, k + 1)
        /\ k + 1 = Steps(pending) => script' = <<>>
    BY <2>1, RestIs, StepDoes
  <2>4. Steps(pending) \in Nat
    BY <2>1, ScriptIs
  <2>5. CASE k + 1 = Steps(pending)
    <3>2. (\A p \in SUBSET Libs : KTypes /\ Behind(p, Steps(p)) => AllClean)'
      BY BuildEnded, PTL
    <3>3. Resting'
      BY <1>1, <2>1, <2>2, <2>3, <2>5, <3>2 DEF Resting
    <3> QED BY <1>1, <2>2, <3>3 DEF KInv
  <2>6. CASE k + 1 # Steps(pending)
    <3>1. k + 1 \in 0..(Steps(pending) - 1)
      BY <2>1, <2>4, <2>6
    <3>2. Building(pending, k + 1)'
      BY <2>1, <2>2, <2>3, <3>1 DEF Building
    <3> QED BY <1>1, <2>2, <3>2 DEF KInv
  <2> QED BY <2>5, <2>6
<1>5. CASE BuildingMps
  <2>1. Mps \in Artifacts /\ Out \in Artifacts /\ Mps # Out /\ Mps \notin Libs
    BY BuildAssumption DEF BuildAssumption, Mps, Out, Artifacts
  <2>2. CASE script = <<CompileMps, StampMps>> /\ AllClean
    <3>1. Head(script) = CompileMps /\ Tail(script) = <<StampMps>>
      BY <2>2
    <3>2. /\ file' = [a \in Artifacts |-> IF a \in {Mps} THEN Compiled(a) ELSE file[a]]
          /\ script' = <<StampMps>>
          /\ UNCHANGED <<stamp, toolOf, configOf, mlxOf, env, crashes>>
          /\ \A a : Compiled(a)' = Compiled(a)
      <4>1. Head(script).op = "compile" /\ Head(script).arts = {Mps}
        BY <3>1 DEF CompileMps
      <4>2. /\ file' = [a \in Artifacts |-> IF a \in {Mps} THEN Compiled(a) ELSE file[a]]
            /\ UNCHANGED <<stamp, toolOf, configOf, mlxOf>>
        BY <4>1, StepDoes
      <4>3. script' = <<StampMps>> /\ UNCHANGED <<env, crashes>>
        BY <3>1, StepDoes
      <4>4. \A a : Compiled(a)' = Compiled(a)
        BY StepDoes
      <4> QED BY <4>2, <4>3, <4>4
    <3>3. configOf'[Mps] = Absent /\ \A a \in Artifacts : Vouches(a)'
      BY <3>2, <2>1, <1>3 DEF Vouches
    <3>4. file'[Mps] = Compiled(Mps)' /\ \A a \in Artifacts \ {Mps} : file'[a] = file[a]
      BY <3>2, <2>1
    <3>5. crashes' = 0 => CleanMlx' /\ \A a \in Artifacts \ {Mps} : Clean(a)'
      BY <3>2, <3>4, <2>1, <2>2 DEF AllClean, CleanMlx, Clean
    <3>6. BuildingMps'
      BY <3>2, <3>4, <3>5 DEF BuildingMps, StampMps, CompileMps
    <3> QED BY <1>1, <3>3, <3>6 DEF KInv
  <2>3. CASE /\ script = <<StampMps>> /\ file[Mps] = Compiled(Mps)
             /\ crashes = 0 => CleanMlx /\ \A a \in Artifacts \ {Mps} : Clean(a)
    <3>1. Head(script) = StampMps /\ Tail(script) = <<>>
      BY <2>3
    <3>2. /\ stamp' = [a \in Artifacts |-> IF a \in {Mps} THEN Digest(a) ELSE stamp[a]]
          /\ script' = <<>>
          /\ UNCHANGED <<file, toolOf, configOf, mlxOf, env, crashes>>
      BY <3>1, StepDoes DEF StampMps
    <3>3. configOf'[Mps] = Absent /\ \A a \in Artifacts : Vouches(a)'
      BY <3>2, <2>1, <1>3 DEF Vouches
    <3>4. stamp'[Mps] = Digest(Mps) /\ \A a \in Artifacts \ {Mps} : stamp'[a] = stamp[a]
      BY <3>2, <2>1
    <3>5. Clean(Mps)'
      BY <3>2, <3>4, <2>1, <2>3, <1>3, CompiledType DEF Clean
    <3>6. AllClean'
      BY <3>2, <3>4, <3>5, <2>3 DEF AllClean, CleanMlx, Clean
    <3> QED BY <1>1, <3>2, <3>3, <3>6 DEF KInv, Resting
  <2> QED BY <1>5, <2>2, <2>3 DEF BuildingMps
<1> QED
  BY <1>2, <1>4, <1>5 DEF KInv

LEMMA BuildKeeps == KInv /\ [BuildNext]_buildVars => KInv'
<1> SUFFICES ASSUME KInv, [BuildNext]_buildVars PROVE KInv'
  OBVIOUS
<1>1. CASE BuildMetallibs
  BY <1>1, BuildBegins
<1>2. CASE BuildMps
  BY <1>2, MpsBegins
<1>3. CASE BuildStep
  BY <1>3, BuildStepKeeps
<1>4. CASE \E replaced \in SUBSET Artifacts : BuildDies(replaced)
  BY <1>4, DyingKeeps
<1>5. env \in [src : [Artifacts -> Versions], mlx : Versions, config : Versions,
                tool : Toolchains]
  BY DEF KInv, KTypes
<1>6. CASE \E a \in Artifacts, v \in Versions : Change([env EXCEPT !.src[a] = v])
  <2>1. PICK a \in Artifacts, v \in Versions : Change([env EXCEPT !.src[a] = v])
    BY <1>6
  <2> DEFINE new == [env EXCEPT !.src[a] = v]
  <2>2. new \in [src : [Artifacts -> Versions], mlx : Versions, config : Versions, tool : Toolchains]
    BY <1>5
  <2>3. Change(new)
    BY <2>1
  <2> HIDE DEF new
  <2> QED BY <2>2, <2>3, EnvironChanges
<1>7. CASE \E v \in Versions : Change([env EXCEPT !.mlx = v])
  <2>1. PICK v \in Versions : Change([env EXCEPT !.mlx = v])
    BY <1>7
  <2> DEFINE new == [env EXCEPT !.mlx = v]
  <2>2. new \in [src : [Artifacts -> Versions], mlx : Versions, config : Versions, tool : Toolchains]
    BY <1>5
  <2>3. Change(new)
    BY <2>1
  <2> HIDE DEF new
  <2> QED BY <2>2, <2>3, EnvironChanges
<1>8. CASE \E v \in Versions : Change([env EXCEPT !.config = v])
  <2>1. PICK v \in Versions : Change([env EXCEPT !.config = v])
    BY <1>8
  <2> DEFINE new == [env EXCEPT !.config = v]
  <2>2. new \in [src : [Artifacts -> Versions], mlx : Versions, config : Versions, tool : Toolchains]
    BY <1>5
  <2>3. Change(new)
    BY <2>1
  <2> HIDE DEF new
  <2> QED BY <2>2, <2>3, EnvironChanges
<1>9. CASE \E t \in Toolchains : Change([env EXCEPT !.tool = t])
  <2>1. PICK t \in Toolchains : Change([env EXCEPT !.tool = t])
    BY <1>9
  <2> DEFINE new == [env EXCEPT !.tool = t]
  <2>2. new \in [src : [Artifacts -> Versions], mlx : Versions, config : Versions, tool : Toolchains]
    BY <1>5
  <2>3. Change(new)
    BY <2>1
  <2> HIDE DEF new
  <2> QED BY <2>2, <2>3, EnvironChanges
<1>10. CASE UNCHANGED buildVars
  <2>1. UNCHANGED <<env, file, stamp, toolOf, configOf, mlxOf, script, edits, crashes>>
    BY <1>10 DEF buildVars
  <2>2. KTypes' /\ configOf'[Mps] = Absent /\ \A a \in Artifacts : Vouches(a)'
    BY <2>1 DEF KInv, KTypes, Vouches
  <2>3. \A a : Clean(a)' = Clean(a) /\ Digest(a)' = Digest(a) /\ Compiled(a)' = Compiled(a)
    BY <2>1 DEF Clean, Digest, Compiled
  <2>4. CleanMlx' = CleanMlx /\ AllClean' = AllClean
    BY <2>1, <2>3 DEF CleanMlx, AllClean
  <2>5. Resting => Resting'
    BY <2>1, <2>4 DEF Resting
  <2>6. BuildingMps => BuildingMps'
    BY <2>1, <2>3, <2>4 DEF BuildingMps
  <2>7. ASSUME NEW p, NEW k, Building(p, k) PROVE Building(p, k)'
    <3>1. Behind(p, k)'
      BY <2>1, <2>3, <2>4, <2>7, Zenon DEF Behind, Building
    <3> QED BY <2>1, <2>7, <3>1 DEF Building
  <2> QED BY <2>2, <2>5, <2>6, <2>7 DEF KInv
<1> QED
  BY <1>1, <1>2, <1>3, <1>4, <1>6, <1>7, <1>8, <1>9, <1>10 DEF BuildNext

(* What the records say between builds is so.                              *)
LEMMA VouchedFor == KInv => RecordsVouch
<1> SUFFICES ASSUME KInv, script = <<>>
             PROVE  /\ \A a \in Names : IsCurrent(a) => file[a] = Compiled(a)
                    /\ ~NeedsRebuild => SubSeq(file[Out], 1, 3) = SubSeq(Compiled(Out), 1, 3)
                    /\ crashes = 0 =>
                         /\ \A a \in Artifacts : file[a] # None /\ ~IsStale(a)
                              => SubSeq(file[a], 1, 2) = Digest(a)
                         /\ file[Out] # None /\ ~MlxMismatch => file[Out][2] = env.mlx
  BY DEF RecordsVouch, SkippedIsCurrent, LoadedIsCurrent
<1>1. AllClean
  BY RestsWhenEmpty DEF Resting
<1>2. KTypes /\ \A a \in Artifacts : Vouches(a)
  BY DEF KInv
<1>3. Out \in Artifacts /\ Names \subseteq Libs /\ Libs \subseteq Artifacts
  BY DEF Artifacts, Names
<1>4. \A a \in Artifacts : file[a] # None =>
        file[a] = <<file[a][1], file[a][2], file[a][3], file[a][4]>>
  BY <1>2 DEF KTypes, Inputs
<1>5. \A a \in Artifacts : stamp[a] # None => stamp[a] = <<stamp[a][1], stamp[a][2]>>
  BY <1>2 DEF KTypes, Sources
<1>6. \A w, x, y, z : /\ SubSeq(<<w, x, y, z>>, 1, 3) = <<w, x, y>>
                     /\ SubSeq(<<w, x, y, z>>, 1, 2) = <<w, x>>
  <2> TAKE w, x, y, z
  <2> DEFINE S == {w, x, y, z}
             t == <<w, x, y, z>>
  <2>1. t \in Seq(S) /\ Len(t) = 4 /\ t[1] = w /\ t[2] = x /\ t[3] = y
    OBVIOUS
  <2> HIDE DEF t, S
  <2>2. \A n \in 0..4 : /\ SubSeq(t, 1, n) \in Seq(S) /\ Len(SubSeq(t, 1, n)) = n
                        /\ \A i \in 1..n : SubSeq(t, 1, n)[i] = t[i]
    <3> TAKE n \in 0..4
    <3>1. n \in 0..Len(t) /\ t \in Seq(S)
      BY <2>1
    <3> QED BY <3>1, CutAt
  <2>3. SubSeq(t, 1, 3) = <<w, x, y>>
    <3> DEFINE u == SubSeq(t, 1, 3)
    <3>1. u \in Seq(S) /\ Len(u) = 3 /\ u[1] = w /\ u[2] = x /\ u[3] = y
      BY <2>1, <2>2
    <3> HIDE DEF u
    <3>2. u = <<w, x, y>>
      BY <3>1
    <3> QED BY <3>2 DEF u
  <2>4. SubSeq(t, 1, 2) = <<w, x>>
    <3> DEFINE u == SubSeq(t, 1, 2)
    <3>1. u \in Seq(S) /\ Len(u) = 2 /\ u[1] = w /\ u[2] = x
      BY <2>1, <2>2
    <3> HIDE DEF u
    <3>2. u = <<w, x>>
      BY <3>1
    <3> QED BY <3>2 DEF u
  <2> QED BY <2>3, <2>4 DEF t
<1>7. \A a \in Artifacts : /\ Digest(a) = <<env.src[a], env.mlx>>
                           /\ Compiled(a) = <<env.src[a], env.mlx, env.config, env.tool>>
                           /\ env.config # Absent /\ Digest(a) # None
  BY <1>2, CompiledType DEF Digest, Compiled
<1>8. ASSUME NEW a \in Names, IsCurrent(a) PROVE file[a] = Compiled(a)
  <2>1. a \in Artifacts /\ a \in Libs
    BY <1>3
  <2>2. /\ file[a] # None /\ stamp[a] = Digest(a) /\ configOf[a] = env.config
        /\ toolOf[a] = env.tool
    BY <1>8 DEF IsCurrent
  <2>3. /\ file[a][1] = Digest(a)[1] /\ file[a][2] = Digest(a)[2] /\ file[a][3] = env.config
        /\ file[a][4] = env.tool
    BY <1>2, <1>7, <2>1, <2>2 DEF Vouches
  <2>4. Digest(a)[1] = env.src[a] /\ Digest(a)[2] = env.mlx
    BY <1>7, <2>1
  <2> QED BY <1>4, <1>7, <2>1, <2>2, <2>3, <2>4
<1>9. ASSUME ~NeedsRebuild PROVE SubSeq(file[Out], 1, 3) = SubSeq(Compiled(Out), 1, 3)
  <2>1. file[Out] # None /\ stamp[Out] = Digest(Out) /\ configOf[Out] = env.config
    BY <1>9 DEF NeedsRebuild
  <2>2. /\ file[Out][1] = Digest(Out)[1] /\ file[Out][2] = Digest(Out)[2]
        /\ file[Out][3] = env.config
    BY <1>2, <1>3, <1>7, <2>1 DEF Vouches
  <2>3. Digest(Out)[1] = env.src[Out] /\ Digest(Out)[2] = env.mlx
    BY <1>7, <1>3
  <2>4. SubSeq(file[Out], 1, 3) = <<env.src[Out], env.mlx, env.config>>
    <3>1. file[Out] = <<env.src[Out], env.mlx, env.config, file[Out][4]>>
      BY <1>4, <1>3, <2>1, <2>2, <2>3
    <3> DEFINE w == env.src[Out]
               x == env.mlx
               y == env.config
               z == file[Out][4]
    <3> HIDE DEF w, x, y, z
    <3>2. file[Out] = <<w, x, y, z>>
      BY <3>1 DEF w, x, y, z
    <3>3. SubSeq(file[Out], 1, 3) = <<w, x, y>>
      BY <3>2, <1>6
    <3> QED BY <3>3 DEF w, x, y
  <2>5. SubSeq(Compiled(Out), 1, 3) = <<env.src[Out], env.mlx, env.config>>
    BY <1>6, <1>7, <1>3
  <2> QED BY <2>4, <2>5
<1>10. ASSUME crashes = 0, NEW a \in Artifacts, file[a] # None, ~IsStale(a)
       PROVE  SubSeq(file[a], 1, 2) = Digest(a)
  <2>1. stamp[a] = <<file[a][1], file[a][2]>>
    BY <1>1, <1>10 DEF AllClean, Clean
  <2>2. stamp[a] # None
    BY <2>1 DEF None
  <2>3. stamp[a] = Digest(a)
    BY <2>2, <1>10 DEF IsStale
  <2>4. SubSeq(file[a], 1, 2) = <<file[a][1], file[a][2]>>
    <3>1. file[a] = <<file[a][1], file[a][2], file[a][3], file[a][4]>>
      BY <1>4, <1>10
    <3> DEFINE w == file[a][1]
               x == file[a][2]
               y == file[a][3]
               z == file[a][4]
    <3> HIDE DEF w, x, y, z
    <3>2. file[a] = <<w, x, y, z>>
      BY <3>1 DEF w, x, y, z
    <3>3. SubSeq(file[a], 1, 2) = <<w, x>>
      BY <3>2, <1>6
    <3> QED BY <3>3 DEF w, x
  <2> QED BY <2>1, <2>3, <2>4
<1>11. ASSUME crashes = 0, file[Out] # None, ~MlxMismatch
       PROVE  file[Out][2] = env.mlx
  <2>1. mlxOf = file[Out][2]
    BY <1>1, <1>11 DEF AllClean, CleanMlx
  <2>2. file[Out][2] \in Versions
    BY <1>2, <1>3, <1>11 DEF KTypes, Inputs
  <2>3. mlxOf # Absent
    BY <2>1, <2>2, BuildAssumption DEF BuildAssumption, Absent
  <2> QED BY <2>1, <2>3, <1>11 DEF MlxMismatch
<1> QED
  BY <1>8, <1>9, <1>10, <1>11

(* A build configuration is on disk only next to what it vouches for,      *)
(* wherever builds were interrupted (metal/build.py:353-400).              *)
THEOREM BuildInvariance == BuildSpec => []KInv
<1> QED BY InitVouches, BuildKeeps, PTL DEF BuildSpec

(* The records vouch only for what is on disk.                             *)
THEOREM RecordsAlwaysVouch == BuildSpec => []RecordsVouch
<1> QED BY BuildInvariance, VouchedFor, PTL

-----------------------------------------------------------------------------
(* The expert store. *)

Bytes == [e \in Entry |-> SizeOf(e)]

LEMMA EntryBytes ==
    /\ Bytes \in [Entry -> Nat]
    /\ \A e \in Entry : Bytes[e] = SizeOf(e) /\ SizeOf(e) \in Nat
  <1>1. \A e \in Entry : SizeOf(e) \in Nat
    BY ExpertAssumption DEF Entry, SizeOf
  <1> QED BY <1>1 DEF Bytes

(* BytesOf adds up the sizes of the entries. *)
LEMMA BytesWeigh ==
    ASSUME NEW seq \in Seq(Entry)
    PROVE  BytesOf(seq) = Weigh(seq, Bytes) /\ BytesOf(seq) \in Nat
  <1>1. DOMAIN seq = 1..Len(seq) /\ \A i \in DOMAIN seq : seq[i] \in Entry
    <2> HIDE DEF Entry
    <2> QED OBVIOUS
  <1>2. \A i \in DOMAIN seq : Bytes[seq[i]] = SizeOf(seq[i])
    BY <1>1, EntryBytes
  <1>3. [i \in 1..Len(seq) |-> SizeOf(seq[i])] = [i \in DOMAIN seq |-> Bytes[seq[i]]]
    BY <1>1, <1>2
  <1>4. Weigh(seq, Bytes) \in Nat
    BY EntryBytes, WeighType
  <1> QED
    BY <1>3, <1>4 DEF BytesOf, Weigh

(* The entries a call asks for: this layer's, each once, in a sequence. *)
LEMMA WantedFacts ==
    ASSUME layer \in 1..Len(ExpertBytes), NEW touched \in SUBSET Experts
    PROVE  /\ Wanted(touched) \in Seq(Entry) /\ Distinct(Wanted(touched))
           /\ \A e \in Elems(Wanted(touched)) : e[1] = layer
           /\ Elems(Wanted(touched)) = {<<layer, e>> : e \in touched}
  <1>1. LayerOrder \in Seq(Entry) /\ DOMAIN LayerOrder = 1..NumExperts
        /\ \A i \in 1..NumExperts : LayerOrder[i] = <<layer, i - 1>>
    <2>1. NumExperts \in Nat
      BY ExpertAssumption
    <2>2. \A i \in 1..NumExperts : <<layer, i - 1>> \in Entry
      BY <2>1 DEF Entry, Experts
    <2> HIDE DEF Entry
    <2>3. LayerOrder \in [1..NumExperts -> Entry]
      BY <2>2 DEF LayerOrder
    <2> QED BY <2>1, <2>3 DEF LayerOrder
  <1>2. Distinct(LayerOrder)
    BY <1>1, ExpertAssumption DEF Distinct
  <1> DEFINE I == {e + 1 : e \in touched}
  <1>3. /\ Part(LayerOrder, I) \in Seq(Entry)
        /\ \A x : x \in Elems(Part(LayerOrder, I)) <=> \E i \in DOMAIN LayerOrder : i \in I /\ x = LayerOrder[i]
        /\ Distinct(LayerOrder) => Distinct(Part(LayerOrder, I))
    <2> HIDE DEF I
    <2> QED BY <1>1, PartElems
  <1>4. I \subseteq 1..NumExperts
    BY ExpertAssumption DEF Experts
  <1>5. \A x : x \in Elems(Part(LayerOrder, I)) <=> \E i \in I : x = <<layer, i - 1>>
    BY <1>1, <1>3, <1>4
  <1>6. \A i \in I : i - 1 \in touched
    BY ExpertAssumption DEF Experts
  <1>7. \A e \in touched : e + 1 \in I /\ (e + 1) - 1 = e
    BY ExpertAssumption DEF Experts
  <1>8. Elems(Part(LayerOrder, I)) = {<<layer, e>> : e \in touched}
    <2> HIDE DEF I
    <2>1. \A x \in Elems(Part(LayerOrder, I)) : x \in {<<layer, e>> : e \in touched}
      BY <1>5, <1>6
    <2>2. \A e \in touched : <<layer, e>> \in Elems(Part(LayerOrder, I))
      BY <1>5, <1>7
    <2> QED BY <2>1, <2>2
  <1>9. Wanted(touched) = Part(LayerOrder, I)
    BY DEF Wanted
  <1> HIDE DEF I
  <1> QED BY <1>2, <1>3, <1>8, <1>9

(* Reading what is missing and moving all to the end: the store has what it
   had and what was asked for, each once, the latter last; the bytes are the
   old ones and those read. *)
LEMMA RecencyFacts ==
    ASSUME NEW old \in Seq(Entry), Distinct(old), NEW want \in Seq(Entry), Distinct(want)
    PROVE  LET new == Without(old, Elems(want)) \o want IN
           /\ new \in Seq(Entry) /\ Distinct(new)
           /\ Elems(new) = Elems(old) \cup Elems(want)
           /\ BytesOf(new) = BytesOf(old) + BytesOf(Without(want, Elems(old)))
  <1> DEFINE kept == Without(old, Elems(want))
             read == Without(want, Elems(old))
             new == kept \o want
             first == old \o read
  <1>1. kept \in Seq(Entry) /\ Elems(kept) = Elems(old) \ Elems(want) /\ Distinct(kept)
    BY WithoutElems
  <1>2. read \in Seq(Entry) /\ Elems(read) = Elems(want) \ Elems(old) /\ Distinct(read)
    BY WithoutElems
  <1> HIDE DEF kept, read
  <1>3. new \in Seq(Entry) /\ Distinct(new) /\ Elems(new) = Elems(old) \cup Elems(want)
    <2>1. Elems(kept) \cap Elems(want) = {} /\ Elems(kept) \cup Elems(want) = Elems(old) \cup Elems(want)
      BY <1>1
    <2> QED BY <1>1, <2>1, ConcatElems
  <1>4. first \in Seq(Entry) /\ Distinct(first) /\ Elems(first) = Elems(old) \cup Elems(want)
    <2>1. Elems(old) \cap Elems(read) = {} /\ Elems(old) \cup Elems(read) = Elems(old) \cup Elems(want)
      BY <1>2
    <2> QED BY <1>2, <2>1, ConcatElems
  <1>5. Weigh(first, Bytes) = Weigh(old, Bytes) + Weigh(read, Bytes)
    BY <1>2, EntryBytes, WeighConcat
  <1> HIDE DEF new, first
  <1>6. Weigh(new, Bytes) = Weigh(first, Bytes)
    <2>1. Elems(new) = Elems(first)
      BY <1>3, <1>4
    <2>2. Bytes \in [Entry -> Nat]
      BY EntryBytes
    <2> HIDE DEF Bytes, Entry
    <2> QED BY ONLY <1>3, <1>4, <2>1, <2>2, Rearranged
  <1>7. BytesOf(new) = BytesOf(old) + BytesOf(read)
    BY <1>2, <1>3, <1>5, <1>6, BytesWeigh
  <1> QED
    BY <1>3, <1>7 DEF new, kept, read

(* The oldest that go are the fewest that make room, and none of the last
   `keep`; what stays weighs the rest. *)
LEMMA EvictedFacts ==
    ASSUME NEW seq \in Seq(Entry), NEW keep \in Nat, keep <= Len(seq),
           NEW n, n = Evicted(seq, BytesOf(seq), keep)
    PROVE  /\ n \in 0..(Len(seq) - keep)
           /\ SubSeq(seq, n + 1, Len(seq)) \in Seq(Entry)
           /\ BytesOf(SubSeq(seq, n + 1, Len(seq))) = BytesOf(seq) - BytesOf(SubSeq(seq, 1, n))
           /\ BytesOf(SubSeq(seq, n + 1, Len(seq))) <= CacheBytes \/ n = Len(seq) - keep
  <1> DEFINE total == BytesOf(seq)
             Fits(k) == Enough(seq, total, keep, k)
             T == {k \in 0..Len(seq) : Fits(k)}
             last == Len(seq) - keep
  <1>1. Len(seq) \in Nat /\ last \in T
    BY DEF Enough
  <1>2. PICK m \in T : \A k \in T : m <= k
    <2>1. T \subseteq Nat /\ T # {}
      BY <1>1
    <2> HIDE DEF T
    <2> QED BY <2>1, LeastNat
  <1>3. m \in 0..Len(seq) /\ Fits(m) /\ \A k \in 0..(m - 1) : ~Fits(k)
    <2>1. m \in 0..Len(seq) /\ Fits(m)
      OBVIOUS
    <2>2. ASSUME NEW k \in 0..(m - 1) PROVE ~Fits(k)
      <3>1. k \in 0..Len(seq) /\ k < m
        BY <1>1, <2>1
      <3>2. k \notin T
        <4> HIDE DEF T
        <4> QED BY <1>2, <2>1, <3>1
      <3> HIDE DEF Fits
      <3> QED BY <3>1, <3>2
    <2> QED BY <2>1, <2>2
  <1> HIDE DEF Fits
  <1>4. n = CHOOSE k \in 0..Len(seq) : Fits(k) /\ \A j \in 0..(k - 1) : ~Fits(j)
    BY DEF Evicted, Fits
  <1>5. n \in 0..Len(seq) /\ Fits(n) /\ \A j \in 0..(n - 1) : ~Fits(j)
    BY <1>3, <1>4
  <1>6. n <= last
    <2>1. Fits(last) /\ last \in Nat
      BY <1>1
    <2>2. ~(last \in 0..(n - 1))
      BY <1>5, <2>1
    <2> HIDE DEF last
    <2> QED BY <1>5, <2>1, <2>2
  <1> DEFINE gone == SubSeq(seq, 1, n)
             rest == SubSeq(seq, n + 1, Len(seq))
  <1>7. gone \in Seq(Entry) /\ rest \in Seq(Entry) /\ seq = gone \o rest
    <2> HIDE DEF Entry
    <2>1. n \in 0..Len(seq)
      BY <1>5
    <2> QED BY ONLY <2>1, CutAt, seq \in Seq(Entry) DEF gone, rest
  <1>8. BytesOf(seq) = BytesOf(gone) + BytesOf(rest)
    <2> HIDE DEF gone, rest
    <2>1. Weigh(gone \o rest, Bytes) = Weigh(gone, Bytes) + Weigh(rest, Bytes)
      BY <1>7, EntryBytes, WeighConcat
    <2> QED BY <1>7, <2>1, BytesWeigh
  <1>9. BytesOf(gone) \in Nat /\ BytesOf(rest) \in Nat /\ total \in Nat
    <2> HIDE DEF gone, rest
    <2> QED BY <1>7, BytesWeigh
  <1>10. total - BytesOf(gone) <= CacheBytes \/ Len(seq) - n <= keep
    BY <1>5 DEF Fits, Enough
  <1> HIDE DEF gone, rest, total
  <1>11. BytesOf(rest) = BytesOf(seq) - BytesOf(gone)
    BY <1>8, <1>9 DEF total
  <1>12. BytesOf(rest) <= CacheBytes \/ n = last
    <2>1. CASE Len(seq) - n <= keep
      BY <1>1, <1>5, <1>6, <2>1
    <2>2. CASE total - BytesOf(gone) <= CacheBytes
      BY <1>11, <2>2 DEF total
    <2> QED BY <1>10, <2>1, <2>2
  <1> QED
    BY <1>1, <1>5, <1>6, <1>7, <1>11, <1>12 DEF rest, gone
(* What stays after an eviction that spares what was asked for. *)
LEMMA RestFacts ==
    ASSUME NEW S, NEW kept \in Seq(S), NEW want \in Seq(S), NEW n \in 0..Len(kept),
           NEW rest, rest = SubSeq(kept \o want, n + 1, Len(kept \o want))
    PROVE  /\ rest \in Seq(S) /\ Elems(want) \subseteq Elems(rest)
           /\ Distinct(kept \o want) => Distinct(rest)
           /\ n = Len(kept) => Elems(rest) \subseteq Elems(want)
  <1> DEFINE seq == kept \o want
  <1>1. /\ seq \in Seq(S) /\ Len(seq) = Len(kept) + Len(want)
        /\ \A i \in 1..Len(want) : seq[Len(kept) + i] = want[i]
    BY ConcatAt
  <1>2. n \in Nat /\ n <= Len(kept) /\ Len(kept) \in Nat /\ Len(want) \in Nat
    OBVIOUS
  <1> HIDE DEF seq
  <1>3. rest = SubSeq(seq, n + 1, Len(seq))
    BY DEF seq
  <1>4. n \in 0..Len(seq)
    BY <1>1, <1>2
  <1>5. /\ rest \in Seq(S) /\ Len(rest) = Len(seq) - n
        /\ \A i \in 1..(Len(seq) - n) : rest[i] = seq[n + i]
    BY ONLY <1>1, <1>3, <1>4, CutAt
  <1>6. DOMAIN rest = 1..(Len(seq) - n) /\ DOMAIN want = 1..Len(want) /\ DOMAIN seq = 1..Len(seq)
    BY <1>1, <1>5
  <1>7. ASSUME NEW i \in DOMAIN want PROVE want[i] \in Elems(rest)
    <2> DEFINE k == Len(kept) - n + i
    <2>1. k \in 1..(Len(seq) - n) /\ n + k = Len(kept) + i /\ i \in 1..Len(want)
      BY <1>1, <1>2, <1>6
    <2> HIDE DEF k
    <2>2. rest[k] = want[i] /\ k \in DOMAIN rest
      BY <1>1, <1>5, <1>6, <2>1
    <2> QED BY <2>2 DEF Elems
  <1>8. ASSUME Distinct(seq), NEW i \in DOMAIN rest, NEW j \in DOMAIN rest, rest[i] = rest[j]
        PROVE  i = j
    <2>1. /\ i \in 1..(Len(seq) - n) /\ j \in 1..(Len(seq) - n)
          /\ n + i \in DOMAIN seq /\ n + j \in DOMAIN seq
      BY <1>1, <1>2, <1>6
    <2>2. seq[n + i] = seq[n + j]
      BY <1>5, <1>8, <2>1
    <2>3. n + i = n + j
      BY <1>8, <2>1, <2>2 DEF Distinct
    <2> QED BY <1>2, <2>1, <2>3
  <1>9. ASSUME n = Len(kept), NEW i \in DOMAIN rest PROVE rest[i] \in Elems(want)
    <2>1. i \in 1..Len(want) /\ i \in 1..(Len(seq) - n)
      BY <1>1, <1>2, <1>6, <1>9
    <2>2. rest[i] = want[i]
      BY <1>1, <1>5, <1>9, <2>1
    <2> QED BY <1>6, <2>1, <2>2 DEF Elems
  <1>10. Elems(want) \subseteq Elems(rest)
    BY <1>7 DEF Elems
  <1>11. Distinct(seq) => Distinct(rest)
    BY <1>8 DEF Distinct
  <1>12. n = Len(kept) => Elems(rest) \subseteq Elems(want)
    BY <1>9 DEF Elems
  <1> QED
    BY <1>5, <1>10, <1>11, <1>12 DEF seq

-----------------------------------------------------------------------------
(* The store starts empty. *)
LEMMA ExInitInv == ExInit => ExInv
  <1> SUFFICES ASSUME ExInit PROVE ExInv
    OBVIOUS
  <1>1. ExTypeOK
    <2>1. <<>> \in Seq(Entry)
      OBVIOUS
    <2>2. Len(ExpertBytes) \in Nat /\ Len(ExpertBytes) >= 1
      BY ExpertAssumption
    <2> HIDE DEF Entry
    <2> QED BY <2>1, <2>2, ExpertAssumption DEF ExInit, ExTypeOK
  <1>2. BytesOf(<<>>) = 0
    <2>1. <<>> \in Seq(Entry) /\ Weigh(<<>>, Bytes) = 0
      BY WeighEmpty
    <2> QED BY <2>1, BytesWeigh
  <1>3. Distinct(<<>>)
    BY DEF Distinct
  <1>4. ~(0 > CacheBytes)
    BY ExpertAssumption
  <1>5. ExpertsServed
    BY <1>2, <1>3, <1>4 DEF ExInit, ExpertsServed
  <1> QED
    BY <1>1, <1>5 DEF ExInit, ExInv

(* The eviction of a call leaves all the call asked for. *)
LEMMA GetPreserves ==
    ASSUME ExInv, NEW touched \in SUBSET Experts, Get(touched)
    PROVE  ExInv'
  <1> DEFINE want == Wanted(touched)
             kept == Without(entries, Elems(want))
             seq == kept \o want
             n == Evicted(seq, BytesOf(seq), Len(want))
             rest == SubSeq(seq, n + 1, Len(seq))
  <1>1. /\ ExTypeOK /\ Alive /\ stack = {} /\ partial = {}
        /\ exBytes = BytesOf(entries) /\ Distinct(entries)
        /\ layer \in 1..Len(ExpertBytes) /\ entries \in Seq(Entry)
    BY DEF ExInv, ExTypeOK, ExpertsServed, Get
  <1>2. /\ want \in Seq(Entry) /\ Distinct(want)
        /\ \A e \in Elems(want) : e[1] = layer
    <2> HIDE DEF Entry
    <2> QED BY <1>1, WantedFacts
  <1>3. Missing(touched) = Without(want, Elems(entries)) /\ Recency(touched) = seq
    BY DEF Missing, Recency
  <1> HIDE DEF want
  <1>4. /\ seq \in Seq(Entry) /\ Distinct(seq)
        /\ BytesOf(seq) = exBytes + BytesOf(Missing(touched))
    <2> HIDE DEF Entry
    <2> QED BY <1>1, <1>2, <1>3, RecencyFacts
  <1>5. kept \in Seq(Entry)
    BY ONLY <1>1, WithoutElems
  <1> HIDE DEF kept
  <1>6. Len(seq) = Len(kept) + Len(want) /\ Len(kept) \in Nat /\ Len(want) \in Nat
    BY <1>2, <1>5, ConcatAt
  <1> HIDE DEF seq, n
  <1>7. Len(want) <= Len(seq) /\ n = Evicted(seq, BytesOf(seq), Len(want))
    BY <1>6 DEF n
  <1>8. /\ n \in 0..(Len(seq) - Len(want))
        /\ rest \in Seq(Entry)
        /\ BytesOf(rest) = BytesOf(seq) - BytesOf(SubSeq(seq, 1, n))
        /\ BytesOf(rest) <= CacheBytes \/ n = Len(seq) - Len(want)
    BY ONLY <1>4, <1>6, <1>7, EvictedFacts
  <1>9. n \in 0..Len(kept) /\ (n = Len(seq) - Len(want) => n = Len(kept))
    BY <1>6, <1>8
  <1>10. /\ Elems(want) \subseteq Elems(rest) /\ Distinct(rest)
         /\ n = Len(kept) => Elems(rest) \subseteq Elems(want)
    <2>1. rest = SubSeq(kept \o want, n + 1, Len(kept \o want)) /\ Distinct(kept \o want)
      BY <1>4 DEF seq, rest
    <2>2. want \in Seq(Entry) /\ n \in 0..Len(kept)
      BY <1>2, <1>9
    <2> HIDE DEF rest, Entry
    <2>3. \A m \in 0..Len(kept) : \A r : r = SubSeq(kept \o want, m + 1, Len(kept \o want)) =>
             /\ Elems(want) \subseteq Elems(r)
             /\ Distinct(kept \o want) => Distinct(r)
             /\ m = Len(kept) => Elems(r) \subseteq Elems(want)
      BY ONLY <1>5, <2>2, RestFacts
    <2> QED BY ONLY <2>1, <2>2, <2>3
  <1> HIDE DEF rest
  <1>11. BytesOf(rest) \in Nat
    BY ONLY <1>8, BytesWeigh
  <1>12. /\ entries' = rest /\ exBytes' = BytesOf(rest)
         /\ stack' = Elems(want) \cap Elems(rest)
         /\ exPhase' = IF Elems(want) \subseteq Elems(rest) \ partial THEN exPhase ELSE "key_error"
         /\ gets' = gets + 1 /\ gets < MaxGets /\ partial' = partial /\ layer' = layer
    BY <1>3, <1>4, <1>8 DEF Get, want, n, rest
  <1>13. exPhase' = exPhase /\ partial' = {}
    BY <1>1, <1>10, <1>12
  <1>14. ExTypeOK'
    <2>1. Elems(want) \subseteq Entry
      BY <1>2 DEF Elems
    <2>2. gets' \in 0..MaxGets
      BY <1>1, <1>12, ExpertAssumption DEF ExTypeOK
    <2> HIDE DEF Entry
    <2> QED BY <1>1, <1>8, <1>11, <1>12, <1>13, <2>1, <2>2 DEF ExTypeOK
  <1>15. ASSUME exBytes' > CacheBytes
         PROVE  /\ stack' = Elems(entries')
                /\ \A i, j \in DOMAIN entries' : entries'[i][1] = entries'[j][1]
    <2>1. n = Len(kept)
      <3>1. ~(BytesOf(rest) <= CacheBytes)
        BY <1>11, <1>12, <1>15, ExpertAssumption
      <3> QED BY <1>8, <1>9, <3>1
    <2>2. \A i \in DOMAIN rest : rest[i] \in Elems(want)
      BY <1>10, <2>1 DEF Elems
    <2>3. \A i \in DOMAIN rest : rest[i][1] = layer
      BY <1>2, <2>2
    <2>4. stack' = Elems(entries')
      BY <1>10, <1>12, <2>1
    <2> QED BY <1>12, <2>3, <2>4
  <1>16. ExpertsServed'
    <2>1. exPhase # "key_error"
      BY DEF ExInv, ExpertsServed
    <2> QED BY <1>10, <1>12, <1>13, <1>15, <2>1 DEF ExpertsServed, Alive
  <1> QED
    BY <1>13, <1>14, <1>16 DEF ExInv

(* A call that raises ends the engine; the store keeps what it can hold. *)
LEMMA FailurePreserves ==
    ASSUME ExInv, NEW touched \in SUBSET Experts,
           \/ ReadRaises(touched)
           \/ \E done \in 0..(NumExperts - 1) : \E some \in 0..(ExpertBytes[layer] - 1) :
                ConversionRaises(touched, done, some)
    PROVE  ExInv'
  <1>1. ExTypeOK /\ exBytes = BytesOf(entries)
    BY DEF ExInv, ExpertsServed, ReadRaises, ConversionRaises
  <1>2. ASSUME ReadRaises(touched) PROVE ExTypeOK'
    <2> HIDE DEF Entry
    <2> QED BY <1>1, <1>2 DEF ExTypeOK, ReadRaises
  <1>3. ASSUME NEW done \in 0..(NumExperts - 1), NEW some \in 0..(ExpertBytes[layer] - 1),
               ConversionRaises(touched, done, some)
        PROVE  ExTypeOK'
    <2> DEFINE want == Wanted(touched)
               missing == Missing(touched)
    <2>1. layer \in 1..Len(ExpertBytes) /\ entries \in Seq(Entry)
      BY <1>1 DEF ExTypeOK
    <2>2. want \in Seq(Entry)
      <3> HIDE DEF Entry
      <3> QED BY <2>1, WantedFacts
    <2>3. missing = Without(want, Elems(entries))
      BY DEF Missing
    <2> HIDE DEF want
    <2>4. missing \in Seq(Entry)
      BY ONLY <2>2, <2>3, WithoutElems
    <2>5. done < Len(missing) /\ done \in Nat /\ some \in Nat
      BY <1>3, <2>1, ExpertAssumption DEF ConversionRaises
    <2>6. /\ entries' = entries \o SubSeq(missing, 1, done + 1)
          /\ partial' = partial \cup {missing[done + 1]}
          /\ exBytes' = exBytes + BytesOf(SubSeq(missing, 1, done)) + some
          /\ exPhase' = "failed" /\ stack' = stack /\ layer' = layer /\ gets' = gets
      BY <1>3 DEF ConversionRaises
    <2> HIDE DEF missing
    <2>7. done \in 0..Len(missing) /\ done + 1 \in 0..Len(missing) /\ done + 1 \in 1..Len(missing)
      BY <2>4, <2>5
    <2>8. SubSeq(missing, 1, done) \in Seq(Entry) /\ SubSeq(missing, 1, done + 1) \in Seq(Entry)
      BY ONLY <2>4, <2>7, CutAt
    <2>9. BytesOf(SubSeq(missing, 1, done)) \in Nat
      BY ONLY <2>8, BytesWeigh
    <2>10. missing[done + 1] \in Entry
      <3> HIDE DEF Entry
      <3> QED BY <2>4, <2>7
    <2>11. entries' \in Seq(Entry)
      BY ONLY <2>1, <2>6, <2>8, ConcatAt
    <2>12. exBytes' \in Nat
      BY <1>1, <2>5, <2>6, <2>9 DEF ExTypeOK
    <2> HIDE DEF Entry
    <2> QED BY <1>1, <2>6, <2>10, <2>11, <2>12 DEF ExTypeOK
  <1>4. exPhase' = "failed"
    BY DEF ReadRaises, ConversionRaises
  <1>5. ExTypeOK'
    BY <1>2, <1>3
  <1> QED
    BY <1>4, <1>5 DEF ExInv, ExpertsServed, Alive

(* A layer that ends drops its copies and the next one runs. *)
LEMMA LayerDonePreserves == ExInv /\ LayerDone => ExInv'
  <1> SUFFICES ASSUME ExInv, LayerDone PROVE ExInv'
    OBVIOUS
  <1>1. layer' \in 1..Len(ExpertBytes)
    <2>1. Len(ExpertBytes) \in Nat /\ Len(ExpertBytes) >= 1
      BY ExpertAssumption
    <2> QED BY <2>1 DEF ExInv, ExTypeOK, LayerDone
  <1>2. ExTypeOK'
    <2> HIDE DEF Entry
    <2> QED BY <1>1 DEF ExInv, ExTypeOK, LayerDone
  <1>3. ExpertsServed'
    BY DEF ExInv, ExpertsServed, LayerDone, Alive
  <1> QED
    BY <1>2, <1>3 DEF ExInv, LayerDone, Alive

(* Clearing leaves the store as it starts. *)
LEMMA ClearPreserves == ExInv /\ Clear => ExInv'
  <1> SUFFICES ASSUME ExInv, Clear PROVE ExInv'
    OBVIOUS
  <1>1. <<>> \in Seq(Entry) /\ BytesOf(<<>>) = 0
    <2>1. <<>> \in Seq(Entry) /\ Weigh(<<>>, Bytes) = 0
      BY WeighEmpty
    <2> QED BY <2>1, BytesWeigh
  <1>2. Distinct(<<>>) /\ ~(0 > CacheBytes)
    BY ExpertAssumption DEF Distinct
  <1>3. ExTypeOK'
    <2> HIDE DEF Entry
    <2> QED BY <1>1 DEF ExInv, ExTypeOK, Clear
  <1>4. ExpertsServed'
    BY <1>1, <1>2 DEF ExpertsServed, Clear
  <1>5. partial' = {}
    BY DEF ExInv, Clear, Alive
  <1> QED
    BY <1>3, <1>4, <1>5 DEF ExInv

(* Every step of the store keeps its invariant. *)
LEMMA ExStepPreserves == ExInv /\ [ExNext]_exVars => ExInv'
  <1> SUFFICES ASSUME ExInv, [ExNext]_exVars PROVE ExInv'
    OBVIOUS
  <1>1. CASE \E touched \in SUBSET Experts : Get(touched)
    BY <1>1, GetPreserves
  <1>2. CASE \E touched \in SUBSET Experts :
               \/ ReadRaises(touched)
               \/ \E done \in 0..(NumExperts - 1) : \E some \in 0..(ExpertBytes[layer] - 1) :
                    ConversionRaises(touched, done, some)
    BY <1>2, FailurePreserves
  <1>3. CASE LayerDone
    BY <1>3, LayerDonePreserves
  <1>4. CASE Clear
    BY <1>4, ClearPreserves
  <1>5. CASE UNCHANGED exVars
    <2> HIDE DEF Entry
    <2> QED BY <1>5 DEF exVars, ExInv, ExTypeOK, ExpertsServed, Alive
  <1> QED
    BY <1>1, <1>2, <1>3, <1>4, <1>5 DEF ExNext

(* While nothing has raised, every entry is complete, the byte count is that *)
(* of the entries, each entry is there once, and the entries over budget are *)
(* those of one call (ExpertStore.get, moe_offload.py:132-192).              *)
THEOREM ExpertInvariance == ExSpec => []ExInv
  <1>1. ExInit => ExInv
    BY ExInitInv
  <1>2. ExInv /\ [ExNext]_exVars => ExInv'
    BY ExStepPreserves
  <1> QED BY <1>1, <1>2, PTL DEF ExSpec

(* No layer meets an expert that its own call evicted (OffloadedSwitchGLU's  *)
(* stacking after get, moe_offload.py:349-365).                              *)
THEOREM ExpertsAlwaysServed == ExSpec => []ExpertsServed
  <1>1. ExInv => ExpertsServed
    BY DEF ExInv
  <1> QED BY <1>1, ExpertInvariance, PTL

=============================================================================
