----------------------------- MODULE KernelBuild -----------------------------
(***************************************************************************)
(* The build of the native extension and the Metal shader libraries, and   *)
(* the sidecar files that vouch for what is on disk:                       *)
(* vllm_metal/metal/build.py.                                              *)
(*                                                                         *)
(* A build decides what is out of date, takes back the build               *)
(* configurations of what it is about to replace, compiles, and writes the *)
(* records. It may be interrupted between any two of these and while it    *)
(* compiles. Between builds sources, MLX, the build environment and the    *)
(* toolchain change, forth and back; none changes while a build runs.      *)
(***************************************************************************)
EXTENDS Integers, Sequences, FiniteSets, Subsequences

CONSTANTS
    Libs,       \* shader libraries, "rope" among them, and "nax"
    Versions,   \* of a source, of MLX and of the build environment
    Toolchains, \* toolchain ids; "unavailable" if xcrun fails
    MaxEdits,   \* bound: changes of the environment
    MaxCrashes  \* bound: interrupted builds

ASSUME BuildAssumption ==
    /\ IsFiniteSet(Libs) /\ "rope" \in Libs /\ {"_paged_ops", "_mps_ops"} \cap Libs = {}
    /\ Versions # {} /\ Toolchains \ {"unavailable"} # {}
    /\ "absent" \notin Versions \cup Toolchains
    /\ MaxEdits \in Nat /\ MaxCrashes \in Nat

Out == "_paged_ops"
Mps == "_mps_ops"
Artifacts == Libs \cup {Out, Mps}
None == <<>>        \* no file
Absent == "absent"  \* no sidecar: no version or toolchain reads so

VARIABLES
    env,     \* [src: by artifact, mlx, config, tool]
    file,    \* what each artifact was compiled from, or None
    stamp,   \* .sha256: the digest of a library, _HASH for Out, the MPS digest
    toolOf,  \* .toolchain
    configOf,\* .build-config
    mlxOf,   \* _MLX_VERSION
    script,  \* what is left of the running build: [op, arts]
    edits,
    crashes

buildVars == <<env, file, stamp, toolOf, configOf, mlxOf, script, edits, crashes>>

NoFiles == [a \in Artifacts |-> None]
FirstVersion == CHOOSE v \in Versions : TRUE

BuildInit ==
    /\ env = [src |-> [a \in Artifacts |-> FirstVersion], mlx |-> FirstVersion,
              config |-> FirstVersion, tool |-> CHOOSE t \in Toolchains : t # "unavailable"]
    /\ file = NoFiles /\ stamp = NoFiles /\ toolOf = [a \in Artifacts |-> Absent]
    /\ configOf = [a \in Artifacts |-> Absent]
    /\ mlxOf = Absent /\ script = <<>> /\ edits = 0 /\ crashes = 0

(* _metallib_digest, _input_hash, _mps_input_hash: the source, and the MLX *)
(* (for Mps the torch) it is compiled against.                             *)
Digest(a) == <<env.src[a], env.mlx>>

(* What compiling a now gives. *)
Compiled(a) == <<env.src[a], env.mlx, env.config, env.tool>>

(* build_metallibs needs an SDK for the nax library. *)
Names == IF env.tool = "nax_sdk" THEN Libs ELSE Libs \ {"nax"}

(* _metallib_is_current *)
IsCurrent(a) ==
    /\ file[a] # None /\ stamp[a] = Digest(a) /\ configOf[a] = env.config
    /\ env.tool # "unavailable" /\ toolOf[a] = env.tool

(* needs_rebuild *)
NeedsRebuild ==
    \/ file[Out] = None \/ stamp[Out] = None \/ mlxOf = Absent
    \/ stamp[Out] # Digest(Out) \/ configOf[Out] # env.config

(* is_stale: a wheel ships no stamps and is never stale. *)
IsStale(a) == file[a] # None /\ stamp[a] # None /\ stamp[a] # Digest(a)

(* mlx_version_mismatch *)
MlxMismatch == mlxOf # Absent /\ mlxOf # env.mlx

(* The libraries in the order of METALLIB_NAMES: some fixed order. *)
Ordered(pending) ==
    CHOOSE order \in [1..Cardinality(pending) -> pending] :
        Distinct(order) /\ Elems(order) = pending

(* What is recorded of each library; its configuration last. *)
Records(order) ==
    [k \in 1..(3 * Len(order)) |->
        [op |-> <<"stamp", "tool", "config">>[((k - 1) % 3) + 1],
         arts |-> {order[((k - 1) \div 3) + 1]}]]

(* Compile, record the extension, then the libraries. *)
CompileAndRecord(pending) ==
    <<[op |-> "compile", arts |-> pending \cup {Out}], [op |-> "hash", arts |-> {Out}],
      [op |-> "mlx", arts |-> {Out}], [op |-> "config", arts |-> {Out}]>>
      \o Records(Ordered(pending))

(* Mutant of BuildScript: the old configurations are not taken back. *)
BuildScriptKeeps(pending) == CompileAndRecord(pending)

(* The steps of build_metallibs for the libraries in pending. *)
BuildScript(pending) ==
    <<[op |-> "unlink", arts |-> {Out}], [op |-> "unlink", arts |-> pending]>>
      \o CompileAndRecord(pending)

-----------------------------------------------------------------------------
(* build_metallibs: nothing to do, or the libraries out of date, and one   *)
(* in any case, since the extension is linked with a library.              *)
BuildMetallibs ==
    LET stale == {a \in Names : ~IsCurrent(a)}
        pending == IF stale = {} THEN {"rope"} ELSE stale
    IN  /\ script = <<>> /\ (stale # {} \/ NeedsRebuild)
        /\ script' = BuildScript(pending)
        /\ UNCHANGED <<env, file, stamp, toolOf, configOf, mlxOf, edits, crashes>>

(* build_mps *)
BuildMps ==
    /\ script = <<>> /\ (file[Mps] = None \/ stamp[Mps] = None \/ IsStale(Mps))
    /\ script' = <<[op |-> "compile", arts |-> {Mps}], [op |-> "stamp", arts |-> {Mps}]>>
    /\ UNCHANGED <<env, file, stamp, toolOf, configOf, mlxOf, edits, crashes>>

Put(f, arts, value(_)) == [a \in Artifacts |-> IF a \in arts THEN value(a) ELSE f[a]]

(* The next step of the running build. *)
BuildStep ==
    LET s == Head(script)
        config(a) == env.config
        tool(a) == env.tool
        gone(a) == Absent
    IN  /\ script # <<>> /\ script' = Tail(script)
        /\ file' = IF s.op = "compile" THEN Put(file, s.arts, Compiled) ELSE file
        /\ stamp' = IF s.op \in {"hash", "stamp"} THEN Put(stamp, s.arts, Digest) ELSE stamp
        /\ toolOf' = IF s.op = "tool" THEN Put(toolOf, s.arts, tool) ELSE toolOf
        /\ configOf' = IF s.op = "config" THEN Put(configOf, s.arts, config)
                       ELSE IF s.op = "unlink" THEN Put(configOf, s.arts, gone)
                       ELSE configOf
        /\ mlxOf' = IF s.op = "mlx" THEN env.mlx ELSE mlxOf
        /\ UNCHANGED <<env, edits, crashes>>

(* The build dies: while it compiles, some of the outputs are replaced. *)
BuildDies(replaced) ==
    /\ script # <<>> /\ crashes < MaxCrashes
    /\ replaced \subseteq (IF Head(script).op = "compile" THEN Head(script).arts ELSE {})
    /\ file' = Put(file, replaced, Compiled)
    /\ script' = <<>> /\ crashes' = crashes + 1
    /\ UNCHANGED <<env, stamp, toolOf, configOf, mlxOf, edits>>

(* Someone edits a source, installs another MLX, sets another build        *)
(* environment, or switches the toolchain.                                 *)
Change(new) ==
    /\ script = <<>> /\ edits < MaxEdits /\ new # env
    /\ env' = new /\ edits' = edits + 1
    /\ UNCHANGED <<file, stamp, toolOf, configOf, mlxOf, script, crashes>>

BuildNext ==
    \/ BuildMetallibs \/ BuildMps \/ BuildStep
    \/ \E replaced \in SUBSET Artifacts : BuildDies(replaced)
    \/ \E a \in Artifacts, v \in Versions : Change([env EXCEPT !.src[a] = v])
    \/ \E v \in Versions : Change([env EXCEPT !.mlx = v])
    \/ \E v \in Versions : Change([env EXCEPT !.config = v])
    \/ \E t \in Toolchains : Change([env EXCEPT !.tool = t])

BuildSpec == BuildInit /\ [][BuildNext]_buildVars

-----------------------------------------------------------------------------
(* Properties. *)

(* A library the build would not rebuild is what compiling it now would    *)
(* give, whatever interrupted builds lie behind; so is the extension, up   *)
(* to the toolchain, which is not recorded for it (build.py:353).          *)
SkippedIsCurrent ==
    script = <<>> =>
        /\ \A a \in Names : IsCurrent(a) => file[a] = Compiled(a)
        /\ ~NeedsRebuild => SubSeq(file[Out], 1, 3) = SubSeq(Compiled(Out), 1, 3)

(* Where no build was interrupted, what the loader accepts was compiled    *)
(* from the current source and MLX: libraries, extension and MPS launcher. *)
LoadedIsCurrent ==
    script = <<>> /\ crashes = 0 =>
        /\ \A a \in Artifacts : file[a] # None /\ ~IsStale(a) => SubSeq(file[a], 1, 2) = Digest(a)
        /\ file[Out] # None /\ ~MlxMismatch => file[Out][2] = env.mlx

(* The records vouch only for what is on disk. *)
RecordsVouch == SkippedIsCurrent /\ LoadedIsCurrent

=============================================================================
