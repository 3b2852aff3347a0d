---------------------------- MODULE TokenStream ----------------------------
(***************************************************************************)
(* What a client may rely on, whatever the runner defers, preempts or      *)
(* recomputes: an open request receives its tokens one at a time, each     *)
(* exactly once and in order, and none after it was closed.                *)
(*                                                                         *)
(* Sampling is deterministic here: the token at position i of a request is *)
(* the number i, so the reference stream after a prompt of PromptLen       *)
(* tokens is PromptLen + 1, PromptLen + 2, ...                             *)
(***************************************************************************)
EXTENDS Naturals, Sequences

CONSTANTS
    Req,        \* request ids
    PromptLen,  \* length of every prompt
    MaxLen      \* length at which a request is closed

VARIABLES
    open,       \* requests the client waits for
    delivered   \* tokens each request received since it was last opened

streamVars == <<open, delivered>>

NextToken(r) == PromptLen + Len(delivered[r]) + 1

Init ==
    /\ open = {}
    /\ delivered = [r \in Req |-> <<>>]

Open(r) ==
    /\ r \notin open
    /\ open' = open \cup {r}
    /\ delivered' = [delivered EXCEPT ![r] = <<>>]

(* The engine hands out the output of one step: a token for every request  *)
(* of S, after which the requests of C are complete.                       *)
Deliver(S, C) ==
    /\ \A r \in S : NextToken(r) <= MaxLen
    /\ delivered' = [r \in Req |->
           IF r \in S THEN Append(delivered[r], NextToken(r)) ELSE delivered[r]]
    /\ \A r \in S : NextToken(r) = MaxLen => r \in C
    /\ open' = open \ C

(* The client or the engine gives a request up. *)
Close(r) ==
    /\ r \in open
    /\ open' = open \ {r}
    /\ UNCHANGED delivered

Next ==
    \/ \E r \in Req : Open(r)
    \/ \E S \in SUBSET open : \E C \in SUBSET S : Deliver(S, C)
    \/ \E r \in Req : Close(r)

Spec == Init /\ [][Next]_streamVars

=============================================================================
