---------------------------- MODULE Subsequences ----------------------------
(***************************************************************************)
(* Filtering a sequence by position and adding one up, as recursive        *)
(* functions: SelectSeq and the folds of the library have no definition    *)
(* that the provers can use.                                               *)
(***************************************************************************)
EXTENDS Integers, Sequences

(* The elements of seq at the positions in I, in their order. *)
Part(seq, I) ==
    LET part[i \in 0..Len(seq)] ==
          IF i = 0 THEN <<>>
          ELSE IF i \in I THEN Append(part[i - 1], seq[i]) ELSE part[i - 1]
    IN  part[Len(seq)]

(* The elements of seq that are not in S. *)
Without(seq, S) == Part(seq, {i \in DOMAIN seq : seq[i] \notin S})

(* The sum of a sequence of numbers. *)
SeqSum(nums) ==
    LET sum[i \in 0..Len(nums)] == IF i = 0 THEN 0 ELSE sum[i - 1] + nums[i]
    IN  sum[Len(nums)]

(* The elements of seq. *)
Elems(seq) == {seq[i] : i \in DOMAIN seq}

(* No element occurs twice. *)
Distinct(seq) == \A i, j \in DOMAIN seq : seq[i] = seq[j] => i = j

=============================================================================
