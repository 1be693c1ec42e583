-------------------------------- MODULE Sublists --------------------------------
(***************************************************************************)
(* What the program does with lists: keep some elements, drop repetitions, *)
(* join lists.  The operators take sets where SelectSeq and the folds take *)
(* operators, so that their laws can be stated, and proved, for all        *)
(* arguments (SublistProofs).                                              *)
(***************************************************************************)
EXTENDS Integers, Sequences

(* The elements that are in S, in their order.                              *)
With(kept, e, S) == IF e \in S THEN Append(kept, e) ELSE kept

Keep(seq, S) ==
    LET kept[n \in 0..Len(seq)] == IF n = 0 THEN <<>> ELSE With(kept[n - 1], seq[n], S)
    IN  kept[Len(seq)]

(* The places of a list, in order, and those where an element is for the
   first time.                                                              *)
Places(seq) == [i \in 1..Len(seq) |-> i]
At(seq, places) == [k \in 1..Len(places) |-> seq[places[k]]]

Distinct(seq) ==
    At(seq, Keep(Places(seq), {i \in 1..Len(seq) : \A j \in 1..(i - 1) : seq[j] # seq[i]}))
=============================================================================
