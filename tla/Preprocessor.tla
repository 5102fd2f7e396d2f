------------------------------ MODULE Preprocessor ------------------------------
(***************************************************************************)
(* The compile-time loops of common/ that the control service is built    *)
(* with: the macros over sequences (a)(b) of preprocessor.h, which unroll  *)
(* recursions through tables of macros, and the index sequences of         *)
(* cplusplus_14.h.  A sequence of macro arguments is a TLA+ sequence; the  *)
(* text a macro leaves is the sequence of what its calls leave.            *)
(***************************************************************************)
EXTENDS Integers, Sequences, Functions

\* A name that stays unexpanded because its table has no such entry.
NoSize == -1
Unexpanded == <<"CN_PP_INTERNAL">>

\* What the tables hold: SEQ_SIZE_512 is produced and has no number.
SeqLimit == 511

\* CN_PP_SEQ_SIZE: each (x) eaten turns SEQ_SIZE_i into SEQ_SIZE_i+1.
SeqSize(seq) == IF Len(seq) <= SeqLimit THEN Len(seq) ELSE NoSize

\* SEQ_FOR_EACH_n: macro on the head, then entry n-1 on the tail.  A macro is
\* the function from its argument to what it leaves.
ForEach(macro, seq) ==
  LET entry[n \in 0 .. Len(seq)] ==
        IF n = 0 THEN <<>> ELSE macro[seq[Len(seq) - n + 1]] \o entry[n - 1]
  IN  IF SeqSize(seq) = NoSize THEN Unexpanded ELSE entry[SeqSize(seq)]

\* Mutant: the second half is not renumbered.
MergeOnly(s1, s2) == s1 \o s2

\* _merge_and_renumber: the second sequence goes on where the first one ends.
MergeAndRenumber(s1, s2) == s1 \o [i \in DOMAIN s2 |-> Len(s1) + s2[i]]

\* make_index_sequence<n>, by halves.
IndexSequence[n \in Nat] ==
  IF n = 0 THEN <<>>
  ELSE IF n = 1 THEN <<0>>
  ELSE MergeAndRenumber(IndexSequence[n \div 2], IndexSequence[n - n \div 2])
================================================================================
