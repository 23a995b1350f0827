------------------------------- MODULE Lists -------------------------------
(***************************************************************************)
(* The intrusive singly linked lists of lib/lib.c as sequences of process  *)
(* table slots.  A node has ONE next pointer, so push_back of a node that  *)
(* is already on the list clears that pointer in the middle of the chain:  *)
(* whatever followed the node can no longer be reached from the head.      *)
(* The model is exact as long as no node is on two lists at once.          *)
(***************************************************************************)
EXTENDS Integers, SequencesExt

\* The index of the first occurrence of x in q; 0 if there is none.
IndexOf(q, x) == SelectInSeq(q, LAMBDA y : y = x)

\* Clearing the next pointer of x
CutAfter(q, x) == IF Contains(q, x) THEN SubSeq(q, 1, IndexOf(q, x)) ELSE q

\* A faulty push_back, at the wrong end
PushFront(q, x) == IF Contains(q, x) THEN CutAfter(q, x) ELSE <<x>> \o q

\* push_back
PushBack(q, x) == IF Contains(q, x) THEN CutAfter(q, x) ELSE Append(q, x)

\* remove: only the first occurrence is unlinked, and an absent node is ignored
Unlink(q, x) == RemoveFirst(q, x)

\* The part of a list whose nodes are (are not) in S, in list order: what a
\* loop that calls remove_evt until it returns NULL takes out (leaves behind).
Those(q, S) ==
    FoldLeft(LAMBDA found, x : IF x \in S THEN Append(found, x) ELSE found, <<>>, q)

Without(q, S) == Those(q, ToSet(q) \ S)

\* Each node is linked at most once
NoRepeats(q) == \A i, j \in DOMAIN q : q[i] = q[j] => i = j
=============================================================================
