------------------------------ MODULE LinkedLists -------------------------------
(***************************************************************************)
(* LinkedList of the IPC library (global/list.cpp), as far as the models   *)
(* use it: a sequence of pointers, from which del takes one out.           *)
(***************************************************************************)
EXTENDS Integers, SequencesExt

\* no pointer is in the list twice
Distinct(s) == \A i, j \in 1 .. Len(s) : s[i] = s[j] => i = j

\* LinkedList::del: the element of c, if there is one
Without(s, c) ==
    IF c \in ToSet(s) THEN RemoveAt(s, CHOOSE i \in 1 .. Len(s) : s[i] = c) ELSE s
=============================================================================
