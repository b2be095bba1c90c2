---------------------------- MODULE IntrusiveList ----------------------------
(***************************************************************************)
(* The doubly linked lists of m-i-list.h, as the kernel uses them: an      *)
(* element carries its own links, so that it can be unlinked wherever it   *)
(* stands, and it is in a list at most once.  The GUI's layers             *)
(* (ViewPortArray of gui_i.h) hold a view port at most once as well, and   *)
(* use the same operators.                                                 *)
(***************************************************************************)
EXTENDS Naturals, Sequences

NoDuplicates(list) == \A k, l \in 1..Len(list) : list[k] = list[l] => k = l

Has(list, x) == \E k \in 1..Len(list) : list[k] = x

\* Unlinking an element that is in no list does nothing.
Unlink(list, x) ==
    LET at == CHOOSE k \in 1..Len(list) : list[k] = x
    IN  IF Has(list, x)
        THEN [k \in 1..(Len(list) - 1) |-> IF k < at THEN list[k] ELSE list[k + 1]]
        ELSE list

\* x after the first n elements
InsertAfter(list, n, x) ==
    [k \in 1..(Len(list) + 1) |->
        IF k <= n THEN list[k] ELSE IF k = n + 1 THEN x ELSE list[k - 1]]
=============================================================================
