------------------------------- MODULE MCPager -------------------------------
(***************************************************************************)
(* Two processes and two physical pages beside the pinned one.  A page     *)
(* holds zeroes, which end a name at once, or text that ends in it, or     *)
(* text that runs on.                                                      *)
(***************************************************************************)
EXTENDS Pager, TLC

CONSTANTS zeroes, text, long

\* A file whose name fits in a page, and one whose name ends in the next page.
OneFile  == {<<<<text>>, 0>>}
LongName == {<<<<long, zeroes>>, 0>>}

\* The swap file holds old text at the start, and so does the file or not.
OldZeroes == {[id \in SwapIds \cup ReadableIds |-> IF id.swap_backed THEN text ELSE zeroes]}
OldLong   == {[id \in SwapIds \cup ReadableIds |-> long]}

Symmetric == Permutations(Pid)
=============================================================================
