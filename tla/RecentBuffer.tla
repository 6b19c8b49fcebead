---------------------------- MODULE RecentBuffer ----------------------------
(***************************************************************************)
(* What a span sink with a bounded buffer promises: between two flushes it  *)
(* keeps the newest Size spans, in the order they came, and a flush takes   *)
(* them all.                                                                *)
(***************************************************************************)
EXTENDS Integers, Sequences

CONSTANTS Items, Size

VARIABLES kept,   \* what a flush would take, oldest first
          taken   \* what the last flush took

vars == <<kept, taken>>

Newest(s) == IF Len(s) > Size THEN SubSeq(s, Len(s) - Size + 1, Len(s)) ELSE s

Init == kept = <<>> /\ taken = <<>>

Put(x) == kept' = Newest(Append(kept, x)) /\ UNCHANGED taken

Take == taken' = kept /\ kept' = <<>>

Next == Take \/ \E x \in Items : Put(x)

Spec == Init /\ [][Next]_vars
=============================================================================
