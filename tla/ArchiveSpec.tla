----------------------------- MODULE ArchiveSpec -----------------------------
(***************************************************************************)
(* What a chive archive promises (archive.hpp 29-66): a writer appends     *)
(* values one at a time, a list is opened by append(vector<T>) and holds   *)
(* the values appended until it is closed, and a reader of the finished    *)
(* archive sees the same values, in the same order, nested the same way.   *)
(*                                                                         *)
(* The state is what a reader would see: the values of each open list,     *)
(* the root first.  No byte appears here; Codec is the byte-level writer   *)
(* and reader, and is checked to implement this specification.             *)
(***************************************************************************)
EXTENDS Naturals, Sequences

VARIABLES
    lists,      \* the values of each open list, root first
    finished    \* the writer has stopped: done(), or an append threw

avars == <<lists, finished>>

\* A closed list as one value of its parent
ListValue(items) == [kind |-> "list", num |-> 0, hi |-> 0, items |-> items]

AInit ==
    /\ lists = <<<<>>>>
    /\ finished = FALSE

\* One value is appended to the innermost open list; nothing else moves.
Add(l, l2) ==
    LET top == Len(l) IN
    /\ Len(l2) = top
    /\ \A k \in 1..top - 1 : l2[k] = l[k]
    /\ Len(l2[top]) = Len(l[top]) + 1
    /\ SubSeq(l2[top], 1, Len(l[top])) = l[top]
    /\ l2[top][Len(l2[top])].kind # "error"

\* append(vector<T>) opens a list inside the innermost one
Open(l, l2) == l2 = Append(l, <<>>)

\* ... and closes it: its values become one list value of its parent
Close(l, l2) ==
    LET top == Len(l) IN
    /\ top > 1
    /\ l2 = Append(SubSeq(l, 1, top - 2), Append(l[top - 1], ListValue(l[top])))

\* The writer stops, finished or failed; what was written stays as it is
Stop(l, l2) == l2 = l

\* lists and lists' are each read once per step
ANext ==
    LET l == lists
        l2 == lists'
    IN /\ ~finished
       /\ \/ Add(l, l2) /\ UNCHANGED finished
          \/ Open(l, l2) /\ UNCHANGED finished
          \/ Close(l, l2) /\ UNCHANGED finished
          \/ Stop(l, l2) /\ finished' = TRUE

ASpec == AInit /\ [][ANext]_avars
=============================================================================
