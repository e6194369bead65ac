--------------------------- MODULE TrajectoryTree ---------------------------
(***************************************************************************)
(* What the branching loop promises of the trajectories of one sample,     *)
(* whatever fails on the way: a tree that only grows at its open leaves.   *)
(*                                                                         *)
(* An open trajectory may be forked, as often as it is open; it then       *)
(* becomes an inner node, and an open trajectory without children may be   *)
(* closed.  Nothing grows below a closed or an inner trajectory again, and *)
(* no trajectory is deeper than the budget the sample was given.           *)
(***************************************************************************)
EXTENDS Naturals, Sequences

CONSTANTS Suggestion

VARIABLES
    tree,     \* trajectory -> "open", "inner" or "closed"
    depth     \* the deepest level allowed

HasChild(t) == \E c \in DOMAIN tree : \E s \in Suggestion : c = Append(t, s)

Init ==
    /\ tree = <<>>
    /\ depth \in Nat

Plant ==
    /\ tree = <<>>
    /\ tree' = [t \in {<<>>} |-> "open"]
    /\ UNCHANGED depth

Fork(t, s) ==
    /\ tree[t] = "open"
    /\ Append(t, s) \notin DOMAIN tree
    /\ Len(t) < depth
    /\ tree' = [x \in DOMAIN tree \cup {Append(t, s)} |->
                   IF x = Append(t, s) THEN "open" ELSE tree[x]]
    /\ UNCHANGED depth

Expand(t) ==
    /\ tree[t] = "open" /\ HasChild(t)
    /\ tree' = [tree EXCEPT ![t] = "inner"]
    /\ UNCHANGED depth

Close(t) ==
    /\ tree[t] = "open" /\ ~HasChild(t)
    /\ tree' = [tree EXCEPT ![t] = "closed"]
    /\ UNCHANGED depth

Next ==
    \/ Plant
    \/ \E t \in DOMAIN tree :
          \/ \E s \in Suggestion : Fork(t, s)
          \/ Expand(t)
          \/ Close(t)

Spec == Init /\ [][Next]_<<tree, depth>>
=============================================================================
