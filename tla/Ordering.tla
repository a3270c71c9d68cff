-------------------------------- MODULE Ordering --------------------------------
(* ORDER BY ... LIMIT n, and sort.Slice with a cut: what a comparison      *)
(* leaves open comes out in any order.                                     *)
EXTENDS Integers, FiniteSetsExt

(* The first n elements of S, or all, in an order Precedes(_, _) allows.   *)
FirstBy(S, n, Precedes(_, _)) ==
    LET shown == 1 .. Min({n, Cardinality(S)}) IN
    {s \in [shown -> S] :
        \A i \in shown :
            /\ \A j \in 1 .. i - 1 : s[j] # s[i]
            /\ \A x \in S \ {s[j] : j \in 1 .. i} : ~Precedes(x, s[i])}
================================================================================
