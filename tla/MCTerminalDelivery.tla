------------------------- MODULE MCTerminalDelivery -------------------------
(***************************************************************************)
(* TLC instances of TerminalDelivery: the first session owns a passive and *)
(* a wake terminal.                                                        *)
(***************************************************************************)
EXTENDS TerminalDelivery, TLC

CONSTANTS p1, p2, s1, s2, t1, t2

MCOwner == [t \in Task |-> s1]
Processes == Permutations(Process)

\* Bound: while sessions are shared there are two claims, no crash and no replacement.
MCBound == shared => replaced = 0 /\ claims <= 2
=============================================================================
