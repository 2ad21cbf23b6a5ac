------------------------------- MODULE MCRoles -------------------------------
EXTENDS Roles, TLC
CONSTANTS s1, s2, x1, x2, b1, b2, l1, v1, q1, o1, p1
MCMixes == {[xdgs |-> 2, subs |-> 0, objects |-> 6, extras |-> 0],
            [xdgs |-> 0, subs |-> 2, objects |-> 4, extras |-> 1],
            [xdgs |-> 1, subs |-> 1, objects |-> 3, extras |-> 1]}
Symmetry == Permutations({s1, s2}) \cup Permutations({x1, x2}) \cup Permutations({b1, b2})
=============================================================================
