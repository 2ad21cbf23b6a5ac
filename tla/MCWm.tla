-------------------------------- MODULE MCWm --------------------------------
(***************************************************************************)
(* Instances of Wm for TLC.  Windows are interchangeable where they are of   *)
(* one client, and so are the tags.                                        *)
(***************************************************************************)
EXTENDS Wm, TLC
CONSTANTS w1, w2, w3, l1, l2, c1, c2

OneClient == [r \in Windows \cup Layers |-> c1]
TwoClients == [r \in Windows \cup Layers |-> IF r = w1 THEN c1 ELSE c2]
LayersApart == [r \in Windows \cup Layers |-> IF r \in Layers THEN c2 ELSE c1]
TagsAlike == Permutations(Tags)
Symmetric == Permutations(Windows) \cup Permutations(Tags)
=============================================================================
