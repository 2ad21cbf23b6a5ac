----------------------------- MODULE MCClipboard -----------------------------
EXTENDS Clipboard, TLC
CONSTANTS A, B, a1, a2, b1, text, image
MCOwnerOf == a1 :> A @@ a2 :> A @@ b1 :> B
MCKindsOf == a1 :> {"wl"} @@ a2 :> {"wl"} @@ b1 :> {"wl", "ext"}
MCMimesOf == a1 :> {text} @@ a2 :> {text} @@ b1 :> {text, image}
MCDevices == {<<A, "wl">>, <<B, "wl">>, <<B, "ext">>}
Symmetry == Permutations({a1, a2})

(* Of the behaviours with a cause only those with a focus that moves are followed, with
   one offer at a time. *)
Bounded == blame \subseteq {"crossed"} /\ (blame # {} => Cardinality(cuts.offers) <= 1)
=============================================================================
