----------------------------- MODULE MCPresent ------------------------------
(* Instances of Present for TLC.                                           *)
EXTENDS Present, TLC

CONSTANTS s1, s2, a1, a2, b1

(* One window with two buffers. *)
OneOwner == (a1 :> s1) @@ (a2 :> s1)

(* Two windows with two buffers and one. *)
TwoOwners == (a1 :> s1) @@ (a2 :> s1) @@ (b1 :> s2)

(* Two windows, the second of which never has a buffer. *)
OneBuffer == a1 :> s1
=============================================================================
