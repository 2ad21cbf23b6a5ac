------------------------------- MODULE MCInput -------------------------------
(* An instance of Input for TLC: bindings as in config.h, one each of a key   *)
(* that moves the focus and a button that drags, both with the leader.       *)
EXTENDS Input, TLC
CONSTANTS w1, w2, c1, c2, kbd, combined, logo, key, left, right

MCClient == w1 :> c1 @@ w2 :> c2
MCCaps == kbd :> {"keyboard"} @@ combined :> {"pointer", "keyboard"}
MCCombos == <<[mod_mask |-> {logo}, keysym |-> key,  btn |-> None, drag |-> FALSE, focus |-> TRUE],
              [mod_mask |-> {logo}, keysym |-> None, btn |-> left, drag |-> TRUE,  focus |-> FALSE]>>
=============================================================================
