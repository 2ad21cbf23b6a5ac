----------------------------- MODULE SeatHandover -----------------------------
(***************************************************************************)
(* What a seat daemon promises: the seat is given to one session at a time, *)
(* and is taken from it before another one has it.                          *)
(***************************************************************************)
CONSTANT Clients
VARIABLE holders

Init == holders = {}

Give(c) == holders = {} /\ holders' = {c}

Take == holders # {} /\ holders' = {}

Next == Take \/ \E c \in Clients : Give(c)

Spec == Init /\ [][Next]_holders
=============================================================================
