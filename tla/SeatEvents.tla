----------------------------- MODULE SeatEvents -----------------------------
(***************************************************************************)
(* compositor/surface.c: the enter and leave events that the compositor     *)
(* writes to the wl_keyboard and wl_pointer objects of a client, and what a *)
(* client that follows wayland.xml makes of them.                          *)
(*                                                                         *)
(* A seat is a record: which devices a connection has bound, the surface    *)
(* each of them believes is active, and the kinds of events that the        *)
(* protocol forbids and that some client has received.                     *)
(***************************************************************************)
CONSTANTS
  Conns,        \* connections of clients
  Roots,        \* the wl_surface of every window and layer surface
  Devices,      \* "keyboard", "pointer" or both
  Client,       \* the connection of each of Roots
  HasSub,       \* those of Roots that have a subsurface with content
  None          \* NULL

(* A surface of the tree of a root: the root itself or its subsurface.      *)
Root(r) == <<r, "root">>
Sub(r)  == <<r, "sub">>
Tree(r) == {Root(r)} \cup (IF r \in HasSub THEN {Sub(r)} ELSE {})
ConnOf(s) == Client[s[1]]
SurfaceOrNone == {Root(r) : r \in Roots} \cup {Sub(r) : r \in HasSub} \cup {None}

Keyboard == Devices \cap {"keyboard"}
Pointer  == Devices \cap {"pointer"}

Seats == [bound  : [Conns -> SUBSET Devices],
          active : [Devices -> [Conns -> SurfaceOrNone]],
          wrong  : SUBSET ({"enter", "switch", "leave"} \X Devices)]

NewSeat == [bound  |-> [c \in Conns |-> {}],
            active |-> [d \in Devices |-> [c \in Conns |-> None]],
            wrong  |-> {}]

(* wl_seat.get_keyboard and get_pointer: a later enter reaches the new      *)
(* object, the enter of a surface that has the focus already is not sent.   *)
Bound(e, c, d) == [e EXCEPT !.bound[c] = @ \cup {d}]

(* The devices among devs on which the client of the surface s hears of it. *)
Hearing(e, s, devs) == devs \cap e.bound[ConnOf(s)]

Heard(e, s, devs, now) ==
  [d \in Devices |-> IF d \in Hearing(e, s, devs)
                     THEN [e.active[d] EXCEPT ![ConnOf(s)] = now]
                     ELSE e.active[d]]

(* wayland.xml: no enter to a keyboard that has an active surface, and a    *)
(* leave before the enter of another surface.                              *)
enter(e, s, devs) ==
  [e EXCEPT !.active = Heard(e, s, devs, s),
            !.wrong = @ \cup {<<"enter", d>> : d \in {x \in Hearing(e, s, devs) :
                                e.active[x][ConnOf(s)] # None}}
                        \cup {<<"switch", d>> : d \in {x \in Hearing(e, s, devs) :
                                e.active[x][ConnOf(s)] \notin {None, s}}}]

(* wayland.xml: no leave of another surface than the active one.            *)
leave(e, s, devs) ==
  [e EXCEPT !.active = Heard(e, s, devs, None),
            !.wrong = @ \cup {<<"leave", d>> : d \in {x \in Hearing(e, s, devs) :
                                e.active[x][ConnOf(s)] # s}}]

(* A client destroys the surfaces of a tree: they are active no longer.     *)
Forgotten(e, r) ==
  [e EXCEPT !.active = [d \in Devices |-> [c \in Conns |->
     IF e.active[d][c] \in Tree(r) THEN None ELSE e.active[d][c]]]]
=============================================================================
