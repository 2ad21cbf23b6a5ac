---------------------------- MODULE WmSeatProofs ----------------------------
(***************************************************************************)
(* Proofs about the keyboard of the window manager Wm: which surface the     *)
(* client of every keyboard believes is active, compared with the window     *)
(* that has the focus and the layer surface that took the keyboard.         *)
(***************************************************************************)
EXTENDS WmProofs

(* Clients bind their devices before they have windows, and no client has    *)
(* both windows and layer surfaces.                                        *)
Prompt == ~LateBind
Apart == \A l \in Layers, w \in Windows : Client[l] # Client[w]

(* What the client c may believe is active, with the keyboard of a seat e,   *)
(* when f has the focus and k took the keyboard.                           *)
Heirs(e, f, k, c) ==
  IF "keyboard" \notin e.bound[c] THEN {None}
  ELSE IF f # None /\ Client[f] = c THEN Tree(f)
  ELSE IF k # None /\ Client[k] = c THEN {Root(k)}
  ELSE {None}

Follows(e, f, k) ==
  \A c \in Conns : e.active["keyboard"][c] \in Heirs(e, f, k, c)

Paired(e) ==
  <<"enter", "keyboard">> \notin e.wrong /\ <<"leave", "keyboard">> \notin e.wrong

-----------------------------------------------------------------------------
(* What the events do to the keyboards of a seat.                           *)

LEMMA TreeConn ==
  /\ \A w \in Windows \cup Layers : \A s \in Tree(w) :
       s \in Surfaces /\ ConnOf(s) = Client[w]
  /\ \A w \in Windows \cup Layers :
       Root(w) \in Tree(w) /\ Root(w) \in Surfaces /\ ConnOf(Root(w)) = Client[w]
  /\ \A v, w \in Windows \cup Layers : v # w => Tree(v) \cap Tree(w) = {}
  /\ \A w \in Windows \cup Layers : Client[w] \in Conns /\ None # w
<1>1. \A w \in Windows \cup Layers : \A s \in Tree(w) : s[1] = w
  BY DEF Tree, Root, Sub
<1>2. \A w \in Windows \cup Layers : Root(w) \in Tree(w)
  BY DEF Tree
<1> QED
  BY <1>1, <1>2, TreeSurfaces, RootsAssumption DEF ConnOf

LEMMA EnterEffect ==
  ASSUME "keyboard" \in Devices, NEW e \in Seats, NEW s \in Surfaces,
         NEW devs, devs \subseteq Devices
  PROVE  /\ enter(e, s, devs).bound = e.bound
         /\ \A c \in Conns : enter(e, s, devs).active["keyboard"][c] =
              IF "keyboard" \in devs /\ "keyboard" \in e.bound[c] /\ c = ConnOf(s)
              THEN s ELSE e.active["keyboard"][c]
         /\ Paired(e) /\ ("keyboard" \notin devs
                          \/ e.active["keyboard"][ConnOf(s)] = None)
              => Paired(enter(e, s, devs))
<1>1. ConnOf(s) \in Conns
  BY SurfaceConn
<1>2. enter(e, s, devs).bound = e.bound
  BY DEF Seats, enter
<1>3. enter(e, s, devs).active = Heard(e, s, devs, s)
  BY DEF Seats, enter
<1>4. e.active["keyboard"] \in [Conns -> SurfaceOrNone]
  BY DEF Seats
<1>5. Heard(e, s, devs, s)["keyboard"] =
        IF "keyboard" \in Hearing(e, s, devs)
        THEN [e.active["keyboard"] EXCEPT ![ConnOf(s)] = s] ELSE e.active["keyboard"]
  BY DEF Heard
<1>6. "keyboard" \in Hearing(e, s, devs)
        <=> "keyboard" \in devs /\ "keyboard" \in e.bound[ConnOf(s)]
  BY DEF Hearing
<1>7. \A c \in Conns : enter(e, s, devs).active["keyboard"][c] =
        IF "keyboard" \in devs /\ "keyboard" \in e.bound[c] /\ c = ConnOf(s)
        THEN s ELSE e.active["keyboard"][c]
  BY <1>1, <1>3, <1>4, <1>5, <1>6
<1>8. ASSUME Paired(e), "keyboard" \notin devs
                        \/ e.active["keyboard"][ConnOf(s)] = None
      PROVE  Paired(enter(e, s, devs))
  <2>1. enter(e, s, devs).wrong =
          e.wrong \cup {<<"enter", d>> : d \in {x \in Hearing(e, s, devs) :
                          e.active[x][ConnOf(s)] # None}}
                  \cup {<<"switch", d>> : d \in {x \in Hearing(e, s, devs) :
                          e.active[x][ConnOf(s)] \notin {None, s}}}
    BY DEF Seats, enter
  <2> QED
    BY <1>6, <1>8, <2>1 DEF Paired
<1> QED
  BY <1>2, <1>7, <1>8

LEMMA LeaveEffect ==
  ASSUME "keyboard" \in Devices, NEW e \in Seats, NEW s \in Surfaces,
         NEW devs, devs \subseteq Devices
  PROVE  /\ leave(e, s, devs).bound = e.bound
         /\ \A c \in Conns : leave(e, s, devs).active["keyboard"][c] =
              IF "keyboard" \in devs /\ "keyboard" \in e.bound[c] /\ c = ConnOf(s)
              THEN None ELSE e.active["keyboard"][c]
         /\ Paired(e) /\ ("keyboard" \in devs /\ "keyboard" \in e.bound[ConnOf(s)]
                            => e.active["keyboard"][ConnOf(s)] = s)
              => Paired(leave(e, s, devs))
<1>1. ConnOf(s) \in Conns
  BY SurfaceConn
<1>2. leave(e, s, devs).bound = e.bound
  BY DEF Seats, leave
<1>3. leave(e, s, devs).active = Heard(e, s, devs, None)
  BY DEF Seats, leave
<1>4. e.active["keyboard"] \in [Conns -> SurfaceOrNone]
  BY DEF Seats
<1>5. Heard(e, s, devs, None)["keyboard"] =
        IF "keyboard" \in Hearing(e, s, devs)
        THEN [e.active["keyboard"] EXCEPT ![ConnOf(s)] = None]
        ELSE e.active["keyboard"]
  BY DEF Heard
<1>6. "keyboard" \in Hearing(e, s, devs)
        <=> "keyboard" \in devs /\ "keyboard" \in e.bound[ConnOf(s)]
  BY DEF Hearing
<1>7. \A c \in Conns : leave(e, s, devs).active["keyboard"][c] =
        IF "keyboard" \in devs /\ "keyboard" \in e.bound[c] /\ c = ConnOf(s)
        THEN None ELSE e.active["keyboard"][c]
  BY <1>1, <1>3, <1>4, <1>5, <1>6
<1>8. ASSUME Paired(e), "keyboard" \in devs /\ "keyboard" \in e.bound[ConnOf(s)]
                          => e.active["keyboard"][ConnOf(s)] = s
      PROVE  Paired(leave(e, s, devs))
  <2>1. leave(e, s, devs).wrong =
          e.wrong \cup {<<"leave", d>> : d \in {x \in Hearing(e, s, devs) :
                          e.active[x][ConnOf(s)] # s}}
    BY DEF Seats, leave
  <2> QED
    BY <1>6, <1>8, <2>1 DEF Paired
<1> QED
  BY <1>2, <1>7, <1>8

LEMMA ForgottenEffect ==
  ASSUME "keyboard" \in Devices, NEW e \in Seats, NEW r
  PROVE  /\ Forgotten(e, r).bound = e.bound
         /\ \A c \in Conns : Forgotten(e, r).active["keyboard"][c] =
              IF e.active["keyboard"][c] \in Tree(r)
              THEN None ELSE e.active["keyboard"][c]
         /\ Paired(e) => Paired(Forgotten(e, r))
BY DEF Seats, Forgotten, Paired

-----------------------------------------------------------------------------
(* Each of them keeps the keyboards with their heirs.                       *)

LEMMA UnfocusFollows ==
  ASSUME "keyboard" \in Devices, Apart, NEW e \in Seats, NEW f \in Windows,
         NEW k \in Layers \cup {None}, Follows(e, f, k)
  PROVE  Follows(leave(e, Root(f), Devices), None, k)
<1>1. Root(f) \in Surfaces /\ ConnOf(Root(f)) = Client[f] /\ f # None
  BY TreeConn
<1>2. k # None => Client[k] # Client[f]
  BY DEF Apart
<1> QED
  BY <1>1, <1>2, LeaveEffect DEF Follows, Heirs

LEMMA EnterFollows ==
  ASSUME "keyboard" \in Devices, NEW e \in Seats, NEW w \in Windows,
         NEW s \in Tree(w), NEW k \in Layers \cup {None},
         Follows(e, None, k) \/ Follows(e, w, k)
  PROVE  Follows(enter(e, s, Devices), w, k)
<1>1. s \in Surfaces /\ ConnOf(s) = Client[w] /\ w # None
  BY TreeConn
<1> QED
  BY <1>1, EnterEffect DEF Follows, Heirs

LEMMA ForgottenFollows ==
  ASSUME "keyboard" \in Devices, NEW e \in Seats, NEW f \in Windows \cup {None},
         NEW k \in Layers \cup {None}, Follows(e, f, k),
         NEW r \in Windows \cup Layers, r # f
  PROVE  /\ r # k => Follows(Forgotten(e, r), f, k)
         /\ r = k => Follows(Forgotten(e, r), f, None)
<1>1. \A v \in Windows \cup Layers : v # r =>
        Tree(v) \cap Tree(r) = {} /\ Root(v) \notin Tree(r)
  BY TreeConn
<1>2. None \notin Tree(r) /\ r # None /\ Root(r) \in Tree(r)
  BY TreeConn, RootsAssumption
<1>3. \A c \in Conns :
        /\ Heirs(Forgotten(e, r), f, k, c) = Heirs(e, f, k, c)
        /\ Heirs(Forgotten(e, r), f, None, c) = Heirs(e, f, None, c)
  BY ForgottenEffect DEF Heirs
<1>4. ASSUME r # k PROVE Follows(Forgotten(e, r), f, k)
  <2>1. \A c \in Conns : Heirs(e, f, k, c) \cap Tree(r) = {}
    BY <1>1, <1>2, <1>4 DEF Heirs
  <2> QED
    BY <1>3, <2>1, ForgottenEffect DEF Follows
<1>5. ASSUME r = k PROVE Follows(Forgotten(e, r), f, None)
  <2>1. \A c \in Conns : \/ Heirs(e, f, k, c) = Heirs(e, f, None, c)
                         \/ /\ Heirs(e, f, k, c) \subseteq Tree(r)
                            /\ Heirs(e, f, None, c) = {None}
    BY <1>2, <1>5 DEF Heirs
  <2>2. \A c \in Conns : Heirs(e, f, None, c) \cap Tree(r) = {}
    BY <1>1, <1>2 DEF Heirs
  <2> QED
    BY <1>3, <2>1, <2>2, ForgottenEffect DEF Follows
<1> QED
  BY <1>4, <1>5

LEMMA HandedFollows ==
  ASSUME "keyboard" \in Devices, Apart, NEW e \in Seats,
         NEW f \in Windows \cup {None}, NEW k \in Layers \cup {None},
         Follows(e, f, k), NEW l \in Layers
  PROVE  Follows(enter(IF k = None THEN e ELSE leave(e, Root(k), Keyboard),
                       Root(l), Keyboard), f, l)
<1> DEFINE g == IF k = None THEN e ELSE leave(e, Root(k), Keyboard)
<1>1. Root(l) \in Surfaces /\ ConnOf(Root(l)) = Client[l] /\ l # None
  BY TreeConn
<1>2. Keyboard \subseteq Devices /\ "keyboard" \in Keyboard
  BY DEF Keyboard
<1>3. k # None => Root(k) \in Surfaces /\ ConnOf(Root(k)) = Client[k]
  BY TreeConn
<1>4. f # None => Client[f] # Client[l] /\ (k # None => Client[f] # Client[k])
  BY DEF Apart
<1>5. g \in Seats /\ Follows(g, f, None)
  <2>1. CASE k = None
    BY <2>1
  <2>2. CASE k # None
    <3>1. g = leave(e, Root(k), Keyboard) /\ g \in Seats
      BY <2>2, <1>3, EnterLeaveTypes
    <3> QED
      BY <3>1, <2>2, <1>2, <1>3, <1>4, LeaveEffect DEF Follows, Heirs
  <2> QED
    BY <2>1, <2>2
<1> HIDE DEF g
<1>6. Follows(enter(g, Root(l), Keyboard), f, l)
  BY <1>1, <1>2, <1>4, <1>5, EnterEffect DEF Follows, Heirs
<1> QED
  BY <1>6 DEF g

LEMMA PointerFollows ==
  ASSUME "keyboard" \in Devices, NEW e \in Seats, NEW f, NEW k, NEW s \in Surfaces
  PROVE  /\ Follows(e, f, k) => /\ Follows(enter(e, s, Pointer), f, k)
                                /\ Follows(leave(e, s, Pointer), f, k)
         /\ Paired(e) => /\ Paired(enter(e, s, Pointer))
                         /\ Paired(leave(e, s, Pointer))
<1>1. Pointer \subseteq Devices /\ "keyboard" \notin Pointer
  BY DEF Pointer
<1> QED
  BY <1>1, EnterEffect, LeaveEffect DEF Follows, Heirs

LEMMA BoundFollows ==
  ASSUME "keyboard" \in Devices, NEW e \in Seats, NEW f, NEW k,
         NEW b \in Conns, NEW d \in Devices, Follows(e, f, k),
         f # None => Client[f] # b, k # None => Client[k] # b
  PROVE  Follows(Bound(e, b, d), f, k)
<1>1. /\ Bound(e, b, d).active = e.active
      /\ \A c \in Conns : Bound(e, b, d).bound[c] =
           IF c = b THEN e.bound[c] \cup {d} ELSE e.bound[c]
  BY DEF Seats, Bound
<1> QED
  BY <1>1 DEF Follows, Heirs

-----------------------------------------------------------------------------
(* What a step can do to the seat, the focus and the layer surface that took *)
(* the keyboard.                                                           *)
seatVars == <<seat, focused, kb_focus>>

Binds(c, d) ==
  /\ focused # None => Client[focused] # c \/ LateBind
  /\ kb_focus # None => Client[kb_focus] # c \/ LateBind
  /\ seat' = Bound(seat, c, d)

Focuses(w, s) ==
  focused' = w /\ seat' = enter(Unfocused, s, Devices) /\ UNCHANGED kb_focus

Unfocuses == focused' = None /\ seat' = Unfocused /\ UNCHANGED kb_focus

Forgets(r) == r # focused /\ r # kb_focus /\ seat' = Forgotten(seat, r)

Loses == focused' = None /\ seat' = Forgotten(Unfocused, focused)

Passes(w, s) ==
  /\ w # focused /\ focused' = w
  /\ seat' = Forgotten(enter(Unfocused, s, Devices), focused)

Takes(l) == kb_focus' = l /\ seat' = HandedTo(l) /\ UNCHANGED focused

GivesUp == kb_focus' = None /\ seat' = Forgotten(seat, kb_focus) /\ UNCHANGED focused

GivesBack(s) ==
  /\ s \in Tree(focused) /\ kb_focus' = None /\ UNCHANGED focused
  /\ seat' = enter(Forgotten(seat, kb_focus), s, Devices)

Hovers(s) ==
  \/ seat' = enter(seat, s, Pointer)
  \/ \E t \in Surfaces : seat' = enter(leave(seat, t, Pointer), s, Pointer)

SeatMoves ==
  \/ UNCHANGED seatVars
  \/ \E c \in Conns, d \in Devices : Binds(c, d) /\ UNCHANGED <<focused, kb_focus>>
  \/ \E w \in Windows : \E s \in Tree(w) : Focuses(w, s)
  \/ Unfocuses
  \/ \E r \in Windows \cup Layers : Forgets(r) /\ UNCHANGED <<focused, kb_focus>>
  \/ focused # None /\ Loses /\ UNCHANGED kb_focus
  \/ focused # None /\ UNCHANGED kb_focus
       /\ \E w \in Windows : \E s \in Tree(w) : Passes(w, s)
  \/ \E l \in Layers : Takes(l)
  \/ kb_focus # None /\ GivesUp
  \/ kb_focus # None /\ focused # None /\ \E s \in Tree(focused) : GivesBack(s)
  \/ \E s \in Surfaces : Hovers(s) /\ UNCHANGED <<focused, kb_focus>>

LEMMA DestroyMoves ==
  ASSUME CoreInv, FieldTypes, KbFocusIsLive, NEW w \in Windows,
         xdg_toplevel_destroy(w)
  PROVE  SeatMoves
<1>1. kb_focus' = kb_focus /\ w # None
  BY TreeConn DEF xdg_toplevel_destroy, layerVars
<1>2. w \notin OnTag'
  BY DEF xdg_toplevel_destroy, OnTag, Live, Removed
<1>3. OnTag' \subseteq Windows
  BY DEF OnTag
<1>4. CASE ~is_focused(w)
  <2>1. focused' = focused /\ seat' = Forgotten(seat, w) /\ w # focused
    BY <1>4 DEF xdg_toplevel_destroy, is_focused
  <2>2. w # kb_focus
    BY <1>1, WindowsAssumption DEF FieldTypes
  <2> QED
    BY <1>1, <2>1, <2>2 DEF SeatMoves, Forgets
<1>5. CASE is_focused(w) /\ focused' = None /\ seat' = Forgotten(Unfocused, w)
  BY <1>1, <1>5 DEF SeatMoves, Loses, is_focused
<1>6. CASE is_focused(w) /\ \E p \in OnTag' : \E s \in Tree(p) :
             focused' = p /\ seat' = Forgotten(enter(Unfocused, s, Devices), w)
  BY <1>1, <1>2, <1>3, <1>6 DEF SeatMoves, Passes, is_focused
<1> QED
  BY <1>4, <1>5, <1>6 DEF xdg_toplevel_destroy

LEMMA PointerMoves ==
  ASSUME CoreInv, FieldTypes, pointer_motion
  PROVE  SeatMoves
<1>1. kb_focus' = kb_focus
  BY DEF pointer_motion, layerVars
<1>2. CASE \E w \in OnTag : \E s \in Tree(w) : client_change_focus(w, s)
  BY <1>1, <1>2 DEF client_change_focus, SeatMoves, Focuses, OnTag
<1>3. CASE focused' = focused /\ focused \in OnTag
             /\ \E s \in Tree(focused) \cup {None} : c_window_pointer_move(focused, s)
  <2>1. focused \in Windows
    BY <1>3 DEF OnTag
  <2>2. PICK s \in Tree(focused) \cup {None} : c_window_pointer_move(focused, s)
    BY <1>3
  <2>3. CASE seat' = seat
    BY <1>1, <1>3, <2>3 DEF SeatMoves, seatVars
  <2>4. CASE s \in Surfaces /\ seat' = enter(IF pfocus[focused] = None THEN seat
                            ELSE leave(seat, pfocus[focused], Pointer), s, Pointer)
    <3>1. pfocus[focused] = None \/ pfocus[focused] \in Surfaces
      BY <2>1 DEF FieldTypes, Surfaces
    <3>2. Hovers(s)
      BY <2>4, <3>1 DEF Hovers
    <3> QED
      BY <1>1, <1>3, <2>4, <3>2 DEF SeatMoves
  <2> QED
    BY <2>1, <2>2, <2>3, <2>4, TreeConn DEF c_window_pointer_move
<1>4. CASE UNCHANGED <<seat, focused>>
  BY <1>1, <1>4 DEF SeatMoves, seatVars
<1> QED
  BY <1>2, <1>3, <1>4 DEF pointer_motion

LEMMA LayerMoves ==
  ASSUME CoreInv, KbFocusIsLive, NEW l \in Layers,
         \/ zwlr_layer_surface_destroy(l)
         \/ \E ki \in {"none", "exclusive"} :
              zwlr_layer_surface_set_keyboard_interactivity(l, ki)
  PROVE  SeatMoves
<1>1. CASE \E ki \in {"none", "exclusive"} :
             zwlr_layer_surface_set_keyboard_interactivity(l, ki)
  BY <1>1 DEF zwlr_layer_surface_set_keyboard_interactivity, SeatMoves, Takes, seatVars
<1>2. CASE zwlr_layer_surface_destroy(l)
  <2>1. focused' = focused /\ l # None
    BY <1>2, TreeConn DEF zwlr_layer_surface_destroy
  <2>2. CASE kb_focus # l /\ seat' = Forgotten(seat, l) /\ UNCHANGED kb_focus
    <3>1. l # focused
      BY <2>1, WindowsAssumption DEF CoreInv, CoreTypes
    <3> QED
      BY <2>1, <2>2, <3>1 DEF SeatMoves, Forgets
  <2>3. CASE kb_focus = l /\ kb_focus' = None /\ seat' = Forgotten(seat, l)
    BY <2>1, <2>3 DEF SeatMoves, GivesUp
  <2>4. CASE kb_focus = l /\ focused # None /\ kb_focus' = None
             /\ \E s \in Tree(focused) : seat' = enter(Forgotten(seat, l), s, Devices)
    BY <2>1, <2>4 DEF SeatMoves, GivesBack
  <2> QED
    BY <1>2, <2>2, <2>3, <2>4 DEF zwlr_layer_surface_destroy
<1> QED
  BY <1>1, <1>2

LEMMA SeatMovesStep ==
  ASSUME CoreInv, FieldTypes, KbFocusIsLive, [Next]_vars
  PROVE  SeatMoves
<1>1. ASSUME NEW c \in Conns, NEW d \in Devices, bind_device(c, d)
      PROVE  SeatMoves
  <2>1. focused # None => Client[focused] # c \/ LateBind
    BY <1>1 DEF bind_device, CoreInv, CoreTypes, FocusedIsLive
  <2>2. kb_focus # None => Client[kb_focus] # c \/ LateBind
    BY <1>1 DEF bind_device, KbFocusIsLive
  <2> QED
    BY <1>1, <2>1, <2>2 DEF bind_device, SeatMoves, Binds, layerVars
<1>2. ASSUME NEW w \in Windows, xdg_surface_get_toplevel(w) PROVE SeatMoves
  <2>1. Root(w) \in Tree(w)
    BY TreeConn
  <2> QED
    BY <1>2, <2>1 DEF xdg_surface_get_toplevel, client_change_focus, SeatMoves,
       Focuses, seatVars, layerVars
<1>3. ASSUME NEW w, client_set_fullscreen(w) \/ client_unset_fullscreen(w)
      PROVE  SeatMoves
  BY <1>3 DEF client_set_fullscreen, client_unset_fullscreen, SeatMoves, seatVars,
     layerVars
<1>4. ASSUME NEW w \in Windows,
             xdg_toplevel_set_fullscreen(w) \/ xdg_toplevel_unset_fullscreen(w)
      PROVE  SeatMoves
  BY <1>3, <1>4 DEF xdg_toplevel_set_fullscreen, xdg_toplevel_unset_fullscreen
<1>5. ASSUME NEW l \in Layers, zwlr_layer_shell_get_layer_surface(l)
      PROVE  SeatMoves
  BY <1>5 DEF zwlr_layer_shell_get_layer_surface, SeatMoves, seatVars
<1>6. toggle_fullscreen => SeatMoves
  BY <1>3 DEF toggle_fullscreen
<1>7. toggle_floating => SeatMoves
  BY DEF toggle_floating, SeatMoves, seatVars, layerVars
<1>8. \A d \in {-1, 1} : move_focus(d) => SeatMoves
  BY DEF move_focus, client_change_focus, SeatMoves, Focuses, layerVars, OnTag
<1>9. \A t \in Tags : switch_tag(t) => SeatMoves
  <2> SUFFICES ASSUME NEW t \in Tags, switch_tag(t) PROVE SeatMoves
    OBVIOUS
  <2>1. UNCHANGED kb_focus /\ OnTag' \subseteq Windows
    BY DEF switch_tag, layerVars, OnTag
  <2> QED
    BY <2>1 DEF switch_tag, client_change_focus, SeatMoves, Focuses, Unfocuses
<1>10. \A t \in Tags : window_move_to_workspace(t) => SeatMoves
  <2> SUFFICES ASSUME NEW t \in Tags, window_move_to_workspace(t) PROVE SeatMoves
    OBVIOUS
  <2>1. UNCHANGED kb_focus /\ OnTag' \subseteq Windows
    BY DEF window_move_to_workspace, layerVars, OnTag
  <2> QED
    BY <2>1 DEF window_move_to_workspace, client_change_focus, SeatMoves, Focuses,
       seatVars
<1>11. \A l \in Layouts : set_layout(l) => SeatMoves
  BY DEF set_layout, SeatMoves, seatVars, layerVars
<1>12. \A h \in Drags : drag_begin(h) => SeatMoves
  BY DEF drag_begin, SeatMoves, seatVars, layerVars
<1>13. drag_end => SeatMoves
  BY DEF drag_end, SeatMoves, seatVars, layerVars
<1>14. UNCHANGED vars => SeatMoves
  BY DEF vars, layerVars, SeatMoves, seatVars
<1> QED
  BY <1>1, <1>2, <1>4, <1>5, <1>6, <1>7, <1>8, <1>9, <1>10, <1>11, <1>12, <1>13,
     <1>14, DestroyMoves, LayerMoves, PointerMoves
     DEF Next, Request, Key, Mouse

-----------------------------------------------------------------------------
(* The invariant, for every move of the seat.                               *)

(* The keyboard of every client is with whom the window manager has made      *)
(* its heir.                                                               *)
KeyboardInv ==
  /\ CoreInv /\ FieldTypes /\ KbFocusIsLive /\ seat \in Seats
  /\ "keyboard" \in Devices => Follows(seat, focused, kb_focus)

LEMMA UnfocusedFollows ==
  ASSUME "keyboard" \in Devices, Apart, KeyboardInv
  PROVE  Unfocused \in Seats /\ Follows(Unfocused, None, kb_focus)
<1>1. /\ focused \in Windows \cup {None} /\ kb_focus \in Layers \cup {None}
      /\ seat \in Seats /\ Follows(seat, focused, kb_focus)
  BY DEF KeyboardInv, CoreInv, CoreTypes, FieldTypes
<1>2. Unfocused \in Seats
  BY UnfocusedType DEF KeyboardInv
<1>3. CASE focused = None
  BY <1>1, <1>2, <1>3 DEF Unfocused
<1>4. CASE focused # None
  <2>1. focused \in Windows
    BY <1>1, <1>4
  <2>2. Follows(leave(seat, Root(focused), Devices), None, kb_focus)
    BY <1>1, <2>1, UnfocusFollows
  <2> QED
    BY <1>2, <1>4, <2>2 DEF Unfocused
<1> QED
  BY <1>3, <1>4

LEMMA FollowsStep ==
  ASSUME "keyboard" \in Devices, Prompt, Apart, KeyboardInv, SeatMoves,
         focused' \in Windows \cup {None}
  PROVE  Follows(seat, focused, kb_focus)'
<1> DEFINE F(e, f, k) == Follows(e, f, k)
<1>1. /\ focused \in Windows \cup {None} /\ kb_focus \in Layers \cup {None}
      /\ seat \in Seats /\ F(seat, focused, kb_focus)
  BY DEF KeyboardInv, CoreInv, CoreTypes, FieldTypes
<1>2. Unfocused \in Seats /\ F(Unfocused, None, kb_focus)
  BY UnfocusedFollows
<1>3. SUFFICES F(seat', focused', kb_focus')
  BY DEF Follows, Heirs
<1> HIDE DEF F
<1>4. ASSUME NEW e \in Seats, NEW w \in Windows, NEW s \in Tree(w),
             F(e, None, kb_focus) \/ F(e, w, kb_focus)
      PROVE  F(enter(e, s, Devices), w, kb_focus) /\ enter(e, s, Devices) \in Seats
  <2>1. s \in Surfaces
    BY TreeConn
  <2> QED
    BY <1>1, <1>4, <2>1, EnterFollows, EnterLeaveTypes DEF F
<1>5. ASSUME NEW e \in Seats, NEW f \in Windows \cup {None}, F(e, f, kb_focus),
             NEW r \in Windows \cup Layers, r # f
      PROVE  /\ r # kb_focus => F(Forgotten(e, r), f, kb_focus)
             /\ r = kb_focus => F(Forgotten(e, r), f, None)
             /\ Forgotten(e, r) \in Seats
  BY <1>1, <1>5, ForgottenFollows, SeatTypes DEF F
<1>6. CASE UNCHANGED seatVars
  BY <1>1, <1>6 DEF seatVars
<1>7. ASSUME NEW c \in Conns, NEW d \in Devices,
             Binds(c, d), UNCHANGED <<focused, kb_focus>>
      PROVE  F(seat', focused', kb_focus')
  BY <1>1, <1>7, BoundFollows DEF Binds, Prompt, F
<1>8. ASSUME NEW w \in Windows, NEW s \in Tree(w), Focuses(w, s)
      PROVE  F(seat', focused', kb_focus')
  BY <1>2, <1>4, <1>8 DEF Focuses
<1>9. CASE Unfocuses
  BY <1>2, <1>9 DEF Unfocuses
<1>10. ASSUME NEW r \in Windows \cup Layers,
              Forgets(r), UNCHANGED <<focused, kb_focus>>
       PROVE  F(seat', focused', kb_focus')
  BY <1>1, <1>5, <1>10 DEF Forgets
<1>11. focused # None => focused \in Windows /\ focused # kb_focus
  BY <1>1, WindowsAssumption
<1>12. CASE focused # None /\ Loses /\ UNCHANGED kb_focus
  BY <1>2, <1>5, <1>11, <1>12 DEF Loses
<1>13. ASSUME focused # None, UNCHANGED kb_focus, NEW w \in Windows,
              NEW s \in Tree(w), Passes(w, s)
       PROVE  F(seat', focused', kb_focus')
  <2>1. F(enter(Unfocused, s, Devices), w, kb_focus)
        /\ enter(Unfocused, s, Devices) \in Seats
    BY <1>2, <1>4
  <2> QED
    BY <1>5, <1>11, <1>13, <2>1 DEF Passes
<1>14. ASSUME NEW l \in Layers, Takes(l)
       PROVE  F(seat', focused', kb_focus')
  BY <1>1, <1>14, HandedFollows DEF Takes, HandedTo, F
<1>15. kb_focus # None => kb_focus \in Layers /\ kb_focus # focused
  BY <1>1, WindowsAssumption
<1>16. kb_focus # None => /\ F(Forgotten(seat, kb_focus), focused, None)
                          /\ Forgotten(seat, kb_focus) \in Seats
  BY <1>1, <1>5, <1>15
<1>17. CASE kb_focus # None /\ GivesUp
  BY <1>16, <1>17 DEF GivesUp
<1>18. ASSUME kb_focus # None, focused # None, NEW s \in Tree(focused), GivesBack(s)
       PROVE  F(seat', focused', kb_focus')
  BY <1>11, <1>16, <1>18, EnterFollows DEF GivesBack, F
<1>19. ASSUME NEW s \in Surfaces, Hovers(s), UNCHANGED <<focused, kb_focus>>
       PROVE  F(seat', focused', kb_focus')
  <2>1. CASE seat' = enter(seat, s, Pointer)
    BY <1>1, <1>19, <2>1, PointerFollows DEF F
  <2>2. ASSUME NEW t \in Surfaces, seat' = enter(leave(seat, t, Pointer), s, Pointer)
        PROVE  F(seat', focused', kb_focus')
    <3>1. leave(seat, t, Pointer) \in Seats
          /\ F(leave(seat, t, Pointer), focused, kb_focus)
      BY <1>1, PointerFollows, EnterLeaveTypes DEF F
    <3> QED
      BY <1>19, <2>2, <3>1, PointerFollows DEF F
  <2> QED
    BY <1>19, <2>1, <2>2 DEF Hovers
<1> QED
  BY <1>6, <1>7, <1>8, <1>9, <1>10, <1>12, <1>13, <1>14, <1>17, <1>18, <1>19
     DEF SeatMoves

LEMMA KeyboardInvInit == Init => KeyboardInv
<1> SUFFICES ASSUME Init PROVE KeyboardInv
  OBVIOUS
<1>1. CoreInv /\ FieldTypes /\ seat \in Seats
  BY TypeInvInit DEF TypeInv, LayoutInv
<1>2. KbFocusIsLive
  BY DEF Init, KbFocusIsLive
<1>3. "keyboard" \in Devices => Follows(seat, focused, kb_focus)
  BY DEF Init, NewSeat, Follows, Heirs
<1> QED
  BY <1>1, <1>2, <1>3 DEF KeyboardInv

LEMMA KeyboardInvStep ==
  ASSUME Prompt, Apart, KeyboardInv, [Next]_vars
  PROVE  KeyboardInv' /\ SeatMoves
<1>1. SeatMoves
  BY SeatMovesStep DEF KeyboardInv
<1>2. CoreInv' /\ FieldTypes' /\ KbFocusIsLive' /\ seat' \in Seats
  BY CoreInvStep, FieldStep, KbFocusStep, SeatStep DEF KeyboardInv
<1>3. focused' \in Windows \cup {None}
  BY <1>2 DEF CoreInv, CoreTypes
<1>4. "keyboard" \in Devices => Follows(seat, focused, kb_focus)'
  BY <1>1, <1>3, FollowsStep
<1> QED
  BY <1>1, <1>2, <1>4 DEF KeyboardInv

(* Whatever maps, closes, moves, is shown or takes the keyboard, a client      *)
(* believes active at most the window with the focus, or a part of it, or the  *)
(* layer surface that took the keyboard.                                   *)
THEOREM KeyboardInvCorrect ==
  ASSUME Prompt, Apart
  PROVE  Spec => []KeyboardInv
<1>1. KeyboardInv /\ [Next]_vars => KeyboardInv'
  BY KeyboardInvStep
<1> QED
  BY <1>1, KeyboardInvInit, PTL DEF Spec

(* Where nobody has layer surfaces or subsurfaces, the client of the window   *)
(* with the focus, and no other, has a keyboard in that very window.        *)
THEOREM KeyboardFollowsCorrect ==
  ASSUME Prompt, Layers = {}, HasSub = {}
  PROVE  Spec => []KeyboardFollowsFocus
<1>1. Apart
  BY DEF Apart
<1>2. ASSUME KeyboardInv PROVE KeyboardFollowsFocus
  <2>1. kb_focus = None /\ focused \in Windows \cup {None}
    BY <1>2 DEF KeyboardInv, FieldTypes, CoreInv, CoreTypes
  <2>2. \A w \in Windows : Tree(w) = {Root(w)}
    BY DEF Tree
  <2>3. CASE "keyboard" \in Devices
    BY <1>2, <2>1, <2>2, <2>3
       DEF KeyboardInv, KeyboardFollowsFocus, KeyboardOf, HasKeyboard, Follows, Heirs
  <2>4. CASE "keyboard" \notin Devices
    BY <1>2, <2>4 DEF KeyboardInv, KeyboardFollowsFocus, HasKeyboard, Seats
  <2> QED
    BY <2>3, <2>4
<1> QED
  BY <1>1, <1>2, KeyboardInvCorrect, PTL

(* However the keyboard is handed between windows and layer surfaces, with or  *)
(* without subsurfaces, who is sent the keys has been entered.               *)
THEOREM KeyboardHandedCorrect ==
  ASSUME Prompt, Apart
  PROVE  Spec => []KeyboardHandedOver
<1>1. ASSUME KeyboardInv PROVE KeyboardHandedOver
  <2>1. kb_focus \in Layers \cup {None} /\ focused \in Windows \cup {None}
    BY <1>1 DEF KeyboardInv, FieldTypes, CoreInv, CoreTypes
  <2>2. CASE "keyboard" \in Devices
    <3>1. \A c \in Conns :
            /\ focused # None /\ Client[focused] = c /\ HasKeyboard(c)
                 => KeyboardOf(c) # None
            /\ kb_focus # None /\ Client[kb_focus] = c /\ HasKeyboard(c)
                 => KeyboardOf(c) = Root(kb_focus)
      BY <1>1, <2>1, <2>2, RootsAssumption
         DEF KeyboardInv, KeyboardOf, HasKeyboard, Follows, Heirs, Apart
    <3>2. /\ kb_focus # None => Client[kb_focus] \in Conns /\ Root(kb_focus) # None
          /\ focused # None => Client[focused] \in Conns
      BY <2>1, TreeConn DEF Surfaces
    <3> QED
      BY <3>1, <3>2 DEF KeyboardHandedOver, KeysToEntered, ExclusiveEntered, KeysGoTo
  <2>3. CASE "keyboard" \notin Devices
    <3>1. \A c \in Conns : ~HasKeyboard(c)
      BY <1>1, <2>3 DEF KeyboardInv, HasKeyboard, Seats
    <3>2. /\ kb_focus # None => Client[kb_focus] \in Conns
          /\ focused # None => Client[focused] \in Conns
      BY <2>1, TreeConn
    <3> QED
      BY <3>1, <3>2 DEF KeyboardHandedOver, KeysToEntered, ExclusiveEntered, KeysGoTo
  <2> QED
    BY <2>2, <2>3
<1> QED
  BY <1>1, KeyboardInvCorrect, PTL

-----------------------------------------------------------------------------
(* Enter and leave come in pairs.                                           *)

LEMMA PairedStep ==
  ASSUME "keyboard" \in Devices, Layers = {}, HasSub = {}, KeyboardInv, SeatMoves,
         Paired(seat)
  PROVE  Paired(seat')
<1>1. /\ focused \in Windows \cup {None} /\ kb_focus = None /\ seat \in Seats
      /\ Follows(seat, focused, None)
  BY DEF KeyboardInv, CoreInv, CoreTypes, FieldTypes
<1>2. Apart
  BY DEF Apart
<1>3. Unfocused \in Seats /\ Follows(Unfocused, None, None)
  BY <1>1, <1>2, UnfocusedFollows
<1>4. Paired(Unfocused)
  <2>1. CASE focused = None
    BY <2>1 DEF Unfocused
  <2>2. CASE focused # None
    <3>1. Root(focused) \in Surfaces /\ ConnOf(Root(focused)) = Client[focused]
          /\ Client[focused] \in Conns /\ Tree(focused) = {Root(focused)}
      BY <1>1, <2>2, TreeConn DEF Tree
    <3>2. "keyboard" \in seat.bound[Client[focused]] =>
            seat.active["keyboard"][Client[focused]] = Root(focused)
      BY <1>1, <2>2, <3>1 DEF Follows, Heirs
    <3> QED
      BY <1>1, <2>2, <3>1, <3>2, LeaveEffect DEF Unfocused
  <2> QED
    BY <2>1, <2>2
<1>5. ASSUME NEW w \in Windows, NEW s \in Tree(w)
      PROVE  Paired(enter(Unfocused, s, Devices)) /\ enter(Unfocused, s, Devices) \in Seats
  <2>1. s \in Surfaces /\ ConnOf(s) \in Conns
    BY TreeConn, SurfaceConn
  <2>2. Unfocused.active["keyboard"][ConnOf(s)] = None
    BY <1>3, <2>1 DEF Follows, Heirs
  <2> QED
    BY <1>3, <1>4, <2>1, <2>2, EnterEffect, EnterLeaveTypes
<1>6. CASE UNCHANGED seatVars
  BY <1>6 DEF seatVars
<1>7. ASSUME NEW c \in Conns, NEW d \in Devices, Binds(c, d) PROVE Paired(seat')
  BY <1>1, <1>7 DEF Binds, Bound, Paired, Seats
<1>8. ASSUME NEW w \in Windows, NEW s \in Tree(w), Focuses(w, s) PROVE Paired(seat')
  BY <1>5, <1>8 DEF Focuses
<1>9. CASE Unfocuses
  BY <1>4, <1>9 DEF Unfocuses
<1>10. ASSUME NEW r, Forgets(r) PROVE Paired(seat')
  BY <1>1, <1>10, ForgottenEffect DEF Forgets
<1>11. CASE Loses
  BY <1>3, <1>4, <1>11, ForgottenEffect DEF Loses
<1>12. ASSUME NEW w \in Windows, NEW s \in Tree(w), Passes(w, s) PROVE Paired(seat')
  BY <1>5, <1>12, ForgottenEffect DEF Passes
<1>13. ASSUME NEW s \in Surfaces, Hovers(s) PROVE Paired(seat')
  <2>1. CASE seat' = enter(seat, s, Pointer)
    BY <1>1, <2>1, PointerFollows
  <2>2. ASSUME NEW t \in Surfaces, seat' = enter(leave(seat, t, Pointer), s, Pointer)
        PROVE  Paired(seat')
    <3>1. leave(seat, t, Pointer) \in Seats /\ Paired(leave(seat, t, Pointer))
      BY <1>1, PointerFollows, EnterLeaveTypes
    <3> QED
      BY <2>2, <3>1, PointerFollows
  <2> QED
    BY <1>13, <2>1, <2>2 DEF Hovers
<1> QED
  BY <1>1, <1>6, <1>7, <1>8, <1>9, <1>10, <1>11, <1>12, <1>13 DEF SeatMoves

(* Where nobody has layer surfaces or subsurfaces, no client is sent an enter  *)
(* for a keyboard that has an active surface, nor a leave of a surface that  *)
(* is not the active one.                                                  *)
THEOREM PairedCorrect ==
  ASSUME Prompt, Layers = {}, HasSub = {}
  PROVE  Spec => []EnterLeavePaired
<1> DEFINE I == "keyboard" \in Devices => Paired(seat)
<1>1. Init => I
  BY DEF Init, NewSeat, Paired
<1>2. KeyboardInv /\ I /\ [Next]_vars => I'
  <2> SUFFICES ASSUME "keyboard" \in Devices, KeyboardInv, Paired(seat), [Next]_vars
               PROVE  Paired(seat')
    BY DEF Paired
  <2>1. Apart
    BY DEF Apart
  <2> QED
    BY <2>1, KeyboardInvStep, PairedStep
<1>3. KeyboardInv /\ I => EnterLeavePaired
  <2>1. KeyboardInv /\ "keyboard" \notin Devices => EnterLeavePaired
    BY DEF KeyboardInv, Seats, EnterLeavePaired, EnterOnce, LeaveMatches
  <2> QED
    BY <2>1 DEF Paired, EnterLeavePaired, EnterOnce, LeaveMatches
<1>4. Spec => []KeyboardInv
  BY KeyboardInvCorrect DEF Apart
<1> QED
  BY <1>1, <1>2, <1>3, <1>4, PTL DEF Spec
=============================================================================
