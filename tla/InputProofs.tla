----------------------------- MODULE InputProofs -----------------------------
(***************************************************************************)
(* What a client believes of the keyboard and the pointer, for any number of  *)
(* devices, keys, bindings, windows and clients.  The inductive invariant     *)
(* adds to the types that a connection without a wl_keyboard, or without the  *)
(* focus, believes nothing, and that the modifiers it was told last are       *)
(* still held.                                                             *)
(***************************************************************************)
EXTENDS Input, TLAPS

Kinds == {"pointer", "keyboard"}
Keyboards == [active : Windows \cup {None}, keys : SUBSET Keys, mods : SUBSET Modifiers]

(* Only a wl_keyboard whose client has the focus has heard anything.         *)
OnlyHeard ==
  \A c \in Conns : kb[c] # NoKeyboard =>
    c \in keyboards /\ focused # None /\ Client[focused] = c

(* What is believed to be down is down.                                    *)
Believed ==
  \A c \in Conns : kb[c].keys \subseteq Held /\ kb[c].mods \subseteq Held

InputInv == TypeOK /\ OnlyHeard /\ Believed /\ DragHasButton

-----------------------------------------------------------------------------
LEMMA NoKeyboardType == NoKeyboard \in Keyboards
BY DEF NoKeyboard, Keyboards

(* A device that goes on holding what it held holds down Held.              *)
LEMMA HeldPressed ==
  ASSUME TypeOK, NEW d \in Devices, NEW x \in Keys \cup Buttons,
         down' = [down EXCEPT ![d] = @ \cup {x}]
  PROVE  down' \in [Devices -> SUBSET (Keys \cup Buttons)] /\ Held' = Held \cup {x}
<1>1. down \in [Devices -> SUBSET (Keys \cup Buttons)]
  BY DEF TypeOK
<1>2. \A e \in Devices : down'[e] = IF e = d THEN down[d] \cup {x} ELSE down[e]
  BY <1>1
<1> QED
  BY <1>1, <1>2 DEF Held

(* A release leaves everything else held.                                  *)
LEMMA HeldReleased ==
  ASSUME TypeOK, NEW d \in Devices, NEW x \in Keys \cup Buttons,
         down' = [down EXCEPT ![d] = @ \ {x}]
  PROVE  /\ down' \in [Devices -> SUBSET (Keys \cup Buttons)]
         /\ Held' \subseteq Held /\ Held \ {x} \subseteq Held'
<1>1. down \in [Devices -> SUBSET (Keys \cup Buttons)]
  BY DEF TypeOK
<1>2. \A e \in Devices : down'[e] = IF e = d THEN down[d] \ {x} ELSE down[e]
  BY <1>1
<1> QED
  BY <1>1, <1>2 DEF Held

(* The focus goes to w, or to none: the window that had it is told, and the   *)
(* one that gets it starts with nothing down.                              *)
LEMMA FocusMoves ==
  ASSUME TypeOK, OnlyHeard, Believed, NEW w \in Windows \cup {None},
         client_change_focus(w), keyboards' = keyboards, Held \subseteq Held'
  PROVE  kb' \in [Conns -> Keyboards] /\ OnlyHeard' /\ Believed'
<1> USE WindowsAssumption
<1>1. kb \in [Conns -> Keyboards] /\ focused \in Windows \cup {None}
  BY DEF TypeOK, Keyboards
<1> DEFINE left == client_unfocus
<1>2. left = [c \in Conns |-> NoKeyboard]
  <2>1. CASE focused = None
    BY <1>1, <2>1 DEF client_unfocus, OnlyHeard
  <2>2. CASE focused # None
    <3>1. \A c \in Conns : c # Client[focused] => kb[c] = NoKeyboard
      BY DEF OnlyHeard
    <3>2. Client[focused] \notin keyboards => kb[Client[focused]] = NoKeyboard
      BY <1>1, <2>2 DEF OnlyHeard
    <3>3. left = leave(kb, focused)
      BY <2>2 DEF client_unfocus
    <3>4. CASE Client[focused] \in keyboards
      <4>1. left = [kb EXCEPT ![Client[focused]] = NoKeyboard]
        BY <3>3, <3>4 DEF leave
      <4> HIDE DEF left
      <4> QED  BY <4>1, <1>1, <3>1
    <3>5. CASE Client[focused] \notin keyboards
      <4>1. left = kb
        BY <3>3, <3>5 DEF leave
      <4> HIDE DEF left
      <4> QED  BY <4>1, <1>1, <3>1, <3>2, <3>5
    <3> QED  BY <3>4, <3>5
  <2> QED  BY <2>1, <2>2
<1>3. focused' = w /\ kb' = IF w = None THEN left ELSE enter(left, w)
  BY DEF client_change_focus
<1> HIDE DEF left
<1> DEFINE told == [NoKeyboard EXCEPT !.active = w]
<1>4. w \in Windows => told \in Keyboards /\ told.keys = {} /\ told.mods = {}
  BY DEF NoKeyboard, Keyboards
<1>5. NoKeyboard.keys = {} /\ NoKeyboard.mods = {}
  BY DEF NoKeyboard
<1>6. \A c \in Conns :
        kb'[c] = IF w # None /\ c = Client[w] /\ c \in keyboards THEN told ELSE NoKeyboard
  BY <1>2, <1>3 DEF enter
<1>7. kb' = [c \in Conns |-> kb'[c]]
  BY <1>2, <1>3 DEF enter
<1> HIDE DEF told
<1> QED
  BY <1>3, <1>4, <1>5, <1>6, <1>7, NoKeyboardType DEF OnlyHeard, Believed

(* The client with the focus is told of the key k, and of the modifiers if    *)
(* they have changed: its keys are still those it believed, with k if it is   *)
(* down, and its modifiers all those that are down.                        *)
LEMMA KeyTold ==
  ASSUME TypeOK, OnlyHeard, Believed, NEW k \in Keys, NEW pressed \in BOOLEAN,
         on_keyboard_key(k, pressed), keyboards' = keyboards,
         Held \ {k} \subseteq Held', pressed => k \in Held',
         \A e \in Held \ Held' : e = k
  PROVE  kb' \in [Conns -> Keyboards] /\ OnlyHeard' /\ Believed'
<1> USE WindowsAssumption, KeysAssumption
<1>1. kb \in [Conns -> Keyboards] /\ focused \in Windows \cup {None} /\ focused' = focused
  BY DEF TypeOK, Keyboards, on_keyboard_key
<1>2. CASE kb' = kb /\ \A c \in Conns : kb[c] = NoKeyboard
  BY <1>1, <1>2 DEF OnlyHeard, Believed, NoKeyboard
<1>3. CASE focused # None /\ Client[focused] \in keyboards
  <2> DEFINE c0 == Client[focused]
             e0 == kb[c0]
             keys0 == IF pressed THEN e0.keys \cup {k} ELSE e0.keys \ {k}
             mods0 == IF mod_mask' # mod_mask THEN mod_mask' ELSE e0.mods
  <2>1. c0 \in Conns /\ e0 \in Keyboards
    BY <1>1, <1>3
  <2>2. kb' = [kb EXCEPT ![c0].keys = IF pressed THEN @ \cup {k} ELSE @ \ {k},
                         ![c0].mods = IF mod_mask' # mod_mask THEN mod_mask' ELSE @]
    BY <1>3 DEF on_keyboard_key, c_surface_keyboard_key
  <2>3. kb' = [kb EXCEPT ![c0] = [e0 EXCEPT !.keys = keys0, !.mods = mods0]]
    BY <2>1, <2>2, <1>1 DEF Keyboards
  <2>4. mod_mask' \subseteq Modifiers /\ mod_mask' \subseteq Held'
    BY DEF mod_mask
  <2>5. keys0 \subseteq Keys /\ keys0 \subseteq Held'
    BY <2>1 DEF Keyboards, Believed
  <2>6. mods0 \subseteq Modifiers /\ mods0 \subseteq Held'
    BY <2>1, <2>4 DEF Keyboards, Believed, mod_mask
  <2> HIDE DEF keys0, mods0
  <2>7. [e0 EXCEPT !.keys = keys0, !.mods = mods0] \in Keyboards
    BY <2>1, <2>5, <2>6 DEF Keyboards
  <2>8. kb' \in [Conns -> Keyboards]
    BY <1>1, <2>3, <2>7
  <2>9. kb'[c0].keys = keys0 /\ kb'[c0].mods = mods0
    BY <1>1, <2>1, <2>3 DEF Keyboards
  <2>10. \A c \in Conns : c # c0 => kb'[c] = NoKeyboard
    BY <1>1, <2>3 DEF OnlyHeard
  <2>11. NoKeyboard.keys = {} /\ NoKeyboard.mods = {}
    BY DEF NoKeyboard
  <2> QED
    BY <1>1, <1>3, <2>5, <2>6, <2>8, <2>9, <2>10, <2>11 DEF OnlyHeard, Believed
<1>4. focused = None \/ Client[focused] \notin keyboards => kb' = kb
  BY DEF on_keyboard_key, c_surface_keyboard_key
<1> QED
  BY <1>2, <1>3, <1>4 DEF OnlyHeard

(* Nothing is told.                                                        *)
LEMMA NothingTold ==
  ASSUME TypeOK, OnlyHeard, Believed, UNCHANGED <<focused, kb>>,
         keyboards \subseteq keyboards', Held \subseteq Held'
  PROVE  kb' \in [Conns -> Keyboards] /\ OnlyHeard' /\ Believed'
BY DEF TypeOK, Keyboards, OnlyHeard, Believed
-----------------------------------------------------------------------------
(* What every step does: the types and the two facts about the keyboards.    *)
LEMMA HandlerTells ==
  ASSUME TypeOK, OnlyHeard, Believed, NEW cl, handler(cl), UNCHANGED <<keyboards, live>>,
         Held \subseteq Held'
  PROVE  /\ kb' \in [Conns -> Keyboards] /\ OnlyHeard' /\ Believed'
         /\ focused' \in live' \cup {None}
<1>1. CASE UNCHANGED <<focused, kb>>
  BY <1>1, NothingTold DEF TypeOK
<1>2. ASSUME NEW w \in live \cup {None}, client_change_focus(w)
      PROVE  /\ kb' \in [Conns -> Keyboards] /\ OnlyHeard' /\ Believed'
             /\ focused' \in live' \cup {None}
  BY <1>2, FocusMoves DEF TypeOK, client_change_focus
<1> QED
  BY <1>1, <1>2 DEF handler

LEMMA KeyPressed ==
  ASSUME InputInv, NEW d \in Devices, NEW k \in Keys, key_press(d, k)
  PROVE  InputInv'
<1> USE KeysAssumption
<1>1. down' \in [Devices -> SUBSET (Keys \cup Buttons)] /\ Held' = Held \cup {k}
  BY HeldPressed DEF key_press, InputInv
<1>2. UNCHANGED <<plugged, capabilities, button, drag, is_dragging, live, seen, keyboards,
                  refused>>
  BY DEF key_press, stateVars, clientVars
<1>3. CASE on_keyboard_key(k, TRUE)
  BY <1>1, <1>2, <1>3, KeyTold
     DEF InputInv, TypeOK, Keyboards, DragHasButton, on_keyboard_key
<1>4. ASSUME NEW cl, handler(cl)
      PROVE  InputInv'
  BY <1>1, <1>2, <1>4, HandlerTells DEF InputInv, TypeOK, Keyboards, DragHasButton
<1> QED
  BY <1>3, <1>4 DEF key_press

LEMMA KeyReleased ==
  ASSUME InputInv, NEW d \in Devices, NEW k \in Keys, key_release(d, k)
  PROVE  InputInv'
<1> USE KeysAssumption
<1>1. /\ down' \in [Devices -> SUBSET (Keys \cup Buttons)]
      /\ Held' \subseteq Held /\ Held \ {k} \subseteq Held'
  BY HeldReleased DEF key_release, InputInv
<1>2. /\ UNCHANGED <<plugged, capabilities, button, drag, is_dragging, live, seen,
                     keyboards, refused, focused>>
      /\ on_keyboard_key(k, FALSE)
  BY DEF key_release, stateVars, clientVars, on_keyboard_key
<1> QED
  BY <1>1, <1>2, KeyTold DEF InputInv, TypeOK, Keyboards, DragHasButton

LEMMA ButtonPressed ==
  ASSUME InputInv, NEW d \in Devices, NEW b \in Buttons, button_press(d, b)
  PROVE  InputInv'
<1> USE KeysAssumption
<1>1. down' \in [Devices -> SUBSET (Keys \cup Buttons)] /\ Held' = Held \cup {b}
  BY HeldPressed DEF button_press, InputInv
<1>2. UNCHANGED <<plugged, capabilities, live, seen, keyboards, refused>> /\ button' = b
  BY DEF button_press, clientVars
<1>3. /\ kb' \in [Conns -> Keyboards] /\ OnlyHeard' /\ Believed'
      /\ focused' \in live' \cup {None}
  <2>1. CASE UNCHANGED <<focused, kb>>
    BY <1>1, <1>2, <2>1, NothingTold DEF InputInv, TypeOK
  <2>2. ASSUME NEW cl, handler(cl)
        PROVE  /\ kb' \in [Conns -> Keyboards] /\ OnlyHeard' /\ Believed'
               /\ focused' \in live' \cup {None}
    BY <1>1, <1>2, <2>2, HandlerTells DEF InputInv
  <2> QED  BY <2>1, <2>2 DEF button_press
<1>4. drag' \in BOOLEAN /\ is_dragging' \in BOOLEAN
  BY DEF button_press, drag_handler, InputInv, TypeOK
<1> QED
  BY <1>1, <1>2, <1>3, <1>4 DEF InputInv, TypeOK, Keyboards, DragHasButton

LEMMA ButtonReleased ==
  ASSUME InputInv, NEW d \in Devices, NEW b \in Buttons, button_release(d, b)
  PROVE  InputInv'
<1> USE KeysAssumption
<1>1. /\ down' \in [Devices -> SUBSET (Keys \cup Buttons)]
      /\ Held' \subseteq Held /\ Held \ {b} \subseteq Held'
  BY HeldReleased DEF button_release, InputInv
<1>2. UNCHANGED <<plugged, capabilities, live, focused, seen, keyboards, refused, kb>>
  BY DEF button_release, clientVars
<1>3. button' \in Buttons \cup {None} /\ drag' = FALSE /\ is_dragging' \in BOOLEAN
  BY DEF button_release, drag_handler, stateVars, InputInv, TypeOK
<1>4. Believed'
  <2>1. \A c \in Conns : kb[c].keys \subseteq Keys /\ kb[c].mods \subseteq Keys
    BY DEF InputInv, TypeOK
  <2> QED  BY <1>1, <1>2, <2>1 DEF Believed, InputInv
<1> QED
  BY <1>1, <1>2, <1>3, <1>4 DEF InputInv, TypeOK, OnlyHeard, DragHasButton

LEMMA PointerMoved ==
  ASSUME InputInv, pointer_motion
  PROVE  InputInv'
<1>1. UNCHANGED <<plugged, down, capabilities, button, drag, live, seen, keyboards, refused>>
  BY DEF pointer_motion, deviceVars, stateVars, clientVars
<1>2. Held' = Held
  BY <1>1 DEF Held
<1>3. is_dragging' \in BOOLEAN
  BY DEF pointer_motion, drag_handler, InputInv, TypeOK
<1>4. /\ kb' \in [Conns -> Keyboards] /\ OnlyHeard' /\ Believed'
      /\ focused' \in live' \cup {None}
  <2>1. CASE UNCHANGED <<focused, kb>>
    BY <1>1, <1>2, <2>1, NothingTold DEF InputInv, TypeOK
  <2>2. ASSUME NEW w \in live, client_change_focus(w)
        PROVE  /\ kb' \in [Conns -> Keyboards] /\ OnlyHeard' /\ Believed'
               /\ focused' \in live' \cup {None}
    BY <1>1, <1>2, <2>2, FocusMoves DEF InputInv, TypeOK, client_change_focus
  <2> QED  BY <2>1, <2>2 DEF pointer_motion
<1> QED
  BY <1>1, <1>2, <1>3, <1>4 DEF InputInv, TypeOK, Keyboards, DragHasButton

(* Devices and clients that come and go hold nothing down.                  *)
LEMMA RestKept ==
  ASSUME InputInv, UNCHANGED <<down, stateVars, is_dragging>>,
         plugged' \subseteq Devices, capabilities' \subseteq Kinds, live' \subseteq Windows,
         seen' \in [Conns -> SUBSET Kinds], keyboards' \subseteq Conns, refused' \subseteq Conns,
         focused' \in live' \cup {None},
         kb' \in [Conns -> Keyboards], OnlyHeard', Believed'
  PROVE  InputInv'
BY DEF InputInv, TypeOK, Kinds, Keyboards, DragHasButton, Held, stateVars

LEMMA InputInvStep ==
  ASSUME InputInv, [Next]_vars
  PROVE  InputInv'
<1> USE WindowsAssumption, DevicesAssumption
<1>1. /\ TypeOK /\ OnlyHeard /\ Believed /\ live \subseteq Windows /\ plugged \subseteq Devices
      /\ capabilities \subseteq Kinds /\ keyboards \subseteq Conns /\ refused \subseteq Conns
      /\ seen \in [Conns -> SUBSET Kinds] /\ focused \in live \cup {None}
  BY DEF InputInv, TypeOK, Kinds
<1>2. ASSUME NEW d \in Devices,
             handle_event_dev_added(d) \/ handle_event_dev_removed(d)
      PROVE  InputInv'
  <2>1. UNCHANGED <<down, stateVars, is_dragging, live, focused, seen, keyboards, refused, kb>>
    BY <1>2 DEF handle_event_dev_added, handle_event_dev_removed, clientVars
  <2>2. plugged' \subseteq Devices /\ capabilities' \subseteq Kinds
    BY <1>1, <1>2 DEF handle_event_dev_added, handle_event_dev_removed, Kinds
  <2>3. kb' \in [Conns -> Keyboards] /\ OnlyHeard' /\ Believed'
    BY <1>1, <2>1, NothingTold DEF Held
  <2> QED  BY <1>1, <2>1, <2>2, <2>3, RestKept
<1>3. ASSUME NEW c \in Conns, on_wl_seat_bind(c) \/ on_wl_seat_get_keyboard(c)
      PROVE  InputInv'
  <2>1. UNCHANGED <<down, plugged, capabilities, stateVars, is_dragging, live, focused, kb>>
    BY <1>3 DEF on_wl_seat_bind, on_wl_seat_get_keyboard, deviceVars
  <2>2. /\ keyboards \subseteq keyboards' /\ keyboards' \subseteq Conns /\ refused' \subseteq Conns
        /\ seen' \in [Conns -> SUBSET Kinds]
    BY <1>1, <1>3 DEF on_wl_seat_bind, on_wl_seat_get_keyboard
  <2>3. kb' \in [Conns -> Keyboards] /\ OnlyHeard' /\ Believed'
    BY <1>1, <2>1, <2>2, NothingTold DEF Held
  <2> QED  BY <1>1, <2>1, <2>2, <2>3, RestKept
<1>4. ASSUME NEW w \in Windows, on_xdg_surface_get_toplevel(w) \/ client_close(w)
      PROVE  InputInv'
  <2>1. UNCHANGED <<down, plugged, capabilities, stateVars, is_dragging, seen, keyboards, refused>>
    BY <1>4 DEF on_xdg_surface_get_toplevel, client_close, deviceVars, clientVars
  <2>2. live' \subseteq Windows
    BY <1>1, <1>4 DEF on_xdg_surface_get_toplevel, client_close
  <2>3. \/ UNCHANGED <<focused, kb>> /\ focused' \in live' \cup {None}
        \/ \E v \in live' \cup {None} : client_change_focus(v)
    BY <1>1, <1>4 DEF on_xdg_surface_get_toplevel, client_close
  <2>4. /\ kb' \in [Conns -> Keyboards] /\ OnlyHeard' /\ Believed'
        /\ focused' \in live' \cup {None}
    <3>1. CASE UNCHANGED <<focused, kb>> /\ focused' \in live' \cup {None}
      BY <1>1, <2>1, <3>1, NothingTold DEF Held
    <3>2. ASSUME NEW v \in live' \cup {None}, client_change_focus(v)
          PROVE  <2>4!1 /\ <2>4!2
      BY <1>1, <2>1, <2>2, <3>2, FocusMoves DEF Held, client_change_focus
    <3> QED  BY <2>3, <3>1, <3>2
  <2> QED  BY <1>1, <2>1, <2>2, <2>4, RestKept
<1>5. CASE UNCHANGED vars
  BY <1>5 DEF vars, deviceVars, stateVars, clientVars, InputInv, TypeOK, OnlyHeard, Believed,
              DragHasButton, Held
<1> QED
  BY <1>2, <1>3, <1>4, <1>5, KeyPressed, KeyReleased, ButtonPressed, ButtonReleased,
     PointerMoved
     DEF Next

LEMMA InputInvInit == Init => InputInv
<1> SUFFICES ASSUME Init PROVE InputInv
  OBVIOUS
<1>1. kb \in [Conns -> Keyboards]
  BY NoKeyboardType DEF Init
<1>2. TypeOK
  BY <1>1 DEF Init, TypeOK, Keyboards
<1>3. OnlyHeard /\ Believed /\ DragHasButton
  BY DEF Init, OnlyHeard, Believed, DragHasButton, NoKeyboard
<1> QED  BY <1>2, <1>3 DEF InputInv

LEMMA InputInvHolds == Spec => []InputInv
BY InputInvInit, InputInvStep, PTL DEF Spec

-----------------------------------------------------------------------------
(* The fields of the compositor and of the clients' keyboards keep to their   *)
(* types: input.h, struct c_input; cuts.c, struct cuts.                     *)
THEOREM InputTypes == Spec => []TypeOK
<1>1. InputInv => TypeOK
  BY DEF InputInv
<1> QED  BY <1>1, InputInvHolds, PTL

(* For every set of devices and bindings, a client never believes a key or a  *)
(* modifier down that no device holds: a key repeats with its client only     *)
(* while it is held (input.c:134-183, surface.c:12-63).                     *)
THEOREM BelievedCorrect == Spec => []BelievedIsHeld
<1>1. InputInv => BelievedIsHeld
  BY DEF InputInv, Believed, BelievedIsHeld
<1> QED  BY <1>1, InputInvHolds, PTL

(* Only the client of the window with the focus has keys or modifiers down:   *)
(* each change of the focus takes them from the one before (cuts.c:691-752). *)
THEOREM OnlyFocusCorrect == Spec => []OnlyFocusHolds
<1>1. InputInv => OnlyFocusHolds
  BY DEF InputInv, OnlyHeard, OnlyFocusHolds
<1> QED  BY <1>1, InputInvHolds, PTL

(* A drag goes on only while a button is held on some device                *)
(* (input.c:85-117).                                                       *)
THEOREM DragCorrect == Spec => []DragHasButton
<1>1. InputInv => DragHasButton
  BY DEF InputInv
<1> QED  BY <1>1, InputInvHolds, PTL
=============================================================================
