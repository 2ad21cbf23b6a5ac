-------------------------------- MODULE Input --------------------------------
(***************************************************************************)
(* Input devices, from libinput to the keyboards of the clients.            *)
(*                                                                         *)
(*   seat/input.c            device, key, button and motion events; combos   *)
(*   cuts.c                  the listeners of those events, drags and focus  *)
(*   compositor/surface.c    what a client is sent                          *)
(*   seat/session/session.c  the capabilities a wl_seat announces           *)
(*                                                                         *)
(* One event of libinput, or one request, is handled to its end before the   *)
(* next.  Several devices may hold the same key.  The symbol of a key does   *)
(* not depend on the modifiers here, and no modifier is locked or latched.   *)
(* Tags, fullscreen windows and layer surfaces are in Wm: which window gets  *)
(* the focus is open here.                                                  *)
(***************************************************************************)
EXTENDS Integers, Sequences, FiniteSets

CONSTANTS
  Windows, Conns,
  Client,       \* the connection of each window
  Devices,
  Caps,         \* what each device is: "pointer", "keyboard"
  Keys, Buttons,
  Modifiers,    \* the keys that are modifiers
  combo_cb,     \* input->combo_cb, filled before the event loop runs: records of
                \* mod_mask, keysym, btn, drag (has a drag_handler) and focus
                \* (the handler may move the focus)
  None          \* NULL and zero

ASSUME WindowsAssumption == Client \in [Windows -> Conns] /\ None \notin Windows
ASSUME DevicesAssumption == Caps \in [Devices -> SUBSET {"pointer", "keyboard"}]
ASSUME KeysAssumption ==
  Modifiers \subseteq Keys /\ Keys \cap Buttons = {} /\ None \notin Keys \cup Buttons
ASSUME CombosAssumption ==
  \A i \in DOMAIN combo_cb :
    /\ combo_cb[i].mod_mask \subseteq Modifiers
    /\ combo_cb[i].keysym \in Keys \cup {None}
    /\ combo_cb[i].btn \in Buttons \cup {None}
    /\ combo_cb[i].drag \in BOOLEAN /\ combo_cb[i].focus \in BOOLEAN

VARIABLES
  (* libinput and the hardware *)
  plugged,      \* the devices there are
  down,         \* the keys and buttons held on each
  (* struct c_input *)
  capabilities,
  button, drag, \* state.button, and whether state.drag_handler is set
  (* struct cuts *)
  is_dragging, live, focused,
  (* the clients *)
  seen,         \* the capabilities last announced to each
  keyboards,    \* the connections with a wl_keyboard
  refused,      \* those sent the error missing_capability
  kb            \* the logical state of each wl_keyboard, by wayland.xml

deviceVars == <<plugged, down>>
stateVars  == <<button, drag>>
clientVars == <<seen, keyboards, refused>>
vars == <<deviceVars, capabilities, stateVars, is_dragging, live, focused,
          clientVars, kb>>

Held == UNION {down[d] : d \in Devices}

(* input->state.mod_mask: xkb counts the devices that hold a modifier.      *)
mod_mask == Held \cap Modifiers

NoKeyboard == [active |-> None, keys |-> {}, mods |-> {}]

Init ==
  /\ plugged = {} /\ down = [d \in Devices |-> {}]
  /\ capabilities = {}
  /\ button = None /\ drag = FALSE
  /\ is_dragging = FALSE /\ live = {} /\ focused = None
  /\ seen = [c \in Conns |-> {}]
  /\ keyboards = {} /\ refused = {}
  /\ kb = [c \in Conns |-> NoKeyboard]

-----------------------------------------------------------------------------
(* What a client makes of the events it is sent.                           *)

(* enter: no key is in the array of keys, and modifiers of zero follow.     *)
enter(e, w) ==
  IF Client[w] \notin keyboards THEN e
  ELSE [e EXCEPT ![Client[w]] = [NoKeyboard EXCEPT !.active = w]]

leave(e, w) ==
  IF Client[w] \notin keyboards THEN e ELSE [e EXCEPT ![Client[w]] = NoKeyboard]

c_surface_keyboard_key(e, c, k, pressed, send_mods) ==
  IF c \notin keyboards THEN e
  ELSE [e EXCEPT ![c].keys = IF pressed THEN @ \cup {k} ELSE @ \ {k},
                 ![c].mods = IF send_mods THEN mod_mask' ELSE @]

(* Defect: the window that loses the focus is not told.                     *)
UnfocusSilently == kb

(* client_change_focus, and client_unfocus alone when w is None.            *)
client_unfocus == IF focused = None THEN kb ELSE leave(kb, focused)

client_change_focus(w) ==
  /\ focused' = w
  /\ kb' = IF w = None THEN client_unfocus ELSE enter(client_unfocus, w)

(* A handler of a combo: move_focus and switch_tag may move the focus to any  *)
(* window, or to none where the tag has no window.                         *)
handler(cl) ==
  \/ UNCHANGED <<focused, kb>>
  \/ cl.focus /\ \E w \in live \cup {None} : client_change_focus(w)

(* window_move and window_resize return early when no window has the focus or *)
(* the tag has a fullscreen window.                                        *)
drag_handler(done) ==
  \/ focused' # None /\ is_dragging' = ~done
  \/ UNCHANGED is_dragging

(* The first of the combos in S, which the list is searched for in order.    *)
FirstOf(S) == {combo_cb[i] : i \in {j \in S : \A k \in S : j <= k}}

(* IS_KEYBOARD_COMBO and IS_MOUSE_COMBO                                      *)
KeyboardCombo(k) ==
  FirstOf({i \in DOMAIN combo_cb : /\ combo_cb[i].keysym = k
                                   /\ combo_cb[i].mod_mask \subseteq mod_mask'
                                   /\ combo_cb[i].btn = None})
MouseCombo ==
  FirstOf({i \in DOMAIN combo_cb : /\ combo_cb[i].mod_mask \subseteq mod_mask
                                   /\ combo_cb[i].btn = button'})

-----------------------------------------------------------------------------
(* handle_event_dev_added and handle_event_dev_removed.  libinput reports    *)
(* what is held as released before it reports that a device has gone.        *)
handle_event_dev_added(d) ==
  /\ d \notin plugged
  /\ plugged' = plugged \cup {d}
  /\ capabilities' = capabilities \cup Caps[d]
  /\ UNCHANGED <<down, stateVars, is_dragging, live, focused, clientVars, kb>>

handle_event_dev_removed(d) ==
  /\ d \in plugged /\ down[d] = {}
  /\ plugged' = plugged \ {d}
  /\ capabilities' = capabilities \ Caps[d]
  /\ UNCHANGED <<down, stateVars, is_dragging, live, focused, clientVars, kb>>

on_keyboard_key(k, pressed) ==
  /\ kb' = IF focused = None THEN kb
           ELSE c_surface_keyboard_key(kb, Client[focused], k, pressed,
                                       mod_mask' # mod_mask)
  /\ UNCHANGED focused

(* handle_event_keyboard: a press that is bound is not shown to the clients.  *)
key_press(d, k) ==
  /\ d \in plugged /\ "keyboard" \in Caps[d] /\ k \notin down[d]
  /\ down' = [down EXCEPT ![d] = @ \cup {k}]
  /\ \/ KeyboardCombo(k) = {} /\ on_keyboard_key(k, TRUE)
     \/ \E cl \in KeyboardCombo(k) : handler(cl)
  /\ UNCHANGED <<plugged, capabilities, stateVars, is_dragging, live, clientVars>>

(* Defect: a combo keeps the release of its key to itself as well.           *)
ReleaseOfComboKept(d, k) ==
  /\ k \in down[d] \cap Keys
  /\ down' = [down EXCEPT ![d] = @ \ {k}]
  /\ \/ KeyboardCombo(k) = {} /\ on_keyboard_key(k, FALSE)
     \/ KeyboardCombo(k) # {} /\ UNCHANGED <<kb, focused>>
  /\ UNCHANGED <<plugged, capabilities, stateVars, is_dragging, live, clientVars>>

key_release(d, k) ==
  /\ k \in down[d] \cap Keys
  /\ down' = [down EXCEPT ![d] = @ \ {k}]
  /\ on_keyboard_key(k, FALSE)
  /\ UNCHANGED <<plugged, capabilities, stateVars, is_dragging, live, clientVars>>

(* handle_event_mouse for a button.                                        *)
button_press(d, b) ==
  /\ d \in plugged /\ "pointer" \in Caps[d] /\ b \notin down[d]
  /\ down' = [down EXCEPT ![d] = @ \cup {b}]
  /\ button' = b
  /\ \/ MouseCombo = {} /\ UNCHANGED <<drag, is_dragging, focused, kb>>
     \/ \E cl \in MouseCombo :
          \/ cl.drag /\ UNCHANGED <<focused, kb>> /\ drag' = TRUE /\ drag_handler(FALSE)
          \/ ~cl.drag /\ handler(cl) /\ UNCHANGED <<drag, is_dragging>>
  /\ UNCHANGED <<plugged, capabilities, live, clientVars>>

(* Defect: a drag ends only while the modifiers of its combo are held.       *)
DragEndsWithCombo(d, b) ==
  /\ b \in down[d] \cap Buttons
  /\ down' = [down EXCEPT ![d] = @ \ {b}]
  /\ UNCHANGED <<plugged, capabilities, live, focused, clientVars, kb>>
  /\ LET over == drag /\ \E i \in DOMAIN combo_cb :
                             combo_cb[i].drag /\ combo_cb[i].mod_mask \subseteq mod_mask
     IN \/ ~over /\ UNCHANGED <<stateVars, is_dragging>>
        \/ over /\ drag_handler(TRUE) /\ drag' = FALSE /\ button' = None

(* The release of any button ends a drag.                                   *)
button_release(d, b) ==
  /\ b \in down[d] \cap Buttons
  /\ down' = [down EXCEPT ![d] = @ \ {b}]
  /\ UNCHANGED <<plugged, capabilities, live, focused, clientVars, kb>>
  /\ \/ ~drag /\ UNCHANGED <<stateVars, is_dragging>>
     \/ drag /\ drag_handler(TRUE) /\ drag' = FALSE /\ button' = None

(* handle_event_mouse for a motion: on_mouse_movement, then the drag handler. *)
pointer_motion ==
  /\ plugged \cap {d \in Devices : "pointer" \in Caps[d]} # {}
  /\ \/ UNCHANGED <<focused, kb>>
     \/ ~is_dragging /\ focused # None /\ \E w \in live \ {focused} : client_change_focus(w)
  /\ \/ ~drag /\ UNCHANGED is_dragging
     \/ drag /\ drag_handler(FALSE)
  /\ UNCHANGED <<deviceVars, capabilities, stateVars, live, clientVars>>

-----------------------------------------------------------------------------
(* Requests                                                                *)
on_wl_seat_bind(c) ==
  /\ c \notin refused
  /\ seen' = [seen EXCEPT ![c] = capabilities]
  /\ UNCHANGED <<deviceVars, capabilities, stateVars, is_dragging, live, focused,
                 keyboards, refused, kb>>

(* A client asks for a keyboard when the seat has been announced as one.     *)
on_wl_seat_get_keyboard(c) ==
  /\ c \notin refused \cup keyboards /\ "keyboard" \in seen[c]
  /\ \/ "keyboard" \in capabilities /\ keyboards' = keyboards \cup {c}
                                    /\ UNCHANGED refused
     \/ "keyboard" \notin capabilities /\ refused' = refused \cup {c}
                                       /\ UNCHANGED keyboards
  /\ UNCHANGED <<deviceVars, capabilities, stateVars, is_dragging, live, focused,
                 seen, kb>>

on_xdg_surface_get_toplevel(w) ==
  /\ w \notin live /\ Client[w] \notin refused
  /\ live' = live \cup {w}
  /\ UNCHANGED <<focused, kb>> \/ client_change_focus(w)
  /\ UNCHANGED <<deviceVars, capabilities, stateVars, is_dragging, clientVars>>

client_close(w) ==
  /\ w \in live
  /\ live' = live \ {w}
  /\ \/ focused # w /\ UNCHANGED <<focused, kb>>
     \/ focused = w /\ \E v \in (live \ {w}) \cup {None} : client_change_focus(v)
  /\ UNCHANGED <<deviceVars, capabilities, stateVars, is_dragging, clientVars>>

Next ==
  \/ \E d \in Devices :
       \/ handle_event_dev_added(d) \/ handle_event_dev_removed(d)
       \/ \E k \in Keys : key_press(d, k) \/ key_release(d, k)
       \/ \E b \in Buttons : button_press(d, b) \/ button_release(d, b)
  \/ pointer_motion
  \/ \E c \in Conns : on_wl_seat_bind(c) \/ on_wl_seat_get_keyboard(c)
  \/ \E w \in Windows : on_xdg_surface_get_toplevel(w) \/ client_close(w)

Spec == Init /\ [][Next]_vars

-----------------------------------------------------------------------------
TypeOK ==
  /\ plugged \subseteq Devices /\ capabilities \subseteq {"pointer", "keyboard"}
  /\ down \in [Devices -> SUBSET (Keys \cup Buttons)]
  /\ button \in Buttons \cup {None} /\ drag \in BOOLEAN /\ is_dragging \in BOOLEAN
  /\ live \subseteq Windows /\ focused \in live \cup {None}
  /\ seen \in [Conns -> SUBSET {"pointer", "keyboard"}]
  /\ keyboards \subseteq Conns /\ refused \subseteq Conns
  /\ kb \in [Conns -> [active : Windows \cup {None}, keys : SUBSET Keys,
                       mods : SUBSET Modifiers]]

(* No key sticks and no key is taken for a shortcut: what a client believes   *)
(* is down, and repeats or combines with other keys, is held on some device,  *)
(* whatever combos, focus changes and other devices did.                    *)
BelievedIsHeld == \A c \in Conns : kb[c].keys \cup kb[c].mods \subseteq Held

(* Only the client of the window with the focus has keys or modifiers down.  *)
OnlyFocusHolds ==
  \A c \in Conns : kb[c] # NoKeyboard => focused # None /\ Client[focused] = c

(* A drag handler is called for motion only while a button is held.          *)
DragHasButton == drag => Held \cap Buttons # {}

-----------------------------------------------------------------------------
(* Promises of wayland.xml that the code does not keep.                     *)

(* A released key was down.                                                *)
ReleasedWasDown ==
  [][\A d \in Devices, k \in Keys :
       key_release(d, k) /\ focused # None /\ Client[focused] \in keyboards =>
         k \in kb[Client[focused]].keys]_vars

(* The keyboard with the focus knows the modifiers that are held.            *)
ModifiersAreTold ==
  focused # None /\ Client[focused] \in keyboards => kb[Client[focused]].mods = mod_mask

(* No client is refused a keyboard that the seat has had.                   *)
NoneRefused == refused = {}
=============================================================================
