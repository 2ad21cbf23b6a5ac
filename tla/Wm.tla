--------------------------------- MODULE Wm ---------------------------------
(***************************************************************************)
(* The window manager in cuts.c: which windows exist and in which order,    *)
(* the tag each is on and the tag on the screen, floating and fullscreen     *)
(* windows, the tiling, the focus, what the windows are told of all that,    *)
(* and the layer surfaces that take the keyboard.                           *)
(*                                                                         *)
(*   cuts.c                the handlers of requests, keys and the pointer    *)
(*   compositor/window.c   configure events, and which surface is entered   *)
(*   compositor/surface.c  enter and leave events (module SeatEvents)        *)
(*   seat/input.c          a drag: which handler runs for button and motion  *)
(*                                                                         *)
(* Every handler runs to its end before the next, so each is an action.     *)
(* A window is told its size and its states by configure events.  Where a    *)
(* window is placed is kept as its slot: place i of n in the tiling, the     *)
(* whole area, the whole output, or a size of its own.  The stacking order  *)
(* is left out: any window of the tag may be the topmost at the pointer.    *)
(***************************************************************************)
EXTENDS Integers, FiniteSets

CONSTANTS
  Windows,      \* xdg_toplevels
  Layers,       \* zwlr_layer_surfaces
  Tags,         \* the single bits of cuts.tag
  NoTag,        \* the tag of a client that is not there
  LateBind,     \* whether a client may bind its devices after its windows
  (* what config.h binds to keys and buttons *)
  Layouts,      \* the layouts there are keys for
  Floating,     \* whether there is a key for toggle_floating
  Drags,        \* the drag handlers there are buttons for
  (* what is external *)
  Conns, Devices, Client, HasSub, None

INSTANCE SeatEvents WITH Roots <- Windows \cup Layers

ASSUME WindowsAssumption == IsFiniteSet(Windows) /\ Windows \cap Layers = {}
ASSUME TagsAssumption == Tags # {} /\ NoTag \notin Tags
ASSUME RootsAssumption ==
  /\ Client \in [Windows \cup Layers -> Conns]
  /\ HasSub \subseteq Windows
  /\ Devices \subseteq {"keyboard", "pointer"}
  /\ \A r \in Windows \cup Layers : None # r /\ None \notin Tree(r)
ASSUME LateBindAssumption == LateBind \in BOOLEAN
ASSUME LayoutsAssumption == "tile" \in Layouts /\ Layouts \subseteq {"tile", "zoom"}
ASSUME FloatingAssumption == Floating \in BOOLEAN
ASSUME DragsAssumption == Drags \subseteq {"move", "resize"}

VARIABLES
  (* struct client and struct c_window of a toplevel *)
  place,        \* its place in cuts.clients, 1 at the head, 0 if it is not there
  tag, state,
  states,       \* the bits of window->states that change
  visible,      \* node->is_visible
  border,       \* border[i]->is_visible
  slot,         \* x, y, width and height of the window
  pfocus,       \* window->focused: the surface last entered by a pointer move
  (* struct cuts *)
  focused, idx, kb_focus,
  cur,          \* cuts.tag
  fullscreen,   \* the tags in cuts.fullscreen
  layout, dragging,
  drag,         \* input->state.drag_handler
  (* the clients *)
  layers,       \* layer surfaces that exist
  interactivity,
  told,         \* the last configure event of each window
  seat

clientVars == <<place, tag, state, states, visible, border, slot, pfocus>>
layerVars  == <<kb_focus, layers, interactivity>>
viewVars   == <<cur, fullscreen, layout>>
dragVars   == <<dragging, drag>>
vars == <<clientVars, focused, idx, layerVars, viewVars, dragVars, told, seat>>

(* enum xdg_toplevel_state *)
FULLSCREEN == 2
ACTIVATED  == 4

(* The bits that are set in a word of four.                                *)
BitsOf(v) == {i \in 0 .. 3 : (v \div 2 ^ i) % 2 = 1}

(* What window->width, height, x and y may come from.                      *)
NoSlot == [kind |-> "none"]
Zoomed == [kind |-> "zoom"]
Full   == [kind |-> "full"]
Free   == [kind |-> "free"]
Tile(n, i) == [kind |-> "tile", n |-> n, i |-> i]
Slots == {NoSlot, Zoomed, Full, Free}
           \cup {Tile(n, i) : n \in 1 .. Cardinality(Windows),
                              i \in 0 .. Cardinality(Windows) - 1}
NoConfigure == [states |-> {}, slot |-> NoSlot]

Live(w) == place[w] > 0

(* clients_for_each_in_tag over windows, and count_tiled                   *)
OnTag == {w \in Windows : Live(w) /\ tag[w] = cur}
Tiled == {w \in OnTag : state[w] = {}}
RankIn(S, w) == Cardinality({v \in S : place[v] < place[w]})

Init ==
  /\ place = [w \in Windows |-> 0]
  /\ tag = [w \in Windows |-> NoTag]
  /\ state = [w \in Windows |-> {}]
  /\ states = [w \in Windows |-> {}]
  /\ visible = [w \in Windows |-> FALSE]
  /\ border = [w \in Windows |-> FALSE]
  /\ slot = [w \in Windows |-> NoSlot]
  /\ pfocus = [w \in Windows |-> None]
  /\ focused = None
  /\ idx = 0
  /\ kb_focus = None
  /\ cur \in Tags
  /\ fullscreen = {}
  /\ layout = "tile"
  /\ dragging = FALSE
  /\ drag = None
  /\ layers = {}
  /\ interactivity = [l \in Layers |-> "none"]
  /\ told = [w \in Windows |-> NoConfigure]
  /\ seat = NewSeat

-----------------------------------------------------------------------------
(* Parts of the handlers.  Those that look at primed variables are used     *)
(* where the handler has already changed them.                             *)

(* c_list_insert at the head and c_list_remove                             *)
Inserted(w) == [v \in Windows |-> IF v = w THEN 1
                                  ELSE IF Live(v) THEN place[v] + 1 ELSE 0]
Removed(w)  == [v \in Windows |-> IF v = w THEN 0
                                  ELSE IF place[v] > place[w] THEN place[v] - 1
                                  ELSE place[v]]

(* Defect: the place of a window is counted among all windows of the tag.   *)
ArrangedAmongAll(sl) ==
  [w \in Windows |->
     IF w \notin Tiled' THEN sl[w]
     ELSE IF layout' = "zoom" THEN Zoomed
     ELSE Tile(Cardinality(Tiled'), RankIn(OnTag, w)')]

(* tile and zoom, from the sizes sl of the windows they leave alone         *)
Arranged(sl) ==
  [w \in Windows |->
     IF w \notin Tiled' THEN sl[w]
     ELSE IF layout' = "zoom" THEN Zoomed
     ELSE Tile(Cardinality(Tiled'), RankIn(Tiled, w)')]

(* c_window_activate and c_window_deactivate with add_states: the windows   *)
(* ws are sent a configure event, and one of them may have the focus.       *)
Configured(tl, ws, foc) ==
  [w \in Windows |->
     IF w \in ws
     THEN [states |-> {e \in 1 .. 3 : e \in states'[w]}
                        \cup (IF w = foc THEN {ACTIVATED} ELSE {}),
           slot |-> slot'[w]]
     ELSE tl[w]]

(* LAYOUT; the defect tells the windows nothing.                           *)
ArrangedOnly ==
  /\ slot' = Arranged(slot)
  /\ UNCHANGED told

LAYOUT ==
  /\ slot' = Arranged(slot)
  /\ told' = Configured(told, OnTag', focused)

(* client_unfocus, and a defect that sends no leave events                 *)
NotLeft == seat

Unfocused == IF focused = None THEN seat ELSE leave(seat, Root(focused), Devices)

(* client_change_focus: the surface s of the window w is at the pointer.    *)
(* Defects: the old client is unfocused after the new one was focused, and    *)
(* the new one is left.                                                    *)
UnfocusedLast(w, s) ==
  /\ focused' = IF focused = None THEN w ELSE None
  /\ seat' = IF focused = None THEN enter(seat, s, Devices)
             ELSE leave(enter(seat, s, Devices), Root(focused), Devices)

NewOneLeft(w, s) ==
  /\ focused' = w
  /\ seat' = enter(leave(seat, s, Devices), s, Devices)

client_change_focus(w, s) ==
  /\ focused' = w
  /\ seat' = enter(Unfocused, s, Devices)

(* The windows that are told of it, with c_window_unfocus and               *)
(* c_window_focus; the defect only tells the new one.                       *)
FocusedOnly(w) == {w}

Refocused(w) == {focused, w} \ {None}

(* tag_select_client finds the window w, from the index i.                 *)
tag_select_client(i, direction, w) ==
  /\ w \in OnTag'
  /\ idx' = (i + direction + Cardinality(OnTag')) % Cardinality(OnTag')
  /\ RankIn(OnTag, w)' = idx'

-----------------------------------------------------------------------------
(* Requests of the clients.                                                *)

(* wl_seat.get_keyboard and wl_seat.get_pointer                            *)
bind_device(c, d) ==
  /\ d \notin seat.bound[c]
  /\ \/ LateBind
     \/ /\ \A w \in Windows : Client[w] = c => ~Live(w)
        /\ \A l \in layers : Client[l] # c
  /\ seat' = Bound(seat, c, d)
  /\ UNCHANGED <<clientVars, focused, idx, layerVars, viewVars, dragVars, told>>

xdg_surface_get_toplevel(w) ==
  /\ ~Live(w)
  /\ place' = Inserted(w)
  /\ tag' = [tag EXCEPT ![w] = cur]
  /\ visible' = [visible EXCEPT ![w] = TRUE]
  /\ border' = [border EXCEPT ![w] = TRUE]
  /\ UNCHANGED <<state, states, pfocus, idx, layerVars, viewVars, dragVars>>
  /\ slot' = Arranged(slot)
  /\ \/ /\ cur \in fullscreen
        /\ told' = Configured(told, OnTag', focused)
        /\ UNCHANGED <<focused, seat>>
     \/ /\ cur \notin fullscreen
        /\ told' = Configured(Configured(told, OnTag', focused), Refocused(w), w)
        /\ client_change_focus(w, Root(w))

(* client_close; the defect does not notice that the client has the focus.  *)
never_focused(w) == FALSE

is_focused(w) == focused = w

(* client_close and client_free, then LAYOUT if the window was on the tag. *)
(* Nothing remains of the client.                                          *)
xdg_toplevel_destroy(w) ==
  /\ Live(w)
  /\ place' = Removed(w)
  /\ tag' = [tag EXCEPT ![w] = NoTag]
  /\ state' = [state EXCEPT ![w] = {}]
  /\ states' = [states EXCEPT ![w] = {}]
  /\ visible' = [visible EXCEPT ![w] = FALSE]
  /\ border' = [border EXCEPT ![w] = FALSE]
  /\ pfocus' = [pfocus EXCEPT ![w] = None]
  /\ UNCHANGED <<layerVars, viewVars, dragVars>>
  /\ \/ ~is_focused(w) /\ UNCHANGED <<focused, idx>> /\ seat' = Forgotten(seat, w)
     \/ /\ is_focused(w) /\ OnTag' = {}
        /\ focused' = None
        /\ seat' = Forgotten(Unfocused, w)
        /\ UNCHANGED idx
     \/ /\ is_focused(w)
        /\ \E p \in OnTag', s \in UNION {Tree(v) : v \in Windows} :
             /\ s \in Tree(p)
             /\ tag_select_client(idx, -1, p)
             /\ focused' = p
             /\ seat' = Forgotten(enter(Unfocused, s, Devices), w)
  /\ LET sl == [slot EXCEPT ![w] = NoSlot]
         tl == [told EXCEPT ![w] = NoConfigure]
         on == tag[w] = cur
     IN /\ slot' = IF on THEN Arranged(sl) ELSE sl
        /\ told' = Configured(tl, (IF on THEN OnTag' ELSE {})
                                    \cup (IF is_focused(w) THEN {focused'} ELSE {}),
                              focused')

(* client_set_fullscreen adds an enumerator to a word of flags: the bit it   *)
(* sets is that of another state.                                          *)
client_set_fullscreen(w) ==
  /\ state' = [state EXCEPT ![w] = {"fullscreen"}]
  /\ states' = [states EXCEPT ![w] = @ \cup BitsOf(FULLSCREEN)]
  /\ fullscreen' = fullscreen \cup {tag[w]}
  /\ border' = [border EXCEPT ![w] = FALSE]
  /\ UNCHANGED <<place, tag, visible, pfocus, focused, idx, layerVars, cur,
                 layout, dragVars, seat>>
  /\ slot' = Arranged([slot EXCEPT ![w] = Full])
  /\ told' = Configured(told, OnTag', focused)

client_unset_fullscreen(w) ==
  /\ state' = [state EXCEPT ![w] = @ \ {"fullscreen"}]
  /\ states' = [states EXCEPT ![w] = @ \ BitsOf(FULLSCREEN)]
  /\ fullscreen' = fullscreen \ {tag[w]}
  /\ border' = [border EXCEPT ![w] = TRUE]
  /\ UNCHANGED <<place, tag, visible, pfocus, focused, idx, layerVars, cur,
                 layout, dragVars, seat>>
  /\ LAYOUT

xdg_toplevel_set_fullscreen(w) == Live(w) /\ client_set_fullscreen(w)

xdg_toplevel_unset_fullscreen(w) == Live(w) /\ client_unset_fullscreen(w)

zwlr_layer_shell_get_layer_surface(l) ==
  /\ l \notin layers
  /\ layers' = layers \cup {l}
  /\ interactivity' = [interactivity EXCEPT ![l] = "none"]
  /\ UNCHANGED <<clientVars, focused, idx, kb_focus, viewVars, dragVars, told, seat>>

(* The keyboard goes from the layer surface that has it to another; the      *)
(* defect leaves the old one last.                                         *)
LeftLast(l) ==
  IF kb_focus = None THEN enter(seat, Root(l), Keyboard)
  ELSE leave(enter(seat, Root(l), Keyboard), Root(kb_focus), Keyboard)

HandedTo(l) ==
  enter(IF kb_focus = None THEN seat ELSE leave(seat, Root(kb_focus), Keyboard),
        Root(l), Keyboard)

(* Only a request for exclusive interactivity does anything.                *)
zwlr_layer_surface_set_keyboard_interactivity(l, ki) ==
  /\ l \in layers
  /\ interactivity' = [interactivity EXCEPT ![l] = ki]
  /\ IF ki = "exclusive"
     THEN /\ kb_focus' = l
          /\ seat' = HandedTo(l)
     ELSE UNCHANGED <<kb_focus, seat>>
  /\ UNCHANGED <<clientVars, focused, idx, layers, viewVars, dragVars, told>>

(* The window that has the focus gets the keyboard back with c_window_focus. *)
zwlr_layer_surface_destroy(l) ==
  /\ l \in layers
  /\ layers' = layers \ {l}
  /\ UNCHANGED <<clientVars, focused, idx, interactivity, viewVars, dragVars>>
  /\ \/ /\ kb_focus # l
        /\ seat' = Forgotten(seat, l)
        /\ UNCHANGED <<kb_focus, told>>
     \/ /\ kb_focus = l /\ focused = None
        /\ kb_focus' = None
        /\ seat' = Forgotten(seat, l)
        /\ UNCHANGED told
     \/ /\ kb_focus = l /\ focused # None
        /\ kb_focus' = None
        /\ \E s \in Tree(focused) : seat' = enter(Forgotten(seat, l), s, Devices)
        /\ told' = Configured(told, {focused}, focused)

-----------------------------------------------------------------------------
(* Keys of the user.                                                       *)

toggle_fullscreen ==
  /\ focused # None
  /\ IF "fullscreen" \in state[focused] THEN client_unset_fullscreen(focused)
                                        ELSE client_set_fullscreen(focused)

toggle_floating ==
  /\ Floating /\ focused # None /\ cur \notin fullscreen
  /\ state' = [state EXCEPT ![focused] = IF "float" \in @ THEN @ \ {"float"}
                                                          ELSE @ \cup {"float"}]
  /\ UNCHANGED <<place, tag, states, visible, border, pfocus, focused, idx,
                 layerVars, viewVars, dragVars, seat>>
  /\ LAYOUT

move_focus(direction) ==
  /\ cur \notin fullscreen
  /\ UNCHANGED <<clientVars, layerVars, viewVars, dragVars>>
  /\ \E w \in OnTag : \E s \in Tree(w) :
       /\ tag_select_client(idx, direction, w)
       /\ client_change_focus(w, s)
       /\ told' = Configured(told, Refocused(w), w)

(* client_set_visibility for every client: state ^ CLIENT_FULLSCREEN is zero *)
(* for a client that is fullscreen and not floating.  Defect: what was hidden *)
(* stays so.                                                                *)
HiddenStays(t) == [w \in Windows |-> visible[w] /\ tag[w] = t]

ShownOn(t) == [w \in Windows |-> Live(w) /\ tag[w] = t]
BorderedOn(t) == [w \in Windows |-> tag[w] = t /\ state[w] # {"fullscreen"}]

switch_tag(t) ==
  /\ t # cur
  /\ cur' = t
  /\ visible' = ShownOn(t)
  /\ border' = BorderedOn(t)
  /\ UNCHANGED <<place, tag, state, states, pfocus, layerVars, fullscreen,
                 layout, dragVars>>
  /\ \/ /\ OnTag' = {}
        /\ idx' = 0
        /\ focused' = None
        /\ seat' = Unfocused
     \/ \E w \in OnTag' : \E s \in Tree(w) :
          /\ tag_select_client(0, 0, w)
          /\ client_change_focus(w, s)
  /\ slot' = Arranged(slot)
  /\ told' = Configured(told, {focused, focused'} \cup OnTag', focused')

(* The windows that stay are not arranged anew.                            *)
window_move_to_workspace(t) ==
  /\ focused # None /\ t # cur
  /\ tag' = [tag EXCEPT ![focused] = t]
  /\ visible' = [visible EXCEPT ![focused] = FALSE]
  /\ border' = [border EXCEPT ![focused] = FALSE]
  /\ UNCHANGED <<place, state, states, slot, pfocus, layerVars, viewVars, dragVars>>
  /\ \/ /\ OnTag' = {}
        /\ UNCHANGED <<focused, idx, told, seat>>
     \/ \E w \in OnTag' : \E s \in Tree(w) :
          /\ tag_select_client(idx, 1, w)
          /\ client_change_focus(w, s)
          /\ told' = Configured(told, Refocused(w), w)

(* set_layout, and change_mfact, change_nmaster, change_gap and             *)
(* change_border, which keep the layout.                                   *)
set_layout(l) ==
  /\ layout' = l
  /\ UNCHANGED <<place, tag, state, states, visible, border, pfocus, focused, idx,
                 layerVars, cur, fullscreen, dragVars, seat>>
  /\ LAYOUT

-----------------------------------------------------------------------------
(* The pointer.                                                            *)

(* The handler h of a drag, window_move or window_resize, when foc has the  *)
(* focus and the windows were last told tl.                                *)
drag_handler(h, done, foc, tl) ==
  \/ /\ h = None \/ foc = None \/ cur \in fullscreen
     /\ UNCHANGED <<state, slot, dragging>>
     /\ told' = tl
  \/ /\ h # None /\ foc # None /\ cur \notin fullscreen
     /\ state' = [state EXCEPT ![foc] = @ \cup {"float"}]
     /\ dragging' = ~done
     /\ LET floats == "float" \in state[foc]
            sl == IF floats THEN slot ELSE Arranged(slot)
        IN /\ slot' = [w \in Windows |->
                       IF w = foc /\ h = "resize" THEN Free ELSE sl[w]]
           /\ told' = Configured(tl, (IF floats THEN {} ELSE OnTag')
                                       \cup (IF h = "resize" THEN {foc} ELSE {}),
                                 foc)

(* A button of a drag combination goes down.                               *)
drag_begin(h) ==
  /\ drag' = h
  /\ UNCHANGED <<place, tag, states, visible, border, pfocus, focused, idx,
                 layerVars, viewVars, seat>>
  /\ drag_handler(h, FALSE, focused, told)

drag_end ==
  /\ drag # None
  /\ drag' = None
  /\ UNCHANGED <<place, tag, states, visible, border, pfocus, focused, idx,
                 layerVars, viewVars, seat>>
  /\ drag_handler(drag, TRUE, focused, told)

(* c_window_pointer_move: the pointer is over the surface s of the window   *)
(* w, or over none of them.  window->focused only shows in pointer events.   *)
c_window_pointer_move(w, s) ==
  IF Pointer = {} \/ s = None \/ s = pfocus[w]
  THEN UNCHANGED <<pfocus, seat>>
  ELSE /\ pfocus' = [pfocus EXCEPT ![w] = s]
       /\ seat' = enter(IF pfocus[w] = None THEN seat
                        ELSE leave(seat, pfocus[w], Pointer), s, Pointer)

(* on_mouse_movement, the window w being topmost at the pointer and s the    *)
(* surface hit in it, and then the handler of a drag.                       *)
pointer_motion ==
  /\ UNCHANGED <<place, tag, states, visible, border, idx, layerVars, viewVars, drag>>
  /\ \/ /\ dragging \/ focused = None
        /\ UNCHANGED <<pfocus, focused, seat>>
        /\ drag_handler(drag, FALSE, focused, told)
     \/ /\ ~dragging /\ focused # None
        /\ UNCHANGED <<pfocus, focused, seat>>
        /\ drag_handler(drag, FALSE, focused, told)
     \/ /\ ~dragging /\ focused \in OnTag
        /\ \E s \in Tree(focused) \cup {None} : c_window_pointer_move(focused, s)
        /\ UNCHANGED focused
        /\ drag_handler(drag, FALSE, focused, told)
     \/ /\ ~dragging /\ focused # None
        /\ \E w \in OnTag \ {focused} : \E s \in Tree(w) :
             /\ client_change_focus(w, s)
             /\ UNCHANGED pfocus
             /\ drag_handler(drag, FALSE, w, Configured(told, Refocused(w), w))

-----------------------------------------------------------------------------
Request ==
  \/ \E c \in Conns, d \in Devices : bind_device(c, d)
  \/ \E w \in Windows : \/ xdg_surface_get_toplevel(w)
                        \/ xdg_toplevel_destroy(w)
                        \/ xdg_toplevel_set_fullscreen(w)
                        \/ xdg_toplevel_unset_fullscreen(w)
  \/ \E l \in Layers :
       \/ zwlr_layer_shell_get_layer_surface(l)
       \/ \E ki \in {"none", "exclusive"} :
            zwlr_layer_surface_set_keyboard_interactivity(l, ki)
       \/ zwlr_layer_surface_destroy(l)

Key ==
  \/ toggle_fullscreen
  \/ toggle_floating
  \/ \E direction \in {-1, 1} : move_focus(direction)
  \/ \E t \in Tags : switch_tag(t) \/ window_move_to_workspace(t)
  \/ \E l \in Layouts : set_layout(l)

Mouse ==
  \/ \E h \in Drags : drag_begin(h)
  \/ drag_end
  \/ pointer_motion

Next == Request \/ Key \/ Mouse

Spec == Init /\ [][Next]_vars

-----------------------------------------------------------------------------
(* Every variable keeps to the values the code's fields can hold.          *)
TypeOK ==
  /\ place \in [Windows -> Nat]
  /\ tag \in [Windows -> Tags \cup {NoTag}]
  /\ state \in [Windows -> SUBSET {"float", "fullscreen"}]
  /\ states \in [Windows -> SUBSET (0 .. 3)]
  /\ visible \in [Windows -> BOOLEAN]
  /\ border \in [Windows -> BOOLEAN]
  /\ slot \in [Windows -> Slots]
  /\ pfocus \in [Windows -> SurfaceOrNone]
  /\ focused \in Windows \cup {None}
  /\ idx \in 0 .. Cardinality(Windows)
  /\ kb_focus \in Layers \cup {None}
  /\ cur \in Tags
  /\ fullscreen \in SUBSET Tags
  /\ layout \in Layouts
  /\ dragging \in BOOLEAN
  /\ drag \in Drags \cup {None}
  /\ layers \in SUBSET Layers
  /\ interactivity \in [Layers -> {"none", "exclusive"}]
  /\ told \in [Windows -> [states : SUBSET (1 .. 4), slot : Slots]]
  /\ seat \in Seats

(* The pointers cuts.focused_client and cuts.kb_focus never dangle: every   *)
(* way a client goes takes them away from it first.                         *)
FocusIsLive ==
  /\ focused # None => Live(focused)
  /\ kb_focus # None => kb_focus \in layers

(* Exactly the windows of the tag on the screen are drawn.                 *)
VisibleIffOnTag == \A w \in Windows : visible[w] <=> w \in OnTag

(* Of all windows, on whatever tag, exactly the one with the focus was last *)
(* told to draw itself as the active one.                                  *)
ActivatedIsFocused ==
  \A w \in Windows : ACTIVATED \in told[w].states <=> focused = w

(* A window on the screen knows the size it has.                           *)
ToldItsSize == \A w \in OnTag : told[w].slot = slot[w]

(* Tiled windows on the screen do not overlap: they have different places   *)
(* in a tiling into the same number of places.                             *)
NoOverlap ==
  layout = "tile" =>
    \A w \in Tiled :
      /\ slot[w].kind = "tile" /\ slot[w].i < slot[w].n
      /\ \A v \in Tiled \ {w} : slot[v].n = slot[w].n /\ slot[v].i # slot[w].i

(* A step that finds a window on the screen with the focus leaves some       *)
(* window on the screen with the focus, unless none is left on the tag.     *)
FocusKept ==
  [][(focused \in OnTag /\ OnTag' # {}) => focused' \in OnTag']_vars

-----------------------------------------------------------------------------
(* The keyboard, as the clients know it.                                   *)
KeyboardOf(c) == IF "keyboard" \in Devices THEN seat.active["keyboard"][c] ELSE None
HasKeyboard(c) == "keyboard" \in seat.bound[c]

(* on_keyboard_key: the client that is sent the keys                        *)
KeysGoTo == IF kb_focus # None THEN {Client[kb_focus]}
            ELSE IF focused # None THEN {Client[focused]} ELSE {}

(* The client of the window with the focus, and no other, has an active     *)
(* surface, and it is that window's.                                       *)
KeyboardFollowsFocus ==
  \A c \in Conns : HasKeyboard(c) =>
    KeyboardOf(c) = IF focused # None /\ Client[focused] = c THEN Root(focused)
                                                             ELSE None

(* No client is ever sent an enter for a keyboard that has an active         *)
(* surface, nor a leave of a surface that is not the active one.            *)
EnterOnce == <<"enter", "keyboard">> \notin seat.wrong
LeaveMatches == <<"leave", "keyboard">> \notin seat.wrong
EnterLeavePaired == EnterOnce /\ LeaveMatches

(* No pointer enters a surface before it is told to leave the one it is on.  *)
PointerLeavesFirst == <<"switch", "pointer">> \notin seat.wrong

(* Keys are sent to a keyboard that has an active surface.                  *)
KeysToEntered == \A c \in KeysGoTo : HasKeyboard(c) => KeyboardOf(c) # None

(* A layer surface that took the keyboard has been entered.                 *)
ExclusiveEntered ==
  kb_focus # None /\ HasKeyboard(Client[kb_focus]) =>
    KeyboardOf(Client[kb_focus]) = Root(kb_focus)

(* However the keyboard is handed between windows and layer surfaces, who    *)
(* gets the keys has been entered.                                         *)
KeyboardHandedOver == KeysToEntered /\ ExclusiveEntered

(* While a layer surface has the keyboard, no other surface has it.         *)
ExclusiveKeyboard ==
  kb_focus # None => \A c \in Conns : KeyboardOf(c) \in {None, Root(kb_focus)}

(* A layer surface that wants no keyboard events has no keyboard focus.     *)
NoneKeyboard == kb_focus # None => interactivity[kb_focus] = "exclusive"

-----------------------------------------------------------------------------
(* A window that is fullscreen is told so, if it was told anything of the    *)
(* size it has now.                                                        *)
FullscreenIsTold ==
  \A w \in Windows : "fullscreen" \in state[w] /\ told[w].slot = Full =>
    FULLSCREEN \in told[w].states

(* A request to be fullscreen is answered by a configure event.             *)
FullscreenAnswered ==
  [][\A w \in Windows : xdg_toplevel_set_fullscreen(w) => told'[w].slot = Full]_vars
=============================================================================
