------------------------------ MODULE WmProofs ------------------------------
(***************************************************************************)
(* Proofs about Wm for every number of windows, layer surfaces, tags and     *)
(* clients, every set of key bindings, with and without late binding.       *)
(***************************************************************************)
EXTENDS Wm, FiniteSetTheorems, TLAPS

(* The part of the state that the list of clients and the focus rest on.    *)
CoreTypes ==
  /\ place \in [Windows -> Nat]
  /\ tag \in [Windows -> Tags \cup {NoTag}]
  /\ visible \in [Windows -> BOOLEAN]
  /\ cur \in Tags
  /\ focused \in Windows \cup {None}

(* No two windows are at the same place of cuts.clients.                   *)
PlacesDiffer ==
  \A v, w \in Windows : Live(v) /\ place[v] = place[w] => v = w

FocusedIsLive == focused # None => Live(focused)

LiveTagged == \A w \in Windows : Live(w) => tag[w] \in Tags

CoreInv ==
  CoreTypes /\ PlacesDiffer /\ FocusedIsLive /\ LiveTagged /\ VisibleIffOnTag

(* What a step can do to the list of clients, the tags and the focus.       *)
Quiet == UNCHANGED <<place, tag, visible, cur, focused>>

Refocus ==
  /\ UNCHANGED <<place, tag, visible, cur>>
  /\ focused' \in OnTag'

Enters(w) ==
  /\ ~Live(w)
  /\ place' = Inserted(w)
  /\ tag' = [tag EXCEPT ![w] = cur]
  /\ visible' = [visible EXCEPT ![w] = TRUE]
  /\ cur' = cur
  /\ \/ focused' = focused
     \/ focused' = w

Goes(w) ==
  /\ Live(w)
  /\ place' = Removed(w)
  /\ tag' = [tag EXCEPT ![w] = NoTag]
  /\ visible' = [visible EXCEPT ![w] = FALSE]
  /\ cur' = cur
  /\ \/ focused # w /\ focused' = focused
     \/ focused' = None /\ OnTag' = {}
     \/ focused' \in OnTag'

Switches(t) ==
  /\ cur' = t
  /\ visible' = ShownOn(t)
  /\ UNCHANGED <<place, tag>>
  /\ \/ focused' = None /\ OnTag' = {}
     \/ focused' \in OnTag'

Moves(t) ==
  /\ focused # None /\ t # cur
  /\ tag' = [tag EXCEPT ![focused] = t]
  /\ visible' = [visible EXCEPT ![focused] = FALSE]
  /\ UNCHANGED <<place, cur>>
  /\ \/ focused' = focused /\ OnTag' = {}
     \/ focused' \in OnTag'

LEMMA FullscreenQuiet ==
  ASSUME NEW w, client_set_fullscreen(w) \/ client_unset_fullscreen(w)
  PROVE  Quiet
BY DEF client_set_fullscreen, client_unset_fullscreen, Quiet

LEMMA PointerSteps == pointer_motion => Quiet \/ Refocus
<1> SUFFICES ASSUME pointer_motion PROVE Quiet \/ Refocus
  OBVIOUS
<1>1. UNCHANGED <<place, tag, visible, cur>>
  BY DEF pointer_motion, viewVars
<1>2. focused' = focused \/ \E w \in OnTag : focused' = w
  BY DEF pointer_motion, client_change_focus
<1>3. OnTag' = OnTag
  BY <1>1 DEF OnTag, Live
<1> QED
  BY <1>1, <1>2, <1>3 DEF Quiet, Refocus

LEMMA Steps ==
  ASSUME [Next]_vars
  PROVE  \/ Quiet
         \/ Refocus
         \/ \E w \in Windows : Enters(w) \/ Goes(w)
         \/ \E t \in Tags : Switches(t) \/ Moves(t)
<1>1. ASSUME NEW c \in Conns, NEW d \in Devices, bind_device(c, d) PROVE Quiet
  BY <1>1 DEF bind_device, Quiet, clientVars, viewVars
<1>2. ASSUME NEW w \in Windows, xdg_surface_get_toplevel(w) PROVE Enters(w)
  BY <1>2 DEF xdg_surface_get_toplevel, client_change_focus, Enters, viewVars
<1>3. ASSUME NEW w \in Windows, xdg_toplevel_destroy(w) PROVE Goes(w)
  BY <1>3 DEF xdg_toplevel_destroy, is_focused, Goes, viewVars
<1>4. ASSUME NEW w \in Windows,
             xdg_toplevel_set_fullscreen(w) \/ xdg_toplevel_unset_fullscreen(w)
      PROVE  Quiet
  BY <1>4, FullscreenQuiet
     DEF xdg_toplevel_set_fullscreen, xdg_toplevel_unset_fullscreen
<1>5. ASSUME NEW l \in Layers,
             \/ zwlr_layer_shell_get_layer_surface(l)
             \/ zwlr_layer_surface_destroy(l)
             \/ \E ki \in {"none", "exclusive"} :
                  zwlr_layer_surface_set_keyboard_interactivity(l, ki)
      PROVE  Quiet
  BY <1>5 DEF zwlr_layer_shell_get_layer_surface, zwlr_layer_surface_destroy,
              zwlr_layer_surface_set_keyboard_interactivity, Quiet, clientVars,
              viewVars
<1>6. CASE toggle_fullscreen
  BY <1>6, FullscreenQuiet DEF toggle_fullscreen
<1>7. CASE toggle_floating
  BY <1>7 DEF toggle_floating, Quiet, viewVars
<1>8. ASSUME NEW direction \in {-1, 1}, move_focus(direction) PROVE Refocus
  BY <1>8 DEF move_focus, client_change_focus, tag_select_client, Refocus,
              clientVars, viewVars
<1>9. ASSUME NEW t \in Tags, switch_tag(t) PROVE Switches(t)
  BY <1>9 DEF switch_tag, client_change_focus, tag_select_client, Switches
<1>10. ASSUME NEW t \in Tags, window_move_to_workspace(t) PROVE Moves(t)
  BY <1>10 DEF window_move_to_workspace, client_change_focus, tag_select_client,
               Moves, viewVars
<1>11. ASSUME NEW l \in Layouts, set_layout(l) PROVE Quiet
  BY <1>11 DEF set_layout, Quiet
<1>12. ASSUME NEW h \in Drags, drag_begin(h) PROVE Quiet
  BY <1>12 DEF drag_begin, Quiet, viewVars
<1>13. CASE drag_end
  BY <1>13 DEF drag_end, Quiet, viewVars
<1>14. CASE pointer_motion
  BY <1>14, PointerSteps
<1>15. CASE UNCHANGED vars
  BY <1>15 DEF vars, clientVars, viewVars, Quiet
<1> QED
  BY <1>1, <1>2, <1>3, <1>4, <1>5, <1>6, <1>7, <1>8, <1>9, <1>10, <1>11, <1>12,
     <1>13, <1>14, <1>15 DEF Next, Request, Key, Mouse

-----------------------------------------------------------------------------
(* The invariant CoreInv is inductive.                                     *)

LEMMA CoreInvInit == Init => CoreInv
BY TagsAssumption
   DEF Init, CoreInv, CoreTypes, PlacesDiffer, FocusedIsLive, LiveTagged,
       VisibleIffOnTag,
       OnTag, Live

(* Which windows are on the screen after a window came or went.            *)
LEMMA OnTagEnters ==
  ASSUME CoreInv, NEW w \in Windows, Enters(w)
  PROVE  OnTag' = OnTag \cup {w}
<1>1. \A v \in Windows : place'[v] > 0 <=> v = w \/ place[v] > 0
  BY DEF CoreInv, CoreTypes, Enters, Inserted, Live
<1>2. \A v \in Windows : tag'[v] = IF v = w THEN cur ELSE tag[v]
  BY DEF CoreInv, CoreTypes, Enters
<1> QED
  BY <1>1, <1>2 DEF OnTag, Live, Enters

LEMMA OnTagGoes ==
  ASSUME CoreInv, NEW w \in Windows, Goes(w)
  PROVE  /\ OnTag' = OnTag \ {w}
         /\ \A v \in Windows : Live(v)' <=> v # w /\ Live(v)
<1>1. \A v \in Windows : place'[v] > 0 <=> v # w /\ place[v] > 0
  BY DEF CoreInv, CoreTypes, Goes, Removed, Live
<1>2. \A v \in Windows : v # w => tag'[v] = tag[v]
  BY DEF CoreInv, CoreTypes, Goes
<1> QED
  BY <1>1, <1>2 DEF OnTag, Live, Goes

LEMMA CoreInvEnters ==
  ASSUME CoreInv, NEW w \in Windows, Enters(w)
  PROVE  CoreInv'
<1>1. place' \in [Windows -> Nat]
  BY DEF CoreInv, CoreTypes, Enters, Inserted
<1>2. CoreTypes'
  BY <1>1 DEF CoreInv, CoreTypes, Enters
<1>3. PlacesDiffer'
  BY DEF CoreInv, CoreTypes, PlacesDiffer, Enters, Inserted, Live
<1>4. FocusedIsLive'
  BY DEF CoreInv, CoreTypes, FocusedIsLive, Enters, Inserted, Live
<1>5. VisibleIffOnTag'
  BY OnTagEnters DEF CoreInv, CoreTypes, VisibleIffOnTag, Enters
<1>6. LiveTagged'
  BY DEF CoreInv, CoreTypes, LiveTagged, Enters, Inserted, Live
<1> QED
  BY <1>2, <1>3, <1>4, <1>5, <1>6 DEF CoreInv

LEMMA CoreInvGoes ==
  ASSUME CoreInv, NEW w \in Windows, Goes(w)
  PROVE  CoreInv'
<1>1. place' \in [Windows -> Nat]
  BY DEF CoreInv, CoreTypes, Goes, Removed, Live
<1>2. CoreTypes'
  BY <1>1 DEF CoreInv, CoreTypes, Goes, OnTag
<1>3. PlacesDiffer'
  BY DEF CoreInv, CoreTypes, PlacesDiffer, Goes, Removed, Live
<1>4. FocusedIsLive'
  BY OnTagGoes, RootsAssumption DEF CoreInv, CoreTypes, FocusedIsLive, Goes, OnTag
<1>5. VisibleIffOnTag'
  BY OnTagGoes DEF CoreInv, CoreTypes, VisibleIffOnTag, Goes
<1>6. LiveTagged'
  BY DEF CoreInv, CoreTypes, LiveTagged, Goes, Removed, Live
<1> QED
  BY <1>2, <1>3, <1>4, <1>5, <1>6 DEF CoreInv

LEMMA CoreInvSwitches ==
  ASSUME CoreInv, NEW t \in Tags, Switches(t)
  PROVE  CoreInv'
<1>1. CoreTypes'
  BY DEF CoreInv, CoreTypes, Switches, ShownOn, OnTag, Live
<1>2. PlacesDiffer'
  BY DEF CoreInv, PlacesDiffer, Switches, Live
<1>3. FocusedIsLive'
  BY DEF FocusedIsLive, Switches, OnTag
<1>4. VisibleIffOnTag'
  BY DEF CoreInv, CoreTypes, VisibleIffOnTag, Switches, ShownOn, OnTag, Live
<1>5. LiveTagged'
  BY DEF CoreInv, LiveTagged, Switches, Live
<1> QED
  BY <1>1, <1>2, <1>3, <1>4, <1>5 DEF CoreInv

LEMMA CoreInvMoves ==
  ASSUME CoreInv, NEW t \in Tags, Moves(t)
  PROVE  CoreInv'
<1>1. CoreTypes'
  BY DEF CoreInv, CoreTypes, Moves, OnTag
<1>2. PlacesDiffer'
  BY DEF CoreInv, PlacesDiffer, Moves, Live
<1>3. FocusedIsLive'
  BY DEF CoreInv, FocusedIsLive, Moves, OnTag, Live
<1>4. \A v \in Windows : v # focused =>
        tag'[v] = tag[v] /\ visible'[v] = visible[v]
  BY DEF CoreInv, CoreTypes, Moves
<1>5. tag'[focused] = t /\ visible'[focused] = FALSE
  BY DEF CoreInv, CoreTypes, Moves
<1>6. VisibleIffOnTag'
  BY <1>4, <1>5 DEF CoreInv, VisibleIffOnTag, Moves, OnTag, Live
<1>7. LiveTagged'
  BY DEF CoreInv, CoreTypes, LiveTagged, Moves, Live
<1> QED
  BY <1>1, <1>2, <1>3, <1>6, <1>7 DEF CoreInv

LEMMA CoreInvStep ==
  ASSUME CoreInv, [Next]_vars
  PROVE  CoreInv'
<1>1. CASE Quiet
  BY <1>1 DEF CoreInv, CoreTypes, PlacesDiffer, FocusedIsLive, LiveTagged,
              VisibleIffOnTag, Quiet, OnTag, Live
<1>2. CASE Refocus
  BY <1>2 DEF CoreInv, CoreTypes, PlacesDiffer, FocusedIsLive, LiveTagged,
              VisibleIffOnTag, Refocus, OnTag, Live
<1> QED
  BY <1>1, <1>2, Steps, CoreInvEnters, CoreInvGoes, CoreInvSwitches, CoreInvMoves

THEOREM CoreCorrect == Spec => []CoreInv
<1>1. CoreInv /\ [Next]_vars => CoreInv'
  BY CoreInvStep
<1> QED
  BY CoreInvInit, <1>1, PTL DEF Spec

-----------------------------------------------------------------------------
(* Exactly the windows of the tag on the screen are drawn, whatever way      *)
(* windows come, go, are moved, and tags are switched.                      *)
THEOREM VisibleCorrect == Spec => []VisibleIffOnTag
<1>1. CoreInv => VisibleIffOnTag
  BY DEF CoreInv
<1> QED
  BY <1>1, CoreCorrect, PTL

(* cuts.kb_focus is a layer surface that exists.                            *)
KbFocusIsLive == kb_focus # None => kb_focus \in layers

LEMMA KbFocusStep ==
  ASSUME KbFocusIsLive, [Next]_vars
  PROVE  KbFocusIsLive'
<1>1. ASSUME NEW l \in Layers, zwlr_layer_shell_get_layer_surface(l)
      PROVE  KbFocusIsLive'
  BY <1>1 DEF zwlr_layer_shell_get_layer_surface, KbFocusIsLive
<1>2. ASSUME NEW l \in Layers, NEW ki \in {"none", "exclusive"},
             zwlr_layer_surface_set_keyboard_interactivity(l, ki)
      PROVE  KbFocusIsLive'
  BY <1>2 DEF zwlr_layer_surface_set_keyboard_interactivity, KbFocusIsLive
<1>3. ASSUME NEW l \in Layers, zwlr_layer_surface_destroy(l)
      PROVE  KbFocusIsLive'
  BY <1>3 DEF zwlr_layer_surface_destroy, KbFocusIsLive
<1>4. CASE UNCHANGED layerVars
  BY <1>4 DEF layerVars, KbFocusIsLive
<1>5. ASSUME NEW w \in Windows,
             client_set_fullscreen(w) \/ client_unset_fullscreen(w)
      PROVE  UNCHANGED layerVars
  BY <1>5 DEF client_set_fullscreen, client_unset_fullscreen
<1>6. ASSUME NEW w \in Windows,
             \/ xdg_surface_get_toplevel(w) \/ xdg_toplevel_destroy(w)
             \/ xdg_toplevel_set_fullscreen(w) \/ xdg_toplevel_unset_fullscreen(w)
      PROVE  UNCHANGED layerVars
  BY <1>5, <1>6 DEF xdg_surface_get_toplevel, xdg_toplevel_destroy,
     xdg_toplevel_set_fullscreen, xdg_toplevel_unset_fullscreen
<1>7. ASSUME Key PROVE UNCHANGED layerVars
  <2>1. toggle_fullscreen => UNCHANGED layerVars
    BY DEF toggle_fullscreen, client_set_fullscreen, client_unset_fullscreen
  <2>2. toggle_floating => UNCHANGED layerVars
    BY DEF toggle_floating
  <2>3. \A d \in {-1, 1} : move_focus(d) => UNCHANGED layerVars
    BY DEF move_focus
  <2>4. \A t \in Tags : switch_tag(t) => UNCHANGED layerVars
    BY DEF switch_tag
  <2>5. \A t \in Tags : window_move_to_workspace(t) => UNCHANGED layerVars
    BY DEF window_move_to_workspace
  <2>6. \A l \in Layouts : set_layout(l) => UNCHANGED layerVars
    BY DEF set_layout
  <2> QED
    BY <1>7, <2>1, <2>2, <2>3, <2>4, <2>5, <2>6 DEF Key
<1>8. ASSUME Mouse PROVE UNCHANGED layerVars
  BY <1>8 DEF Mouse, drag_begin, drag_end, pointer_motion
<1>9. ASSUME NEW c \in Conns, NEW d \in Devices, bind_device(c, d)
      PROVE  UNCHANGED layerVars
  BY <1>9 DEF bind_device
<1>10. UNCHANGED vars => UNCHANGED layerVars
  BY DEF vars
<1> QED
  BY <1>1, <1>2, <1>3, <1>4, <1>6, <1>7, <1>8, <1>9, <1>10 DEF Next, Request

(* The pointers to what has the focus never dangle.                         *)
THEOREM FocusIsLiveCorrect == Spec => []FocusIsLive
<1>1. Init => KbFocusIsLive
  BY DEF Init, KbFocusIsLive
<1>2. KbFocusIsLive /\ [Next]_vars => KbFocusIsLive'
  BY KbFocusStep
<1>3. CoreInv /\ KbFocusIsLive => FocusIsLive
  BY DEF CoreInv, FocusedIsLive, KbFocusIsLive, FocusIsLive
<1> QED
  BY <1>1, <1>2, <1>3, CoreCorrect, PTL DEF Spec

(* The focus stays on the screen as long as a window does.                  *)
LEMMA FocusKeptStep ==
  ASSUME CoreInv, [Next]_vars, focused \in OnTag, OnTag' # {}
  PROVE  focused' \in OnTag'
<1>1. CASE Quiet
  BY <1>1 DEF Quiet, OnTag, Live
<1>2. ASSUME NEW w \in Windows, Enters(w) PROVE focused' \in OnTag'
  BY <1>2, OnTagEnters DEF Enters
<1>3. ASSUME NEW w \in Windows, Goes(w) PROVE focused' \in OnTag'
  BY <1>3, OnTagGoes DEF Goes
<1> QED
  BY <1>1, <1>2, <1>3, Steps DEF Refocus, Switches, Moves

THEOREM FocusKeptCorrect == Spec => FocusKept
<1>1. CoreInv /\ [Next]_vars =>
        [(focused \in OnTag /\ OnTag' # {}) => focused' \in OnTag']_vars
  BY FocusKeptStep
<1> QED
  BY <1>1, CoreCorrect, PTL DEF Spec, FocusKept

-----------------------------------------------------------------------------
(* Who draws itself as the active window.  Active(tl, f): in the configure   *)
(* events tl, that is exactly the window f.                                *)
Active(tl, f) ==
  /\ tl = [w \in Windows |-> tl[w]]
  /\ \A w \in Windows : ACTIVATED \in tl[w].states <=> f = w

(* Telling the windows ws makes foc the active one if ws has both the one    *)
(* that was and the one that is to be, or if they are the same.            *)
LEMMA ConfiguredActive ==
  ASSUME NEW tl, NEW f, NEW ws, NEW foc, Active(tl, f),
         f = foc \/ \A w \in Windows : w \in {f, foc} => w \in ws
  PROVE  Active(Configured(tl, ws, foc), foc)
<1> DEFINE conf == Configured(tl, ws, foc)
<1>1. conf = [w \in Windows |-> conf[w]]
  BY DEF Configured
<1>2. ASSUME NEW w \in Windows, w \in ws
      PROVE  ACTIVATED \in conf[w].states <=> foc = w
  BY <1>2 DEF Configured, ACTIVATED
<1>3. ASSUME NEW w \in Windows, w \notin ws
      PROVE  ACTIVATED \in conf[w].states <=> foc = w
  <2>1. conf[w] = tl[w]
    BY <1>3 DEF Configured
  <2> QED
    BY <1>3, <2>1 DEF Active
<1> HIDE DEF conf
<1>4. Active(conf, foc)
  BY <1>1, <1>2, <1>3 DEF Active
<1> QED
  BY <1>4 DEF conf

(* A window that goes is told nothing any more.                            *)
LEMMA GoneActive ==
  ASSUME Active(told, focused), NEW w \in Windows
  PROVE  Active([told EXCEPT ![w] = NoConfigure],
                IF focused = w THEN None ELSE focused)
BY RootsAssumption DEF Active, NoConfigure

ActiveNow == Active(told, focused)

LEMMA FullscreenActive ==
  ASSUME ActiveNow, NEW w,
         client_set_fullscreen(w) \/ client_unset_fullscreen(w)
  PROVE  ActiveNow'
BY ConfiguredActive
   DEF client_set_fullscreen, client_unset_fullscreen, LAYOUT, ActiveNow

LEMMA DestroyActive ==
  ASSUME ActiveNow, NEW w \in Windows, xdg_toplevel_destroy(w)
  PROVE  ActiveNow'
<1> DEFINE tl == [told EXCEPT ![w] = NoConfigure]
           ws == (IF tag[w] = cur THEN OnTag' ELSE {})
                   \cup (IF is_focused(w) THEN {focused'} ELSE {})
           f  == IF focused = w THEN None ELSE focused
<1>1. Active(tl, f)
  BY GoneActive DEF ActiveNow
<1>2. told' = Configured(tl, ws, focused')
  BY DEF xdg_toplevel_destroy
<1>3. f = focused' \/ \A v \in Windows : v \in {f, focused'} => v \in ws
  <2>1. CASE focused # w
    BY <2>1 DEF xdg_toplevel_destroy, is_focused
  <2>2. CASE focused = w
    BY <2>2, RootsAssumption DEF is_focused
  <2> QED
    BY <2>1, <2>2
<1> HIDE DEF tl, ws, f
<1>4. Active(Configured(tl, ws, focused'), focused')
  BY <1>1, <1>3, ConfiguredActive
<1> QED
  BY <1>2, <1>4 DEF ActiveNow

(* Telling the window that had the focus and the one that gets it.          *)
LEMMA RefocusedActive ==
  ASSUME NEW tl, Active(tl, focused), NEW w
  PROVE  Active(Configured(tl, Refocused(w), w), w)
<1>1. \A v \in Windows : v \in {focused, w} => v \in Refocused(w)
  BY RootsAssumption DEF Refocused
<1> QED
  BY <1>1, ConfiguredActive

LEMMA DragActive ==
  ASSUME NEW h, NEW done, NEW foc, NEW tl, Active(tl, foc),
         drag_handler(h, done, foc, tl)
  PROVE  Active(told', foc)
BY ConfiguredActive DEF drag_handler

LEMMA PointerActive ==
  ASSUME ActiveNow, pointer_motion
  PROVE  ActiveNow'
<1>1. CASE focused' = focused /\ drag_handler(drag, FALSE, focused, told)
  BY <1>1, DragActive DEF ActiveNow
<1>2. ASSUME NEW w, focused' = w,
             drag_handler(drag, FALSE, w, Configured(told, Refocused(w), w))
      PROVE  ActiveNow'
  <2>1. Active(Configured(told, Refocused(w), w), w)
    BY RefocusedActive DEF ActiveNow
  <2>2. Active(told', w)
    BY <1>2, <2>1, DragActive
  <2> QED
    BY <1>2, <2>2 DEF ActiveNow
<1> QED
  BY <1>1, <1>2 DEF pointer_motion, client_change_focus

LEMMA CreateActive ==
  ASSUME ActiveNow, NEW w \in Windows, xdg_surface_get_toplevel(w)
  PROVE  ActiveNow'
<1> DEFINE tl == Configured(told, OnTag', focused)
<1>1. Active(tl, focused)
  BY ConfiguredActive DEF ActiveNow
<1>2. \/ focused' = focused /\ told' = tl
      \/ focused' = w /\ told' = Configured(tl, Refocused(w), w)
  BY DEF xdg_surface_get_toplevel, client_change_focus
<1> HIDE DEF tl
<1>3. Active(Configured(tl, Refocused(w), w), w)
  BY <1>1, RefocusedActive
<1> QED
  BY <1>1, <1>2, <1>3 DEF ActiveNow

LEMMA ActiveStep ==
  ASSUME ActiveNow, [Next]_vars
  PROVE  ActiveNow'
<1>1. CASE UNCHANGED <<told, focused>>
  BY <1>1 DEF ActiveNow, Active
<1>2. ASSUME NEW c \in Conns, NEW d \in Devices, bind_device(c, d)
      PROVE  ActiveNow'
  BY <1>1, <1>2 DEF bind_device
<1>3. ASSUME NEW w \in Windows,
             xdg_toplevel_set_fullscreen(w) \/ xdg_toplevel_unset_fullscreen(w)
      PROVE  ActiveNow'
  BY <1>3, FullscreenActive
     DEF xdg_toplevel_set_fullscreen, xdg_toplevel_unset_fullscreen
<1>4. ASSUME NEW l \in Layers,
             \/ zwlr_layer_shell_get_layer_surface(l)
             \/ \E ki \in {"none", "exclusive"} :
                  zwlr_layer_surface_set_keyboard_interactivity(l, ki)
      PROVE  ActiveNow'
  BY <1>1, <1>4 DEF zwlr_layer_shell_get_layer_surface,
                    zwlr_layer_surface_set_keyboard_interactivity
<1>5. ASSUME NEW l \in Layers, zwlr_layer_surface_destroy(l)
      PROVE  ActiveNow'
  <2>1. Active(Configured(told, {focused}, focused), focused)
    BY ConfiguredActive DEF ActiveNow
  <2> QED
    BY <1>1, <1>5, <2>1 DEF zwlr_layer_surface_destroy, ActiveNow
<1>6. CASE toggle_fullscreen
  BY <1>6, FullscreenActive DEF toggle_fullscreen
<1>7. CASE toggle_floating
  BY <1>7, ConfiguredActive DEF toggle_floating, LAYOUT, ActiveNow
<1>8. ASSUME NEW direction \in {-1, 1}, move_focus(direction) PROVE ActiveNow'
  <2>1. PICK w \in OnTag : focused' = w /\ told' = Configured(told, Refocused(w), w)
    BY <1>8 DEF move_focus, client_change_focus
  <2> QED
    BY <2>1, RefocusedActive DEF ActiveNow
<1>9. ASSUME NEW t \in Tags, switch_tag(t) PROVE ActiveNow'
  <2>1. told' = Configured(told, {focused, focused'} \cup OnTag', focused')
    BY <1>9 DEF switch_tag
  <2>2. Active(Configured(told, {focused, focused'} \cup OnTag', focused'), focused')
    BY ConfiguredActive DEF ActiveNow
  <2> QED
    BY <2>1, <2>2 DEF ActiveNow
<1>10. ASSUME NEW t \in Tags, window_move_to_workspace(t) PROVE ActiveNow'
  <2>1. CASE UNCHANGED <<focused, told>>
    BY <2>1, <1>1
  <2>2. CASE \E w \in OnTag' : focused' = w /\ told' = Configured(told, Refocused(w), w)
    BY <2>2, RefocusedActive DEF ActiveNow
  <2> QED
    BY <1>10, <2>1, <2>2 DEF window_move_to_workspace, client_change_focus
<1>11. ASSUME NEW l \in Layouts, set_layout(l) PROVE ActiveNow'
  BY <1>11, ConfiguredActive DEF set_layout, LAYOUT, ActiveNow
<1>12. ASSUME NEW h \in Drags, drag_begin(h) PROVE ActiveNow'
  BY <1>12, DragActive DEF drag_begin, ActiveNow
<1>13. CASE drag_end
  BY <1>13, DragActive DEF drag_end, ActiveNow
<1> QED
  BY <1>1, <1>2, <1>3, <1>4, <1>5, <1>6, <1>7, <1>8, <1>9, <1>10, <1>11, <1>12,
     <1>13, CreateActive, DestroyActive, PointerActive
     DEF Next, Request, Key, Mouse, vars

(* Of all windows exactly the one with the focus was last told that it is    *)
(* the active one, however the focus moves.                                *)
THEOREM ActivatedCorrect == Spec => []ActivatedIsFocused
<1>1. Init => ActiveNow
  BY RootsAssumption DEF Init, ActiveNow, Active, NoConfigure
<1>2. ActiveNow /\ [Next]_vars => ActiveNow'
  BY ActiveStep
<1>3. ActiveNow => ActivatedIsFocused
  BY DEF ActiveNow, Active, ActivatedIsFocused
<1> QED
  BY <1>1, <1>2, <1>3, PTL DEF Spec

-----------------------------------------------------------------------------
(* Ranks: how many elements of a finite set S are at a smaller place.       *)
LEMMA RankBounds ==
  ASSUME NEW S, IsFiniteSet(S), NEW p, NEW w \in S,
         \A v \in S : p[v] \in Nat
  PROVE  LET rank == Cardinality({u \in S : p[u] < p[w]})
         IN  rank \in Nat /\ rank < Cardinality(S)
<1> DEFINE below == {u \in S : p[u] < p[w]}
<1>1. below \subseteq S /\ w \notin below
  OBVIOUS
<1> HIDE DEF below
<1>2. /\ IsFiniteSet(below)
      /\ Cardinality(below) <= Cardinality(S)
      /\ Cardinality(below) # Cardinality(S)
  BY <1>1, FS_Subset
<1>3. Cardinality(below) \in Nat /\ Cardinality(S) \in Nat
  BY <1>2, FS_CardinalityType
<1>4. Cardinality(below) < Cardinality(S)
  BY <1>2, <1>3
<1> QED
  BY <1>3, <1>4 DEF below

LEMMA RanksGrow ==
  ASSUME NEW S, IsFiniteSet(S), NEW p, NEW v \in S, NEW w \in S,
         \A u \in S : p[u] \in Nat, p[v] < p[w]
  PROVE  Cardinality({u \in S : p[u] < p[v]}) < Cardinality({u \in S : p[u] < p[w]})
<1> DEFINE below(x) == {u \in S : p[u] < p[x]}
<1>1. below(v) \subseteq below(w) /\ v \in below(w) /\ v \notin below(v)
  OBVIOUS
<1>2. below(w) \subseteq S
  OBVIOUS
<1> HIDE DEF below
<1>3. IsFiniteSet(below(w))
  BY <1>2, FS_Subset
<1>4. /\ IsFiniteSet(below(v))
      /\ Cardinality(below(v)) <= Cardinality(below(w))
      /\ Cardinality(below(v)) # Cardinality(below(w))
  BY <1>1, <1>3, FS_Subset
<1>5. Cardinality(below(v)) \in Nat /\ Cardinality(below(w)) \in Nat
  BY <1>3, <1>4, FS_CardinalityType
<1>6. Cardinality(below(v)) < Cardinality(below(w))
  BY <1>4, <1>5
<1> QED
  BY <1>6 DEF below

LEMMA SetsOfWindows ==
  ASSUME NEW S \in SUBSET Windows
  PROVE  /\ IsFiniteSet(S)
         /\ Cardinality(S) \in Nat /\ Cardinality(Windows) \in Nat
         /\ Cardinality(S) <= Cardinality(Windows)
BY WindowsAssumption, FS_Subset, FS_CardinalityType

-----------------------------------------------------------------------------
(* Every variable keeps to its type.  First the operators of SeatEvents.    *)
Surfaces == SurfaceOrNone \ {None}

LEMMA TreeSurfaces ==
  \A w \in Windows \cup Layers : Tree(w) \subseteq Surfaces /\ Root(w) \in Surfaces
<1> SUFFICES ASSUME NEW w \in Windows \cup Layers
             PROVE  Tree(w) \subseteq SurfaceOrNone /\ None \notin Tree(w)
                    /\ Root(w) \in Tree(w)
  BY DEF Surfaces
<1>1. Tree(w) \subseteq SurfaceOrNone
  BY DEF Tree, SurfaceOrNone
<1>2. None \notin Tree(w)
  BY RootsAssumption
<1> QED
  BY <1>1, <1>2 DEF Tree

LEMMA SurfaceConn == \A s \in Surfaces : ConnOf(s) \in Conns
BY RootsAssumption DEF Surfaces, SurfaceOrNone, Root, Sub, ConnOf

LEMMA EnterLeaveTypes ==
  ASSUME NEW e \in Seats, NEW s \in Surfaces, NEW devs
  PROVE  enter(e, s, devs) \in Seats /\ leave(e, s, devs) \in Seats
<1>1. \A now \in SurfaceOrNone :
        Heard(e, s, devs, now) \in [Devices -> [Conns -> SurfaceOrNone]]
  BY DEF Seats, Heard
<1>2. s \in SurfaceOrNone /\ None \in SurfaceOrNone
  BY DEF Surfaces, SurfaceOrNone
<1>3. Hearing(e, s, devs) \subseteq Devices
  BY SurfaceConn DEF Hearing, Seats
<1>4. \A w \in SUBSET ({"enter", "switch", "leave"} \X Devices) :
        [e EXCEPT !.active = Heard(e, s, devs, s), !.wrong = w] \in Seats
        /\ [e EXCEPT !.active = Heard(e, s, devs, None), !.wrong = w] \in Seats
  BY <1>1, <1>2 DEF Seats
<1>5. {<<"enter", d>> : d \in {x \in Hearing(e, s, devs) :
                                 e.active[x][ConnOf(s)] # None}}
        \subseteq {"enter", "switch", "leave"} \X Devices
  BY <1>3
<1>6. {<<"switch", d>> : d \in {x \in Hearing(e, s, devs) :
                                  e.active[x][ConnOf(s)] \notin {None, s}}}
        \subseteq {"enter", "switch", "leave"} \X Devices
  BY <1>3
<1>7. {<<"leave", d>> : d \in {x \in Hearing(e, s, devs) :
                                 e.active[x][ConnOf(s)] # s}}
        \subseteq {"enter", "switch", "leave"} \X Devices
  BY <1>3
<1>8. e.wrong \subseteq {"enter", "switch", "leave"} \X Devices
  BY DEF Seats
<1> QED
  BY <1>4, <1>5, <1>6, <1>7, <1>8 DEF enter, leave

LEMMA SeatTypes ==
  ASSUME NEW e \in Seats
  PROVE  /\ \A c \in Conns, d \in Devices : Bound(e, c, d) \in Seats
         /\ \A r : Forgotten(e, r) \in Seats
<1>1. \A c \in Conns, d \in Devices : Bound(e, c, d) \in Seats
  BY DEF Seats, Bound
<1>2. ASSUME NEW r PROVE Forgotten(e, r) \in Seats
  <2>1. [d \in Devices |-> [c \in Conns |->
           IF e.active[d][c] \in Tree(r) THEN None ELSE e.active[d][c]]]
        \in [Devices -> [Conns -> SurfaceOrNone]]
    BY DEF Seats, SurfaceOrNone
  <2> QED
    BY <2>1 DEF Seats, Forgotten
<1> QED
  BY <1>1, <1>2

-----------------------------------------------------------------------------
(* The types of the fields that are assigned one by one.                    *)
FieldTypes ==
  /\ state \in [Windows -> SUBSET {"float", "fullscreen"}]
  /\ states \in [Windows -> SUBSET (0 .. 3)]
  /\ border \in [Windows -> BOOLEAN]
  /\ pfocus \in [Windows -> SurfaceOrNone]
  /\ kb_focus \in Layers \cup {None}
  /\ fullscreen \in SUBSET Tags
  /\ layout \in Layouts
  /\ dragging \in BOOLEAN
  /\ drag \in Drags \cup {None}
  /\ layers \in SUBSET Layers
  /\ interactivity \in [Layers -> {"none", "exclusive"}]

fieldVars == <<state, states, border, pfocus, layerVars, fullscreen, layout, dragVars>>

LEMMA FullscreenFields ==
  ASSUME CoreInv, FieldTypes, NEW w \in Windows, Live(w),
         client_set_fullscreen(w) \/ client_unset_fullscreen(w)
  PROVE  FieldTypes'
<1>1. BitsOf(FULLSCREEN) \subseteq 0 .. 3 /\ tag[w] \in Tags
  BY DEF BitsOf, CoreInv, LiveTagged
<1>2. CASE client_set_fullscreen(w)
  BY <1>1, <1>2 DEF FieldTypes, client_set_fullscreen, layerVars, dragVars
<1>3. CASE client_unset_fullscreen(w)
  BY <1>1, <1>3 DEF FieldTypes, client_unset_fullscreen, layerVars, dragVars
<1> QED
  BY <1>2, <1>3

LEMMA FieldStep ==
  ASSUME CoreInv, FieldTypes, [Next]_vars
  PROVE  FieldTypes'
<1>1. CASE UNCHANGED fieldVars
  BY <1>1 DEF FieldTypes, fieldVars, layerVars, dragVars
<1>2. ASSUME NEW c \in Conns, NEW d \in Devices, bind_device(c, d)
      PROVE  FieldTypes'
  BY <1>1, <1>2 DEF bind_device, fieldVars, clientVars, viewVars
<1>3. ASSUME NEW w \in Windows, xdg_surface_get_toplevel(w) PROVE FieldTypes'
  BY <1>3 DEF xdg_surface_get_toplevel, FieldTypes, layerVars, viewVars, dragVars
<1>4. ASSUME NEW w \in Windows, xdg_toplevel_destroy(w) PROVE FieldTypes'
  BY <1>4 DEF xdg_toplevel_destroy, FieldTypes, layerVars, viewVars, dragVars,
              SurfaceOrNone
<1>5. ASSUME NEW w \in Windows,
             xdg_toplevel_set_fullscreen(w) \/ xdg_toplevel_unset_fullscreen(w)
      PROVE  FieldTypes'
  BY <1>5, FullscreenFields
     DEF xdg_toplevel_set_fullscreen, xdg_toplevel_unset_fullscreen
<1>6. ASSUME NEW l \in Layers, zwlr_layer_shell_get_layer_surface(l)
      PROVE  FieldTypes'
  BY <1>6 DEF zwlr_layer_shell_get_layer_surface, FieldTypes, clientVars, viewVars,
              dragVars
<1>7. ASSUME NEW l \in Layers, NEW ki \in {"none", "exclusive"},
             zwlr_layer_surface_set_keyboard_interactivity(l, ki)
      PROVE  FieldTypes'
  BY <1>7 DEF zwlr_layer_surface_set_keyboard_interactivity, FieldTypes, clientVars,
              viewVars, dragVars
<1>8. ASSUME NEW l \in Layers, zwlr_layer_surface_destroy(l)
      PROVE  FieldTypes'
  BY <1>8 DEF zwlr_layer_surface_destroy, FieldTypes, clientVars, viewVars, dragVars
<1>9. CASE toggle_fullscreen
  BY <1>9, FullscreenFields
     DEF toggle_fullscreen, CoreInv, CoreTypes, FocusedIsLive
<1>10. CASE toggle_floating
  BY <1>10 DEF toggle_floating, FieldTypes, layerVars, viewVars, dragVars
<1>11. ASSUME NEW direction \in {-1, 1}, move_focus(direction) PROVE FieldTypes'
  BY <1>1, <1>11 DEF move_focus, fieldVars, clientVars, viewVars
<1>12. ASSUME NEW t \in Tags, switch_tag(t) PROVE FieldTypes'
  BY <1>12 DEF switch_tag, BorderedOn, FieldTypes, layerVars, dragVars
<1>13. ASSUME NEW t \in Tags, window_move_to_workspace(t) PROVE FieldTypes'
  BY <1>13 DEF window_move_to_workspace, FieldTypes, layerVars, viewVars, dragVars
<1>14. ASSUME NEW l \in Layouts, set_layout(l) PROVE FieldTypes'
  BY <1>14 DEF set_layout, FieldTypes, layerVars, dragVars
<1>15. ASSUME NEW h, NEW done \in BOOLEAN, NEW foc \in Windows \cup {None},
              NEW tl, drag_handler(h, done, foc, tl)
       PROVE  /\ dragging' \in BOOLEAN
              /\ state' \in [Windows -> SUBSET {"float", "fullscreen"}]
  <2>1. CASE UNCHANGED <<state, dragging>>
    BY <2>1 DEF FieldTypes
  <2>2. CASE /\ foc \in Windows /\ dragging' = ~done
             /\ state' = [state EXCEPT ![foc] = @ \cup {"float"}]
    BY <2>2 DEF FieldTypes
  <2> QED
    BY <1>15, <2>1, <2>2 DEF drag_handler
<1>16. ASSUME NEW h \in Drags, drag_begin(h) PROVE FieldTypes'
  <2>1. /\ dragging' \in BOOLEAN
        /\ state' \in [Windows -> SUBSET {"float", "fullscreen"}]
    BY <1>15, <1>16 DEF drag_begin, CoreInv, CoreTypes
  <2> QED
    BY <1>16, <2>1 DEF drag_begin, FieldTypes, layerVars, viewVars
<1>17. CASE drag_end
  <2>1. /\ dragging' \in BOOLEAN
        /\ state' \in [Windows -> SUBSET {"float", "fullscreen"}]
    BY <1>15, <1>17 DEF drag_end, CoreInv, CoreTypes
  <2> QED
    BY <1>17, <2>1 DEF drag_end, FieldTypes, layerVars, viewVars
<1>18. CASE pointer_motion
  <2>1. /\ dragging' \in BOOLEAN
        /\ state' \in [Windows -> SUBSET {"float", "fullscreen"}]
    <3>1. CASE drag_handler(drag, FALSE, focused, told)
      BY <1>15, <3>1 DEF CoreInv, CoreTypes
    <3>2. CASE \E w \in OnTag :
                 drag_handler(drag, FALSE, w, Configured(told, Refocused(w), w))
      <4>1. PICK w \in OnTag :
                   drag_handler(drag, FALSE, w, Configured(told, Refocused(w), w))
        BY <3>2
      <4>2. w \in Windows \cup {None}
        BY DEF OnTag
      <4> QED
        BY <1>15, <4>1, <4>2
    <3> QED
      BY <1>18, <3>1, <3>2 DEF pointer_motion
  <2>2. \A w \in Windows : \A s \in Tree(w) \cup {None} :
          c_window_pointer_move(w, s) => pfocus' \in [Windows -> SurfaceOrNone]
    BY TreeSurfaces DEF c_window_pointer_move, FieldTypes, Surfaces
  <2>3. pfocus' \in [Windows -> SurfaceOrNone]
    BY <1>18, <2>2 DEF pointer_motion, FieldTypes, OnTag
  <2> QED
    BY <1>18, <2>1, <2>3 DEF pointer_motion, FieldTypes, layerVars, viewVars
<1> QED
  BY <1>1, <1>2, <1>3, <1>4, <1>5, <1>6, <1>7, <1>8, <1>9, <1>10, <1>11, <1>12,
     <1>13, <1>14, <1>16, <1>17, <1>18
     DEF Next, Request, Key, Mouse, vars, fieldVars, clientVars, viewVars

-----------------------------------------------------------------------------
(* Slots.  A tiled window gets a place of its own in a tiling of as many     *)
(* places as there are tiled windows.                                      *)
Sizes == [Windows -> Slots]

LEMMA TileSlots ==
  \A n \in 1 .. Cardinality(Windows), i \in 0 .. Cardinality(Windows) - 1 :
    Tile(n, i) \in Slots
BY DEF Slots

LEMMA TileFields ==
  \A n, i : Tile(n, i).kind = "tile" /\ Tile(n, i).n = n /\ Tile(n, i).i = i
BY DEF Tile

LEMMA TiledRanks ==
  ASSUME CoreInv', NEW w \in Tiled'
  PROVE  /\ RankIn(Tiled, w)' \in Nat
         /\ Cardinality(Tiled') \in Nat
         /\ RankIn(Tiled, w)' < Cardinality(Tiled')
         /\ \A v \in Tiled' \ {w} : RankIn(Tiled, v)' # RankIn(Tiled, w)'
         /\ Tile(Cardinality(Tiled'), RankIn(Tiled, w)') \in Slots
<1>1. Tiled' \subseteq Windows /\ (\A v \in Tiled' : Live(v)')
  BY DEF Tiled, OnTag
<1>2. /\ IsFiniteSet(Tiled') /\ Cardinality(Tiled') \in Nat
      /\ Cardinality(Windows) \in Nat
      /\ Cardinality(Tiled') <= Cardinality(Windows)
  BY <1>1, SetsOfWindows
<1>3. \A v \in Tiled' : place'[v] \in Nat
  BY <1>1 DEF CoreInv, CoreTypes
<1>4. \A v \in Tiled' :
        /\ Cardinality({u \in Tiled' : place'[u] < place'[v]}) \in Nat
        /\ Cardinality({u \in Tiled' : place'[u] < place'[v]}) < Cardinality(Tiled')
  BY <1>2, <1>3, RankBounds
<1>5. \A v \in Tiled' : RankIn(Tiled, v)' \in Nat
                         /\ RankIn(Tiled, v)' < Cardinality(Tiled')
  BY <1>4 DEF RankIn
<1>6. ASSUME NEW v \in Tiled' \ {w}
      PROVE  RankIn(Tiled, v)' # RankIn(Tiled, w)'
  <2>1. place'[v] < place'[w] \/ place'[w] < place'[v]
    BY <1>1, <1>3 DEF CoreInv, PlacesDiffer, Live
  <2>2. CASE place'[v] < place'[w]
    <3>1. RankIn(Tiled, v)' < RankIn(Tiled, w)'
      BY <1>2, <1>3, <2>2, RanksGrow DEF RankIn
    <3> QED
      BY <1>5, <3>1
  <2>3. CASE place'[w] < place'[v]
    <3>1. RankIn(Tiled, w)' < RankIn(Tiled, v)'
      BY <1>2, <1>3, <2>3, RanksGrow DEF RankIn
    <3> QED
      BY <1>5, <3>1
  <2> QED
    BY <2>1, <2>2, <2>3
<1>7. Tile(Cardinality(Tiled'), RankIn(Tiled, w)') \in Slots
  <2>1. /\ Cardinality(Tiled') \in 1 .. Cardinality(Windows)
        /\ RankIn(Tiled, w)' \in 0 .. Cardinality(Windows) - 1
    BY <1>2, <1>5
  <2> QED
    BY <2>1, TileSlots
<1> QED
  BY <1>2, <1>5, <1>6, <1>7

LEMMA ArrangedTypes ==
  ASSUME CoreInv', NEW sl \in Sizes
  PROVE  Arranged(sl) \in Sizes
<1>1. Zoomed \in Slots
  BY DEF Slots
<1> QED
  BY <1>1, TiledRanks DEF Arranged, Sizes

(* What a step can do to the slots: it keeps those of the windows that stay  *)
(* tiled, or it arranges the tiled windows anew.                           *)
Keeps ==
  /\ layout' = layout
  /\ Tiled' \subseteq Tiled
  /\ slot' \in Sizes
  /\ \A w \in Tiled' : slot'[w] = slot[w]

Lays(sl) ==
  /\ slot' \in Sizes
  /\ \A w \in Tiled' : slot'[w] = Arranged(sl)[w]

LEMMA LaysNoOverlap ==
  ASSUME CoreInv', NEW sl, Lays(sl)
  PROVE  NoOverlap'
<1> SUFFICES ASSUME layout' = "tile", NEW w \in Tiled'
             PROVE  /\ slot'[w].kind = "tile" /\ slot'[w].i < slot'[w].n
                    /\ \A v \in Tiled' \ {w} : /\ slot'[v].n = slot'[w].n
                                               /\ slot'[v].i # slot'[w].i
  BY DEF NoOverlap
<1>1. \A v \in Tiled' : slot'[v] = Tile(Cardinality(Tiled'), RankIn(Tiled, v)')
  <2>1. Tiled' \subseteq Windows
    BY DEF Tiled, OnTag
  <2> QED
    BY <2>1 DEF Lays, Arranged
<1>2. \A v \in Tiled' : /\ slot'[v].kind = "tile"
                        /\ slot'[v].n = Cardinality(Tiled')
                        /\ slot'[v].i = RankIn(Tiled, v)'
  BY <1>1, TileFields
<1> QED
  BY <1>2, TiledRanks

LEMMA KeepsNoOverlap ==
  ASSUME NoOverlap, Keeps
  PROVE  NoOverlap'
<1>1. \A w \in Tiled' : w \in Tiled /\ slot'[w] = slot[w]
  BY DEF Keeps
<1> QED
  BY <1>1 DEF NoOverlap, Keeps

LayoutStep == Keeps \/ \E sl \in Sizes : Lays(sl)

LEMMA LaysArranged ==
  ASSUME CoreInv', NEW sl \in Sizes, slot' = Arranged(sl)
  PROVE  LayoutStep
BY ArrangedTypes DEF LayoutStep, Lays

LEMMA KeepsUnchanged ==
  ASSUME slot \in Sizes, UNCHANGED <<place, tag, state, slot, cur, layout>>
  PROVE  LayoutStep
BY DEF LayoutStep, Keeps, Tiled, OnTag, Live

LEMMA SlotKinds == {NoSlot, Zoomed, Full, Free} \subseteq Slots
BY DEF Slots

LEMMA FullscreenLayout ==
  ASSUME CoreInv', slot \in Sizes, NEW w \in Windows,
         client_set_fullscreen(w) \/ client_unset_fullscreen(w)
  PROVE  LayoutStep
<1>1. [slot EXCEPT ![w] = Full] \in Sizes
  BY SlotKinds DEF Sizes
<1> QED
  BY <1>1, LaysArranged DEF client_set_fullscreen, client_unset_fullscreen, LAYOUT

LEMMA DestroyLayout ==
  ASSUME CoreInv, CoreInv', FieldTypes, slot \in Sizes,
         NEW w \in Windows, xdg_toplevel_destroy(w)
  PROVE  LayoutStep
<1> DEFINE sl == [slot EXCEPT ![w] = NoSlot]
<1>1. sl \in Sizes
  BY SlotKinds DEF Sizes
<1>2. CASE slot' = Arranged(sl)
  <2> HIDE DEF sl
  <2> QED
    BY <1>1, <1>2, LaysArranged
<1>3. CASE slot' = sl
  <2>1. Goes(w)
    BY DEF xdg_toplevel_destroy, is_focused, Goes, viewVars
  <2>2. OnTag' = OnTag \ {w}
    BY <2>1, OnTagGoes
  <2>3. \A v \in Windows \ {w} : state'[v] = state[v] /\ slot'[v] = slot[v]
    BY <1>3 DEF xdg_toplevel_destroy, FieldTypes, Sizes
  <2>4. Tiled' \subseteq Tiled /\ \A v \in Tiled' : slot'[v] = slot[v]
    BY <2>2, <2>3 DEF Tiled, OnTag
  <2>5. layout' = layout
    BY DEF xdg_toplevel_destroy, viewVars
  <2> QED
    BY <1>1, <1>3, <2>4, <2>5 DEF Keeps, LayoutStep
<1> QED
  BY <1>2, <1>3 DEF xdg_toplevel_destroy

LEMMA MoveLayout ==
  ASSUME CoreInv, slot \in Sizes, NEW t \in Tags, window_move_to_workspace(t)
  PROVE  LayoutStep
<1>1. \A v \in Windows \ {focused} : tag'[v] = tag[v]
  BY DEF window_move_to_workspace, CoreInv, CoreTypes
<1>2. tag'[focused] # cur
  BY DEF window_move_to_workspace, CoreInv, CoreTypes
<1>3. UNCHANGED <<place, cur, state, slot, layout>>
  BY DEF window_move_to_workspace, viewVars
<1>4. Tiled' \subseteq Tiled
  BY <1>1, <1>2, <1>3 DEF Tiled, OnTag, Live
<1> QED
  BY <1>3, <1>4 DEF Keeps, LayoutStep, Tiled, OnTag

LEMMA DragLayout ==
  ASSUME CoreInv', FieldTypes, slot \in Sizes,
         UNCHANGED <<place, tag, cur, layout>>,
         NEW h, NEW done, NEW foc \in Windows \cup {None}, NEW tl,
         drag_handler(h, done, foc, tl)
  PROVE  LayoutStep
<1>1. CASE UNCHANGED <<state, slot>>
  BY <1>1, KeepsUnchanged
<1>2. CASE foc \in Windows /\ ~UNCHANGED <<state, slot>>
  <2> DEFINE floats == "float" \in state[foc]
             sl == IF floats THEN slot ELSE Arranged(slot)
             new == [w \in Windows |-> IF w = foc /\ h = "resize" THEN Free ELSE sl[w]]
  <2>1. slot' = new /\ state' = [state EXCEPT ![foc] = @ \cup {"float"}]
    BY <1>2 DEF drag_handler
  <2>2. sl \in Sizes
    BY ArrangedTypes
  <2>3. foc \notin Tiled'
    BY <1>2, <2>1 DEF Tiled, FieldTypes
  <2>4. \A w \in Tiled' : w \in Windows
    BY DEF Tiled, OnTag
  <2>5. slot' \in Sizes /\ \A w \in Tiled' : slot'[w] = sl[w]
    <3> HIDE DEF sl
    <3> QED
      BY <2>1, <2>2, <2>3, <2>4, SlotKinds DEF Sizes
  <2>6. CASE floats
    <3>1. Tiled' \subseteq Tiled
      BY <1>2, <2>1, <2>6 DEF Tiled, OnTag, Live, FieldTypes
    <3> QED
      BY <2>5, <2>6, <3>1 DEF Keeps, LayoutStep
  <2>7. CASE ~floats
    BY <2>5, <2>7 DEF Lays, LayoutStep
  <2> QED
    BY <2>6, <2>7
<1> QED
  BY <1>1, <1>2 DEF drag_handler

LEMMA PointerLayout ==
  ASSUME CoreInv, CoreInv', FieldTypes, slot \in Sizes, pointer_motion
  PROVE  LayoutStep
<1>1. UNCHANGED <<place, tag, cur, layout>>
  BY DEF pointer_motion, viewVars
<1>2. CASE drag_handler(drag, FALSE, focused, told)
  BY <1>1, <1>2, DragLayout DEF CoreInv, CoreTypes
<1>3. CASE \E w \in OnTag :
             drag_handler(drag, FALSE, w, Configured(told, Refocused(w), w))
  <2>1. PICK w \in OnTag :
               drag_handler(drag, FALSE, w, Configured(told, Refocused(w), w))
    BY <1>3
  <2>2. w \in Windows \cup {None}
    BY DEF OnTag
  <2> QED
    BY <1>1, <2>1, <2>2, DragLayout
<1> QED
  BY <1>2, <1>3 DEF pointer_motion

LEMMA LayoutSteps ==
  ASSUME CoreInv, CoreInv', FieldTypes, slot \in Sizes, [Next]_vars
  PROVE  LayoutStep
<1>1. ASSUME NEW c \in Conns, NEW d \in Devices, bind_device(c, d)
      PROVE  LayoutStep
  BY <1>1, KeepsUnchanged DEF bind_device, clientVars, viewVars
<1>2. ASSUME NEW w \in Windows, xdg_surface_get_toplevel(w) PROVE LayoutStep
  BY <1>2, LaysArranged DEF xdg_surface_get_toplevel
<1>3. ASSUME NEW w \in Windows,
             xdg_toplevel_set_fullscreen(w) \/ xdg_toplevel_unset_fullscreen(w)
      PROVE  LayoutStep
  BY <1>3, FullscreenLayout
     DEF xdg_toplevel_set_fullscreen, xdg_toplevel_unset_fullscreen
<1>4. ASSUME NEW l \in Layers,
             \/ zwlr_layer_shell_get_layer_surface(l)
             \/ zwlr_layer_surface_destroy(l)
             \/ \E ki \in {"none", "exclusive"} :
                  zwlr_layer_surface_set_keyboard_interactivity(l, ki)
      PROVE  LayoutStep
  BY <1>4, KeepsUnchanged
     DEF zwlr_layer_shell_get_layer_surface, zwlr_layer_surface_destroy,
         zwlr_layer_surface_set_keyboard_interactivity, clientVars, viewVars
<1>5. CASE toggle_fullscreen
  BY <1>5, FullscreenLayout DEF toggle_fullscreen, CoreInv, CoreTypes
<1>6. CASE toggle_floating
  BY <1>6, LaysArranged DEF toggle_floating, LAYOUT
<1>7. ASSUME NEW direction \in {-1, 1}, move_focus(direction) PROVE LayoutStep
  BY <1>7, KeepsUnchanged DEF move_focus, clientVars, viewVars
<1>8. ASSUME NEW t \in Tags, switch_tag(t) PROVE LayoutStep
  BY <1>8, LaysArranged DEF switch_tag
<1>9. ASSUME NEW l \in Layouts, set_layout(l) PROVE LayoutStep
  BY <1>9, LaysArranged DEF set_layout, LAYOUT
<1>10. ASSUME NEW h \in Drags, drag_begin(h) PROVE LayoutStep
  <2>1. UNCHANGED <<place, tag, cur, layout>> /\ drag_handler(h, FALSE, focused, told)
    BY <1>10 DEF drag_begin, viewVars
  <2> QED
    BY <2>1, DragLayout DEF CoreInv, CoreTypes
<1>11. CASE drag_end
  <2>1. UNCHANGED <<place, tag, cur, layout>> /\ drag_handler(drag, TRUE, focused, told)
    BY <1>11 DEF drag_end, viewVars
  <2> QED
    BY <2>1, DragLayout DEF CoreInv, CoreTypes
<1>12. CASE UNCHANGED vars
  BY <1>12, KeepsUnchanged DEF vars, clientVars, viewVars
<1> QED
  BY <1>1, <1>2, <1>3, <1>4, <1>5, <1>6, <1>7, <1>8, <1>9, <1>10, <1>11, <1>12,
     DestroyLayout, MoveLayout, PointerLayout DEF Next, Request, Key, Mouse

LayoutInv == CoreInv /\ FieldTypes /\ slot \in Sizes

LEMMA LayoutInvInit == Init => LayoutInv
<1>1. Init => FieldTypes
  BY LayoutsAssumption DEF Init, FieldTypes, SurfaceOrNone
<1>2. Init => slot \in Sizes
  BY SlotKinds DEF Init, Sizes
<1> QED
  BY <1>1, <1>2, CoreInvInit DEF LayoutInv

LEMMA LayoutInvStep ==
  ASSUME LayoutInv, [Next]_vars
  PROVE  LayoutInv' /\ (NoOverlap => NoOverlap')
<1>1. CoreInv' /\ FieldTypes'
  BY CoreInvStep, FieldStep DEF LayoutInv
<1>2. LayoutStep
  BY <1>1, LayoutSteps DEF LayoutInv
<1>3. slot' \in Sizes
  BY <1>2 DEF LayoutStep, Keeps, Lays
<1>4. NoOverlap => NoOverlap'
  BY <1>1, <1>2, LaysNoOverlap, KeepsNoOverlap DEF LayoutStep
<1> QED
  BY <1>1, <1>3, <1>4 DEF LayoutInv

(* Tiled windows on the screen never overlap, whichever windows come, go,    *)
(* float, go fullscreen or move, on whichever tag.                         *)
THEOREM NoOverlapCorrect == Spec => []NoOverlap
<1>1. Init => NoOverlap
  BY DEF Init, NoOverlap, Tiled, OnTag, Live
<1>2. LayoutInv /\ NoOverlap /\ [Next]_vars => LayoutInv' /\ NoOverlap'
  BY LayoutInvStep
<1> QED
  BY <1>1, <1>2, LayoutInvInit, PTL DEF Spec

-----------------------------------------------------------------------------
(* The index of the focused client.                                        *)
LEMMA SelectIndex ==
  ASSUME CoreInv', NEW i, NEW direction, NEW w, tag_select_client(i, direction, w)
  PROVE  idx' \in 0 .. Cardinality(Windows)
<1>1. OnTag' \subseteq Windows
  BY DEF OnTag
<1>2. /\ IsFiniteSet(OnTag') /\ Cardinality(OnTag') \in Nat
      /\ Cardinality(Windows) \in Nat
      /\ Cardinality(OnTag') <= Cardinality(Windows)
  BY <1>1, SetsOfWindows
<1>3. \A v \in OnTag' : place'[v] \in Nat
  BY <1>1 DEF CoreInv, CoreTypes
<1>4. w \in OnTag' /\ RankIn(OnTag, w)' = idx'
  BY DEF tag_select_client
<1>5. /\ Cardinality({u \in OnTag' : place'[u] < place'[w]}) \in Nat
      /\ Cardinality({u \in OnTag' : place'[u] < place'[w]}) < Cardinality(OnTag')
  BY <1>2, <1>3, <1>4, RankBounds
<1>6. idx' \in Nat /\ idx' < Cardinality(OnTag')
  BY <1>4, <1>5 DEF RankIn
<1> QED
  BY <1>2, <1>6

IdxType == idx \in 0 .. Cardinality(Windows)

LEMMA IdxStep ==
  ASSUME CoreInv', IdxType, [Next]_vars
  PROVE  IdxType'
<1>1. CASE UNCHANGED idx
  BY <1>1 DEF IdxType
<1>2. ASSUME NEW i, NEW direction, NEW w, tag_select_client(i, direction, w)
      PROVE  IdxType'
  BY <1>2, SelectIndex DEF IdxType
<1>3. CASE idx' = 0
  <2>1. Cardinality(Windows) \in Nat
    BY SetsOfWindows
  <2> QED
    BY <1>3, <2>1 DEF IdxType
<1>4. ASSUME NEW w \in Windows,
             client_set_fullscreen(w) \/ client_unset_fullscreen(w)
      PROVE  UNCHANGED idx
  BY <1>4 DEF client_set_fullscreen, client_unset_fullscreen
<1>5. ASSUME Request PROVE IdxType'
  <2>1. ASSUME NEW w \in Windows, xdg_toplevel_destroy(w) PROVE IdxType'
    BY <2>1, <1>1, <1>2 DEF xdg_toplevel_destroy
  <2>2. ASSUME NEW w \in Windows,
               \/ xdg_surface_get_toplevel(w)
               \/ xdg_toplevel_set_fullscreen(w) \/ xdg_toplevel_unset_fullscreen(w)
        PROVE  UNCHANGED idx
    BY <2>2, <1>4 DEF xdg_surface_get_toplevel, xdg_toplevel_set_fullscreen,
                      xdg_toplevel_unset_fullscreen
  <2>3. ASSUME NEW l \in Layers,
               \/ zwlr_layer_shell_get_layer_surface(l)
               \/ zwlr_layer_surface_destroy(l)
               \/ \E ki \in {"none", "exclusive"} :
                    zwlr_layer_surface_set_keyboard_interactivity(l, ki)
        PROVE  UNCHANGED idx
    BY <2>3 DEF zwlr_layer_shell_get_layer_surface, zwlr_layer_surface_destroy,
                zwlr_layer_surface_set_keyboard_interactivity
  <2>4. ASSUME NEW c \in Conns, NEW d \in Devices, bind_device(c, d)
        PROVE  UNCHANGED idx
    BY <2>4 DEF bind_device
  <2> QED
    BY <1>1, <1>5, <2>1, <2>2, <2>3, <2>4 DEF Request
<1>6. ASSUME Key PROVE IdxType'
  <2>1. toggle_fullscreen => UNCHANGED idx
    BY DEF toggle_fullscreen, client_set_fullscreen, client_unset_fullscreen
  <2>2. toggle_floating => UNCHANGED idx
    BY DEF toggle_floating
  <2>3. \A d \in {-1, 1} : move_focus(d) => IdxType'
    BY <1>2 DEF move_focus
  <2>4. \A t \in Tags : switch_tag(t) => IdxType'
    BY <1>2, <1>3 DEF switch_tag
  <2>5. \A t \in Tags : window_move_to_workspace(t) => IdxType'
    BY <1>1, <1>2 DEF window_move_to_workspace
  <2>6. \A l \in Layouts : set_layout(l) => UNCHANGED idx
    BY DEF set_layout
  <2> QED
    BY <1>1, <1>6, <2>1, <2>2, <2>3, <2>4, <2>5, <2>6 DEF Key
<1>7. Mouse => UNCHANGED idx
  BY DEF Mouse, drag_begin, drag_end, pointer_motion
<1> QED
  BY <1>1, <1>5, <1>6, <1>7 DEF Next, vars

-----------------------------------------------------------------------------
(* What the windows know of their size.  Knows(tl): with the configure       *)
(* events tl, every window on the screen knows the size it has now.         *)
Told == [Windows -> [states : SUBSET (1 .. 4), slot : Slots]]

Knows(tl) == tl \in Told /\ \A w \in OnTag' : tl[w].slot = slot'[w]

KnowsNow == told \in Told /\ ToldItsSize

LEMMA ConfiguredTold ==
  ASSUME slot' \in Sizes, NEW tl \in Told, NEW ws, NEW foc
  PROVE  Configured(tl, ws, foc) \in Told
<1>1. \A w \in Windows :
        {e \in 1 .. 3 : e \in states'[w]} \cup (IF w = foc THEN {ACTIVATED} ELSE {})
          \in SUBSET (1 .. 4)
  BY DEF ACTIVATED
<1> QED
  BY <1>1 DEF Configured, Told, Sizes

LEMMA ConfiguredKnows ==
  ASSUME slot' \in Sizes, NEW tl \in Told, NEW ws, NEW foc,
         \A w \in OnTag' : w \in ws \/ tl[w].slot = slot'[w]
  PROVE  Knows(Configured(tl, ws, foc))
<1> DEFINE conf == Configured(tl, ws, foc)
<1>1. conf \in Told
  BY ConfiguredTold
<1>2. ASSUME NEW w \in OnTag' PROVE conf[w].slot = slot'[w]
  <2>1. w \in Windows
    BY DEF OnTag
  <2> QED
    BY <2>1 DEF Configured
<1> HIDE DEF conf
<1>3. Knows(conf)
  BY <1>1, <1>2 DEF Knows
<1> QED
  BY <1>3 DEF conf

LEMMA KnownStays ==
  ASSUME KnowsNow, OnTag' \subseteq OnTag, \A w \in OnTag' : slot'[w] = slot[w]
  PROVE  Knows(told)
BY DEF Knows, KnowsNow, ToldItsSize

LEMMA KnowsTold ==
  ASSUME Knows(told')
  PROVE  KnowsNow'
BY DEF Knows, KnowsNow, ToldItsSize

LEMMA LaidKnows ==
  ASSUME slot' \in Sizes, NEW tl \in Told, NEW ws, NEW foc, OnTag' \subseteq ws
  PROVE  Knows(Configured(tl, ws, foc))
BY ConfiguredKnows

LEMMA MoreKnows ==
  ASSUME slot' \in Sizes, NEW tl, Knows(tl), NEW ws, NEW foc
  PROVE  Knows(Configured(tl, ws, foc))
BY ConfiguredKnows DEF Knows

LEMMA DestroyKnows ==
  ASSUME CoreInv, KnowsNow, slot \in Sizes, slot' \in Sizes,
         NEW w \in Windows, xdg_toplevel_destroy(w)
  PROVE  KnowsNow'
<1> DEFINE tl == [told EXCEPT ![w] = NoConfigure]
           ws == (IF tag[w] = cur THEN OnTag' ELSE {})
                   \cup (IF is_focused(w) THEN {focused'} ELSE {})
<1>1. tl \in Told
  <2>1. NoConfigure \in [states : SUBSET (1 .. 4), slot : Slots]
    BY SlotKinds DEF NoConfigure
  <2> QED
    BY <2>1 DEF Told, KnowsNow
<1>2. told' = Configured(tl, ws, focused')
  BY DEF xdg_toplevel_destroy
<1>3. CASE tag[w] = cur
  <2>1. OnTag' \subseteq ws
    BY <1>3
  <2> HIDE DEF tl, ws
  <2> QED
    BY <1>1, <1>2, <2>1, LaidKnows, KnowsTold
<1>4. CASE tag[w] # cur
  <2>1. Goes(w)
    BY DEF xdg_toplevel_destroy, is_focused, Goes, viewVars
  <2>2. OnTag' = OnTag \ {w}
    BY <2>1, OnTagGoes
  <2>3. \A v \in OnTag' : slot'[v] = slot[v] /\ tl[v] = told[v]
    BY <1>4, <2>2 DEF xdg_toplevel_destroy, Sizes, Told, OnTag, KnowsNow
  <2>4. Knows(tl)
    BY <1>1, <2>2, <2>3 DEF Knows, KnowsNow, ToldItsSize
  <2> HIDE DEF tl, ws
  <2> QED
    BY <1>2, <2>4, MoreKnows, KnowsTold
<1> QED
  BY <1>3, <1>4

LEMMA DragKnows ==
  ASSUME slot \in Sizes, slot' \in Sizes, UNCHANGED <<place, tag, cur>>,
         NEW h, NEW done, NEW foc \in Windows \cup {None}, NEW tl \in Told,
         \A w \in OnTag : tl[w].slot \in {slot[w], slot'[w]},
         drag_handler(h, done, foc, tl)
  PROVE  KnowsNow'
<1>1. OnTag' = OnTag
  BY DEF OnTag, Live
<1>2. CASE slot' = slot /\ told' = tl
  <2>1. Knows(tl)
    BY <1>1, <1>2 DEF Knows
  <2> QED
    BY <1>2, <2>1, KnowsTold
<1>3. CASE foc \in Windows /\ ~(slot' = slot /\ told' = tl)
  <2> DEFINE floats == "float" \in state[foc]
             ws == (IF floats THEN {} ELSE OnTag')
                     \cup (IF h = "resize" THEN {foc} ELSE {})
  <2>1. told' = Configured(tl, ws, foc)
    BY <1>3 DEF drag_handler
  <2>2. ASSUME NEW w \in OnTag' PROVE w \in ws \/ tl[w].slot = slot'[w]
    <3>1. CASE floats /\ w \notin ws
      <4>1. slot'[w] = slot[w]
        BY <1>1, <1>3, <3>1 DEF drag_handler, OnTag
      <4> QED
        BY <1>1, <4>1
    <3> QED
      BY <3>1
  <2> HIDE DEF ws
  <2> QED
    BY <2>1, <2>2, ConfiguredKnows, KnowsTold
<1> QED
  BY <1>2, <1>3 DEF drag_handler

LEMMA PointerKnows ==
  ASSUME CoreInv, KnowsNow, slot \in Sizes, slot' \in Sizes, pointer_motion
  PROVE  KnowsNow'
<1>1. UNCHANGED <<place, tag, cur>>
  BY DEF pointer_motion, viewVars
<1>2. CASE drag_handler(drag, FALSE, focused, told)
  BY <1>1, <1>2, DragKnows DEF KnowsNow, ToldItsSize, CoreInv, CoreTypes
<1>3. CASE \E w \in OnTag :
             drag_handler(drag, FALSE, w, Configured(told, Refocused(w), w))
  <2>1. PICK w \in OnTag :
               drag_handler(drag, FALSE, w, Configured(told, Refocused(w), w))
    BY <1>3
  <2> DEFINE tl == Configured(told, Refocused(w), w)
  <2>2. w \in Windows \cup {None}
    BY DEF OnTag
  <2>3. tl \in Told
    BY ConfiguredTold DEF KnowsNow
  <2>4. \A v \in OnTag : tl[v].slot \in {slot[v], slot'[v]}
    BY DEF Configured, OnTag, KnowsNow, ToldItsSize
  <2> HIDE DEF tl
  <2> QED
    BY <1>1, <2>1, <2>2, <2>3, <2>4, DragKnows DEF tl
<1> QED
  BY <1>2, <1>3 DEF pointer_motion

LEMMA FullscreenKnows ==
  ASSUME KnowsNow, slot' \in Sizes, NEW w,
         client_set_fullscreen(w) \/ client_unset_fullscreen(w)
  PROVE  KnowsNow'
BY LaidKnows, KnowsTold
   DEF client_set_fullscreen, client_unset_fullscreen, LAYOUT, KnowsNow

LEMMA KnowsStep ==
  ASSUME CoreInv, CoreInv', KnowsNow, slot \in Sizes, slot' \in Sizes, [Next]_vars
  PROVE  KnowsNow'
<1>1. UNCHANGED <<place, tag, cur, slot>> => Knows(told)
  BY KnownStays DEF OnTag, Live
<1>2. UNCHANGED <<place, tag, cur, slot, told>> => KnowsNow'
  BY <1>1, KnowsTold
<1>3. ASSUME NEW c \in Conns, NEW d \in Devices, bind_device(c, d)
      PROVE  KnowsNow'
  BY <1>2, <1>3 DEF bind_device, clientVars, viewVars
<1>4. ASSUME NEW w \in Windows, xdg_surface_get_toplevel(w) PROVE KnowsNow'
  <2> DEFINE tl == Configured(told, OnTag', focused)
  <2>1. Knows(tl)
    BY LaidKnows DEF KnowsNow
  <2>2. told' = tl \/ told' = Configured(tl, Refocused(w), w)
    BY <1>4 DEF xdg_surface_get_toplevel
  <2> HIDE DEF tl
  <2> QED
    BY <2>1, <2>2, MoreKnows, KnowsTold
<1>5. ASSUME NEW w \in Windows,
             xdg_toplevel_set_fullscreen(w) \/ xdg_toplevel_unset_fullscreen(w)
      PROVE  KnowsNow'
  BY <1>5, FullscreenKnows
     DEF xdg_toplevel_set_fullscreen, xdg_toplevel_unset_fullscreen
<1>6. ASSUME NEW l \in Layers,
             \/ zwlr_layer_shell_get_layer_surface(l)
             \/ \E ki \in {"none", "exclusive"} :
                  zwlr_layer_surface_set_keyboard_interactivity(l, ki)
      PROVE  KnowsNow'
  BY <1>2, <1>6 DEF zwlr_layer_shell_get_layer_surface,
     zwlr_layer_surface_set_keyboard_interactivity, clientVars, viewVars
<1>7. ASSUME NEW l \in Layers, zwlr_layer_surface_destroy(l) PROVE KnowsNow'
  <2>1. UNCHANGED <<place, tag, cur, slot>>
    BY <1>7 DEF zwlr_layer_surface_destroy, clientVars, viewVars
  <2>2. told' = told \/ told' = Configured(told, {focused}, focused)
    BY <1>7 DEF zwlr_layer_surface_destroy
  <2> QED
    BY <1>1, <2>1, <2>2, MoreKnows, KnowsTold
<1>8. CASE toggle_fullscreen
  BY <1>8, FullscreenKnows DEF toggle_fullscreen
<1>9. CASE toggle_floating
  BY <1>9, LaidKnows, KnowsTold DEF toggle_floating, LAYOUT, KnowsNow
<1>10. ASSUME NEW direction \in {-1, 1}, move_focus(direction) PROVE KnowsNow'
  <2>1. UNCHANGED <<place, tag, cur, slot>>
    BY <1>10 DEF move_focus, clientVars, viewVars
  <2>2. \E w : told' = Configured(told, Refocused(w), w)
    BY <1>10 DEF move_focus
  <2> QED
    BY <1>1, <2>1, <2>2, MoreKnows, KnowsTold
<1>11. ASSUME NEW t \in Tags, switch_tag(t) PROVE KnowsNow'
  <2>1. told' = Configured(told, {focused, focused'} \cup OnTag', focused')
    BY <1>11 DEF switch_tag
  <2> QED
    BY <2>1, LaidKnows, KnowsTold DEF KnowsNow
<1>12. ASSUME NEW t \in Tags, window_move_to_workspace(t) PROVE KnowsNow'
  <2>1. OnTag' \subseteq OnTag
    BY <1>12 DEF window_move_to_workspace, viewVars, CoreInv, CoreTypes, OnTag, Live
  <2>2. Knows(told)
    BY <1>12, <2>1, KnownStays DEF window_move_to_workspace
  <2>3. told' = told \/ \E w : told' = Configured(told, Refocused(w), w)
    BY <1>12 DEF window_move_to_workspace
  <2> QED
    BY <2>2, <2>3, MoreKnows, KnowsTold
<1>13. ASSUME NEW l \in Layouts, set_layout(l) PROVE KnowsNow'
  BY <1>13, LaidKnows, KnowsTold DEF set_layout, LAYOUT, KnowsNow
<1>14. focused \in Windows \cup {None} /\ \A w \in OnTag : told[w].slot = slot[w]
  BY DEF CoreInv, CoreTypes, KnowsNow, ToldItsSize
<1>15. ASSUME NEW h, NEW done, drag_handler(h, done, focused, told),
              UNCHANGED <<place, tag, cur>>
       PROVE  KnowsNow'
  BY <1>14, <1>15, DragKnows DEF KnowsNow
<1>16. ASSUME NEW h \in Drags, drag_begin(h) PROVE KnowsNow'
  BY <1>15, <1>16 DEF drag_begin, viewVars
<1>17. CASE drag_end
  BY <1>15, <1>17 DEF drag_end, viewVars
<1>18. CASE UNCHANGED vars
  BY <1>2, <1>18 DEF vars, clientVars, viewVars
<1> QED
  BY <1>3, <1>4, <1>5, <1>6, <1>7, <1>8, <1>9, <1>10, <1>11, <1>12, <1>13, <1>16,
     <1>17, <1>18, DestroyKnows, PointerKnows DEF Next, Request, Key, Mouse

(* A window on the screen knows the size it has, whatever changed it.        *)
THEOREM ToldItsSizeCorrect == Spec => []ToldItsSize
<1>1. Init => KnowsNow
  <2>1. NoConfigure \in [states : SUBSET (1 .. 4), slot : Slots]
    BY SlotKinds DEF NoConfigure
  <2> QED
    BY <2>1 DEF Init, KnowsNow, Told, ToldItsSize, OnTag, Live
<1>2. LayoutInv /\ KnowsNow /\ [Next]_vars => LayoutInv' /\ KnowsNow'
  BY LayoutInvStep, KnowsStep DEF LayoutInv
<1>3. KnowsNow => ToldItsSize
  BY DEF KnowsNow
<1> QED
  BY <1>1, <1>2, <1>3, LayoutInvInit, PTL DEF Spec

-----------------------------------------------------------------------------
(* The seat.                                                               *)
LEMMA UnfocusedType ==
  ASSUME CoreInv, seat \in Seats
  PROVE  Unfocused \in Seats
BY EnterLeaveTypes, TreeSurfaces DEF Unfocused, CoreInv, CoreTypes

LEMMA ChangeFocusType ==
  ASSUME CoreInv, seat \in Seats, NEW w \in Windows, NEW s \in Tree(w),
         client_change_focus(w, s)
  PROVE  seat' \in Seats
BY UnfocusedType, EnterLeaveTypes, TreeSurfaces DEF client_change_focus

LEMMA DestroySeatType ==
  ASSUME CoreInv, seat \in Seats, NEW w \in Windows, xdg_toplevel_destroy(w)
  PROVE  seat' \in Seats
<1>1. CASE seat' = Forgotten(seat, w) \/ seat' = Forgotten(Unfocused, w)
  BY <1>1, SeatTypes, UnfocusedType
<1>2. CASE \E p \in OnTag' : \E s \in Tree(p) :
             seat' = Forgotten(enter(Unfocused, s, Devices), w)
  <2>1. PICK p \in OnTag', s \in Surfaces :
               seat' = Forgotten(enter(Unfocused, s, Devices), w)
    BY <1>2, TreeSurfaces DEF OnTag
  <2>2. enter(Unfocused, s, Devices) \in Seats
    BY UnfocusedType, EnterLeaveTypes
  <2> QED
    BY <2>1, <2>2, SeatTypes
<1> QED
  BY <1>1, <1>2 DEF xdg_toplevel_destroy

LEMMA LayerSeatType ==
  ASSUME CoreInv, FieldTypes, seat \in Seats, NEW l \in Layers,
         \/ zwlr_layer_surface_destroy(l)
         \/ \E ki \in {"none", "exclusive"} :
              zwlr_layer_surface_set_keyboard_interactivity(l, ki)
  PROVE  seat' \in Seats
<1>1. HandedTo(l) \in Seats
  BY EnterLeaveTypes, TreeSurfaces DEF HandedTo, FieldTypes
<1>2. Forgotten(seat, l) \in Seats
  BY SeatTypes
<1>3. ASSUME focused # None, NEW s \in Tree(focused)
      PROVE  enter(Forgotten(seat, l), s, Devices) \in Seats
  BY <1>2, <1>3, EnterLeaveTypes, TreeSurfaces DEF CoreInv, CoreTypes
<1> QED
  BY <1>1, <1>2, <1>3 DEF zwlr_layer_surface_destroy,
     zwlr_layer_surface_set_keyboard_interactivity

LEMMA PointerSeatType ==
  ASSUME CoreInv, FieldTypes, seat \in Seats, pointer_motion
  PROVE  seat' \in Seats
<1>1. CASE \E w \in OnTag : \E s \in Tree(w) : client_change_focus(w, s)
  BY <1>1, ChangeFocusType DEF OnTag
<1>2. CASE focused \in OnTag /\ \E s \in Tree(focused) \cup {None} :
             c_window_pointer_move(focused, s)
  <2>1. focused \in Windows
    BY <1>2 DEF OnTag
  <2>2. PICK s \in Tree(focused) \cup {None} : c_window_pointer_move(focused, s)
    BY <1>2
  <2>3. CASE seat' = seat
    BY <2>3
  <2>4. CASE s \in Surfaces /\ seat' = enter(IF pfocus[focused] = None THEN seat
                            ELSE leave(seat, pfocus[focused], Pointer), s, Pointer)
    <3>1. pfocus[focused] = None \/ pfocus[focused] \in Surfaces
      BY <2>1 DEF FieldTypes, Surfaces
    <3> QED
      BY <2>4, <3>1, EnterLeaveTypes
  <2> QED
    BY <2>1, <2>2, <2>3, <2>4, TreeSurfaces DEF c_window_pointer_move
<1>3. CASE UNCHANGED seat
  BY <1>3
<1> QED
  BY <1>1, <1>2, <1>3 DEF pointer_motion

LEMMA SeatStep ==
  ASSUME CoreInv, FieldTypes, seat \in Seats, [Next]_vars
  PROVE  seat' \in Seats
<1>1. ASSUME NEW c \in Conns, NEW d \in Devices, bind_device(c, d)
      PROVE  seat' \in Seats
  BY <1>1, SeatTypes DEF bind_device
<1>2. ASSUME NEW w \in Windows, xdg_surface_get_toplevel(w) PROVE seat' \in Seats
  BY <1>2, ChangeFocusType DEF xdg_surface_get_toplevel, Tree
<1>3. ASSUME NEW w,
             client_set_fullscreen(w) \/ client_unset_fullscreen(w)
      PROVE  UNCHANGED seat
  BY <1>3 DEF client_set_fullscreen, client_unset_fullscreen
<1>4. ASSUME NEW w \in Windows,
             xdg_toplevel_set_fullscreen(w) \/ xdg_toplevel_unset_fullscreen(w)
      PROVE  UNCHANGED seat
  BY <1>3, <1>4 DEF xdg_toplevel_set_fullscreen, xdg_toplevel_unset_fullscreen
<1>5. ASSUME NEW l \in Layers, zwlr_layer_shell_get_layer_surface(l)
      PROVE  UNCHANGED seat
  BY <1>5 DEF zwlr_layer_shell_get_layer_surface
<1>6. toggle_fullscreen => UNCHANGED seat
  BY <1>3 DEF toggle_fullscreen
<1>7. toggle_floating => UNCHANGED seat
  BY DEF toggle_floating
<1>8. \A d \in {-1, 1} : move_focus(d) => seat' \in Seats
  BY ChangeFocusType DEF move_focus, OnTag
<1>9. \A t \in Tags : switch_tag(t) => seat' \in Seats
  BY ChangeFocusType, UnfocusedType DEF switch_tag, OnTag
<1>10. \A t \in Tags : window_move_to_workspace(t) => seat' \in Seats
  BY ChangeFocusType DEF window_move_to_workspace, OnTag
<1>11. \A l \in Layouts : set_layout(l) => UNCHANGED seat
  BY DEF set_layout
<1>12. \A h \in Drags : drag_begin(h) => UNCHANGED seat
  BY DEF drag_begin
<1>13. drag_end => UNCHANGED seat
  BY DEF drag_end
<1>14. UNCHANGED vars => UNCHANGED seat
  BY DEF vars
<1> QED
  BY <1>1, <1>2, <1>4, <1>5, <1>6, <1>7, <1>8, <1>9, <1>10, <1>11, <1>12, <1>13,
     <1>14, DestroySeatType, LayerSeatType, PointerSeatType
     DEF Next, Request, Key, Mouse

-----------------------------------------------------------------------------
TypeInv == LayoutInv /\ IdxType /\ KnowsNow /\ seat \in Seats

LEMMA TypeInvInit == Init => TypeInv
<1> SUFFICES ASSUME Init PROVE TypeInv
  OBVIOUS
<1>1. LayoutInv
  BY LayoutInvInit
<1>2. IdxType
  BY SetsOfWindows DEF Init, IdxType
<1>3. NoConfigure \in [states : SUBSET (1 .. 4), slot : Slots]
  BY SlotKinds DEF NoConfigure
<1>4. KnowsNow
  BY <1>3 DEF Init, KnowsNow, Told, ToldItsSize, OnTag, Live
<1>5. seat \in Seats
  BY DEF Init, NewSeat, Seats, SurfaceOrNone
<1> QED
  BY <1>1, <1>2, <1>4, <1>5 DEF TypeInv

LEMMA TypeInvStep ==
  ASSUME TypeInv, [Next]_vars
  PROVE  TypeInv'
<1>1. LayoutInv'
  BY LayoutInvStep DEF TypeInv
<1>2. IdxType'
  BY <1>1, IdxStep DEF TypeInv, LayoutInv
<1>3. KnowsNow'
  BY <1>1, KnowsStep DEF TypeInv, LayoutInv
<1>4. seat' \in Seats
  BY SeatStep DEF TypeInv, LayoutInv
<1> QED
  BY <1>1, <1>2, <1>3, <1>4 DEF TypeInv

(* Every variable keeps to its type, the focused index to the clients there   *)
(* can be and the seat to surfaces that its clients can have.               *)
THEOREM TypeCorrect == Spec => []TypeOK
<1>1. TypeInv => TypeOK
  BY DEF TypeInv, LayoutInv, CoreInv, CoreTypes, FieldTypes, IdxType, KnowsNow,
         Told, Sizes, TypeOK
<1>2. TypeInv /\ [Next]_vars => TypeInv'
  BY TypeInvStep
<1> QED
  BY <1>1, <1>2, TypeInvInit, PTL DEF Spec
=============================================================================
