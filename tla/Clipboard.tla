------------------------------ MODULE Clipboard ------------------------------
(* Copy and paste, and drag and drop: the two records cuts.cb and cuts.dnd, which point
   to connections, sources, offers and devices that come and go by themselves, and are
   used by the requests of every client and by each change of the focus and move of the
   mouse. Each client has at most one window, one wl_data_device and one
   ext_data_control_device_v1. Icons and the order in which a reader finds its events
   are left out. *)
EXTENDS Naturals, FiniteSets
CONSTANTS Conns, Sources, Mimes, Actions, NULL,
          OwnerOf,       \* the client that makes a source
          KindsOf,       \* the kinds it may be of: "wl" for wl_data_source, "ext" for
                         \* ext_data_control_source_v1
          MimesOf,       \* what it offers
          Devices,       \* the devices that clients make, one of a kind each
          MaxOffers,     \* bound: offers there are when another is made
          MaxBlame       \* bound: of the things that the code is not made for, at a time
ASSUME SourceAssumption ==
  /\ OwnerOf \in [Sources -> Conns] /\ KindsOf \in [Sources -> SUBSET {"wl", "ext"}]
  /\ MimesOf \in [Sources -> SUBSET Mimes]
VARIABLES
  cuts,      \* the state of the compositor, and what its clients have been told
  blame      \* history: what went before that the code is not made for
vars == <<cuts, blame>>

(* A pointer to a struct that was freed in the meantime. *)
GONE == "gone"
Offer == [conn : Conns, kind : {"wl", "ext"}, of : Sources,
          made : {"selection", "focus", "start"}, data_device : Conns \cup {NULL, GONE}]
ASSUME NullAssumption ==
  /\ NULL \notin Conns \cup Sources \cup Offer /\ GONE \notin Conns \cup {NULL}
  /\ "late" \notin Sources
NoSelection == [src |-> NULL, selection |-> NULL, kind |-> NULL]
NoDrag == [src |-> NULL, dst |-> NULL, data_source |-> NULL, data_device |-> NULL,
           data_offer |-> NULL, actions |-> "unset"]

Has(c, k, kind) == <<k, kind>> \in c.devices
Live(c, s) == c.source[s] \in {"wl", "ext"}
End(c, why) == IF c.end = "" THEN [c EXCEPT !.end = why] ELSE c
(* A request whose listener returns an error, when nothing else handles that request, is
   taken for one that is not implemented, which ends the event loop. *)
not_implemented(c) == End(c, "fatal")
(* A read through a pointer to a source: its strings, or its object's id. *)
Use(c, s) == IF s = NULL THEN End(c, "null") ELSE IF Live(c, s) THEN c ELSE End(c, "freed")

-----------------------------------------------------------------------------
(* wl_data_source.send, target, action, dnd_finished and dnd_drop_performed *)
post_to_source(c, to, s) == IF to \in c.open THEN Use(c, s) ELSE End(c, "freed")
(* wl_data_device.leave, motion and drop, posted with the id of the device of "of". Another
   client may have anything under that id, or nothing, which ends the compositor. *)
post_to_device(c, to, of) ==
  IF to \notin c.open THEN End(c, "freed") ELSE IF to # of THEN End(c, "astray") ELSE c

advertise_selection(c, k) ==
  LET s == c.cb.selection
  IN [Use(c, s) EXCEPT
        !.offers = @ \cup {[conn |-> k, kind |-> "wl", of |-> s, made |-> "selection",
                            data_device |-> NULL]},
        !.told = s]
tell_selection(c, k) ==
  IF c.cb.selection = NULL THEN [c EXCEPT !.told = NULL] ELSE advertise_selection(c, k)
\* Mutant: does not ask whether there is a selection.
advertive_selection_ext_always(c, ks) ==
  LET s == c.cb.selection
  IN IF ks = {} THEN c
     ELSE [Use(c, s) EXCEPT
             !.offers = @ \cup [conn : ks, kind : {"ext"}, of : {s}, made : {"selection"},
                               data_device : {NULL}]]
advertive_selection_ext(c, ks) ==
  LET s == c.cb.selection
  IN IF s = NULL \/ ks = {} THEN c
     ELSE [Use(c, s) EXCEPT
             !.offers = @ \cup [conn : ks, kind : {"ext"}, of : {s}, made : {"selection"},
                               data_device : {NULL}]]
(* The client with the focus, and every client with a window for its ext device. *)
broadcast_selection(c) ==
  LET f == IF c.focus # NULL /\ Has(c, c.focus, "wl") THEN tell_selection(c, c.focus) ELSE c
  IN advertive_selection_ext(f, {w \in c.windows : Has(c, w, "ext")})

(* Called with NULL by an unlucky finish, which is no connection's. *)
clear_cb(c, k) == IF k = c.cb.src THEN [c EXCEPT !.cb = NoSelection] ELSE c
clear_dnd(c, k) ==
  IF k = c.dnd.dst THEN [c EXCEPT !.dnd.dst = NULL]
  ELSE IF k = c.dnd.src
       THEN [c EXCEPT !.dnd = [NoDrag EXCEPT !.dst = c.dnd.dst, !.actions = c.dnd.actions]]
  ELSE c

DragOffer(c, k, made) ==
  [conn |-> k, kind |-> "wl", of |-> c.dnd.data_source, made |-> made,
   data_device |-> IF made = "start" THEN k ELSE NULL]
advertise_drag(c, k, made) ==
  LET u == Use(c, c.dnd.data_source)
  IN IF u.end # "" THEN u ELSE [c EXCEPT !.offers = @ \cup {DragOffer(c, k, made)}]

client_unfocus(c) ==
  LET w == c.focus
      g == IF Has(c, w, "wl") /\ c.dnd.dst # NULL THEN post_to_device(c, c.dnd.dst, w) ELSE c
  IN [g EXCEPT !.focus = NULL, !.told = NULL]
DragIsOn(c) ==
  c.dnd.src # NULL /\ (c.dnd.data_device = GONE \/ c.drag_of[c.dnd.data_device] # NULL)
\* Mutant: asks for a drag before a selection.
client_focus_drag_first(c, w) ==
  LET g == IF ~Has(c, w, "wl") THEN c
           ELSE IF DragIsOn(c) /\ c.dnd.data_device # GONE
                THEN [advertise_drag(c, w, "focus") EXCEPT !.dnd.dst = w]
           ELSE IF c.cb.src # NULL THEN tell_selection(c, w) ELSE c
  IN [g EXCEPT !.focus = w]
client_focus(c, w) ==
  LET g == IF ~Has(c, w, "wl") THEN c
           ELSE IF c.cb.src # NULL THEN tell_selection(c, w)
           ELSE IF ~DragIsOn(c) THEN c
           ELSE IF c.dnd.data_device = GONE THEN End(c, "freed")
           ELSE [advertise_drag(c, w, "focus") EXCEPT !.dnd.dst = w]
  IN [g EXCEPT !.focus = w]
client_change_focus(c, w) == client_focus(IF c.focus = NULL THEN c ELSE client_unfocus(c), w)

-----------------------------------------------------------------------------
Init ==
  /\ cuts = [open |-> Conns, windows |-> {}, focus |-> NULL, devices |-> {},
             drag_of |-> [k \in Conns |-> NULL], source |-> [s \in Sources |-> "unborn"],
             offers |-> {}, cb |-> NoSelection, dnd |-> NoDrag, end |-> "",
             told |-> NULL, holds |-> {}, lost |-> {}]
  /\ blame = {}

Running == cuts.end = ""
Room == Cardinality(cuts.offers) < MaxOffers
Blaming(why) ==
  /\ Cardinality(blame \cup why) <= MaxBlame
  /\ blame' = blame \cup why
Because(cond, why) == IF cond THEN {why} ELSE {}

(* Freed when the destructor of each object has run. *)
c_wl_connection_free(k) ==
  /\ Running /\ k \in cuts.open /\ k \notin cuts.windows
  /\ ~\E kind \in {"wl", "ext"} : Has(cuts, k, kind)
  /\ ~\E s \in Sources : Live(cuts, s) /\ OwnerOf[s] = k
  /\ ~\E o \in cuts.offers : o.conn = k
  /\ cuts' = [cuts EXCEPT !.open = @ \ {k}]
  /\ UNCHANGED blame

(* A device that comes when its client has the focus already is not told. *)
wl_data_device_manager_get_data_device(k) ==
  /\ Running /\ k \in cuts.open /\ <<k, "wl">> \in Devices \ cuts.devices
  /\ cuts' = [cuts EXCEPT !.devices = @ \cup {<<k, "wl">>},
                          !.told = IF cuts.focus = k THEN "late" ELSE @]
  /\ UNCHANGED blame
ext_data_control_manager_v1_get_data_device(k) ==
  /\ Running /\ k \in cuts.open /\ <<k, "ext">> \in Devices \ cuts.devices /\ Room
  /\ cuts' = advertive_selection_ext([cuts EXCEPT !.devices = @ \cup {<<k, "ext">>}], {k})
  /\ UNCHANGED blame

wl_data_device_release(k) ==
  /\ Running /\ Has(cuts, k, "wl")
  /\ cuts' = [cuts EXCEPT
       !.devices = @ \ {<<k, "wl">>}, !.drag_of[k] = NULL,
       !.dnd.data_device = IF @ = k THEN GONE ELSE @,
       !.offers = {IF o.data_device = k THEN [o EXCEPT !.data_device = GONE] ELSE o : o \in @},
       !.dnd.data_offer = IF @ # NULL /\ @.data_device = k
                          THEN [@ EXCEPT !.data_device = GONE] ELSE @]
  /\ Blaming(Because(\/ cuts.dnd.data_device = k
                     \/ \E o \in cuts.offers : o.data_device = k, "device"))
ext_data_control_device_v1_destroy(k) ==
  /\ Running /\ Has(cuts, k, "ext")
  /\ cuts' = [cuts EXCEPT !.devices = @ \ {<<k, "ext">>}]
  /\ UNCHANGED blame

create_data_source(s, kind) ==
  /\ Running /\ OwnerOf[s] \in cuts.open /\ cuts.source[s] = "unborn"
  /\ cuts' = [cuts EXCEPT !.source[s] = kind]
  /\ UNCHANGED blame

\* Mutant: ends the drag alone.
on_wl_data_source_destroy_drag(c, k) == clear_dnd(c, k)
(* The listener asks only whose the source is. *)
on_wl_data_source_destroy(c, k) == clear_dnd(clear_cb(c, k), k)
wl_data_source_destroy(s) ==
  /\ Running /\ cuts.source[s] = "wl"
  /\ LET k == OwnerOf[s] IN
     /\ cuts' = [on_wl_data_source_destroy(cuts, k) EXCEPT
                   !.source[s] = "gone", !.holds = @ \ {s},
                   !.lost = IF k = cuts.cb.src THEN @ \cup ({cuts.cb.selection} \ {s}) ELSE @]
     /\ Blaming(Because(cuts.dnd.src = k /\ cuts.dnd.dst = k, "own_drag")
                  \cup Because(cuts.dnd.src = k /\ cuts.dnd.data_source # s, "own_drag")
                  \cup Because(k \in {cuts.dnd.src, cuts.dnd.dst} /\ cuts.dnd.src # cuts.dnd.dst,
                               "crossed"))
(* It has no listener. *)
ext_data_control_source_v1_destroy(s) ==
  /\ Running /\ cuts.source[s] = "ext"
  /\ cuts' = [cuts EXCEPT !.source[s] = "gone", !.holds = @ \ {s}]
  /\ Blaming(Because(cuts.cb.selection = s, "ext_source"))

-----------------------------------------------------------------------------
(* Each source is used once, as the protocol has it. *)
Unused(s) == s \notin cuts.holds \cup cuts.lost /\ \A k \in Conns : cuts.drag_of[k] # s
cancelled(c) == [post_to_source(c, c.cb.src, c.cb.selection)
                   EXCEPT !.holds = @ \ {c.cb.selection}]
selected(c, k, s) ==
  broadcast_selection([c EXCEPT !.cb = [src |-> k, selection |-> s, kind |-> c.source[s]],
                                !.holds = @ \cup {s}])

\* Mutant: cancels a source of its own kind only.
on_wl_set_selection_own_kind(c, k, s) ==
  IF c.cb.src = k THEN not_implemented(c)
  ELSE selected(IF c.cb.src = NULL \/ c.cb.kind = "ext" THEN c ELSE cancelled(c), k, s)
(* The client that has the selection is refused another. *)
on_wl_data_device_set_selection(c, k, s) ==
  IF c.cb.src = k THEN not_implemented(c)
  ELSE selected(IF c.cb.src = NULL THEN c ELSE cancelled(c), k, s)
on_ext_data_control_device_v1_set_selection(c, k, s) ==
  selected(IF c.cb.src = NULL THEN c ELSE cancelled(c), k, s)
set_selection(s) ==
  /\ Running /\ Live(cuts, s) /\ Unused(s) /\ Has(cuts, OwnerOf[s], cuts.source[s]) /\ Room
  /\ cuts' = IF cuts.source[s] = "wl"
             THEN on_wl_data_device_set_selection(cuts, OwnerOf[s], s)
             ELSE on_ext_data_control_device_v1_set_selection(cuts, OwnerOf[s], s)
  /\ Blaming(Because(cuts.source[s] = "wl" /\ cuts.cb.src = OwnerOf[s], "second"))
(* The source is read before it is asked whether there is one. *)
set_selection_null(k, kind) ==
  /\ Running /\ Has(cuts, k, kind)
  /\ cuts' = End(cuts, "null") /\ Blaming({"no_source"})

\* Mutant: asks the selection first.
AskedSelection(o, m) ==
  IF cuts.cb.selection # NULL /\ m \in MimesOf[cuts.cb.selection] THEN cuts.cb.selection
  ELSE IF o.kind = "wl" /\ cuts.dnd.data_offer = o /\ m \in MimesOf[cuts.dnd.data_source]
       THEN cuts.dnd.data_source ELSE NULL
(* The listener of receive, for an offer of either kind: who is asked for the data. *)
Asked(o, m) ==
  LET OfDrag == o.kind = "wl" /\ cuts.dnd.data_offer = o
  IN IF OfDrag /\ m \in MimesOf[cuts.dnd.data_source] THEN cuts.dnd.data_source
     ELSE IF cuts.cb.selection # NULL /\ m \in MimesOf[cuts.cb.selection]
          THEN cuts.cb.selection ELSE NULL
on_clipboard_offer_receive(o, m) ==
  /\ Running /\ o \in cuts.offers /\ m \in MimesOf[o.of]
  /\ LET s == Asked(o, m) IN
       cuts' = IF s # NULL
               THEN post_to_source(cuts, IF s = cuts.dnd.data_source THEN cuts.dnd.src
                                         ELSE cuts.cb.src, s)
               ELSE IF cuts.cb.selection = NULL THEN cuts ELSE Use(cuts, cuts.cb.selection)
  /\ UNCHANGED blame

-----------------------------------------------------------------------------
(* The offer that is made here, and no other, knows its device. *)
on_wl_data_device_start_drag(c, k) ==
  LET d == [c EXCEPT !.dnd.src = k, !.dnd.data_source = c.drag_of[k], !.dnd.data_device = k]
      g == advertise_drag(d, k, "start")
  IN IF g.end # "" THEN g
     ELSE [g EXCEPT !.dnd.data_offer = DragOffer(d, k, "start"), !.dnd.dst = k]
wl_data_device_start_drag(k, s) ==
  /\ Running /\ Has(cuts, k, "wl") /\ k \in cuts.windows /\ Room
  /\ s # NULL => OwnerOf[s] = k /\ cuts.source[s] = "wl" /\ Unused(s)
  /\ cuts' = on_wl_data_device_start_drag(
               [cuts EXCEPT !.drag_of[k] = IF s = NULL THEN @ ELSE s], k)
  /\ Blaming(Because(cuts.focus # k, "late") \cup Because(s = NULL, "no_source")
               \cup Because(cuts.dnd.src # NULL \/ cuts.dnd.dst # NULL, "again"))

on_wl_data_offer_accept(o) ==
  /\ Running /\ o \in cuts.offers /\ o.kind = "wl"
  /\ cuts' = IF cuts.dnd.data_offer = o
             THEN post_to_source(cuts, cuts.dnd.src, cuts.dnd.data_source) ELSE cuts
  /\ UNCHANGED blame
NotOfDrag(o) ==
  IF o.made # "start" THEN {"foreign"} ELSE Because(o # cuts.dnd.data_offer, "ended")
(* negotiated_actions outlives the drag. *)
on_wl_data_offer_set_actions(c, a) ==
  IF c.dnd.data_source = NULL THEN End(c, "null")
  ELSE IF a = c.dnd.actions THEN c
  ELSE [post_to_source(c, c.dnd.src, c.dnd.data_source) EXCEPT !.dnd.actions = a]
wl_data_offer_set_actions(o, a) ==
  /\ Running /\ o \in cuts.offers /\ o.kind = "wl"
  /\ cuts' = CASE o.data_device = NULL -> End(cuts, "assert")
               [] o.data_device = GONE -> End(cuts, "freed")
               [] OTHER -> on_wl_data_offer_set_actions(cuts, a)
  /\ Blaming(NotOfDrag(o))
(* Only the offer of the drag that is on may be finished. *)
on_wl_data_offer_finish(o) ==
  /\ Running /\ o \in cuts.offers /\ o.kind = "wl"
  /\ LET c == clear_dnd(post_to_source(cuts, cuts.dnd.src, cuts.dnd.data_source), o.conn)
     IN cuts' = IF cuts.dnd.data_offer # o THEN not_implemented(cuts)
                ELSE clear_dnd(c, c.dnd.src)
  /\ Blaming(IF cuts.dnd.data_offer # o THEN NotOfDrag(o)
             ELSE Because(cuts.dnd.dst \notin {NULL, o.conn}, "crossed"))
wl_data_offer_destroy(o) ==
  /\ Running /\ o \in cuts.offers
  /\ cuts' = IF o.data_device = GONE THEN End(cuts, "freed")
             ELSE [cuts EXCEPT !.offers = @ \ {o}]
  /\ UNCHANGED blame

-----------------------------------------------------------------------------
(* A window comes, goes, or is entered by the mouse. *)
Crossing == Because(cuts.dnd.dst # NULL, "crossed")
map_window(k) ==
  /\ Running /\ k \in cuts.open /\ k \notin cuts.windows /\ Room
  /\ cuts' = client_change_focus([cuts EXCEPT !.windows = @ \cup {k}], k)
  /\ Blaming(Crossing)
client_close(k) ==
  /\ Running /\ k \in cuts.windows
  /\ LET left == cuts.windows \ {k}
         c == [IF cuts.focus = k THEN client_unfocus(cuts) ELSE cuts EXCEPT !.windows = left]
     IN IF cuts.focus # k \/ left = {} THEN cuts' = c
        ELSE \E prev \in left : Room /\ cuts' = client_change_focus(c, prev)
  /\ Blaming(IF cuts.focus = k /\ cuts.dnd.src # NULL THEN {"crossed"}
             ELSE IF cuts.focus = k THEN Crossing ELSE {})
on_mouse_movement(w) ==
  /\ Running /\ cuts.focus # NULL /\ w \in cuts.windows
  /\ IF w # cuts.focus
     THEN Room /\ cuts' = client_change_focus(cuts, w) /\ Blaming(Crossing)
     ELSE /\ cuts.dnd.dst # NULL /\ Has(cuts, w, "wl")
          /\ cuts' = post_to_device(cuts, cuts.dnd.dst, w) /\ UNCHANGED blame
(* The button is released. *)
on_mouse_button ==
  /\ Running /\ cuts.dnd.src # NULL
  /\ cuts' = IF cuts.focus = NULL THEN End(cuts, "null")
             ELSE post_to_source(IF Has(cuts, cuts.focus, "wl") /\ cuts.dnd.dst # NULL
                                 THEN post_to_device(cuts, cuts.dnd.dst, cuts.focus)
                                 ELSE cuts, cuts.dnd.src, cuts.dnd.data_source)
  /\ UNCHANGED blame

Next ==
  \/ \E k \in Conns :
       \/ c_wl_connection_free(k)
       \/ wl_data_device_manager_get_data_device(k) \/ wl_data_device_release(k)
       \/ ext_data_control_manager_v1_get_data_device(k)
       \/ ext_data_control_device_v1_destroy(k)
       \/ map_window(k) \/ client_close(k) \/ on_mouse_movement(k)
       \/ \E kind \in {"wl", "ext"} : set_selection_null(k, kind)
       \/ \E s \in Sources \cup {NULL} : wl_data_device_start_drag(k, s)
  \/ \E s \in Sources :
       \/ \E kind \in KindsOf[s] : create_data_source(s, kind)
       \/ set_selection(s)
       \/ wl_data_source_destroy(s) \/ ext_data_control_source_v1_destroy(s)
  \/ \E o \in cuts.offers :
       \/ \E m \in Mimes : on_clipboard_offer_receive(o, m)
       \/ on_wl_data_offer_accept(o) \/ on_wl_data_offer_finish(o) \/ wl_data_offer_destroy(o)
       \/ \E a \in Actions : wl_data_offer_set_actions(o, a)
  \/ on_mouse_button
Spec == Init /\ [][Next]_vars

-----------------------------------------------------------------------------
(* The source of the selection exists and is its client's own, with the functions of its
   own kind, until an ext source goes that is the selection. *)
SelectionOwned ==
  /\ (cuts.cb.src = NULL) = (cuts.cb.selection = NULL)
  /\ Running /\ cuts.cb.src # NULL /\ "ext_source" \notin blame =>
       /\ cuts.cb.src \in cuts.open /\ Live(cuts, cuts.cb.selection)
       /\ OwnerOf[cuts.cb.selection] = cuts.cb.src
       /\ cuts.source[cuts.cb.selection] = cuts.cb.kind

(* While there is a selection the client with the focus has been offered that one last,
   whoever set it and whenever, except for a device made with the focus. *)
FocusedIsTold ==
  Running /\ cuts.focus # NULL /\ cuts.cb.selection # NULL /\ Has(cuts, cuts.focus, "wl") =>
    cuts.told \in {cuts.cb.selection, "late"}

(* A client that set a selection and was not told that it is cancelled still has it, apart
   from the one forgotten when its client destroys another source. *)
OneHolder ==
  Running => \A s \in cuts.holds \ cuts.lost : s = cuts.cb.selection

(* A paste through the offer that the client with the focus was made last, or through that
   of the drag that is on, asks the source of this very offer, if it asks any. *)
PasteAsks ==
  Running => \A o \in cuts.offers : \A m \in MimesOf[o.of] :
    /\ Asked(o, m) # NULL
    /\ \/ o = cuts.dnd.data_offer
       \/ o.made = "selection" /\ o.kind = "wl" /\ cuts.focus = o.conn
            /\ cuts.told = o.of /\ Has(cuts, o.conn, "wl")
    => Asked(o, m) = o.of

(* The compositor follows no pointer that is null or to freed memory, posts no event with
   the id of another client's device, fails no assertion and ends for no error of a
   listener, unless one of the causes in "blame" went before: a device released that the drag or its offer points to, a client
   destroying a source while it drags, the focus moving while it is dragged over, a drag
   that starts late, with another on or without a source, no source given, an ext source
   destroyed while it is the selection, a client that sets a second selection while it has
   one, and actions for, or the finish of, an offer that is not the one made for the drag
   that is on. *)
EndsOnly == cuts.end # "" => blame # {}

(* A source is cancelled when it "has been replaced by another data source"
   (wayland.xml:769): a client that has the selection and sets another is served. *)
SecondIsServed == "second" \in blame => Running

(* wayland.c:911, assert(data_offer->data_device): the offer of a drag, whose actions a
   client may set, knows the device that it was made for. *)
OfferHasDevice ==
  Running => \A o \in cuts.offers : o.made # "selection" => o.data_device # NULL
=============================================================================
