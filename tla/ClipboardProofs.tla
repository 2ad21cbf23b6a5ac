-------------------------- MODULE ClipboardProofs --------------------------
(***************************************************************************)
(* Proofs about the clipboard and drag and drop of module Clipboard, for      *)
(* every number of clients, sources, devices and offers.                    *)
(*                                                                         *)
(* What the handlers do to the record of the compositor is proved of them    *)
(* first, for any record c of the set States.                              *)
(***************************************************************************)
EXTENDS Clipboard, TLAPS

Kinds == {"wl", "ext"}
Conn0 == Conns \cup {NULL}
Source0 == Sources \cup {NULL}
Selections == [src : Conn0, selection : Source0, kind : Kinds \cup {NULL}]
Drags == [src : Conn0, dst : Conn0, data_source : Source0,
          data_device : Conns \cup {NULL, GONE}, data_offer : Offer \cup {NULL},
          actions : Actions \cup {"unset"}]
Whys == {"null", "freed", "astray", "assert", "fatal"}
States ==
  [open : SUBSET Conns, windows : SUBSET Conns, focus : Conn0,
   devices : SUBSET (Conns \X Kinds), drag_of : [Conns -> Source0],
   source : [Sources -> {"unborn", "wl", "ext", "gone"}], offers : SUBSET Offer,
   cb : Selections, dnd : Drags, end : Whys \cup {""}, told : Source0 \cup {"late"},
   holds : SUBSET Sources, lost : SUBSET Sources]

(* The record d is c, but for what the clients have been told, for the focus and  *)
(* for the drag.                                                           *)
Kept(c, d) ==
  /\ d \in States
  /\ d.open = c.open /\ d.windows = c.windows /\ d.devices = c.devices
  /\ d.drag_of = c.drag_of /\ d.source = c.source /\ d.cb = c.cb
  /\ d.holds = c.holds /\ d.lost = c.lost

(* It is c, but that the compositor may have come to its end.                *)
Same(c, d) ==
  /\ Kept(c, d)
  /\ d.focus = c.focus /\ d.dnd = c.dnd /\ d.told = c.told /\ d.offers = c.offers

(* It is c, but for what the clients have been told.                        *)
Tells(c, d) ==
  /\ Kept(c, d)
  /\ d.focus = c.focus /\ d.dnd = c.dnd
  /\ c.offers \subseteq d.offers
  /\ \A o \in d.offers \ c.offers : o.made = "selection" /\ o.data_device = NULL

-----------------------------------------------------------------------------
LEMMA EndState ==
  ASSUME NEW c \in States, NEW why \in Whys
  PROVE  End(c, why) \in States /\ Same(c, End(c, why))
BY DEF End, States, Same, Kept, Whys

LEMMA UseState ==
  ASSUME NEW c \in States, NEW s \in Source0
  PROVE  /\ Use(c, s) \in States /\ Same(c, Use(c, s))
         /\ s # NULL /\ Live(c, s) => Use(c, s) = c
         /\ Use(c, s).end = "" => s # NULL /\ Use(c, s) = c
<1>1. "null" \in Whys /\ "freed" \in Whys
  BY DEF Whys
<1>2. Same(c, c)
  BY DEF Same, Kept, States
<1>3. \A why \in Whys : End(c, why).end # ""
  BY DEF End, Whys, States
<1> QED
  BY <1>1, <1>2, <1>3, EndState DEF Use

LEMMA PostSource ==
  ASSUME NEW c \in States, NEW to, NEW s \in Source0
  PROVE  /\ post_to_source(c, to, s) \in States /\ Same(c, post_to_source(c, to, s))
         /\ s # NULL /\ Live(c, s) /\ to \in c.open => post_to_source(c, to, s) = c
         /\ post_to_source(c, to, s).end = "" => post_to_source(c, to, s) = c
<1>1. "freed" \in Whys
  BY DEF Whys
<1>2. Same(c, c)
  BY DEF Same, Kept, States
<1>3. \A why \in Whys : End(c, why).end # ""
  BY DEF End, Whys, States
<1> QED
  BY <1>1, <1>2, <1>3, EndState, UseState DEF post_to_source

LEMMA PostDevice ==
  ASSUME NEW c \in States, NEW to, NEW of
  PROVE  /\ post_to_device(c, to, of) \in States /\ Same(c, post_to_device(c, to, of))
         /\ to \in c.open /\ to = of => post_to_device(c, to, of) = c
         /\ post_to_device(c, to, of).end = "" => post_to_device(c, to, of) = c
<1>1. "astray" \in Whys /\ "freed" \in Whys
  BY DEF Whys
<1>2. Same(c, c)
  BY DEF Same, Kept, States
<1>3. \A why \in Whys : End(c, why).end # ""
  BY DEF End, Whys, States
<1> QED
  BY <1>1, <1>2, <1>3, EndState DEF post_to_device

-----------------------------------------------------------------------------
(* The selection is offered.                                               *)

LEMMA AdvertiseTells ==
  ASSUME NEW c \in States, NEW k \in Conns, c.cb.selection # NULL
  PROVE  /\ Tells(c, advertise_selection(c, k))
         /\ advertise_selection(c, k).told = c.cb.selection
         /\ Live(c, c.cb.selection) /\ c.end = "" => advertise_selection(c, k).end = ""
<1> DEFINE s == c.cb.selection
           o == [conn |-> k, kind |-> "wl", of |-> s, made |-> "selection",
                 data_device |-> NULL]
           u == Use(c, s)
           d == [u EXCEPT !.offers = @ \cup {o}, !.told = s]
<1>1. s \in Sources
  BY DEF States, Selections, Source0
<1>2. o \in Offer
  BY <1>1 DEF Offer
<1>3. /\ u \in States /\ Same(c, u)
      /\ Live(c, s) => u = c
  BY <1>1, UseState DEF Source0
<1>4. advertise_selection(c, k) = d
  BY DEF advertise_selection
<1>5. o.made = "selection" /\ o.data_device = NULL
  OBVIOUS
<1> HIDE DEF s, o, u
<1>6. d \in States /\ d.told = s /\ d.end = u.end /\ d.offers = u.offers \cup {o}
      /\ d.focus = u.focus /\ d.dnd = u.dnd /\ Kept(u, d)
  BY <1>1, <1>2, <1>3 DEF States, Source0, Kept
<1> HIDE DEF d
<1>7. Tells(c, d)
  BY <1>3, <1>5, <1>6 DEF Same, Tells, Kept
<1> QED
  BY <1>3, <1>4, <1>6, <1>7 DEF s

LEMMA ExtTells ==
  ASSUME NEW c \in States, NEW ks \in SUBSET Conns
  PROVE  /\ Tells(c, advertive_selection_ext(c, ks))
         /\ advertive_selection_ext(c, ks).told = c.told
         /\ c.end = "" /\ (c.cb.selection # NULL => Live(c, c.cb.selection))
              => advertive_selection_ext(c, ks).end = ""
<1> DEFINE s == c.cb.selection
           new == [conn : ks, kind : {"ext"}, of : {s}, made : {"selection"},
                   data_device : {NULL}]
           u == Use(c, s)
           d == [u EXCEPT !.offers = @ \cup new]
<1>1. CASE s = NULL \/ ks = {}
  <2>1. advertive_selection_ext(c, ks) = c
    BY <1>1 DEF advertive_selection_ext
  <2> QED
    BY <2>1 DEF Tells, Kept
<1>2. CASE ~(s = NULL \/ ks = {})
  <2>1. s \in Sources
    BY <1>2 DEF States, Selections, Source0
  <2>2. new \subseteq Offer
    BY <2>1 DEF Offer
  <2>3. /\ u \in States /\ Same(c, u)
        /\ Live(c, s) => u = c
    BY <2>1, UseState, NullAssumption DEF Source0
  <2>4. advertive_selection_ext(c, ks) = d
    BY <1>2 DEF advertive_selection_ext
  <2>5. \A o \in new : o.made = "selection" /\ o.data_device = NULL
    OBVIOUS
  <2>6. s # NULL
    BY <1>2
  <2> HIDE DEF s, new, u
  <2>7. d \in States /\ d.told = u.told /\ d.end = u.end /\ d.offers = u.offers \cup new
        /\ d.focus = u.focus /\ d.dnd = u.dnd /\ Kept(u, d)
    BY <2>2, <2>3 DEF States, Kept
  <2> HIDE DEF d
  <2>8. Tells(c, d) /\ d.told = c.told
    BY <2>3, <2>5, <2>7 DEF Same, Tells, Kept
  <2> QED
    BY <2>3, <2>4, <2>6, <2>7, <2>8 DEF s
<1> QED
  BY <1>1, <1>2

LEMMA TellsTwice ==
  ASSUME NEW c, NEW d, NEW g, Tells(c, d), Tells(d, g)
  PROVE  Tells(c, g)
BY DEF Tells, Kept

(* The client with the focus is told of a new selection.                    *)
LEMMA BroadcastTells ==
  ASSUME NEW c \in States, c.cb.selection # NULL
  PROVE  /\ Tells(c, broadcast_selection(c))
         /\ c.focus # NULL /\ Has(c, c.focus, "wl")
              => broadcast_selection(c).told = c.cb.selection
         /\ c.end = "" /\ Live(c, c.cb.selection) => broadcast_selection(c).end = ""
<1> DEFINE f == IF c.focus # NULL /\ Has(c, c.focus, "wl") THEN tell_selection(c, c.focus)
                ELSE c
           ks == {w \in c.windows : Has(c, w, "ext")}
<1>1. /\ Tells(c, f)
      /\ c.focus # NULL /\ Has(c, c.focus, "wl") => f.told = c.cb.selection
      /\ c.end = "" /\ Live(c, c.cb.selection) => f.end = ""
  <2>1. CASE c.focus # NULL /\ Has(c, c.focus, "wl")
    <3>1. c.focus \in Conns
      BY <2>1 DEF States, Conn0
    <3>2. f = advertise_selection(c, c.focus)
      BY <2>1 DEF tell_selection
    <3> QED
      BY <3>1, <3>2, AdvertiseTells
  <2>2. CASE ~(c.focus # NULL /\ Has(c, c.focus, "wl"))
    BY <2>2 DEF Tells, Kept
  <2> QED
    BY <2>1, <2>2
<1>2. broadcast_selection(c) = advertive_selection_ext(f, {w \in c.windows : Has(c, w, "ext")})
  BY DEF broadcast_selection
<1>3. ks \in SUBSET Conns
  BY DEF States
<1>4. f \in States /\ f.cb = c.cb /\ (Live(c, c.cb.selection) => Live(f, c.cb.selection))
  BY <1>1 DEF Tells, Kept, Live
<1> HIDE DEF f, ks
<1>5. /\ Tells(f, advertive_selection_ext(f, ks))
      /\ advertive_selection_ext(f, ks).told = f.told
      /\ c.end = "" /\ Live(c, c.cb.selection) => advertive_selection_ext(f, ks).end = ""
  BY <1>1, <1>3, <1>4, ExtTells
<1> QED
  BY <1>1, <1>2, <1>5, TellsTwice DEF ks

-----------------------------------------------------------------------------
(* The drag is offered, and the focus moves.                                *)

SameDrag(c, d) ==
  /\ d.dnd.src = c.dnd.src /\ d.dnd.data_source = c.dnd.data_source
  /\ d.dnd.data_device = c.dnd.data_device /\ d.dnd.data_offer = c.dnd.data_offer
  /\ d.dnd.actions = c.dnd.actions

(* The record d is c with the focus at w, or at no client.                  *)
Refocused(c, d, w) ==
  /\ Kept(c, d) /\ SameDrag(c, d) /\ d.focus = w
  /\ c.offers \subseteq d.offers
  /\ \A o \in d.offers \ c.offers : o.made # "start" /\ o.data_device = NULL

(* The selection, if there is one, can be offered.                          *)
Offerable(c) == c.cb.src # NULL => c.cb.selection # NULL /\ Live(c, c.cb.selection)

LEMMA AdvertiseDrag ==
  ASSUME NEW c \in States, NEW k \in Conns, NEW made \in {"focus", "start"}
  PROVE  /\ advertise_drag(c, k, made) \in States
         /\ \/ advertise_drag(c, k, made).end # ""
               /\ Same(c, advertise_drag(c, k, made))
            \/ /\ c.dnd.data_source # NULL /\ DragOffer(c, k, made) \in Offer
               /\ c.end = "" /\ advertise_drag(c, k, made).end = ""
               /\ Kept(c, advertise_drag(c, k, made))
               /\ advertise_drag(c, k, made).dnd = c.dnd
               /\ advertise_drag(c, k, made).focus = c.focus
               /\ advertise_drag(c, k, made).told = c.told
               /\ advertise_drag(c, k, made).offers = c.offers \cup {DragOffer(c, k, made)}
         /\ c.end = "" /\ c.dnd.data_source # NULL /\ Live(c, c.dnd.data_source)
              => advertise_drag(c, k, made).end = ""
<1> DEFINE u == Use(c, c.dnd.data_source)
<1>1. c.dnd.data_source \in Source0
  BY DEF States, Drags
<1>2. /\ u \in States /\ Same(c, u)
      /\ c.dnd.data_source # NULL /\ Live(c, c.dnd.data_source) => u = c
      /\ u.end = "" => c.dnd.data_source # NULL /\ u = c
  BY <1>1, UseState
<1>3. advertise_drag(c, k, made) =
        IF u.end # "" THEN u ELSE [c EXCEPT !.offers = @ \cup {DragOffer(c, k, made)}]
  BY DEF advertise_drag
<1> HIDE DEF u
<1>4. CASE u.end # ""
  BY <1>2, <1>3, <1>4
<1>5. CASE u.end = ""
  <2>1. c.dnd.data_source \in Sources /\ c.end = ""
    BY <1>1, <1>2, <1>5 DEF Source0
  <2>2. DragOffer(c, k, made) \in Offer
    BY <2>1 DEF DragOffer, Offer
  <2> DEFINE d == [c EXCEPT !.offers = @ \cup {DragOffer(c, k, made)}]
  <2>3. /\ d \in States /\ d.end = "" /\ Kept(c, d) /\ d.dnd = c.dnd
        /\ d.focus = c.focus /\ d.told = c.told
        /\ d.offers = c.offers \cup {DragOffer(c, k, made)}
    BY <2>1, <2>2 DEF States, Kept
  <2>4. advertise_drag(c, k, made) = d
    BY <1>3, <1>5
  <2> HIDE DEF d
  <2> QED
    BY <1>2, <2>1, <2>2, <2>3, <2>4, <1>5
<1> QED
  BY <1>4, <1>5

LEMMA UnfocusState ==
  ASSUME NEW c \in States, c.focus # NULL
  PROVE  /\ Refocused(c, client_unfocus(c), NULL) /\ client_unfocus(c).dnd = c.dnd
         /\ client_unfocus(c).offers = c.offers
         /\ c.end = "" /\ c.dnd.dst = NULL => client_unfocus(c).end = ""
<1> DEFINE g == IF Has(c, c.focus, "wl") /\ c.dnd.dst # NULL
                THEN post_to_device(c, c.dnd.dst, c.focus) ELSE c
           d == [g EXCEPT !.focus = NULL, !.told = NULL]
<1>1. client_unfocus(c) = d
  BY DEF client_unfocus
<1>2. NULL \in Source0 /\ NULL \in Conn0
  BY DEF Source0, Conn0
<1>3. Same(c, c)
  BY DEF Same, Kept
<1>4. Same(c, g) /\ (c.dnd.dst = NULL => g = c)
  BY <1>3, PostDevice
<1>5. g \in States
  BY <1>4 DEF Same, Kept
<1> HIDE DEF g
<1>6. /\ d \in States /\ d.end = g.end /\ d.told = NULL /\ d.offers = g.offers
      /\ d.dnd = g.dnd /\ d.focus = NULL /\ Kept(g, d)
  BY <1>2, <1>5 DEF States, Kept
<1> HIDE DEF d
<1>7. Refocused(c, d, NULL)
  BY <1>4, <1>6 DEF Refocused, Same, Kept, SameDrag
<1> QED
  BY <1>1, <1>4, <1>6, <1>7 DEF Same

LEMMA FocusState ==
  ASSUME NEW c \in States, NEW w \in Conns, (c.cb.src = NULL) = (c.cb.selection = NULL)
  PROVE  /\ Refocused(c, client_focus(c, w), w)
         /\ c.cb.src # NULL /\ Has(c, w, "wl")
              => client_focus(c, w).told = c.cb.selection
         /\ c.end = "" /\ c.dnd.src = NULL /\ Offerable(c)
              => client_focus(c, w).end = "" /\ client_focus(c, w).dnd = c.dnd
<1> DEFINE g == IF ~Has(c, w, "wl") THEN c
                ELSE IF c.cb.src # NULL THEN tell_selection(c, w)
                ELSE IF ~DragIsOn(c) THEN c
                ELSE IF c.dnd.data_device = GONE THEN End(c, "freed")
                ELSE [advertise_drag(c, w, "focus") EXCEPT !.dnd.dst = w]
<1>1. client_focus(c, w) = [g EXCEPT !.focus = w]
  BY DEF client_focus
<1>2. /\ Kept(c, g) /\ SameDrag(c, g)
      /\ c.offers \subseteq g.offers
      /\ \A o \in g.offers \ c.offers : o.made # "start" /\ o.data_device = NULL
      /\ c.cb.src # NULL /\ Has(c, w, "wl") => g.told = c.cb.selection
      /\ c.end = "" /\ c.dnd.src = NULL /\ Offerable(c)
           => g.end = "" /\ g.dnd = c.dnd
  <2>1. CASE ~Has(c, w, "wl") \/ (c.cb.src = NULL /\ ~DragIsOn(c))
    <3>1. g = c
      BY <2>1
    <3> HIDE DEF g
    <3> QED
      BY <2>1, <3>1 DEF Kept, SameDrag
  <2>2. CASE Has(c, w, "wl") /\ c.cb.src # NULL
    <3>1. g = advertise_selection(c, w)
      BY <2>2 DEF tell_selection
    <3>2. /\ Tells(c, g) /\ g.told = c.cb.selection
          /\ Live(c, c.cb.selection) /\ c.end = "" => g.end = ""
      BY <2>2, <3>1, AdvertiseTells
    <3> HIDE DEF g
    <3> QED
      BY <2>2, <3>2 DEF Tells, Offerable, SameDrag
  <2>3. CASE Has(c, w, "wl") /\ c.cb.src = NULL /\ DragIsOn(c) /\ c.dnd.data_device = GONE
    <3>1. g = End(c, "freed") /\ "freed" \in Whys /\ c.dnd.src # NULL
      BY <2>3 DEF DragIsOn, Whys
    <3>2. Same(c, g)
      BY <3>1, EndState
    <3> HIDE DEF g
    <3> QED
      BY <2>3, <3>1, <3>2 DEF Same, SameDrag
  <2>4. CASE Has(c, w, "wl") /\ c.cb.src = NULL /\ DragIsOn(c) /\ c.dnd.data_device # GONE
    <3> DEFINE a == advertise_drag(c, w, "focus")
               o == DragOffer(c, w, "focus")
    <3>1. g = [a EXCEPT !.dnd.dst = w] /\ c.dnd.src # NULL
      BY <2>4 DEF DragIsOn
    <3>2. /\ a \in States /\ Kept(c, a) /\ a.dnd = c.dnd
          /\ a.offers = c.offers \/ a.offers = c.offers \cup {o}
      BY AdvertiseDrag DEF Same
    <3>3. o.made = "focus" /\ o.data_device = NULL
      BY DEF DragOffer
    <3> HIDE DEF g, a, o
    <3>4. w \in Conn0
      BY DEF Conn0
    <3>5. a.dnd \in Drags
      BY <3>2 DEF States
    <3>6. [a.dnd EXCEPT !.dst = w] \in Drags
      BY <3>4, <3>5 DEF Drags
    <3>7. g = [a EXCEPT !.dnd = [a.dnd EXCEPT !.dst = w]]
      BY <3>1
    <3>8. g \in States /\ g.dnd = [a.dnd EXCEPT !.dst = w]
          /\ g.offers = a.offers /\ Kept(a, g)
      BY <3>2, <3>6, <3>7 DEF States, Kept
    <3>9. SameDrag(a, g)
      BY <3>5, <3>8 DEF SameDrag, Drags
    <3> QED
      BY <2>4, <3>1, <3>2, <3>3, <3>8, <3>9 DEF Kept, SameDrag
  <2> QED
    BY <2>1, <2>2, <2>3, <2>4
<1> HIDE DEF g
<1> DEFINE d == [g EXCEPT !.focus = w]
<1>3. /\ d \in States /\ d.dnd = g.dnd /\ d.end = g.end /\ d.told = g.told
      /\ d.offers = g.offers /\ d.focus = w /\ Kept(g, d)
  BY <1>2 DEF States, Conn0, Kept
<1> HIDE DEF d
<1>4. Refocused(c, d, w)
  BY <1>2, <1>3 DEF Refocused, Kept, SameDrag
<1>5. client_focus(c, w) = d
  BY <1>1 DEF d
<1> QED
  BY <1>2, <1>3, <1>4, <1>5

LEMMA ChangeFocusState ==
  ASSUME NEW c \in States, NEW w \in Conns, (c.cb.src = NULL) = (c.cb.selection = NULL)
  PROVE  /\ Refocused(c, client_change_focus(c, w), w)
         /\ c.cb.src # NULL /\ Has(c, w, "wl")
              => client_change_focus(c, w).told = c.cb.selection
         /\ c.end = "" /\ c.dnd.src = NULL /\ c.dnd.dst = NULL /\ Offerable(c)
              => client_change_focus(c, w).end = ""
                 /\ client_change_focus(c, w).dnd = c.dnd
<1> DEFINE u == IF c.focus = NULL THEN c ELSE client_unfocus(c)
<1>1. client_change_focus(c, w) = client_focus(u, w)
  BY DEF client_change_focus
<1>2. /\ Kept(c, u) /\ u.dnd = c.dnd /\ c.offers \subseteq u.offers
      /\ \A o \in u.offers \ c.offers : o.made # "start" /\ o.data_device = NULL
      /\ c.end = "" /\ c.dnd.dst = NULL => u.end = ""
  <2>1. CASE c.focus = NULL
    BY <2>1 DEF Kept
  <2>2. CASE c.focus # NULL
    <3>1. u = client_unfocus(c)
      BY <2>2
    <3> HIDE DEF u
    <3> QED
      BY <2>2, <3>1, UnfocusState DEF Refocused
  <2> QED
    BY <2>1, <2>2
<1> HIDE DEF u
<1>3. u \in States /\ u.cb = c.cb /\ u.devices = c.devices /\ u.source = c.source
  BY <1>2 DEF Kept
<1>4. /\ Has(u, w, "wl") = Has(c, w, "wl") /\ Offerable(u) = Offerable(c)
      /\ (u.cb.src = NULL) = (u.cb.selection = NULL)
  BY <1>3 DEF Has, Offerable, Live
<1> DEFINE d == client_focus(u, w)
<1>5. /\ Refocused(u, d, w)
      /\ u.cb.src # NULL /\ Has(u, w, "wl") => d.told = u.cb.selection
      /\ u.end = "" /\ u.dnd.src = NULL /\ Offerable(u) => d.end = "" /\ d.dnd = u.dnd
  BY <1>3, <1>4, FocusState
<1> HIDE DEF d
<1>6. Refocused(c, d, w)
  <2>1. \A o \in d.offers \ c.offers : o \in d.offers \ u.offers \/ o \in u.offers \ c.offers
    OBVIOUS
  <2>2. Kept(c, d) /\ SameDrag(c, d) /\ d.focus = w /\ c.offers \subseteq d.offers
    BY <1>2, <1>5 DEF Refocused, Kept, SameDrag
  <2> QED
    BY <1>2, <1>5, <2>1, <2>2 DEF Refocused
<1> QED
  BY <1>1, <1>2, <1>3, <1>4, <1>5, <1>6 DEF d

LEMMA ClearState ==
  ASSUME NEW c \in States, NEW k
  PROVE  /\ Kept(c, clear_dnd(c, k))
         /\ clear_dnd(c, k).focus = c.focus /\ clear_dnd(c, k).told = c.told
         /\ clear_dnd(c, k).offers = c.offers /\ clear_dnd(c, k).end = c.end
         /\ k \notin {c.dnd.src, c.dnd.dst} => clear_dnd(c, k) = c
         /\ k = c.dnd.dst => /\ clear_dnd(c, k).dnd.dst = NULL
                             /\ SameDrag(c, clear_dnd(c, k))
         /\ k # c.dnd.dst /\ k = c.dnd.src =>
              /\ clear_dnd(c, k).dnd.src = NULL /\ clear_dnd(c, k).dnd.data_offer = NULL
              /\ clear_dnd(c, k).dnd.data_source = NULL
              /\ clear_dnd(c, k).dnd.dst = c.dnd.dst
<1> DEFINE a == [c.dnd EXCEPT !.dst = NULL]
           b == [NoDrag EXCEPT !.dst = c.dnd.dst, !.actions = c.dnd.actions]
<1>1. a \in Drags /\ b \in Drags
  BY DEF States, Drags, NoDrag, Conn0, Source0
<1>2. /\ a.dst = NULL
      /\ a.src = c.dnd.src /\ a.data_source = c.dnd.data_source
      /\ a.data_device = c.dnd.data_device /\ a.data_offer = c.dnd.data_offer
      /\ a.actions = c.dnd.actions
  BY DEF States, Drags
<1>3. b.src = NULL /\ b.data_offer = NULL /\ b.data_source = NULL /\ b.dst = c.dnd.dst
  BY DEF NoDrag
<1>4. clear_dnd(c, k) = IF k = c.dnd.dst THEN [c EXCEPT !.dnd = a]
                        ELSE IF k = c.dnd.src THEN [c EXCEPT !.dnd = b] ELSE c
  BY DEF clear_dnd
<1> HIDE DEF a, b
<1>5. \A e \in {a, b} : LET d == [c EXCEPT !.dnd = e]
                        IN /\ Kept(c, d) /\ d.focus = c.focus /\ d.told = c.told
                           /\ d.offers = c.offers /\ d.end = c.end /\ d.dnd = e
  BY <1>1 DEF States, Kept
<1>6. Kept(c, c)
  BY DEF Kept
<1>7. CASE k = c.dnd.dst
  <2> DEFINE d == [c EXCEPT !.dnd = a]
  <2>1. /\ Kept(c, d) /\ d.focus = c.focus /\ d.told = c.told
        /\ d.offers = c.offers /\ d.end = c.end /\ d.dnd = a
    BY <1>5
  <2>2. clear_dnd(c, k) = d
    BY <1>4, <1>7
  <2> HIDE DEF d
  <2>3. SameDrag(c, d)
    BY <1>2, <2>1 DEF SameDrag
  <2> QED
    BY <1>2, <1>7, <2>1, <2>2, <2>3
<1>8. CASE k # c.dnd.dst /\ k = c.dnd.src
  <2> DEFINE d == [c EXCEPT !.dnd = b]
  <2>1. /\ Kept(c, d) /\ d.focus = c.focus /\ d.told = c.told
        /\ d.offers = c.offers /\ d.end = c.end /\ d.dnd = b
    BY <1>5
  <2>2. clear_dnd(c, k) = d
    BY <1>4, <1>8
  <2> HIDE DEF d
  <2> QED
    BY <1>3, <1>8, <2>1, <2>2
<1>9. CASE k \notin {c.dnd.src, c.dnd.dst}
  <2>1. clear_dnd(c, k) = c
    BY <1>4, <1>9
  <2> QED
    BY <1>6, <1>9, <2>1
<1> QED
  BY <1>7, <1>8, <1>9

-----------------------------------------------------------------------------
(* The invariant.                                                          *)

Typed ==
  /\ cuts \in States
  /\ cuts.windows \subseteq cuts.open /\ cuts.focus \in cuts.windows \cup {NULL}
  /\ (cuts.cb.src = NULL) = (cuts.cb.selection = NULL)
  /\ \A s \in Sources : Live(cuts, s) => OwnerOf[s] \in cuts.open

Owned ==
  cuts.cb.src # NULL /\ "ext_source" \notin blame =>
    /\ cuts.cb.src \in cuts.open /\ Live(cuts, cuts.cb.selection)
    /\ OwnerOf[cuts.cb.selection] = cuts.cb.src
    /\ cuts.source[cuts.cb.selection] = cuts.cb.kind

Told ==
  cuts.focus # NULL /\ cuts.cb.selection # NULL /\ Has(cuts, cuts.focus, "wl") =>
    cuts.told \in {cuts.cb.selection, "late"}

Held == \A s \in cuts.holds \ cuts.lost : s = cuts.cb.selection

(* The offer of the drag is of its source.                                  *)
Known ==
  Running /\ cuts.dnd.data_offer # NULL =>
    cuts.dnd.data_offer.of = cuts.dnd.data_source /\ cuts.dnd.data_offer.kind = "wl"

(* As long as there was no cause, a drag has its source, and stays in the     *)
(* window that has the focus and that it started from.                      *)
Dragging ==
  blame = {} =>
    /\ cuts.dnd.src = NULL => /\ cuts.dnd.dst = NULL /\ cuts.dnd.data_offer = NULL
                              /\ cuts.dnd.data_source = NULL
    /\ cuts.dnd.src # NULL =>
         /\ cuts.dnd.dst = cuts.dnd.src /\ cuts.focus = cuts.dnd.src
         /\ cuts.dnd.data_source \in Sources
         /\ cuts.source[cuts.dnd.data_source] = "wl"
         /\ OwnerOf[cuts.dnd.data_source] = cuts.dnd.src
    /\ \A o \in cuts.offers :
         o.data_device # GONE /\ (o.made = "start" => o.data_device # NULL)

ClipInv == Typed /\ Owned /\ Told /\ Held /\ Known /\ Dragging /\ EndsOnly

(* What a step keeps that leaves alone the fields a conjunct reads.           *)
LEMMA Untouched ==
  ASSUME blame \subseteq blame'
  PROVE  /\ Owned /\ cuts'.cb = cuts.cb /\ cuts'.open = cuts.open
              /\ cuts'.source = cuts.source => Owned'
         /\ Told /\ cuts'.focus = cuts.focus /\ cuts'.cb = cuts.cb
              /\ cuts'.devices = cuts.devices /\ cuts'.told = cuts.told => Told'
         /\ Held /\ cuts'.holds = cuts.holds /\ cuts'.lost = cuts.lost
              /\ cuts'.cb = cuts.cb => Held'
         /\ Known /\ Running /\ cuts'.dnd = cuts.dnd => Known'
         /\ Dragging /\ cuts'.dnd = cuts.dnd /\ cuts'.focus = cuts.focus
              /\ cuts'.source = cuts.source
              /\ (\A o \in cuts'.offers \ cuts.offers :
                    o.made # "start" /\ o.data_device = NULL) => Dragging'
         /\ Running /\ cuts'.end = "" => EndsOnly'
<1>1. blame' = {} => blame = {}
  OBVIOUS
<1>2. NULL # GONE
  BY NullAssumption
<1> QED
  BY <1>1, <1>2 DEF Owned, Told, Held, Known, Dragging, EndsOnly, Running, Live, Has

(* A step that only writes events to sockets.                               *)
LEMMA EventStep ==
  ASSUME ClipInv, Running, Same(cuts, cuts'), blame \subseteq blame', EndsOnly'
  PROVE  ClipInv'
<1>1. Typed'
  BY DEF ClipInv, Typed, Same, Kept, Live
<1> QED
  BY <1>1, Untouched DEF ClipInv, Same, Kept

(* The selection can be offered as long as there was no cause.               *)
LEMMA Offers ==
  ASSUME ClipInv, blame = {}
  PROVE  /\ Offerable(cuts) /\ cuts.cb.src \in cuts.open \cup {NULL}
         /\ cuts.dnd.src # NULL => /\ Live(cuts, cuts.dnd.data_source)
                                   /\ cuts.dnd.src \in cuts.open
                                   /\ cuts.dnd.data_source # NULL
BY NullAssumption DEF ClipInv, Typed, Owned, Dragging, Offerable, Live

-----------------------------------------------------------------------------
(* One lemma for each action.                                              *)

LEMMA FreeStep ==
  ASSUME ClipInv, NEW k \in Conns, c_wl_connection_free(k)
  PROVE  ClipInv'
<1>1. cuts \in States /\ blame' = blame /\ Running /\ cuts.windows \subseteq cuts.open
  BY DEF ClipInv, Typed, c_wl_connection_free
<1>2. cuts' = [cuts EXCEPT !.open = @ \ {k}] /\ k \notin cuts.windows
      /\ \A s \in Sources : ~(Live(cuts, s) /\ OwnerOf[s] = k)
  BY DEF c_wl_connection_free
<1>3. /\ cuts' \in States /\ cuts'.open = cuts.open \ {k}
      /\ cuts'.windows = cuts.windows /\ cuts'.focus = cuts.focus
      /\ cuts'.devices = cuts.devices /\ cuts'.source = cuts.source
      /\ cuts'.cb = cuts.cb /\ cuts'.holds = cuts.holds /\ cuts'.lost = cuts.lost
      /\ cuts'.dnd = cuts.dnd /\ cuts'.told = cuts.told /\ cuts'.end = cuts.end
      /\ cuts'.offers = cuts.offers
  BY <1>1, <1>2 DEF States
<1>4. Typed'
  BY <1>2, <1>3 DEF ClipInv, Typed, Live
<1>5. Owned'
  <2>1. cuts.cb.selection \in Sources \cup {NULL}
    BY <1>1 DEF States, Selections, Source0
  <2> QED
    BY <1>1, <1>2, <1>3, <2>1 DEF ClipInv, Typed, Owned, Live
<1>6. Told' /\ Held' /\ Known' /\ Dragging' /\ EndsOnly'
  BY <1>1, <1>3, Untouched DEF ClipInv, Running
<1> QED
  BY <1>4, <1>5, <1>6 DEF ClipInv

LEMMA DeviceStep ==
  ASSUME ClipInv, NEW k \in Conns, wl_data_device_manager_get_data_device(k)
  PROVE  ClipInv'
<1>1. cuts \in States /\ blame' = blame /\ Running
  BY DEF ClipInv, Typed, wl_data_device_manager_get_data_device
<1>2. cuts' = [cuts EXCEPT !.devices = @ \cup {<<k, "wl">>},
                           !.told = IF cuts.focus = k THEN "late" ELSE @]
  BY DEF wl_data_device_manager_get_data_device
<1>9. cuts.devices \cup {<<k, "wl">>} \in SUBSET (Conns \X Kinds)
  <2>1. cuts.devices \in SUBSET (Conns \X Kinds)
    BY <1>1 DEF States
  <2>2. <<k, "wl">> \in Conns \X Kinds
    BY DEF Kinds
  <2> QED
    BY <2>1, <2>2
<1>10. cuts.told \in Source0 \cup {"late"}
  BY <1>1 DEF States
<1>3. /\ cuts' \in States /\ cuts'.open = cuts.open
      /\ cuts'.windows = cuts.windows /\ cuts'.focus = cuts.focus
      /\ cuts'.devices = cuts.devices \cup {<<k, "wl">>} /\ cuts'.source = cuts.source
      /\ cuts'.cb = cuts.cb /\ cuts'.holds = cuts.holds /\ cuts'.lost = cuts.lost
      /\ cuts'.dnd = cuts.dnd /\ cuts'.end = cuts.end /\ cuts'.offers = cuts.offers
      /\ cuts'.told = IF cuts.focus = k THEN "late" ELSE cuts.told
  BY <1>1, <1>2, <1>9, <1>10 DEF States
<1>4. Typed'
  BY <1>3 DEF ClipInv, Typed, Live
<1>5. Told'
  BY <1>3 DEF ClipInv, Told, Has
<1>6. Owned' /\ Held' /\ Known' /\ Dragging' /\ EndsOnly'
  BY <1>1, <1>3, Untouched DEF ClipInv, Running
<1> QED
  BY <1>4, <1>5, <1>6 DEF ClipInv

LEMMA ExtDeviceStep ==
  ASSUME ClipInv, NEW k \in Conns, ext_data_control_manager_v1_get_data_device(k)
  PROVE  ClipInv'
<1> DEFINE c == [cuts EXCEPT !.devices = @ \cup {<<k, "ext">>}]
<1>1. cuts \in States /\ blame' = blame /\ Running
  BY DEF ClipInv, Typed, ext_data_control_manager_v1_get_data_device
<1>2. cuts' = advertive_selection_ext(c, {k})
  BY DEF ext_data_control_manager_v1_get_data_device
<1>9. cuts.devices \cup {<<k, "ext">>} \in SUBSET (Conns \X Kinds)
  <2>1. cuts.devices \in SUBSET (Conns \X Kinds)
    BY <1>1 DEF States
  <2>2. <<k, "ext">> \in Conns \X Kinds
    BY DEF Kinds
  <2> QED
    BY <2>1, <2>2
<1>3. /\ c \in States /\ c.open = cuts.open
      /\ c.windows = cuts.windows /\ c.focus = cuts.focus
      /\ c.devices = cuts.devices \cup {<<k, "ext">>} /\ c.source = cuts.source
      /\ c.cb = cuts.cb /\ c.holds = cuts.holds /\ c.lost = cuts.lost
      /\ c.dnd = cuts.dnd /\ c.end = cuts.end /\ c.offers = cuts.offers
      /\ c.told = cuts.told
  BY <1>1, <1>2, <1>9 DEF States
<1> HIDE DEF c
<1>4. /\ Tells(c, cuts') /\ cuts'.told = c.told
      /\ c.end = "" /\ (c.cb.selection # NULL => Live(c, c.cb.selection))
           => cuts'.end = ""
  BY <1>2, <1>3, ExtTells
<1>5. Typed'
  BY <1>3, <1>4 DEF ClipInv, Typed, Tells, Kept, Live
<1>6. Told'
  <2>1. \A x : Has(c, x, "wl") = Has(cuts, x, "wl")
    BY <1>3 DEF Has
  <2>2. \A x : Has(cuts, x, "wl")' = Has(cuts, x, "wl")
    BY <1>4, <2>1 DEF Has, Tells, Kept
  <2> QED
    BY <1>3, <1>4, <2>2 DEF ClipInv, Told, Tells, Kept
<1>7. Owned' /\ Held' /\ Known' /\ Dragging'
  BY <1>1, <1>3, <1>4, Untouched DEF ClipInv, Running, Tells, Kept
<1>8. EndsOnly'
  <2>1. blame = {} /\ c.cb.selection # NULL => Live(c, c.cb.selection)
    BY <1>3, Offers DEF Offerable, Live, ClipInv, Typed
  <2> QED
    BY <1>1, <1>3, <1>4, <2>1 DEF Running, EndsOnly
<1> QED
  BY <1>5, <1>6, <1>7, <1>8 DEF ClipInv

LEMMA ReleaseStep ==
  ASSUME ClipInv, NEW k \in Conns, wl_data_device_release(k)
  PROVE  ClipInv'
<1> DEFINE offers1 == {IF o.data_device = k THEN [o EXCEPT !.data_device = GONE] ELSE o :
                         o \in cuts.offers}
           offer1 == IF cuts.dnd.data_offer # NULL /\ cuts.dnd.data_offer.data_device = k
                     THEN [cuts.dnd.data_offer EXCEPT !.data_device = GONE]
                     ELSE cuts.dnd.data_offer
           device1 == IF cuts.dnd.data_device = k THEN GONE ELSE cuts.dnd.data_device
           dnd1 == [cuts.dnd EXCEPT !.data_device = device1, !.data_offer = offer1]
           drag1 == [cuts.drag_of EXCEPT ![k] = NULL]
           c == [cuts EXCEPT !.devices = @ \ {<<k, "wl">>}, !.drag_of = drag1,
                             !.dnd = dnd1, !.offers = offers1]
<1>1. cuts \in States /\ Running
  BY DEF ClipInv, Typed, wl_data_device_release
<1>2. cuts' = c
  BY DEF wl_data_device_release
<1>3. \A o \in Offer : /\ [o EXCEPT !.data_device = GONE] \in Offer
                       /\ [o EXCEPT !.data_device = GONE].of = o.of
                       /\ [o EXCEPT !.data_device = GONE].kind = o.kind
  BY DEF Offer
<1>4. cuts.dnd \in Drags /\ cuts.offers \subseteq Offer /\ cuts.drag_of \in [Conns -> Source0]
  BY <1>1 DEF States
<1>5. offers1 \subseteq Offer
  BY <1>3, <1>4
<1>6. /\ offer1 \in Offer \cup {NULL} /\ (offer1 = NULL) = (cuts.dnd.data_offer = NULL)
      /\ offer1 # NULL => offer1.of = cuts.dnd.data_offer.of
                          /\ offer1.kind = cuts.dnd.data_offer.kind
  BY <1>3, <1>4, NullAssumption DEF Drags
<1>7. device1 \in Conns \cup {NULL, GONE} /\ drag1 \in [Conns -> Source0]
  BY <1>4 DEF Drags, Source0
<1>8. blame \subseteq blame'
      /\ (blame' = {} => \A o \in cuts.offers : o.data_device # k)
  BY DEF wl_data_device_release, Blaming, Because
<1>9. blame' = {} => offers1 = cuts.offers
  BY <1>8
<1> HIDE DEF offers1, offer1, device1, drag1
<1>10. /\ dnd1 \in Drags /\ dnd1.src = cuts.dnd.src /\ dnd1.dst = cuts.dnd.dst
       /\ dnd1.data_source = cuts.dnd.data_source /\ dnd1.data_offer = offer1
  BY <1>4, <1>6, <1>7 DEF Drags
<1> HIDE DEF dnd1
<1>11. /\ c \in States /\ c.open = cuts.open
       /\ c.windows = cuts.windows /\ c.focus = cuts.focus
       /\ c.devices = cuts.devices \ {<<k, "wl">>} /\ c.source = cuts.source
       /\ c.cb = cuts.cb /\ c.holds = cuts.holds /\ c.lost = cuts.lost
       /\ c.dnd = dnd1 /\ c.end = cuts.end /\ c.offers = offers1
       /\ c.told = cuts.told
  BY <1>1, <1>5, <1>7, <1>10 DEF States
<1> HIDE DEF c
<1>12. Typed'
  BY <1>2, <1>11 DEF ClipInv, Typed, Live
<1>13. Told'
  BY <1>2, <1>11 DEF ClipInv, Told, Has
<1>14. Known'
  BY <1>2, <1>6, <1>10, <1>11 DEF ClipInv, Known, Running
<1>15. Dragging'
  <2>1. ASSUME blame' = {} PROVE Dragging'
    <3>1. blame = {}
      BY <1>8, <2>1
    <3> QED
      BY <1>2, <1>6, <1>9, <1>10, <1>11, <2>1, <3>1 DEF ClipInv, Dragging
  <2> QED
    BY <2>1 DEF Dragging
<1>16. Owned' /\ Held' /\ EndsOnly'
  BY <1>1, <1>2, <1>8, <1>11, Untouched DEF ClipInv, Running
<1> QED
  BY <1>12, <1>13, <1>14, <1>15, <1>16 DEF ClipInv

LEMMA ExtDestroyStep ==
  ASSUME ClipInv, NEW k \in Conns, ext_data_control_device_v1_destroy(k)
  PROVE  ClipInv'
<1>1. cuts \in States /\ blame' = blame /\ Running
  BY DEF ClipInv, Typed, ext_data_control_device_v1_destroy
<1>2. cuts' = [cuts EXCEPT !.devices = @ \ {<<k, "ext">>}]
  BY DEF ext_data_control_device_v1_destroy
<1>3. /\ cuts' \in States /\ cuts'.open = cuts.open
      /\ cuts'.windows = cuts.windows /\ cuts'.focus = cuts.focus
      /\ cuts'.devices = cuts.devices \ {<<k, "ext">>} /\ cuts'.source = cuts.source
      /\ cuts'.cb = cuts.cb /\ cuts'.holds = cuts.holds /\ cuts'.lost = cuts.lost
      /\ cuts'.dnd = cuts.dnd /\ cuts'.end = cuts.end /\ cuts'.offers = cuts.offers
      /\ cuts'.told = cuts.told
  BY <1>1, <1>2 DEF States
<1>4. Typed'
  BY <1>3 DEF ClipInv, Typed, Live
<1>5. Told'
  BY <1>3 DEF ClipInv, Told, Has
<1>6. Owned' /\ Held' /\ Known' /\ Dragging' /\ EndsOnly'
  BY <1>1, <1>3, Untouched DEF ClipInv, Running
<1> QED
  BY <1>4, <1>5, <1>6 DEF ClipInv

LEMMA CreateStep ==
  ASSUME ClipInv, NEW s \in Sources, NEW kind \in KindsOf[s], create_data_source(s, kind)
  PROVE  ClipInv'
<1>1. cuts \in States /\ blame' = blame /\ Running
  BY DEF ClipInv, Typed, create_data_source
<1>2. cuts' = [cuts EXCEPT !.source[s] = kind] /\ cuts.source[s] = "unborn"
      /\ OwnerOf[s] \in cuts.open
  BY DEF create_data_source
<1>3. kind \in {"wl", "ext"}
  BY SourceAssumption
<1>4. /\ cuts' \in States /\ cuts'.open = cuts.open
      /\ cuts'.windows = cuts.windows /\ cuts'.focus = cuts.focus
      /\ cuts'.devices = cuts.devices
      /\ \A t \in Sources : cuts'.source[t] = IF t = s THEN kind ELSE cuts.source[t]
      /\ cuts'.cb = cuts.cb /\ cuts'.holds = cuts.holds /\ cuts'.lost = cuts.lost
      /\ cuts'.dnd = cuts.dnd /\ cuts'.end = cuts.end /\ cuts'.offers = cuts.offers
      /\ cuts'.told = cuts.told
  BY <1>1, <1>2, <1>3 DEF States
<1>5. Typed'
  BY <1>2, <1>4 DEF ClipInv, Typed, Live
<1>6. Owned'
  <2>1. cuts.cb.selection \in Sources \cup {NULL}
    BY <1>1 DEF States, Selections, Source0
  <2> QED
    BY <1>1, <1>2, <1>4, <2>1 DEF ClipInv, Typed, Owned, Live
<1>7. Dragging'
  BY <1>1, <1>2, <1>4 DEF ClipInv, Dragging
<1>8. Told' /\ Held' /\ Known' /\ EndsOnly'
  BY <1>1, <1>4, Untouched DEF ClipInv, Running
<1> QED
  BY <1>5, <1>6, <1>7, <1>8 DEF ClipInv

LEMMA ExtSourceStep ==
  ASSUME ClipInv, NEW s \in Sources, ext_data_control_source_v1_destroy(s)
  PROVE  ClipInv'
<1>1. cuts \in States /\ Running
  BY DEF ClipInv, Typed, ext_data_control_source_v1_destroy
<1>2. cuts' = [cuts EXCEPT !.source[s] = "gone", !.holds = @ \ {s}]
      /\ cuts.source[s] = "ext"
  BY DEF ext_data_control_source_v1_destroy
<1>3. blame \subseteq blame' /\ (cuts.cb.selection = s => "ext_source" \in blame')
  BY DEF ext_data_control_source_v1_destroy, Blaming, Because
<1>4. /\ cuts' \in States /\ cuts'.open = cuts.open
      /\ cuts'.windows = cuts.windows /\ cuts'.focus = cuts.focus
      /\ cuts'.devices = cuts.devices
      /\ \A t \in Sources : cuts'.source[t] = IF t = s THEN "gone" ELSE cuts.source[t]
      /\ cuts'.cb = cuts.cb /\ cuts'.holds = cuts.holds \ {s} /\ cuts'.lost = cuts.lost
      /\ cuts'.dnd = cuts.dnd /\ cuts'.end = cuts.end /\ cuts'.offers = cuts.offers
      /\ cuts'.told = cuts.told
  BY <1>1, <1>2 DEF States
<1>5. Typed'
  BY <1>4 DEF ClipInv, Typed, Live
<1>6. Owned'
  <2>1. cuts.cb.selection \in Sources \cup {NULL}
    BY <1>1 DEF States, Selections, Source0
  <2> QED
    BY <1>1, <1>3, <1>4, <2>1 DEF ClipInv, Typed, Owned, Live
<1>7. Dragging'
  BY <1>2, <1>3, <1>4 DEF ClipInv, Dragging
<1>8. Held'
  BY <1>4 DEF ClipInv, Held
<1>9. Told' /\ Known' /\ EndsOnly'
  BY <1>1, <1>3, <1>4, Untouched DEF ClipInv, Running
<1> QED
  BY <1>5, <1>6, <1>7, <1>8, <1>9 DEF ClipInv

LEMMA SourceStep ==
  ASSUME ClipInv, NEW s \in Sources, wl_data_source_destroy(s)
  PROVE  ClipInv'
<1> DEFINE k == OwnerOf[s]
           e == clear_cb(cuts, k)
           d == clear_dnd(e, k)
           lost1 == IF k = cuts.cb.src THEN cuts.lost \cup ({cuts.cb.selection} \ {s})
                    ELSE cuts.lost
           c == [d EXCEPT !.source[s] = "gone", !.holds = @ \ {s}, !.lost = lost1]
<1>1. /\ cuts \in States /\ Running /\ cuts.source[s] = "wl"
      /\ (cuts.cb.src = NULL) = (cuts.cb.selection = NULL)
      /\ \A t \in Sources : Live(cuts, t) => OwnerOf[t] \in cuts.open
  BY DEF ClipInv, Typed, wl_data_source_destroy
<1>2. /\ blame \subseteq blame'
      /\ blame' = {} => /\ ~(cuts.dnd.src = k /\ cuts.dnd.dst = k)
                        /\ ~(cuts.dnd.src = k /\ cuts.dnd.data_source # s)
                        /\ ~(k \in {cuts.dnd.src, cuts.dnd.dst} /\ cuts.dnd.src # cuts.dnd.dst)
  BY DEF wl_data_source_destroy, Blaming, Because
<1>3. k \in Conns /\ k # NULL
  BY SourceAssumption, NullAssumption
<1>4. NoSelection \in Selections /\ NoSelection.src = NULL /\ NoSelection.selection = NULL
  BY DEF NoSelection, Selections, Conn0, Source0
<1>5. cuts' = [d EXCEPT !.source[s] = "gone", !.holds = @ \ {s},
                 !.lost = IF k = cuts.cb.src THEN @ \cup ({cuts.cb.selection} \ {s}) ELSE @]
  BY DEF wl_data_source_destroy, on_wl_data_source_destroy
<1>6. cuts.cb.selection \in Sources \cup {NULL} /\ cuts.lost \subseteq Sources
  BY <1>1 DEF States, Selections, Source0
<1>7. lost1 \subseteq Sources
  BY <1>1, <1>3, <1>6
<1> HIDE DEF k
<1>8. /\ e \in States /\ e.open = cuts.open /\ e.windows = cuts.windows
      /\ e.focus = cuts.focus /\ e.devices = cuts.devices /\ e.source = cuts.source
      /\ e.holds = cuts.holds /\ e.lost = cuts.lost /\ e.dnd = cuts.dnd
      /\ e.told = cuts.told /\ e.end = cuts.end /\ e.offers = cuts.offers
      /\ e.cb = IF k = cuts.cb.src THEN NoSelection ELSE cuts.cb
  BY <1>1, <1>4 DEF clear_cb, States
<1> HIDE DEF e
<1>9. /\ Kept(e, d) /\ d.focus = e.focus /\ d.told = e.told
      /\ d.offers = e.offers /\ d.end = e.end
      /\ k \notin {e.dnd.src, e.dnd.dst} => d = e
      /\ k = e.dnd.dst => d.dnd.dst = NULL /\ SameDrag(e, d)
      /\ k # e.dnd.dst /\ k = e.dnd.src =>
           d.dnd.src = NULL /\ d.dnd.data_offer = NULL /\ d.dnd.dst = e.dnd.dst
  BY <1>8, ClearState
<1> HIDE DEF d
<1>10. d \in States /\ d.lost = cuts.lost
  BY <1>8, <1>9 DEF Kept
<1>11. cuts' = c
  BY <1>5, <1>10
<1> HIDE DEF lost1
<1>12. /\ cuts' \in States /\ cuts'.open = d.open /\ cuts'.windows = d.windows
       /\ cuts'.focus = d.focus /\ cuts'.devices = d.devices
       /\ \A t \in Sources : cuts'.source[t] = IF t = s THEN "gone" ELSE d.source[t]
       /\ cuts'.cb = d.cb /\ cuts'.holds = d.holds \ {s} /\ cuts'.lost = lost1
       /\ cuts'.dnd = d.dnd /\ cuts'.end = d.end /\ cuts'.offers = d.offers
       /\ cuts'.told = d.told
  BY <1>7, <1>10, <1>11 DEF States
<1> HIDE DEF c
<1>13. /\ cuts'.open = cuts.open /\ cuts'.windows = cuts.windows
       /\ cuts'.focus = cuts.focus /\ cuts'.devices = cuts.devices
       /\ \A t \in Sources : cuts'.source[t] = IF t = s THEN "gone" ELSE cuts.source[t]
       /\ cuts'.cb = IF k = cuts.cb.src THEN NoSelection ELSE cuts.cb
       /\ cuts'.holds = cuts.holds \ {s} /\ cuts'.end = cuts.end
       /\ cuts'.offers = cuts.offers /\ cuts'.told = cuts.told
  BY <1>8, <1>9, <1>12 DEF Kept
<1>14. Typed'
  BY <1>4, <1>12, <1>13 DEF ClipInv, Typed, Live
<1>15. Owned'
  BY <1>1, <1>2, <1>4, <1>6, <1>13 DEF ClipInv, Owned, Live, k
<1>16. Told'
  BY <1>4, <1>13 DEF ClipInv, Told, Has
<1>17. Held'
  BY <1>1, <1>3, <1>6, <1>12, <1>13 DEF ClipInv, Held, lost1
<1>18. Known'
  <2>1. \/ cuts'.dnd.data_offer = NULL
        \/ /\ cuts'.dnd.data_offer = cuts.dnd.data_offer
           /\ cuts'.dnd.data_source = cuts.dnd.data_source
    BY <1>8, <1>9, <1>12 DEF SameDrag
  <2> QED
    BY <1>1, <2>1 DEF ClipInv, Known
<1>19. Dragging'
  <2>1. ASSUME blame' = {} PROVE Dragging'
    <3>1. blame = {}
      BY <1>2, <2>1
    <3>2. k \notin {cuts.dnd.src, cuts.dnd.dst}
      BY <1>2, <1>3, <2>1, <3>1 DEF ClipInv, Dragging
    <3>3. cuts'.dnd = cuts.dnd
      BY <1>8, <1>9, <1>12, <3>2
    <3>4. cuts.dnd.src # NULL => cuts.dnd.data_source # s
      BY <3>1, <3>2 DEF ClipInv, Dragging, k
    <3> QED
      BY <1>13, <3>1, <3>3, <3>4 DEF ClipInv, Dragging
  <2> QED
    BY <2>1 DEF Dragging
<1>20. EndsOnly'
  BY <1>1, <1>13 DEF Running, EndsOnly
<1> QED
  BY <1>14, <1>15, <1>16, <1>17, <1>18, <1>19, <1>20 DEF ClipInv

(* The new selection y is offered, x being the record without the old one.    *)
LEMMA SelectedStep ==
  ASSUME ClipInv, Running, UNCHANGED blame, NEW s \in Sources, Live(cuts, s),
         NEW x \in States, cuts' = selected(x, OwnerOf[s], s),
         x.open = cuts.open, x.windows = cuts.windows, x.focus = cuts.focus,
         x.devices = cuts.devices, x.source = cuts.source, x.dnd = cuts.dnd,
         x.offers = cuts.offers, x.lost = cuts.lost,
         x.holds = cuts.holds \ {cuts.cb.selection} \/
           (x.holds = cuts.holds /\ cuts.cb.selection = NULL),
         blame = {} => x.end = ""
  PROVE  ClipInv'
<1> DEFINE k == OwnerOf[s]
           b == [src |-> k, selection |-> s, kind |-> x.source[s]]
           y == [x EXCEPT !.cb = b, !.holds = @ \cup {s}]
<1>0. k \in Conns
  BY SourceAssumption
<1>1. k \in Conns /\ k # NULL /\ s # NULL /\ k \in cuts.open
  BY <1>0, NullAssumption DEF ClipInv, Typed
<1>2. b \in Selections
  BY <1>1 DEF Selections, Conn0, Source0, Kinds, Live
<1>3. cuts' = broadcast_selection(y)
  BY DEF selected
<1>4. b.selection = s /\ b.src = k /\ b.kind = cuts.source[s]
  OBVIOUS
<1> HIDE DEF b
<1>5. /\ y \in States /\ y.open = x.open /\ y.windows = x.windows
      /\ y.focus = x.focus /\ y.devices = x.devices /\ y.source = x.source
      /\ y.holds = x.holds \cup {s} /\ y.lost = x.lost /\ y.dnd = x.dnd
      /\ y.end = x.end /\ y.offers = x.offers /\ y.cb = b
  BY <1>2 DEF States
<1> HIDE DEF y
<1>6. Live(y, s)
  BY <1>5 DEF Live
<1>7. /\ Tells(y, cuts')
      /\ y.focus # NULL /\ Has(y, y.focus, "wl") => cuts'.told = s
      /\ y.end = "" => cuts'.end = ""
  BY <1>1, <1>3, <1>4, <1>5, <1>6, BroadcastTells
<1>8. /\ cuts' \in States /\ cuts'.open = cuts.open /\ cuts'.windows = cuts.windows
      /\ cuts'.focus = cuts.focus /\ cuts'.devices = cuts.devices
      /\ cuts'.source = cuts.source /\ cuts'.holds = x.holds \cup {s} /\ cuts'.lost = cuts.lost
      /\ cuts'.dnd = cuts.dnd /\ cuts'.cb = b
      /\ \A o \in cuts'.offers \ cuts.offers :
           o.made = "selection" /\ o.data_device = NULL
  BY <1>5, <1>7 DEF Tells, Kept
<1>9. Typed'
  BY <1>1, <1>4, <1>8 DEF ClipInv, Typed, Live
<1>10. Owned'
  BY <1>1, <1>4, <1>8 DEF Owned, Live, k
<1>11. Told'
  <2>1. y.focus = cuts'.focus /\ y.devices = cuts'.devices
    BY <1>5, <1>8
  <2>2. Has(y, y.focus, "wl") = Has(cuts, cuts.focus, "wl")'
    BY <2>1 DEF Has
  <2> QED
    BY <1>4, <1>7, <1>8, <2>1, <2>2 DEF Told
<1>12. Held'
  <2>1. cuts.holds \subseteq Sources
    BY DEF ClipInv, Typed, States
  <2>2. \A t \in cuts.holds \ cuts.lost : t = cuts.cb.selection /\ t # NULL
    BY <2>1, NullAssumption DEF ClipInv, Held
  <2>3. \A t \in (x.holds \cup {s}) \ cuts.lost : t = s
    BY <2>2
  <2> QED
    BY <1>4, <1>8, <2>3 DEF Held
<1>13. EndsOnly'
  BY <1>5, <1>7 DEF EndsOnly
<1>14. Known' /\ Dragging'
  BY <1>8, Untouched DEF ClipInv
<1> QED
  BY <1>9, <1>10, <1>11, <1>12, <1>13, <1>14 DEF ClipInv

LEMMA SetSelectionStep ==
  ASSUME ClipInv, NEW s \in Sources, set_selection(s)
  PROVE  ClipInv'
<1> DEFINE k == OwnerOf[s]
           p == post_to_source(cuts, cuts.cb.src, cuts.cb.selection)
<1>1. /\ cuts \in States /\ Running /\ Live(cuts, s) /\ blame \subseteq blame'
      /\ (cuts.cb.src = NULL) = (cuts.cb.selection = NULL)
  BY DEF ClipInv, Typed, set_selection, Blaming
<1>2. \/ cuts' = End(cuts, "fatal") /\ blame' # {}
      \/ /\ cuts' = selected(IF cuts.cb.src = NULL THEN cuts ELSE cancelled(cuts), k, s)
         /\ blame' = blame
  <2>1. CASE cuts.source[s] = "wl" /\ cuts.cb.src = k
    BY <2>1 DEF set_selection, on_wl_data_device_set_selection, not_implemented, Blaming, Because
  <2>2. CASE ~(cuts.source[s] = "wl" /\ cuts.cb.src = k)
    <3>1. blame' = blame
      BY <2>2 DEF set_selection, Blaming, Because
    <3> QED
      BY <2>2, <3>1 DEF set_selection, on_wl_data_device_set_selection,
         on_ext_data_control_device_v1_set_selection
  <2> QED
    BY <2>1, <2>2
<1>3. CASE cuts' = End(cuts, "fatal") /\ blame' # {}
  <2>1. Same(cuts, cuts')
    BY <1>1, <1>3, EndState DEF Whys
  <2> QED
    BY <1>1, <1>3, <2>1, EventStep DEF EndsOnly
<1>4. CASE cuts.cb.src = NULL /\ cuts' = selected(cuts, k, s) /\ blame' = blame
  BY <1>1, <1>4, SelectedStep DEF Running
<1>5. CASE cuts.cb.src # NULL /\ cuts' = selected(cancelled(cuts), k, s) /\ blame' = blame
  <2> DEFINE x == [p EXCEPT !.holds = @ \ {cuts.cb.selection}]
  <2>1. cancelled(cuts) = x
    BY DEF cancelled
  <2>2. cuts.cb.selection \in Source0
    BY <1>1 DEF States, Selections
  <2>3. /\ p \in States /\ Same(cuts, p)
        /\ cuts.cb.selection # NULL /\ Live(cuts, cuts.cb.selection) /\ cuts.cb.src \in cuts.open
             => p = cuts
    BY <1>1, <2>2, PostSource
  <2>4. blame = {} => p = cuts
    BY <1>1, <1>5, <2>3, Offers DEF Offerable
  <2> HIDE DEF p
  <2>5. /\ x \in States /\ x.open = p.open /\ x.windows = p.windows
        /\ x.focus = p.focus /\ x.devices = p.devices /\ x.source = p.source
        /\ x.holds = p.holds \ {cuts.cb.selection} /\ x.lost = p.lost /\ x.dnd = p.dnd
        /\ x.end = p.end /\ x.offers = p.offers
    BY <2>3 DEF States
  <2> HIDE DEF x
  <2>6. /\ x.open = cuts.open /\ x.windows = cuts.windows /\ x.focus = cuts.focus
        /\ x.devices = cuts.devices /\ x.source = cuts.source /\ x.dnd = cuts.dnd
        /\ x.offers = cuts.offers /\ x.lost = cuts.lost
        /\ x.holds = cuts.holds \ {cuts.cb.selection}
        /\ blame = {} => x.end = ""
    BY <1>1, <2>3, <2>4, <2>5 DEF Same, Kept, Running
  <2>7. cuts' = selected(x, OwnerOf[s], s)
    BY <1>5, <2>1
  <2> QED
    BY <1>1, <1>5, <2>5, <2>6, <2>7, SelectedStep
<1> QED
  BY <1>2, <1>3, <1>4, <1>5

LEMMA NullStep ==
  ASSUME ClipInv, NEW k \in Conns, NEW kind \in Kinds, set_selection_null(k, kind)
  PROVE  ClipInv'
<1>1. Same(cuts, cuts') /\ Running
  BY EndState DEF set_selection_null, ClipInv, Typed, Whys
<1>2. blame \subseteq blame' /\ blame' # {}
  BY DEF set_selection_null, Blaming
<1> QED
  BY <1>1, <1>2, EventStep DEF EndsOnly

LEMMA ReceiveStep ==
  ASSUME ClipInv, NEW o \in cuts.offers, NEW m \in Mimes,
         on_clipboard_offer_receive(o, m)
  PROVE  ClipInv'
<1> DEFINE s == Asked(o, m)
           to == IF s = cuts.dnd.data_source THEN cuts.dnd.src ELSE cuts.cb.src
<1>1. cuts \in States /\ Running /\ UNCHANGED blame
      /\ (cuts.cb.src = NULL) = (cuts.cb.selection = NULL)
  BY DEF ClipInv, Typed, on_clipboard_offer_receive
<1>2. cuts.dnd.data_source \in Source0 /\ cuts.cb.selection \in Source0 /\ o \in Offer
  BY <1>1 DEF States, Drags, Selections
<1>3. s \in Source0 /\ NULL \in Source0
  BY <1>2 DEF Asked, Source0
<1>4. s # NULL => \/ s = cuts.dnd.data_source /\ cuts.dnd.data_offer = o
                  \/ s = cuts.cb.selection
  BY DEF Asked
<1>5. o # NULL
  BY <1>2, NullAssumption
<1>6. cuts' = IF s # NULL THEN post_to_source(cuts, to, s)
              ELSE IF cuts.cb.selection = NULL THEN cuts ELSE Use(cuts, cuts.cb.selection)
  BY DEF on_clipboard_offer_receive
<1> HIDE DEF s
<1>7. Same(cuts, cuts')
  <2>1. Same(cuts, cuts)
    BY <1>1 DEF Same, Kept
  <2>2. Same(cuts, post_to_source(cuts, to, s))
    BY <1>1, <1>3, PostSource
  <2>3. Same(cuts, Use(cuts, cuts.cb.selection))
    BY <1>1, <1>2, UseState
  <2> QED
    BY <1>6, <2>1, <2>2, <2>3
<1>8. ASSUME blame = {} PROVE cuts'.end = ""
  <2>1. cuts.end = ""
    BY <1>1 DEF Running
  <2>2. CASE s # NULL
    <3>1. CASE s = cuts.dnd.data_source /\ cuts.dnd.src # NULL
      <4>1. Live(cuts, s) /\ to \in cuts.open
        BY <1>8, <3>1, Offers
      <4> QED
        BY <1>1, <1>3, <1>6, <2>1, <2>2, <4>1, PostSource
    <3>2. CASE s = cuts.cb.selection /\ ~(s = cuts.dnd.data_source /\ cuts.dnd.src # NULL)
      <4>1. Live(cuts, s) /\ cuts.cb.src \in cuts.open
        BY <1>1, <1>8, <2>2, <3>2, Offers DEF Offerable
      <4>2. CASE s # cuts.dnd.data_source
        BY <1>1, <1>3, <1>6, <2>1, <2>2, <4>1, <4>2, PostSource
      <4>3. CASE s = cuts.dnd.data_source /\ cuts.dnd.src = NULL
        BY <1>8, <2>2, <4>3 DEF ClipInv, Dragging
      <4> QED
        BY <3>2, <4>2, <4>3
    <3>3. cuts.dnd.data_offer = o => cuts.dnd.src # NULL
      BY <1>5, <1>8 DEF ClipInv, Dragging
    <3> QED
      BY <1>4, <2>2, <3>1, <3>2, <3>3
  <2>3. CASE s = NULL
    BY <1>1, <1>2, <1>6, <1>8, <2>1, <2>3, Offers, UseState DEF Offerable
  <2> QED
    BY <2>2, <2>3
<1> QED
  BY <1>1, <1>7, <1>8, EventStep DEF EndsOnly

LEMMA StartDragStep ==
  ASSUME ClipInv, NEW k \in Conns, NEW s \in Source0, wl_data_device_start_drag(k, s)
  PROVE  ClipInv'
<1> DEFINE drag1 == [cuts.drag_of EXCEPT ![k] = IF s = NULL THEN @ ELSE s]
           c == [cuts EXCEPT !.drag_of = drag1]
           dnd1 == [cuts.dnd EXCEPT !.src = k, !.data_source = drag1[k], !.data_device = k]
           d == [c EXCEPT !.dnd = dnd1]
           g == advertise_drag(d, k, "start")
           o == DragOffer(d, k, "start")
           dnd2 == [g.dnd EXCEPT !.data_offer = o, !.dst = k]
           h == [g EXCEPT !.dnd = dnd2]
<1>1. /\ cuts \in States /\ Running
      /\ cuts.dnd \in Drags /\ cuts.drag_of \in [Conns -> Source0]
  BY DEF ClipInv, Typed, wl_data_device_start_drag, States
<1>2. /\ s # NULL => OwnerOf[s] = k /\ cuts.source[s] = "wl"
      /\ blame \subseteq blame'
      /\ blame' = {} => cuts.focus = k /\ s # NULL
  BY DEF wl_data_device_start_drag, Blaming, Because
<1>3. k \in Conn0 /\ k # NULL /\ k # GONE
  BY NullAssumption DEF Conn0
<1>4. /\ drag1 \in [Conns -> Source0] /\ drag1[k] \in Source0
      /\ s # NULL => drag1[k] = s
  BY <1>1
<1>5. cuts' = IF g.end # "" THEN g
              ELSE [g EXCEPT !.dnd.data_offer = o, !.dnd.dst = k]
  <2>1. cuts' = on_wl_data_device_start_drag(
                  [cuts EXCEPT !.drag_of[k] = IF s = NULL THEN @ ELSE s], k)
    BY DEF wl_data_device_start_drag
  <2>2. [cuts EXCEPT !.drag_of[k] = IF s = NULL THEN @ ELSE s] = c
    OBVIOUS
  <2>3. c.drag_of = drag1 /\ c.dnd = cuts.dnd
    BY <1>1, <1>4 DEF States
  <2> HIDE DEF c, drag1
  <2>4. [c EXCEPT !.dnd.src = k, !.dnd.data_source = c.drag_of[k], !.dnd.data_device = k] = d
    BY <1>1, <2>3 DEF Drags
  <2> DEFINE e == [c EXCEPT !.dnd.src = k, !.dnd.data_source = c.drag_of[k],
                            !.dnd.data_device = k]
  <2>5. on_wl_data_device_start_drag(c, k) =
          IF advertise_drag(e, k, "start").end # "" THEN advertise_drag(e, k, "start")
          ELSE [advertise_drag(e, k, "start") EXCEPT
                  !.dnd.data_offer = DragOffer(e, k, "start"), !.dnd.dst = k]
    BY DEF on_wl_data_device_start_drag
  <2>6. e = d
    BY <2>4
  <2> HIDE DEF d, e
  <2> QED
    BY <2>1, <2>2, <2>5, <2>6
<1> HIDE DEF drag1
<1>6. /\ dnd1 \in Drags /\ dnd1.src = k /\ dnd1.data_source = drag1[k]
      /\ dnd1.dst = cuts.dnd.dst
  BY <1>1, <1>3, <1>4 DEF Drags
<1> HIDE DEF dnd1
<1>7. /\ c \in States /\ c.open = cuts.open /\ c.windows = cuts.windows
      /\ c.focus = cuts.focus /\ c.devices = cuts.devices /\ c.source = cuts.source
      /\ c.cb = cuts.cb /\ c.holds = cuts.holds /\ c.lost = cuts.lost
      /\ c.end = cuts.end /\ c.offers = cuts.offers /\ c.told = cuts.told
  BY <1>1, <1>4 DEF States
<1> HIDE DEF c
<1>8. /\ d \in States /\ Kept(c, d) /\ d.focus = c.focus /\ d.end = c.end
      /\ d.offers = c.offers /\ d.told = c.told /\ d.dnd = dnd1
  BY <1>6, <1>7 DEF States, Kept
<1> HIDE DEF d
<1>9. /\ g \in States
      /\ \/ g.end # "" /\ Same(d, g)
         \/ /\ d.dnd.data_source # NULL /\ o \in Offer
            /\ d.end = "" /\ g.end = "" /\ Kept(d, g) /\ g.dnd = d.dnd
            /\ g.focus = d.focus /\ g.told = d.told /\ g.offers = d.offers \cup {o}
      /\ d.end = "" /\ d.dnd.data_source # NULL /\ Live(d, d.dnd.data_source)
           => g.end = ""
  BY <1>8, AdvertiseDrag
<1>10. o.of = drag1[k] /\ o.kind = "wl" /\ o.data_device = k
  BY <1>6, <1>8 DEF DragOffer
<1> HIDE DEF g, o
<1>11. /\ cuts'.cb = cuts.cb /\ cuts'.open = cuts.open /\ cuts'.windows = cuts.windows
       /\ cuts'.source = cuts.source /\ cuts'.focus = cuts.focus
       /\ cuts'.devices = cuts.devices /\ cuts'.told = cuts.told
       /\ cuts'.holds = cuts.holds /\ cuts'.lost = cuts.lost /\ cuts' \in States
       /\ cuts'.end = g.end
       /\ g.end = "" => /\ cuts'.dnd.data_offer = o /\ cuts'.dnd.dst = k
                        /\ cuts'.dnd.src = k /\ cuts'.dnd.data_source = drag1[k]
                        /\ cuts'.offers = cuts.offers \cup {o}
  <2>1. CASE g.end # ""
    BY <1>5, <1>7, <1>8, <1>9, <2>1 DEF Same, Kept
  <2>2. CASE g.end = ""
    <3>1. /\ o \in Offer /\ Kept(d, g) /\ g.dnd = dnd1 /\ g.focus = d.focus
          /\ g.told = d.told /\ g.offers = d.offers \cup {o}
      BY <1>8, <1>9, <2>2
    <3>2. /\ dnd2 \in Drags /\ dnd2.data_offer = o /\ dnd2.dst = k
          /\ dnd2.src = dnd1.src /\ dnd2.data_source = dnd1.data_source
      BY <1>3, <1>6, <3>1 DEF Drags
    <3> HIDE DEF dnd2
    <3>3. /\ h \in States /\ Kept(g, h) /\ h.focus = g.focus /\ h.end = g.end
          /\ h.told = g.told /\ h.offers = g.offers /\ h.dnd = dnd2
      BY <1>9, <3>2 DEF States, Kept
    <3>4. cuts' = h
      <4>1. g.dnd \in Drags
        BY <1>9 DEF States
      <4>2. cuts' = [g EXCEPT !.dnd = [[g.dnd EXCEPT !.data_offer = o] EXCEPT !.dst = k]]
        BY <1>5, <1>9, <2>2 DEF States
      <4> QED
        BY <4>2 DEF dnd2
    <3> HIDE DEF h
    <3>5. /\ cuts'.cb = cuts.cb /\ cuts'.open = cuts.open
          /\ cuts'.windows = cuts.windows /\ cuts'.source = cuts.source
          /\ cuts'.focus = cuts.focus /\ cuts'.devices = cuts.devices
          /\ cuts'.told = cuts.told /\ cuts'.holds = cuts.holds
          /\ cuts'.lost = cuts.lost /\ cuts' \in States /\ cuts'.end = g.end
      BY <1>7, <1>8, <3>1, <3>3, <3>4 DEF Kept
    <3>6. /\ cuts'.dnd.data_offer = o /\ cuts'.dnd.dst = k
          /\ cuts'.dnd.src = k /\ cuts'.dnd.data_source = drag1[k]
          /\ cuts'.offers = cuts.offers \cup {o}
      BY <1>6, <1>7, <1>8, <3>1, <3>2, <3>3, <3>4
    <3> QED
      BY <3>5, <3>6
  <2> QED
    BY <2>1, <2>2
<1>12. blame' = {} => g.end = ""
  <2>1. ASSUME blame' = {} PROVE g.end = ""
    <3>1. s # NULL /\ d.dnd.data_source = s /\ cuts.source[s] = "wl"
      BY <1>2, <1>4, <1>6, <1>8, <2>1
    <3>2. d.source = cuts.source /\ d.end = ""
      BY <1>1, <1>7, <1>8 DEF Kept, Running
    <3> QED
      BY <1>9, <3>1, <3>2 DEF Live
  <2> QED
    BY <2>1
<1>13. Typed'
  BY <1>11 DEF ClipInv, Typed, Live
<1>14. Known'
  BY <1>10, <1>11 DEF Known, Running
<1>15. Dragging'
  <2>1. ASSUME blame' = {} PROVE Dragging'
    <3>1. blame = {} /\ g.end = "" /\ s # NULL /\ s \in Sources
      BY <1>2, <1>12, <2>1 DEF Source0
    <3>2. cuts'.dnd.data_source = s /\ cuts'.dnd.src = k /\ cuts'.dnd.dst = k
          /\ cuts'.focus = k /\ cuts'.source[s] = "wl" /\ OwnerOf[s] = k
      BY <1>2, <1>4, <1>11, <2>1, <3>1
    <3>3. \A x \in cuts'.offers :
            x.data_device # GONE /\ (x.made = "start" => x.data_device # NULL)
      BY <1>3, <1>10, <1>11, <3>1 DEF ClipInv, Dragging
    <3> QED
      BY <1>3, <3>1, <3>2, <3>3 DEF Dragging
  <2> QED
    BY <2>1 DEF Dragging
<1>16. Owned' /\ Told' /\ Held'
  BY <1>2, <1>11, Untouched DEF ClipInv
<1>17. EndsOnly'
  BY <1>11, <1>12 DEF EndsOnly
<1> QED
  BY <1>13, <1>14, <1>15, <1>16, <1>17 DEF ClipInv

LEMMA AcceptStep ==
  ASSUME ClipInv, NEW o \in cuts.offers, on_wl_data_offer_accept(o)
  PROVE  ClipInv'
<1>1. cuts \in States /\ Running /\ UNCHANGED blame /\ o # NULL
  BY NullAssumption DEF ClipInv, Typed, on_wl_data_offer_accept, States
<1>2. cuts.dnd.data_source \in Source0
  BY <1>1 DEF States, Drags
<1>3. cuts' = IF cuts.dnd.data_offer = o
              THEN post_to_source(cuts, cuts.dnd.src, cuts.dnd.data_source) ELSE cuts
  BY DEF on_wl_data_offer_accept
<1>4. Same(cuts, cuts)
  BY <1>1 DEF Same, Kept
<1>5. Same(cuts, cuts')
  BY <1>1, <1>2, <1>3, <1>4, PostSource
<1>6. ASSUME blame = {} PROVE cuts' = cuts
  <2>1. cuts.dnd.data_offer = o => cuts.dnd.src # NULL
    BY <1>1, <1>6 DEF ClipInv, Dragging
  <2> QED
    BY <1>1, <1>2, <1>3, <1>6, <2>1, Offers, PostSource
<1> QED
  BY <1>1, <1>5, <1>6, EventStep DEF EndsOnly, Running

LEMMA ActionsStep ==
  ASSUME ClipInv, NEW o \in cuts.offers, NEW a \in Actions, wl_data_offer_set_actions(o, a)
  PROVE  ClipInv'
<1> DEFINE p == post_to_source(cuts, cuts.dnd.src, cuts.dnd.data_source)
           dnd1 == [p.dnd EXCEPT !.actions = a]
           c == [p EXCEPT !.dnd = dnd1]
<1>1. cuts \in States /\ Running /\ o \in Offer /\ o # NULL
  BY NullAssumption DEF ClipInv, Typed, wl_data_offer_set_actions, States
<1>2. cuts.dnd.data_source \in Source0 /\ {"assert", "freed", "null"} \subseteq Whys
  BY <1>1 DEF States, Drags, Whys
<1>3. /\ blame \subseteq blame'
      /\ blame' = {} => o.made = "start" /\ o = cuts.dnd.data_offer
  BY DEF wl_data_offer_set_actions, NotOfDrag, Blaming, Because
<1>4. \/ o.data_device = NULL /\ cuts' = End(cuts, "assert")
      \/ o.data_device = GONE /\ cuts' = End(cuts, "freed")
      \/ cuts.dnd.data_source = NULL /\ cuts' = End(cuts, "null")
      \/ cuts' = cuts
      \/ cuts' = [p EXCEPT !.dnd.actions = a]
  BY DEF wl_data_offer_set_actions, on_wl_data_offer_set_actions
<1>5. ASSUME blame' = {}
      PROVE  /\ o.data_device \notin {NULL, GONE} /\ cuts.dnd.data_source # NULL
             /\ p = cuts
  <2>1. blame = {} /\ o.made = "start" /\ o = cuts.dnd.data_offer
    BY <1>3, <1>5
  <2>2. o.data_device \notin {NULL, GONE} /\ cuts.dnd.src # NULL
    BY <1>1, <2>1 DEF ClipInv, Dragging
  <2> QED
    BY <1>1, <1>2, <2>1, <2>2, Offers, PostSource
<1>6. CASE cuts' = [p EXCEPT !.dnd.actions = a]
  <2>1. p \in States /\ Same(cuts, p)
    BY <1>1, <1>2, PostSource
  <2>2. p.dnd \in Drags
    BY <2>1 DEF States
  <2>3. cuts' = c
    BY <1>6
  <2>4. p.end = "" \/ blame' # {}
    BY <1>1, <1>5 DEF Running
  <2> HIDE DEF p
  <2>5. /\ dnd1 \in Drags /\ dnd1.src = p.dnd.src /\ dnd1.dst = p.dnd.dst
        /\ dnd1.data_source = p.dnd.data_source /\ dnd1.data_offer = p.dnd.data_offer
    BY <2>2 DEF Drags
  <2> HIDE DEF dnd1
  <2>6. /\ c \in States /\ Kept(p, c) /\ c.focus = p.focus /\ c.end = p.end
        /\ c.told = p.told /\ c.offers = p.offers /\ c.dnd = dnd1
    BY <2>1, <2>5 DEF States, Kept
  <2> HIDE DEF c
  <2>7. Kept(cuts, cuts') /\ cuts'.focus = cuts.focus /\ cuts'.told = cuts.told
        /\ cuts'.offers = cuts.offers
    BY <2>1, <2>3, <2>6 DEF Same, Kept
  <2>8. /\ cuts'.dnd.src = cuts.dnd.src /\ cuts'.dnd.dst = cuts.dnd.dst
        /\ cuts'.dnd.data_source = cuts.dnd.data_source
        /\ cuts'.dnd.data_offer = cuts.dnd.data_offer
    BY <2>1, <2>3, <2>5, <2>6 DEF Same
  <2>9. Typed'
    BY <2>7 DEF ClipInv, Typed, Kept, Live
  <2>10. Known'
    BY <1>1, <2>8 DEF ClipInv, Known
  <2>11. Dragging'
    BY <1>3, <2>7, <2>8 DEF ClipInv, Dragging, Kept
  <2>12. Owned' /\ Told' /\ Held'
    BY <1>3, <2>7, Untouched DEF ClipInv, Kept
  <2>13. EndsOnly'
    BY <2>3, <2>4, <2>6 DEF EndsOnly
  <2> QED
    BY <2>9, <2>10, <2>11, <2>12, <2>13 DEF ClipInv
<1>7. CASE \/ o.data_device = NULL /\ cuts' = End(cuts, "assert")
           \/ o.data_device = GONE /\ cuts' = End(cuts, "freed")
           \/ cuts.dnd.data_source = NULL /\ cuts' = End(cuts, "null")
           \/ cuts' = cuts
  <2>1. Same(cuts, cuts)
    BY <1>1 DEF Same, Kept
  <2>2. Same(cuts, cuts')
    BY <1>1, <1>2, <1>7, <2>1, EndState
  <2>3. EndsOnly'
    BY <1>1, <1>5, <1>7 DEF EndsOnly, Running
  <2> QED
    BY <1>1, <1>3, <2>2, <2>3, EventStep
<1> QED
  BY <1>4, <1>6, <1>7

LEMMA FinishedStep ==
  ASSUME ClipInv, NEW o \in cuts.offers, on_wl_data_offer_finish(o), cuts.dnd.data_offer = o
  PROVE  ClipInv'
<1> DEFINE p == post_to_source(cuts, cuts.dnd.src, cuts.dnd.data_source)
           c == clear_dnd(p, o.conn)
           d == clear_dnd(c, c.dnd.src)
<1>1. /\ cuts \in States /\ Running /\ o \in Offer /\ o # NULL
      /\ cuts.dnd.data_offer = o /\ cuts.dnd.data_source \in Source0
  <2>1. cuts \in States /\ Running /\ cuts.dnd.data_offer = o
    BY DEF ClipInv, Typed, on_wl_data_offer_finish
  <2>2. o \in Offer /\ cuts.dnd \in Drags
    BY <2>1 DEF States
  <2>3. cuts.dnd.data_source \in Source0
    BY <2>2 DEF Drags
  <2> QED
    BY <2>1, <2>2, <2>3, NullAssumption
<1>2. /\ blame \subseteq blame'
      /\ blame' = {} => cuts.dnd.dst \in {NULL, o.conn}
  BY DEF on_wl_data_offer_finish, Blaming, Because
<1>3. cuts' = d
  BY DEF on_wl_data_offer_finish
<1>4. p \in States /\ Same(cuts, p)
  BY <1>1, PostSource
<1>5. blame = {} => p = cuts /\ cuts.dnd.src # NULL /\ cuts.dnd.dst = cuts.dnd.src
  <2>1. blame = {} => cuts.dnd.src # NULL /\ cuts.dnd.dst = cuts.dnd.src
    BY <1>1 DEF ClipInv, Dragging
  <2> QED
    BY <1>1, <2>1, Offers, PostSource
<1> HIDE DEF p
<1>6. /\ Kept(p, c) /\ c.focus = p.focus /\ c.told = p.told
      /\ c.offers = p.offers /\ c.end = p.end
      /\ o.conn \notin {p.dnd.src, p.dnd.dst} => c = p
      /\ o.conn = p.dnd.dst => c.dnd.dst = NULL /\ SameDrag(p, c)
      /\ o.conn # p.dnd.dst /\ o.conn = p.dnd.src =>
           /\ c.dnd.src = NULL /\ c.dnd.data_offer = NULL
           /\ c.dnd.data_source = NULL /\ c.dnd.dst = p.dnd.dst
  BY <1>4, ClearState
<1> HIDE DEF c
<1>7. /\ Kept(c, d) /\ d.focus = c.focus /\ d.told = c.told
      /\ d.offers = c.offers /\ d.end = c.end
      /\ c.dnd.src \notin {c.dnd.src, c.dnd.dst} => d = c
      /\ c.dnd.src = c.dnd.dst => d.dnd.dst = NULL /\ SameDrag(c, d)
      /\ c.dnd.src # c.dnd.dst =>
           /\ d.dnd.src = NULL /\ d.dnd.data_offer = NULL
           /\ d.dnd.data_source = NULL /\ d.dnd.dst = c.dnd.dst
  <2>1. c \in States
    BY <1>6 DEF Kept
  <2> QED
    BY <2>1, ClearState
<1> HIDE DEF d
<1>8. /\ Kept(cuts, cuts') /\ cuts'.focus = cuts.focus /\ cuts'.told = cuts.told
      /\ cuts'.offers = cuts.offers /\ cuts'.end = p.end
  BY <1>3, <1>4, <1>6, <1>7 DEF Kept, Same
<1>9. \/ cuts'.dnd.data_offer = NULL
      \/ /\ cuts'.dnd.data_offer = cuts.dnd.data_offer
         /\ cuts'.dnd.data_source = cuts.dnd.data_source
  BY <1>3, <1>4, <1>6, <1>7 DEF SameDrag, Same
<1>10. Typed'
  BY <1>8 DEF ClipInv, Typed, Kept, Live
<1>11. Known'
  BY <1>1, <1>9 DEF ClipInv, Known
<1>12. Dragging'
  <2>1. ASSUME blame' = {} PROVE Dragging'
    <3>1. blame = {} /\ p = cuts /\ cuts.dnd.src # NULL /\ cuts.dnd.dst = cuts.dnd.src
          /\ o.conn = p.dnd.dst
      BY <1>2, <1>5, <2>1
    <3>2. c.dnd.dst = NULL /\ c.dnd.src # NULL
      BY <1>6, <3>1 DEF SameDrag
    <3>3. /\ cuts'.dnd.src = NULL /\ cuts'.dnd.data_offer = NULL
          /\ cuts'.dnd.data_source = NULL /\ cuts'.dnd.dst = NULL
      BY <1>3, <1>7, <3>2
    <3> QED
      BY <1>8, <3>1, <3>3 DEF ClipInv, Dragging
  <2> QED
    BY <2>1 DEF Dragging
<1>13. Owned' /\ Told' /\ Held'
  BY <1>2, <1>8, Untouched DEF ClipInv, Kept
<1>14. EndsOnly'
  BY <1>1, <1>2, <1>5, <1>8 DEF EndsOnly, Running
<1> QED
  BY <1>10, <1>11, <1>12, <1>13, <1>14 DEF ClipInv

(* An offer that is not the one of the drag is refused, for it was made        *)
(* elsewhere or its drag is over.                                           *)
LEMMA FinishStep ==
  ASSUME ClipInv, NEW o \in cuts.offers, on_wl_data_offer_finish(o)
  PROVE  ClipInv'
<1>1. CASE cuts.dnd.data_offer = o
  BY <1>1, FinishedStep
<1>2. CASE cuts.dnd.data_offer # o
  <2>1. /\ cuts' = End(cuts, "fatal") /\ cuts \in States /\ Running
        /\ blame \subseteq blame' /\ blame' # {}
    BY <1>2 DEF on_wl_data_offer_finish, not_implemented, NotOfDrag, Blaming, Because, ClipInv,
       Typed
  <2>2. Same(cuts, cuts')
    BY <2>1, EndState DEF Whys
  <2> QED
    BY <2>1, <2>2, EventStep DEF EndsOnly
<1> QED
  BY <1>1, <1>2

LEMMA OfferDestroyStep ==
  ASSUME ClipInv, NEW o \in cuts.offers, wl_data_offer_destroy(o)
  PROVE  ClipInv'
<1>1. cuts \in States /\ Running /\ UNCHANGED blame
  BY DEF ClipInv, Typed, wl_data_offer_destroy
<1>2. cuts' = IF o.data_device = GONE THEN End(cuts, "freed")
              ELSE [cuts EXCEPT !.offers = @ \ {o}]
  BY DEF wl_data_offer_destroy
<1>3. CASE o.data_device = GONE
  <2>1. blame # {}
    BY <1>3 DEF ClipInv, Dragging
  <2>2. Same(cuts, cuts')
    BY <1>1, <1>2, <1>3, EndState DEF Whys
  <2> QED
    BY <1>1, <2>1, <2>2, EventStep DEF EndsOnly
<1>4. CASE o.data_device # GONE
  <2>1. /\ cuts' \in States /\ cuts'.open = cuts.open
        /\ cuts'.windows = cuts.windows /\ cuts'.focus = cuts.focus
        /\ cuts'.devices = cuts.devices /\ cuts'.source = cuts.source
        /\ cuts'.cb = cuts.cb /\ cuts'.holds = cuts.holds /\ cuts'.lost = cuts.lost
        /\ cuts'.dnd = cuts.dnd /\ cuts'.end = cuts.end /\ cuts'.told = cuts.told
        /\ cuts'.offers = cuts.offers \ {o}
    BY <1>1, <1>2, <1>4 DEF States
  <2>2. Typed'
    BY <2>1 DEF ClipInv, Typed, Live
  <2>3. Owned' /\ Told' /\ Held' /\ Known' /\ Dragging' /\ EndsOnly'
    BY <1>1, <2>1, Untouched DEF ClipInv, Running
  <2> QED
    BY <2>2, <2>3 DEF ClipInv
<1> QED
  BY <1>3, <1>4

(* The focus goes to w, in the record c with the windows there are by then.   *)
LEMMA FocusStep ==
  ASSUME ClipInv, Running, blame \subseteq blame',
         blame' = {} => cuts.dnd.src = NULL /\ cuts.dnd.dst = NULL,
         NEW w \in Conns, NEW c \in States,
         c.open = cuts.open, c.windows \subseteq c.open, w \in c.windows,
         c.devices = cuts.devices, c.source = cuts.source, c.dnd = cuts.dnd,
         c.cb = cuts.cb, c.offers = cuts.offers, c.lost = cuts.lost,
         c.holds = cuts.holds, blame' = {} => c.end = "",
         cuts' = client_change_focus(c, w)
  PROVE  ClipInv'
<1>1. (c.cb.src = NULL) = (c.cb.selection = NULL)
  BY DEF ClipInv, Typed
<1>2. /\ Refocused(c, cuts', w)
      /\ c.cb.src # NULL /\ Has(c, w, "wl") => cuts'.told = c.cb.selection
      /\ c.end = "" /\ c.dnd.src = NULL /\ c.dnd.dst = NULL /\ Offerable(c)
           => cuts'.end = "" /\ cuts'.dnd = c.dnd
  BY <1>1, ChangeFocusState
<1>3. /\ cuts' \in States /\ cuts'.open = cuts.open /\ cuts'.windows = c.windows
      /\ cuts'.devices = cuts.devices /\ cuts'.source = cuts.source
      /\ cuts'.cb = cuts.cb /\ cuts'.holds = cuts.holds /\ cuts'.lost = cuts.lost
      /\ cuts'.focus = w
      /\ \A x \in cuts'.offers \ cuts.offers : x.made # "start" /\ x.data_device = NULL
      /\ cuts'.dnd.data_offer = cuts.dnd.data_offer
      /\ cuts'.dnd.data_source = cuts.dnd.data_source
  BY <1>2 DEF Refocused, Kept, SameDrag
<1>4. blame' = {} => blame = {} /\ cuts'.end = "" /\ cuts'.dnd = cuts.dnd
  <2>1. Offerable(c) = Offerable(cuts)
    BY DEF Offerable, Live
  <2> QED
    BY <1>2, <2>1, Offers
<1>5. Typed'
  BY <1>3 DEF ClipInv, Typed, Live
<1>6. Told'
  <2>1. Has(c, w, "wl") = Has(cuts, cuts.focus, "wl")'
    BY <1>3 DEF Has
  <2> QED
    BY <1>1, <1>2, <1>3, <2>1 DEF Told
<1>7. Known'
  BY <1>3 DEF ClipInv, Known
<1>8. Dragging'
  BY <1>3, <1>4, NullAssumption DEF ClipInv, Dragging
<1>9. Owned' /\ Held'
  BY <1>3, Untouched DEF ClipInv
<1>10. EndsOnly'
  BY <1>4 DEF EndsOnly
<1> QED
  BY <1>5, <1>6, <1>7, <1>8, <1>9, <1>10 DEF ClipInv

LEMMA MapStep ==
  ASSUME ClipInv, NEW k \in Conns, map_window(k)
  PROVE  ClipInv'
<1> DEFINE c == [cuts EXCEPT !.windows = @ \cup {k}]
<1>1. cuts \in States /\ Running /\ k \in cuts.open /\ cuts.windows \subseteq cuts.open
  BY DEF ClipInv, Typed, map_window
<1>2. blame \subseteq blame' /\ (blame' = {} => cuts.dnd.dst = NULL)
  BY DEF map_window, Blaming, Crossing, Because
<1>3. blame' = {} => cuts.dnd.src = NULL
  BY <1>2 DEF ClipInv, Dragging
<1>4. cuts' = client_change_focus(c, k)
  BY DEF map_window
<1>5. /\ c \in States /\ c.open = cuts.open /\ c.windows = cuts.windows \cup {k}
      /\ c.devices = cuts.devices /\ c.source = cuts.source
      /\ c.cb = cuts.cb /\ c.holds = cuts.holds /\ c.lost = cuts.lost
      /\ c.dnd = cuts.dnd /\ c.end = cuts.end /\ c.offers = cuts.offers
  BY <1>1 DEF States
<1>6. cuts' = client_change_focus(c, k)
  BY <1>4
<1> HIDE DEF c
<1>7. /\ c.windows \subseteq c.open /\ k \in c.windows
      /\ blame' = {} => c.end = ""
  BY <1>1, <1>5 DEF Running
<1> QED
  BY <1>1, <1>2, <1>3, <1>5, <1>6, <1>7, FocusStep

LEMMA CloseStep ==
  ASSUME ClipInv, NEW k \in Conns, client_close(k)
  PROVE  ClipInv'
<1> DEFINE left == cuts.windows \ {k}
           u == IF cuts.focus = k THEN client_unfocus(cuts) ELSE cuts
           c == [u EXCEPT !.windows = left]
<1>1. cuts \in States /\ Running /\ k \in cuts.windows /\ cuts.windows \subseteq cuts.open
      /\ cuts.focus \in cuts.windows \cup {NULL} /\ k # NULL /\ cuts.windows \subseteq Conns
  BY NullAssumption DEF ClipInv, Typed, client_close, States
<1>2. /\ blame \subseteq blame'
      /\ blame' = {} /\ cuts.focus = k => cuts.dnd.src = NULL /\ cuts.dnd.dst = NULL
  BY DEF client_close, Blaming, Crossing, Because
<1>3. \/ (cuts.focus # k \/ left = {}) /\ cuts' = c
      \/ cuts.focus = k /\ \E prev \in left : cuts' = client_change_focus(c, prev)
  BY DEF client_close
<1>4. CASE cuts.focus # k /\ cuts' = [cuts EXCEPT !.windows = left]
  <2>1. /\ cuts' \in States /\ cuts'.open = cuts.open
        /\ cuts'.windows = left /\ cuts'.focus = cuts.focus
        /\ cuts'.devices = cuts.devices /\ cuts'.source = cuts.source
        /\ cuts'.cb = cuts.cb /\ cuts'.holds = cuts.holds /\ cuts'.lost = cuts.lost
        /\ cuts'.dnd = cuts.dnd /\ cuts'.end = cuts.end /\ cuts'.told = cuts.told
        /\ cuts'.offers = cuts.offers
    BY <1>1, <1>4 DEF States
  <2>2. Typed'
    BY <1>1, <1>4, <2>1 DEF ClipInv, Typed, Live
  <2>3. Owned' /\ Told' /\ Held' /\ Known' /\ Dragging' /\ EndsOnly'
    BY <1>1, <1>2, <2>1, Untouched DEF ClipInv, Running
  <2> QED
    BY <2>2, <2>3 DEF ClipInv
<1>5. CASE cuts.focus = k
  <2>1. u = client_unfocus(cuts) /\ cuts.focus # NULL
    BY <1>1, <1>5
  <2> HIDE DEF u, left
  <2>2. /\ Kept(cuts, u) /\ u.focus = NULL /\ u.dnd = cuts.dnd
        /\ u.offers = cuts.offers
        /\ cuts.dnd.dst = NULL => u.end = ""
    BY <1>1, <2>1, UnfocusState DEF Refocused, Running
  <2>3. left \subseteq Conns
    BY <1>1 DEF left
  <2>4. /\ c \in States /\ c.open = u.open /\ c.windows = left
        /\ c.devices = u.devices /\ c.source = u.source /\ c.focus = u.focus
        /\ c.cb = u.cb /\ c.holds = u.holds /\ c.lost = u.lost
        /\ c.dnd = u.dnd /\ c.end = u.end /\ c.offers = u.offers
    BY <2>2, <2>3 DEF States, Kept
  <2>5. blame' = {} => blame = {} /\ c.end = ""
    BY <1>2, <1>5, <2>2, <2>4
  <2>6. CASE cuts' = c
    <3>1. /\ cuts' \in States /\ cuts'.open = cuts.open /\ cuts'.windows = left
          /\ cuts'.devices = cuts.devices /\ cuts'.source = cuts.source
          /\ cuts'.cb = cuts.cb /\ cuts'.holds = cuts.holds /\ cuts'.lost = cuts.lost
          /\ cuts'.focus = NULL /\ cuts'.dnd = cuts.dnd
          /\ cuts'.offers = cuts.offers
      BY <2>2, <2>4, <2>6 DEF Kept
    <3>2. Typed'
      BY <1>1, <3>1 DEF ClipInv, Typed, Live, left
    <3>3. Told'
      BY <3>1 DEF Told
    <3>4. Dragging'
      BY <1>2, <1>5, <2>5, <3>1, NullAssumption DEF ClipInv, Dragging
    <3>5. Owned' /\ Held' /\ Known'
      BY <1>1, <1>2, <3>1, Untouched DEF ClipInv
    <3>6. EndsOnly'
      BY <2>5, <2>6 DEF EndsOnly
    <3> QED
      BY <3>2, <3>3, <3>4, <3>5, <3>6 DEF ClipInv
  <2>7. ASSUME NEW prev \in left, cuts' = client_change_focus(c, prev)
        PROVE  ClipInv'
    <3>1. prev \in Conns /\ left \subseteq cuts.open
      BY <1>1, <2>3 DEF left
    <3>2. /\ c.open = cuts.open /\ c.devices = cuts.devices /\ c.source = cuts.source
          /\ c.dnd = cuts.dnd /\ c.cb = cuts.cb /\ c.offers = cuts.offers
          /\ c.lost = cuts.lost /\ c.holds = cuts.holds
      BY <2>2, <2>4 DEF Kept
    <3> HIDE DEF c
    <3> QED
      BY <1>1, <1>2, <1>5, <2>4, <2>5, <2>7, <3>1, <3>2, FocusStep
  <2> QED
    BY <1>3, <1>5, <2>6, <2>7
<1> QED
  BY <1>3, <1>4, <1>5

LEMMA MovementStep ==
  ASSUME ClipInv, NEW w \in Conns, on_mouse_movement(w)
  PROVE  ClipInv'
<1>1. /\ cuts \in States /\ Running /\ w \in cuts.windows
      /\ cuts.windows \subseteq cuts.open
  BY DEF ClipInv, Typed, on_mouse_movement
<1>2. CASE w # cuts.focus
  <2>1. cuts' = client_change_focus(cuts, w) /\ Blaming(Crossing)
    BY <1>2 DEF on_mouse_movement
  <2>2. blame \subseteq blame' /\ (blame' = {} => cuts.dnd.dst = NULL)
    BY <2>1 DEF Blaming, Crossing, Because
  <2>3. blame' = {} => cuts.dnd.src = NULL
    BY <2>2, NullAssumption DEF ClipInv, Dragging, Typed
  <2>4. blame' = {} => cuts.end = ""
    BY <1>1 DEF Running
  <2> QED
    BY <1>1, <2>1, <2>2, <2>3, <2>4, FocusStep
<1>3. CASE w = cuts.focus
  <2>1. /\ cuts' = post_to_device(cuts, cuts.dnd.dst, w) /\ UNCHANGED blame
        /\ cuts.dnd.dst # NULL
    BY <1>3 DEF on_mouse_movement
  <2>2. /\ Same(cuts, cuts')
        /\ cuts.dnd.dst \in cuts.open /\ cuts.dnd.dst = w => cuts' = cuts
    BY <1>1, <2>1, PostDevice
  <2>3. blame = {} => cuts.dnd.dst = w
    BY <1>3, <2>1 DEF ClipInv, Dragging
  <2>4. EndsOnly'
    BY <1>1, <2>1, <2>2, <2>3 DEF EndsOnly, Running
  <2> QED
    BY <1>1, <2>1, <2>2, <2>4, EventStep
<1> QED
  BY <1>2, <1>3

LEMMA ButtonStep ==
  ASSUME ClipInv, on_mouse_button
  PROVE  ClipInv'
<1> DEFINE g == IF Has(cuts, cuts.focus, "wl") /\ cuts.dnd.dst # NULL
                THEN post_to_device(cuts, cuts.dnd.dst, cuts.focus) ELSE cuts
<1>1. cuts \in States /\ Running /\ cuts.dnd.src # NULL /\ UNCHANGED blame
  BY DEF ClipInv, Typed, on_mouse_button
<1>2. cuts' = IF cuts.focus = NULL THEN End(cuts, "null")
              ELSE post_to_source(g, cuts.dnd.src, cuts.dnd.data_source)
  BY DEF on_mouse_button
<1>3. Same(cuts, cuts)
  BY <1>1 DEF Same, Kept
<1>4. /\ g \in States /\ Same(cuts, g)
      /\ cuts.dnd.dst \in cuts.open /\ cuts.dnd.dst = cuts.focus => g = cuts
  BY <1>1, <1>3, PostDevice
<1> HIDE DEF g
<1>5. cuts.dnd.data_source \in Source0
  <2>1. cuts.dnd \in Drags
    BY <1>1 DEF States
  <2> QED
    BY <2>1 DEF Drags
<1> DEFINE p == post_to_source(g, cuts.dnd.src, cuts.dnd.data_source)
<1>6. /\ Same(g, p)
      /\ /\ cuts.dnd.data_source # NULL /\ Live(g, cuts.dnd.data_source)
         /\ cuts.dnd.src \in g.open
         => p = g
  BY <1>4, <1>5, PostSource
<1> HIDE DEF p
<1>7. Same(cuts, p)
  BY <1>4, <1>6 DEF Same, Kept
<1>8. Same(cuts, cuts')
  <2>1. "null" \in Whys
    BY DEF Whys
  <2> QED
    BY <1>1, <1>2, <1>7, <2>1, EndState DEF p
<1>9. blame = {} => cuts' = cuts
  <2>1. ASSUME blame = {} PROVE cuts' = cuts
    <3>1. /\ cuts.focus # NULL /\ cuts.dnd.dst = cuts.focus /\ cuts.dnd.dst = cuts.dnd.src
      BY <1>1, <2>1 DEF ClipInv, Dragging
    <3>2. /\ Live(cuts, cuts.dnd.data_source) /\ cuts.dnd.src \in cuts.open
          /\ cuts.dnd.data_source # NULL
      BY <1>1, <2>1, Offers
    <3>3. g = cuts
      BY <1>4, <3>1, <3>2
    <3>4. p = cuts
      BY <1>6, <3>2, <3>3
    <3> QED
      BY <1>2, <3>1, <3>4 DEF p
  <2> QED
    BY <2>1
<1>10. EndsOnly'
  BY <1>1, <1>9 DEF EndsOnly, Running
<1> QED
  BY <1>1, <1>8, <1>10, EventStep

-----------------------------------------------------------------------------
LEMMA ClipInvInit == Init => ClipInv
<1> SUFFICES ASSUME Init PROVE ClipInv
  OBVIOUS
<1>1. /\ NULL \in Conn0 /\ NULL \in Source0 /\ NoSelection \in Selections
      /\ NoDrag \in Drags
  BY DEF Conn0, Source0, Selections, Drags, NoSelection, NoDrag
<1>2. /\ cuts \in States /\ cuts.open = Conns /\ cuts.windows = {} /\ cuts.focus = NULL
      /\ cuts.source = [s \in Sources |-> "unborn"] /\ cuts.offers = {}
      /\ cuts.cb = NoSelection /\ cuts.dnd = NoDrag /\ cuts.end = "" /\ cuts.holds = {}
      /\ blame = {}
  BY <1>1 DEF Init, States
<1>3. /\ cuts.cb.src = NULL /\ cuts.cb.selection = NULL
      /\ cuts.dnd.src = NULL /\ cuts.dnd.dst = NULL /\ cuts.dnd.data_offer = NULL
      /\ cuts.dnd.data_source = NULL
  <2>1. NoSelection.src = NULL /\ NoSelection.selection = NULL
    BY DEF NoSelection
  <2>2. /\ NoDrag.src = NULL /\ NoDrag.dst = NULL /\ NoDrag.data_offer = NULL
        /\ NoDrag.data_source = NULL
    BY DEF NoDrag
  <2> QED
    BY <1>2, <2>1, <2>2
<1>4. Typed
  BY <1>2, <1>3 DEF Typed, Live
<1>5. Owned /\ Told /\ Held /\ Known /\ Dragging /\ EndsOnly
  BY <1>2, <1>3 DEF Owned, Told, Held, Known, Dragging, EndsOnly
<1> QED
  BY <1>4, <1>5 DEF ClipInv

LEMMA ClipInvStep == ClipInv /\ [Next]_vars => ClipInv'
<1> SUFFICES ASSUME ClipInv, [Next]_vars PROVE ClipInv'
  OBVIOUS
<1>1. CASE UNCHANGED vars
  BY <1>1 DEF vars, ClipInv, Typed, Owned, Told, Held, Known, Dragging, EndsOnly, Running,
              Live, Has
<1>2. ASSUME NEW k \in Conns,
             \/ c_wl_connection_free(k)
             \/ wl_data_device_manager_get_data_device(k) \/ wl_data_device_release(k)
             \/ ext_data_control_manager_v1_get_data_device(k)
             \/ ext_data_control_device_v1_destroy(k)
             \/ map_window(k) \/ client_close(k) \/ on_mouse_movement(k)
      PROVE  ClipInv'
  BY <1>2, FreeStep, DeviceStep, ReleaseStep, ExtDeviceStep, ExtDestroyStep, MapStep,
     CloseStep, MovementStep
<1>3. ASSUME NEW k \in Conns, NEW kind \in {"wl", "ext"}, set_selection_null(k, kind)
      PROVE  ClipInv'
  BY <1>3, NullStep DEF Kinds
<1>4. ASSUME NEW k \in Conns, NEW s \in Sources \cup {NULL}, wl_data_device_start_drag(k, s)
      PROVE  ClipInv'
  BY <1>4, StartDragStep DEF Source0
<1>5. ASSUME NEW s \in Sources, NEW kind \in KindsOf[s], create_data_source(s, kind)
      PROVE  ClipInv'
  BY <1>5, CreateStep
<1>6. ASSUME NEW s \in Sources,
             \/ set_selection(s)
             \/ wl_data_source_destroy(s) \/ ext_data_control_source_v1_destroy(s)
      PROVE  ClipInv'
  BY <1>6, SetSelectionStep, SourceStep, ExtSourceStep
<1>7. ASSUME NEW o \in cuts.offers, NEW m \in Mimes, on_clipboard_offer_receive(o, m)
      PROVE  ClipInv'
  BY <1>7, ReceiveStep
<1>8. ASSUME NEW o \in cuts.offers,
             \/ on_wl_data_offer_accept(o) \/ on_wl_data_offer_finish(o)
             \/ wl_data_offer_destroy(o)
      PROVE  ClipInv'
  BY <1>8, AcceptStep, FinishStep, OfferDestroyStep
<1>9. ASSUME NEW o \in cuts.offers, NEW a \in Actions, wl_data_offer_set_actions(o, a)
      PROVE  ClipInv'
  BY <1>9, ActionsStep
<1>10. CASE on_mouse_button
  BY <1>10, ButtonStep
<1> QED
  BY <1>1, <1>2, <1>3, <1>4, <1>5, <1>6, <1>7, <1>8, <1>9, <1>10 DEF Next

(* The clipboard keeps its invariant, whatever its clients do.               *)
THEOREM ClipInvCorrect == Spec => []ClipInv
BY ClipInvInit, ClipInvStep, PTL DEF Spec

-----------------------------------------------------------------------------
(* As long as no ext source was destroyed while it was the selection, the     *)
(* selection that set_selection records is a source that exists, that its    *)
(* client made and still can be asked, with the functions of its kind.       *)
THEOREM SelectionOwnedCorrect == Spec => []SelectionOwned
<1>1. ClipInv => SelectionOwned
  BY DEF ClipInv, Typed, Owned, SelectionOwned
<1> QED
  BY <1>1, ClipInvCorrect, PTL

(* The client with the focus was offered the selection there is now, whether  *)
(* it was set while the client had the focus or the focus came afterwards;    *)
(* a device made with the focus is the one exception.                        *)
THEOREM FocusedIsToldCorrect == Spec => []FocusedIsTold
<1>1. ClipInv => FocusedIsTold
  BY DEF ClipInv, Told, FocusedIsTold
<1> QED
  BY <1>1, ClipInvCorrect, PTL

(* As long as the compositor runs, whoever loses the selection to another      *)
(* client or to another source of its own is told, but for a source forgotten  *)
(* when its client destroys another one (cuts.c:1241, cuts.c:1384, cuts.c:1402). *)
THEOREM OneHolderCorrect == Spec => []OneHolder
<1>1. ClipInv => OneHolder
  BY DEF ClipInv, Held, OneHolder
<1> QED
  BY <1>1, ClipInvCorrect, PTL

(* A paste is answered by the source of the offer it is made through: that of *)
(* the drag, or the last one that the client with the focus was made of the   *)
(* selection, though receive looks at the records of the drag and of the     *)
(* selection, and never at the offer's own source.                          *)
THEOREM PasteAsksCorrect == Spec => []PasteAsks
<1>1. ASSUME ClipInv PROVE PasteAsks
  <2> SUFFICES ASSUME Running, NEW o \in cuts.offers, NEW m \in MimesOf[o.of],
                      Asked(o, m) # NULL,
                      \/ o = cuts.dnd.data_offer
                      \/ o.made = "selection" /\ o.kind = "wl" /\ cuts.focus = o.conn
                           /\ cuts.told = o.of /\ Has(cuts, o.conn, "wl")
               PROVE  Asked(o, m) = o.of
    BY DEF PasteAsks
  <2>1. cuts \in States /\ o \in Offer
    BY <1>1 DEF ClipInv, Typed, States
  <2>2. o.of \in Sources /\ o.conn \in Conns /\ o # NULL
    BY <2>1, NullAssumption DEF Offer
  <2>3. Asked(o, m) \in {cuts.dnd.data_source, cuts.cb.selection}
    BY DEF Asked
  <2>4. cuts.dnd.data_offer = o => o.of = cuts.dnd.data_source /\ o.kind = "wl"
    BY <1>1, <2>2 DEF ClipInv, Known
  <2>5. CASE cuts.dnd.data_offer = o
    BY <2>4, <2>5 DEF Asked
  <2>6. CASE cuts.dnd.data_offer # o
    <3>1. Asked(o, m) = cuts.cb.selection /\ cuts.cb.selection # NULL
      BY <2>6 DEF Asked
    <3>2. /\ cuts.focus = o.conn /\ cuts.told = o.of /\ Has(cuts, cuts.focus, "wl")
      BY <2>6
    <3>3. cuts.told \in {cuts.cb.selection, "late"}
      BY <1>1, <2>2, <3>1, <3>2, NullAssumption DEF ClipInv, Told
    <3> QED
      BY <2>2, <3>1, <3>2, <3>3, NullAssumption
  <2> QED
    BY <2>5, <2>6
<1>2. ClipInv => PasteAsks
  BY <1>1
<1> QED
  BY <1>2, ClipInvCorrect, PTL

(* No pointer of cuts.cb or cuts.dnd is followed that is null or dangles, no   *)
(* assertion fails, no event goes to another client's device and no error of a *)
(* listener ends the event loop (server.c:356), unless one of the listed causes *)
(* went before.                                                            *)
THEOREM EndsOnlyCorrect == Spec => []EndsOnly
<1>1. ClipInv => EndsOnly
  BY DEF ClipInv
<1> QED
  BY <1>1, ClipInvCorrect, PTL
=============================================================================
