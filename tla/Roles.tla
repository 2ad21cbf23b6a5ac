-------------------------------- MODULE Roles --------------------------------
(* The structs behind one client's protocol objects (wl_surface, xdg_surface,
   wl_subsurface, layer surface, viewport, popup positioner, wl_output, wl_pointer) as
   a web of counted pointers: every handler that makes, links, unlinks or destroys
   them, in its own order of reads, c_ref and c_unref, and the teardown of a client
   that disconnects, which destroys what is left in the order of its hash buckets.
   Sizes, positions, buffers and the states that commit copies are left out. *)
EXTENDS Naturals, Sequences, FiniteSets, SequencesExt, FiniteSetsExt
CONSTANTS Surfaces, Xdgs, Subs, Layers, Viewports, Positioners, Outputs, Pointers,
          NULL,
          Mixes,         \* bound: how many objects, extra objects and structs a client
                         \* has at a time, as any one of these allows
          MaxKids,       \* bound: entries of a list of children
          MaxCount       \* bound: count of an xdg surface that is given a child
Node == Surfaces \cup Xdgs \cup Subs \cup Layers \cup Viewports \cup Positioners
          \cup Outputs \cup Pointers

(* The counted pointers of each struct. *)
Slot == (Surfaces \X {"xdg_surface", "layer", "subsurface", "viewport", "output"})
          \cup (Xdgs \X {"surface", "parent", "positioner"})
          \cup (Subs \X {"surface", "parent"})
          \cup ((Layers \cup Viewports) \X {"surface"})
(* The types of the objects that hold a struct as their data. *)
Object == (Surfaces \X {"wl_surface", "fractional_scale"})
            \cup (Xdgs \X {"xdg_surface", "toplevel", "popup", "decoration"})
            \cup (Subs \X {"subsurface"}) \cup (Layers \X {"layer"})
            \cup (Viewports \X {"viewport"}) \cup (Positioners \X {"positioner"})
            \cup (Outputs \X {"output"}) \cup (Pointers \X {"pointer", "cursor_shape"})
VARIABLES
  heap,      \* the structs, the objects, and what ended the compositor, if anything
  misuse,    \* history: an object was destroyed before one that the protocol has go
             \* first
  excused    \* history: structs linked in a way whose counts the code does not keep,
             \* and a window that one of them is a popup of since
vars == <<heap, misuse, excused>>

at(n, f) == heap.at[<<n, f>>]
kids(n) == heap.kids[n]
Has(n, t) == <<n, t>> \in heap.objs
Free(n) == heap.count[n] = 0

-----------------------------------------------------------------------------
(* What a handler does to memory, one step at a time. A step through a null pointer
   or to a freed struct ends the compositor. *)
Read(n) == [do |-> "read", n |-> n]
Ref(n) == [do |-> "ref", n |-> n]
Unref(n) == [do |-> "unref", n |-> n]
Set(n, f, v) == [do |-> "set", n |-> n, f |-> f, v |-> v]
Push(n, k) == [do |-> "push", n |-> n, k |-> k]
Drop(n, k) == [do |-> "drop", n |-> n, k |-> k]
FreeList(n, left) == [do |-> "list", n |-> n, left |-> left]
Role(n, r) == [do |-> "role", n |-> n, r |-> r]
Title(n, v) == [do |-> "title", n |-> n, v |-> v]
Sync(n, v) == [do |-> "sync", n |-> n, v |-> v]
Add(n, t) == [do |-> "add", n |-> n, t |-> t]
Needs(n, t) == [do |-> "needs", n |-> n, t |-> t]
Ends(why) == [do |-> "end", why |-> why]

Crash(h, why) == [h EXCEPT !.crash = why]
(* Memory given back is zeroed here, as calloc hands it out again. *)
Freed(h, n) ==
  [h EXCEPT !.count[n] = 0, !.kids[n] = <<>>, !.list[n] = "none", !.role[n] = "none",
            !.title[n] = "none", !.sync[n] = FALSE,
            !.at = [s \in Slot |-> IF s[1] = n THEN NULL ELSE @[s]]]
c_unref(h, n) == IF h.count[n] = 1 THEN Freed(h, n) ELSE [h EXCEPT !.count[n] = @ - 1]

Effect(h, st) ==
  CASE st.do = "read" -> h
    [] st.do = "ref" -> [h EXCEPT !.count[st.n] = @ + 1]
    [] st.do = "unref" -> c_unref(h, st.n)
    [] st.do = "set" -> [h EXCEPT !.at[<<st.n, st.f>>] = st.v]
    [] st.do \in {"push", "drop"} /\ h.list[st.n] = "freed" -> Crash(h, "freed")
    [] st.do = "push" -> [h EXCEPT !.kids[st.n] = Append(@, st.k), !.list[st.n] = "list"]
    [] st.do = "drop" -> [h EXCEPT !.kids[st.n] = RemoveFirst(@, st.k)]
    [] st.do = "list" -> [h EXCEPT !.kids[st.n] = <<>>,
                                   !.list[st.n] = IF @ = "none" THEN @ ELSE st.left]
    [] st.do = "role" -> [h EXCEPT !.role[st.n] = st.r]
    [] st.do = "title" /\ h.title[st.n] = "freed" -> Crash(h, "double free")
    [] st.do = "title" -> [h EXCEPT !.title[st.n] = st.v]
    [] st.do = "sync" -> [h EXCEPT !.sync[st.n] = st.v]
    [] st.do = "needs" -> IF <<st.n, st.t>> \in h.objs THEN h ELSE Crash(h, "freed")
    [] st.do = "add" -> [h EXCEPT !.objs = @ \cup {<<st.n, st.t>>}]

Step(h, st) ==
  IF h.crash # "" THEN h
  ELSE IF st.do = "end" THEN Crash(h, st.why)
  ELSE IF st.n = NULL THEN Crash(h, "null")
  ELSE IF h.count[st.n] = 0 THEN Crash(h, "freed")
  ELSE Effect(h, st)
Run(h, prog) ==
  LET r[i \in 0..Len(prog)] == IF i = 0 THEN h ELSE Step(r[i - 1], prog[i])
  IN r[Len(prog)]
\* Mutant: a client that is closed stays in the list.
KeepsClosed(list, n) == list
Without(list, n) == IF n = NULL THEN list ELSE RemoveFirst(list, n)
(* Done over each entry of a list. *)
ForEach(list, Body(_)) ==
  LET all[i \in 0..Len(list)] == IF i = 0 THEN <<>> ELSE all[i - 1] \o Body(list[i])
  IN all[Len(list)]
When(cond, prog) == IF cond THEN prog ELSE <<>>

(* A new struct with a count of one, and the object that holds it. *)
c_malloc(h, n) == [h EXCEPT !.count[n] = 1]
(* The object goes: its struct loses the count it held. *)
c_wl_object_del(h, n, t) ==
  LET g == Step(h, Unref(n))
  IN IF g.crash # "" THEN g ELSE [g EXCEPT !.objs = @ \ {<<n, t>>}]

-----------------------------------------------------------------------------
Init ==
  /\ heap = [count |-> [n \in Node |-> 0], at |-> [s \in Slot |-> NULL],
             kids |-> [n \in Node |-> <<>>], list |-> [n \in Node |-> "none"],
             role |-> [n \in Node |-> "none"], title |-> [n \in Node |-> "none"],
             sync |-> [n \in Node |-> FALSE], objs |-> {}, clients |-> <<>>, crash |-> ""]
  /\ misuse = FALSE /\ excused = {}

(* A request that is refused changes nothing and is left out. *)
Running == heap.crash = ""
Request(n, t) == Running /\ Has(n, t)
(* The objects that come with a struct of their own and no link, and those that are put
   on a struct which the object of another type has. *)
Plain == (Surfaces \X {"wl_surface"}) \cup (Positioners \X {"positioner"})
           \cup (Outputs \X {"output"}) \cup (Pointers \X {"pointer"})
Second == (Surfaces \X {"fractional_scale"}) \cup (Xdgs \X {"decoration"})
            \cup (Pointers \X {"cursor_shape"})
First == [fractional_scale |-> "wl_surface", decoration |-> "toplevel",
          cursor_shape |-> "pointer"]
Extras == Second \cup ((Layers \cup Viewports \cup Outputs \cup Pointers)
                        \X {"layer", "viewport", "output", "pointer"})
Room(n, t) ==
  LET objs == heap.objs \cup {<<n, t>>}
      used == {m \in Node : ~Free(m)} \cup {n}
  IN \E m \in Mixes :
       /\ Cardinality(objs \cap Extras) <= m.extras
       /\ Cardinality(objs \ Extras) <= m.objects
       /\ Cardinality(used \cap Outputs) <= m.extras
       /\ Cardinality(used \cap Xdgs) <= m.xdgs /\ Cardinality(used \cap Subs) <= m.subs

create(n, t) ==
  /\ Running /\ Free(n) /\ Room(n, t)
  /\ heap' = Run(c_malloc(heap, n), <<Add(n, t)>>)
  /\ UNCHANGED <<misuse, excused>>
wl_compositor_create_surface(s) == create(s, "wl_surface")
xdg_wm_base_create_positioner(q) == create(q, "positioner")
on_wl_output_bind(o) == create(o, "output")
wl_seat_get_pointer(p) == create(p, "pointer")

(* get_fractional_scale (once per surface), get_toplevel_decoration and the cursor shape
   of a pointer. The last two may be made again and again; here one each. *)
create_second(n, t) ==
  /\ Request(n, First[t]) /\ ~Has(n, t) /\ Room(n, t)
  /\ heap' = Run(heap, <<Ref(n), Add(n, t)>>)
  /\ UNCHANGED <<misuse, excused>>

(* The objects whose destructor is nothing but c_wl_object_del (a fractional scale
   first clears the surface's factor). *)
destroy(n, t) ==
  /\ Request(n, t)
  /\ heap' = c_wl_object_del(Run(heap, When(t = "fractional_scale", <<Read(n)>>)), n, t)
  /\ UNCHANGED <<misuse, excused>>

-----------------------------------------------------------------------------
(* client_from_surface: up from a surface through subsurface parents and xdg parents,
   then down the list of clients, newest first. A client is known here by its xdg
   surface or layer surface. *)
Above(s) ==
  LET b == at(s, "subsurface")
      x == at(s, "xdg_surface")
  IN IF b # NULL /\ at(b, "parent") # NULL THEN at(b, "parent")
     ELSE IF x # NULL /\ at(x, "parent") # NULL THEN at(at(x, "parent"), "surface")
     ELSE s
Up(s) ==
  LET up[i \in 0..Cardinality(Surfaces)] ==
        IF i = 0 THEN s ELSE IF up[i - 1] = NULL THEN NULL ELSE Above(up[i - 1])
  IN up
RootOf(s) == Up(s)[Cardinality(Surfaces)]
(* With as many steps as surfaces, a chase that still moves goes round for ever. *)
Chase(s) ==
  ForEach([i \in 1..(Cardinality(Surfaces) + 1) |-> Up(s)[i - 1]],
          LAMBDA u : IF u = NULL THEN <<Read(u)>>
                     ELSE LET x == at(u, "xdg_surface") IN
                          <<Read(u)>> \o When(x # NULL /\ at(x, "parent") # NULL,
                                              <<Read(at(x, "parent"))>>))
    \o When(RootOf(s) # NULL /\ Above(RootOf(s)) # RootOf(s), <<Ends("hang")>>)
SurfaceOf(c) == at(c, "surface")
Matching(s) == {i \in DOMAIN heap.clients : SurfaceOf(heap.clients[i]) = RootOf(s)}
ClientOf(s) ==
  IF s = NULL \/ Matching(s) = {} THEN NULL ELSE heap.clients[Min(Matching(s))]
client_from_surface(s) ==
  IF s = NULL THEN <<>>
  ELSE Chase(s) \o
       ForEach(SubSeq(heap.clients, 1, IF Matching(s) = {} THEN Len(heap.clients)
                                       ELSE Min(Matching(s))),
               LAMBDA c : When(c \in Xdgs, <<Read(c)>>))

(* LAYOUT: the tile layout sends each window a configure, through its xdg surface to
   the xdg_toplevel and xdg_surface objects. *)
LAYOUT(clients) ==
  ForEach(SelectSeq(clients, LAMBDA c : c \in Xdgs),
          LAMBDA x : <<Read(x), Needs(x, "toplevel"), Needs(x, "xdg_surface")>>)

(* The list of clients: one is added at the head, and taken out when it is closed. *)
client_new(h, c) == [h EXCEPT !.clients = <<c>> \o @]
client_close(h, c) == [h EXCEPT !.clients = Without(@, c)]

(* The listeners of the window manager, called after a request, and before a
   destructor. Closing finds the client from the surface. *)
on_xdg_surface_get_toplevel(h, x) == Run(client_new(h, x), LAYOUT(<<x>> \o h.clients))
on_xdg_toplevel_destroy(h, x) ==
  LET c == ClientOf(SurfaceOf(x))
      g == client_close(Run(h, <<Read(x)>> \o client_from_surface(SurfaceOf(x))
                                 \o <<Read(c)>>), c)
  IN Run(g, LAYOUT(g.clients))
on_zwlr_layer_surface_v1_destroy(h, l) ==
  LET c == ClientOf(SurfaceOf(l))
  IN client_close(Run(h, <<Read(l)>> \o client_from_surface(SurfaceOf(l))
                           \o <<Read(c)>>), c)
on_xdg_toplevel_set_title(x) ==
  client_from_surface(SurfaceOf(x))
    \o When(ClientOf(SurfaceOf(x)) = NULL, <<Ends("assert")>>)
(* A surface gets the output of its client when it is first committed. *)
OutputsFor(s) ==
  LET bound == {o \in Outputs : Has(o, "output")}
  IN IF at(s, "output") = NULL /\ bound # {} THEN bound ELSE {NULL}
on_wl_surface_commit(s, o) ==
  client_from_surface(s) \o When(o # NULL, <<Set(s, "output", o), Ref(o)>>)
on_wl_surface_destroy(s) ==
  LET windows == SelectSeq(heap.clients, LAMBDA c : c \in Xdgs)
  IN When(windows # <<>>, <<Read(Head(windows))>>)
       \o When(at(s, "output") # NULL, <<Unref(at(s, "output"))>>)

-----------------------------------------------------------------------------
\* Mutant: the surface is not told of the struct.
LinkOneWay(n, s, f) == <<Set(n, "surface", s), Ref(s), Ref(n), Add(n, f)>>
(* A struct that names a surface and is named by it. *)
Link(n, s, f) ==
  <<Set(n, "surface", s), Ref(s), Set(s, f, n), Ref(n), Add(n, f)>>
(* A client gives a surface one role at a time; the code does not always look. *)
NoRole(s) == \A f \in {"xdg_surface", "layer", "subsurface"} : at(s, f) = NULL

xdg_wm_base_get_xdg_surface(x, s) ==
  /\ Request(s, "wl_surface") /\ Free(x) /\ NoRole(s)
  /\ Room(x, "xdg_surface")
  /\ heap' = Run(c_malloc(heap, x), Link(x, s, "xdg_surface"))
  /\ UNCHANGED <<misuse, excused>>

(* A layer surface does not set the role of its wl_surface. *)
zwlr_layer_shell_v1_get_layer_surface(l, s) ==
  /\ Request(s, "wl_surface") /\ Free(l) /\ NoRole(s)
  /\ heap.role[s] = "none" /\ Room(l, "layer")
  /\ heap' = client_new(Run(c_malloc(heap, l), Link(l, s, "layer")), l)
  /\ UNCHANGED <<misuse, excused>>

wp_viewporter_get_viewport(v, s) ==
  /\ Request(s, "wl_surface") /\ Free(v)
  /\ at(s, "viewport") = NULL /\ Room(v, "viewport")
  /\ heap' = Run(c_malloc(heap, v), Link(v, s, "viewport"))
  /\ UNCHANGED <<misuse, excused>>

wl_subcompositor_get_subsurface(b, s, p) ==
  /\ Request(s, "wl_surface") /\ Has(p, "wl_surface") /\ Free(b)
  /\ s # p /\ NoRole(s) /\ heap.role[s] = "none" /\ Len(kids(p)) < MaxKids
  /\ Room(b, "subsurface")
  /\ heap' = Run(c_malloc(heap, b),
                 <<Sync(b, TRUE), Set(b, "parent", p), Ref(p), Set(s, "subsurface", b),
                   Ref(b), Set(b, "surface", s), Ref(s), Role(s, "subsurface"),
                   Push(p, b), Ref(b), Add(b, "subsurface")>>)
  /\ UNCHANGED <<misuse, excused>>

(* A client that makes a toplevel of what had a parent is left out: the parent left
   behind would be given back once more. *)
xdg_surface_get_toplevel(x) ==
  /\ Request(x, "xdg_surface") /\ Room(x, "toplevel")
  /\ LET s == SurfaceOf(x)
     IN /\ s # NULL => heap.role[s] = "none"
        /\ at(x, "parent") = NULL
        /\ heap' = on_xdg_surface_get_toplevel(
             Run(heap, <<Read(s), Role(s, "toplevel"), Ref(x), Add(x, "toplevel")>>), x)
  /\ UNCHANGED <<misuse, excused>>

xdg_surface_get_popup(x, p, q) ==
  /\ Request(x, "xdg_surface") /\ Has(p, "xdg_surface") /\ Has(q, "positioner")
  /\ Room(x, "popup") /\ Len(kids(p)) < MaxKids
  /\ LET s == SurfaceOf(x) IN
       /\ s # NULL => heap.role[s] = "none"
       /\ heap' = Run(heap, <<Read(s), Role(s, "popup"), Set(x, "parent", p), Ref(p),
                              Set(x, "positioner", q), Ref(q), Push(p, x), Ref(x),
                              Ref(x), Add(x, "popup")>>)
  /\ excused' = excused \cup (IF x \in excused THEN {p} ELSE {})
  /\ UNCHANGED misuse

(* The whole positioner is copied over the pointer to one and over the list of
   children and the parent behind it: what the struct holds is undefined from here. *)
xdg_popup_reposition(x, q) ==
  /\ Request(x, "popup") /\ Has(q, "positioner")
  /\ heap' = Crash(heap, "reposition")
  /\ UNCHANGED <<misuse, excused>>

(* The list of children holds subsurfaces and is searched for a surface; the assertion
   that it was found fails, with a parent or, without one, a null pointer is read. *)
wl_subsurface_place(b, s) ==
  /\ Request(b, "subsurface") /\ Has(s, "wl_surface")
  /\ heap' = Run(heap, <<Read(b), Ends("place")>>)
  /\ UNCHANGED <<misuse, excused>>

xdg_toplevel_set_parent(x, p) ==
  /\ Request(x, "toplevel") /\ Has(p, "toplevel") /\ x # p
  /\ Len(kids(p)) < MaxKids /\ heap.count[p] < MaxCount
  /\ heap' = Run(heap, <<Push(p, x), Ref(x), Set(x, "parent", p), Ref(p)>>)
  /\ excused' = excused \cup ({x, p, at(x, "parent")} \ {NULL})
  /\ UNCHANGED misuse

(* The parent is looked up without a look whether it is there. *)
xdg_toplevel_set_parent_gone(x, p) ==
  /\ Request(x, "toplevel") /\ ~Has(p, "toplevel")
  /\ heap' = Crash(heap, "no parent")
  /\ UNCHANGED <<misuse, excused>>

xdg_toplevel_set_parent_null(x) ==
  /\ Request(x, "toplevel")
  /\ LET p == at(x, "parent") IN
       heap' = Run(heap, When(p # NULL, <<Drop(p, x), Unref(x)>>)
                           \o <<Set(x, "parent", NULL)>>)
  /\ UNCHANGED <<misuse, excused>>

(* The application id is kept and freed in the same way. *)
xdg_toplevel_set_title(x) ==
  /\ Request(x, "toplevel")
  /\ heap' = Run(heap, <<Read(x), Title(x, "set")>> \o on_xdg_toplevel_set_title(x))
  /\ UNCHANGED <<misuse, excused>>

(* The subsurfaces below b, level by level; a level for every subsurface there is means
   that the recursion does not end. *)
Level(b) ==
  LET below(bs) == ForEach(bs, LAMBDA c : IF SurfaceOf(c) = NULL THEN <<>>
                                          ELSE kids(SurfaceOf(c)))
      level[i \in 0..Cardinality(Subs)] == IF i = 0 THEN <<b>> ELSE below(level[i - 1])
  IN level
wl_subsurface_set_sync(b, on) ==
  /\ Request(b, "subsurface")
  /\ heap' = Run(heap,
       When(Level(b)[Cardinality(Subs)] # <<>>, <<Ends("hang")>>)
         \o ForEach([i \in 1..Cardinality(Subs) |-> Level(b)[i - 1]],
              LAMBDA bs : ForEach(bs, LAMBDA c :
                                        <<Read(c), Sync(c, on), Read(SurfaceOf(c))>>)))
  /\ UNCHANGED <<misuse, excused>>

(* c_wl_surface_state_apply *)
Apply(s) ==
  <<Read(s)>> \o (IF s = NULL THEN <<>> ELSE
    ForEach(SelectSeq(<<at(s, "xdg_surface"), at(s, "layer"), at(s, "viewport")>>,
                      LAMBDA n : n # NULL),
            LAMBDA n : <<Read(n)>>))
wl_surface_commit(s) ==
  /\ Request(s, "wl_surface")
  /\ LET b == at(s, "subsurface")
         held == b # NULL /\ heap.sync[b]
     IN \E o \in OutputsFor(s) :
          heap' = Run(heap,
            When(~held, Apply(s) \o ForEach(kids(s), LAMBDA c :
                                      When(heap.sync[c], Apply(SurfaceOf(c)))))
              \o on_wl_surface_commit(s, o))
  /\ UNCHANGED <<misuse, excused>>

-----------------------------------------------------------------------------
(* Destruction, by a request or at the teardown. *)
\* Mutant: the count that the struct held on the surface is not given back.
UnlinksKeeps(s, f) ==
  LET n == at(s, f) IN
  When(n # NULL, <<Set(n, "surface", NULL), Unref(n), Set(s, f, NULL)>>)
Unlinks(s, f) ==
  LET n == at(s, f) IN
  When(n # NULL, <<Set(n, "surface", NULL), Unref(n), Set(s, f, NULL), Unref(s)>>)
wl_surface_destroy(s) ==
  /\ Request(s, "wl_surface")
  /\ heap' = c_wl_object_del(Run(heap,
       on_wl_surface_destroy(s)
         \o Unlinks(s, "layer") \o Unlinks(s, "xdg_surface") \o Unlinks(s, "subsurface")
         \o ForEach(kids(s), LAMBDA c : <<Set(c, "parent", NULL), Unref(c), Unref(s)>>)
         \o <<FreeList(s, "none")>> \o Unlinks(s, "viewport")), s, "wl_surface")
  /\ misuse' = (misuse \/ ~NoRole(s))
  /\ UNCHANGED excused

(* The list of children is freed and the pointer to it stays. *)
xdg_surface_destroy(x) ==
  /\ Request(x, "xdg_surface")
  /\ LET s == SurfaceOf(x)
         q == at(x, "positioner")
     IN heap' = c_wl_object_del(Run(heap,
                ForEach(kids(x), LAMBDA k :
                                   <<Set(k, "parent", NULL), Unref(k), Unref(x)>>)
                  \o <<FreeList(x, "freed")>>
                  \o When(s # NULL, <<Set(s, "xdg_surface", NULL), Unref(s),
                                      Set(x, "surface", NULL), Unref(x)>>)
                  \o When(q # NULL, <<Unref(q), Set(x, "positioner", NULL)>>)),
                x, "xdg_surface")
  /\ misuse' = (misuse \/ Has(x, "toplevel") \/ Has(x, "popup")
                           \/ \E k \in Range(kids(x)) : Has(k, "popup"))
  /\ UNCHANGED excused

xdg_toplevel_destroy(x) ==
  /\ Request(x, "toplevel")
  /\ LET s == SurfaceOf(x)
         p == at(x, "parent")
     IN heap' = c_wl_object_del(Run(on_xdg_toplevel_destroy(heap, x),
          When(p # NULL, <<Drop(p, x), Unref(p)>>)
            \o When(s # NULL, <<Role(s, "none")>>)
            \o <<Title(x, IF heap.title[x] = "none" THEN "none" ELSE "freed")>>),
          x, "toplevel")
  /\ UNCHANGED <<misuse, excused>>

xdg_popup_destroy(x) ==
  /\ Request(x, "popup")
  /\ LET p == at(x, "parent")
         q == at(x, "positioner")
     IN heap' = c_wl_object_del(Run(heap,
          <<Read(x), Role(SurfaceOf(x), "none"), Drop(p, x), Unref(x), Unref(p),
            Unref(q), Set(x, "positioner", NULL)>>), x, "popup")
  /\ UNCHANGED <<misuse, excused>>

zwlr_layer_surface_v1_destroy(l) ==
  /\ Request(l, "layer")
  /\ LET s == SurfaceOf(l)
     IN heap' = c_wl_object_del(Run(on_zwlr_layer_surface_v1_destroy(heap, l),
          <<Read(s), Set(s, "layer", NULL), Unref(s), Set(l, "surface", NULL), Unref(l)>>),
          l, "layer")
  /\ UNCHANGED <<misuse, excused>>

wl_subsurface_destroy(b) ==
  /\ Request(b, "subsurface")
  /\ LET s == SurfaceOf(b)
         p == at(b, "parent")
     IN heap' = c_wl_object_del(Run(heap,
          <<Read(b)>>
            \o When(p # NULL, <<Drop(p, b), Unref(b), Unref(p)>>)
            \o When(s # NULL, <<Role(s, "none"), Set(s, "subsurface", NULL), Unref(s),
                                Unref(b)>>)), b, "subsurface")
  /\ UNCHANGED <<misuse, excused>>

wp_viewport_destroy(v) ==
  /\ Request(v, "viewport")
  /\ LET s == SurfaceOf(v) IN
       heap' = c_wl_object_del(Run(heap,
         <<Read(v)>>
           \o When(s # NULL, <<Set(s, "viewport", NULL), Unref(v), Unref(s)>>)
           \o <<Set(v, "surface", NULL)>>), v, "viewport")
  /\ UNCHANGED <<misuse, excused>>

-----------------------------------------------------------------------------
Requests ==
  \/ \E s \in Surfaces : wl_compositor_create_surface(s)
  \/ \E q \in Positioners : xdg_wm_base_create_positioner(q)
  \/ \E o \in Outputs : on_wl_output_bind(o)
  \/ \E p \in Pointers : wl_seat_get_pointer(p)
  \/ \E o \in Second : create_second(o[1], o[2])
  \/ \E x \in Xdgs, s \in Surfaces : xdg_wm_base_get_xdg_surface(x, s)
  \/ \E l \in Layers, s \in Surfaces : zwlr_layer_shell_v1_get_layer_surface(l, s)
  \/ \E v \in Viewports, s \in Surfaces : wp_viewporter_get_viewport(v, s)
  \/ \E b \in Subs, s, p \in Surfaces : wl_subcompositor_get_subsurface(b, s, p)
  \/ \E x \in Xdgs : \/ xdg_surface_get_toplevel(x) \/ xdg_toplevel_set_title(x)
                     \/ xdg_toplevel_set_parent_null(x)
  \/ \E x, p \in Xdgs : xdg_toplevel_set_parent(x, p) \/ xdg_toplevel_set_parent_gone(x, p)
  \/ \E x, p \in Xdgs, q \in Positioners : xdg_surface_get_popup(x, p, q)
  \/ \E x \in Xdgs, q \in Positioners : xdg_popup_reposition(x, q)
  \/ \E b \in Subs, s \in Surfaces : wl_subsurface_place(b, s)
  \/ \E b \in Subs, on \in BOOLEAN : wl_subsurface_set_sync(b, on)
  \/ \E s \in Surfaces : wl_surface_commit(s)

(* The destructors, each on one object: requests of the client, and all that
   c_wl_connection_free does for one that has gone, with every object left and in an
   order the client's choice of ids decides. *)
Destructors ==
  \/ \E o \in (Plain \cup Second) \ (Surfaces \X {"wl_surface"}) : destroy(o[1], o[2])
  \/ \E s \in Surfaces : wl_surface_destroy(s)
  \/ \E x \in Xdgs : \/ xdg_surface_destroy(x) \/ xdg_toplevel_destroy(x)
                     \/ xdg_popup_destroy(x)
  \/ \E l \in Layers : zwlr_layer_surface_v1_destroy(l)
  \/ \E b \in Subs : wl_subsurface_destroy(b)
  \/ \E v \in Viewports : wp_viewport_destroy(v)

Next == Requests \/ Destructors
Spec == Init /\ [][Next]_vars

-----------------------------------------------------------------------------
TypeOK ==
  /\ heap.count \in [Node -> Nat] /\ heap.at \in [Slot -> Node \cup {NULL}]
  /\ \A n \in Node : heap.kids[n] \in Seq(Node)
  /\ heap.list \in [Node -> {"none", "list", "freed"}]
  /\ heap.role \in [Node -> {"none", "toplevel", "popup", "subsurface"}]
  /\ heap.title \in [Node -> {"none", "set", "freed"}]
  /\ heap.sync \in [Node -> BOOLEAN] /\ heap.objs \subseteq Object
  /\ heap.clients \in Seq(Xdgs \cup Layers)
  /\ heap.crash \in {"", "null", "freed", "hang", "assert", "place", "reposition",
                     "no parent", "double free"}
  /\ misuse \in BOOLEAN
  /\ excused \subseteq Node

(* Two pointers are left behind, without a count: the output of a destroyed wl_surface,
   which nobody reads, and the parent of an xdg surface whose popup or toplevel is
   destroyed, which client_from_surface does read. *)
LeftBehind(sl) ==
  \/ sl[2] = "output" /\ ~Has(sl[1], "wl_surface")
  \/ sl \in Xdgs \X {"parent"} /\ ~Has(sl[1], "popup") /\ ~Has(sl[1], "toplevel")
InUse(sl) == heap.at[sl] # NULL /\ ~LeftBehind(sl)
Holders(n) ==
  Cardinality({o \in heap.objs : o[1] = n})
    + Cardinality({sl \in Slot : InUse(sl) /\ heap.at[sl] = n})
    + Cardinality({<<p, i>> \in Node \X (1..MaxKids) :
                     i \in DOMAIN kids(p) /\ kids(p)[i] = n})
(* The count of a struct (mem.c) is the number of objects, pointers and lists that hold
   it: it is neither freed under one of them nor kept for ever. Every handler takes and
   gives back its counts by hand. *)
CountsExact ==
  Running => \A n \in Node \ excused : heap.count[n] = Holders(n)
(* No struct points to a freed one. *)
PointersLive ==
  Running =>
    \A sl \in Slot : InUse(sl) /\ heap.at[sl] \notin excused => ~Free(heap.at[sl])
(* Two structs that name one another do so both ways, after any order of destruction:
   a surface and its xdg surface, layer surface, subsurface and viewport; a parent and
   each of its children. *)
NamedBothWays ==
  Running =>
    /\ \A sl \in Slot : sl[2] = "surface" /\ heap.at[sl] # NULL
                          /\ {sl[1], heap.at[sl]} \cap excused = {} =>
         \E f \in {"xdg_surface", "layer", "subsurface", "viewport"} :
           <<heap.at[sl], f>> \in Slot /\ at(heap.at[sl], f) = sl[1]
    /\ \A sl \in Slot : sl[2] = "parent" /\ InUse(sl) /\ sl[1] \notin excused =>
         sl[1] \in Range(kids(heap.at[sl]))
    /\ \A p \in Node : \A k \in Range(kids(p)) \ excused : at(k, "parent") = p
(* When the client has gone, in whatever order its objects were destroyed, nothing of
   it is left. *)
EndsClean ==
  Running /\ heap.objs = {} =>
    Range(heap.clients) \subseteq excused /\ \A n \in Node \ excused : Free(n)
(* The heap agrees with what uses it, at every moment and at the end. *)
HeapExact == CountsExact /\ PointersLive /\ EndsClean
(* Apart from the requests that have a crash of their own (a second title, a place among
   the siblings, a reposition, a parent that is not there, a cycle of parents), the
   compositor is only brought down by a client that destroys its objects out of order or
   has a dialog, or by a parent that a popup or toplevel left behind. *)
CrashesOnly ==
  heap.crash \in {"null", "freed", "assert"} =>
    \/ misuse \/ excused # {}
    \/ \E x \in Xdgs : LeftBehind(<<x, "parent">>) /\ at(x, "parent") # NULL
=============================================================================
