------------------------------ MODULE WireProofs ------------------------------
(***************************************************************************)
(* Proofs about the connections of module Wire, for any clients, ids, sizes *)
(* of batches and buffers, and requests.                                   *)
(***************************************************************************)
EXTENDS Wire, TLAPS, FiniteSetTheorems, WellFoundedInduction

(* Induction, in the form of sets.                                         *)
LEMMA LeastNat ==
  ASSUME NEW T \in SUBSET Nat, T # {}
  PROVE  \E n \in T : \A m \in T : n <= m
<1> DEFINE R == {ss \in Nat \X Nat : ss[1] < ss[2]}
<1>1. R = OpToRel(<, Nat)
  BY DEF OpToRel
<1>2. IsWellFoundedOn(R, Nat)
  BY <1>1, NatLessThanWellFounded
<1>3. \E x \in T : \A y \in T : ~(<<y, x>> \in R)
  BY <1>2, WFMin
<1>4. PICK x \in T : \A y \in T : ~(<<y, x>> \in R)
  BY <1>3
<1>5. \A y \in T : ~(y < x)
  BY <1>4
<1> HIDE DEF R
<1> QED
  BY <1>5

LEMMA UpTo ==
  ASSUME NEW n \in Nat, NEW G \in SUBSET (0..n), 0 \in G,
         \A p \in 1..n : p - 1 \in G => p \in G
  PROVE  G = 0..n
<1> SUFFICES ASSUME (0..n) \ G # {} PROVE FALSE
  OBVIOUS
<1>1. (0..n) \ G \in SUBSET Nat
  OBVIOUS
<1>2. PICK m \in (0..n) \ G : \A k \in (0..n) \ G : m <= k
  BY <1>1, LeastNat
<1>3. m \in 1..n /\ m - 1 \in 0..n
  BY <1>2
<1>4. m - 1 \in G
  BY <1>2, <1>3
<1> QED
  BY <1>2, <1>3, <1>4

-----------------------------------------------------------------------------
(* A batch in turn: InTurn is the last of the values a recursive function      *)
(* takes, one for each request.                                            *)

Act(what, x, r) ==
  CASE what = "put_sync" -> put_sync(x, r)
    [] what = "put_other" -> put_other(x, r)
    [] what = "prepare" -> prepare(x, r)
    [] what = "dispatch" -> dispatch(x, r)
    [] what = "answer" -> answer(x, r)

Turn(what, b, batch, f, n) ==
  f = [p \in 0..n |-> IF p = 0 THEN b ELSE Act(what, f[p - 1], batch[p])]

LEMMA TurnExists ==
  ASSUME NEW what, NEW b, NEW batch, NEW n \in Nat
  PROVE  \E f : Turn(what, b, batch, f, n)
<1> DEFINE G == {m \in 0..n : \E f : Turn(what, b, batch, f, m)}
<1>1. 0 \in G
  <2> DEFINE f == [p \in 0..0 |-> b]
  <2>1. f = [p \in 0..0 |-> IF p = 0 THEN b ELSE Act(what, f[p - 1], batch[p])]
    OBVIOUS
  <2> HIDE DEF f
  <2>2. Turn(what, b, batch, f, 0)
    BY <2>1 DEF Turn
  <2> QED
    BY <2>2
<1>2. ASSUME NEW m \in 1..n, m - 1 \in G  PROVE m \in G
  <2>1. PICK f : f = [p \in 0..m - 1 |->
                        IF p = 0 THEN b ELSE Act(what, f[p - 1], batch[p])]
    BY <1>2 DEF Turn
  <2> DEFINE g == [p \in 0..m |-> IF p < m THEN f[p] ELSE Act(what, f[m - 1], batch[m])]
             h == [p \in 0..m |-> IF p = 0 THEN b ELSE Act(what, g[p - 1], batch[p])]
  <2>2. \A p \in 0..m : g[p] = h[p]
    <3> TAKE p \in 0..m
    <3>1. CASE p = m
      BY <3>1
    <3>2. CASE p # m
      <4>1. p \in 0..m - 1 /\ g[p] = f[p]
        BY <3>2
      <4>2. f[p] = IF p = 0 THEN b ELSE Act(what, f[p - 1], batch[p])
        BY <2>1, <4>1
      <4>3. p # 0 => g[p - 1] = f[p - 1]
        BY <4>1
      <4> QED
        BY <4>1, <4>2, <4>3
    <3> QED
      BY <3>1, <3>2
  <2>3. g = h
    BY <2>2
  <2>4. Turn(what, b, batch, g, m)
    BY <2>3 DEF Turn
  <2> QED
    BY <2>4
<1>3. G = 0..n
  <2> HIDE DEF G
  <2>1. G \in SUBSET (0..n)
    BY DEF G
  <2> QED
    BY <1>1, <1>2, <2>1, UpTo
<1> QED
  BY <1>3

TurnOf(what, b, batch) ==
  CHOOSE f : Turn(what, b, batch, f, Len(batch))

LEMMA TurnPicks ==
  ASSUME NEW what, NEW b, NEW batch, Len(batch) \in Nat
  PROVE  /\ TurnOf(what, b, batch)[0] = b
         /\ \A p \in 1..Len(batch) : TurnOf(what, b, batch)[p] =
              Act(what, TurnOf(what, b, batch)[p - 1], batch[p])
<1> DEFINE n == Len(batch)
           f == TurnOf(what, b, batch)
<1>1. \E g : Turn(what, b, batch, g, n)
  BY TurnExists
<1>2. Turn(what, b, batch, f, n)
  BY <1>1 DEF TurnOf
<1> HIDE DEF f
<1>3. f = [p \in 0..n |-> IF p = 0 THEN b ELSE Act(what, f[p - 1], batch[p])]
  BY <1>2 DEF Turn
<1>4. f[0] = b /\ \A p \in 1..n : f[p] = Act(what, f[p - 1], batch[p])
  BY <1>3
<1> QED
  BY <1>4 DEF f

LEMMA SyncsTurn ==
  ASSUME NEW batch, Len(batch) \in Nat
  PROVE  \E f : /\ f[0] = <<>>
                /\ \A p \in 1..Len(batch) : f[p] = put_sync(f[p - 1], batch[p])
                /\ SyncsOf(batch) = f[Len(batch)]
<1> DEFINE f == TurnOf("put_sync", <<>>, batch)
<1>1. SyncsOf(batch) = f[Len(batch)]
  <2>1. \A x, r : put_sync(x, r) = Act("put_sync", x, r)
    BY DEF Act
  <2> QED
    BY <2>1 DEF SyncsOf, InTurn, Turn, TurnOf
<1>2. /\ f[0] = <<>>
      /\ \A p \in 1..Len(batch) : f[p] = Act("put_sync", f[p - 1], batch[p])
  BY TurnPicks
<1> HIDE DEF f
<1>3. \A p \in 1..Len(batch) : f[p] = put_sync(f[p - 1], batch[p])
  BY <1>2 DEF Act
<1> QED
  BY <1>1, <1>2, <1>3

LEMMA OthersTurn ==
  ASSUME NEW batch, Len(batch) \in Nat
  PROVE  \E f : /\ f[0] = <<>>
                /\ \A p \in 1..Len(batch) : f[p] = put_other(f[p - 1], batch[p])
                /\ OthersOf(batch) = f[Len(batch)]
<1> DEFINE f == TurnOf("put_other", <<>>, batch)
<1>1. OthersOf(batch) = f[Len(batch)]
  <2>1. \A x, r : put_other(x, r) = Act("put_other", x, r)
    BY DEF Act
  <2> QED
    BY <2>1 DEF OthersOf, InTurn, Turn, TurnOf
<1>2. /\ f[0] = <<>>
      /\ \A p \in 1..Len(batch) : f[p] = Act("put_other", f[p - 1], batch[p])
  BY TurnPicks
<1> HIDE DEF f
<1>3. \A p \in 1..Len(batch) : f[p] = put_other(f[p - 1], batch[p])
  BY <1>2 DEF Act
<1> QED
  BY <1>1, <1>2, <1>3

LEMMA PreparedTurn ==
  ASSUME NEW k, NEW up, NEW batch, Len(batch) \in Nat
  PROVE  \E f : /\ f[0] = Started(k, up)
                /\ \A p \in 1..Len(batch) : f[p] = prepare(f[p - 1], batch[p])
                /\ Prepared(k, up, batch) = f[Len(batch)]
<1> DEFINE f == TurnOf("prepare", Started(k, up), batch)
<1>1. Prepared(k, up, batch) = f[Len(batch)]
  <2>1. \A x, r : prepare(x, r) = Act("prepare", x, r)
    BY DEF Act
  <2> QED
    BY <2>1 DEF Prepared, InTurn, Turn, TurnOf
<1>2. /\ f[0] = Started(k, up)
      /\ \A p \in 1..Len(batch) : f[p] = Act("prepare", f[p - 1], batch[p])
  BY TurnPicks
<1> HIDE DEF f
<1>3. \A p \in 1..Len(batch) : f[p] = prepare(f[p - 1], batch[p])
  BY <1>2 DEF Act
<1> QED
  BY <1>1, <1>2, <1>3

LEMMA DoneTurn ==
  ASSUME NEW b, NEW batch, Len(batch) \in Nat
  PROVE  \E f : /\ f[0] = b
                /\ \A p \in 1..Len(batch) : f[p] = dispatch(f[p - 1], batch[p])
                /\ Done(b, batch) = f[Len(batch)]
<1> DEFINE f == TurnOf("dispatch", b, batch)
<1>1. Done(b, batch) = f[Len(batch)]
  <2>1. \A x, r : dispatch(x, r) = Act("dispatch", x, r)
    BY DEF Act
  <2> QED
    BY <2>1 DEF Done, InTurn, Turn, TurnOf
<1>2. /\ f[0] = b
      /\ \A p \in 1..Len(batch) : f[p] = Act("dispatch", f[p - 1], batch[p])
  BY TurnPicks
<1> HIDE DEF f
<1>3. \A p \in 1..Len(batch) : f[p] = dispatch(f[p - 1], batch[p])
  BY <1>2 DEF Act
<1> QED
  BY <1>1, <1>2, <1>3

LEMMA AnsweredTurn ==
  ASSUME NEW b, NEW batch, Len(batch) \in Nat
  PROVE  \E f : /\ f[0] = b
                /\ \A p \in 1..Len(batch) : f[p] = answer(f[p - 1], batch[p])
                /\ Answered(b, batch) = f[Len(batch)]
<1> DEFINE f == TurnOf("answer", b, batch)
<1>1. Answered(b, batch) = f[Len(batch)]
  <2>1. \A x, r : answer(x, r) = Act("answer", x, r)
    BY DEF Act
  <2> QED
    BY <2>1 DEF Answered, InTurn, Turn, TurnOf
<1>2. /\ f[0] = b
      /\ \A p \in 1..Len(batch) : f[p] = Act("answer", f[p - 1], batch[p])
  BY TurnPicks
<1> HIDE DEF f
<1>3. \A p \in 1..Len(batch) : f[p] = answer(f[p - 1], batch[p])
  BY <1>2 DEF Act
<1> QED
  BY <1>1, <1>2, <1>3

-----------------------------------------------------------------------------
(* The types, and the operations on a connection.                           *)

ObjectKinds == {"display", "sync", "frame", "object", "offer"}
ObjectT == [id : Int, kind : ObjectKinds, n : Int]
EventT == [op : {"delete_id", "done", "reply", "event", "offer", "error"}, id : Int, n : Int,
           by : Int]
RequestT == [op : Ops, id : ClientIds \cup ServerIds, n : Int]
ConnT == [objects : SUBSET ObjectT, pool : SUBSET Int, buffer : Seq(EventT),
          wire : Seq(EventT)]
BatchT == [k : ConnT, up : BOOLEAN, ret : Int, refused : BOOLEAN, failed : BOOLEAN]
ViewT == [st : {"free", "sync", "frame", "object", "gone"}, n : Int]
Views == [ClientIds -> ViewT]

(* The events under way.                                                    *)
Whole(k) == k.wire \o k.buffer

(* The sequence t goes on where s ends.                                      *)
Extends(s, t) == Len(s) <= Len(t) /\ \A p \in 1..Len(s) : t[p] = s[p]

LEMMA IdsApart ==
  /\ ClientIds \subseteq Int /\ ServerIds \subseteq Int
  /\ ClientIds \cap ServerIds = {} /\ DisplayId \notin ClientIds \cup ServerIds
<1>1. \A i \in ClientIds : i \in Int /\ i > 1
  BY WireAssumption
<1>2. \A i \in ServerIds : i \in Int /\ i < 0
  BY WireAssumption DEF ServerIds, ServerId
<1> QED
  BY <1>1, <1>2 DEF DisplayId

LEMMA KindOf ==
  /\ \A r : Creates(r) <=> r.op \in {"sync", "frame", "create"}
  /\ \A r : Creates(r) => Kinds[r.op] = IF r.op = "create" THEN "object" ELSE r.op
BY DEF Creates, Kinds

LEMMA ConcatAppend ==
  ASSUME NEW S, NEW s \in Seq(S), NEW t \in Seq(S), NEW e \in S
  PROVE  s \o Append(t, e) = Append(s \o t, e)
OBVIOUS

LEMMA ConcatEmpty ==
  ASSUME NEW S, NEW s \in Seq(S)
  PROVE  s \o <<>> = s
OBVIOUS

LEMMA FlushState ==
  ASSUME NEW k \in ConnT, NEW up
  PROVE  /\ flush(k, up) \in ConnT /\ Whole(flush(k, up)) = Whole(k)
         /\ flush(k, up).objects = k.objects /\ flush(k, up).pool = k.pool
<1> DEFINE d == [k EXCEPT !.wire = @ \o k.buffer, !.buffer = <<>>]
<1>1. k.wire \in Seq(EventT) /\ k.buffer \in Seq(EventT)
  BY DEF ConnT
<1>2. k.wire \o k.buffer \in Seq(EventT) /\ <<>> \in Seq(EventT)
  BY <1>1
<1>3. /\ d \in ConnT /\ d.objects = k.objects /\ d.pool = k.pool
      /\ d.wire = k.wire \o k.buffer /\ d.buffer = <<>>
  BY <1>2 DEF ConnT
<1>4. flush(k, up) = d \/ flush(k, up) = k
  BY DEF flush
<1> HIDE DEF d
<1>5. Whole(d) = Whole(k)
  BY <1>2, <1>3, ConcatEmpty DEF Whole
<1> QED
  BY <1>3, <1>4, <1>5

LEMMA PostState ==
  ASSUME NEW k \in ConnT, NEW up, NEW e \in EventT
  PROVE  /\ post(k, up, e) \in ConnT /\ Whole(post(k, up, e)) = Append(Whole(k), e)
         /\ post(k, up, e).objects = k.objects /\ post(k, up, e).pool = k.pool
<1> DEFINE room == IF Len(k.buffer) + 1 >= BUFFER_SIZE THEN flush(k, up) ELSE k
           d == [room EXCEPT !.buffer = Append(@, e)]
<1>1. /\ room \in ConnT /\ Whole(room) = Whole(k)
      /\ room.objects = k.objects /\ room.pool = k.pool
  BY FlushState
<1>2. post(k, up, e) = d
  BY DEF post
<1> HIDE DEF room
<1>3. room.buffer \in Seq(EventT) /\ room.wire \in Seq(EventT)
  BY <1>1 DEF ConnT
<1>4. Append(room.buffer, e) \in Seq(EventT)
  BY <1>3
<1>5. /\ d \in ConnT /\ d.objects = room.objects /\ d.pool = room.pool
      /\ d.wire = room.wire /\ d.buffer = Append(room.buffer, e)
  BY <1>1, <1>4 DEF ConnT
<1> HIDE DEF d
<1>6. Whole(d) = Append(Whole(room), e)
  <2>1. \A s, t \in Seq(EventT) : \A x \in EventT : s \o Append(t, x) = Append(s \o t, x)
    BY ConcatAppend
  <2>2. room.wire \o Append(room.buffer, e) = Append(room.wire \o room.buffer, e)
    BY <1>3, <2>1
  <2> QED
    BY <1>5, <2>2 DEF Whole
<1> QED
  BY <1>1, <1>2, <1>5, <1>6

LEMMA WholeSeq ==
  ASSUME NEW k \in ConnT
  PROVE  Whole(k) \in Seq(EventT)
BY DEF ConnT, Whole

LEMMA Appended ==
  ASSUME NEW S, NEW s \in Seq(S), NEW e \in S
  PROVE  /\ Append(s, e) \in Seq(S) /\ Len(Append(s, e)) = Len(s) + 1 /\ Len(s) \in Nat
         /\ \A p \in 1..Len(s) + 1 : Append(s, e)[p] = IF p = Len(s) + 1 THEN e ELSE s[p]
         /\ Extends(s, Append(s, e))
BY DEF Extends

LEMMA ExtendsAlong ==
  ASSUME NEW S, NEW s \in Seq(S), NEW t \in Seq(S), NEW u \in Seq(S), Extends(s, t),
         Extends(t, u)
  PROVE  Extends(s, u)
BY DEF Extends

LEMMA ObjectFound ==
  ASSUME NEW k, NEW id, Registered(k, id)
  PROVE  ObjectOf(k, id) \in k.objects /\ ObjectOf(k, id).id = id
BY DEF Registered, ObjectOf

LEMMA FreeBit ==
  ASSUME NEW pool
  PROVE  /\ get_free(pool) \in 0..PoolSize - 1
         /\ (0..PoolSize - 1) \ pool # {} => get_free(pool) \notin pool
<1> DEFINE free == 0..PoolSize - 1 \ pool
<1>1. free \in SUBSET Nat
  BY WireAssumption
<1>2. CASE free = {}
  BY <1>2, WireAssumption DEF get_free
<1>3. CASE free # {}
  <2>1. \E n \in free : \A m \in free : n <= m
    BY <1>1, <1>3, LeastNat
  <2>2. get_free(pool) \in free
    BY <1>3, <2>1 DEF get_free
  <2> QED
    BY <2>2
<1> QED
  BY <1>2, <1>3

-----------------------------------------------------------------------------
(* What a connection has in common with its client: w, what the client knows  *)
(* of its ids, and Q, its requests that are not handled yet.                  *)

(* An object has the number of the last object the client made under its id. *)
ObjectsAgree(objs, w) ==
  \A o \in objs :
    /\ o.kind \in {"sync", "frame"} => o.id \in ClientIds
    /\ o.id \in ClientIds =>
         /\ o.n = w[o.id].n /\ w[o.id].st # "free"
         /\ o.kind = "object" => w[o.id].st \in {"object", "gone"}
         /\ o.kind # "object" => w[o.id].st # "object"
         /\ \A q \in objs : q.id = o.id => q = o

(* So has an event.  Nothing of an id comes after its delete_id.             *)
EventsAgree(objs, W, w, Q) ==
  \A p \in 1..Len(W) :
    /\ W[p].op # "delete_id" /\ W[p].id \in ClientIds =>
         W[p].n = w[W[p].id].n /\ w[W[p].id].st # "free"
    /\ W[p].op = "offer" => W[p].id \in ServerIds
    /\ W[p].op = "delete_id" =>
         /\ W[p].id \in ClientIds /\ w[W[p].id].st \notin {"free", "object"}
         /\ \A o \in objs : o.id # W[p].id
         /\ \A r \in Q : r.id # W[p].id
         /\ \A q \in p + 1..Len(W) : W[q].id # W[p].id
    /\ W[p].op = "done" =>
         /\ W[p].id \in ClientIds
         /\ \A r \in Q : r.n > W[p].n
         /\ \A q \in p + 1..Len(W) : W[q].by = 0 \/ W[q].by > W[p].n

(* A creation is the first request that names its id, and the only one unless *)
(* it creates an object; a destruction is the last.                          *)
RequestsAgree(objs, w, Q) ==
  \A r \in Q :
    /\ r.id \in ClientIds => w[r.id].st # "free"
    /\ Creates(r) =>
         /\ r.id \in ClientIds /\ r.n = w[r.id].n
         /\ r.op = "create" => w[r.id].st \in {"object", "gone"}
         /\ r.op # "create" => w[r.id].st # "object"
         /\ \A o \in objs : o.id # r.id
         /\ \A s \in Q : s.id = r.id /\ s # r => r.op = "create" /\ ~Creates(s) /\ s.n > r.n
    /\ ~Creates(r) /\ r.id \in ClientIds =>
         /\ w[r.id].st \in {"object", "gone"}
         /\ \A o \in objs : o.id = r.id => o.kind = "object"
         /\ r.op = "destroy" => /\ w[r.id].st = "gone"
                                /\ \A s \in Q : s.id = r.id => s.n <= r.n
    /\ r.id \in ServerIds => r.op = "destroy"

Agrees(objs, W, w, Q) ==
  ObjectsAgree(objs, w) /\ EventsAgree(objs, W, w, Q) /\ RequestsAgree(objs, w, Q)

(* Every object of the client's is older than the requests to come.          *)
Older(objs, Q) == \A o \in objs : o.id \in ClientIds => \A r \in Q : o.n < r.n

LEMMA FewerAgree ==
  ASSUME NEW objs, NEW objs1 \in SUBSET objs, NEW Q, NEW Q1 \in SUBSET Q, NEW W, NEW w,
         Agrees(objs, W, w, Q)
  PROVE  Agrees(objs1, W, w, Q1)
<1>1. ObjectsAgree(objs1, w)
  BY DEF Agrees, ObjectsAgree
<1>2. EventsAgree(objs1, W, w, Q1)
  BY DEF Agrees, EventsAgree
<1>3. RequestsAgree(objs1, w, Q1)
  BY DEF Agrees, RequestsAgree
<1> QED
  BY <1>1, <1>2, <1>3 DEF Agrees

(* An event is posted.                                                      *)
LEMMA PostAgrees ==
  ASSUME NEW objs, NEW Q, NEW W \in Seq(EventT), NEW w, NEW e \in EventT,
         Agrees(objs, W, w, Q),
         e.op # "delete_id" /\ e.id \in ClientIds => e.n = w[e.id].n /\ w[e.id].st # "free",
         e.op = "offer" => e.id \in ServerIds,
         e.op = "delete_id" =>
           /\ e.id \in ClientIds /\ w[e.id].st \notin {"free", "object"}
           /\ \A o \in objs : o.id # e.id
           /\ \A r \in Q : r.id # e.id,
         e.op = "done" => e.id \in ClientIds /\ \A r \in Q : r.n > e.n,
         \A p \in 1..Len(W) : W[p].op = "delete_id" => W[p].id # e.id,
         e.by = 0 \/ \E r \in Q : e.by = r.n
  PROVE  Agrees(objs, Append(W, e), w, Q)
<1> DEFINE V == Append(W, e)
<1>1. /\ Len(V) = Len(W) + 1 /\ Len(W) \in Nat
      /\ \A p \in 1..Len(W) + 1 : V[p] = IF p = Len(W) + 1 THEN e ELSE W[p]
  OBVIOUS
<1> HIDE DEF V
<1>2. ASSUME NEW p \in 1..Len(V)
      PROVE  /\ V[p].op # "delete_id" /\ V[p].id \in ClientIds =>
                  V[p].n = w[V[p].id].n /\ w[V[p].id].st # "free"
             /\ V[p].op = "offer" => V[p].id \in ServerIds
             /\ V[p].op = "delete_id" =>
                  /\ V[p].id \in ClientIds /\ w[V[p].id].st \notin {"free", "object"}
                  /\ \A o \in objs : o.id # V[p].id
                  /\ \A r \in Q : r.id # V[p].id
                  /\ \A q \in p + 1..Len(V) : V[q].id # V[p].id
             /\ V[p].op = "done" =>
                  /\ V[p].id \in ClientIds
                  /\ \A r \in Q : r.n > V[p].n
                  /\ \A q \in p + 1..Len(V) : V[q].by = 0 \/ V[q].by > V[p].n
  <2>1. CASE p = Len(W) + 1
    <3>1. V[p] = e /\ \A q \in p + 1..Len(V) : FALSE
      BY <1>1, <2>1
    <3> QED
      BY <3>1
  <2>2. CASE p # Len(W) + 1
    <3>1. p \in 1..Len(W) /\ V[p] = W[p]
      BY <1>1, <2>2
    <3>2. \A q \in p + 1..Len(V) : (q \in p + 1..Len(W) /\ V[q] = W[q]) \/ V[q] = e
      BY <1>1, <3>1
    <3>3. W[p].op = "done" => e.by = 0 \/ e.by > W[p].n
      BY <3>1 DEF Agrees, EventsAgree
    <3> QED
      BY <3>1, <3>2, <3>3 DEF Agrees, EventsAgree
  <2> QED
    BY <2>1, <2>2
<1>3. EventsAgree(objs, V, w, Q)
  BY <1>2 DEF EventsAgree
<1> QED
  BY <1>3 DEF Agrees, V

(* The object of a request is added.                                        *)
LEMMA AddAgrees ==
  ASSUME NEW objs, NEW Q, NEW W, NEW w, NEW r \in Q, Creates(r),
         Agrees(objs, W, w, Q)
  PROVE  LET o == Object(r.id, Kinds[r.op], r.n)
         IN  Agrees(objs \cup {o}, W, w, Q \ {r}) /\ ~\E q \in objs : q.id = r.id
<1> DEFINE o == Object(r.id, Kinds[r.op], r.n)
           objs1 == objs \cup {o}
<1>1. o.id = r.id /\ o.n = r.n /\ o.kind = IF r.op = "create" THEN "object" ELSE r.op
  BY KindOf DEF Object
<1>2. r.op = "create" <=> o.kind = "object"
  BY <1>1, KindOf
<1> HIDE DEF o
<1>3. /\ r.id \in ClientIds /\ r.n = w[r.id].n /\ w[r.id].st # "free"
      /\ r.op = "create" => w[r.id].st \in {"object", "gone"}
      /\ r.op # "create" => w[r.id].st # "object"
      /\ \A q \in objs : q.id # r.id
      /\ \A s \in Q : s.id = r.id /\ s # r => r.op = "create" /\ ~Creates(s) /\ s.n > r.n
  BY DEF Agrees, RequestsAgree
<1>4. ObjectsAgree(objs1, w)
  BY <1>1, <1>2, <1>3 DEF Agrees, ObjectsAgree
<1>5. EventsAgree(objs1, W, w, Q \ {r})
  BY <1>1 DEF Agrees, EventsAgree
<1>6. RequestsAgree(objs1, w, Q \ {r})
  BY <1>1, <1>2, <1>3 DEF Agrees, RequestsAgree
<1> QED
  BY <1>3, <1>4, <1>5, <1>6 DEF Agrees, o

-----------------------------------------------------------------------------
(* What object_del and callback_done do.                                    *)

Without(objs, id) == {o \in objs : o.id # id}

(* The id of an object of the client's goes back to it.                      *)
LEMMA GoneAgrees ==
  ASSUME NEW k \in ConnT, NEW up, NEW id \in ClientIds, NEW w, NEW Q,
         Registered(k, id), Agrees(k.objects, Whole(k), w, Q),
         w[id].st # "object", \A r \in Q : r.id # id
  PROVE  /\ object_del(k, up, id) \in ConnT
         /\ Extends(Whole(k), Whole(object_del(k, up, id)))
         /\ object_del(k, up, id).objects = Without(k.objects, id)
         /\ Agrees(Without(k.objects, id), Whole(object_del(k, up, id)), w, Q)
<1> DEFINE o == ObjectOf(k, id)
           e == Event("delete_id", id, o.n, 0)
           d == [k EXCEPT !.objects = map_remove(@, id)]
<1>1. o \in k.objects /\ o.id = id /\ id \notin ServerIds /\ id \in Int
  BY ObjectFound, IdsApart
<1>2. /\ e \in EventT /\ e.op = "delete_id" /\ e.id = id /\ e.by = 0
  <2>1. o \in ObjectT
    BY <1>1 DEF ConnT
  <2> QED
    BY <1>1, <2>1 DEF ObjectT, EventT, Event
<1>3. d \in ConnT /\ d.objects = Without(k.objects, id) /\ Whole(d) = Whole(k)
  BY DEF ConnT, Whole, Without, map_remove
<1>4. object_del(k, up, id) = post(d, up, e)
  BY <1>1 DEF object_del
<1>5. w[id].st # "free" /\ \A p \in 1..Len(Whole(k)) :
                             Whole(k)[p].op = "delete_id" => Whole(k)[p].id # id
  BY <1>1 DEF Agrees, ObjectsAgree, EventsAgree
<1> HIDE DEF o, e, d
<1>6. Agrees(Without(k.objects, id), Whole(k), w, Q)
  BY FewerAgree DEF Without
<1>7. \A q \in Without(k.objects, id) : q.id # id
  BY DEF Without
<1>8. Agrees(Without(k.objects, id), Append(Whole(k), e), w, Q)
  BY <1>2, <1>5, <1>6, <1>7, WholeSeq, PostAgrees
<1>9. /\ post(d, up, e) \in ConnT /\ Whole(post(d, up, e)) = Append(Whole(k), e)
      /\ post(d, up, e).objects = Without(k.objects, id)
  BY <1>2, <1>3, PostState
<1>10. Extends(Whole(k), Append(Whole(k), e))
  BY <1>2, WholeSeq, Appended
<1> QED
  BY <1>4, <1>8, <1>9, <1>10

LEMMA CallbackAgrees ==
  ASSUME NEW k \in ConnT, NEW up, NEW id \in ClientIds, NEW w, NEW Q,
         Agrees(k.objects, Whole(k), w, Q), Older(k.objects, Q),
         NEW x \in k.objects, x.id = id, x.kind # "object"
  PROVE  /\ callback_done(k, up, id) \in ConnT
         /\ Extends(Whole(k), Whole(callback_done(k, up, id)))
         /\ callback_done(k, up, id).objects = Without(k.objects, id)
         /\ Agrees(Without(k.objects, id), Whole(callback_done(k, up, id)), w, Q)
<1> DEFINE o == ObjectOf(k, id)
           e == Event("done", id, o.n, 0)
           d == post(k, up, e)
<1>1. o = x /\ Registered(k, id) /\ id \in Int
  <2>1. Registered(k, id)
    BY DEF Registered
  <2>2. o \in k.objects /\ o.id = id
    BY <2>1, ObjectFound
  <2> QED
    BY <2>1, <2>2, IdsApart DEF Agrees, ObjectsAgree
<1>2. /\ e \in EventT /\ e.op = "done" /\ e.id = id /\ e.by = 0 /\ e.n = x.n
  <2>1. x \in ObjectT
    BY DEF ConnT
  <2> QED
    BY <1>1, <2>1 DEF ObjectT, EventT, Event
<1>3. /\ x.n = w[id].n /\ w[id].st \notin {"free", "object"} /\ \A r \in Q : x.n < r.n
      /\ \A p \in 1..Len(Whole(k)) : Whole(k)[p].op = "delete_id" => Whole(k)[p].id # id
  BY DEF Agrees, ObjectsAgree, EventsAgree, Older
<1>4. \A r \in Q : r.id # id
  BY KindOf DEF Agrees, RequestsAgree
<1>5. callback_done(k, up, id) = object_del(d, up, id)
  BY DEF callback_done
<1> HIDE DEF o, e
<1>6. /\ d \in ConnT /\ Whole(d) = Append(Whole(k), e) /\ d.objects = k.objects
  BY <1>2, PostState
<1> HIDE DEF d
<1>7. \A r \in Q : r.n > e.n
  <2>1. x.n \in Int
    BY DEF ConnT, ObjectT
  <2> QED
    BY <1>2, <1>3 DEF Older
<1>8. Agrees(k.objects, Append(Whole(k), e), w, Q)
  BY <1>2, <1>3, <1>7, WholeSeq, PostAgrees
<1>9. /\ Registered(d, id) /\ Agrees(d.objects, Whole(d), w, Q)
  BY <1>1, <1>6, <1>8 DEF Registered
<1>10. /\ object_del(d, up, id) \in ConnT
       /\ Extends(Whole(d), Whole(object_del(d, up, id)))
       /\ object_del(d, up, id).objects = Without(d.objects, id)
       /\ Agrees(Without(d.objects, id), Whole(object_del(d, up, id)), w, Q)
  BY <1>3, <1>4, <1>6, <1>9, GoneAgrees
<1>11. Extends(Whole(k), Whole(d))
  BY <1>2, <1>6, WholeSeq, Appended
<1>12. Extends(Whole(k), Whole(object_del(d, up, id)))
  BY <1>6, <1>10, <1>11, WholeSeq, ExtendsAlong
<1> QED
  BY <1>5, <1>6, <1>10, <1>12

(* An id of the server's is free at once.                                    *)
LEMMA OfferGone ==
  ASSUME NEW k \in ConnT, NEW up, NEW id \in ServerIds, NEW w, NEW Q,
         Registered(k, id), Agrees(k.objects, Whole(k), w, Q)
  PROVE  /\ object_del(k, up, id) \in ConnT
         /\ Whole(object_del(k, up, id)) = Whole(k)
         /\ object_del(k, up, id).objects = Without(k.objects, id)
         /\ object_del(k, up, id).pool = k.pool \ {-1 - id}
         /\ Agrees(Without(k.objects, id), Whole(k), w, Q)
<1> DEFINE d == [[k EXCEPT !.objects = map_remove(@, id)] EXCEPT !.pool = @ \ {-1 - id}]
<1>1. object_del(k, up, id) = d
  BY DEF object_del
<1>2. /\ d \in ConnT /\ d.objects = Without(k.objects, id) /\ Whole(d) = Whole(k)
      /\ d.pool = k.pool \ {-1 - id}
  BY DEF ConnT, Whole, Without, map_remove
<1> HIDE DEF d
<1>3. Agrees(Without(k.objects, id), Whole(k), w, Q)
  BY FewerAgree DEF Without
<1> QED
  BY <1>1, <1>2, <1>3

-----------------------------------------------------------------------------
(* One request of a batch.                                                  *)

LEMMA BatchStops ==
  ASSUME NEW b \in BatchT, NEW ret \in Int
  PROVE  /\ [b EXCEPT !.ret = ret] \in BatchT
         /\ [b EXCEPT !.ret = ret].k = b.k /\ [b EXCEPT !.ret = ret].up = b.up
         /\ [b EXCEPT !.ret = ret].ret = ret
BY DEF BatchT

LEMMA BatchWrong ==
  ASSUME NEW b \in BatchT
  PROVE  Wrong(b) \in BatchT /\ Wrong(b).k = b.k /\ Wrong(b).up = b.up
<1>1. ASSUME NEW ret \in Int
      PROVE  /\ [b EXCEPT !.ret = ret, !.failed = TRUE] \in BatchT
             /\ [b EXCEPT !.ret = ret, !.failed = TRUE].k = b.k
             /\ [b EXCEPT !.ret = ret, !.failed = TRUE].up = b.up
  BY DEF BatchT
<1>2. DISPATCH_PROTO_ERR \in Int
  BY DEF DISPATCH_PROTO_ERR
<1> QED
  BY <1>1, <1>2 DEF Wrong

LEMMA AddState ==
  ASSUME NEW k \in ConnT, NEW o \in ObjectT
  PROVE  /\ object_add(k, o) \in ConnT /\ object_add(k, o).objects = k.objects \cup {o}
         /\ Whole(object_add(k, o)) = Whole(k) /\ object_add(k, o).pool = k.pool
BY DEF ConnT, object_add, map_set, Whole

LEMMA NewObject ==
  ASSUME NEW r \in RequestT, Creates(r)
  PROVE  /\ Object(r.id, Kinds[r.op], r.n) \in ObjectT
         /\ Object(r.id, Kinds[r.op], r.n).n = r.n
BY KindOf, IdsApart DEF RequestT, ObjectT, Object, ObjectKinds

LEMMA SameExtends ==
  ASSUME NEW W \in Seq(EventT)
  PROVE  Extends(W, W)
BY DEF Extends

(* What remains true of a connection k when it becomes k1 and r is handled.   *)
Handled(k, k1, w, Q, r) ==
  /\ k1 \in ConnT /\ Extends(Whole(k), Whole(k1))
  /\ Agrees(k1.objects, Whole(k1), w, Q \ {r})
  /\ \A o \in k.objects : o.kind = "sync" => o \in k1.objects
  /\ \A o \in k1.objects : o \in k.objects \/ o.n = r.n

LEMMA SameHandled ==
  ASSUME NEW k \in ConnT, NEW w, NEW Q, NEW r, Agrees(k.objects, Whole(k), w, Q)
  PROVE  Handled(k, k, w, Q, r)
<1>1. Agrees(k.objects, Whole(k), w, Q \ {r})
  BY FewerAgree
<1> QED
  BY <1>1, WholeSeq, SameExtends DEF Handled

LEMMA CreateHandled ==
  ASSUME NEW k \in ConnT, NEW w, NEW Q, NEW r \in Q, r \in RequestT, Creates(r),
         Agrees(k.objects, Whole(k), w, Q)
  PROVE  Handled(k, object_add(k, Object(r.id, Kinds[r.op], r.n)), w, Q, r)
<1> DEFINE o == Object(r.id, Kinds[r.op], r.n)
<1>1. o \in ObjectT /\ o.n = r.n
  BY NewObject
<1>2. Agrees(k.objects \cup {o}, Whole(k), w, Q \ {r})
  BY AddAgrees
<1> HIDE DEF o
<1>3. /\ object_add(k, o) \in ConnT /\ object_add(k, o).objects = k.objects \cup {o}
      /\ Whole(object_add(k, o)) = Whole(k)
  BY <1>1, AddState
<1>4. Handled(k, object_add(k, o), w, Q, r)
  BY <1>1, <1>2, <1>3, WholeSeq, SameExtends DEF Handled
<1> QED
  BY <1>4 DEF o

LEMMA DestroyHandled ==
  ASSUME NEW k \in ConnT, NEW up, NEW w, NEW Q \in SUBSET RequestT, NEW r \in Q,
         r.op = "destroy", Registered(k, r.id), Agrees(k.objects, Whole(k), w, Q),
         \A s \in Q \ {r} : s.n > r.n
  PROVE  Handled(k, object_del(k, up, r.id), w, Q, r)
<1> DEFINE k1 == object_del(k, up, r.id)
<1>1. ~Creates(r) /\ r \in RequestT
  BY KindOf
<1>2. CASE r.id \in ClientIds
  <2>1. /\ w[r.id].st = "gone" /\ \A s \in Q : s.id = r.id => s.n <= r.n
        /\ \A o \in k.objects : o.id = r.id => o.kind = "object"
    BY <1>1, <1>2 DEF Agrees, RequestsAgree
  <2>2. \A s \in Q \ {r} : s.id # r.id
    BY <2>1 DEF RequestT
  <2>3. Agrees(k.objects, Whole(k), w, Q \ {r})
    BY FewerAgree
  <2>4. /\ k1 \in ConnT /\ Extends(Whole(k), Whole(k1))
        /\ k1.objects = Without(k.objects, r.id)
        /\ Agrees(Without(k.objects, r.id), Whole(k1), w, Q \ {r})
    BY <1>2, <2>1, <2>2, <2>3, GoneAgrees
  <2> QED
    BY <2>1, <2>4 DEF Handled, Without
<1>3. CASE r.id \in ServerIds
  <2>1. /\ k1 \in ConnT /\ Whole(k1) = Whole(k) /\ k1.objects = Without(k.objects, r.id)
        /\ Agrees(Without(k.objects, r.id), Whole(k), w, Q)
    BY <1>3, OfferGone
  <2>2. Agrees(Without(k.objects, r.id), Whole(k), w, Q \ {r})
    BY <2>1, FewerAgree
  <2>3. \A o \in k.objects : o.kind = "sync" => o.id # r.id
    BY <1>3, IdsApart DEF Agrees, ObjectsAgree
  <2> QED
    BY <2>1, <2>2, <2>3, WholeSeq, SameExtends DEF Handled, Without
<1> QED
  BY <1>1, <1>2, <1>3 DEF RequestT

LEMMA AskHandled ==
  ASSUME NEW k \in ConnT, NEW up, NEW w, NEW Q \in SUBSET RequestT, NEW r \in Q,
         r.op = "ask", Registered(k, r.id), Agrees(k.objects, Whole(k), w, Q)
  PROVE  Handled(k, post(k, up, Event("reply", r.id, ObjectOf(k, r.id).n, r.n)), w, Q, r)
<1> DEFINE o == ObjectOf(k, r.id)
           e == Event("reply", r.id, o.n, r.n)
           k1 == post(k, up, e)
<1>1. o \in k.objects /\ o.id = r.id /\ r \in RequestT /\ r.id \in Int
  BY ObjectFound, IdsApart DEF RequestT
<1>2. /\ e \in EventT /\ e.op = "reply" /\ e.id = r.id /\ e.by = r.n /\ e.n = o.n
  <2>1. o \in ObjectT
    BY <1>1 DEF ConnT
  <2> QED
    BY <1>1, <2>1 DEF ObjectT, EventT, Event, RequestT
<1> HIDE DEF o, e
<1>3. /\ e.id \in ClientIds => e.n = w[e.id].n /\ w[e.id].st # "free"
      /\ \A p \in 1..Len(Whole(k)) : Whole(k)[p].op = "delete_id" => Whole(k)[p].id # e.id
  BY <1>1, <1>2 DEF Agrees, ObjectsAgree, EventsAgree
<1>4. Agrees(k.objects, Append(Whole(k), e), w, Q)
  BY <1>2, <1>3, WholeSeq, PostAgrees
<1>5. /\ k1 \in ConnT /\ Whole(k1) = Append(Whole(k), e) /\ k1.objects = k.objects
  BY <1>2, PostState
<1>6. Agrees(k.objects, Append(Whole(k), e), w, Q \ {r})
  BY <1>4, FewerAgree
<1>7. Extends(Whole(k), Append(Whole(k), e))
  BY <1>2, WholeSeq, Appended
<1>8. Handled(k, k1, w, Q, r)
  BY <1>5, <1>6, <1>7 DEF Handled
<1> QED
  BY <1>8 DEF o, e

LEMMA DispatchHandled ==
  ASSUME NEW b \in BatchT, NEW w, NEW Q \in SUBSET RequestT, NEW r \in Q,
         Agrees(b.k.objects, Whole(b.k), w, Q), \A s \in Q \ {r} : s.n > r.n
  PROVE  /\ dispatch(b, r) \in BatchT /\ dispatch(b, r).up = b.up
         /\ Handled(b.k, dispatch(b, r).k, w, Q, r)
<1>1. r \in RequestT /\ b.k \in ConnT /\ Handled(b.k, b.k, w, Q, r)
  BY SameHandled DEF BatchT
<1>2. CASE Stopped(b)
  BY <1>1, <1>2 DEF dispatch
<1>3. CASE ~Stopped(b) /\ (Creates(r) <=> Registered(b.k, r.id))
  <2>1. dispatch(b, r) = Wrong(b)
    BY <1>3 DEF dispatch, handle
  <2> QED
    BY <1>1, <2>1, BatchWrong
<1>4. CASE ~Stopped(b) /\ Creates(r) /\ ~Registered(b.k, r.id)
  <2> DEFINE k1 == object_add(b.k, Object(r.id, Kinds[r.op], r.n))
             d == [b EXCEPT !.k = k1, !.ret = OK]
  <2>1. Handled(b.k, k1, w, Q, r)
    BY <1>1, <1>4, CreateHandled
  <2>2. dispatch(b, r) = d
    <3>1. dispatch(b, r) = handle(b, r)
      BY <1>4 DEF dispatch
    <3>2. Creates(r) /\ ~(Creates(r) <=> Registered(b.k, r.id))
      BY <1>4
    <3> QED
      BY <3>1, <3>2, KindOf DEF handle
  <2> HIDE DEF k1
  <2>3. d \in BatchT /\ d.k = k1 /\ d.up = b.up
    <3>1. k1 \in ConnT /\ OK \in Int
      BY <2>1 DEF Handled, OK
    <3> QED
      BY <3>1 DEF BatchT
  <2> HIDE DEF d
  <2> QED
    BY <2>1, <2>2, <2>3
<1>5. CASE ~Stopped(b) /\ Registered(b.k, r.id) /\ r.op = "destroy"
  <2> DEFINE k1 == object_del(b.k, b.up, r.id)
             d == [b EXCEPT !.k = k1, !.ret = OK]
  <2>1. Handled(b.k, k1, w, Q, r)
    BY <1>1, <1>5, DestroyHandled
  <2>2. dispatch(b, r) = d
    BY <1>5, KindOf DEF dispatch, handle
  <2> HIDE DEF k1
  <2>3. d \in BatchT /\ d.k = k1 /\ d.up = b.up
    <3>1. k1 \in ConnT /\ OK \in Int
      BY <2>1 DEF Handled, OK
    <3> QED
      BY <3>1 DEF BatchT
  <2> HIDE DEF d
  <2> QED
    BY <2>1, <2>2, <2>3
<1>6. CASE ~Stopped(b) /\ Registered(b.k, r.id) /\ r.op = "ask"
  <2> DEFINE k1 == post(b.k, b.up, Event("reply", r.id, ObjectOf(b.k, r.id).n, r.n))
             d == [b EXCEPT !.k = k1, !.ret = OK]
  <2>1. Handled(b.k, k1, w, Q, r)
    BY <1>1, <1>6, AskHandled
  <2>2. dispatch(b, r) = d
    BY <1>6, KindOf DEF dispatch, handle
  <2> HIDE DEF k1
  <2>3. d \in BatchT /\ d.k = k1 /\ d.up = b.up
    <3>1. k1 \in ConnT /\ OK \in Int
      BY <2>1 DEF Handled, OK
    <3> QED
      BY <3>1 DEF BatchT
  <2> HIDE DEF d
  <2> QED
    BY <2>1, <2>2, <2>3
<1>7. CASE ~Stopped(b) /\ Registered(b.k, r.id) /\ r.op \in {"ignored", "bad", "missing"}
  <2>1. \/ dispatch(b, r) = [b EXCEPT !.ret = 1]
        \/ dispatch(b, r) = [b EXCEPT !.ret = DISPATCH_PROTO_ERR, !.refused = TRUE]
        \/ dispatch(b, r) = [b EXCEPT !.ret = DISPATCH_FATAL_ERR]
    BY <1>7, KindOf DEF dispatch, handle
  <2>2. 1 \in Int /\ DISPATCH_PROTO_ERR \in Int /\ DISPATCH_FATAL_ERR \in Int
    BY DEF DISPATCH_PROTO_ERR, DISPATCH_FATAL_ERR
  <2>3. dispatch(b, r) \in BatchT /\ dispatch(b, r).k = b.k /\ dispatch(b, r).up = b.up
    <3>1. CASE dispatch(b, r) = [b EXCEPT !.ret = 1]
      BY <2>2, <3>1 DEF BatchT
    <3>2. CASE dispatch(b, r) = [b EXCEPT !.ret = DISPATCH_PROTO_ERR, !.refused = TRUE]
      BY <2>2, <3>2 DEF BatchT
    <3>3. CASE dispatch(b, r) = [b EXCEPT !.ret = DISPATCH_FATAL_ERR]
      BY <2>2, <3>3 DEF BatchT
    <3> QED
      BY <2>1, <3>1, <3>2, <3>3
  <2> QED
    BY <1>1, <2>3
<1>8. r.op \in {"destroy", "ask", "ignored", "bad", "missing"} \/ Creates(r)
  BY <1>1, KindOf, WireAssumption DEF RequestT
<1> QED
  BY <1>2, <1>3, <1>4, <1>5, <1>6, <1>7, <1>8

LEMMA PrepareHandled ==
  ASSUME NEW b \in BatchT, b.ret = OK, NEW w, NEW Q, NEW r \in Q, r \in RequestT,
         r.op = "sync", Agrees(b.k.objects, Whole(b.k), w, Q)
  PROVE  /\ prepare(b, r) \in BatchT /\ prepare(b, r).ret = OK
         /\ Handled(b.k, prepare(b, r).k, w, Q, r)
         /\ Object(r.id, "sync", r.n) \in prepare(b, r).k.objects
<1> DEFINE o == Object(r.id, "sync", r.n)
           k1 == object_add(b.k, o)
           d == [b EXCEPT !.k = k1]
<1>1. b.k \in ConnT /\ Creates(r) /\ Kinds[r.op] = "sync"
  BY KindOf DEF BatchT
<1>2. ~Registered(b.k, r.id)
  BY <1>1, AddAgrees DEF Registered
<1>3. ~Stopped(b)
  BY DEF Stopped, OK, DISPATCH_PROTO_ERR, DISPATCH_FATAL_ERR
<1>4. prepare(b, r) = d
  BY <1>2, <1>3 DEF prepare
<1>5. Handled(b.k, k1, w, Q, r)
  BY <1>1, CreateHandled
<1>6. o \in k1.objects
  BY <1>1, NewObject, AddState
<1> HIDE DEF k1, o
<1>7. d \in BatchT /\ d.k = k1 /\ d.ret = OK
  BY <1>5 DEF Handled, BatchT
<1> HIDE DEF d
<1>8. o \in d.k.objects
  BY <1>6, <1>7
<1> QED
  BY <1>4, <1>5, <1>7, <1>8 DEF o

LEMMA AnswerAgrees ==
  ASSUME NEW b \in BatchT, NEW w, NEW Q, NEW r, r.id \in ClientIds,
         Agrees(b.k.objects, Whole(b.k), w, Q), Older(b.k.objects, Q),
         Object(r.id, "sync", r.n) \in b.k.objects
  PROVE  /\ answer(b, r) \in BatchT
         /\ Extends(Whole(b.k), Whole(answer(b, r).k))
         /\ Agrees(answer(b, r).k.objects, Whole(answer(b, r).k), w, Q)
         /\ answer(b, r).k.objects \subseteq b.k.objects
         /\ \A o \in b.k.objects : o.id # r.id => o \in answer(b, r).k.objects
<1>1. b.k \in ConnT
  BY DEF BatchT
<1>2. CASE answer(b, r) = b
  BY <1>1, <1>2, WholeSeq, SameExtends
<1>3. CASE answer(b, r) # b
  <2> DEFINE x == Object(r.id, "sync", r.n)
             k1 == callback_done(b.k, b.up, r.id)
             d == [b EXCEPT !.k = k1]
  <2>1. answer(b, r) = d
    BY <1>3 DEF answer
  <2>2. x.id = r.id /\ x.kind # "object"
    BY DEF Object
  <2> HIDE DEF x
  <2>3. x \in b.k.objects
    BY DEF x
  <2>4. /\ k1 \in ConnT /\ Extends(Whole(b.k), Whole(k1))
        /\ k1.objects = Without(b.k.objects, r.id)
        /\ Agrees(Without(b.k.objects, r.id), Whole(k1), w, Q)
    BY <1>1, <2>2, <2>3, CallbackAgrees
  <2> HIDE DEF k1
  <2>5. d \in BatchT /\ d.k = k1
    BY <2>4 DEF BatchT
  <2> HIDE DEF d
  <2> QED
    BY <2>1, <2>4, <2>5 DEF Without
<1> QED
  BY <1>2, <1>3

-----------------------------------------------------------------------------
(* Where the ids are: f, the server's objects the client knows.              *)

(* An id of the server's is in the table, in the pool, and once at most in    *)
(* what the client knows, in an offer under way or in a request.             *)
OffersAgree(k, f, Q) ==
  /\ IsFiniteSet(k.objects) /\ f \subseteq ServerIds
  /\ k.pool = {n \in 0..PoolSize - 1 : Registered(k, ServerId(n))}
  /\ \A o \in k.objects : o.id \in ServerIds <=> o.kind = "offer"
  /\ \A r \in Q : r.id \in ServerIds => r.id \notin f /\ \A s \in Q : s.id = r.id => s = r
  /\ \A p \in 1..Len(Whole(k)) : Whole(k)[p].op = "offer" =>
       /\ Whole(k)[p].id \in ServerIds \ f
       /\ \A r \in Q : r.id # Whole(k)[p].id
       /\ \A q \in p + 1..Len(Whole(k)) :
            Whole(k)[q].op = "offer" => Whole(k)[q].id # Whole(k)[p].id

(* What the client knows, has been sent or destroys is in the table.         *)
OffersLive(k, f, Q) ==
  /\ \A i \in f : Registered(k, i)
  /\ \A r \in Q : r.id \in ServerIds => Registered(k, r.id)
  /\ \A p \in 1..Len(Whole(k)) : Whole(k)[p].op = "offer" => Registered(k, Whole(k)[p].id)

Deleted(k, i) == \E p \in 1..Len(Whole(k)) : Whole(k)[p].op = "delete_id" /\ Whole(k)[p].id = i

(* An id of the client's is free, or in a request that creates its object, or *)
(* in the table, or in a delete_id; what a request names is there or to come. *)
Accounted(k, w, Q) ==
  /\ \A i \in ClientIds : \/ w[i].st = "free" \/ Registered(k, i) \/ Deleted(k, i)
                          \/ \E r \in Q : Creates(r) /\ r.id = i
  /\ \A r \in Q : ~Creates(r) /\ r.id \in ClientIds =>
       Registered(k, r.id) \/ \E s \in Q : Creates(s) /\ s.id = r.id

(* No event of t that is not in s is an offer.                               *)
OffersKept(s, t) ==
  \A p \in 1..Len(t) : t[p].op = "offer" => p \in 1..Len(s) /\ t[p] = s[p]

LEMMA AppendKeeps ==
  ASSUME NEW s \in Seq(EventT), NEW e \in EventT, e.op # "offer"
  PROVE  OffersKept(s, Append(s, e))
BY DEF OffersKept

LEMMA SameKept ==
  ASSUME NEW s
  PROVE  OffersKept(s, s)
BY DEF OffersKept

(* The objects of the server's, and the offers under way, stay as they are.   *)
LEMMA QuietOffers ==
  ASSUME NEW k, NEW k1 \in ConnT, NEW f, NEW Q, NEW Q1 \in SUBSET Q,
         OffersAgree(k, f, Q), k1.pool = k.pool, IsFiniteSet(k1.objects),
         \A o \in k1.objects : o \in k.objects \/ (o.id \notin ServerIds /\ o.kind # "offer"),
         \A o \in k.objects : o.id \in ServerIds => o \in k1.objects,
         OffersKept(Whole(k), Whole(k1))
  PROVE  /\ OffersAgree(k1, f, Q1)
         /\ OffersLive(k, f, Q) => OffersLive(k1, f, Q1)
<1> DEFINE W == Whole(k)
           V == Whole(k1)
<1>1. \A i \in ServerIds : Registered(k1, i) <=> Registered(k, i)
  BY DEF Registered
<1>2. \A n \in 0..PoolSize - 1 : ServerId(n) \in ServerIds
  BY DEF ServerIds
<1>3. k1.pool = {n \in 0..PoolSize - 1 : Registered(k1, ServerId(n))}
  BY <1>1, <1>2 DEF OffersAgree
<1>4. \A o \in k1.objects : o.id \in ServerIds <=> o.kind = "offer"
  BY DEF OffersAgree
<1>5. \A r \in Q1 : r.id \in ServerIds => r.id \notin f /\ \A s \in Q1 : s.id = r.id => s = r
  BY DEF OffersAgree
<1>6. Len(V) \in Nat
  BY WholeSeq
<1>7. \A p \in 1..Len(V) : V[p].op = "offer" => p \in 1..Len(W) /\ V[p] = W[p]
  BY DEF OffersKept
<1>8. ASSUME NEW p \in 1..Len(V), V[p].op = "offer"
      PROVE  /\ V[p].id \in ServerIds \ f
             /\ \A r \in Q1 : r.id # V[p].id
             /\ \A q \in p + 1..Len(V) : V[q].op = "offer" => V[q].id # V[p].id
  <2>1. p \in 1..Len(W) /\ V[p] = W[p]
    BY <1>7, <1>8
  <2>2. /\ W[p].id \in ServerIds \ f
        /\ \A r \in Q : r.id # W[p].id
        /\ \A q \in p + 1..Len(W) : W[q].op = "offer" => W[q].id # W[p].id
    BY <1>8, <2>1 DEF OffersAgree
  <2> HIDE DEF W, V
  <2>3. \A q \in p + 1..Len(V) : V[q].op = "offer" => q \in p + 1..Len(W) /\ V[q] = W[q]
    <3> SUFFICES ASSUME NEW q \in p + 1..Len(V), V[q].op = "offer"
                 PROVE  q \in p + 1..Len(W) /\ V[q] = W[q]
      OBVIOUS
    <3>1. q \in 1..Len(V) /\ q >= p + 1
      BY <1>6
    <3>2. q \in 1..Len(W) /\ V[q] = W[q]
      BY <1>7, <3>1
    <3> QED
      BY <3>1, <3>2
  <2> QED
    BY <2>1, <2>2, <2>3
<1>9. OffersAgree(k1, f, Q1)
  BY <1>3, <1>4, <1>5, <1>8 DEF OffersAgree
<1>10. ASSUME OffersLive(k, f, Q)
       PROVE  OffersLive(k1, f, Q1)
  <2>1. \A i \in f : Registered(k1, i)
    BY <1>1, <1>10 DEF OffersAgree, OffersLive
  <2>2. \A r \in Q1 : r.id \in ServerIds => Registered(k1, r.id)
    BY <1>1, <1>10 DEF OffersLive
  <2>3. \A p \in 1..Len(V) : V[p].op = "offer" => Registered(k1, V[p].id)
    <3> SUFFICES ASSUME NEW p \in 1..Len(V), V[p].op = "offer"
                 PROVE  Registered(k1, V[p].id)
      OBVIOUS
    <3>1. p \in 1..Len(W) /\ V[p] = W[p]
      BY <1>7
    <3> QED
      BY <1>1, <1>10, <3>1 DEF OffersAgree, OffersLive
  <2> QED
    BY <2>1, <2>2, <2>3 DEF OffersLive
<1> QED
  BY <1>9, <1>10

(* What is handled has its object; an object that goes leaves its delete_id.  *)
LEMMA StillAccounted ==
  ASSUME NEW k \in ConnT, NEW k1 \in ConnT, NEW w, NEW Q, NEW Q1 \in SUBSET Q,
         Accounted(k, w, Q), Extends(Whole(k), Whole(k1)),
         \A i \in ClientIds : Registered(k, i) => Registered(k1, i) \/ Deleted(k1, i),
         \A r \in Q : Creates(r) /\ r \notin Q1 => Registered(k1, r.id),
         \A r \in Q1 : ~Creates(r) /\ Registered(k, r.id) => Registered(k1, r.id)
  PROVE  Accounted(k1, w, Q1)
<1>1. Len(Whole(k)) \in Nat /\ Len(Whole(k1)) \in Nat
  BY WholeSeq
<1>2. \A i : Deleted(k, i) => Deleted(k1, i)
  BY <1>1 DEF Deleted, Extends
<1>3. ASSUME NEW i \in ClientIds
      PROVE  \/ w[i].st = "free" \/ Registered(k1, i) \/ Deleted(k1, i)
             \/ \E r \in Q1 : Creates(r) /\ r.id = i
  <2>1. \/ w[i].st = "free" \/ Registered(k, i) \/ Deleted(k, i)
        \/ \E r \in Q : Creates(r) /\ r.id = i
    BY DEF Accounted
  <2>2. (\E r \in Q : Creates(r) /\ r.id = i) =>
          Registered(k1, i) \/ \E r \in Q1 : Creates(r) /\ r.id = i
    OBVIOUS
  <2> QED
    BY <1>2, <2>1, <2>2
<1>4. ASSUME NEW r \in Q1, ~Creates(r), r.id \in ClientIds
      PROVE  Registered(k1, r.id) \/ \E s \in Q1 : Creates(s) /\ s.id = r.id
  <2>1. Registered(k, r.id) \/ \E s \in Q : Creates(s) /\ s.id = r.id
    BY <1>4 DEF Accounted
  <2>2. (\E s \in Q : Creates(s) /\ s.id = r.id) =>
          Registered(k1, r.id) \/ \E s \in Q1 : Creates(s) /\ s.id = r.id
    OBVIOUS
  <2> QED
    BY <1>4, <2>1, <2>2
<1> QED
  BY <1>3, <1>4 DEF Accounted

(* k becomes k1 when an object of the client's goes.                         *)
Goes(k, k1, id) ==
  /\ k1 \in ConnT /\ k1.objects = Without(k.objects, id) /\ k1.pool = k.pool
  /\ Extends(Whole(k), Whole(k1)) /\ OffersKept(Whole(k), Whole(k1)) /\ Deleted(k1, id)

LEMMA GoneGoes ==
  ASSUME NEW k \in ConnT, NEW up, NEW id \in ClientIds, Registered(k, id)
  PROVE  Goes(k, object_del(k, up, id), id)
<1> DEFINE o == ObjectOf(k, id)
           e == Event("delete_id", id, o.n, 0)
           d == [k EXCEPT !.objects = map_remove(@, id)]
           k1 == post(d, up, e)
<1>1. o \in k.objects /\ id \notin ServerIds /\ id \in Int
  BY ObjectFound, IdsApart
<1>2. e \in EventT /\ e.op = "delete_id" /\ e.id = id
  <2>1. o \in ObjectT
    BY <1>1 DEF ConnT
  <2> QED
    BY <1>1, <2>1 DEF ObjectT, EventT, Event
<1>3. /\ d \in ConnT /\ d.objects = Without(k.objects, id) /\ Whole(d) = Whole(k)
      /\ d.pool = k.pool
  BY DEF ConnT, Whole, Without, map_remove
<1>4. object_del(k, up, id) = k1
  BY <1>1 DEF object_del
<1> HIDE DEF o, e, d
<1>5. /\ k1 \in ConnT /\ Whole(k1) = Append(Whole(k), e)
      /\ k1.objects = Without(k.objects, id) /\ k1.pool = k.pool
  BY <1>2, <1>3, PostState
<1> HIDE DEF k1
<1>6. /\ Extends(Whole(k), Whole(k1)) /\ OffersKept(Whole(k), Whole(k1))
  BY <1>2, <1>5, WholeSeq, Appended, AppendKeeps
<1>7. /\ Len(Whole(k)) + 1 \in 1..Len(Whole(k1)) /\ Whole(k1)[Len(Whole(k)) + 1] = e
  BY <1>2, <1>5, WholeSeq, Appended
<1>8. Deleted(k1, id)
  BY <1>2, <1>7 DEF Deleted
<1> QED
  BY <1>4, <1>5, <1>6, <1>8 DEF Goes

LEMMA CallbackGoes ==
  ASSUME NEW k \in ConnT, NEW up, NEW id \in ClientIds, Registered(k, id)
  PROVE  Goes(k, callback_done(k, up, id), id)
<1> DEFINE o == ObjectOf(k, id)
           e == Event("done", id, o.n, 0)
           d == post(k, up, e)
           k1 == object_del(d, up, id)
<1>1. o \in k.objects /\ id \in Int
  BY ObjectFound, IdsApart
<1>2. e \in EventT /\ e.op = "done"
  <2>1. o \in ObjectT
    BY <1>1 DEF ConnT
  <2> QED
    BY <1>1, <2>1 DEF ObjectT, EventT, Event
<1>3. callback_done(k, up, id) = k1
  BY DEF callback_done
<1> HIDE DEF o, e
<1>4. d \in ConnT /\ Whole(d) = Append(Whole(k), e) /\ d.objects = k.objects /\ d.pool = k.pool
  BY <1>2, PostState
<1> HIDE DEF d
<1>5. Registered(d, id)
  BY <1>4 DEF Registered
<1>6. Goes(d, k1, id)
  BY <1>4, <1>5, GoneGoes
<1> HIDE DEF k1
<1>7. Extends(Whole(k), Whole(d)) /\ OffersKept(Whole(k), Whole(d))
  BY <1>2, <1>4, WholeSeq, Appended, AppendKeeps
<1>8. Extends(Whole(k), Whole(k1))
  BY <1>4, <1>6, <1>7, WholeSeq, ExtendsAlong DEF Goes
<1>9. OffersKept(Whole(k), Whole(k1))
  BY <1>6, <1>7 DEF Goes, OffersKept
<1> QED
  BY <1>3, <1>4, <1>6, <1>8, <1>9 DEF Goes

(* The ids when an object of the client's goes and no request names it.      *)
LEMMA GoesKeeps ==
  ASSUME NEW k \in ConnT, NEW k1, NEW id \in ClientIds, Goes(k, k1, id), NEW f, NEW w,
         NEW Q, NEW Q1 \in SUBSET Q, OffersAgree(k, f, Q),
         \A r \in Q : Creates(r) => r \in Q1, \A r \in Q1 : r.id # id
  PROVE  /\ OffersAgree(k1, f, Q1)
         /\ OffersLive(k, f, Q) => OffersLive(k1, f, Q1)
         /\ Accounted(k, w, Q) => Accounted(k1, w, Q1)
<1>1. k1 \in ConnT /\ k1.pool = k.pool /\ OffersKept(Whole(k), Whole(k1)) /\ Deleted(k1, id)
  BY DEF Goes
<1>2. /\ \A o \in k1.objects : o \in k.objects
      /\ \A o \in k.objects : o.id # id => o \in k1.objects
  BY DEF Goes, Without
<1>3. IsFiniteSet(k1.objects)
  BY <1>2, FS_Subset DEF OffersAgree
<1>4. \A o \in k.objects : o.id \in ServerIds => o \in k1.objects
  BY <1>2, IdsApart
<1>5. OffersAgree(k1, f, Q1) /\ (OffersLive(k, f, Q) => OffersLive(k1, f, Q1))
  BY <1>1, <1>2, <1>3, <1>4, QuietOffers
<1>6. \A i : i # id /\ Registered(k, i) => Registered(k1, i)
  BY <1>2 DEF Registered
<1>7. Accounted(k, w, Q) => Accounted(k1, w, Q1)
  BY <1>1, <1>6, StillAccounted DEF Goes
<1> QED
  BY <1>5, <1>7

(* An event that is no offer, an object of the client's: the ids are kept.    *)
LEMMA GrowsKeeps ==
  ASSUME NEW k \in ConnT, NEW k1 \in ConnT, NEW f, NEW w, NEW Q, NEW Q1 \in SUBSET Q,
         OffersAgree(k, f, Q), k1.pool = k.pool,
         Extends(Whole(k), Whole(k1)), OffersKept(Whole(k), Whole(k1)),
         NEW X, IsFiniteSet(X), k1.objects = k.objects \cup X,
         \A o \in X : o.id \notin ServerIds /\ o.kind # "offer",
         \A r \in Q : Creates(r) /\ r \notin Q1 => Registered(k1, r.id)
  PROVE  /\ OffersAgree(k1, f, Q1)
         /\ OffersLive(k, f, Q) => OffersLive(k1, f, Q1)
         /\ Accounted(k, w, Q) => Accounted(k1, w, Q1)
<1>1. IsFiniteSet(k1.objects)
  <2>1. IsFiniteSet(k.objects)
    BY DEF OffersAgree
  <2> QED
    BY <2>1, FS_Union
<1>2. OffersAgree(k1, f, Q1) /\ (OffersLive(k, f, Q) => OffersLive(k1, f, Q1))
  BY <1>1, QuietOffers
<1>3. \A i : Registered(k, i) => Registered(k1, i)
  BY DEF Registered
<1>4. Accounted(k, w, Q) => Accounted(k1, w, Q1)
  BY <1>3, StillAccounted
<1> QED
  BY <1>2, <1>4

(* An object of the server's goes, at the request r of the client.           *)
LEMMA OfferDropped ==
  ASSUME NEW k \in ConnT, NEW up, NEW f, NEW w, NEW Q, NEW r \in Q, r.id \in ServerIds,
         Registered(k, r.id), OffersAgree(k, f, Q), OffersLive(k, f, Q), ~Creates(r)
  PROVE  LET k1 == object_del(k, up, r.id)
         IN  /\ OffersAgree(k1, f, Q \ {r})
             /\ OffersLive(k1, f, Q \ {r})
             /\ Accounted(k, w, Q) => Accounted(k1, w, Q \ {r})
<1> DEFINE id == r.id
           k1 == [[k EXCEPT !.objects = map_remove(@, id)] EXCEPT !.pool = @ \ {-1 - id}]
           W == Whole(k)
           Q1 == Q \ {r}
<1>1. object_del(k, up, id) = k1
  BY DEF object_del
<1>2. /\ k1 \in ConnT /\ k1.objects = Without(k.objects, id) /\ Whole(k1) = W
      /\ k1.pool = k.pool \ {-1 - id}
  BY DEF ConnT, Whole, Without, map_remove
<1> HIDE DEF k1
<1>3. \A i : Registered(k1, i) <=> Registered(k, i) /\ i # id
  BY <1>2 DEF Registered, Without
<1>4. PICK bit \in 0..PoolSize - 1 : id = ServerId(bit) /\ -1 - id = bit
  BY DEF ServerIds, ServerId
<1>5. k1.pool = {n \in 0..PoolSize - 1 : Registered(k1, ServerId(n))}
  <2>1. \A n \in 0..PoolSize - 1 : ServerId(n) = id <=> n = bit
    BY <1>4 DEF ServerId
  <2> QED
    BY <1>2, <1>3, <1>4, <2>1 DEF OffersAgree
<1>6. IsFiniteSet(k1.objects) /\ \A o \in k1.objects : o.id \in ServerIds <=> o.kind = "offer"
  <2>1. IsFiniteSet(k.objects) /\ k1.objects \in SUBSET k.objects
    BY <1>2 DEF OffersAgree, Without
  <2>2. IsFiniteSet(k1.objects)
    BY <2>1, FS_Subset
  <2> QED
    BY <2>1, <2>2 DEF OffersAgree
<1>7. /\ id \notin f /\ \A s \in Q1 : s.id # id
      /\ \A p \in 1..Len(W) : W[p].op = "offer" => W[p].id # id
  BY DEF OffersAgree
<1>8. OffersAgree(k1, f, Q1)
  BY <1>2, <1>5, <1>6 DEF OffersAgree
<1>9. OffersLive(k1, f, Q1)
  BY <1>2, <1>3, <1>7 DEF OffersLive
<1>10. Accounted(k, w, Q) => Accounted(k1, w, Q1)
  <2>1. \A i \in ClientIds : Registered(k, i) => Registered(k1, i)
    BY <1>3, IdsApart
  <2>2. Extends(Whole(k), Whole(k1))
    BY <1>2, WholeSeq, SameExtends
  <2>3. \A s \in Q1 : Registered(k, s.id) => Registered(k1, s.id)
    BY <1>3, <1>7
  <2> QED
    BY <1>2, <2>1, <2>2, <2>3, StillAccounted
<1> QED
  BY <1>1, <1>8, <1>9, <1>10

(* Where the ids are while a batch is at b.  Of a client none of whose       *)
(* requests has been refused, "sound", no request names an object wrongly.    *)
Kept(b, w, f, Q, how) ==
  /\ OffersAgree(b.k, f, Q) /\ OffersLive(b.k, f, Q)
  /\ how = "sound" =>
       /\ ~b.failed /\ (b.refused <=> b.ret = DISPATCH_PROTO_ERR)
       /\ ~Stopped(b) => Accounted(b.k, w, Q)

(* The request r is handled, from b to b1.                                   *)
LEMMA HandledKeeps ==
  ASSUME NEW b, NEW b1, NEW w, NEW f, NEW Q, NEW Q1, NEW how, Kept(b, w, f, Q, how),
         ~Stopped(b), b1.ret \notin {DISPATCH_PROTO_ERR}, b1.refused = b.refused,
         b1.failed = b.failed,
         OffersAgree(b1.k, f, Q1), OffersLive(b.k, f, Q) => OffersLive(b1.k, f, Q1),
         Accounted(b.k, w, Q) => Accounted(b1.k, w, Q1)
  PROVE  Kept(b1, w, f, Q1, how)
<1>1. how = "sound" => ~b.refused /\ ~b.failed /\ Accounted(b.k, w, Q)
  BY DEF Kept, Stopped
<1> QED
  BY <1>1 DEF Kept

LEMMA BatchFields ==
  ASSUME NEW b \in BatchT, NEW k1 \in ConnT, NEW ret \in Int
  PROVE  /\ [b EXCEPT !.k = k1, !.ret = ret].k = k1
         /\ [b EXCEPT !.k = k1, !.ret = ret].ret = ret
         /\ [b EXCEPT !.k = k1, !.ret = ret].refused = b.refused
         /\ [b EXCEPT !.k = k1, !.ret = ret].failed = b.failed
         /\ [b EXCEPT !.ret = ret].k = b.k
         /\ [b EXCEPT !.ret = ret].ret = ret
         /\ [b EXCEPT !.ret = ret].refused = b.refused
         /\ [b EXCEPT !.ret = ret].failed = b.failed
         /\ [b EXCEPT !.ret = ret, !.refused = TRUE].k = b.k
         /\ [b EXCEPT !.ret = ret, !.refused = TRUE].ret = ret
         /\ [b EXCEPT !.ret = ret, !.refused = TRUE].refused = TRUE
         /\ [b EXCEPT !.ret = ret, !.refused = TRUE].failed = b.failed
         /\ [b EXCEPT !.k = k1].k = k1
         /\ [b EXCEPT !.k = k1].ret = b.ret
         /\ [b EXCEPT !.k = k1].refused = b.refused
         /\ [b EXCEPT !.k = k1].failed = b.failed
BY DEF BatchT

(* The requests of Q are handled in the order they were sent: the first names *)
(* an object the server has, or a new one.                                   *)
LEMMA FirstIsLegal ==
  ASSUME NEW k, NEW w, NEW f, NEW Q \in SUBSET RequestT, NEW r \in Q,
         Agrees(k.objects, Whole(k), w, Q), \A s \in Q \ {r} : s.n > r.n,
         Accounted(k, w, Q), OffersLive(k, f, Q)
  PROVE  Creates(r) <=> ~Registered(k, r.id)
<1>1. CASE Creates(r)
  BY <1>1 DEF Agrees, RequestsAgree, Registered
<1>2. CASE ~Creates(r) /\ r.id \in ServerIds
  BY <1>2 DEF OffersLive
<1>3. CASE ~Creates(r) /\ r.id \in ClientIds
  <2>1. ASSUME NEW s \in Q, Creates(s), s.id = r.id  PROVE FALSE
    <3>1. r # s /\ r.n > s.n
      BY <1>3, <2>1 DEF Agrees, RequestsAgree
    <3>2. s.n > r.n /\ s.n \in Int /\ r.n \in Int
      BY <3>1 DEF RequestT
    <3> QED
      BY <3>1, <3>2
  <2> QED
    BY <1>3, <2>1 DEF Accounted
<1> QED
  BY <1>1, <1>2, <1>3 DEF RequestT

LEMMA SkipKeeps ==
  ASSUME NEW b, b.k \in ConnT, NEW w, NEW f, NEW Q, NEW r, NEW how, Kept(b, w, f, Q, how)
  PROVE  /\ OffersAgree(b.k, f, Q \ {r}) /\ OffersLive(b.k, f, Q \ {r})
         /\ Stopped(b) => Kept(b, w, f, Q \ {r}, how)
<1>1. OffersAgree(b.k, f, Q \ {r}) /\ OffersLive(b.k, f, Q \ {r})
  <2>1. OffersKept(Whole(b.k), Whole(b.k)) /\ IsFiniteSet(b.k.objects)
    BY SameKept DEF Kept, OffersAgree
  <2> QED
    BY <2>1, QuietOffers DEF Kept
<1> QED
  BY <1>1 DEF Kept

LEMMA DispatchKeeps ==
  ASSUME NEW b \in BatchT, NEW w, NEW f, NEW Q \in SUBSET RequestT, NEW r \in Q, NEW how,
         Agrees(b.k.objects, Whole(b.k), w, Q), \A s \in Q \ {r} : s.n > r.n,
         Kept(b, w, f, Q, how)
  PROVE  Kept(dispatch(b, r), w, f, Q \ {r}, how)
<1> DEFINE b1 == dispatch(b, r)
           Q1 == Q \ {r}
<1>1. /\ r \in RequestT /\ b.k \in ConnT /\ b.ret \in Int
      /\ OffersAgree(b.k, f, Q) /\ OffersLive(b.k, f, Q)
      /\ Q1 \in SUBSET Q
  BY DEF BatchT, Kept
<1>2. 1 \in Int /\ OK \in Int /\ DISPATCH_PROTO_ERR \in Int /\ DISPATCH_FATAL_ERR \in Int
  BY DEF OK, DISPATCH_PROTO_ERR, DISPATCH_FATAL_ERR
<1>3. DISPATCH_PROTO_ERR \notin {1, OK, DISPATCH_FATAL_ERR}
  BY DEF OK, DISPATCH_PROTO_ERR, DISPATCH_FATAL_ERR
<1>4. how = "sound" /\ ~Stopped(b) => (Creates(r) <=> ~Registered(b.k, r.id))
  BY FirstIsLegal DEF Kept
<1>5. CASE Stopped(b)
  BY <1>1, <1>5, SkipKeeps DEF dispatch
<1>6. CASE ~Stopped(b) /\ (Creates(r) <=> Registered(b.k, r.id))
  <2>1. b1 = Wrong(b) /\ how # "sound"
    BY <1>4, <1>6 DEF dispatch, handle
  <2>2. b1.k = b.k
    BY <2>1, BatchWrong
  <2> QED
    BY <1>1, <2>1, <2>2, SkipKeeps DEF Kept
<1>7. CASE ~Stopped(b) /\ Creates(r) /\ ~Registered(b.k, r.id)
  <2> DEFINE o == Object(r.id, Kinds[r.op], r.n)
             k1 == object_add(b.k, o)
  <2>1. o \in ObjectT /\ o.id = r.id /\ o.kind # "offer" /\ r.id \in ClientIds
    <3>1. o.id = r.id /\ o.kind = Kinds[r.op]
      BY DEF Object
    <3> QED
      BY <1>1, <1>7, <3>1, NewObject, KindOf DEF Agrees, RequestsAgree
  <2>2. b1 = [b EXCEPT !.k = k1, !.ret = OK]
    <3>1. b1 = handle(b, r)
      BY <1>7 DEF dispatch
    <3>2. Creates(r) /\ ~(Creates(r) <=> Registered(b.k, r.id))
      BY <1>7
    <3> QED
      BY <3>1, <3>2, KindOf DEF handle
  <2> HIDE DEF o
  <2>3. /\ k1 \in ConnT /\ k1.objects = b.k.objects \cup {o} /\ Whole(k1) = Whole(b.k)
        /\ k1.pool = b.k.pool
    BY <1>1, <2>1, AddState
  <2> HIDE DEF k1, b1
  <2>4. b1.k = k1 /\ b1.ret = OK /\ b1.refused = b.refused /\ b1.failed = b.failed
    BY <1>2, <2>2, <2>3, BatchFields
  <2>5. Registered(k1, r.id) /\ \A s \in Q : s \notin Q1 => s = r
    BY <2>1, <2>3 DEF Registered
  <2>6. /\ Extends(Whole(b.k), Whole(k1)) /\ OffersKept(Whole(b.k), Whole(k1))
        /\ IsFiniteSet({o}) /\ \A x \in {o} : x.id \notin ServerIds /\ x.kind # "offer"
    BY <1>1, <2>1, <2>3, WholeSeq, SameExtends, SameKept, FS_Singleton, IdsApart
  <2> DEFINE X == {o}
  <2>7. /\ IsFiniteSet(X) /\ \A x \in X : x.id \notin ServerIds /\ x.kind # "offer"
        /\ k1.objects = b.k.objects \cup X
    BY <2>3, <2>6
  <2> HIDE DEF X, Q1
  <2>8. /\ OffersAgree(k1, f, Q1)
        /\ OffersLive(b.k, f, Q) => OffersLive(k1, f, Q1)
        /\ Accounted(b.k, w, Q) => Accounted(k1, w, Q1)
    BY <1>1, <2>3, <2>5, <2>6, <2>7, GrowsKeeps
  <2> QED
    BY <1>3, <1>7, <2>4, <2>8, HandledKeeps DEF Q1, b1
<1>8. CASE ~Stopped(b) /\ Registered(b.k, r.id) /\ r.op = "destroy"
  <2> DEFINE k1 == object_del(b.k, b.up, r.id)
  <2>1. ~Creates(r) /\ b1 = [b EXCEPT !.k = k1, !.ret = OK]
    BY <1>8, KindOf DEF dispatch, handle
  <2>2. /\ k1 \in ConnT
        /\ OffersAgree(k1, f, Q1)
        /\ OffersLive(b.k, f, Q) => OffersLive(k1, f, Q1)
        /\ Accounted(b.k, w, Q) => Accounted(k1, w, Q1)
    <3>1. CASE r.id \in ClientIds
      <4>1. Goes(b.k, k1, r.id)
        BY <1>1, <1>8, <3>1, GoneGoes
      <4>2. \A s \in Q1 : s.id # r.id
        BY <1>1, <1>8, <2>1, <3>1 DEF Agrees, RequestsAgree, RequestT
      <4>3. \A s \in Q : Creates(s) => s \in Q1
        BY <2>1
      <4> HIDE DEF k1, Q1
      <4> QED
        BY <1>1, <3>1, <4>1, <4>2, <4>3, GoesKeeps DEF Goes
    <3>2. CASE r.id \in ServerIds
      <4>1. k1 \in ConnT
        BY <1>1, <1>8, <3>2, OfferGone
      <4> QED
        BY <1>1, <1>8, <2>1, <3>2, <4>1, OfferDropped
    <3> QED
      BY <1>1, <3>1, <3>2 DEF RequestT
  <2> HIDE DEF k1, b1
  <2>3. b1.k = k1 /\ b1.ret = OK /\ b1.refused = b.refused /\ b1.failed = b.failed
    BY <1>2, <2>1, <2>2, BatchFields
  <2> QED
    BY <1>3, <1>8, <2>2, <2>3, HandledKeeps DEF b1
<1>9. CASE ~Stopped(b) /\ Registered(b.k, r.id) /\ r.op = "ask"
  <2> DEFINE o == ObjectOf(b.k, r.id)
             e == Event("reply", r.id, o.n, r.n)
             k1 == post(b.k, b.up, e)
  <2>1. ~Creates(r) /\ b1 = [b EXCEPT !.k = k1, !.ret = OK]
    BY <1>9, KindOf DEF dispatch, handle
  <2>2. e \in EventT /\ e.op # "offer"
    <3>1. o \in ObjectT /\ r.id \in Int /\ r.n \in Int
      BY <1>1, <1>9, ObjectFound, IdsApart DEF ConnT, RequestT
    <3> QED
      BY <3>1 DEF ObjectT, EventT, Event
  <2> HIDE DEF e
  <2>3. /\ k1 \in ConnT /\ Whole(k1) = Append(Whole(b.k), e) /\ k1.objects = b.k.objects
        /\ k1.pool = b.k.pool
    BY <1>1, <2>2, PostState
  <2> HIDE DEF k1, b1
  <2>4. b1.k = k1 /\ b1.ret = OK /\ b1.refused = b.refused /\ b1.failed = b.failed
    BY <1>2, <2>1, <2>3, BatchFields
  <2>5. Extends(Whole(b.k), Whole(k1)) /\ OffersKept(Whole(b.k), Whole(k1))
    BY <1>1, <2>2, <2>3, WholeSeq, Appended, AppendKeeps
  <2> DEFINE X == {}
  <2>6. /\ IsFiniteSet(X) /\ (\A x \in X : x.id \notin ServerIds /\ x.kind # "offer")
        /\ k1.objects = b.k.objects \cup X
    BY <2>3, FS_EmptySet
  <2>7. \A s \in Q : Creates(s) /\ s \notin Q1 => Registered(k1, s.id)
    BY <2>1
  <2> HIDE DEF X, Q1
  <2>8. /\ OffersAgree(k1, f, Q1)
        /\ OffersLive(b.k, f, Q) => OffersLive(k1, f, Q1)
        /\ Accounted(b.k, w, Q) => Accounted(k1, w, Q1)
    BY <1>1, <2>3, <2>5, <2>6, <2>7, GrowsKeeps
  <2> QED
    BY <1>3, <1>9, <2>4, <2>8, HandledKeeps DEF Q1, b1
<1>10. CASE ~Stopped(b) /\ Registered(b.k, r.id) /\ r.op \in {"ignored", "bad", "missing"}
  <2>1. \/ b1 = [b EXCEPT !.ret = 1]
        \/ b1 = [b EXCEPT !.ret = DISPATCH_PROTO_ERR, !.refused = TRUE]
        \/ b1 = [b EXCEPT !.ret = DISPATCH_FATAL_ERR]
    BY <1>10, KindOf DEF dispatch, handle
  <2>2. ~Creates(r)
    BY <1>10, KindOf
  <2>3. Accounted(b.k, w, Q) => Accounted(b.k, w, Q1)
    <3>1. Extends(Whole(b.k), Whole(b.k))
      BY <1>1, WholeSeq, SameExtends
    <3>2. \A s \in Q : Creates(s) /\ s \notin Q1 => Registered(b.k, s.id)
      BY <2>2
    <3> HIDE DEF Q1
    <3> QED
      BY <1>1, <3>1, <3>2, StillAccounted
  <2>4. OffersAgree(b.k, f, Q1) /\ OffersLive(b.k, f, Q1)
    BY <1>1, SkipKeeps
  <2> HIDE DEF b1, Q1
  <2>5. CASE b1 = [b EXCEPT !.ret = 1]
    <3>1. b1.k = b.k /\ b1.ret = 1 /\ b1.refused = b.refused /\ b1.failed = b.failed
      BY <1>1, <1>2, <2>5, BatchFields
    <3>2. Kept(b1, w, f, Q1, how)
      BY <1>3, <1>10, <2>3, <2>4, <3>1, HandledKeeps
    <3> QED
      BY <3>2 DEF Q1, b1
  <2>6. CASE b1 = [b EXCEPT !.ret = DISPATCH_FATAL_ERR]
    <3>1. /\ b1.k = b.k /\ b1.ret = DISPATCH_FATAL_ERR /\ b1.refused = b.refused
          /\ b1.failed = b.failed
      BY <1>1, <1>2, <2>6, BatchFields
    <3>2. Kept(b1, w, f, Q1, how)
      BY <1>3, <1>10, <2>3, <2>4, <3>1, HandledKeeps
    <3> QED
      BY <3>2 DEF Q1, b1
  <2>7. CASE b1 = [b EXCEPT !.ret = DISPATCH_PROTO_ERR, !.refused = TRUE]
    <3>1. /\ b1.k = b.k /\ b1.ret = DISPATCH_PROTO_ERR /\ b1.refused /\ b1.failed = b.failed
      BY <1>1, <1>2, <2>7, BatchFields
    <3>2. Stopped(b1)
      BY <3>1 DEF Stopped
    <3>3. Kept(b1, w, f, Q1, how)
      BY <2>4, <3>1, <3>2 DEF Kept
    <3> QED
      BY <3>3 DEF Q1, b1
  <2> QED
    BY <2>1, <2>5, <2>6, <2>7
<1>11. r.op \in {"destroy", "ask", "ignored", "bad", "missing"} \/ Creates(r)
  BY <1>1, KindOf, WireAssumption DEF RequestT
<1> QED
  BY <1>5, <1>6, <1>7, <1>8, <1>9, <1>10, <1>11

LEMMA PrepareKeeps ==
  ASSUME NEW b \in BatchT, b.ret = OK, NEW w, NEW f, NEW Q \in SUBSET RequestT, NEW r \in Q,
         NEW how, r.op = "sync", Agrees(b.k.objects, Whole(b.k), w, Q), Kept(b, w, f, Q, how)
  PROVE  Kept(prepare(b, r), w, f, Q \ {r}, how)
<1> DEFINE o == Object(r.id, "sync", r.n)
           k1 == object_add(b.k, o)
           b1 == [b EXCEPT !.k = k1]
           Q1 == Q \ {r}
           X == {o}
<1>1. /\ b.k \in ConnT /\ Creates(r) /\ Kinds[r.op] = "sync" /\ r \in RequestT
      /\ OffersAgree(b.k, f, Q) /\ OffersLive(b.k, f, Q) /\ Q1 \in SUBSET Q
  BY KindOf DEF BatchT, Kept
<1>2. ~Registered(b.k, r.id) /\ r.id \in ClientIds
  BY <1>1 DEF Agrees, RequestsAgree, Registered
<1>3. ~Stopped(b) /\ b.ret # DISPATCH_PROTO_ERR
  BY DEF Stopped, OK, DISPATCH_PROTO_ERR, DISPATCH_FATAL_ERR
<1>4. prepare(b, r) = b1
  BY <1>2, <1>3 DEF prepare
<1>5. o \in ObjectT /\ o.id = r.id /\ o.kind = "sync"
  <2>1. o \in ObjectT
    BY <1>1, NewObject
  <2> QED
    BY <2>1 DEF Object
<1> HIDE DEF o
<1>6. /\ k1 \in ConnT /\ k1.objects = b.k.objects \cup {o} /\ Whole(k1) = Whole(b.k)
      /\ k1.pool = b.k.pool
  BY <1>1, <1>5, AddState
<1> HIDE DEF k1
<1>7. b1.k = k1 /\ b1.ret = OK /\ b1.refused = b.refused /\ b1.failed = b.failed
  BY <1>6, BatchFields DEF BatchT
<1> HIDE DEF b1
<1>8. Registered(k1, r.id) /\ \A s \in Q : s \notin Q1 => s = r
  BY <1>5, <1>6 DEF Registered
<1>9. /\ Extends(Whole(b.k), Whole(k1)) /\ OffersKept(Whole(b.k), Whole(k1))
      /\ IsFiniteSet(X) /\ k1.objects = b.k.objects \cup X
      /\ \A x \in X : x.id \notin ServerIds /\ x.kind # "offer"
  BY <1>1, <1>2, <1>5, <1>6, WholeSeq, SameExtends, SameKept, FS_Singleton, IdsApart
<1> HIDE DEF X, Q1
<1>10. /\ OffersAgree(k1, f, Q1)
       /\ OffersLive(b.k, f, Q) => OffersLive(k1, f, Q1)
       /\ Accounted(b.k, w, Q) => Accounted(k1, w, Q1)
  BY <1>1, <1>6, <1>8, <1>9, GrowsKeeps
<1>11. Kept(b1, w, f, Q1, how)
  BY <1>3, <1>7, <1>10, HandledKeeps
<1> QED
  BY <1>4, <1>11 DEF Q1

(* A callback that is done: no request names its id.                         *)
LEMMA CallbackKeeps ==
  ASSUME NEW k \in ConnT, NEW up, NEW w, NEW f, NEW Q,
         NEW o \in k.objects, o.id \in ClientIds, o.kind # "object",
         Agrees(k.objects, Whole(k), w, Q), OffersAgree(k, f, Q)
  PROVE  LET k1 == callback_done(k, up, o.id)
         IN  /\ k1 \in ConnT
             /\ OffersAgree(k1, f, Q)
             /\ OffersLive(k, f, Q) => OffersLive(k1, f, Q)
             /\ Accounted(k, w, Q) => Accounted(k1, w, Q)
<1> DEFINE k1 == callback_done(k, up, o.id)
<1>1. Registered(k, o.id)
  BY DEF Registered
<1>2. Goes(k, k1, o.id)
  BY <1>1, CallbackGoes
<1>3. \A r \in Q : r.id # o.id
  BY DEF Agrees, RequestsAgree
<1> HIDE DEF k1
<1>4. k1 \in ConnT
  BY <1>2 DEF Goes
<1>5. /\ OffersAgree(k1, f, Q)
      /\ OffersLive(k, f, Q) => OffersLive(k1, f, Q)
      /\ Accounted(k, w, Q) => Accounted(k1, w, Q)
  BY <1>2, <1>3, GoesKeeps
<1> QED
  BY <1>4, <1>5 DEF k1

LEMMA AnswerRet ==
  ASSUME NEW b \in BatchT, NEW r
  PROVE  answer(b, r).ret = b.ret
BY DEF answer, BatchT

LEMMA AnswerKeeps ==
  ASSUME NEW b \in BatchT, NEW w, NEW f, NEW Q, NEW r, NEW how,
         r.id \in ClientIds, Agrees(b.k.objects, Whole(b.k), w, Q),
         Object(r.id, "sync", r.n) \in b.k.objects, Kept(b, w, f, Q, how)
  PROVE  Kept(answer(b, r), w, f, Q, how)
<1>1. CASE answer(b, r) = b
  BY <1>1
<1>2. CASE answer(b, r) # b
  <2> DEFINE x == Object(r.id, "sync", r.n)
             k1 == callback_done(b.k, b.up, r.id)
             b1 == [b EXCEPT !.k = k1]
  <2>1. answer(b, r) = b1
    BY <1>2 DEF answer
  <2>2. x.id = r.id /\ x.kind # "object"
    BY DEF Object
  <2> HIDE DEF x
  <2>3. x \in b.k.objects /\ b.k \in ConnT /\ OffersAgree(b.k, f, Q)
    BY DEF x, BatchT, Kept
  <2>4. /\ k1 \in ConnT
        /\ OffersAgree(k1, f, Q)
        /\ OffersLive(b.k, f, Q) => OffersLive(k1, f, Q)
        /\ Accounted(b.k, w, Q) => Accounted(k1, w, Q)
    BY <2>2, <2>3, CallbackKeeps
  <2> HIDE DEF k1
  <2>5. b1.k = k1 /\ b1.ret = b.ret /\ b1.refused = b.refused /\ b1.failed = b.failed
    BY <2>4, BatchFields DEF BatchT
  <2> HIDE DEF b1
  <2> QED
    BY <2>1, <2>4, <2>5 DEF Kept, Stopped
<1> QED
  BY <1>1, <1>2

-----------------------------------------------------------------------------
(* The two parts of a batch.                                                *)

(* The sequence s holds the requests of the first m of a batch that are in C. *)
Holds(s, batch, m, C) ==
  /\ s \in Seq(RequestT)
  /\ \A p \in 1..Len(s) : s[p] \in C /\ \E q \in 1..m : s[p] = batch[q]
  /\ \A q \in 1..m : batch[q] \in C => \E p \in 1..Len(s) : s[p] = batch[q]
  /\ \A p, q \in 1..Len(s) : p < q => s[p].n < s[q].n

(* The requests of a batch, in the order they were sent.                     *)
InOrder(batch) ==
  /\ batch \in Seq(RequestT)
  /\ \A p, q \in 1..Len(batch) : p < q => batch[p].n < batch[q].n

LEMMA HoldsNext ==
  ASSUME NEW batch, InOrder(batch), NEW m \in 1..Len(batch), NEW C, NEW s,
         Holds(s, batch, m - 1, C), batch[m] \in C
  PROVE  Holds(Append(s, batch[m]), batch, m, C)
<1> DEFINE r == batch[m]
           t == Append(s, r)
<1>1. r \in RequestT /\ s \in Seq(RequestT) /\ Len(batch) \in Nat
  BY DEF Holds, InOrder
<1> HIDE DEF r
<1>2. /\ t \in Seq(RequestT) /\ Len(t) = Len(s) + 1 /\ Len(s) \in Nat
      /\ \A p \in 1..Len(s) + 1 : t[p] = IF p = Len(s) + 1 THEN r ELSE s[p]
  BY <1>1
<1> HIDE DEF t
<1>3. \A p \in 1..Len(t) : t[p] \in C /\ \E q \in 1..m : t[p] = batch[q]
  <2> TAKE p \in 1..Len(t)
  <2>1. CASE p = Len(s) + 1
    BY <1>2, <2>1 DEF r
  <2>2. CASE p # Len(s) + 1
    <3>1. p \in 1..Len(s) /\ t[p] = s[p]
      BY <1>2, <2>2
    <3> QED
      BY <3>1 DEF Holds
  <2> QED
    BY <2>1, <2>2
<1>4. \A q \in 1..m : batch[q] \in C => \E p \in 1..Len(t) : t[p] = batch[q]
  <2> SUFFICES ASSUME NEW q \in 1..m, batch[q] \in C
               PROVE  \E p \in 1..Len(t) : t[p] = batch[q]
    OBVIOUS
  <2>1. CASE q = m
    BY <1>2, <2>1 DEF r
  <2>2. CASE q # m
    <3>1. PICK p \in 1..Len(s) : s[p] = batch[q]
      BY <2>2 DEF Holds
    <3> QED
      BY <1>2, <3>1
  <2> QED
    BY <2>1, <2>2
<1>5. \A p, q \in 1..Len(t) : p < q => t[p].n < t[q].n
  <2> SUFFICES ASSUME NEW p \in 1..Len(t), NEW q \in 1..Len(t), p < q
               PROVE  t[p].n < t[q].n
    OBVIOUS
  <2>1. p \in 1..Len(s) /\ t[p] = s[p]
    BY <1>2
  <2>2. CASE q = Len(s) + 1
    <3>1. PICK j \in 1..m - 1 : s[p] = batch[j]
      BY <2>1 DEF Holds
    <3> QED
      BY <1>1, <1>2, <2>1, <2>2, <3>1 DEF InOrder, r
  <2>3. CASE q # Len(s) + 1
    <3>1. q \in 1..Len(s) /\ t[q] = s[q]
      BY <1>2, <2>3
    <3> QED
      BY <2>1, <3>1 DEF Holds
  <2> QED
    BY <2>2, <2>3
<1> QED
  BY <1>2, <1>3, <1>4, <1>5 DEF Holds, t, r

LEMMA HoldsAlong ==
  ASSUME NEW batch, InOrder(batch), NEW C, NEW f, f[0] = <<>>,
         \A p \in 1..Len(batch) :
           f[p] = IF batch[p] \in C THEN Append(f[p - 1], batch[p]) ELSE f[p - 1]
  PROVE  Holds(f[Len(batch)], batch, Len(batch), C)
<1> DEFINE n == Len(batch)
           G == {m \in 0..n : Holds(f[m], batch, m, C)}
<1>1. n \in Nat
  BY DEF InOrder
<1>2. 0 \in G
  <2>1. <<>> \in Seq(RequestT) /\ 1..Len(<<>>) = {} /\ 1..0 = {}
    OBVIOUS
  <2>2. Holds(<<>>, batch, 0, C)
    BY <2>1 DEF Holds
  <2> QED
    BY <1>1, <2>2
<1>3. ASSUME NEW m \in 1..n, m - 1 \in G  PROVE m \in G
  <2>1. Holds(f[m - 1], batch, m - 1, C)
    BY <1>3
  <2>2. CASE batch[m] \in C
    <3>1. f[m] = Append(f[m - 1], batch[m])
      BY <2>2
    <3> QED
      BY <2>1, <2>2, <3>1, HoldsNext
  <2>3. CASE batch[m] \notin C
    <3>1. f[m] = f[m - 1]
      BY <2>3
    <3>2. \A q \in 1..m : q \in 1..m - 1 \/ q = m
      BY <1>1
    <3>3. \A q \in 1..m - 1 : q \in 1..m
      BY <1>1
    <3>4. Holds(f[m - 1], batch, m, C)
      BY <2>1, <2>3, <3>2, <3>3 DEF Holds
    <3> QED
      BY <3>1, <3>4
  <2> QED
    BY <2>2, <2>3
<1> HIDE DEF G
<1>4. G \in SUBSET (0..n)
  BY DEF G
<1>5. G = 0..n
  BY <1>1, <1>2, <1>3, <1>4, UpTo
<1> QED
  BY <1>1, <1>5 DEF G

SyncRequests == {r \in RequestT : r.op = "sync"}
OtherRequests == {r \in RequestT : r.op # "sync"}

LEMMA SyncsHeld ==
  ASSUME NEW batch, InOrder(batch)
  PROVE  Holds(SyncsOf(batch), batch, Len(batch), SyncRequests)
<1>1. Len(batch) \in Nat /\ \A p \in 1..Len(batch) : batch[p] \in RequestT
  BY DEF InOrder
<1>2. PICK f : /\ f[0] = <<>>
               /\ \A p \in 1..Len(batch) : f[p] = put_sync(f[p - 1], batch[p])
               /\ SyncsOf(batch) = f[Len(batch)]
  BY <1>1, SyncsTurn
<1>3. \A p \in 1..Len(batch) :
        f[p] = IF batch[p] \in SyncRequests THEN Append(f[p - 1], batch[p]) ELSE f[p - 1]
  BY <1>1, <1>2 DEF put_sync, SyncRequests
<1> QED
  BY <1>2, <1>3, HoldsAlong

LEMMA OthersHeld ==
  ASSUME NEW batch, InOrder(batch)
  PROVE  Holds(OthersOf(batch), batch, Len(batch), OtherRequests)
<1>1. Len(batch) \in Nat /\ \A p \in 1..Len(batch) : batch[p] \in RequestT
  BY DEF InOrder
<1>2. PICK f : /\ f[0] = <<>>
               /\ \A p \in 1..Len(batch) : f[p] = put_other(f[p - 1], batch[p])
               /\ OthersOf(batch) = f[Len(batch)]
  BY <1>1, OthersTurn
<1>3. \A p \in 1..Len(batch) :
        f[p] = IF batch[p] \in OtherRequests THEN Append(f[p - 1], batch[p]) ELSE f[p - 1]
  BY <1>1, <1>2 DEF put_other, OtherRequests
<1> QED
  BY <1>2, <1>3, HoldsAlong

-----------------------------------------------------------------------------
(* The three passes of a batch.                                             *)

(* The requests of a sequence up to its m-th.                                *)
UpToNo(s, m) == {s[q] : q \in 1..m}
SyncObject(r) == Object(r.id, "sync", r.n)

(* Where a batch that began with connection k stands.                        *)
Serving(b, k, w, Q) ==
  /\ b \in BatchT /\ Extends(Whole(k), Whole(b.k))
  /\ Agrees(b.k.objects, Whole(b.k), w, Q)

LEMMA ServingNext ==
  ASSUME NEW k \in ConnT, NEW b, NEW b1 \in BatchT, NEW w, NEW Q, NEW r,
         Serving(b, k, w, Q), Handled(b.k, b1.k, w, Q, r)
  PROVE  Serving(b1, k, w, Q \ {r})
<1>1. b.k \in ConnT /\ b1.k \in ConnT
  BY DEF Serving, BatchT
<1>2. Extends(Whole(k), Whole(b1.k))
  BY <1>1, WholeSeq, ExtendsAlong DEF Serving, Handled
<1> QED
  BY <1>2 DEF Serving, Handled

LEMMA UpToNext ==
  ASSUME NEW s, NEW m \in Nat, m > 0
  PROVE  /\ UpToNo(s, m) = UpToNo(s, m - 1) \cup {s[m]}
         /\ UpToNo(s, 0) = {}
<1>1. 1..m = (1..m - 1) \cup {m} /\ 1..0 = {}
  OBVIOUS
<1> QED
  BY <1>1 DEF UpToNo

(* Where the ids are when a batch begins.                                    *)
Begun(k, w, f, Q, how) ==
  OffersAgree(k, f, Q) /\ OffersLive(k, f, Q) /\ (how = "sound" => Accounted(k, w, Q))

(* After the first m of the first pass.                                     *)
PreparedTo(b, k, w, Q, s, m) ==
  /\ \A f, how : Begun(k, w, f, Q, how) => Kept(b, w, f, Q \ UpToNo(s, m), how)
  /\ Serving(b, k, w, Q \ UpToNo(s, m)) /\ b.ret = OK
  /\ \A q \in 1..m : SyncObject(s[q]) \in b.k.objects
  /\ \A o \in b.k.objects : o \in k.objects \/ \E q \in 1..m : o.n = s[q].n

LEMMA PreparedAgrees ==
  ASSUME NEW k \in ConnT, NEW up \in BOOLEAN, NEW w, NEW Q \in SUBSET RequestT, NEW s,
         NEW batch, Holds(s, batch, Len(batch), SyncRequests), Len(batch) \in Nat,
         \A p \in 1..Len(batch) : batch[p] \in Q,
         Agrees(k.objects, Whole(k), w, Q)
  PROVE  PreparedTo(Prepared(k, up, s), k, w, Q, s, Len(s))
<1> DEFINE n == Len(s)
<1>1. s \in Seq(RequestT) /\ n \in Nat
  BY DEF Holds
<1>2. PICK f : /\ f[0] = Started(k, up)
               /\ \A p \in 1..n : f[p] = prepare(f[p - 1], s[p])
               /\ Prepared(k, up, s) = f[n]
  BY <1>1, PreparedTurn
<1> DEFINE G == {m \in 0..n : PreparedTo(f[m], k, w, Q, s, m)}
<1>3. 0 \in G
  <2>1. Started(k, up) \in BatchT /\ Started(k, up).k = k /\ Started(k, up).ret = OK
    BY DEF Started, BatchT, OK
  <2>2. Q \ UpToNo(s, 0) = Q /\ 1..0 = {}
    BY DEF UpToNo
  <2>3. Extends(Whole(k), Whole(k))
    BY WholeSeq, SameExtends
  <2>4. Serving(f[0], k, w, Q \ UpToNo(s, 0))
    BY <1>2, <2>1, <2>2, <2>3 DEF Serving
  <2>5. ASSUME NEW g, NEW how, Begun(k, w, g, Q, how)
        PROVE  Kept(f[0], w, g, Q \ UpToNo(s, 0), how)
    <3>1. /\ f[0].k = k /\ f[0].ret = OK /\ ~f[0].refused /\ ~f[0].failed
          /\ OK # DISPATCH_PROTO_ERR
      BY <1>2 DEF Started, OK, DISPATCH_PROTO_ERR
    <3> QED
      BY <2>2, <2>5, <3>1 DEF Begun, Kept
  <2>6. PreparedTo(f[0], k, w, Q, s, 0)
    BY <1>2, <2>1, <2>2, <2>4, <2>5 DEF PreparedTo
  <2> QED
    BY <1>1, <2>6
<1>4. ASSUME NEW m \in 1..n, m - 1 \in G  PROVE m \in G
  <2> DEFINE b == f[m - 1]
             r == s[m]
             Q1 == Q \ UpToNo(s, m - 1)
             b1 == prepare(b, r)
  <2>1. PreparedTo(b, k, w, Q, s, m - 1)
    BY <1>4
  <2>2. f[m] = b1
    BY <1>2
  <2>3. r \in RequestT /\ r.op = "sync" /\ r \in Q1
    <3>1. r \in SyncRequests /\ \E q \in 1..Len(batch) : r = batch[q]
      BY DEF Holds
    <3>2. \A q \in 1..m - 1 : s[q].n < s[m].n
      BY <1>1 DEF Holds
    <3>3. \A q \in 1..m - 1 : s[q] # s[m]
      <4> SUFFICES ASSUME NEW q \in 1..m - 1, s[q] = s[m] PROVE FALSE
        OBVIOUS
      <4>1. s[m].n < s[m].n /\ s[m].n \in Int
        BY <3>1, <3>2 DEF SyncRequests, RequestT
      <4> QED
        BY <4>1
    <3> QED
      BY <3>1, <3>3 DEF SyncRequests, UpToNo
  <2> HIDE DEF r, Q1, b
  <2>4. Serving(b, k, w, Q1) /\ b.ret = OK
    BY <2>1 DEF PreparedTo, Q1
  <2>5. /\ b1 \in BatchT /\ b1.ret = OK /\ Handled(b.k, b1.k, w, Q1, r)
        /\ SyncObject(r) \in b1.k.objects
    BY <2>3, <2>4, PrepareHandled DEF Serving, SyncObject
  <2> HIDE DEF b1
  <2>6. Serving(b1, k, w, Q1 \ {r})
    BY <2>4, <2>5, ServingNext
  <2>7. Q1 \ {r} = Q \ UpToNo(s, m)
    BY UpToNext DEF Q1, r
  <2>8. \A q \in 1..m : SyncObject(s[q]) \in b1.k.objects
    <3> TAKE q \in 1..m
    <3>1. CASE q = m
      BY <2>5, <3>1 DEF r
    <3>2. CASE q # m
      <4>1. q \in 1..m - 1
        BY <3>2
      <4>2. SyncObject(s[q]) \in b.k.objects
        BY <2>1, <4>1 DEF PreparedTo, b
      <4>3. SyncObject(s[q]).kind = "sync"
        BY DEF SyncObject, Object
      <4> QED
        BY <2>5, <4>2, <4>3 DEF Handled
    <3> QED
      BY <3>1, <3>2
  <2>9. \A o \in b1.k.objects : o \in k.objects \/ \E q \in 1..m : o.n = s[q].n
    <3> TAKE o \in b1.k.objects
    <3>1. o \in b.k.objects \/ o.n = s[m].n
      BY <2>5 DEF Handled, r
    <3>2. \A q \in 1..m - 1 : q \in 1..m
      BY <1>1
    <3> QED
      BY <2>1, <3>1, <3>2 DEF PreparedTo, b
  <2>10. ASSUME NEW g, NEW how, Begun(k, w, g, Q, how)
         PROVE  Kept(b1, w, g, Q \ UpToNo(s, m), how)
    <3>1. Kept(b, w, g, Q1, how)
      BY <2>1, <2>10 DEF PreparedTo, Q1
    <3>2. b \in BatchT /\ Agrees(b.k.objects, Whole(b.k), w, Q1) /\ Q1 \in SUBSET RequestT
      BY <2>4 DEF Serving, Q1
    <3>3. Kept(b1, w, g, Q1 \ {r}, how)
      BY <2>3, <2>4, <3>1, <3>2, PrepareKeeps DEF b1
    <3> QED
      BY <2>7, <3>3
  <2>11. PreparedTo(b1, k, w, Q, s, m)
    BY <2>5, <2>6, <2>7, <2>8, <2>9, <2>10 DEF PreparedTo
  <2> QED
    BY <2>2, <2>11
<1> HIDE DEF G
<1>5. G \in SUBSET (0..n)
  BY DEF G
<1>6. G = 0..n
  BY <1>1, <1>3, <1>4, <1>5, UpTo
<1>7. n \in G
  BY <1>1, <1>6
<1> QED
  BY <1>2, <1>7 DEF G

(* After the first m of the second pass, which began at b0.                  *)
DoneTo(b, b0, k, w, Q, t, m) ==
  /\ \A f, how : Kept(b0, w, f, Q, how) => Kept(b, w, f, Q \ UpToNo(t, m), how)
  /\ Serving(b, k, w, Q \ UpToNo(t, m))
  /\ \A o \in b0.k.objects : o.kind = "sync" => o \in b.k.objects
  /\ \A o \in b.k.objects : o \in b0.k.objects \/ \E q \in 1..m : o.n = t[q].n

(* The requests t come before the others of Q.                               *)
First(t, Q) ==
  /\ t \in Seq(RequestT)
  /\ \A m \in 1..Len(t) : t[m] \in Q \ UpToNo(t, m - 1)
  /\ \A m \in 1..Len(t) : \A r \in Q \ UpToNo(t, m) : r.n > t[m].n

LEMMA DoneAgrees ==
  ASSUME NEW k \in ConnT, NEW b0, NEW w, NEW Q \in SUBSET RequestT, NEW t,
         First(t, Q), Serving(b0, k, w, Q)
  PROVE  DoneTo(Done(b0, t), b0, k, w, Q, t, Len(t))
<1> DEFINE n == Len(t)
<1>1. t \in Seq(RequestT) /\ n \in Nat
  BY DEF First
<1>2. PICK f : /\ f[0] = b0
               /\ \A p \in 1..n : f[p] = dispatch(f[p - 1], t[p])
               /\ Done(b0, t) = f[n]
  BY <1>1, DoneTurn
<1> DEFINE G == {m \in 0..n : DoneTo(f[m], b0, k, w, Q, t, m)}
<1>3. 0 \in G
  <2>1. Q \ UpToNo(t, 0) = Q
    BY DEF UpToNo
  <2>2. DoneTo(f[0], b0, k, w, Q, t, 0)
    BY <1>2, <2>1 DEF DoneTo
  <2> QED
    BY <1>1, <2>2
<1>4. ASSUME NEW m \in 1..n, m - 1 \in G  PROVE m \in G
  <2> DEFINE b == f[m - 1]
             r == t[m]
             Q1 == Q \ UpToNo(t, m - 1)
             b1 == dispatch(b, r)
  <2>1. DoneTo(b, b0, k, w, Q, t, m - 1)
    BY <1>4
  <2>2. f[m] = b1
    BY <1>2
  <2>3. Q1 \ {r} = Q \ UpToNo(t, m)
    BY UpToNext
  <2>4. r \in Q1 /\ \A s \in Q1 \ {r} : s.n > r.n
    BY <2>3 DEF First
  <2> HIDE DEF r, Q1, b
  <2>5. Serving(b, k, w, Q1) /\ Q1 \in SUBSET RequestT
    BY <2>1 DEF DoneTo, Q1
  <2>6. b1 \in BatchT /\ Handled(b.k, b1.k, w, Q1, r)
    BY <2>4, <2>5, DispatchHandled DEF Serving
  <2> HIDE DEF b1
  <2>7. Serving(b1, k, w, Q1 \ {r})
    BY <2>5, <2>6, ServingNext
  <2>8. \A o \in b0.k.objects : o.kind = "sync" => o \in b1.k.objects
    BY <2>1, <2>6 DEF DoneTo, Handled
  <2>9. \A o \in b1.k.objects : o \in b0.k.objects \/ \E q \in 1..m : o.n = t[q].n
    <3> TAKE o \in b1.k.objects
    <3>1. o \in b.k.objects \/ o.n = t[m].n
      BY <2>6 DEF Handled, r
    <3>2. \A q \in 1..m - 1 : q \in 1..m
      BY <1>1
    <3> QED
      BY <2>1, <3>1, <3>2 DEF DoneTo
  <2>10. ASSUME NEW g, NEW how, Kept(b0, w, g, Q, how)
         PROVE  Kept(b1, w, g, Q \ UpToNo(t, m), how)
    <3>1. Kept(b, w, g, Q1, how)
      BY <2>1, <2>10 DEF DoneTo, Q1
    <3>2. b \in BatchT /\ Agrees(b.k.objects, Whole(b.k), w, Q1)
      BY <2>5 DEF Serving
    <3>3. Kept(b1, w, g, Q1 \ {r}, how)
      BY <2>4, <2>5, <3>1, <3>2, DispatchKeeps DEF b1
    <3> QED
      BY <2>3, <3>3
  <2>11. DoneTo(b1, b0, k, w, Q, t, m)
    BY <2>3, <2>7, <2>8, <2>9, <2>10 DEF DoneTo
  <2> QED
    BY <2>2, <2>11
<1> HIDE DEF G
<1>5. G \in SUBSET (0..n)
  BY DEF G
<1>6. G = 0..n
  BY <1>1, <1>3, <1>4, <1>5, UpTo
<1>7. n \in G
  BY <1>1, <1>6
<1> QED
  BY <1>2, <1>7 DEF G

(* After the first m of the third pass, which began at b0.                   *)
AnsweredTo(b, b0, k, w, Q, s, m) ==
  /\ \A f, how : Kept(b0, w, f, Q, how) => Kept(b, w, f, Q, how)
  /\ Serving(b, k, w, Q) /\ b.ret = b0.ret
  /\ b.k.objects \subseteq b0.k.objects
  /\ \A q \in m + 1..Len(s) : SyncObject(s[q]) \in b.k.objects

LEMMA AnsweredAgrees ==
  ASSUME NEW k \in ConnT, NEW b0, NEW w, NEW Q, NEW s, NEW batch,
         Holds(s, batch, Len(batch), SyncRequests), Serving(b0, k, w, Q),
         Older(b0.k.objects, Q),
         \A q \in 1..Len(s) : SyncObject(s[q]) \in b0.k.objects
  PROVE  AnsweredTo(Answered(b0, s), b0, k, w, Q, s, Len(s))
<1> DEFINE n == Len(s)
<1>1. s \in Seq(RequestT) /\ n \in Nat
  BY DEF Holds
<1>2. PICK f : /\ f[0] = b0
               /\ \A p \in 1..n : f[p] = answer(f[p - 1], s[p])
               /\ Answered(b0, s) = f[n]
  BY <1>1, AnsweredTurn
<1> DEFINE G == {m \in 0..n : AnsweredTo(f[m], b0, k, w, Q, s, m)}
<1>3. 0 \in G
  BY <1>1, <1>2 DEF AnsweredTo
<1>4. ASSUME NEW m \in 1..n, m - 1 \in G  PROVE m \in G
  <2> DEFINE b == f[m - 1]
             r == s[m]
             b1 == answer(b, r)
  <2>1. AnsweredTo(b, b0, k, w, Q, s, m - 1)
    BY <1>4
  <2>2. f[m] = b1
    BY <1>2
  <2>3. r \in RequestT
    BY <1>1
  <2>4. SyncObject(r) \in b.k.objects
    <3>1. m \in m - 1 + 1..Len(s)
      BY <1>1
    <3> QED
      BY <2>1, <3>1 DEF AnsweredTo
  <2> HIDE DEF r, b
  <2>5. b \in BatchT /\ Agrees(b.k.objects, Whole(b.k), w, Q)
    BY <2>1 DEF AnsweredTo, Serving
  <2>6. r.id \in ClientIds
    <3>1. SyncObject(r).kind = "sync" /\ SyncObject(r).id = r.id
      BY DEF SyncObject, Object
    <3> QED
      BY <2>4, <2>5, <3>1 DEF Agrees, ObjectsAgree
  <2>7. Older(b.k.objects, Q)
    BY <2>1 DEF AnsweredTo, Older
  <2>8. /\ b1 \in BatchT /\ Extends(Whole(b.k), Whole(b1.k))
        /\ Agrees(b1.k.objects, Whole(b1.k), w, Q)
        /\ b1.k.objects \subseteq b.k.objects
        /\ \A o \in b.k.objects : o.id # r.id => o \in b1.k.objects
    BY <2>4, <2>5, <2>6, <2>7, AnswerAgrees DEF SyncObject
  <2> HIDE DEF b1
  <2>9. Serving(b1, k, w, Q)
    <3>1. b.k \in ConnT /\ b1.k \in ConnT
      BY <2>5, <2>8 DEF BatchT
    <3>2. Extends(Whole(k), Whole(b.k))
      BY <2>1 DEF AnsweredTo, Serving
    <3>3. Extends(Whole(k), Whole(b1.k))
      BY <2>8, <3>1, <3>2, WholeSeq, ExtendsAlong
    <3> QED
      BY <2>8, <3>3 DEF Serving
  <2>10. ASSUME NEW q \in m + 1..Len(s)  PROVE SyncObject(s[q]) \in b1.k.objects
    <3>1. q \in m - 1 + 1..Len(s) /\ q \in 1..Len(s) /\ m < q
      BY <1>1
    <3>2. SyncObject(s[q]) \in b.k.objects
      BY <2>1, <3>1 DEF AnsweredTo
    <3>3. s[m].n < s[q].n
      BY <1>1, <3>1 DEF Holds
    <3>4. s[m].n # s[q].n
      <4>1. s[m] \in RequestT /\ s[q] \in RequestT
        BY <1>1, <3>1
      <4>2. s[m].n \in Int
        BY <4>1 DEF RequestT
      <4> QED
        BY <3>3, <4>2
    <3>5. SyncObject(s[q]) # SyncObject(r)
      BY <3>4 DEF SyncObject, Object, r
    <3>6. SyncObject(s[q]).id # r.id
      <4>1. SyncObject(r).id = r.id
        BY DEF SyncObject, Object
      <4> QED
        BY <2>4, <2>5, <2>6, <3>2, <3>5, <4>1 DEF Agrees, ObjectsAgree
    <3> QED
      BY <2>8, <3>2, <3>6
  <2>11. b1.k.objects \subseteq b0.k.objects
    BY <2>1, <2>8 DEF AnsweredTo
  <2>12. ASSUME NEW g, NEW how, Kept(b0, w, g, Q, how)
         PROVE  Kept(b1, w, g, Q, how)
    <3>1. Kept(b, w, g, Q, how)
      BY <2>1, <2>12 DEF AnsweredTo
    <3> QED
      BY <2>4, <2>5, <2>6, <3>1, AnswerKeeps DEF SyncObject, b1
  <2>13. b1.ret = b0.ret
    BY <2>1, <2>5, AnswerRet DEF AnsweredTo, b1
  <2>14. AnsweredTo(b1, b0, k, w, Q, s, m)
    BY <2>9, <2>10, <2>11, <2>12, <2>13 DEF AnsweredTo
  <2> QED
    BY <2>2, <2>14
<1> HIDE DEF G
<1>5. G \in SUBSET (0..n)
  BY DEF G
<1>6. G = 0..n
  BY <1>1, <1>3, <1>4, <1>5, UpTo
<1>7. n \in G
  BY <1>1, <1>6
<1> QED
  BY <1>2, <1>7 DEF G

(* The requests of a batch come before the others of Q.                      *)
Read(batch, Q) ==
  /\ InOrder(batch) /\ UpToNo(batch, Len(batch)) \subseteq Q
  /\ \A r \in Q \ UpToNo(batch, Len(batch)) : \A p \in 1..Len(batch) : r.n > batch[p].n

LEMMA BatchParts ==
  ASSUME NEW batch, NEW Q \in SUBSET RequestT, Read(batch, Q)
  PROVE  LET s == SyncsOf(batch)
             t == OthersOf(batch)
         IN  /\ First(t, Q \ UpToNo(s, Len(s)))
             /\ UpToNo(s, Len(s)) \cup UpToNo(t, Len(t)) = UpToNo(batch, Len(batch))
<1> DEFINE s == SyncsOf(batch)
           t == OthersOf(batch)
           S == UpToNo(s, Len(s))
           n == Len(batch)
<1>1. Holds(s, batch, n, SyncRequests) /\ Holds(t, batch, n, OtherRequests)
  BY SyncsHeld, OthersHeld DEF Read
<1>2. n \in Nat /\ \A p \in 1..n : batch[p] \in RequestT /\ batch[p] \in Q
  BY DEF Read, InOrder, UpToNo
<1> HIDE DEF s, t
<1>3. t \in Seq(RequestT) /\ Len(t) \in Nat /\ Len(s) \in Nat
  BY <1>1 DEF Holds
<1>4. S \cup UpToNo(t, Len(t)) = UpToNo(batch, n)
  <2>1. ASSUME NEW r \in UpToNo(batch, n)  PROVE r \in S \cup UpToNo(t, Len(t))
    <3>1. PICK q \in 1..n : r = batch[q]
      BY DEF UpToNo
    <3>2. r \in SyncRequests \/ r \in OtherRequests
      BY <1>2, <3>1 DEF SyncRequests, OtherRequests
    <3> QED
      BY <1>1, <3>1, <3>2 DEF Holds, UpToNo
  <2>2. ASSUME NEW r \in S \cup UpToNo(t, Len(t))  PROVE r \in UpToNo(batch, n)
    <3>1. CASE r \in S
      <4>1. PICK p \in 1..Len(s) : r = s[p]
        BY <3>1 DEF UpToNo
      <4>2. PICK q \in 1..n : s[p] = batch[q]
        BY <1>1 DEF Holds
      <4> QED
        BY <4>1, <4>2 DEF UpToNo
    <3>2. CASE r \in UpToNo(t, Len(t))
      <4>1. PICK p \in 1..Len(t) : r = t[p]
        BY <3>2 DEF UpToNo
      <4>2. PICK q \in 1..n : t[p] = batch[q]
        BY <1>1 DEF Holds
      <4> QED
        BY <4>1, <4>2 DEF UpToNo
    <3> QED
      BY <2>2, <3>1, <3>2
  <2> QED
    BY <2>1, <2>2
<1>5. \A m \in 1..Len(t) : t[m] \in (Q \ S) \ UpToNo(t, m - 1)
  <2> TAKE m \in 1..Len(t)
  <2>1. PICK q \in 1..n : t[m] = batch[q]
    BY <1>1 DEF Holds
  <2>2. t[m] \in Q /\ t[m].n \in Int /\ t[m].op # "sync"
    BY <1>1, <1>2, <2>1 DEF Holds, OtherRequests, RequestT
  <2>3. t[m] \notin S
    BY <1>1, <2>2 DEF Holds, SyncRequests, UpToNo
  <2>4. \A j \in 1..m - 1 : t[j].n < t[m].n
    <3>1. \A j \in 1..m - 1 : j \in 1..Len(t) /\ j < m
      BY <1>3
    <3> QED
      BY <1>1, <3>1 DEF Holds
  <2>5. t[m] \notin UpToNo(t, m - 1)
    BY <2>2, <2>4 DEF UpToNo
  <2> QED
    BY <2>2, <2>3, <2>5
<1>6. \A m \in 1..Len(t) : \A r \in (Q \ S) \ UpToNo(t, m) : r.n > t[m].n
  <2> SUFFICES ASSUME NEW m \in 1..Len(t), NEW r \in (Q \ S) \ UpToNo(t, m)
               PROVE  r.n > t[m].n
    OBVIOUS
  <2>1. r.n \in Int /\ t[m].n \in Int
    <3>1. t[m] \in RequestT /\ r \in RequestT
      BY <1>3
    <3> QED
      BY <3>1 DEF RequestT
  <2>2. CASE r \in UpToNo(batch, n)
    <3>1. PICK j \in 1..Len(t) : r = t[j]
      BY <1>4, <2>2 DEF UpToNo
    <3>2. ~(j <= m)
      BY <3>1 DEF UpToNo
    <3>3. m < j
      BY <1>3, <3>2
    <3>4. t[m].n < t[j].n
      BY <1>1, <3>3 DEF Holds
    <3> QED
      BY <2>1, <3>1, <3>4
  <2>3. CASE r \notin UpToNo(batch, n)
    <3>1. PICK q \in 1..n : t[m] = batch[q]
      BY <1>1 DEF Holds
    <3> QED
      BY <2>3, <3>1 DEF Read
  <2> QED
    BY <2>2, <2>3
<1>7. First(t, Q \ S)
  BY <1>3, <1>5, <1>6 DEF First
<1> QED
  BY <1>4, <1>7 DEF s, t

(* Where the ids are when a batch is over and the connection is not freed.    *)
Served(b, w, f, Q, how) ==
  /\ OffersAgree(b.k, f, Q) /\ OffersLive(b.k, f, Q)
  /\ how = "sound" =>
       /\ ~b.failed
       /\ \/ b.refused \/ b.ret \in {DISPATCH_FATAL_ERR, DISPATCH_CLIENT_ERR}
          \/ Accounted(b.k, w, Q)

LEMMA KeptServed ==
  ASSUME NEW b, NEW w, NEW f, NEW Q, NEW how, Kept(b, w, f, Q, how)
  PROVE  Served(b, w, f, Q, how)
BY DEF Kept, Served, Stopped

(* A batch that is given up before its first request.                        *)
LEMMA GivenUpServed ==
  ASSUME NEW b, b.k \in ConnT, ~b.failed, b.ret = DISPATCH_CLIENT_ERR, NEW w, NEW f, NEW Q,
         NEW Q1 \in SUBSET Q, NEW how, Begun(b.k, w, f, Q, how)
  PROVE  Served(b, w, f, Q1, how)
<1>1. OffersKept(Whole(b.k), Whole(b.k)) /\ IsFiniteSet(b.k.objects)
  BY SameKept DEF Begun, OffersAgree
<1>2. OffersAgree(b.k, f, Q1) /\ OffersLive(b.k, f, Q1)
  BY <1>1, QuietOffers DEF Begun
<1> QED
  BY <1>2 DEF Served

LEMMA NoneDone ==
  ASSUME NEW b, NEW t, t = <<>>
  PROVE  Done(b, t) = b
<1>1. Len(t) = 0
  OBVIOUS
<1> QED
  BY <1>1, DoneTurn

(* A whole batch.                                                           *)
LEMMA BatchServed ==
  ASSUME NEW k \in ConnT, NEW up \in BOOLEAN, NEW w, NEW Q \in SUBSET RequestT, NEW batch,
         NEW unset \in Int, Read(batch, Q),
         Agrees(k.objects, Whole(k), w, Q), Older(k.objects, Q)
  PROVE  LET b == connection_dispatch(k, up, batch, unset)
             Q2 == Q \ UpToNo(batch, Len(batch))
         IN  /\ Serving(b, k, w, Q2) /\ Older(b.k.objects, Q2)
             /\ \A f, how : Begun(k, w, f, Q, how) => Served(b, w, f, Q2, how)
<1> DEFINE s == SyncsOf(batch)
           t == OthersOf(batch)
           Q1 == Q \ UpToNo(s, Len(s))
           Q2 == Q \ UpToNo(batch, Len(batch))
           p0 == Prepared(k, up, s)
           d == Done(p0, t)
           a == Answered(d, s)
           b == connection_dispatch(k, up, batch, unset)
<1>1. /\ Holds(s, batch, Len(batch), SyncRequests) /\ Holds(t, batch, Len(batch), OtherRequests)
      /\ First(t, Q1) /\ Q1 \ UpToNo(t, Len(t)) = Q2
  <2>1. /\ First(t, Q1)
        /\ UpToNo(s, Len(s)) \cup UpToNo(t, Len(t)) = UpToNo(batch, Len(batch))
    BY BatchParts
  <2>2. Q1 \ UpToNo(t, Len(t)) = Q2
    BY <2>1
  <2> QED
    BY <2>1, <2>2, SyncsHeld, OthersHeld DEF Read
<1>2. Len(batch) \in Nat /\ \A p \in 1..Len(batch) : batch[p] \in Q
  BY DEF Read, InOrder, UpToNo
<1>3. \/ b = [Started(k, up) EXCEPT !.ret = DISPATCH_CLIENT_ERR]
      \/ b = p0 /\ Stopped(p0)
      \/ b = [a EXCEPT !.ret = unset] /\ t = <<>>
      \/ b = a
  BY DEF connection_dispatch
<1> HIDE DEF s, t, p0, d, a, b, Q1, Q2
<1>4. PreparedTo(p0, k, w, Q, s, Len(s))
  BY <1>1, <1>2, PreparedAgrees DEF p0
<1>5. Serving(p0, k, w, Q1)
  BY <1>4 DEF PreparedTo, Q1
<1>6. DoneTo(d, p0, k, w, Q1, t, Len(t))
  BY <1>1, <1>5, DoneAgrees DEF d, Q1
<1>7. Serving(d, k, w, Q2)
  BY <1>1, <1>6 DEF DoneTo
<1>8. Older(d.k.objects, Q2)
  <2> SUFFICES ASSUME NEW o \in d.k.objects, o.id \in ClientIds, NEW r \in Q2
               PROVE  o.n < r.n
    BY DEF Older
  <2>1. \/ o \in k.objects
        \/ \E q \in 1..Len(s) : o.n = s[q].n
        \/ \E q \in 1..Len(t) : o.n = t[q].n
    BY <1>4, <1>6 DEF DoneTo, PreparedTo
  <2>2. \A q \in 1..Len(s) : s[q].n < r.n
    <3> TAKE q \in 1..Len(s)
    <3>1. PICK j \in 1..Len(batch) : s[q] = batch[j]
      BY <1>1 DEF Holds
    <3> QED
      BY <3>1 DEF Read, InOrder, Q2, RequestT
  <2>3. \A q \in 1..Len(t) : t[q].n < r.n
    <3> TAKE q \in 1..Len(t)
    <3>1. PICK j \in 1..Len(batch) : t[q] = batch[j]
      BY <1>1 DEF Holds
    <3> QED
      BY <3>1 DEF Read, InOrder, Q2, RequestT
  <2> QED
    BY <2>1, <2>2, <2>3 DEF Older, Q2
<1>9. \A q \in 1..Len(s) : SyncObject(s[q]) \in d.k.objects
  <2> TAKE q \in 1..Len(s)
  <2>1. SyncObject(s[q]) \in p0.k.objects
    BY <1>4 DEF PreparedTo
  <2>2. SyncObject(s[q]).kind = "sync"
    BY DEF SyncObject, Object
  <2> QED
    BY <1>6, <2>1, <2>2 DEF DoneTo
<1>10. AnsweredTo(a, d, k, w, Q2, s, Len(s))
  BY <1>1, <1>7, <1>8, <1>9, AnsweredAgrees DEF a
<1>11. Serving(a, k, w, Q2) /\ Older(a.k.objects, Q2)
  BY <1>8, <1>10 DEF AnsweredTo, Older
<1>12. ASSUME NEW f, NEW how, Begun(k, w, f, Q, how)  PROVE Kept(a, w, f, Q2, how)
  <2>1. Kept(p0, w, f, Q1, how)
    BY <1>4, <1>12 DEF PreparedTo, Q1
  <2>2. Kept(d, w, f, Q2, how)
    BY <1>1, <1>6, <2>1 DEF DoneTo
  <2> QED
    BY <1>10, <2>2 DEF AnsweredTo
<1>13. CASE b = [Started(k, up) EXCEPT !.ret = DISPATCH_CLIENT_ERR]
  <2>1. b \in BatchT /\ b.k = k /\ b.ret = DISPATCH_CLIENT_ERR /\ ~b.failed
    <3>1. Started(k, up) \in BatchT /\ Started(k, up).k = k /\ ~Started(k, up).failed
      BY DEF Started, BatchT, OK
    <3>2. DISPATCH_CLIENT_ERR \in Int
      BY DEF DISPATCH_CLIENT_ERR
    <3> QED
      BY <1>13, <3>1, <3>2, BatchStops, BatchFields
  <2>2. Agrees(k.objects, Whole(k), w, Q2)
    BY FewerAgree DEF Q2
  <2>3. Older(k.objects, Q2)
    BY DEF Older, Q2
  <2>4. \A f, how : Begun(k, w, f, Q, how) => Served(b, w, f, Q2, how)
    BY <2>1, GivenUpServed DEF Q2
  <2> QED
    BY <2>1, <2>2, <2>3, <2>4, WholeSeq, SameExtends DEF Serving, Q2, b
<1>14. CASE b = p0 /\ Stopped(p0)
  BY <1>4, <1>14 DEF PreparedTo, Stopped, OK, DISPATCH_PROTO_ERR, DISPATCH_FATAL_ERR
<1>15. CASE b = [a EXCEPT !.ret = unset] /\ t = <<>>
  <2>1. a \in BatchT
    BY <1>11 DEF Serving
  <2>2. b \in BatchT /\ b.k = a.k /\ b.refused = a.refused /\ b.failed = a.failed
    BY <1>15, <2>1, BatchStops, BatchFields DEF BatchT
  <2>3. a.ret = OK
    <3>1. d = p0
      BY <1>15, NoneDone DEF d
    <3> QED
      BY <1>4, <1>10, <3>1 DEF AnsweredTo, PreparedTo
  <2>4. ASSUME NEW f, NEW how, Begun(k, w, f, Q, how)  PROVE Served(b, w, f, Q2, how)
    <3>1. Kept(a, w, f, Q2, how)
      BY <1>12, <2>4
    <3>2. ~Stopped(a)
      BY <2>3 DEF Stopped, OK, DISPATCH_PROTO_ERR, DISPATCH_FATAL_ERR
    <3> QED
      BY <2>2, <3>1, <3>2 DEF Kept, Served
  <2> QED
    BY <1>11, <2>2, <2>4 DEF Serving, Q2, b
<1>16. CASE b = a
  <2>1. \A f, how : Begun(k, w, f, Q, how) => Served(b, w, f, Q2, how)
    BY <1>12, <1>16, KeptServed
  <2> QED
    BY <1>11, <1>16, <2>1 DEF Q2, b
<1> QED
  BY <1>3, <1>13, <1>14, <1>15, <1>16

-----------------------------------------------------------------------------
(* A connection and its client.                                             *)

(* The connection k, what its client knows of its ids, w, and its requests    *)
(* under way, T, of the n it has sent.                                       *)
Joint(k, w, T, n) ==
  /\ k \in ConnT /\ w \in Views /\ n \in Nat /\ InOrder(T)
  /\ \A p \in 1..Len(T) : T[p].n <= n
  /\ \A i \in ClientIds : w[i].n <= n
  /\ Agrees(k.objects, Whole(k), w, UpToNo(T, Len(T))) /\ Older(k.objects, UpToNo(T, Len(T)))

LEMMA JointRequests ==
  ASSUME NEW k, NEW w, NEW T, NEW n, Joint(k, w, T, n)
  PROVE  UpToNo(T, Len(T)) \in SUBSET RequestT
BY DEF Joint, InOrder, UpToNo

LEMMA JointWith ==
  ASSUME NEW k, NEW k1 \in ConnT, NEW w, NEW T, NEW n, Joint(k, w, T, n),
         Agrees(k1.objects, Whole(k1), w, UpToNo(T, Len(T))),
         \A o \in k1.objects : o \in k.objects \/ o.id \notin ClientIds
  PROVE  Joint(k1, w, T, n)
BY DEF Joint, Older

(* After k its connection is k1; nothing of its stream is lost.              *)
JointNext(k, k1, w, T, n) == Joint(k1, w, T, n) /\ Extends(Whole(k), Whole(k1))

LEMMA FlushJoint ==
  ASSUME NEW k, NEW k1, NEW up, NEW w, NEW T, NEW n, JointNext(k, k1, w, T, n)
  PROVE  JointNext(k, flush(k1, up), w, T, n)
<1>1. k1 \in ConnT
  BY DEF JointNext, Joint
<1>2. /\ flush(k1, up) \in ConnT /\ Whole(flush(k1, up)) = Whole(k1)
      /\ flush(k1, up).objects = k1.objects
  BY <1>1, FlushState
<1> QED
  BY <1>2, JointWith DEF JointNext, Joint

(* An event for an object the client knows under that id, or for one of the   *)
(* server's.                                                                *)
LEMMA PostJoint ==
  ASSUME NEW k, NEW up, NEW w, NEW T, NEW n, Joint(k, w, T, n), NEW e \in EventT,
         e.op \in {"event", "offer", "error"}, e.by = 0,
         e.op = "offer" => e.id \in ServerIds,
         \/ e.id \notin ClientIds
         \/ \E o \in k.objects : e.id = o.id /\ e.n = o.n
  PROVE  JointNext(k, post(k, up, e), w, T, n)
<1> DEFINE Q == UpToNo(T, Len(T))
           k1 == post(k, up, e)
<1>1. k \in ConnT /\ Agrees(k.objects, Whole(k), w, Q)
  BY DEF Joint
<1>2. /\ k1 \in ConnT /\ Whole(k1) = Append(Whole(k), e) /\ k1.objects = k.objects
  BY <1>1, PostState
<1>3. /\ e.id \in ClientIds => e.n = w[e.id].n /\ w[e.id].st # "free"
      /\ \A p \in 1..Len(Whole(k)) : Whole(k)[p].op = "delete_id" => Whole(k)[p].id # e.id
  BY <1>1 DEF Agrees, ObjectsAgree, EventsAgree
<1>4. Agrees(k.objects, Append(Whole(k), e), w, Q)
  BY <1>1, <1>3, WholeSeq, PostAgrees
<1>5. Extends(Whole(k), Append(Whole(k), e))
  BY <1>1, WholeSeq, Appended
<1>6. Joint(k1, w, T, n)
  BY <1>2, <1>4, JointWith
<1> QED
  BY <1>2, <1>5, <1>6 DEF JointNext

LEMMA SendJoint ==
  ASSUME NEW k, NEW up, NEW w, NEW T, NEW n, Joint(k, w, T, n), NEW o \in k.objects
  PROVE  JointNext(k, post(k, up, Event("event", o.id, o.n, 0)), w, T, n)
<1> DEFINE e == Event("event", o.id, o.n, 0)
<1>1. o \in ObjectT
  BY DEF Joint, ConnT
<1>2. e \in EventT /\ e.op = "event" /\ e.by = 0 /\ e.id = o.id /\ e.n = o.n
  BY <1>1 DEF ObjectT, EventT, Event
<1> HIDE DEF e
<1>3. JointNext(k, post(k, up, e), w, T, n)
  BY <1>2, PostJoint
<1> QED
  BY <1>3 DEF e

LEMMA ErrorJoint ==
  ASSUME NEW k, NEW up, NEW w, NEW T, NEW n, Joint(k, w, T, n)
  PROVE  JointNext(k, post(k, up, Event("error", DisplayId, 0, 0)), w, T, n)
<1> DEFINE e == Event("error", DisplayId, 0, 0)
<1>1. e \in EventT /\ e.op = "error" /\ e.by = 0 /\ e.id = DisplayId
  BY DEF EventT, Event, DisplayId
<1> HIDE DEF e
<1>2. JointNext(k, post(k, up, e), w, T, n)
  BY <1>1, IdsApart, PostJoint
<1> QED
  BY <1>2 DEF e

LEMMA FrameJoint ==
  ASSUME NEW k, NEW up, NEW w, NEW T, NEW n, Joint(k, w, T, n), NEW o \in k.objects,
         o.kind = "frame"
  PROVE  JointNext(k, callback_done(k, up, o.id), w, T, n)
<1> DEFINE Q == UpToNo(T, Len(T))
           k1 == callback_done(k, up, o.id)
<1>1. k \in ConnT /\ Agrees(k.objects, Whole(k), w, Q) /\ Older(k.objects, Q)
  BY DEF Joint
<1>2. o.id \in ClientIds
  BY <1>1 DEF Agrees, ObjectsAgree
<1>3. /\ k1 \in ConnT /\ Extends(Whole(k), Whole(k1)) /\ k1.objects = Without(k.objects, o.id)
      /\ Agrees(Without(k.objects, o.id), Whole(k1), w, Q)
  BY <1>1, <1>2, CallbackAgrees
<1> HIDE DEF k1
<1>4. Agrees(k1.objects, Whole(k1), w, Q) /\ \A x \in k1.objects : x \in k.objects
  BY <1>3 DEF Without
<1>5. Joint(k1, w, T, n)
  BY <1>3, <1>4, JointWith
<1> QED
  BY <1>3, <1>5 DEF JointNext, k1

LEMMA OfferJoint ==
  ASSUME NEW k, NEW up, NEW w, NEW T, NEW n, Joint(k, w, T, n)
  PROVE  JointNext(k, post(add_offer(k), up, Event("offer", ServerId(get_free(k.pool)), 0, 0)),
                   w, T, n)
<1> DEFINE bit == get_free(k.pool)
           i == ServerId(bit)
           o == Object(i, "offer", 0)
           d == [k EXCEPT !.pool = @ \cup {bit}]
           k1 == object_add(d, o)
           e == Event("offer", i, 0, 0)
<1>1. bit \in Int /\ i \in ServerIds
  BY FreeBit, WireAssumption DEF ServerIds
<1>2. i \in Int /\ i \notin ClientIds
  BY <1>1, IdsApart
<1>3. o \in ObjectT /\ o.id = i /\ o.kind = "offer"
  BY <1>2 DEF Object, ObjectT, ObjectKinds
<1>4. e \in EventT /\ e.op = "offer" /\ e.by = 0 /\ e.id = i
  BY <1>2 DEF EventT, Event
<1>5. k \in ConnT /\ Agrees(k.objects, Whole(k), w, UpToNo(T, Len(T)))
  BY DEF Joint
<1>6. add_offer(k) = k1
  BY DEF add_offer
<1> HIDE DEF bit, i, o, e
<1>7. d \in ConnT /\ d.objects = k.objects /\ Whole(d) = Whole(k)
  BY <1>1, <1>5 DEF ConnT, Whole
<1> HIDE DEF d
<1>8. k1 \in ConnT /\ k1.objects = k.objects \cup {o} /\ Whole(k1) = Whole(k)
  BY <1>3, <1>7, AddState
<1> HIDE DEF k1
<1>9. Agrees(k.objects \cup {o}, Whole(k), w, UpToNo(T, Len(T)))
  <2> DEFINE objs == k.objects \cup {o}
             Q == UpToNo(T, Len(T))
  <2>1. ObjectsAgree(objs, w)
    BY <1>2, <1>3, <1>5 DEF Agrees, ObjectsAgree
  <2>2. EventsAgree(objs, Whole(k), w, Q)
    BY <1>2, <1>3, <1>5 DEF Agrees, EventsAgree
  <2>3. RequestsAgree(objs, w, Q)
    BY <1>2, <1>3, <1>5 DEF Agrees, RequestsAgree
  <2> QED
    BY <2>1, <2>2, <2>3 DEF Agrees
<1>10. Joint(k1, w, T, n)
  BY <1>2, <1>3, <1>8, <1>9, JointWith
<1>11. JointNext(k1, post(k1, up, e), w, T, n)
  BY <1>1, <1>2, <1>4, <1>10, PostJoint
<1>12. JointNext(k, post(k1, up, e), w, T, n)
  BY <1>8, <1>11 DEF JointNext
<1> QED
  BY <1>6, <1>12 DEF e, i, bit

LEMMA FreedState ==
  ASSUME NEW k \in ConnT
  PROVE  LET k1 == [Fresh EXCEPT !.wire = k.wire]
         IN  /\ k1 \in ConnT /\ k1.objects = {Object(DisplayId, "display", 0)} /\ k1.pool = {}
             /\ Whole(k1) = k.wire
<1> DEFINE k1 == [Fresh EXCEPT !.wire = k.wire]
           D == {Object(DisplayId, "display", 0)}
<1>1. k.wire \in Seq(EventT) /\ <<>> \in Seq(EventT)
  BY DEF ConnT
<1>2. D \subseteq ObjectT
  BY DEF Object, ObjectT, ObjectKinds, DisplayId
<1>3. k1 = [objects |-> D, pool |-> {}, buffer |-> <<>>, wire |-> k.wire]
  <2> DEFINE none == <<>>
             F == [objects |-> D, pool |-> {}, buffer |-> none, wire |-> none]
  <2>1. Fresh = F
    BY DEF Fresh
  <2> HIDE DEF none, D
  <2>2. [F EXCEPT !.wire = k.wire] = [objects |-> D, pool |-> {}, buffer |-> none, wire |-> k.wire]
    OBVIOUS
  <2> QED
    BY <2>1, <2>2 DEF none
<1> HIDE DEF k1, D
<1>4. /\ k1 \in ConnT /\ k1.objects = D /\ k1.pool = {} /\ k1.buffer = <<>> /\ k1.wire = k.wire
  BY <1>1, <1>2, <1>3 DEF ConnT
<1>5. Whole(k1) = k.wire
  BY <1>1, <1>4, ConcatEmpty DEF Whole
<1> QED
  BY <1>4, <1>5 DEF k1, D

(* What is on the wire comes first.                                         *)
LEMMA WireFirst ==
  ASSUME NEW k \in ConnT
  PROVE  /\ Len(k.wire) \in Nat /\ Len(Whole(k)) \in Nat /\ Len(k.wire) <= Len(Whole(k))
         /\ \A p \in 1..Len(k.wire) : /\ p \in 1..Len(Whole(k)) /\ Whole(k)[p] = k.wire[p]
                                      /\ \A q \in p + 1..Len(k.wire) :
                                           /\ q \in p + 1..Len(Whole(k))
                                           /\ Whole(k)[q] = k.wire[q]
<1>1. \A s, t \in Seq(EventT) :
        /\ Len(s) \in Nat /\ Len(s \o t) \in Nat /\ Len(s) <= Len(s \o t)
        /\ \A p \in 1..Len(s) : (s \o t)[p] = s[p]
  OBVIOUS
<1>2. /\ Len(k.wire) \in Nat /\ Len(Whole(k)) \in Nat /\ Len(k.wire) <= Len(Whole(k))
      /\ \A p \in 1..Len(k.wire) : Whole(k)[p] = k.wire[p]
  BY <1>1 DEF Whole, ConnT
<1> QED
  BY <1>2

LEMMA FreedJoint ==
  ASSUME NEW k, NEW w, NEW T, NEW n, Joint(k, w, T, n)
  PROVE  Joint([Fresh EXCEPT !.wire = k.wire], w, T, n)
<1> DEFINE k1 == [Fresh EXCEPT !.wire = k.wire]
           Q == UpToNo(T, Len(T))
           D == {Object(DisplayId, "display", 0)}
<1>1. k \in ConnT /\ Agrees(k.objects, Whole(k), w, Q)
  BY DEF Joint
<1>2. \A o \in D : o.kind = "display" /\ o.id \notin ClientIds
  BY IdsApart DEF Object
<1>3. k1 \in ConnT /\ k1.objects = D /\ Whole(k1) = k.wire
  BY <1>1, FreedState
<1> HIDE DEF k1, D
<1>4. EventsAgree(D, k.wire, w, Q)
  <2>1. \A p \in 1..Len(k.wire) : /\ p \in 1..Len(Whole(k)) /\ Whole(k)[p] = k.wire[p]
                                  /\ \A q \in p + 1..Len(k.wire) :
                                       /\ q \in p + 1..Len(Whole(k))
                                       /\ Whole(k)[q] = k.wire[q]
    BY <1>1, WireFirst
  <2> QED
    BY <1>1, <1>2, <2>1, SMTT(30) DEF Agrees, EventsAgree
<1>5. ObjectsAgree(D, w) /\ RequestsAgree(D, w, Q)
  BY <1>1, <1>2 DEF Agrees, ObjectsAgree, RequestsAgree
<1>6. Agrees(k1.objects, Whole(k1), w, Q) /\ \A o \in k1.objects : o.id \notin ClientIds
  BY <1>2, <1>3, <1>4, <1>5 DEF Agrees
<1>7. Joint(k1, w, T, n)
  BY <1>3, <1>6, JointWith
<1> QED
  BY <1>7 DEF k1

-----------------------------------------------------------------------------
(* A batch is read.                                                         *)

LEMMA Split ==
  ASSUME NEW S, NEW T \in Seq(S), NEW m \in 0..Len(T)
  PROVE  /\ SubSeq(T, 1, m) \in Seq(S) /\ Len(SubSeq(T, 1, m)) = m
         /\ \A p \in 1..m : SubSeq(T, 1, m)[p] = T[p]
         /\ SubSeq(T, m + 1, Len(T)) \in Seq(S) /\ Len(SubSeq(T, m + 1, Len(T))) = Len(T) - m
         /\ \A p \in 1..Len(T) - m : SubSeq(T, m + 1, Len(T))[p] = T[m + p]
OBVIOUS

LEMMA ReadJoint ==
  ASSUME NEW k, NEW w, NEW T, NEW n, Joint(k, w, T, n), NEW up \in BOOLEAN,
         NEW m \in 0..Len(T), NEW unset \in Int
  PROVE  LET b == connection_dispatch(k, up, SubSeq(T, 1, m), unset)
             rest == SubSeq(T, m + 1, Len(T))
         IN  /\ b \in BatchT /\ JointNext(k, b.k, w, rest, n) /\ Joint(k, w, rest, n)
             /\ UpToNo(rest, Len(rest)) \subseteq UpToNo(T, Len(T))
             /\ \A f, how : Begun(k, w, f, UpToNo(T, Len(T)), how) =>
                  Served(b, w, f, UpToNo(rest, Len(rest)), how)
<1> DEFINE batch == SubSeq(T, 1, m)
           rest == SubSeq(T, m + 1, Len(T))
           b == connection_dispatch(k, up, batch, unset)
           Q == UpToNo(T, Len(T))
           Q1 == UpToNo(rest, Len(rest))
           Q2 == Q \ UpToNo(batch, Len(batch))
<1>1. /\ k \in ConnT /\ T \in Seq(RequestT) /\ Len(T) \in Nat /\ m \in Nat /\ m <= Len(T)
      /\ \A p, q \in 1..Len(T) : p < q => T[p].n < T[q].n
      /\ \A p \in 1..Len(T) : T[p] \in RequestT
      /\ Agrees(k.objects, Whole(k), w, Q) /\ Older(k.objects, Q)
  BY DEF Joint, InOrder
<1>2. /\ batch \in Seq(RequestT) /\ Len(batch) = m /\ \A p \in 1..m : batch[p] = T[p]
      /\ rest \in Seq(RequestT) /\ Len(rest) = Len(T) - m
      /\ \A p \in 1..Len(T) - m : rest[p] = T[m + p]
  BY <1>1, Split
<1> HIDE DEF batch, rest
<1>3. InOrder(batch)
  <2>1. \A p \in 1..m : p \in 1..Len(T)
    BY <1>1
  <2> QED
    BY <1>1, <1>2, <2>1 DEF InOrder
<1>4. InOrder(rest)
  <2>1. \A p, q \in 1..Len(rest) : p < q =>
          m + p \in 1..Len(T) /\ m + q \in 1..Len(T) /\ m + p < m + q
    BY <1>1, <1>2
  <2> QED
    BY <1>1, <1>2, <2>1 DEF InOrder
<1>5. Q \in SUBSET RequestT
  BY JointRequests
<1>6. Read(batch, Q)
  <2>1. UpToNo(batch, Len(batch)) \subseteq Q
    BY <1>1, <1>2 DEF UpToNo
  <2>2. ASSUME NEW r \in Q2, NEW p \in 1..Len(batch)  PROVE r.n > batch[p].n
    <3>1. PICK q \in 1..Len(T) : r = T[q]
      BY DEF UpToNo
    <3>2. q > m
      <4>1. q \in 1..m => r \in UpToNo(batch, Len(batch))
        BY <1>2, <3>1 DEF UpToNo
      <4> QED
        BY <1>1, <4>1
    <3>3. p \in 1..Len(T) /\ p < q /\ batch[p] = T[p]
      BY <1>1, <1>2, <3>2
    <3>4. T[p].n < T[q].n /\ T[p] \in RequestT /\ T[q] \in RequestT
      BY <1>1, <3>3
    <3> QED
      BY <3>1, <3>3, <3>4 DEF RequestT
  <2> QED
    BY <1>3, <2>1, <2>2 DEF Read
<1>7. Q1 \subseteq Q2
  <2> SUFFICES ASSUME NEW p \in 1..Len(rest)  PROVE rest[p] \in Q2
    BY DEF UpToNo
  <2>1. m + p \in 1..Len(T) /\ rest[p] = T[m + p] /\ T[m + p] \in RequestT
    BY <1>1, <1>2
  <2>2. ASSUME NEW q \in 1..Len(batch)  PROVE batch[q] # rest[p]
    <3>1. batch[q] = T[q] /\ q \in 1..Len(T) /\ q < m + p
      BY <1>1, <1>2
    <3>2. T[q].n < T[m + p].n
      BY <1>1, <2>1, <3>1
    <3> QED
      BY <2>1, <3>1, <3>2 DEF RequestT
  <2> QED
    BY <2>1, <2>2 DEF UpToNo
<1>8. /\ Serving(b, k, w, Q2) /\ Older(b.k.objects, Q2)
      /\ \A f, how : Begun(k, w, f, Q, how) => Served(b, w, f, Q2, how)
  BY <1>1, <1>5, <1>6, BatchServed
<1> HIDE DEF b, Q2
<1>9. b \in BatchT /\ b.k \in ConnT /\ Extends(Whole(k), Whole(b.k))
  BY <1>8 DEF Serving, BatchT
<1>10. Agrees(b.k.objects, Whole(b.k), w, Q1) /\ Older(b.k.objects, Q1)
  BY <1>7, <1>8, FewerAgree DEF Serving, Older
<1>11. Agrees(k.objects, Whole(k), w, Q1) /\ Older(k.objects, Q1)
  BY <1>1, <1>7, FewerAgree DEF Older, Q2
<1>12. \A p \in 1..Len(rest) : rest[p].n <= n
  <2>1. \A p \in 1..Len(rest) : m + p \in 1..Len(T) /\ rest[p] = T[m + p]
    <3> TAKE p \in 1..Len(rest)
    <3>1. p \in 1..Len(T) - m
      BY <1>2
    <3> QED
      BY <1>1, <1>2, <3>1
  <2> QED
    BY <2>1 DEF Joint
<1>13. Joint(k, w, rest, n) /\ Joint(b.k, w, rest, n)
  BY <1>4, <1>9, <1>10, <1>11, <1>12 DEF Joint
<1>14. Q2 = Q1
  <2> SUFFICES ASSUME NEW r \in Q2  PROVE r \in Q1
    BY <1>7
  <2>1. PICK q \in 1..Len(T) : r = T[q]
    BY DEF Q2, UpToNo
  <2>2. q > m
    <3>1. q \in 1..m => r \in UpToNo(batch, Len(batch))
      BY <1>2, <2>1 DEF UpToNo
    <3> QED
      BY <1>1, <3>1 DEF Q2
  <2>3. q - m \in 1..Len(rest) /\ rest[q - m] = T[m + (q - m)] /\ m + (q - m) = q
    <3>1. q - m \in 1..Len(T) - m /\ m + (q - m) = q
      BY <1>1, <2>2
    <3> QED
      BY <1>2, <3>1
  <2> QED
    BY <2>1, <2>3 DEF UpToNo
<1>15. Q1 \subseteq Q
  BY <1>7 DEF Q2
<1> QED
  BY <1>8, <1>9, <1>13, <1>14, <1>15 DEF JointNext, b, batch, rest

-----------------------------------------------------------------------------
(* What the client does.                                                    *)

LEMMA OneMore ==
  ASSUME NEW S, NEW T \in Seq(S), NEW r \in S
  PROVE  UpToNo(Append(T, r), Len(Append(T, r))) = UpToNo(T, Len(T)) \cup {r}
<1> DEFINE V == Append(T, r)
<1>1. /\ V \in Seq(S) /\ Len(T) \in Nat /\ Len(V) = Len(T) + 1
      /\ \A p \in 1..Len(T) + 1 : V[p] = IF p = Len(T) + 1 THEN r ELSE T[p]
  OBVIOUS
<1> HIDE DEF V
<1>2. 1..Len(V) = 1..Len(T) \cup {Len(T) + 1} /\ V[Len(T) + 1] = r
  BY <1>1
<1>3. \A p \in 1..Len(T) : V[p] = T[p]
  BY <1>1
<1>4. UpToNo(V, Len(V)) = UpToNo(T, Len(T)) \cup {r}
  BY <1>2, <1>3 DEF UpToNo
<1> QED
  BY <1>4 DEF V

LEMMA SentJoint ==
  ASSUME NEW k, NEW w, NEW w1 \in Views, NEW T, NEW n, Joint(k, w, T, n),
         NEW r \in RequestT, r.n = n + 1,
         \A i \in ClientIds : w1[i].n <= n + 1,
         Agrees(k.objects, Whole(k), w1, UpToNo(T, Len(T)) \cup {r})
  PROVE  Joint(k, w1, Append(T, r), n + 1)
<1> DEFINE V == Append(T, r)
           Q == UpToNo(T, Len(T))
<1>1. /\ k \in ConnT /\ n \in Nat /\ T \in Seq(RequestT) /\ Len(T) \in Nat
      /\ \A p, q \in 1..Len(T) : p < q => T[p].n < T[q].n
      /\ \A p \in 1..Len(T) : T[p].n <= n /\ T[p] \in RequestT
  BY DEF Joint, InOrder
<1>2. /\ V \in Seq(RequestT) /\ Len(V) = Len(T) + 1
      /\ \A p \in 1..Len(T) + 1 : V[p] = IF p = Len(T) + 1 THEN r ELSE T[p]
  BY <1>1
<1> HIDE DEF V
<1>3. \A p \in 1..Len(T) : T[p].n \in Int
  BY <1>1 DEF RequestT
<1>4. \A p \in 1..Len(V) : V[p].n <= n + 1
  BY <1>1, <1>2, <1>3
<1>5. InOrder(V)
  <2> SUFFICES ASSUME NEW p \in 1..Len(V), NEW q \in 1..Len(V), p < q
               PROVE  V[p].n < V[q].n
    BY <1>2 DEF InOrder
  <2>1. p \in 1..Len(T) /\ V[p] = T[p]
    BY <1>1, <1>2
  <2>2. CASE q = Len(T) + 1
    BY <1>1, <1>2, <1>3, <2>1, <2>2
  <2>3. CASE q # Len(T) + 1
    BY <1>1, <1>2, <2>1, <2>3
  <2> QED
    BY <2>2, <2>3
<1>6. UpToNo(V, Len(V)) = Q \cup {r}
  BY <1>1, OneMore DEF V
<1>7. Older(k.objects, Q \cup {r})
  <2> SUFFICES ASSUME NEW o \in k.objects, o.id \in ClientIds PROVE o.n < n + 1
    BY DEF Joint, Older
  <2>1. o.n = w[o.id].n /\ w[o.id].n <= n /\ o \in ObjectT
    BY <1>1 DEF Joint, Agrees, ObjectsAgree, ConnT
  <2> QED
    BY <1>1, <2>1 DEF ObjectT
<1> QED
  BY <1>1, <1>4, <1>5, <1>6, <1>7 DEF Joint, V

(* An id that is free names nothing.                                        *)
LEMMA FreeNamesNothing ==
  ASSUME NEW objs, NEW W, NEW w, NEW Q, Agrees(objs, W, w, Q), NEW i \in ClientIds,
         w[i].st = "free"
  PROVE  /\ \A o \in objs : o.id # i
         /\ \A p \in 1..Len(W) : W[p].id # i
         /\ \A r \in Q : r.id # i
<1>1. \A o \in objs : o.id # i
  BY DEF Agrees, ObjectsAgree
<1>2. \A p \in 1..Len(W) : W[p].id # i
  BY DEF Agrees, EventsAgree
<1>3. \A r \in Q : r.id # i
  BY DEF Agrees, RequestsAgree
<1> QED
  BY <1>1, <1>2, <1>3

LEMMA LaterThanDone ==
  ASSUME NEW k, NEW w, NEW T, NEW n, Joint(k, w, T, n)
  PROVE  \A p \in 1..Len(Whole(k)) : Whole(k)[p].op = "done" => n + 1 > Whole(k)[p].n
<1> SUFFICES ASSUME NEW p \in 1..Len(Whole(k)), Whole(k)[p].op = "done"
             PROVE  n + 1 > Whole(k)[p].n
  OBVIOUS
<1>1. Whole(k)[p].id \in ClientIds /\ Whole(k)[p].n = w[Whole(k)[p].id].n
  BY DEF Joint, Agrees, EventsAgree
<1>2. Whole(k)[p].n <= n /\ n \in Nat
  BY <1>1 DEF Joint
<1>3. Whole(k)[p].n \in Int
  <2>1. Whole(k) \in Seq(EventT)
    BY WholeSeq DEF Joint
  <2>2. Whole(k)[p] \in EventT
    BY <2>1
  <2> QED
    BY <2>2 DEF EventT
<1> QED
  BY <1>2, <1>3

(* An object is asked for.                                                  *)
LEMMA CreateSent ==
  ASSUME NEW k, NEW w, NEW w1 \in Views, NEW T, NEW n, Joint(k, w, T, n),
         NEW r \in RequestT, r.n = n + 1, Creates(r), r.id \in ClientIds,
         w[r.id].st = "free", w1[r.id].st = Kinds[r.op], w1[r.id].n = n + 1,
         \A j \in ClientIds \ {r.id} : w1[j] = w[j]
  PROVE  Joint(k, w1, Append(T, r), n + 1)
<1> DEFINE i == r.id
           Q == UpToNo(T, Len(T))
           W == Whole(k)
<1>1. Agrees(k.objects, W, w, Q) /\ n \in Nat /\ w \in Views
  BY DEF Joint
<1>2. /\ \A o \in k.objects : o.id # i
      /\ \A p \in 1..Len(W) : W[p].id # i
      /\ \A s \in Q : s.id # i
  BY <1>1, FreeNamesNothing
<1>3. \A p \in 1..Len(W) : W[p].op = "done" => n + 1 > W[p].n
  BY LaterThanDone
<1> HIDE DEF Q, W
<1>4. ObjectsAgree(k.objects, w1)
  BY <1>1, <1>2 DEF Agrees, ObjectsAgree
<1>5. EventsAgree(k.objects, W, w1, Q \cup {r})
  BY <1>1, <1>2, <1>3 DEF Agrees, EventsAgree
<1>6. RequestsAgree(k.objects, w1, Q \cup {r})
  <2>1. /\ w1[i].st # "free" /\ i \notin ServerIds
        /\ r.op = "create" => w1[i].st = "object"
        /\ r.op # "create" => w1[i].st # "object"
    BY KindOf, IdsApart
  <2> QED
    BY <1>1, <1>2, <2>1 DEF Agrees, RequestsAgree
<1>7. \A j \in ClientIds : w1[j].n <= n + 1
  <2> TAKE j \in ClientIds
  <2>1. j # i => w[j].n <= n /\ w1[j] = w[j]
    BY DEF Joint
  <2>2. w1[j].n \in Int
    BY DEF Views, ViewT
  <2> QED
    BY <1>1, <2>1, <2>2
<1> QED
  BY <1>4, <1>5, <1>6, <1>7, SentJoint DEF Agrees, Q, W

(* A request for an object of the client's; it destroys it or not.           *)
LEMMA AskSent ==
  ASSUME NEW k, NEW w, NEW w1 \in Views, NEW T, NEW n, Joint(k, w, T, n),
         NEW r \in RequestT, r.n = n + 1, ~Creates(r), r.id \in ClientIds,
         w[r.id].st = "object",
         w1[r.id].st = IF r.op = "destroy" THEN "gone" ELSE "object", w1[r.id].n = w[r.id].n,
         \A j \in ClientIds \ {r.id} : w1[j] = w[j]
  PROVE  Joint(k, w1, Append(T, r), n + 1)
<1> DEFINE i == r.id
           Q == UpToNo(T, Len(T))
           W == Whole(k)
<1>1. /\ Agrees(k.objects, W, w, Q) /\ n \in Nat /\ w \in Views
      /\ \A s \in Q : s \in RequestT /\ s.n <= n
  <2>1. Q \in SUBSET RequestT
    BY JointRequests
  <2>2. \A s \in Q : s.n <= n
    BY DEF Joint, UpToNo
  <2> QED
    BY <2>1, <2>2 DEF Joint
<1>2. \A s \in Q : s.n < n + 1
  BY <1>1 DEF RequestT
<1>3. \A p \in 1..Len(W) : W[p].op = "done" => n + 1 > W[p].n
  BY LaterThanDone
<1> HIDE DEF Q, W
<1>4. ObjectsAgree(k.objects, w1)
  BY <1>1 DEF Agrees, ObjectsAgree
<1>5. EventsAgree(k.objects, W, w1, Q \cup {r})
  <2>1. \A p \in 1..Len(W) : W[p].op = "delete_id" => W[p].id # i
    BY <1>1 DEF Agrees, EventsAgree
  <2>2. \A p \in 1..Len(W) : W[p].id \in ClientIds =>
          /\ w1[W[p].id].n = w[W[p].id].n
          /\ w[W[p].id].st # "free" => w1[W[p].id].st # "free"
    OBVIOUS
  <2> QED
    BY <1>1, <1>3, <2>1, <2>2 DEF Agrees, EventsAgree
<1>6. RequestsAgree(k.objects, w1, Q \cup {r})
  <2>1. ASSUME NEW s \in Q
        PROVE  /\ s.id \in ClientIds => w1[s.id].st # "free"
               /\ Creates(s) =>
                    /\ s.id \in ClientIds /\ s.n = w1[s.id].n
                    /\ s.op = "create" => w1[s.id].st \in {"object", "gone"}
                    /\ s.op # "create" => w1[s.id].st # "object"
                    /\ \A o \in k.objects : o.id # s.id
                    /\ \A q \in Q \cup {r} : q.id = s.id /\ q # s =>
                         s.op = "create" /\ ~Creates(q) /\ q.n > s.n
               /\ ~Creates(s) /\ s.id \in ClientIds =>
                    /\ w1[s.id].st \in {"object", "gone"}
                    /\ \A o \in k.objects : o.id = s.id => o.kind = "object"
                    /\ s.op = "destroy" => /\ w1[s.id].st = "gone"
                                           /\ \A q \in Q \cup {r} : q.id = s.id => q.n <= s.n
               /\ s.id \in ServerIds => s.op = "destroy"
    <3>1. CASE s.id = i
      <4>1. ~(s.op = "destroy" /\ ~Creates(s))
        BY <1>1, <3>1 DEF Agrees, RequestsAgree
      <4>2. Creates(s) => s.op = "create" /\ n + 1 > s.n
        BY <1>1, <1>2, <3>1 DEF Agrees, RequestsAgree, RequestT
      <4> QED
        BY <1>1, <3>1, <4>1, <4>2 DEF Agrees, RequestsAgree
    <3>2. CASE s.id # i
      <4>1. s.id \in ClientIds => w1[s.id] = w[s.id]
        BY <3>2
      <4> QED
        BY <1>1, <3>2, <4>1 DEF Agrees, RequestsAgree
    <3> QED
      BY <3>1, <3>2
  <2>2. /\ w1[i].st \in {"object", "gone"} /\ i \notin ServerIds
        /\ \A o \in k.objects : o.id = i => o.kind = "object"
        /\ r.op = "destroy" => w1[i].st = "gone"
        /\ \A q \in Q \cup {r} : q.n <= r.n
    <3>1. \A o \in k.objects : o.id = i => o.kind = "object"
      BY <1>1 DEF Agrees, ObjectsAgree
    <3>2. \A q \in Q \cup {r} : q.n <= r.n
      BY <1>1, <1>2 DEF RequestT
    <3> QED
      BY <3>1, <3>2, IdsApart
  <2> QED
    BY <2>1, <2>2 DEF RequestsAgree
<1>7. \A j \in ClientIds : w1[j].n <= n + 1
  <2> TAKE j \in ClientIds
  <2>1. w[j].n <= n /\ w1[j].n = w[j].n
    BY DEF Joint
  <2>2. w[j].n \in Int
    BY <1>1 DEF Views, ViewT
  <2> QED
    BY <1>1, <2>1, <2>2
<1> QED
  BY <1>4, <1>5, <1>6, <1>7, SentJoint DEF Agrees, Q, W

(* An offer is destroyed.                                                   *)
LEMMA DropSent ==
  ASSUME NEW k, NEW w, NEW T, NEW n, Joint(k, w, T, n),
         NEW r \in RequestT, r.n = n + 1, r.op = "destroy", r.id \in ServerIds
  PROVE  Joint(k, w, Append(T, r), n + 1)
<1> DEFINE Q == UpToNo(T, Len(T))
           W == Whole(k)
<1>1. Agrees(k.objects, W, w, Q) /\ n \in Nat /\ w \in Views
  BY DEF Joint
<1>2. ~Creates(r) /\ r.id \notin ClientIds
  BY KindOf, IdsApart
<1>3. \A p \in 1..Len(W) : W[p].op = "done" => n + 1 > W[p].n
  BY LaterThanDone
<1> HIDE DEF Q, W
<1>4. ObjectsAgree(k.objects, w)
  BY <1>1 DEF Agrees
<1>5. EventsAgree(k.objects, W, w, Q \cup {r})
  BY <1>1, <1>2, <1>3 DEF Agrees, EventsAgree
<1>6. RequestsAgree(k.objects, w, Q \cup {r})
  BY <1>1, <1>2 DEF Agrees, RequestsAgree
<1>7. \A j \in ClientIds : w[j].n <= n + 1
  <2> TAKE j \in ClientIds
  <2>1. w[j].n <= n
    BY DEF Joint
  <2>2. w[j].n \in Int
    BY <1>1 DEF Views, ViewT
  <2> QED
    BY <1>1, <2>1, <2>2
<1> QED
  BY <1>1, <1>4, <1>5, <1>6, <1>7, SentJoint DEF Agrees, Q, W

-----------------------------------------------------------------------------
(* The client takes the first event.                                        *)

LEMMA Tails ==
  ASSUME NEW S, NEW s \in Seq(S), NEW t \in Seq(S), s # <<>>
  PROVE  /\ Tail(s) \in Seq(S) /\ Head(s) \in S /\ Head(s \o t) = Head(s)
         /\ s \o t # <<>> /\ Tail(s) \o t = Tail(s \o t)
OBVIOUS

LEMMA TakeState ==
  ASSUME NEW k \in ConnT, k.wire # <<>>
  PROVE  LET k1 == [k EXCEPT !.wire = Tail(@)]
         IN  /\ k1 \in ConnT /\ k1.objects = k.objects
             /\ Whole(k) # <<>> /\ Whole(k1) = Tail(Whole(k))
             /\ Head(k.wire) \in EventT /\ Head(k.wire) = Head(Whole(k))
<1> DEFINE k1 == [k EXCEPT !.wire = Tail(@)]
<1>1. k.wire \in Seq(EventT) /\ k.buffer \in Seq(EventT)
  BY DEF ConnT
<1>2. \A s, t \in Seq(EventT) : s # <<>> =>
        /\ Tail(s) \in Seq(EventT) /\ Head(s) \in EventT /\ Head(s \o t) = Head(s)
        /\ s \o t # <<>> /\ Tail(s) \o t = Tail(s \o t)
  BY Tails
<1>3. /\ Tail(k.wire) \in Seq(EventT) /\ Head(k.wire) \in EventT
      /\ Head(k.wire \o k.buffer) = Head(k.wire) /\ k.wire \o k.buffer # <<>>
      /\ Tail(k.wire) \o k.buffer = Tail(k.wire \o k.buffer)
  BY <1>1, <1>2
<1>4. /\ k1 \in ConnT /\ k1.objects = k.objects /\ k1.buffer = k.buffer
      /\ k1.wire = Tail(k.wire)
  BY <1>3 DEF ConnT
<1> HIDE DEF k1
<1>5. Whole(k1) = Tail(Whole(k))
  BY <1>3, <1>4 DEF Whole
<1> QED
  BY <1>3, <1>4, <1>5 DEF Whole, k1

LEMMA TailEvents ==
  ASSUME NEW W \in Seq(EventT), W # <<>>
  PROVE  /\ Len(Tail(W)) \in Nat /\ Len(W) = Len(Tail(W)) + 1
         /\ \A p \in 1..Len(Tail(W)) : p + 1 \in 1..Len(W) /\ Tail(W)[p] = W[p + 1]
         /\ Head(W) = W[1] /\ 1 \in 1..Len(W)
OBVIOUS

LEMMA TailAgrees ==
  ASSUME NEW objs, NEW W \in Seq(EventT), W # <<>>, NEW w, NEW Q, Agrees(objs, W, w, Q)
  PROVE  Agrees(objs, Tail(W), w, Q)
<1> DEFINE V == Tail(W)
<1>1. /\ Len(V) \in Nat /\ Len(W) = Len(V) + 1
      /\ \A p \in 1..Len(V) : p + 1 \in 1..Len(W) /\ V[p] = W[p + 1]
  BY TailEvents
<1> HIDE DEF V
<1>2. \A p \in 1..Len(V) : \A q \in p + 1..Len(V) : q + 1 \in (p + 1) + 1..Len(W) /\ V[q] = W[q + 1]
  BY <1>1
<1>3. EventsAgree(objs, V, w, Q)
  <2> SUFFICES ASSUME NEW p \in 1..Len(V)
               PROVE  /\ V[p].op # "delete_id" /\ V[p].id \in ClientIds =>
                           V[p].n = w[V[p].id].n /\ w[V[p].id].st # "free"
                      /\ V[p].op = "offer" => V[p].id \in ServerIds
                      /\ V[p].op = "delete_id" =>
                           /\ V[p].id \in ClientIds /\ w[V[p].id].st \notin {"free", "object"}
                           /\ \A o \in objs : o.id # V[p].id
                           /\ \A r \in Q : r.id # V[p].id
                           /\ \A q \in p + 1..Len(V) : V[q].id # V[p].id
                      /\ V[p].op = "done" =>
                           /\ V[p].id \in ClientIds
                           /\ \A r \in Q : r.n > V[p].n
                           /\ \A q \in p + 1..Len(V) : V[q].by = 0 \/ V[q].by > V[p].n
    BY DEF EventsAgree
  <2>1. p + 1 \in 1..Len(W) /\ V[p] = W[p + 1]
    BY <1>1
  <2> DEFINE j == p + 1
  <2>2. \A q \in p + 1..Len(V) : \E i \in j + 1..Len(W) : V[q] = W[i]
    BY <1>2
  <2> HIDE DEF j
  <2>3. j \in 1..Len(W) /\ V[p] = W[j]
    BY <2>1 DEF j
  <2> QED
    BY <2>2, <2>3 DEF Agrees, EventsAgree
<1> QED
  BY <1>3 DEF Agrees, V

(* A callback is done: its id waits for delete_id.                           *)
LEMMA DoneTaken ==
  ASSUME NEW objs, NEW W, NEW w, NEW Q, Agrees(objs, W, w, Q), NEW i \in ClientIds, NEW w1,
         w1[i].st = "gone", w1[i].n = w[i].n, \A j \in ClientIds \ {i} : w1[j] = w[j],
         w[i].st # "free"
  PROVE  Agrees(objs, W, w1, Q)
<1>1. \A j \in ClientIds : /\ w1[j].n = w[j].n /\ (w[j].st # "free" => w1[j].st # "free")
                           /\ w1[j].st = w[j].st \/ w1[j].st = "gone"
  OBVIOUS
<1>2. ObjectsAgree(objs, w1)
  BY <1>1 DEF Agrees, ObjectsAgree
<1>3. EventsAgree(objs, W, w1, Q)
  BY <1>1 DEF Agrees, EventsAgree
<1>4. RequestsAgree(objs, w1, Q)
  BY <1>1 DEF Agrees, RequestsAgree
<1> QED
  BY <1>2, <1>3, <1>4 DEF Agrees

(* An id that names nothing any more is free again.                          *)
LEMMA DeleteTaken ==
  ASSUME NEW objs, NEW W, NEW w, NEW Q, Agrees(objs, W, w, Q), NEW i \in ClientIds, NEW w1,
         \A j \in ClientIds \ {i} : w1[j] = w[j],
         \A o \in objs : o.id # i, \A p \in 1..Len(W) : W[p].id # i, \A r \in Q : r.id # i
  PROVE  Agrees(objs, W, w1, Q)
<1>1. ObjectsAgree(objs, w1)
  BY DEF Agrees, ObjectsAgree
<1>2. EventsAgree(objs, W, w1, Q)
  BY DEF Agrees, EventsAgree
<1>3. RequestsAgree(objs, w1, Q)
  BY DEF Agrees, RequestsAgree
<1> QED
  BY <1>1, <1>2, <1>3 DEF Agrees

(* What an event changes of what the client knows.                           *)
Learns(w, w1, e) ==
  \/ e.op \notin {"done", "delete_id"} /\ w1 = w
  \/ /\ \A j \in ClientIds \ {e.id} : w1[j] = w[j]
     /\ \/ e.op = "done" /\ w1[e.id].st = "gone" /\ w1[e.id].n = w[e.id].n
        \/ e.op = "delete_id" /\ w1[e.id].st = "free" /\ w1[e.id].n = 0

LEMMA ReceiveJoint ==
  ASSUME NEW k, NEW w, NEW w1 \in Views, NEW T, NEW n, Joint(k, w, T, n), k.wire # <<>>,
         Learns(w, w1, Head(k.wire))
  PROVE  Joint([k EXCEPT !.wire = Tail(@)], w1, T, n)
<1> DEFINE k1 == [k EXCEPT !.wire = Tail(@)]
           e == Head(k.wire)
           W == Whole(k)
           V == Tail(W)
           Q == UpToNo(T, Len(T))
<1>1. k \in ConnT /\ Agrees(k.objects, W, w, Q) /\ W \in Seq(EventT) /\ n \in Nat /\ w \in Views
  BY WholeSeq DEF Joint
<1>2. k1 \in ConnT /\ k1.objects = k.objects /\ W # <<>> /\ Whole(k1) = V /\ e = Head(W)
  BY <1>1, TakeState
<1>3. /\ e = W[1] /\ 1 \in 1..Len(W)
      /\ \A p \in 1..Len(V) : p + 1 \in 1 + 1..Len(W) /\ V[p] = W[p + 1]
  BY <1>1, <1>2, TailEvents
<1>4. Agrees(k.objects, V, w, Q)
  BY <1>1, <1>2, TailAgrees
<1> HIDE DEF k1, e, W, Q, V
<1>5. /\ Agrees(k.objects, V, w1, Q)
      /\ \A j \in ClientIds : w1[j].n <= n
  <2>0. \A j \in ClientIds : w[j].n <= n
    BY DEF Joint
  <2>1. CASE e.op = "done"
    <3>1. e.id \in ClientIds /\ w[e.id].st # "free"
      BY <1>1, <1>3, <2>1 DEF Agrees, EventsAgree
    <3>2. /\ w1[e.id].st = "gone" /\ w1[e.id].n = w[e.id].n
          /\ \A j \in ClientIds \ {e.id} : w1[j] = w[j]
      BY <2>1 DEF Learns, e
    <3>3. Agrees(k.objects, V, w1, Q)
      BY <1>4, <3>1, <3>2, DoneTaken
    <3> QED
      BY <2>0, <3>2, <3>3
  <2>2. CASE e.op = "delete_id"
    <3>1. /\ e.id \in ClientIds /\ \A o \in k.objects : o.id # e.id
          /\ \A r \in Q : r.id # e.id
          /\ \A q \in 1 + 1..Len(W) : W[q].id # e.id
      BY <1>1, <1>3, <2>2 DEF Agrees, EventsAgree
    <3>2. w1[e.id].n = 0 /\ \A j \in ClientIds \ {e.id} : w1[j] = w[j]
      BY <2>2 DEF Learns, e
    <3>3. \A p \in 1..Len(V) : V[p].id # e.id
      BY <1>3, <3>1
    <3>4. Agrees(k.objects, V, w1, Q)
      BY <1>4, <3>1, <3>2, <3>3, DeleteTaken
    <3> QED
      BY <1>1, <2>0, <3>2, <3>4
  <2>3. CASE e.op \notin {"done", "delete_id"}
    <3>1. w1 = w
      BY <2>3 DEF Learns, e
    <3> QED
      BY <1>4, <2>0, <3>1
  <2> QED
    BY <2>1, <2>2, <2>3
<1>6. Joint(k1, w1, T, n)
  BY <1>2, <1>5 DEF Joint, Q
<1> QED
  BY <1>6 DEF k1

-----------------------------------------------------------------------------
(* Where the ids are, whatever the connection and its client do.             *)

LEMMA PostBegun ==
  ASSUME NEW k \in ConnT, NEW up, NEW e \in EventT, e.op # "offer", NEW w, NEW f, NEW Q,
         NEW how, Begun(k, w, f, Q, how)
  PROVE  Begun(post(k, up, e), w, f, Q, how)
<1> DEFINE k1 == post(k, up, e)
           X == {}
<1>1. /\ k1 \in ConnT /\ Whole(k1) = Append(Whole(k), e) /\ k1.objects = k.objects
      /\ k1.pool = k.pool
  BY PostState
<1> HIDE DEF k1
<1>2. Extends(Whole(k), Whole(k1)) /\ OffersKept(Whole(k), Whole(k1))
  BY <1>1, WholeSeq, Appended, AppendKeeps
<1>3. /\ IsFiniteSet(X) /\ (\A x \in X : x.id \notin ServerIds /\ x.kind # "offer")
      /\ k1.objects = k.objects \cup X
  BY <1>1, FS_EmptySet
<1> HIDE DEF X
<1>4. Q \in SUBSET Q
  OBVIOUS
<1>5. OffersAgree(k, f, Q)
  BY DEF Begun
<1>6. /\ OffersAgree(k1, f, Q)
      /\ OffersLive(k, f, Q) => OffersLive(k1, f, Q)
      /\ Accounted(k, w, Q) => Accounted(k1, w, Q)
  BY <1>1, <1>2, <1>3, <1>4, <1>5, GrowsKeeps
<1> QED
  BY <1>6 DEF Begun, k1

LEMMA FlushBegun ==
  ASSUME NEW k \in ConnT, NEW up, NEW w, NEW f, NEW Q, NEW how, Begun(k, w, f, Q, how)
  PROVE  Begun(flush(k, up), w, f, Q, how)
<1> DEFINE k1 == flush(k, up)
<1>1. /\ Whole(k1) = Whole(k) /\ k1.objects = k.objects /\ k1.pool = k.pool
  BY FlushState
<1> HIDE DEF k1
<1>2. \A i : Registered(k1, i) <=> Registered(k, i)
  BY <1>1 DEF Registered
<1>3. OffersAgree(k1, f, Q) /\ OffersLive(k1, f, Q)
  BY <1>1, <1>2 DEF Begun, OffersAgree, OffersLive
<1>4. how = "sound" => Accounted(k1, w, Q)
  BY <1>1, <1>2 DEF Begun, Accounted, Deleted
<1> QED
  BY <1>3, <1>4 DEF Begun, k1

LEMMA CallbackBegun ==
  ASSUME NEW k \in ConnT, NEW up, NEW w, NEW f, NEW Q, NEW how, Begun(k, w, f, Q, how),
         NEW o \in k.objects, o.id \in ClientIds, o.kind # "object",
         Agrees(k.objects, Whole(k), w, Q)
  PROVE  callback_done(k, up, o.id) \in ConnT /\ Begun(callback_done(k, up, o.id), w, f, Q, how)
<1> DEFINE k1 == callback_done(k, up, o.id)
<1>1. OffersAgree(k, f, Q)
  BY DEF Begun
<1>2. /\ k1 \in ConnT
      /\ OffersAgree(k1, f, Q)
      /\ OffersLive(k, f, Q) => OffersLive(k1, f, Q)
      /\ Accounted(k, w, Q) => Accounted(k1, w, Q)
  BY <1>1, CallbackKeeps
<1> HIDE DEF k1
<1> QED
  BY <1>2 DEF Begun, k1

(* Fewer offers than ids: the pool has an id that names nothing.             *)
LEMMA IdLeft ==
  ASSUME NEW k \in ConnT, NEW f, NEW Q, OffersAgree(k, f, Q),
         Cardinality({o \in k.objects : o.kind = "offer"}) < PoolSize
  PROVE  /\ get_free(k.pool) \in 0..PoolSize - 1
         /\ ~Registered(k, ServerId(get_free(k.pool)))
<1> DEFINE O == {o \in k.objects : o.kind = "offer"}
           P == 0..PoolSize - 1
           g == [o \in O |-> -1 - o.id]
<1>1. PoolSize \in Nat
  BY WireAssumption
<1>2. IsFiniteSet(O) /\ IsFiniteSet(P) /\ Cardinality(P) = PoolSize
  <2>1. IsFiniteSet(k.objects) /\ O \in SUBSET k.objects
    BY DEF OffersAgree
  <2>2. IsFiniteSet(O)
    BY <2>1, FS_Subset
  <2>3. 0 \in Int /\ PoolSize - 1 \in Int
    BY <1>1
  <2>4. IsFiniteSet(P) /\ Cardinality(P) = IF 0 > PoolSize - 1 THEN 0 ELSE PoolSize - 1 - 0 + 1
    BY <2>3, FS_Interval
  <2> QED
    BY <1>1, <2>2, <2>4
<1>3. P \ k.pool # {}
  <2> SUFFICES ASSUME P \subseteq k.pool  PROVE FALSE
    OBVIOUS
  <2>1. \A n \in P : \E o \in O : g[o] = n
    <3> SUFFICES ASSUME NEW n \in P  PROVE \E o \in O : g[o] = n
      OBVIOUS
    <3>1. Registered(k, ServerId(n)) /\ ServerId(n) \in ServerIds
      BY DEF OffersAgree, ServerIds
    <3>2. PICK o \in k.objects : o.id = ServerId(n)
      BY <3>1 DEF Registered
    <3>3. o \in O
      BY <3>1, <3>2 DEF OffersAgree
    <3>4. -1 - o.id = n
      BY <3>2 DEF ServerId
    <3> QED
      BY <3>3, <3>4
  <2>2. \A o \in O : g[o] \in P
    <3> SUFFICES ASSUME NEW o \in O  PROVE g[o] \in P
      OBVIOUS
    <3>1. o.id \in ServerIds
      BY DEF OffersAgree
    <3> QED
      BY <3>1 DEF ServerIds, ServerId
  <2>3. g \in [O -> P] /\ \A n \in P : \E o \in O : g[o] = n
    BY <2>1, <2>2
  <2> HIDE DEF g, O, P
  <2>4. g \in Surjection(O, P)
    BY <2>3 DEF Surjection
  <2>5. Cardinality(P) <= Cardinality(O)
    BY <1>2, <2>4, FS_Surjection
  <2>6. Cardinality(O) \in Nat /\ Cardinality(O) < PoolSize
    BY <1>2, FS_CardinalityType DEF O
  <2> QED
    BY <1>1, <1>2, <2>5, <2>6
<1>4. get_free(k.pool) \in P /\ get_free(k.pool) \notin k.pool
  BY <1>3, FreeBit
<1> QED
  BY <1>4 DEF OffersAgree

(* An offer is made under an id that names nothing.                          *)
LEMMA OfferBegun ==
  ASSUME NEW k \in ConnT, NEW up, NEW w, NEW f, NEW Q, NEW how, Begun(k, w, f, Q, how),
         Cardinality({o \in k.objects : o.kind = "offer"}) < PoolSize
  PROVE  Begun(post(add_offer(k), up, Event("offer", ServerId(get_free(k.pool)), 0, 0)),
               w, f, Q, how)
<1> DEFINE bit == get_free(k.pool)
           i == ServerId(bit)
           o == Object(i, "offer", 0)
           d == [k EXCEPT !.pool = @ \cup {bit}]
           d1 == object_add(d, o)
           e == Event("offer", i, 0, 0)
           k1 == post(d1, up, e)
           W == Whole(k)
           V == Whole(k1)
<1>1. OffersAgree(k, f, Q) /\ OffersLive(k, f, Q)
  BY DEF Begun
<1>2. bit \in 0..PoolSize - 1 /\ ~Registered(k, i)
  BY <1>1, IdLeft
<1>3. i \in ServerIds /\ i \in Int /\ i \notin ClientIds /\ bit \in Int
  BY <1>2, IdsApart DEF ServerIds
<1>4. o \in ObjectT /\ o.id = i /\ o.kind = "offer"
  BY <1>3 DEF Object, ObjectT, ObjectKinds
<1>5. e \in EventT /\ e.op = "offer" /\ e.id = i
  BY <1>3 DEF EventT, Event
<1>6. add_offer(k) = d1
  BY DEF add_offer
<1>7. \A n \in 0..PoolSize - 1 : ServerId(n) = i <=> n = bit
  BY <1>2 DEF ServerId
<1> HIDE DEF bit, i, o, e
<1>8. d \in ConnT /\ d.objects = k.objects /\ Whole(d) = W /\ d.pool = k.pool \cup {bit}
  BY <1>3 DEF ConnT, Whole
<1> HIDE DEF d
<1>9. /\ d1 \in ConnT /\ d1.objects = k.objects \cup {o} /\ Whole(d1) = W
      /\ d1.pool = k.pool \cup {bit}
  BY <1>4, <1>8, AddState
<1> HIDE DEF d1
<1>10. /\ k1 \in ConnT /\ V = Append(W, e) /\ k1.objects = k.objects \cup {o}
       /\ k1.pool = k.pool \cup {bit}
  BY <1>5, <1>9, PostState
<1>11. /\ Len(V) = Len(W) + 1 /\ Len(W) \in Nat /\ Extends(W, V)
       /\ \A p \in 1..Len(W) + 1 : V[p] = IF p = Len(W) + 1 THEN e ELSE W[p]
  BY <1>5, <1>10, WholeSeq, Appended
<1> HIDE DEF k1
<1>12. \A j : Registered(k1, j) <=> Registered(k, j) \/ j = i
  BY <1>4, <1>10 DEF Registered
<1>13. k1.pool = {n \in 0..PoolSize - 1 : Registered(k1, ServerId(n))}
  BY <1>1, <1>2, <1>7, <1>10, <1>12 DEF OffersAgree
<1>14. /\ IsFiniteSet(k1.objects)
       /\ \A x \in k1.objects : x.id \in ServerIds <=> x.kind = "offer"
  <2>1. IsFiniteSet(k.objects)
    BY <1>1 DEF OffersAgree
  <2>2. IsFiniteSet(k1.objects)
    BY <1>10, <2>1, FS_AddElement
  <2> QED
    BY <1>1, <1>3, <1>4, <1>10, <2>2 DEF OffersAgree
<1>15. /\ i \notin f /\ \A r \in Q : r.id # i
       /\ \A p \in 1..Len(W) : W[p].op = "offer" => W[p].id # i
  BY <1>1, <1>2, <1>3 DEF OffersLive
<1> HIDE DEF W, V
<1>16. ASSUME NEW p \in 1..Len(V), V[p].op = "offer"
       PROVE  /\ V[p].id \in ServerIds \ f
              /\ \A r \in Q : r.id # V[p].id
              /\ \A q \in p + 1..Len(V) : V[q].op = "offer" => V[q].id # V[p].id
  <2>1. CASE p = Len(W) + 1
    <3>1. V[p] = e /\ \A q \in p + 1..Len(V) : FALSE
      BY <1>11, <2>1
    <3> QED
      BY <1>3, <1>5, <1>15, <3>1
  <2>2. CASE p # Len(W) + 1
    <3>1. p \in 1..Len(W) /\ V[p] = W[p]
      BY <1>11, <2>2
    <3>2. \A q \in p + 1..Len(V) : (q \in p + 1..Len(W) /\ V[q] = W[q]) \/ V[q] = e
      BY <1>11, <3>1
    <3>3. /\ W[p].id \in ServerIds \ f
          /\ \A r \in Q : r.id # W[p].id
          /\ \A q \in p + 1..Len(W) : W[q].op = "offer" => W[q].id # W[p].id
      BY <1>1, <1>16, <3>1 DEF OffersAgree, W
    <3> QED
      BY <1>5, <1>15, <1>16, <3>1, <3>2, <3>3
  <2> QED
    BY <2>1, <2>2
<1>17. OffersAgree(k1, f, Q)
  BY <1>1, <1>13, <1>14, <1>16 DEF OffersAgree, V
<1>18. OffersLive(k1, f, Q)
  <2>1. ASSUME NEW p \in 1..Len(V), V[p].op = "offer"  PROVE Registered(k1, V[p].id)
    <3>1. V[p] = e \/ (p \in 1..Len(W) /\ V[p] = W[p])
      BY <1>11
    <3> QED
      BY <1>1, <1>5, <1>12, <2>1, <3>1 DEF OffersLive, W
  <2> QED
    BY <1>1, <1>12, <2>1 DEF OffersLive, V
<1>19. how = "sound" => Accounted(k1, w, Q)
  <2>1. \A j : Registered(k, j) => Registered(k1, j)
    BY <1>12
  <2>2. Extends(Whole(k), Whole(k1)) /\ Q \in SUBSET Q
    BY <1>11 DEF W, V
  <2> QED
    BY <1>10, <2>1, <2>2, StillAccounted DEF Begun
<1> QED
  BY <1>6, <1>17, <1>18, <1>19 DEF Begun, k1, e, i, bit

LEMMA FreedOffers ==
  ASSUME NEW k \in ConnT, NEW f, NEW Q, NEW Q1 \in SUBSET Q, OffersAgree(k, f, Q)
  PROVE  OffersAgree([Fresh EXCEPT !.wire = k.wire], f, Q1)
<1> DEFINE k1 == [Fresh EXCEPT !.wire = k.wire]
           o == Object(DisplayId, "display", 0)
           W == Whole(k)
           V == Whole(k1)
<1>1. o.id \notin ServerIds /\ o.kind # "offer"
  BY IdsApart DEF Object
<1> HIDE DEF o
<1>2. k1.objects = {o} /\ k1.pool = {} /\ V = k.wire
  BY FreedState DEF o
<1> HIDE DEF k1
<1>3. \A n \in 0..PoolSize - 1 : ~Registered(k1, ServerId(n))
  <2>1. \A n \in 0..PoolSize - 1 : ServerId(n) \in ServerIds
    BY DEF ServerIds
  <2> QED
    BY <1>1, <1>2, <2>1 DEF Registered
<1>4. IsFiniteSet(k1.objects)
  BY <1>2, FS_Singleton
<1>5. \A p \in 1..Len(V) : /\ p \in 1..Len(W) /\ V[p] = W[p]
                           /\ \A q \in p + 1..Len(V) : q \in p + 1..Len(W) /\ V[q] = W[q]
  BY <1>2, WireFirst
<1> HIDE DEF V, W
<1>6. ASSUME NEW p \in 1..Len(V), V[p].op = "offer"
      PROVE  /\ V[p].id \in ServerIds \ f
             /\ \A r \in Q1 : r.id # V[p].id
             /\ \A q \in p + 1..Len(V) : V[q].op = "offer" => V[q].id # V[p].id
  <2>1. p \in 1..Len(W) /\ V[p] = W[p]
    BY <1>5
  <2>2. /\ W[p].id \in ServerIds \ f
        /\ \A r \in Q : r.id # W[p].id
        /\ \A q \in p + 1..Len(W) : W[q].op = "offer" => W[q].id # W[p].id
    BY <1>6, <2>1 DEF OffersAgree, W
  <2> QED
    BY <1>5, <2>1, <2>2
<1>7. OffersAgree(k1, f, Q1)
  BY <1>1, <1>2, <1>3, <1>4, <1>6 DEF OffersAgree, V
<1> QED
  BY <1>7 DEF k1

(* The client sends a request that creates an object or names one.           *)
LEMMA SentBegun ==
  ASSUME NEW k, NEW w, NEW w1, NEW f, NEW Q, NEW how, NEW r, r.id \in ClientIds,
         \A j \in ClientIds \ {r.id} : w1[j] = w[j], OffersAgree(k, f, Q)
  PROVE  /\ OffersAgree(k, f, Q \cup {r})
         /\ Begun(k, w, f, Q, how) /\ Creates(r) => Begun(k, w1, f, Q \cup {r}, how)
         /\ Begun(k, w, f, Q, how) /\ w[r.id].st = "object" /\ ~Deleted(k, r.id) =>
              Begun(k, w1, f, Q \cup {r}, how)
<1>1. r.id \notin ServerIds
  BY IdsApart
<1>2. OffersAgree(k, f, Q \cup {r})
  BY <1>1 DEF OffersAgree
<1>3. OffersLive(k, f, Q) => OffersLive(k, f, Q \cup {r})
  BY <1>1 DEF OffersLive
<1>4. Accounted(k, w, Q) /\ Creates(r) => Accounted(k, w1, Q \cup {r})
  BY DEF Accounted
<1>5. Accounted(k, w, Q) /\ w[r.id].st = "object" /\ ~Deleted(k, r.id) =>
        Accounted(k, w1, Q \cup {r})
  BY DEF Accounted
<1> QED
  BY <1>2, <1>3, <1>4, <1>5 DEF Begun

(* The client destroys an offer.                                            *)
LEMMA DropBegun ==
  ASSUME NEW k, NEW w, NEW f, NEW Q, NEW how, NEW r, r.id \in f, ~Creates(r),
         OffersAgree(k, f, Q)
  PROVE  /\ OffersAgree(k, f \ {r.id}, Q \cup {r})
         /\ Begun(k, w, f, Q, how) => Begun(k, w, f \ {r.id}, Q \cup {r}, how)
<1>1. r.id \in ServerIds /\ r.id \notin ClientIds
  BY IdsApart DEF OffersAgree
<1>2. OffersAgree(k, f \ {r.id}, Q \cup {r})
  BY <1>1 DEF OffersAgree
<1>3. OffersLive(k, f, Q) => OffersLive(k, f \ {r.id}, Q \cup {r})
  BY DEF OffersLive
<1>4. Accounted(k, w, Q) => Accounted(k, w, Q \cup {r})
  BY <1>1 DEF Accounted
<1> QED
  BY <1>2, <1>3, <1>4 DEF Begun

(* The client takes an event.                                               *)
LEMMA ReceiveBegun ==
  ASSUME NEW k \in ConnT, k.wire # <<>>, NEW w, NEW w1, NEW f, NEW Q, NEW how,
         Learns(w, w1, Head(k.wire)), OffersAgree(k, f, Q), Agrees(k.objects, Whole(k), w, Q)
  PROVE  LET k1 == [k EXCEPT !.wire = Tail(@)]
             f1 == IF Head(k.wire).op = "offer" THEN f \cup {Head(k.wire).id} ELSE f
         IN  /\ OffersAgree(k1, f1, Q)
             /\ Begun(k, w, f, Q, how) => Begun(k1, w1, f1, Q, how)
<1> DEFINE k1 == [k EXCEPT !.wire = Tail(@)]
           e == Head(k.wire)
           f1 == IF e.op = "offer" THEN f \cup {e.id} ELSE f
           W == Whole(k)
           V == Whole(k1)
<1>1. /\ k1 \in ConnT /\ k1.objects = k.objects /\ W # <<>> /\ V = Tail(W) /\ e = Head(W)
      /\ k1.pool = k.pool
  BY TakeState DEF ConnT
<1>2. /\ e = W[1] /\ 1 \in 1..Len(W) /\ Len(V) \in Nat /\ Len(W) = Len(V) + 1
      /\ \A p \in 1..Len(V) : p + 1 \in 1..Len(W) /\ V[p] = W[p + 1]
  BY <1>1, WholeSeq, TailEvents
<1>3. \A i : Registered(k1, i) <=> Registered(k, i)
  BY <1>1 DEF Registered
<1> HIDE DEF k1, e, W, V, f1
<1>4. \A p \in 1..Len(V) : \E j \in 1..Len(W) :
        /\ V[p] = W[j] /\ j \in 1 + 1..Len(W)
        /\ \A q \in p + 1..Len(V) : \E i \in j + 1..Len(W) : V[q] = W[i]
  <2> SUFFICES ASSUME NEW p \in 1..Len(V)
               PROVE  /\ V[p] = W[p + 1] /\ p + 1 \in 1 + 1..Len(W) /\ p + 1 \in 1..Len(W)
                      /\ \A q \in p + 1..Len(V) : \E i \in (p + 1) + 1..Len(W) : V[q] = W[i]
    OBVIOUS
  <2>1. \A q \in p + 1..Len(V) : q + 1 \in (p + 1) + 1..Len(W) /\ V[q] = W[q + 1]
    BY <1>2
  <2> QED
    BY <1>2, <2>1
<1>5. /\ f1 \subseteq ServerIds
      /\ \A r \in Q : r.id \in ServerIds => r.id \notin f1
  BY <1>2 DEF OffersAgree, f1, W
<1>6. ASSUME NEW p \in 1..Len(V), V[p].op = "offer"
      PROVE  /\ V[p].id \in ServerIds \ f1
             /\ \A r \in Q : r.id # V[p].id
             /\ \A q \in p + 1..Len(V) : V[q].op = "offer" => V[q].id # V[p].id
  <2>1. PICK j \in 1..Len(W) :
          /\ V[p] = W[j] /\ j \in 1 + 1..Len(W)
          /\ \A q \in p + 1..Len(V) : \E i \in j + 1..Len(W) : V[q] = W[i]
    BY <1>4
  <2>2. /\ W[j].id \in ServerIds \ f
        /\ \A r \in Q : r.id # W[j].id
        /\ \A q \in j + 1..Len(W) : W[q].op = "offer" => W[q].id # W[j].id
    BY <1>6, <2>1 DEF OffersAgree, W
  <2>3. e.op = "offer" => W[j].id # e.id
    BY <1>2, <1>6, <2>1 DEF OffersAgree, W
  <2> QED
    BY <2>1, <2>2, <2>3 DEF f1
<1>7. OffersAgree(k1, f1, Q)
  BY <1>1, <1>3, <1>5, <1>6 DEF OffersAgree, V
<1>8. OffersLive(k, f, Q) => OffersLive(k1, f1, Q)
  <2> SUFFICES ASSUME OffersLive(k, f, Q)  PROVE OffersLive(k1, f1, Q)
    OBVIOUS
  <2>1. \A i \in f1 : Registered(k1, i)
    BY <1>2, <1>3 DEF OffersLive, f1, W
  <2>2. \A p \in 1..Len(V) : V[p].op = "offer" => Registered(k1, V[p].id)
    BY <1>3, <1>4 DEF OffersLive, W
  <2> QED
    BY <1>3, <2>1, <2>2 DEF OffersLive, V
<1>9. Accounted(k, w, Q) => Accounted(k1, w1, Q)
  <2> SUFFICES ASSUME Accounted(k, w, Q)  PROVE Accounted(k1, w1, Q)
    OBVIOUS
  <2>1. ASSUME NEW i \in ClientIds
        PROVE  \/ w1[i].st = "free" \/ Registered(k1, i) \/ Deleted(k1, i)
               \/ \E r \in Q : Creates(r) /\ r.id = i
    <3>1. w[i].st = "free" => w1[i].st = "free"
      <4>1. e.op = "done" /\ e.id = i => w[i].st # "free"
        BY <1>2 DEF Agrees, EventsAgree, W
      <4> QED
        BY <4>1 DEF Learns, e
    <3>2. Deleted(k, i) => w1[i].st = "free" \/ Deleted(k1, i)
      <4> SUFFICES ASSUME NEW p \in 1..Len(W), W[p].op = "delete_id", W[p].id = i
                   PROVE  w1[i].st = "free" \/ Deleted(k1, i)
        BY DEF Deleted, W
      <4>1. CASE p = 1
        BY <1>2, <4>1 DEF Learns, e
      <4>2. CASE p # 1
        <5>1. p - 1 \in 1..Len(V) /\ V[p - 1] = W[p - 1 + 1] /\ p - 1 + 1 = p
          BY <1>2, <4>2
        <5> QED
          BY <5>1 DEF Deleted, V
      <4> QED
        BY <4>1, <4>2
    <3> QED
      BY <1>3, <3>1, <3>2 DEF Accounted
  <2> QED
    BY <1>3, <2>1 DEF Accounted
<1> QED
  BY <1>7, <1>8, <1>9 DEF Begun, k1, e, f1

-----------------------------------------------------------------------------
(* The inductive invariant.                                                 *)

WireTypes ==
  /\ phase \in [Conns -> {"none", "backlog", "open", "freed"}]
  /\ conn \in [Conns -> ConnT] /\ peer \in [Conns -> BOOLEAN]
  /\ toS \in [Conns -> Seq(RequestT)] /\ ids \in [Conns -> Views]
  /\ offers \in [Conns -> SUBSET ServerIds] /\ sent \in [Conns -> Nat]

WireInv ==
  /\ WireTypes
  /\ \A c \in Conns : Joint(conn[c], ids[c], toS[c], sent[c])

(* What a step of connection c does.                                        *)
Moves(c) ==
  /\ WireTypes' /\ Joint(conn'[c], ids'[c], toS'[c], sent'[c])
  /\ \A d \in Conns \ {c} : /\ conn'[d] = conn[d] /\ ids'[d] = ids[d] /\ toS'[d] = toS[d]
                             /\ sent'[d] = sent[d]
  /\ phase'[c] = "open" =>
       \/ Extends(Whole(conn[c]), Whole(conn'[c]))
       \/ Whole(conn'[c]) = Tail(Whole(conn[c])) /\ conn[c].wire # <<>>

LEMMA WireInit == Init => WireInv
<1> SUFFICES ASSUME Init PROVE WireInv
  OBVIOUS
<1> DEFINE none == <<>>
           D == {Object(DisplayId, "display", 0)}
           w == [i \in ClientIds |-> [st |-> "free", n |-> 0]]
<1>1. /\ Fresh = [objects |-> D, pool |-> {}, buffer |-> none, wire |-> none]
      /\ D \subseteq ObjectT /\ \A o \in D : o.kind = "display" /\ o.id \notin ClientIds
  BY IdsApart DEF Fresh, Object, ObjectT, ObjectKinds, DisplayId
<1>2. none \in Seq(EventT) /\ none \in Seq(RequestT) /\ Len(none) = 0 /\ none \o none = none
  OBVIOUS
<1> HIDE DEF none, D
<1>3. /\ Fresh \in ConnT /\ Fresh.objects = D /\ Whole(Fresh) = none
  BY <1>1, <1>2 DEF ConnT, Whole
<1>4. w \in Views /\ \A i \in ClientIds : w[i].n = 0
  BY DEF Views, ViewT
<1> HIDE DEF w
<1>5. 1..Len(none) = {} /\ UpToNo(none, Len(none)) = {}
  BY <1>2 DEF UpToNo
<1>6. Agrees(D, none, w, {}) /\ Older(D, {}) /\ InOrder(none)
  BY <1>1, <1>2, <1>5 DEF Agrees, ObjectsAgree, EventsAgree, RequestsAgree, Older, InOrder
<1>7. Joint(Fresh, w, none, 0)
  BY <1>3, <1>4, <1>5, <1>6 DEF Joint
<1>8. WireTypes
  BY <1>2, <1>3, <1>4 DEF Init, WireTypes, none, w
<1> QED
  BY <1>7, <1>8 DEF Init, WireInv, none, w

(* The rest of the state being as it is, c has connection k.                 *)
LEMMA ConnMoves ==
  ASSUME WireInv, NEW c \in Conns, NEW k, conn' = [conn EXCEPT ![c] = k],
         JointNext(conn[c], k, ids[c], toS[c], sent[c]),
         phase' = phase, peer' = peer, client' = client
  PROVE  Moves(c)
<1>1. k \in ConnT
  BY DEF JointNext, Joint
<1>2. conn' \in [Conns -> ConnT] /\ conn'[c] = k /\ \A d \in Conns \ {c} : conn'[d] = conn[d]
  BY <1>1 DEF WireInv, WireTypes
<1>3. WireTypes'
  BY <1>2 DEF WireInv, WireTypes, client
<1> QED
  BY <1>2, <1>3 DEF Moves, JointNext, client

LEMMA SendMoves ==
  ASSUME WireInv, NEW c \in Conns, send_event(c)  PROVE Moves(c)
<1>1. PICK o \in conn[c].objects, flushes \in BOOLEAN :
        LET k == post(conn[c], peer[c], Event("event", o.id, o.n, 0))
        IN  conn' = [conn EXCEPT ![c] = IF flushes THEN flush(k, peer[c]) ELSE k]
  BY DEF send_event
<1> DEFINE k == post(conn[c], peer[c], Event("event", o.id, o.n, 0))
<1>2. JointNext(conn[c], k, ids[c], toS[c], sent[c])
  BY SendJoint DEF WireInv
<1>3. PICK k1 \in {k, flush(k, peer[c])} : conn' = [conn EXCEPT ![c] = k1]
  BY <1>1
<1> HIDE DEF k
<1>4. JointNext(conn[c], flush(k, peer[c]), ids[c], toS[c], sent[c])
  BY <1>2, FlushJoint
<1> QED
  BY <1>2, <1>3, <1>4, ConnMoves DEF send_event

LEMMA FrameMoves ==
  ASSUME WireInv, NEW c \in Conns, send_frame_done(c)  PROVE Moves(c)
<1>1. PICK o \in conn[c].objects :
        /\ o.kind = "frame"
        /\ conn' = [conn EXCEPT ![c] = flush(callback_done(conn[c], peer[c], o.id), peer[c])]
  BY DEF send_frame_done
<1> DEFINE k == callback_done(conn[c], peer[c], o.id)
<1>2. JointNext(conn[c], k, ids[c], toS[c], sent[c])
  BY <1>1, FrameJoint DEF WireInv
<1> HIDE DEF k
<1>3. JointNext(conn[c], flush(k, peer[c]), ids[c], toS[c], sent[c])
  BY <1>2, FlushJoint
<1>4. conn' = [conn EXCEPT ![c] = flush(k, peer[c])]
  BY <1>1 DEF k
<1> QED
  BY <1>3, <1>4, ConnMoves DEF send_frame_done

LEMMA OfferMoves ==
  ASSUME WireInv, NEW c \in Conns, advertise(c)  PROVE Moves(c)
<1> DEFINE k == post(add_offer(conn[c]), peer[c],
                     Event("offer", ServerId(get_free(conn[c].pool)), 0, 0))
<1>1. conn' = [conn EXCEPT ![c] = k]
  BY DEF advertise
<1>2. JointNext(conn[c], k, ids[c], toS[c], sent[c])
  BY OfferJoint DEF WireInv
<1> HIDE DEF k
<1> QED
  BY <1>1, <1>2, ConnMoves DEF advertise

(* The connection is freed with b in its buffer and the requests T still to be read. *)
LEMMA FreeMoves ==
  ASSUME WireInv, NEW c \in Conns, NEW T \in Seq(RequestT), NEW b, NEW next,
         connection_free(c, b, next), Joint(b, ids[c], T, sent[c]), toS' = [toS EXCEPT ![c] = T],
         peer' = peer, ids' = ids, offers' = offers, sent' = sent
  PROVE  Moves(c)
<1> DEFINE k == [Fresh EXCEPT !.wire = b.wire]
<1>1. Joint(k, ids[c], T, sent[c])
  BY FreedJoint
<1>2. conn' = [conn EXCEPT ![c] = k] /\ phase' = [phase EXCEPT ![c] = "freed"]
  BY DEF connection_free
<1> HIDE DEF k
<1>3. k \in ConnT
  BY <1>1 DEF Joint
<1>4. /\ conn' \in [Conns -> ConnT] /\ conn'[c] = k /\ toS' \in [Conns -> Seq(RequestT)]
      /\ toS'[c] = T /\ phase'[c] = "freed"
      /\ phase' \in [Conns -> {"none", "backlog", "open", "freed"}]
      /\ \A d \in Conns \ {c} : conn'[d] = conn[d] /\ toS'[d] = toS[d]
  BY <1>2, <1>3 DEF WireInv, WireTypes
<1>5. WireTypes'
  BY <1>4 DEF WireInv, WireTypes
<1> QED
  BY <1>1, <1>4, <1>5 DEF Moves

LEMMA ReadMoves ==
  ASSUME WireInv, NEW c \in Conns, client_epoll_callback(c)  PROVE Moves(c)
<1> DEFINE k == conn[c]
           w == ids[c]
           T == toS[c]
           n == sent[c]
           m == IF Len(T) < MaxRead THEN Len(T) ELSE MaxRead
           batch == SubSeq(T, 1, m)
           rest == SubSeq(T, m + 1, Len(T))
<1>1. /\ Joint(k, w, T, n) /\ T \in Seq(RequestT) /\ peer[c] \in BOOLEAN
  BY DEF WireInv, WireTypes
<1>2. m \in 0..Len(T)
  <2>1. Len(T) \in Nat /\ MaxRead \in Nat
    BY <1>1, WireAssumption
  <2> QED
    BY <2>1
<1>3. Batch(c) = batch /\ Len(Batch(c)) = m
  <2>1. Batch(c) = batch
    BY DEF Batch
  <2> HIDE DEF m
  <2>2. Len(batch) = m
    BY <1>1, <1>2, Split
  <2> QED
    BY <2>1, <2>2
<1>4. PICK unset \in Uninit : Settled(c, connection_dispatch(k, peer[c], batch, unset))
  BY <1>3 DEF client_epoll_callback
<1>5. unset \in Int
  BY WireAssumption
<1>6. /\ toS' = [toS EXCEPT ![c] = rest]
      /\ peer' = peer /\ ids' = ids /\ offers' = offers /\ sent' = sent
  BY <1>3 DEF client_epoll_callback
<1> DEFINE b == connection_dispatch(k, peer[c], batch, unset)
<1> HIDE DEF m, T, w, n
<1>7. b \in BatchT /\ JointNext(k, b.k, w, rest, n) /\ Joint(k, w, rest, n)
  BY <1>1, <1>2, <1>5, ReadJoint
<1>8. rest \in Seq(RequestT)
  BY <1>7 DEF Joint, InOrder
<1>9. JointNext(k, flush(b.k, peer[c]), w, rest, n)
  BY <1>7, FlushJoint
<1>10. JointNext(k, post(b.k, peer[c], Event("error", DisplayId, 0, 0)), w, rest, n)
  <2> DEFINE k1 == post(b.k, peer[c], Event("error", DisplayId, 0, 0))
  <2>1. JointNext(b.k, k1, w, rest, n)
    BY <1>7, ErrorJoint DEF JointNext
  <2> HIDE DEF k1, b
  <2>2. k \in ConnT /\ b.k \in ConnT /\ k1 \in ConnT
    BY <1>7, <2>1 DEF JointNext, Joint
  <2>3. Extends(Whole(k), Whole(k1))
    BY <1>7, <2>1, <2>2, WholeSeq, ExtendsAlong DEF JointNext
  <2>4. JointNext(k, k1, w, rest, n)
    BY <2>1, <2>3 DEF JointNext
  <2> QED
    BY <2>4 DEF k1, b
<1> HIDE DEF b, rest
<1>11. ASSUME NEW next, connection_free(c, b.k, next)  PROVE Moves(c)
  <2>1. Joint(b.k, ids[c], rest, sent[c])
    BY <1>7 DEF JointNext, w, n
  <2> QED
    BY <1>6, <1>8, <1>11, <2>1, FreeMoves
<1>12. ASSUME NEW k1, conn' = [conn EXCEPT ![c] = k1], phase' = phase,
              JointNext(k, k1, w, rest, n)
       PROVE  Moves(c)
  <2>1. k1 \in ConnT
    BY <1>12 DEF JointNext, Joint
  <2>2. /\ conn' \in [Conns -> ConnT] /\ conn'[c] = k1
        /\ \A d \in Conns \ {c} : conn'[d] = conn[d]
    BY <1>12, <2>1 DEF WireInv, WireTypes
  <2>3. /\ toS' \in [Conns -> Seq(RequestT)] /\ toS'[c] = rest
        /\ \A d \in Conns \ {c} : toS'[d] = toS[d]
    BY <1>6, <1>8 DEF WireInv, WireTypes
  <2>4. WireTypes'
    BY <1>6, <1>12, <2>2, <2>3 DEF WireInv, WireTypes
  <2> QED
    BY <1>6, <1>12, <2>2, <2>3, <2>4 DEF Moves, JointNext, w, n
<1>13. \/ \E next : connection_free(c, b.k, next)
       \/ /\ phase' = phase
          /\ \/ conn' = [conn EXCEPT ![c] = b.k]
             \/ conn' = [conn EXCEPT ![c] = flush(b.k, peer[c])]
             \/ conn' = [conn EXCEPT ![c] = post(b.k, peer[c], Event("error", DisplayId, 0, 0))]
  <2>1. Settled(c, b)
    BY <1>4 DEF b, w, n, T
  <2> QED
    BY <2>1 DEF Settled
<1> QED
  BY <1>7, <1>9, <1>10, <1>11, <1>12, <1>13

LEMMA GoneMoves ==
  ASSUME WireInv, NEW c \in Conns, client_gone(c) \/ display_free(c)  PROVE Moves(c)
<1>1. /\ connection_free(c, conn[c], loop) /\ peer' = peer /\ toS' = toS /\ ids' = ids /\ offers' = offers
      /\ sent' = sent
  BY DEF client_gone, display_free, client
<1>2. toS' = [toS EXCEPT ![c] = toS[c]] /\ toS[c] \in Seq(RequestT)
  BY <1>1 DEF WireInv, WireTypes
<1> QED
  BY <1>1, <1>2, FreeMoves DEF WireInv

LEMMA PhaseMoves ==
  ASSUME WireInv, NEW c \in Conns,
         server_epoll_callback(c) \/ connect(c) \/ close(c) \/ stop
  PROVE  Moves(c)
<1>1. conn' = conn /\ client' = client
  BY DEF server_epoll_callback, connect, close, stop
<1>2. /\ phase' \in [Conns -> {"none", "backlog", "open", "freed"}]
      /\ peer' \in [Conns -> BOOLEAN]
  BY DEF server_epoll_callback, connect, close, stop, WireInv, WireTypes
<1>3. WireTypes'
  BY <1>1, <1>2 DEF WireInv, WireTypes, client
<1>4. Joint(conn[c], ids[c], toS[c], sent[c]) /\ Extends(Whole(conn[c]), Whole(conn[c]))
  BY WholeSeq, SameExtends DEF WireInv, Joint
<1> QED
  BY <1>1, <1>3, <1>4 DEF Moves, client

LEMMA RequestMoves ==
  ASSUME WireInv, NEW c \in Conns, request(c)  PROVE Moves(c)
<1> DEFINE k == conn[c]
           w == ids[c]
           T == toS[c]
           n == sent[c]
<1>1. /\ Joint(k, w, T, n) /\ n \in Nat /\ w \in Views /\ T \in Seq(RequestT)
      /\ offers[c] \in SUBSET ServerIds
  BY DEF WireInv, WireTypes
<1>2. /\ sent' \in [Conns -> Nat] /\ sent'[c] = n + 1
      /\ \A d \in Conns \ {c} : sent'[d] = sent[d]
      /\ phase' = phase /\ conn' = conn /\ peer' = peer
  BY DEF request, WireInv, WireTypes
<1>3. PICK op \in Ops, i \in ClientIds \cup offers[c] :
        /\ toS' = [toS EXCEPT ![c] = Append(@, [op |-> op, id |-> i, n |-> n + 1])]
        /\ \/ /\ op \in DOMAIN Kinds /\ i \in ClientIds /\ ids[c][i].st = "free"
              /\ ids' = [ids EXCEPT ![c][i] = [st |-> Kinds[op], n |-> n + 1]]
              /\ UNCHANGED offers
           \/ /\ op \notin DOMAIN Kinds /\ i \in ClientIds /\ ids[c][i].st = "object"
              /\ ids' = [ids EXCEPT ![c][i].st = IF op = "destroy" THEN "gone" ELSE @]
              /\ UNCHANGED offers
           \/ /\ op = "destroy" /\ i \in offers[c]
              /\ offers' = [offers EXCEPT ![c] = @ \ {i}]
              /\ UNCHANGED ids
  BY <1>2 DEF request
<1> DEFINE r == [op |-> op, id |-> i, n |-> n + 1]
           V == Append(T, r)
           w1 == ids'[c]
<1>4. /\ r \in RequestT /\ r.op = op /\ r.id = i /\ r.n = n + 1
      /\ (Creates(r) <=> op \in DOMAIN Kinds)
  BY <1>1 DEF RequestT, Creates
<1>5. toS' = [toS EXCEPT ![c] = V]
  BY <1>3
<1> HIDE DEF r
<1>6. V \in Seq(RequestT)
  BY <1>1, <1>4
<1>7. /\ toS' \in [Conns -> Seq(RequestT)] /\ toS'[c] = V
      /\ \A d \in Conns \ {c} : toS'[d] = toS[d]
  BY <1>5, <1>6 DEF WireInv, WireTypes
<1> HIDE DEF V
<1>8. /\ ids' \in [Conns -> Views] /\ offers' \in [Conns -> SUBSET ServerIds]
      /\ \A d \in Conns \ {c} : ids'[d] = ids[d]
      /\ Joint(k, w1, V, n + 1)
  <2>1. CASE /\ op \in DOMAIN Kinds /\ i \in ClientIds /\ w[i].st = "free"
             /\ ids' = [ids EXCEPT ![c][i] = [st |-> Kinds[op], n |-> n + 1]]
             /\ UNCHANGED offers
    <3> DEFINE x == [st |-> Kinds[op], n |-> n + 1]
               v == [w EXCEPT ![i] = x]
    <3>1. x \in ViewT /\ x.st = Kinds[op] /\ x.n = n + 1
      BY <1>1, <2>1 DEF Kinds, ViewT
    <3>2. ids' = [ids EXCEPT ![c] = v]
      BY <2>1
    <3> HIDE DEF x
    <3>3. v \in Views /\ v[i] = x /\ \A j \in ClientIds \ {i} : v[j] = w[j]
      BY <1>1, <2>1, <3>1 DEF Views, ViewT
    <3> HIDE DEF v
    <3>4. ids' \in [Conns -> Views] /\ w1 = v /\ \A d \in Conns \ {c} : ids'[d] = ids[d]
      BY <3>2, <3>3 DEF WireInv, WireTypes
    <3>5. Joint(k, v, V, n + 1)
      BY <1>1, <1>4, <2>1, <3>1, <3>3, CreateSent DEF V
    <3> QED
      BY <2>1, <3>4, <3>5 DEF WireInv, WireTypes
  <2>2. CASE /\ op \notin DOMAIN Kinds /\ i \in ClientIds /\ w[i].st = "object"
             /\ ids' = [ids EXCEPT ![c][i].st = IF op = "destroy" THEN "gone" ELSE @]
             /\ UNCHANGED offers
    <3> DEFINE st == IF op = "destroy" THEN "gone" ELSE "object"
               x == [w[i] EXCEPT !.st = st]
               v == [w EXCEPT ![i] = x]
    <3>1. w[i] \in ViewT
      BY <1>1, <2>2 DEF Views, ViewT
    <3>2. x \in ViewT /\ x.st = st /\ x.n = w[i].n
      BY <3>1 DEF ViewT
    <3>3. ids' = [ids EXCEPT ![c] = v]
      BY <2>2
    <3> HIDE DEF x
    <3>4. v \in Views /\ v[i] = x /\ \A j \in ClientIds \ {i} : v[j] = w[j]
      BY <1>1, <2>2, <3>2 DEF Views, ViewT
    <3> HIDE DEF v
    <3>5. ids' \in [Conns -> Views] /\ w1 = v /\ \A d \in Conns \ {c} : ids'[d] = ids[d]
      BY <3>3, <3>4 DEF WireInv, WireTypes
    <3>6. Joint(k, v, V, n + 1)
      BY <1>1, <1>4, <2>2, <3>2, <3>4, AskSent DEF V
    <3> QED
      BY <2>2, <3>5, <3>6 DEF WireInv, WireTypes
  <2>3. CASE /\ op = "destroy" /\ i \in offers[c]
             /\ offers' = [offers EXCEPT ![c] = @ \ {i}]
             /\ UNCHANGED ids
    <3>1. Joint(k, w, V, n + 1)
      BY <1>1, <1>4, <2>3, DropSent DEF V
    <3>2. offers' \in [Conns -> SUBSET ServerIds]
      BY <1>1, <2>3 DEF WireInv, WireTypes
    <3> QED
      BY <2>3, <3>1, <3>2 DEF WireInv, WireTypes
  <2> QED
    BY <1>3, <2>1, <2>2, <2>3
<1>9. WireTypes'
  BY <1>2, <1>7, <1>8 DEF WireInv, WireTypes
<1>10. Extends(Whole(k), Whole(k))
  BY <1>1, WholeSeq, SameExtends DEF Joint
<1> QED
  BY <1>2, <1>7, <1>8, <1>9, <1>10 DEF Moves

(* The client takes the event at the head of the stream.                     *)
LEMMA ReceiveTakes ==
  ASSUME WireInv, NEW c \in Conns, receive(c)
  PROVE  LET k == conn[c]
             e == Head(k.wire)
         IN  /\ k \in ConnT /\ k.wire # <<>> /\ e = Head(Whole(k))
             /\ e.op = "offer" => e.id \in ServerIds
             /\ ids' \in [Conns -> Views] /\ Learns(ids[c], ids'[c], e)
             /\ \A d \in Conns \ {c} : ids'[d] = ids[d]
<1> DEFINE k == conn[c]
           w == ids[c]
           e == Head(k.wire)
           w1 == ids'[c]
<1>1. /\ Joint(k, w, toS[c], sent[c]) /\ k \in ConnT /\ w \in Views /\ k.wire # <<>>
  BY DEF WireInv, WireTypes, receive
<1>2. Whole(k) # <<>> /\ e = Head(Whole(k))
  BY <1>1, TakeState
<1>3. /\ e = Whole(k)[1] /\ 1 \in 1..Len(Whole(k))
  BY <1>1, <1>2, WholeSeq, TailEvents
<1>4. /\ e.op \in {"done", "delete_id"} => e.id \in ClientIds
      /\ e.op = "offer" => e.id \in ServerIds
  BY <1>1, <1>3 DEF Joint, Agrees, EventsAgree
<1>5. ids' = CASE e.op = "done" -> [ids EXCEPT ![c][e.id].st = "gone"]
               [] e.op = "delete_id" -> [ids EXCEPT ![c][e.id] = [st |-> "free", n |-> 0]]
               [] OTHER -> ids
  BY DEF receive
<1> HIDE DEF e
<1>6. /\ ids' \in [Conns -> Views] /\ Learns(w, w1, e)
      /\ \A d \in Conns \ {c} : ids'[d] = ids[d]
  <2>1. CASE e.op = "done"
    <3> DEFINE x == [w[e.id] EXCEPT !.st = "gone"]
               v == [w EXCEPT ![e.id] = x]
    <3>1. ids' = [ids EXCEPT ![c] = v]
      BY <1>5, <2>1
    <3>2. w[e.id] \in ViewT
      BY <1>1, <1>4, <2>1 DEF Views, ViewT
    <3>3. x \in ViewT /\ x.st = "gone" /\ x.n = w[e.id].n
      BY <3>2 DEF ViewT
    <3> HIDE DEF x
    <3>4. v \in Views /\ v[e.id] = x /\ \A j \in ClientIds \ {e.id} : v[j] = w[j]
      BY <1>1, <1>4, <2>1, <3>3 DEF Views, ViewT
    <3> HIDE DEF v
    <3>5. ids' \in [Conns -> Views] /\ w1 = v /\ \A d \in Conns \ {c} : ids'[d] = ids[d]
      BY <3>1, <3>4 DEF WireInv, WireTypes
    <3> QED
      BY <2>1, <3>3, <3>4, <3>5 DEF Learns
  <2>2. CASE e.op = "delete_id"
    <3> DEFINE x == [st |-> "free", n |-> 0]
               v == [w EXCEPT ![e.id] = x]
    <3>1. ids' = [ids EXCEPT ![c] = v]
      BY <1>5, <2>2
    <3>2. x \in ViewT /\ x.st = "free" /\ x.n = 0
      BY DEF ViewT
    <3> HIDE DEF x
    <3>3. v \in Views /\ v[e.id] = x /\ \A j \in ClientIds \ {e.id} : v[j] = w[j]
      BY <1>1, <1>4, <2>2, <3>2 DEF Views, ViewT
    <3> HIDE DEF v
    <3>4. ids' \in [Conns -> Views] /\ w1 = v /\ \A d \in Conns \ {c} : ids'[d] = ids[d]
      BY <3>1, <3>3 DEF WireInv, WireTypes
    <3> QED
      BY <2>2, <3>2, <3>3, <3>4 DEF Learns
  <2>3. CASE e.op \notin {"done", "delete_id"}
    <3>1. ids' = ids
      BY <1>5, <2>3
    <3> QED
      BY <2>3, <3>1 DEF Learns, WireInv, WireTypes
  <2> QED
    BY <2>1, <2>2, <2>3
<1> QED
  BY <1>1, <1>2, <1>4, <1>6 DEF e

LEMMA ReceiveMoves ==
  ASSUME WireInv, NEW c \in Conns, receive(c)  PROVE Moves(c)
<1> DEFINE k == conn[c]
           w == ids[c]
           e == Head(k.wire)
           k1 == [k EXCEPT !.wire = Tail(@)]
           w1 == ids'[c]
<1>1. /\ Joint(k, w, toS[c], sent[c]) /\ offers[c] \in SUBSET ServerIds
  BY DEF WireInv, WireTypes
<1>2. /\ k \in ConnT /\ k.wire # <<>>
      /\ e.op = "offer" => e.id \in ServerIds
      /\ ids' \in [Conns -> Views] /\ Learns(w, w1, e)
      /\ \A d \in Conns \ {c} : ids'[d] = ids[d]
  BY ReceiveTakes
<1>3. /\ k1 \in ConnT /\ Whole(k1) = Tail(Whole(k))
  BY <1>2, TakeState
<1>4. /\ conn' = [conn EXCEPT ![c] = k1]
      /\ offers' = [offers EXCEPT ![c] = IF e.op = "offer" THEN @ \cup {e.id} ELSE @]
      /\ peer' = [peer EXCEPT ![c] = e.op # "error"]
      /\ phase' = phase /\ toS' = toS /\ sent' = sent
  BY DEF receive
<1> HIDE DEF e, k1
<1>5. /\ conn' \in [Conns -> ConnT] /\ conn'[c] = k1
      /\ \A d \in Conns \ {c} : conn'[d] = conn[d]
  BY <1>3, <1>4 DEF WireInv, WireTypes
<1>6. Joint(k1, w1, toS[c], sent[c])
  <2>1. w1 \in Views
    BY <1>2
  <2> QED
    BY <1>1, <1>2, <2>1, ReceiveJoint DEF k1, e
<1>7. offers' \in [Conns -> SUBSET ServerIds] /\ peer' \in [Conns -> BOOLEAN]
  BY <1>1, <1>2, <1>4 DEF WireInv, WireTypes
<1>8. WireTypes'
  BY <1>2, <1>4, <1>5, <1>7 DEF WireInv, WireTypes
<1> QED
  BY <1>2, <1>3, <1>4, <1>5, <1>6, <1>8 DEF Moves

LEMMA WireStep ==
  ASSUME WireInv, NEW c \in Conns, Moves(c)  PROVE WireInv'
BY DEF WireInv, Moves

LEMMA WireMoves ==
  ASSUME WireInv, [Next]_vars  PROVE vars' = vars \/ stop \/ \E c \in Conns : Moves(c)
BY ReadMoves, GoneMoves, PhaseMoves, SendMoves, FrameMoves, OfferMoves, RequestMoves,
   ReceiveMoves DEF Next

-----------------------------------------------------------------------------
(* The theorems.                                                            *)

LEMMA StopKeeps ==
  ASSUME WireInv, stop  PROVE WireInv'
BY DEF stop, client, WireInv, WireTypes

(* The inductive invariant holds in every reachable state (server.c:96-501).  *)
THEOREM WireInvCorrect == Spec => []WireInv
<1>1. Init => WireInv
  BY WireInit
<1>2. WireInv /\ [Next]_vars => WireInv'
  <2> SUFFICES ASSUME WireInv, [Next]_vars PROVE WireInv'
    OBVIOUS
  <2>1. CASE vars' = vars
    BY <2>1 DEF vars, client, WireInv, WireTypes
  <2>2. CASE stop
    BY <2>2, StopKeeps
  <2>3. CASE \E c \in Conns : Moves(c)
    BY <2>3, WireStep
  <2> QED
    BY <2>1, <2>2, <2>3, WireMoves
<1> QED
  BY <1>1, <1>2, PTL DEF Spec

(* No event reaches a later object than the one it was posted for, until an  *)
(* event is written past the end of a buffer (server.c:96, server.c:491).    *)
THEOREM EventForItsObjectCorrect == Spec => []EventForItsObject
<1>1. WireInv => EventForItsObject
  <2> SUFFICES ASSUME WireInv, NEW c \in Conns, NEW p \in 1..Len(Pending(c)),
                      Pending(c)[p].id \in ClientIds, Pending(c)[p].op # "delete_id"
               PROVE  /\ ids[c][Pending(c)[p].id].n = Pending(c)[p].n
                      /\ ids[c][Pending(c)[p].id].st # "free"
    BY DEF EventForItsObject, EventsOf
  <2>1. EventsAgree(conn[c].objects, Pending(c), ids[c], RequestsOf(c))
    BY DEF WireInv, Joint, Agrees, Pending, Whole, RequestsOf, UpToNo
  <2> QED
    BY <2>1 DEF EventsAgree
<1> QED
  BY <1>1, WireInvCorrect, PTL

(* A sync is a barrier (server.c:404-438).                                   *)
THEOREM SyncIsBarrierCorrect == Spec => []SyncIsBarrier
<1>1. WireInv => SyncIsBarrier
  <2> SUFFICES ASSUME WireInv, NEW c \in Conns, NEW p \in 1..Len(Pending(c)),
                      Pending(c)[p].op = "done"
               PROVE  /\ \A r \in RequestsOf(c) : r.n > Pending(c)[p].n
                      /\ \A q \in p + 1..Len(Pending(c)) :
                           Pending(c)[q].by = 0 \/ Pending(c)[q].by > Pending(c)[p].n
    BY DEF SyncIsBarrier
  <2>1. EventsAgree(conn[c].objects, Pending(c), ids[c], RequestsOf(c))
    BY DEF WireInv, Joint, Agrees, Pending, Whole, RequestsOf, UpToNo
  <2> QED
    BY <2>1 DEF EventsAgree
<1> QED
  BY <1>1, WireInvCorrect, PTL

LEMMA ExtendsIsPrefix ==
  ASSUME NEW S, NEW s \in Seq(S), NEW t \in Seq(S), Extends(s, t)
  PROVE  IsPrefix(s, t)
<1>1. Len(s) \in Nat /\ Len(t) \in Nat /\ Len(s) \in 0..Len(t) /\ Len(s) \in 0..Len(s)
  BY DEF Extends
<1>2. /\ SubSeq(s, 1, Len(s)) \in Seq(S) /\ Len(SubSeq(s, 1, Len(s))) = Len(s)
      /\ \A p \in 1..Len(s) : SubSeq(s, 1, Len(s))[p] = s[p]
  BY <1>1, Split
<1>3. /\ SubSeq(t, 1, Len(s)) \in Seq(S) /\ Len(SubSeq(t, 1, Len(s))) = Len(s)
      /\ \A p \in 1..Len(s) : SubSeq(t, 1, Len(s))[p] = t[p]
  BY <1>1, Split
<1>4. SubSeq(s, 1, Len(s)) = SubSeq(t, 1, Len(s))
  BY <1>1, <1>2, <1>3 DEF Extends
<1> QED
  BY <1>1, <1>4 DEF IsPrefix

(* Until a connection is freed, or an event is written past the end of a       *)
(* buffer, the events of a connection reach the client whole and in the order  *)
(* they were posted, for sockets of any size, full ones and closed ones         *)
(* (server.c:101, server.c:150).                                             *)
THEOREM StreamIsFifoCorrect == Spec => StreamIsFifo
<1> DEFINE Fifo == loop' # "overrun" => \A c \in Conns : phase'[c] = "open" =>
                     \/ IsPrefix(Pending(c), Pending(c)')
                     \/ Pending(c)' = Tail(Pending(c)) /\ conn[c].wire # <<>>
<1>1. WireInv /\ [Next]_vars => [Fifo]_vars
  <2> SUFFICES ASSUME WireInv, [Next]_vars, vars' # vars, NEW c \in Conns, phase'[c] = "open"
               PROVE  \/ IsPrefix(Pending(c), Pending(c)')
                      \/ Pending(c)' = Tail(Pending(c)) /\ conn[c].wire # <<>>
    OBVIOUS
  <2>1. /\ Pending(c) = Whole(conn[c]) /\ Pending(c)' = Whole(conn'[c])
        /\ conn[c] \in ConnT
    BY DEF Pending, Whole, WireInv, Joint
  <2>2. CASE conn'[c] = conn[c]
    BY <2>1, <2>2, WholeSeq, SameExtends, ExtendsIsPrefix
  <2>3. CASE conn'[c] # conn[c]
    <3>1. ~stop
      BY <2>3 DEF stop
    <3>2. Moves(c)
      BY <2>3, <3>1, WireMoves DEF Moves
    <3>3. conn'[c] \in ConnT
      BY <3>2 DEF Moves, Joint
    <3> QED
      BY <2>1, <3>2, <3>3, WholeSeq, ExtendsIsPrefix DEF Moves
  <2> QED
    BY <2>2, <2>3
<1>2. [][Fifo]_vars <=> StreamIsFifo
  BY DEF StreamIsFifo
<1> QED
  BY <1>1, WireInvCorrect, PTL DEF Spec, StreamIsFifo

-----------------------------------------------------------------------------
(* Where the ids are, in every reachable state.                             *)

How(c) == IF refused[c] THEN "refused" ELSE "sound"

(* A connection and its client; of one that is freed only the offers under     *)
(* way matter.  A request that named an object wrongly came after a refused    *)
(* one.                                                                     *)
Owned(k, w, f, Q, ph, how, fail) ==
  /\ OffersAgree(k, f, Q)
  /\ ph # "freed" => Begun(k, w, f, Q, how)
  /\ fail => how # "sound"

Asked(c) == UpToNo(toS[c], Len(toS[c]))

IdsInv ==
  /\ refused \in [Conns -> BOOLEAN] /\ failed \in [Conns -> BOOLEAN]
  /\ \A c \in Conns :
       Owned(conn[c], ids[c], offers[c], Asked(c), phase[c], How(c), failed[c])

(* What a step of connection c does to the ids.                              *)
IdsMove(c) ==
  /\ (refused \in [Conns -> BOOLEAN] /\ failed \in [Conns -> BOOLEAN])'
  /\ Owned(conn'[c], ids'[c], offers'[c], Asked(c)', phase'[c], How(c)', failed'[c])
  /\ \A d \in Conns \ {c} : /\ offers'[d] = offers[d] /\ phase'[d] = phase[d]
                             /\ refused'[d] = refused[d] /\ failed'[d] = failed[d]

LEMMA IdsInit == Init => IdsInv
<1> SUFFICES ASSUME Init PROVE IdsInv
  OBVIOUS
<1> DEFINE none == <<>>
           o == Object(DisplayId, "display", 0)
           w == [i \in ClientIds |-> [st |-> "free", n |-> 0]]
<1>1. Fresh = [objects |-> {o}, pool |-> {}, buffer |-> none, wire |-> none]
  BY DEF Fresh
<1>2. o.id \notin ServerIds /\ o.kind # "offer"
  BY IdsApart DEF Object
<1>3. none \o none = none /\ Len(none) = 0
  OBVIOUS
<1> HIDE DEF none, o
<1>4. Fresh.objects = {o} /\ Fresh.pool = {} /\ Whole(Fresh) = none
  BY <1>1, <1>3 DEF Whole
<1>5. 1..Len(none) = {} /\ UpToNo(none, Len(none)) = {}
  BY <1>3 DEF UpToNo
<1>6. IsFiniteSet(Fresh.objects)
  BY <1>4, FS_Singleton
<1>7. \A n \in 0..PoolSize - 1 : ~Registered(Fresh, ServerId(n))
  <2>1. \A n \in 0..PoolSize - 1 : ServerId(n) \in ServerIds
    BY DEF ServerIds
  <2> QED
    BY <1>2, <1>4, <2>1 DEF Registered
<1>8. OffersAgree(Fresh, {}, {})
  BY <1>2, <1>4, <1>5, <1>6, <1>7 DEF OffersAgree
<1>9. OffersLive(Fresh, {}, {}) /\ Accounted(Fresh, w, {})
  BY <1>4, <1>5 DEF OffersLive, Accounted
<1> HIDE DEF w
<1>10. Owned(Fresh, w, {}, {}, "none", "sound", FALSE)
  BY <1>8, <1>9 DEF Owned, Begun
<1>11. \A c \in Conns : /\ conn[c] = Fresh /\ ids[c] = w /\ offers[c] = {} /\ toS[c] = none
                        /\ phase[c] = "none" /\ refused[c] = FALSE /\ failed[c] = FALSE
  BY DEF Init, none, w
<1>12. \A c \in Conns : Asked(c) = {} /\ How(c) = "sound"
  BY <1>5, <1>11 DEF Asked, How
<1>13. refused \in [Conns -> BOOLEAN] /\ failed \in [Conns -> BOOLEAN]
  BY DEF Init
<1> QED
  BY <1>10, <1>11, <1>12, <1>13 DEF IdsInv

LEMMA IdsKnown ==
  ASSUME WireInv, IdsInv, NEW c \in Conns
  PROVE  /\ conn[c] \in ConnT /\ offers[c] \in SUBSET ServerIds
         /\ OffersAgree(conn[c], offers[c], Asked(c))
         /\ Agrees(conn[c].objects, Whole(conn[c]), ids[c], Asked(c))
         /\ phase[c] # "freed" => Begun(conn[c], ids[c], offers[c], Asked(c), How(c))
         /\ failed[c] => How(c) # "sound"
BY DEF WireInv, WireTypes, Joint, IdsInv, Owned, Asked

(* The rest of the state being as it is, c has connection k.                 *)
LEMMA ConnIds ==
  ASSUME WireInv, IdsInv, NEW c \in Conns, NEW k, conn' = [conn EXCEPT ![c] = k],
         Begun(k, ids[c], offers[c], Asked(c), How(c)),
         phase' = phase, client' = client, history' = history
  PROVE  IdsMove(c)
<1>1. conn'[c] = k
  BY DEF WireInv, WireTypes
<1>2. /\ ids' = ids /\ offers' = offers /\ toS' = toS /\ refused' = refused /\ failed' = failed
  BY DEF client, history
<1>3. Asked(c)' = Asked(c) /\ How(c)' = How(c)
  BY <1>2 DEF Asked, How
<1>4. Owned(k, ids[c], offers[c], Asked(c), phase[c], How(c), failed[c])
  BY IdsKnown DEF Owned, Begun
<1>5. (refused \in [Conns -> BOOLEAN] /\ failed \in [Conns -> BOOLEAN])'
  BY <1>2 DEF IdsInv
<1> QED
  BY <1>1, <1>2, <1>3, <1>4, <1>5 DEF IdsMove

LEMMA SendIds ==
  ASSUME WireInv, IdsInv, NEW c \in Conns, send_event(c)  PROVE IdsMove(c)
<1>1. PICK o \in conn[c].objects, flushes \in BOOLEAN :
        LET k == post(conn[c], peer[c], Event("event", o.id, o.n, 0))
        IN  conn' = [conn EXCEPT ![c] = IF flushes THEN flush(k, peer[c]) ELSE k]
  BY DEF send_event
<1> DEFINE e == Event("event", o.id, o.n, 0)
           k == post(conn[c], peer[c], e)
<1>2. PICK k1 \in {k, flush(k, peer[c])} : conn' = [conn EXCEPT ![c] = k1]
  BY <1>1
<1>3. phase[c] # "freed" /\ phase' = phase /\ client' = client /\ history' = history
  BY DEF send_event, MayPost
<1>4. /\ conn[c] \in ConnT /\ Begun(conn[c], ids[c], offers[c], Asked(c), How(c))
  BY <1>3, IdsKnown
<1>5. o \in ObjectT
  BY <1>4 DEF ConnT
<1>6. e \in EventT /\ e.op # "offer"
  BY <1>5 DEF ObjectT, EventT, Event
<1> HIDE DEF e
<1>7. k \in ConnT /\ Begun(k, ids[c], offers[c], Asked(c), How(c))
  BY <1>4, <1>6, PostState, PostBegun
<1> HIDE DEF k
<1>8. Begun(flush(k, peer[c]), ids[c], offers[c], Asked(c), How(c))
  BY <1>7, FlushBegun
<1> QED
  BY <1>2, <1>3, <1>7, <1>8, ConnIds

LEMMA FrameIds ==
  ASSUME WireInv, IdsInv, NEW c \in Conns, send_frame_done(c)  PROVE IdsMove(c)
<1>1. PICK o \in conn[c].objects :
        /\ o.kind = "frame"
        /\ conn' = [conn EXCEPT ![c] = flush(callback_done(conn[c], peer[c], o.id), peer[c])]
  BY DEF send_frame_done
<1> DEFINE k == callback_done(conn[c], peer[c], o.id)
<1>2. phase[c] # "freed" /\ phase' = phase /\ client' = client /\ history' = history
  BY DEF send_frame_done
<1>3. /\ conn[c] \in ConnT /\ Begun(conn[c], ids[c], offers[c], Asked(c), How(c))
      /\ Agrees(conn[c].objects, Whole(conn[c]), ids[c], Asked(c))
  BY <1>2, IdsKnown
<1>4. o.id \in ClientIds /\ o.kind # "object"
  BY <1>1, <1>3 DEF Agrees, ObjectsAgree
<1>5. k \in ConnT /\ Begun(k, ids[c], offers[c], Asked(c), How(c))
  BY <1>3, <1>4, CallbackBegun
<1>6. conn' = [conn EXCEPT ![c] = flush(k, peer[c])]
  BY <1>1
<1> HIDE DEF k
<1>7. Begun(flush(k, peer[c]), ids[c], offers[c], Asked(c), How(c))
  BY <1>5, FlushBegun
<1> QED
  BY <1>2, <1>6, <1>7, ConnIds

(* The compositor has fewer offers in a client than there are ids: of a pool   *)
(* that is full c_bitmap_get_free gives the id 0 (bitmap.c:22).               *)
LEMMA OfferIds ==
  ASSUME WireInv, IdsInv, MaxOffers <= PoolSize, NEW c \in Conns, advertise(c)
  PROVE  IdsMove(c)
<1> DEFINE O == {o \in conn[c].objects : o.kind = "offer"}
           k == post(add_offer(conn[c]), peer[c],
                     Event("offer", ServerId(get_free(conn[c].pool)), 0, 0))
<1>1. conn' = [conn EXCEPT ![c] = k]
  BY DEF advertise
<1>2. phase[c] # "freed" /\ phase' = phase /\ client' = client /\ history' = history
  BY DEF advertise, MayPost
<1>3. /\ conn[c] \in ConnT /\ Begun(conn[c], ids[c], offers[c], Asked(c), How(c))
  BY <1>2, IdsKnown
<1>4. Cardinality(O) < PoolSize
  <2>1. Cardinality(O) < MaxOffers
    BY DEF advertise
  <2>2. IsFiniteSet(conn[c].objects) /\ O \in SUBSET conn[c].objects
    BY <1>3 DEF Begun, OffersAgree
  <2>3. IsFiniteSet(O)
    BY <2>2, FS_Subset
  <2> HIDE DEF O
  <2>4. Cardinality(O) \in Nat
    BY <2>3, FS_CardinalityType
  <2> QED
    BY <2>1, <2>4, WireAssumption
<1>5. Begun(k, ids[c], offers[c], Asked(c), How(c))
  BY <1>3, <1>4, OfferBegun
<1> HIDE DEF k
<1> QED
  BY <1>1, <1>2, <1>5, ConnIds

LEMMA GoneIds ==
  ASSUME WireInv, IdsInv, NEW c \in Conns, client_gone(c) \/ display_free(c)
  PROVE  IdsMove(c)
<1> DEFINE k == [Fresh EXCEPT !.wire = conn[c].wire]
<1>1. connection_free(c, conn[c], loop) /\ client' = client /\ history' = history
  BY DEF client_gone, display_free
<1>2. /\ ids' = ids /\ offers' = offers /\ toS' = toS /\ refused' = refused /\ failed' = failed
  BY <1>1 DEF client, history
<1>3. OffersAgree(k, offers[c], Asked(c))
  <2>1. Asked(c) \in SUBSET Asked(c)
    OBVIOUS
  <2> QED
    BY <2>1, IdsKnown, FreedOffers
<1>4. conn' = [conn EXCEPT ![c] = k] /\ phase' = [phase EXCEPT ![c] = "freed"]
  BY <1>1 DEF connection_free
<1> HIDE DEF k
<1>5. /\ conn'[c] = k /\ phase'[c] = "freed"
      /\ \A d \in Conns \ {c} : phase'[d] = phase[d]
  BY <1>4 DEF WireInv, WireTypes
<1>6. Asked(c)' = Asked(c) /\ How(c)' = How(c)
  BY <1>2 DEF Asked, How
<1>7. Owned(k, ids[c], offers[c], Asked(c), "freed", How(c), failed[c])
  BY <1>3, IdsKnown DEF Owned
<1>8. (refused \in [Conns -> BOOLEAN] /\ failed \in [Conns -> BOOLEAN])'
  BY <1>2 DEF IdsInv
<1> QED
  BY <1>2, <1>5, <1>6, <1>7, <1>8 DEF IdsMove

LEMMA PhaseIds ==
  ASSUME WireInv, IdsInv, NEW c \in Conns,
         server_epoll_callback(c) \/ connect(c) \/ close(c)
  PROVE  IdsMove(c)
<1>1. conn' = conn /\ client' = client /\ history' = history
  BY DEF server_epoll_callback, connect, close
<1>2. /\ phase'[c] = "freed" => phase[c] = "freed"
      /\ phase[c] = "freed" => phase'[c] = "freed"
      /\ \A d \in Conns \ {c} : phase'[d] = phase[d]
  BY DEF server_epoll_callback, connect, close, WireInv, WireTypes
<1>3. /\ ids' = ids /\ offers' = offers /\ toS' = toS /\ refused' = refused /\ failed' = failed
  BY <1>1 DEF client, history
<1>4. Asked(c)' = Asked(c) /\ How(c)' = How(c)
  BY <1>3 DEF Asked, How
<1>5. Owned(conn[c], ids[c], offers[c], Asked(c), phase'[c], How(c), failed[c])
  BY <1>2, IdsKnown DEF Owned
<1>6. (refused \in [Conns -> BOOLEAN] /\ failed \in [Conns -> BOOLEAN])'
  BY <1>3 DEF IdsInv
<1> QED
  BY <1>1, <1>2, <1>3, <1>4, <1>5, <1>6 DEF IdsMove

LEMMA ReceiveIds ==
  ASSUME WireInv, IdsInv, NEW c \in Conns, receive(c)  PROVE IdsMove(c)
<1> DEFINE k == conn[c]
           e == Head(k.wire)
           k1 == [k EXCEPT !.wire = Tail(@)]
           f1 == IF e.op = "offer" THEN offers[c] \cup {e.id} ELSE offers[c]
           w1 == ids'[c]
<1>1. /\ k \in ConnT /\ k.wire # <<>> /\ Agrees(k.objects, Whole(k), ids[c], Asked(c))
      /\ OffersAgree(k, offers[c], Asked(c))
  BY IdsKnown DEF receive
<1>2. Learns(ids[c], w1, e)
  BY ReceiveTakes
<1>3. /\ OffersAgree(k1, f1, Asked(c))
      /\ \A how : Begun(k, ids[c], offers[c], Asked(c), how) => Begun(k1, w1, f1, Asked(c), how)
  BY <1>1, <1>2, ReceiveBegun
<1>4. /\ conn' = [conn EXCEPT ![c] = k1] /\ phase' = phase /\ toS' = toS /\ refused' = refused
      /\ failed' = failed /\ offers' = [offers EXCEPT ![c] = f1]
  BY DEF receive, history
<1> HIDE DEF k1, f1
<1>5. /\ conn'[c] = k1 /\ offers'[c] = f1 /\ \A d \in Conns \ {c} : offers'[d] = offers[d]
  BY <1>4 DEF WireInv, WireTypes
<1>6. Asked(c)' = Asked(c) /\ How(c)' = How(c)
  BY <1>4 DEF Asked, How
<1>7. Owned(k1, w1, f1, Asked(c), phase[c], How(c), failed[c])
  BY <1>3, IdsKnown DEF Owned
<1>8. (refused \in [Conns -> BOOLEAN] /\ failed \in [Conns -> BOOLEAN])'
  BY <1>4 DEF IdsInv
<1> QED
  BY <1>4, <1>5, <1>6, <1>7, <1>8 DEF IdsMove

LEMMA RequestIds ==
  ASSUME WireInv, IdsInv, NEW c \in Conns, request(c)  PROVE IdsMove(c)
<1> DEFINE k == conn[c]
           w == ids[c]
           f == offers[c]
           Q == Asked(c)
           T == toS[c]
<1>1. /\ phase[c] # "freed" /\ conn' = conn /\ phase' = phase
      /\ refused' = refused /\ failed' = failed
  BY DEF request, history
<1>2. /\ OffersAgree(k, f, Q) /\ f \in SUBSET ServerIds
      /\ Begun(k, w, f, Q, How(c)) /\ Agrees(k.objects, Whole(k), w, Q)
      /\ failed[c] => How(c) # "sound"
  BY <1>1, IdsKnown
<1>3. T \in Seq(RequestT) /\ sent[c] \in Nat
  BY DEF WireInv, WireTypes
<1>4. sent'[c] = sent[c] + 1
  BY DEF request, WireInv, WireTypes
<1>5. PICK op \in Ops, i \in ClientIds \cup f :
        /\ toS' = [toS EXCEPT ![c] = Append(T, [op |-> op, id |-> i, n |-> sent[c] + 1])]
        /\ \/ /\ op \in DOMAIN Kinds /\ i \in ClientIds
              /\ ids' = [ids EXCEPT ![c][i] = [st |-> Kinds[op], n |-> sent[c] + 1]]
              /\ UNCHANGED offers
           \/ /\ op \notin DOMAIN Kinds /\ i \in ClientIds /\ ids[c][i].st = "object"
              /\ ids' = [ids EXCEPT ![c][i].st = IF op = "destroy" THEN "gone" ELSE @]
              /\ UNCHANGED offers
           \/ /\ op = "destroy" /\ i \in f
              /\ offers' = [offers EXCEPT ![c] = f \ {i}]
              /\ UNCHANGED ids
  BY <1>4, ZenonT(60) DEF request
<1> DEFINE r == [op |-> op, id |-> i, n |-> sent[c] + 1]
           w1 == ids'[c]
           f1 == offers'[c]
<1>6. r \in RequestT /\ r.id = i /\ r.op = op /\ (Creates(r) <=> op \in DOMAIN Kinds)
  BY <1>2, <1>3 DEF RequestT, Creates
<1>7. toS' = [toS EXCEPT ![c] = Append(T, r)]
  BY <1>5
<1> HIDE DEF r
<1>8. Asked(c)' = Q \cup {r}
  <2>1. toS'[c] = Append(T, r)
    BY <1>7 DEF WireInv, WireTypes
  <2>2. \A s \in Seq(RequestT) : \A q \in RequestT :
          UpToNo(Append(s, q), Len(Append(s, q))) = UpToNo(s, Len(s)) \cup {q}
    BY OneMore
  <2> QED
    BY <1>3, <1>6, <2>1, <2>2 DEF Asked
<1>9. \A d \in Conns \ {c} : offers'[d] = offers[d]
  BY <1>5 DEF WireInv, WireTypes
<1> HIDE DEF Q
<1>10. OffersAgree(k, f1, Q \cup {r}) /\ Begun(k, w1, f1, Q \cup {r}, How(c))
  <2>1. CASE op \in DOMAIN Kinds /\ i \in ClientIds /\ UNCHANGED offers
             /\ ids' = [ids EXCEPT ![c][i] = [st |-> Kinds[op], n |-> sent[c] + 1]]
    <3>1. \A j \in ClientIds \ {i} : w1[j] = w[j]
      BY <2>1 DEF WireInv, WireTypes, Views
    <3> QED
      BY <1>2, <1>6, <2>1, <3>1, SentBegun
  <2>2. CASE op \notin DOMAIN Kinds /\ i \in ClientIds /\ w[i].st = "object" /\ UNCHANGED offers
             /\ ids' = [ids EXCEPT ![c][i].st = IF op = "destroy" THEN "gone" ELSE @]
    <3>1. \A j \in ClientIds \ {i} : w1[j] = w[j]
      BY <2>2 DEF WireInv, WireTypes, Views
    <3>2. ~Deleted(k, i)
      BY <1>2, <2>2 DEF Deleted, Agrees, EventsAgree
    <3> QED
      BY <1>2, <1>6, <2>2, <3>1, <3>2, SentBegun
  <2>3. CASE op = "destroy" /\ i \in f /\ offers' = [offers EXCEPT ![c] = f \ {i}] /\ UNCHANGED ids
    <3>1. f1 = f \ {i} /\ ~Creates(r)
      BY <1>6, <2>3 DEF WireInv, WireTypes, Kinds
    <3> QED
      BY <1>2, <1>6, <2>3, <3>1, DropBegun
  <2> QED
    BY <1>5, <2>1, <2>2, <2>3
<1>11. How(c)' = How(c)
  BY <1>1 DEF How
<1>12. Owned(k, w1, f1, Q \cup {r}, phase[c], How(c), failed[c])
  BY <1>2, <1>10 DEF Owned
<1>13. (refused \in [Conns -> BOOLEAN] /\ failed \in [Conns -> BOOLEAN])'
  BY <1>1 DEF IdsInv
<1> QED
  BY <1>1, <1>8, <1>9, <1>11, <1>12, <1>13 DEF IdsMove, Q

(* What is left of a batch when it is settled: a connection that is freed or    *)
(* one with every id in its place, unless a request was refused.              *)
LEMMA SettledIds ==
  ASSUME NEW c \in Conns, conn \in [Conns -> ConnT],
         phase \in [Conns -> {"none", "backlog", "open", "freed"}],
         NEW b \in BatchT, NEW w, NEW f, NEW Q1, NEW how,
         Served(b, w, f, Q1, how), Settled(c, b)
  PROVE  /\ OffersAgree(conn'[c], f, Q1)
         /\ \A d \in Conns \ {c} : phase'[d] = phase[d]
         /\ phase'[c] # "freed" =>
              Begun(conn'[c], w, f, Q1, IF b.refused THEN "refused" ELSE how)
<1> DEFINE ret == IF b.ret = OK THEN flush_result(b.k, peer[c]) ELSE b.ret
           h == IF b.refused THEN "refused" ELSE how
           e == Event("error", DisplayId, 0, 0)
<1>1. ASSUME NEW next, connection_free(c, b.k, next)
      PROVE  /\ OffersAgree(conn'[c], f, Q1) /\ phase'[c] = "freed"
             /\ \A d \in Conns \ {c} : phase'[d] = phase[d]
  <2>1. /\ conn'[c] = [Fresh EXCEPT !.wire = b.k.wire] /\ phase'[c] = "freed"
        /\ \A d \in Conns \ {c} : phase'[d] = phase[d]
    BY <1>1 DEF connection_free
  <2>2. b.k \in ConnT /\ OffersAgree(b.k, f, Q1) /\ Q1 \in SUBSET Q1
    BY DEF BatchT, Served
  <2>3. OffersAgree([Fresh EXCEPT !.wire = b.k.wire], f, Q1)
    BY <2>2, FreedOffers
  <2> QED
    BY <2>1, <2>3
<1>2. ASSUME phase' = phase, NEW k1, conn' = [conn EXCEPT ![c] = k1],
             ret \notin {DISPATCH_FATAL_ERR, DISPATCH_CLIENT_ERR},
             Begun(b.k, w, f, Q1, h) => Begun(k1, w, f, Q1, h)
      PROVE  /\ OffersAgree(conn'[c], f, Q1) /\ Begun(conn'[c], w, f, Q1, h)
             /\ phase' = phase
  <2>1. b.ret \notin {DISPATCH_FATAL_ERR, DISPATCH_CLIENT_ERR}
    BY <1>2 DEF OK, DISPATCH_FATAL_ERR, DISPATCH_CLIENT_ERR
  <2>2. Begun(b.k, w, f, Q1, h)
    BY <2>1 DEF Served, Begun
  <2> QED
    BY <1>2, <2>2 DEF Begun
<1>3. b.k \in ConnT
  BY DEF BatchT
<1>4. /\ Begun(b.k, w, f, Q1, h) => Begun(flush(b.k, peer[c]), w, f, Q1, h)
      /\ Begun(b.k, w, f, Q1, h) => Begun(post(b.k, peer[c], e), w, f, Q1, h)
  <2>1. e \in EventT /\ e.op # "offer"
    BY DEF EventT, Event, DisplayId
  <2> HIDE DEF e, h
  <2> QED
    BY <1>3, <2>1, FlushBegun, PostBegun
<1>5. \/ \E next : connection_free(c, b.k, next)
      \/ /\ phase' = phase /\ ret \notin {DISPATCH_FATAL_ERR, DISPATCH_CLIENT_ERR}
         /\ \/ conn' = [conn EXCEPT ![c] = b.k]
            \/ conn' = [conn EXCEPT ![c] = flush(b.k, peer[c])]
            \/ conn' = [conn EXCEPT ![c] = post(b.k, peer[c], e)]
  BY DEF Settled, OK, DISPATCH_PROTO_ERR, DISPATCH_FATAL_ERR, DISPATCH_CLIENT_ERR
<1> HIDE DEF ret, h, e
<1>6. \/ \E next : connection_free(c, b.k, next)
      \/ OffersAgree(conn'[c], f, Q1) /\ Begun(conn'[c], w, f, Q1, h) /\ phase' = phase
  BY <1>2, <1>4, <1>5
<1> QED
  BY <1>1, <1>6 DEF h

LEMMA ReadIds ==
  ASSUME WireInv, IdsInv, NEW c \in Conns, client_epoll_callback(c)  PROVE IdsMove(c)
<1> DEFINE k == conn[c]
           w == ids[c]
           f == offers[c]
           T == toS[c]
           Q == Asked(c)
           m == IF Len(T) < MaxRead THEN Len(T) ELSE MaxRead
           rest == SubSeq(T, m + 1, Len(T))
           Q1 == UpToNo(rest, Len(rest))
<1>1. Joint(k, w, T, sent[c]) /\ T \in Seq(RequestT) /\ peer[c] \in BOOLEAN
  BY DEF WireInv, WireTypes
<1>2. m \in 0..Len(T)
  <2>1. Len(T) \in Nat /\ MaxRead \in Nat
    BY <1>1, WireAssumption
  <2> QED
    BY <2>1
<1>3. Batch(c) = SubSeq(T, 1, m) /\ Len(Batch(c)) = m
  <2>1. Batch(c) = SubSeq(T, 1, m)
    BY DEF Batch
  <2> HIDE DEF m
  <2>2. Len(SubSeq(T, 1, m)) = m
    BY <1>1, <1>2, Split
  <2> QED
    BY <2>1, <2>2
<1>4. PICK unset \in Uninit :
        LET b == connection_dispatch(k, peer[c], SubSeq(T, 1, m), unset)
        IN  /\ Settled(c, b)
            /\ refused' = [refused EXCEPT ![c] = @ \/ b.refused]
            /\ failed' = [failed EXCEPT ![c] = @ \/ b.failed]
  BY <1>3 DEF client_epoll_callback
<1> DEFINE b == connection_dispatch(k, peer[c], SubSeq(T, 1, m), unset)
<1>5. /\ toS' = [toS EXCEPT ![c] = rest] /\ ids' = ids /\ offers' = offers
      /\ phase[c] # "freed"
  BY <1>3 DEF client_epoll_callback
<1>6. unset \in Int
  BY WireAssumption
<1>7. /\ OffersAgree(k, f, Q) /\ Begun(k, w, f, Q, How(c))
      /\ failed[c] => How(c) # "sound"
  BY <1>5, IdsKnown
<1> HIDE DEF m
<1>8. b \in BatchT /\ Q1 \subseteq Q /\ Served(b, w, f, Q1, How(c))
  <2>1. /\ b \in BatchT /\ Q1 \subseteq UpToNo(T, Len(T))
        /\ \A g, how : Begun(k, w, g, UpToNo(T, Len(T)), how) => Served(b, w, g, Q1, how)
    BY <1>1, <1>2, <1>6, ReadJoint
  <2> HIDE DEF b, Q1
  <2> QED
    BY <1>7, <2>1 DEF Asked
<1>9. /\ Settled(c, b) /\ refused' = [refused EXCEPT ![c] = @ \/ b.refused]
      /\ failed' = [failed EXCEPT ![c] = @ \/ b.failed]
  BY <1>4
<1> HIDE DEF b, rest, Q, T
<1>10. Asked(c)' = Q1
  <2>1. toS'[c] = rest
    BY <1>5 DEF WireInv, WireTypes
  <2> QED
    BY <2>1 DEF Asked
<1> HIDE DEF Q1
<1> DEFINE h == IF b.refused THEN "refused" ELSE How(c)
<1>11. /\ refused' \in [Conns -> BOOLEAN] /\ failed' \in [Conns -> BOOLEAN]
       /\ refused'[c] = (refused[c] \/ b.refused) /\ failed'[c] = (failed[c] \/ b.failed)
       /\ \A d \in Conns \ {c} : refused'[d] = refused[d] /\ failed'[d] = failed[d]
  BY <1>8, <1>9 DEF IdsInv, BatchT
<1>12. How(c)' = h
  BY <1>11 DEF How
<1>13. failed'[c] => h # "sound"
  BY <1>7, <1>8, <1>11 DEF Served
<1>14. /\ OffersAgree(conn'[c], f, Q1)
       /\ \A d \in Conns \ {c} : phase'[d] = phase[d]
       /\ phase'[c] # "freed" => Begun(conn'[c], w, f, Q1, h)
  <2>1. /\ conn \in [Conns -> ConnT]
        /\ phase \in [Conns -> {"none", "backlog", "open", "freed"}]
    BY DEF WireInv, WireTypes
  <2> QED
    BY <1>7, <1>8, <1>9, <2>1, SettledIds
<1> HIDE DEF h
<1>15. Owned(conn'[c], w, f, Q1, phase'[c], h, failed'[c])
  BY <1>13, <1>14 DEF Owned
<1> QED
  BY <1>5, <1>10, <1>11, <1>12, <1>14, <1>15 DEF IdsMove

LEMMA IdsStep ==
  ASSUME IdsInv, NEW c \in Conns, Moves(c), IdsMove(c)  PROVE IdsInv'
<1>1. ASSUME NEW d \in Conns \ {c}
      PROVE  Owned(conn'[d], ids'[d], offers'[d], Asked(d)', phase'[d], How(d)', failed'[d])
  <2>1. /\ conn'[d] = conn[d] /\ ids'[d] = ids[d] /\ offers'[d] = offers[d] /\ toS'[d] = toS[d]
        /\ phase'[d] = phase[d] /\ refused'[d] = refused[d] /\ failed'[d] = failed[d]
    BY <1>1 DEF Moves, IdsMove
  <2>2. Asked(d)' = Asked(d) /\ How(d)' = How(d)
    BY <2>1 DEF Asked, How
  <2> QED
    BY <1>1, <2>1, <2>2 DEF IdsInv
<1> QED
  BY <1>1 DEF IdsInv, IdsMove

(* The signal moves no connection, and there may be none.                    *)
LEMMA StopIds ==
  ASSUME IdsInv, stop  PROVE IdsInv'
BY DEF stop, client, history, IdsInv, Asked, How

LEMMA IdsNext ==
  ASSUME WireInv, IdsInv, MaxOffers <= PoolSize, [Next]_vars  PROVE IdsInv'
<1>1. CASE vars' = vars
  BY <1>1 DEF vars, client, history, IdsInv, Asked, How
<1>2. CASE stop
  BY <1>2, StopIds
<1>3. ASSUME NEW c \in Conns, Moves(c), IdsMove(c)  PROVE IdsInv'
  BY <1>3, IdsStep
<1>4. ASSUME NEW c \in Conns,
             \/ client_epoll_callback(c) \/ client_gone(c) \/ server_epoll_callback(c)
             \/ display_free(c)
             \/ send_event(c) \/ send_frame_done(c) \/ advertise(c)
             \/ connect(c) \/ request(c) \/ receive(c) \/ close(c)
      PROVE  Moves(c) /\ IdsMove(c)
  <2>1. Moves(c)
    BY <1>4, ReadMoves, GoneMoves, PhaseMoves, SendMoves, FrameMoves, OfferMoves, RequestMoves,
       ReceiveMoves
  <2>2. IdsMove(c)
    BY <1>4, ReadIds, GoneIds, PhaseIds, SendIds, FrameIds, OfferIds, RequestIds, ReceiveIds
  <2> QED
    BY <2>1, <2>2
<1> QED
  BY <1>1, <1>2, <1>3, <1>4 DEF Next

LEMMA OneOrNone ==
  ASSUME NEW S, \A x, y \in S : x = y
  PROVE  Cardinality(S) = IF S = {} THEN 0 ELSE 1
<1>1. CASE S = {}
  BY <1>1, FS_EmptySet
<1>2. CASE S # {}
  <2>1. PICK x \in S : TRUE
    BY <1>2
  <2>2. S = {x}
    BY <2>1
  <2> QED
    BY <1>2, <2>2, FS_Singleton
<1> QED
  BY <1>1, <1>2

(* An id of a client none of whose requests has been refused is in one place. *)
LEMMA OnePlace ==
  ASSUME WireInv, IdsInv, NEW c \in Conns, Sound(c), NEW i \in ClientIds
  PROVE  (IF ids[c][i].st = "free" THEN 1 ELSE 0)
         + Cardinality({r \in RequestsOf(c) : Creates(r) /\ r.id = i})
         + Cardinality({o \in conn[c].objects : o.id = i})
         + Cardinality({e \in EventsOf(c) : e.op = "delete_id" /\ e.id = i}) = 1
<1> DEFINE k == conn[c]
           w == ids[c]
           Q == Asked(c)
           W == Whole(k)
           R == {r \in Q : Creates(r) /\ r.id = i}
           O == {o \in k.objects : o.id = i}
           E == {e \in EventsOf(c) : e.op = "delete_id" /\ e.id = i}
           free == w[i].st = "free"
<1>1. Agrees(k.objects, W, w, Q) /\ Accounted(k, w, Q) /\ W \in Seq(EventT)
  <2>1. phase[c] # "freed" /\ How(c) = "sound"
    BY DEF Sound, How
  <2>2. k \in ConnT
    BY IdsKnown
  <2> QED
    BY <2>1, <2>2, IdsKnown, WholeSeq DEF Begun
<1>2. RequestsOf(c) = Q /\ EventsOf(c) = {W[p] : p \in 1..Len(W)}
  BY DEF RequestsOf, Asked, UpToNo, EventsOf, Pending, Whole
<1> HIDE DEF Q, W
<1>3. E # {} <=> Deleted(k, i)
  BY <1>2 DEF Deleted, W
<1>4. O # {} <=> Registered(k, i)
  BY DEF Registered
<1>5. free \/ R # {} \/ O # {} \/ E # {}
  BY <1>1, <1>3, <1>4 DEF Accounted
<1>6. free => R = {} /\ O = {} /\ E = {}
  BY <1>1, <1>2, FreeNamesNothing
<1>7. R # {} => O = {} /\ E = {}
  BY <1>1, <1>2 DEF Agrees, RequestsAgree, EventsAgree
<1>8. O # {} => E = {}
  BY <1>1, <1>2 DEF Agrees, EventsAgree
<1>9. \A x, y \in R : x = y
  BY <1>1 DEF Agrees, RequestsAgree
<1>10. \A x, y \in O : x = y
  BY <1>1 DEF Agrees, ObjectsAgree
<1>11. \A x, y \in E : x = y
  <2> SUFFICES ASSUME NEW p \in 1..Len(W), NEW q \in 1..Len(W),
                      W[p].op = "delete_id", W[p].id = i, W[q].op = "delete_id", W[q].id = i
               PROVE  p = q
    BY <1>2
  <2>1. Len(W) \in Nat
    BY <1>1
  <2>2. p \notin q + 1..Len(W) /\ q \notin p + 1..Len(W)
    BY <1>1 DEF Agrees, EventsAgree
  <2> QED
    BY <2>1, <2>2
<1> HIDE DEF R, O, E, free
<1>12. /\ Cardinality(R) = IF R = {} THEN 0 ELSE 1
       /\ Cardinality(O) = IF O = {} THEN 0 ELSE 1
       /\ Cardinality(E) = IF E = {} THEN 0 ELSE 1
  BY <1>9, <1>10, <1>11, OneOrNone
<1>13. (IF free THEN 1 ELSE 0) + Cardinality(R) + Cardinality(O) + Cardinality(E) = 1
  BY <1>5, <1>6, <1>7, <1>8, <1>12
<1> QED
  BY <1>2, <1>13 DEF R, O, E, free

(* The ids are where they should be in every reachable state, as long as the    *)
(* compositor has fewer offers in a client than its pool has ids (server.c:444-501). *)
THEOREM IdsInvCorrect ==
  ASSUME MaxOffers <= PoolSize
  PROVE  Spec => []IdsInv
<1>1. Init => IdsInv
  BY IdsInit
<1>2. WireInv /\ IdsInv /\ [Next]_vars => IdsInv'
  BY IdsNext
<1> QED
  BY <1>1, <1>2, WireInvCorrect, PTL DEF Spec

(* The two sides agree on the ids, until an event is written past the end of a  *)
(* buffer: none names two objects or one that is not there (server.c:285,     *)
(* server.c:407, server.c:444-501, bitmap.c:22).                              *)
THEOREM IdsOwnedCorrect ==
  ASSUME MaxOffers <= PoolSize
  PROVE  Spec => []IdsOwned
<1>1. WireInv /\ IdsInv => IdsOwned
  <2> SUFFICES ASSUME WireInv, IdsInv  PROVE IdsOwned
    OBVIOUS
  <2>1. IdInOnePlace
    BY OnePlace DEF IdInOnePlace
  <2>2. OfferIdsFresh
    <3>1. \A c \in Conns : OffersAgree(conn[c], offers[c], Asked(c)) /\ Pending(c) = Whole(conn[c])
      BY IdsKnown DEF Pending, Whole
    <3> QED
      BY <3>1 DEF OfferIdsFresh, OffersAgree
  <2>3. LegalServed
    BY DEF LegalServed, IdsInv, Owned, How
  <2> QED
    BY <2>1, <2>2, <2>3 DEF IdsOwned
<1> QED
  BY <1>1, WireInvCorrect, IdsInvCorrect, PTL
=============================================================================
