---------------------------------- MODULE Wire ----------------------------------
(***************************************************************************)
(* The Wayland connections: the socket of a client, the batch of requests   *)
(* one wakeup reads from it, the table of the client's objects, and the     *)
(* buffer of events that is flushed to it.                                  *)
(*                                                                          *)
(* A connection is the record of what server.c keeps for it (objects,       *)
(* server_id_pool, buffer) with the stream of events under way to the       *)
(* client.  A request that creates an object carries its number, which      *)
(* tells two objects with one id apart.                                     *)
(***************************************************************************)
EXTENDS Integers, Sequences, FiniteSets, SequencesExt

CONSTANTS
  Conns,       \* connections
  ClientIds,   \* ids a client allocates, but 1, wl_display's
  PoolSize,    \* ids of server_id_pool
  BUFFER_SIZE, \* of the event buffer, in events
  MaxRead,     \* requests one read returns
  MaxMsgs,     \* LENGTH(msgs), server.c:377
  SockCap,     \* events the socket holds
  Ops,         \* the requests of the instance
  Uninit,      \* what ret may hold when nothing was assigned to it, server.c:367
  MaxSends,    \* bound on the requests of each client
  MaxOffers,   \* bound on the objects the compositor has in a client
  MaxPending,  \* bound on the events under way when the compositor posts one
  MaxUnread    \* bound on the requests under way when a client sends one

OK == 0
DISPATCH_PROTO_ERR == -1
DISPATCH_FATAL_ERR == -2
DISPATCH_CLIENT_ERR == -3

ASSUME WireAssumption ==
  /\ {PoolSize, BUFFER_SIZE, MaxRead, MaxMsgs} \subseteq Nat \ {0}
  /\ MaxSends \in [Conns -> Nat] /\ {SockCap, MaxOffers, MaxPending, MaxUnread} \subseteq Nat
  /\ Uninit \subseteq Int /\ Uninit # {}
  /\ ClientIds \subseteq {i \in Int : i > 1}
  /\ Ops \subseteq {"sync", "frame", "create", "destroy", "ask", "ignored", "bad", "missing"}

VARIABLES
  loop,     \* "run", "out": c_event_loop_run returned, "overrun": an event was
            \* written past the end of a buffer, and no step of the compositor follows
  phase,    \* of a connection: "none", "backlog", "open", "freed"
  conn,     \* its record
  peer,     \* the client's end of its socket is open
  toS,      \* requests under way
  ids,      \* what the client knows of its ids
  offers,   \* the server's objects the client knows
  sent,     \* requests it has sent
  refused,  \* history: one of them was refused for what it asks
  failed    \* history: one of them named an object wrongly

client == <<toS, ids, offers, sent>>
history == <<refused, failed>>
vars == <<loop, phase, conn, peer, client, history>>

DisplayId == 1
ServerId(n) == -1 - n               \* 0xFF000000 + n
ServerIds == {ServerId(n) : n \in 0..PoolSize - 1}

Object(id, kind, n) == [id |-> id, kind |-> kind, n |-> n]
\* An event for the object (id, n), posted because of request number "by", if any.
Event(op, id, n, by) == [op |-> op, id |-> id, n |-> n, by |-> by]

Kinds == [sync |-> "sync", frame |-> "frame", create |-> "object"]
Creates(r) == r.op \in DOMAIN Kinds

Fresh == [objects |-> {Object(DisplayId, "display", 0)}, pool |-> {},
          buffer |-> <<>>, wire |-> <<>>]

Init ==
  /\ loop = "run"
  /\ phase = [c \in Conns |-> "none"]
  /\ conn = [c \in Conns |-> Fresh]
  /\ peer = [c \in Conns |-> FALSE]
  /\ toS = [c \in Conns |-> <<>>]
  /\ ids = [c \in Conns |-> [i \in ClientIds |-> [st |-> "free", n |-> 0]]]
  /\ offers = [c \in Conns |-> {}]
  /\ sent = [c \in Conns |-> 0]
  /\ refused = [c \in Conns |-> FALSE]
  /\ failed = [c \in Conns |-> FALSE]

-----------------------------------------------------------------------------
(* The object table and the event buffer of a connection k whose peer is open or not. *)

Registered(k, id) == \E o \in k.objects : o.id = id
ObjectOf(k, id) == CHOOSE o \in k.objects : o.id = id

\* send takes a buffer of this size whole or not at all.
CanSend(k, up) == up /\ Len(k.wire) + Len(k.buffer) <= SockCap

flush(k, up) ==
  IF CanSend(k, up) THEN [k EXCEPT !.wire = @ \o k.buffer, !.buffer = <<>>] ELSE k
flush_result(k, up) == IF k.buffer = <<>> \/ CanSend(k, up) THEN OK ELSE DISPATCH_CLIENT_ERR

\* Mutant: whether there is room is asked without the event.
post_late(k, up, e) ==
  LET room == IF Len(k.buffer) >= BUFFER_SIZE + 1 THEN flush(k, up) ELSE k
  IN  [room EXCEPT !.buffer = Append(@, e)]
\* Mutant: a full buffer starts again, unsent.
post_over(k, up, e) ==
  [k EXCEPT !.buffer = IF Len(@) + 1 >= BUFFER_SIZE THEN <<e>> ELSE Append(@, e)]
\* When the flush fails the event is written behind the others, there or past the end.
post(k, up, e) ==
  LET room == IF Len(k.buffer) + 1 >= BUFFER_SIZE THEN flush(k, up) ELSE k
  IN  [room EXCEPT !.buffer = Append(@, e)]

\* A flush that fails fails for the rest of the step: no later event of it makes room.
Overrun(k) == Len(k.buffer) > BUFFER_SIZE
\* What becomes of the loop when a step leaves k in the buffer.
After(k, next) == IF Overrun(k) THEN "overrun" ELSE next

map_set(objects, o) == objects \cup {o}
map_remove(objects, id) == {o \in objects : o.id # id}

object_add(k, o) == [k EXCEPT !.objects = map_set(@, o)]

\* c_bitmap_get_free: the first free bit, 0 when there is none.
get_free(pool) ==
  LET free == 0..PoolSize - 1 \ pool
  IN  IF free = {} THEN 0 ELSE CHOOSE n \in free : \A m \in free : n <= m

add_offer(k) ==
  LET bit == get_free(k.pool)
  IN  object_add([k EXCEPT !.pool = @ \cup {bit}], Object(ServerId(bit), "offer", 0))

\* Mutant: a client is not told that the id of a callback is free again.
object_del_silently(k, up, id) ==
  LET without == [k EXCEPT !.objects = map_remove(@, id)]
  IN  IF ObjectOf(k, id).kind = "frame" THEN without
      ELSE post(without, up, Event("delete_id", id, ObjectOf(k, id).n, 0))
object_del(k, up, id) ==
  LET without == [k EXCEPT !.objects = map_remove(@, id)]
  IN  CASE ~Registered(k, id) -> k
        [] Registered(k, id) /\ id \in ServerIds -> [without EXCEPT !.pool = @ \ {-1 - id}]
        [] OTHER -> post(without, up, Event("delete_id", id, ObjectOf(k, id).n, 0))

\* Mutant: the id is free before the client is told that the callback is done.
callback_done_late(k, up, id) ==
  post(object_del(k, up, id), up, Event("done", id, ObjectOf(k, id).n, 0))
callback_done(k, up, id) ==
  object_del(post(k, up, Event("done", id, ObjectOf(k, id).n, 0)), up, id)

-----------------------------------------------------------------------------
(* The batch of requests one wakeup reads. *)

Batch(c) == SubSeq(toS[c], 1, IF Len(toS[c]) < MaxRead THEN Len(toS[c]) ELSE MaxRead)
\* The requests of a batch, one after the other from b.
InTurn(step(_, _), b, batch) ==
  LET after[p \in 0..Len(batch)] == IF p = 0 THEN b ELSE step(after[p - 1], batch[p])
  IN  after[Len(batch)]

\* A message is put with the syncs or with the others.
put_sync(syncs, r) == IF r.op = "sync" THEN Append(syncs, r) ELSE syncs
put_other(msgs, r) == IF r.op = "sync" THEN msgs ELSE Append(msgs, r)
SyncsOf(batch) == InTurn(put_sync, <<>>, batch)
OthersOf(batch) == InTurn(put_other, <<>>, batch)

\* Where a batch stands: the connection and whether its peer is open, the last status,
\* what went wrong.
Started(k, up) == [k |-> k, up |-> up, ret |-> OK, refused |-> FALSE, failed |-> FALSE]
Stopped(b) == b.ret \in {DISPATCH_PROTO_ERR, DISPATCH_FATAL_ERR}
Wrong(b) == [b EXCEPT !.ret = DISPATCH_PROTO_ERR, !.failed = TRUE]

\* First pass: the callbacks of the sync requests are added at once.
prepare(b, r) ==
  CASE Stopped(b) -> b
    [] ~Stopped(b) /\ Registered(b.k, r.id) -> Wrong(b)
    [] OTHER -> [b EXCEPT !.k = object_add(@, Object(r.id, "sync", r.n))]

\* What the handler of a request does, and returns.
handle(b, r) ==
  IF Creates(r) <=> Registered(b.k, r.id) THEN Wrong(b)
  ELSE CASE Creates(r) ->
              [b EXCEPT !.k = object_add(@, Object(r.id, Kinds[r.op], r.n)), !.ret = OK]
         [] r.op = "destroy" -> [b EXCEPT !.k = object_del(@, b.up, r.id), !.ret = OK]
         [] r.op = "ask" ->
              [b EXCEPT !.k = post(@, b.up, Event("reply", r.id, ObjectOf(@, r.id).n, r.n)),
                        !.ret = OK]
         [] r.op = "ignored" -> [b EXCEPT !.ret = 1]
         [] r.op = "bad" -> [b EXCEPT !.ret = DISPATCH_PROTO_ERR, !.refused = TRUE]
         [] r.op = "missing" -> [b EXCEPT !.ret = DISPATCH_FATAL_ERR]

dispatch(b, r) == IF Stopped(b) THEN b ELSE handle(b, r)

answer(b, r) ==
  IF b.ret = DISPATCH_FATAL_ERR THEN b ELSE [b EXCEPT !.k = callback_done(@, b.up, r.id)]

\* The passes of a batch: the syncs, the other requests, the answers to the syncs.
Prepared(k, up, syncs) == InTurn(prepare, Started(k, up), syncs)
Done(b, others) == InTurn(dispatch, b, others)
Answered(b, syncs) == InTurn(answer, b, syncs)

\* Mutant: a sync request is answered as it is read.
connection_dispatch_at_once(k, up, batch, unset) ==
  LET syncs == SyncsOf(batch)
      others == OthersOf(batch)
      done == Done(Answered(Prepared(k, up, syncs), syncs), others)
  IN  IF others = <<>> THEN [done EXCEPT !.ret = unset] ELSE done
\* unset: the value of ret when no request has assigned it.
connection_dispatch(k, up, batch, unset) ==
  LET syncs == SyncsOf(batch)
      others == OthersOf(batch)
      prepared == Prepared(k, up, syncs)
      answered == Answered(Done(prepared, others), syncs)
  IN  IF Len(others) > MaxMsgs + 1 THEN [Started(k, up) EXCEPT !.ret = DISPATCH_CLIENT_ERR]
      ELSE CASE Stopped(prepared) -> prepared
             [] ~Stopped(prepared) /\ others = <<>> -> [answered EXCEPT !.ret = unset]
             [] OTHER -> answered

\* The destructor of every object runs and, but for callbacks, deletes it.
TornDown(k, up) ==
  FoldSet(LAMBDA o, torn : object_del(torn, up, o.id), k, {o \in k.objects : o.kind = "object"})
\* With k in its buffer the connection is no more.  What its destructors still send
\* is left out.
connection_free(c, k, next) ==
  /\ phase' = [phase EXCEPT ![c] = "freed"]
  /\ conn' = [conn EXCEPT ![c] = [Fresh EXCEPT !.wire = k.wire]]
  /\ loop' = After(TornDown(k, peer[c]), next)

\* What client_epoll_callback makes of the batch b of connection c.
Settled(c, b) ==
  LET ret == IF b.ret = OK THEN flush_result(b.k, peer[c]) ELSE b.ret
      error == post(b.k, peer[c], Event("error", DisplayId, 0, 0))
  IN  CASE ret = DISPATCH_FATAL_ERR -> connection_free(c, b.k, "out")
        [] ret = DISPATCH_CLIENT_ERR -> connection_free(c, b.k, loop)
        [] ret = DISPATCH_PROTO_ERR ->
             /\ conn' = [conn EXCEPT ![c] = error]
             /\ loop' = After(error, loop)
             /\ UNCHANGED phase
        [] ret = OK -> /\ conn' = [conn EXCEPT ![c] = flush(b.k, peer[c])]
                       /\ UNCHANGED <<loop, phase>>
        [] OTHER -> /\ conn' = [conn EXCEPT ![c] = b.k]
                    /\ loop' = After(b.k, loop)
                    /\ UNCHANGED phase

client_epoll_callback(c) ==
  /\ loop = "run" /\ phase[c] = "open"
  /\ toS[c] # <<>>
  /\ toS' = [toS EXCEPT ![c] = SubSeq(@, Len(Batch(c)) + 1, Len(@))]
  /\ \E unset \in Uninit :
       LET b == connection_dispatch(conn[c], peer[c], Batch(c), unset)
       IN  /\ Settled(c, b)
           /\ refused' = [refused EXCEPT ![c] = @ \/ b.refused]
           /\ failed' = [failed EXCEPT ![c] = @ \/ b.failed]
  /\ UNCHANGED <<peer, ids, offers, sent>>

\* The socket is at its end: received = 0.
client_gone(c) ==
  /\ loop = "run" /\ phase[c] = "open"
  /\ toS[c] = <<>> /\ ~peer[c]
  /\ connection_free(c, conn[c], loop)
  /\ UNCHANGED <<peer, client, history>>

server_epoll_callback(c) ==
  /\ loop = "run" /\ phase[c] = "backlog"
  /\ phase' = [phase EXCEPT ![c] = "open"]
  /\ UNCHANGED <<loop, conn, peer, client, history>>

\* A signal: c_event_loop_stop.
stop ==
  /\ loop = "run" /\ loop' = "out"
  /\ UNCHANGED <<phase, conn, peer, client, history>>

\* The loop has ended: every connection of display->connections is freed.
display_free(c) ==
  /\ loop = "out" /\ phase[c] = "open"
  /\ connection_free(c, conn[c], loop)
  /\ UNCHANGED <<peer, client, history>>

-----------------------------------------------------------------------------
(* What the rest of the compositor does to a connection, between two wakeups of it. *)

MayPost(c) ==
  /\ loop = "run" /\ phase[c] = "open"
  /\ Len(conn[c].buffer) + Len(conn[c].wire) < MaxPending

\* An event for a live object; its sender flushes or leaves that to others.
send_event(c) ==
  /\ MayPost(c)
  /\ \E o \in conn[c].objects, flushes \in BOOLEAN :
       /\ o.kind = "object"
       /\ LET k == post(conn[c], peer[c], Event("event", o.id, o.n, 0))
          IN  /\ conn' = [conn EXCEPT ![c] = IF flushes THEN flush(k, peer[c]) ELSE k]
              /\ loop' = After(k, loop)
  /\ UNCHANGED <<phase, peer, client, history>>

\* A page flip answers a frame callback.
send_frame_done(c) ==
  /\ loop = "run" /\ phase[c] = "open"
  /\ \E o \in conn[c].objects :
       /\ o.kind = "frame"
       /\ conn' = [conn EXCEPT ![c] = flush(callback_done(@, peer[c], o.id), peer[c])]
       /\ loop' = After(callback_done(conn[c], peer[c], o.id), loop)
  /\ UNCHANGED <<phase, peer, client, history>>

\* A data offer: an object with an id of the server's.
advertise(c) ==
  /\ MayPost(c)
  /\ Cardinality({o \in conn[c].objects : o.kind = "offer"}) < MaxOffers
  /\ conn' = [conn EXCEPT ![c] =
       post(add_offer(@), peer[c], Event("offer", ServerId(get_free(@.pool)), 0, 0))]
  /\ loop' = After(conn'[c], loop)
  /\ UNCHANGED <<phase, peer, client, history>>

-----------------------------------------------------------------------------
(* Clients that keep to the protocol.  An id is used again after delete_id only. *)

connect(c) ==
  /\ loop = "run" /\ phase[c] = "none"
  /\ phase' = [phase EXCEPT ![c] = "backlog"]
  /\ peer' = [peer EXCEPT ![c] = TRUE]
  /\ UNCHANGED <<loop, conn, client, history>>

request(c) ==
  /\ peer[c] /\ phase[c] # "freed" /\ sent[c] < MaxSends[c] /\ Len(toS[c]) < MaxUnread
  /\ sent' = [sent EXCEPT ![c] = @ + 1]
  /\ \E op \in Ops, i \in ClientIds \cup offers[c] :
       /\ toS' = [toS EXCEPT ![c] = Append(@, [op |-> op, id |-> i, n |-> sent'[c]])]
       /\ \/ /\ op \in DOMAIN Kinds /\ i \in ClientIds /\ ids[c][i].st = "free"
             /\ ids' = [ids EXCEPT ![c][i] = [st |-> Kinds[op], n |-> sent'[c]]]
             /\ UNCHANGED offers
          \/ /\ op \notin DOMAIN Kinds /\ i \in ClientIds /\ ids[c][i].st = "object"
             /\ ids' = [ids EXCEPT ![c][i].st = IF op = "destroy" THEN "gone" ELSE @]
             /\ UNCHANGED offers
          \/ /\ op = "destroy" /\ i \in offers[c]
             /\ offers' = [offers EXCEPT ![c] = @ \ {i}]
             /\ UNCHANGED ids
  /\ UNCHANGED <<loop, phase, conn, peer, history>>

\* An error ends the client; a callback that is done is gone.
receive(c) ==
  /\ peer[c] /\ conn[c].wire # <<>>
  /\ LET e == Head(conn[c].wire) IN
       /\ conn' = [conn EXCEPT ![c].wire = Tail(@)]
       /\ peer' = [peer EXCEPT ![c] = e.op # "error"]
       /\ ids' = CASE e.op = "done" -> [ids EXCEPT ![c][e.id].st = "gone"]
                   [] e.op = "delete_id" -> [ids EXCEPT ![c][e.id] = [st |-> "free", n |-> 0]]
                   [] OTHER -> ids
       /\ offers' = [offers EXCEPT ![c] = IF e.op = "offer" THEN @ \cup {e.id} ELSE @]
  /\ UNCHANGED <<loop, phase, toS, sent, history>>

close(c) ==
  /\ peer[c]
  /\ peer' = [peer EXCEPT ![c] = FALSE]
  /\ UNCHANGED <<loop, phase, conn, client, history>>

Next ==
  \/ stop
  \/ \E c \in Conns :
       \/ client_epoll_callback(c) \/ client_gone(c) \/ server_epoll_callback(c)
       \/ display_free(c)
       \/ send_event(c) \/ send_frame_done(c) \/ advertise(c)
       \/ connect(c) \/ request(c) \/ receive(c) \/ close(c)

Spec == Init /\ [][Next]_vars

-----------------------------------------------------------------------------
(* Properties. *)

Pending(c) == conn[c].wire \o conn[c].buffer
EventsOf(c) == {Pending(c)[p] : p \in 1..Len(Pending(c))}
RequestsOf(c) == {toS[c][p] : p \in 1..Len(toS[c])}
\* No request of the client has been refused: the rest of its batch was skipped if one was.
Sound(c) == phase[c] \in {"backlog", "open"} /\ ~refused[c] /\ loop = "run"

Numbers == 0..Max({MaxSends[c] : c \in Conns})
Requests == [op : Ops, id : ClientIds \cup ServerIds, n : Numbers \ {0}]
ObjectIds == ClientIds \cup ServerIds \cup {DisplayId}
Events == [op : {"delete_id", "done", "reply", "event", "offer", "error"}, id : ObjectIds,
           n : Numbers, by : Numbers]

\* The types of what the server and the clients keep.
TypeOK ==
  /\ loop \in {"run", "out", "overrun"}
  /\ phase \in [Conns -> {"none", "backlog", "open", "freed"}]
  /\ \A c \in Conns :
       /\ conn[c].objects \subseteq [id : ObjectIds, n : Numbers,
                                    kind : {"display", "sync", "frame", "object", "offer"}]
       /\ conn[c].pool \subseteq 0..PoolSize - 1
       /\ EventsOf(c) \subseteq Events
       /\ RequestsOf(c) \subseteq Requests
       /\ offers[c] \subseteq ServerIds
  /\ {peer, refused, failed} \subseteq [Conns -> BOOLEAN]
  /\ \A c \in Conns : sent[c] \in 0..MaxSends[c]
  /\ ids \in [Conns -> [ClientIds -> [st : {"free", "sync", "frame", "object", "gone"},
                                       n : Numbers]]]

\* An id a client allocates is in one place: free at the client, in the request
\* that creates its object, in the server's table, or in the delete_id under way
\* (server.c:444 c_wl_object_add, server.c:480 c_wl_object_del).
IdInOnePlace ==
  \A c \in Conns : Sound(c) => \A i \in ClientIds :
    (IF ids[c][i].st = "free" THEN 1 ELSE 0)
    + Cardinality({r \in RequestsOf(c) : Creates(r) /\ r.id = i})
    + Cardinality({o \in conn[c].objects : o.id = i})
    + Cardinality({e \in EventsOf(c) : e.op = "delete_id" /\ e.id = i}) = 1

\* A new object of the server's never has an id the client still holds
\* (server.c:462-465, bitmap.c:22).
OfferIdsFresh ==
  \A c \in Conns : \A p \in 1..Len(Pending(c)) :
    Pending(c)[p].op = "offer" =>
      /\ Pending(c)[p].id \notin offers[c]
      /\ \A q \in p + 1..Len(Pending(c)) :
           Pending(c)[q].op = "offer" => Pending(c)[q].id # Pending(c)[p].id

\* A client that keeps to the protocol never names an object the server does not
\* have, nor a new one it has, until one of its requests is refused for what it
\* asks and the rest of that batch is skipped (server.c:285, server.c:407).
LegalServed == \A c \in Conns : failed[c] => refused[c]

\* The two sides agree on the ids, until an event is written past the end of a
\* buffer: none names two objects or one that is not there.
IdsOwned == loop # "overrun" => IdInOnePlace /\ OfferIdsFresh /\ LegalServed

\* No event reaches a later object than the one it was posted for: whatever the
\* interleaving of deletions, reuse of ids and flushes, an event under way names
\* the object the client has under that id (server.c:96, server.c:491), until an
\* event is written past the end of a buffer.
EventForItsObject ==
  loop # "overrun" => \A c \in Conns : \A e \in EventsOf(c) :
    e.id \in ClientIds /\ e.op # "delete_id"
      => ids[c][e.id].n = e.n /\ ids[c][e.id].st # "free"

\* A sync is a barrier: when its callback is done every earlier request has been
\* handled, and no answer to one comes after it, though the batch adds the
\* callback before it handles the requests ahead of it (server.c:404-438).
SyncIsBarrier ==
  \A c \in Conns : Sound(c) =>
    \A p \in 1..Len(Pending(c)) :
      LET e == Pending(c)[p]
      IN  e.op = "done" /\ ids[c][e.id].st = "sync" =>
            /\ \A r \in RequestsOf(c) : r.n > e.n
            /\ \A q \in p + 1..Len(Pending(c)) : Pending(c)[q].by = 0 \/ Pending(c)[q].by > e.n

\* Until a connection is freed, or an event is written past the end of a buffer,
\* the events of a connection reach the client whole and in the order they were
\* posted: a step posts some at the end or the client takes the first
\* (server.c:101 c_wl_connection_flush, server.c:150 c_wl_connection_post).
StreamIsFifo ==
  [][loop' # "overrun" => \A c \in Conns : phase'[c] = "open" =>
       \/ IsPrefix(Pending(c), Pending(c)')
       \/ Pending(c)' = Tail(Pending(c)) /\ conn[c].wire # <<>>]_vars

\* The most events a step posts to c: the two of a callback for each of its
\* requests, one for each of its objects.
MostPosted(c) == 2 * Len(toS[c]) + Cardinality(conn[c].objects)

\* No event is written past the end of a buffer while every client is there and
\* its socket holds what may still be posted, whatever was left in the buffer and
\* however much a batch, an error or a teardown adds to it (server.c:224-229).
ReadersFit ==
  [][(\A c \in Conns : phase[c] = "open" => peer[c] /\ Len(Pending(c)) + MostPosted(c) <= SockCap)
       => loop' = loop \/ loop' # "overrun"]_vars

\* What the log says of a full buffer: "not enough space in the connection buffer.
\* flusing connection", after which the event is copied (server.c:225-232): it fits.
BufferFits == loop # "overrun"
=============================================================================
