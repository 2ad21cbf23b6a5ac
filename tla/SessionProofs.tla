---------------------------- MODULE SessionProofs ----------------------------
(***************************************************************************)
(* Who has the seat and what a session and the daemon agree on, for any      *)
(* number of sessions, terminals and devices, while the daemon may be ended   *)
(* and what it asks of the kernel may fail.                                 *)
(***************************************************************************)
EXTENDS Session, SequenceTheorems, WellFoundedInduction, TLAPS

Ops == {"none", "nothing", "ENABLE", "DISABLE", "ERROR", "ACK",
        "OPEN_SEAT", "CLOSE_SEAT", "OPEN_DEVICE", "CLOSE_DEVICE"}
DevKinds == {"none", "card", "event"}
Message == [op : Ops, id : Nat, fd : Nat, kind : DevKinds]
Device == [id : Nat, kind : DevKinds]

Place == [at : {"loop", "setmode", "push", "drop", "device"}, c : Clients \cup {<<>>},
          vt : VTs \cup {NoVT}, eof : BOOLEAN, d : Device \cup {<<>>}]
Held == [id : Nat, fd : Nat, kind : DevKinds]

Types ==
  /\ daemon \in {"up", "exit", "abort"}
  /\ pc \in Place
  /\ pc.at # "loop" => pc.c \in Clients
  /\ pc.at = "device" => pc.d \in Device
  /\ clients \in Seq(Clients)
  /\ vt \in [Clients -> VTs \cup {NoVT}]
  /\ devices \in [Clients -> Seq(Device)]
  /\ dev_id \in Nat
  /\ front \in VTs /\ newvt \in VTs \cup {NoVT} /\ sig \subseteq {"USR1", "USR2"}
  /\ mode \in [VTs -> {"auto", "process"}]
  /\ conn \in [Clients -> {"none", "backlog", "open"}]
  /\ toD \in [Clients -> Seq(Message)] /\ toC \in [Clients -> Seq(Message)]
  /\ stage \in [Clients -> {"out", "opening", "running", "open", "close"}]
  /\ want \in [Clients -> Message]
  /\ mine \in [Clients -> SUBSET Held]
  /\ told \in [Clients -> BOOLEAN] /\ crossed \in [Clients -> BOOLEAN]

(* The daemon works on a request of a session whose connection is open, and a *)
(* session is in the list once, while its connection is open.                *)
Working(c) == pc.at # "loop" /\ pc.c = c
OpensFor(c) == pc.at \in {"setmode", "push"} /\ pc.c = c

Places ==
  /\ IsInjective(clients)
  /\ daemon # "up" => clients = <<>> /\ pc = Idle
  /\ \A c \in Clients : Registered(c) => conn[c] = "open"
  /\ \A c \in Clients : Working(c) =>
       conn[c] = "open" /\ (Registered(c) <=> pc.at \in {"device", "drop"})

(* A connection carries one OPEN_SEAT, before anything is granted on it.      *)
OpenOnce ==
  \A c \in Clients : \A m \in Range(toD[c]) :
    m.op = "OPEN_SEAT" => ~Registered(c) /\ conn[c] # "none" /\ ~OpensFor(c)

Base == Types /\ Places /\ OpenOnce

-----------------------------------------------------------------------------
(* Sequences.                                                              *)

LEMMA LeastNat ==
  ASSUME NEW T \in SUBSET Nat, T # {}
  PROVE  \E n \in T : \A m \in T : n <= m
<1> DEFINE R == {ss \in Nat \X Nat : ss[1] < ss[2]}
<1>1. R = OpToRel(<, Nat)
  BY DEF OpToRel
<1>2. IsWellFoundedOn(R, Nat)
  BY <1>1, NatLessThanWellFounded
<1>3. \E x \in T : \A y \in T : ~(<<y, x>> \in R)
  BY <1>2, WFMin
<1>4. PICK x \in T : \A y \in T : ~(<<y, x>> \in R)
  BY <1>3
<1>5. \A y \in T : ~(y < x)
  BY <1>4
<1> HIDE DEF R
<1> QED
  BY <1>5

LEMMA Appended ==
  ASSUME NEW S, NEW s \in Seq(S), NEW x \in S
  PROVE  /\ Append(s, x) \in Seq(S) /\ Append(s, x) # <<>>
         /\ Range(Append(s, x)) = Range(s) \cup {x}
         /\ s # <<>> => Head(Append(s, x)) = Head(s)
         /\ IsInjective(s) /\ x \notin Range(s) => IsInjective(Append(s, x))
<1>1. /\ DOMAIN s = 1..Len(s) /\ DOMAIN Append(s, x) = 1..(Len(s) + 1) /\ Len(s) \in Nat
      /\ \A i \in 1..Len(s) : Append(s, x)[i] = s[i]
      /\ Append(s, x)[Len(s) + 1] = x
  OBVIOUS
<1> QED
  BY <1>1 DEF Range, IsInjective

(* The list without its i-th entry.                                         *)
LEMMA RemovedAt ==
  ASSUME NEW S, NEW s \in Seq(S), NEW i \in DOMAIN s
  PROVE  /\ RemoveAt(s, i) \in Seq(S) /\ Len(RemoveAt(s, i)) = Len(s) - 1
         /\ DOMAIN RemoveAt(s, i) = 1..(Len(s) - 1)
         /\ \A j \in 1..(Len(s) - 1) : RemoveAt(s, i)[j] = IF j < i THEN s[j] ELSE s[j + 1]
<1>1. i \in 1..Len(s) /\ Len(s) \in Nat
  OBVIOUS
<1>2. /\ SubSeq(s, 1, i - 1) \in Seq(S) /\ SubSeq(s, i + 1, Len(s)) \in Seq(S)
      /\ Len(SubSeq(s, 1, i - 1)) = i - 1 /\ Len(SubSeq(s, i + 1, Len(s))) = Len(s) - i
      /\ \A j \in 1..(i - 1) : SubSeq(s, 1, i - 1)[j] = s[j]
      /\ \A j \in 1..(Len(s) - i) : SubSeq(s, i + 1, Len(s))[j] = s[i + j]
  BY <1>1
<1> DEFINE before == SubSeq(s, 1, i - 1)
           after == SubSeq(s, i + 1, Len(s))
<1>3. RemoveAt(s, i) = before \o after
  BY DEF RemoveAt
<1>0. /\ before \in Seq(S) /\ after \in Seq(S) /\ Len(before) = i - 1 /\ Len(after) = Len(s) - i
  BY <1>2
<1> HIDE DEF before, after
<1>10. /\ before \o after \in Seq(S) /\ Len(before \o after) = Len(before) + Len(after)
       /\ \A j \in 1..(Len(before) + Len(after)) :
            (before \o after)[j] = IF j <= Len(before) THEN before[j] ELSE after[j - Len(before)]
  BY <1>0, ConcatProperties
<1>11. Len(before) + Len(after) = Len(s) - 1
  BY <1>0, <1>1
<1>4. /\ before \o after \in Seq(S) /\ Len(before \o after) = Len(s) - 1
      /\ \A j \in 1..(Len(s) - 1) :
           (before \o after)[j] = IF j <= i - 1 THEN before[j] ELSE after[j - (i - 1)]
  BY <1>0, <1>10, <1>11
<1>5. ASSUME NEW j \in 1..(Len(s) - 1)
      PROVE  RemoveAt(s, i)[j] = IF j < i THEN s[j] ELSE s[j + 1]
  <2>1. CASE j < i
    BY <1>1, <1>2, <1>3, <1>4, <2>1 DEF before
  <2>2. CASE ~(j < i)
    <3>1. j - (i - 1) \in 1..(Len(s) - i) /\ i + (j - (i - 1)) = j + 1
      BY <1>1, <2>2
    <3>2. after[j - (i - 1)] = s[j + 1]
      BY <1>2, <3>1 DEF after
    <3> QED  BY <1>1, <1>3, <1>4, <2>2, <3>2
  <2> QED  BY <2>1, <2>2
<1>6. DOMAIN (before \o after) = 1..(Len(s) - 1)
  BY <1>4
<1> QED
  BY <1>3, <1>4, <1>5, <1>6

(* Removing x from a list of different entries removes it, and only it.      *)
LEMMA RemovedFirst ==
  ASSUME NEW S, NEW s \in Seq(S), IsInjective(s), NEW x \in Range(s)
  PROVE  /\ RemoveFirst(s, x) \in Seq(S) /\ IsInjective(RemoveFirst(s, x))
         /\ Range(RemoveFirst(s, x)) = Range(s) \ {x}
<1>1. PICK i \in DOMAIN s : s[i] = x
  BY DEF Range
<1>2. DOMAIN s = 1..Len(s) /\ Len(s) \in Nat
  OBVIOUS
<1>3. \A j \in DOMAIN s : s[j] = x <=> j = i
  BY <1>1 DEF IsInjective
<1>4. {j \in 1..Len(s) : s[j] = x} = {i}
  BY <1>2, <1>3
<1>5. SelectInSeq(s, LAMBDA v : v = x) = i
  BY <1>2, <1>4 DEF SelectInSeq, Min
<1>6. RemoveFirst(s, x) = RemoveAt(s, i)
  BY <1>1, <1>2, <1>5 DEF RemoveFirst
<1> DEFINE t == RemoveAt(s, i)
<1>7. /\ t \in Seq(S) /\ DOMAIN t = 1..(Len(s) - 1)
      /\ \A j \in 1..(Len(s) - 1) : t[j] = IF j < i THEN s[j] ELSE s[j + 1]
  BY RemovedAt
<1> HIDE DEF t
<1>8. IsInjective(t)
  <2> SUFFICES ASSUME NEW j \in DOMAIN t, NEW k \in DOMAIN t, t[j] = t[k]  PROVE j = k
    BY DEF IsInjective
  <2> DEFINE up(n) == IF n < i THEN n ELSE n + 1
  <2>1. up(j) \in DOMAIN s /\ up(k) \in DOMAIN s /\ t[j] = s[up(j)] /\ t[k] = s[up(k)]
    BY <1>2, <1>7
  <2>2. up(j) = up(k)
    BY <2>1 DEF IsInjective
  <2> QED  BY <1>2, <1>7, <2>2
<1>9. Range(t) = Range(s) \ {x}
  <2>1. ASSUME NEW y \in Range(t)  PROVE y \in Range(s) \ {x}
    <3>1. PICK j \in DOMAIN t : t[j] = y
      BY <2>1 DEF Range
    <3>2. PICK k \in DOMAIN s : k # i /\ s[k] = y
      BY <1>2, <1>7, <3>1
    <3> QED  BY <1>3, <3>2 DEF Range
  <2>2. ASSUME NEW y \in Range(s), y # x  PROVE y \in Range(t)
    <3>1. PICK k \in DOMAIN s : s[k] = y /\ k # i
      BY <1>1, <2>2 DEF Range
    <3> DEFINE j == IF k < i THEN k ELSE k - 1
    <3>2. j \in DOMAIN t /\ t[j] = y
      BY <1>2, <1>7, <3>1
    <3> QED  BY <3>2 DEF Range
  <2> QED  BY <2>1, <2>2
<1> QED
  BY <1>6, <1>7, <1>8, <1>9 DEF t

IdsApart(s) == \A i, j \in DOMAIN s : s[i].id = s[j].id => i = j

(* Closing a device removes the one entry with its id.                       *)
LEMMA RemovedDevice ==
  ASSUME NEW s \in Seq(Device), NEW id, \E i \in DOMAIN s : s[i].id = id
  PROVE  LET t == Without(s, id)
         IN  /\ t \in Seq(Device) /\ Range(t) \subseteq Range(s)
             /\ IdsApart(s) => IdsApart(t) /\ Ids(Range(t)) = Ids(Range(s)) \ {id}
<1>2. DOMAIN s = 1..Len(s) /\ Len(s) \in Nat
  OBVIOUS
<1> DEFINE I == {j \in 1..Len(s) : s[j].id = id}
           i == Min(I)
<1>3. I \in SUBSET Nat /\ I # {}
  BY <1>2
<1>4. i \in I
  BY <1>3, LeastNat DEF Min
<1>5. SelectInSeq(s, LAMBDA d : d.id = id) = i
  BY <1>3 DEF SelectInSeq
<1> DEFINE t == RemoveAt(s, i)
<1>6. Without(s, id) = t
  BY <1>2, <1>5 DEF Without, RemoveFirstMatch
<1>1. i \in DOMAIN s /\ s[i].id = id
  BY <1>2, <1>4
<1> HIDE DEF i, I
<1>7. /\ t \in Seq(Device) /\ DOMAIN t = 1..(Len(s) - 1)
      /\ \A j \in 1..(Len(s) - 1) : t[j] = IF j < i THEN s[j] ELSE s[j + 1]
  BY <1>1, RemovedAt
<1> HIDE DEF t
<1>8. Range(t) \subseteq Range(s)
  <2>1. \A j \in DOMAIN t : \E k \in DOMAIN s : t[j] = s[k]
    BY <1>1, <1>2, <1>7
  <2> QED  BY <2>1 DEF Range
<1>9. ASSUME IdsApart(s)  PROVE IdsApart(t)
  <2> SUFFICES ASSUME NEW j \in DOMAIN t, NEW k \in DOMAIN t, t[j].id = t[k].id  PROVE j = k
    BY DEF IdsApart
  <2> DEFINE up(n) == IF n < i THEN n ELSE n + 1
  <2>1. up(j) \in DOMAIN s /\ up(k) \in DOMAIN s /\ t[j] = s[up(j)] /\ t[k] = s[up(k)]
    BY <1>1, <1>2, <1>7
  <2>2. up(j) = up(k)
    BY <1>9, <2>1 DEF IdsApart
  <2> QED  BY <1>1, <1>2, <1>7, <2>2
<1>10. ASSUME IdsApart(s)  PROVE Ids(Range(t)) = Ids(Range(s)) \ {id}
  <2>1. ASSUME NEW y \in Ids(Range(t))  PROVE y \in Ids(Range(s)) \ {id}
    <3>1. PICK j \in DOMAIN t : t[j].id = y
      BY <2>1 DEF Range, Ids
    <3> DEFINE k == IF j < i THEN j ELSE j + 1
    <3>4. k \in DOMAIN s /\ k # i /\ t[j] = s[k]
      BY <1>1, <1>2, <1>7
    <3>2. k \in DOMAIN s /\ k # i /\ s[k].id = y
      BY <3>1, <3>4
    <3> HIDE DEF k
    <3>3. s[k].id # s[i].id /\ s[k] \in Range(s)
      BY <1>1, <1>10, <3>2 DEF Range, IdsApart
    <3> QED  BY <1>1, <3>2, <3>3 DEF Ids
  <2>2. ASSUME NEW y \in Ids(Range(s)), y # id  PROVE y \in Ids(Range(t))
    <3>1. PICK k \in DOMAIN s : s[k].id = y /\ k # i
      BY <1>1, <2>2 DEF Range, Ids
    <3> DEFINE j == IF k < i THEN k ELSE k - 1
    <3>2. j \in DOMAIN t /\ t[j].id = y
      BY <1>1, <1>2, <1>7, <3>1
    <3> QED  BY <3>2 DEF Range, Ids
  <2> QED  BY <2>1, <2>2
<1> QED
  BY <1>6, <1>7, <1>8, <1>9, <1>10

(* What a receive takes is there.                                          *)
LEMMA TakenIsThere ==
  ASSUME NEW q \in Seq(Message), q # <<>>
  PROVE  TakenN(q) \in 1..Len(q) /\ Taken(q) \in Message /\ Rest(q) \in Seq(Message)
<1>1. DOMAIN q = 1..Len(q) /\ Len(q) \in Nat /\ Len(q) >= 1
  OBVIOUS
<1> DEFINE withFd == {i \in DOMAIN q : q[i].fd # NoFile}
<1>2. TakenN(q) \in 1..Len(q)
  <2>1. CASE withFd = {}
    BY <1>1, <2>1 DEF TakenN
  <2>2. CASE withFd # {}
    <3>1. withFd \in SUBSET Nat
      BY <1>1
    <3>2. \E i \in withFd : \A j \in withFd : i <= j
      BY <2>2, <3>1, LeastNat
    <3>3. TakenN(q) \in withFd
      BY <2>2, <3>2 DEF TakenN
    <3> QED  BY <1>1, <3>3
  <2> QED  BY <2>1, <2>2
<1>3. q[TakenN(q)] \in Message /\ Head(q) \in Message
  BY <1>1, <1>2
<1>4. Taken(q) \in Message
  BY <1>3 DEF Taken, Message
<1>5. Rest(q) \in Seq(Message)
  BY <1>1, <1>2, SubSeqProperties DEF Rest
<1> QED
  BY <1>2, <1>4, <1>5

-----------------------------------------------------------------------------
(* Types.                                                                  *)

LEMMA Messages ==
  /\ \A op \in Ops : Event(op) \in Message /\ Event(op).op = op
  /\ \A op \in Ops, id \in Nat, kind \in DevKinds :
       Request(op, id, kind) \in Message /\ Request(op, id, kind).op = op
  /\ \A d \in Device, fd \in Nat : Ack(d, fd) \in Message
BY DEF Event, Request, Ack, Message, Ops, DevKinds, NoFile, Device

LEMMA SentTypes ==
  ASSUME NEW q \in [Clients -> Seq(Message)], NEW c \in Clients, NEW m \in Message
  PROVE  Sent(q, c, m) \in [Clients -> Seq(Message)]
BY Appended DEF Sent

LEMMA SentEvents ==
  ASSUME NEW q \in [Clients -> Seq(Message)], NEW c \in Clients
  PROVE  \A op \in {"ENABLE", "DISABLE", "ERROR", "ACK"} :
           Sent(q, c, Event(op)) \in [Clients -> Seq(Message)]
<1>1. \A op \in {"ENABLE", "DISABLE", "ERROR", "ACK"} : Event(op) \in Message
  BY Messages DEF Ops
<1> QED  BY <1>1, SentTypes

LEMMA RefusedTypes ==
  ASSUME Types, NEW c \in Clients, Refused(c)
  PROVE  toC' \in [Clients -> Seq(Message)]
BY SentEvents DEF Refused, Types

LEMMA LeftTypes ==
  ASSUME Types, NEW c \in Clients, NEW said \in Seq(Message), Left(c, said)
  PROVE  Types'
<1> USE DEF Types
<1>1. toD' \in [Clients -> Seq(Message)] /\ toC' \in [Clients -> Seq(Message)]
  BY DEF Left
<1>2. want' \in [Clients -> Message]
  BY Messages DEF Left, Ops
<1>3. /\ stage' \in [Clients -> {"out", "opening", "running", "open", "close"}]
      /\ mine' \in [Clients -> SUBSET Held]
      /\ conn' \in [Clients -> {"none", "backlog", "open"}]
  BY DEF Left
<1> QED
  BY <1>1, <1>2, <1>3 DEF Left, seats, kernel

(* What one wake-up of the daemon for a client does.                         *)
LEMMA Callback ==
  ASSUME NEW c \in Clients, seat_client_callback(c)
  PROVE  /\ Main("loop") /\ conn[c] = "open" /\ UNCHANGED <<session, crossed>>
         /\ \/ Down("abort") /\ toD' = [toD EXCEPT ![c] = <<>>]
            \/ /\ UNCHANGED <<daemon, sig, front, mode, newvt>>
               /\ toD[c] # <<>> /\ toD' = [toD EXCEPT ![c] = <<>>]
               /\ LET m == Head(toD[c])
                  IN  \/ m.op = "OPEN_SEAT" /\ seat_open_seat(c)
                      \/ m.op = "CLOSE_SEAT" /\ seat_close_seat(c, FALSE)
                      \/ m.op = "OPEN_DEVICE" /\ seat_open_device(c, m.kind)
                      \/ m.op = "CLOSE_DEVICE" /\ seat_close_device(c, m.id)
            \/ /\ UNCHANGED <<daemon, sig, front, mode, newvt, toD>>
               /\ toD[c] = <<>> /\ stage[c] = "out" /\ seat_close_seat(c, TRUE)
BY DEF seat_client_callback

LEMMA DownTypes ==
  ASSUME Types, NEW how \in {"exit", "abort"}, Down(how),
         toD' \in [Clients -> Seq(Message)], UNCHANGED <<session, crossed>>
  PROVE  Types'
<1> USE DEF Types, session
<1>1. pc' \in Place /\ pc'.at = "loop"
  BY DEF Down, Idle, Place
<1>2. clients' \in Seq(Clients) /\ devices' \in [Clients -> Seq(Device)]
  BY DEF Down
<1>3. vt' \in [Clients -> VTs \cup {NoVT}] /\ told' \in [Clients -> BOOLEAN]
  BY DEF Down
<1>4. UNCHANGED <<dev_id, front, mode, newvt, conn, toC>> /\ daemon' = how /\ sig' = {}
  BY DEF Down
<1> QED
  BY <1>1, <1>2, <1>3, <1>4

(* What a handler of the main loop sets, if it is of the right type.          *)
LEMMA HandlerTypes ==
  ASSUME Types, pc' \in Place, pc'.at # "loop" => pc'.c \in Clients,
         pc'.at = "device" => pc'.d \in Device,
         clients' \in Seq(Clients), vt' \in [Clients -> VTs \cup {NoVT}],
         devices' \in [Clients -> Seq(Device)], dev_id' \in Nat,
         conn' \in [Clients -> {"none", "backlog", "open"}],
         toD' \in [Clients -> Seq(Message)], toC' \in [Clients -> Seq(Message)],
         told' \in [Clients -> BOOLEAN], crossed' \in [Clients -> BOOLEAN],
         UNCHANGED <<daemon, kernel, session>>
  PROVE  Types'
BY DEF Types, kernel, session

LEMMA CallbackTypes ==
  ASSUME Base, NEW c \in Clients, seat_client_callback(c)
  PROVE  Types'
<1> Types
  BY DEF Base
<1>0. UNCHANGED <<session, crossed>>
  BY Callback
<1>9. toD' = toD \/ toD' = [toD EXCEPT ![c] = <<>>]
  BY Callback
<1>1. toD' \in [Clients -> Seq(Message)] /\ UNCHANGED <<session, crossed>>
  <2>1. toD \in [Clients -> Seq(Message)] /\ <<>> \in Seq(Message)
    BY DEF Types
  <2> QED  BY <1>0, <1>9, <2>1
<1>2. CASE Down("abort")
  BY <1>1, <1>2, DownTypes
<1>t. pc \in Place /\ front \in VTs /\ toC \in [Clients -> Seq(Message)]
  BY DEF Types
<1>3. ASSUME toD[c] # <<>>  PROVE Head(toD[c]) \in Message
  BY <1>3 DEF Types
<1> DEFINE Same == UNCHANGED <<daemon, sig, front, mode, newvt>>
<1>4. ASSUME Refused(c), Same  PROVE Types'
  <2>1. UNCHANGED <<pc, clients, vt, devices, dev_id, told, conn>>
    BY <1>4 DEF Refused
  <2> QED  BY <1>1, <1>4, <2>1, RefusedTypes DEF Types, session
<1>5. CASE Same /\ ~Refused(c) /\ seat_open_seat(c)
  <2>1. /\ pc' = [Idle EXCEPT !.at = "setmode", !.c = c, !.vt = front]
        /\ UNCHANGED <<clients, vt, devices, dev_id, told, conn, toC>>
    BY <1>5 DEF seat_open_seat
  <2>2. pc' \in Place /\ pc'.at = "setmode" /\ pc'.c = c
    BY <1>t, <2>1 DEF Idle, Place
  <2> QED
    BY <1>1, <1>5, <2>1, <2>2 DEF Types, session
<1>6. ASSUME NEW eof \in BOOLEAN, Same, seat_close_seat(c, eof)  PROVE Types'
  <2>1. UNCHANGED <<clients, vt, devices, dev_id, told>>
    BY <1>6 DEF seat_close_seat
  <2>2. pc' \in Place /\ (pc' = pc \/ (pc'.at = "drop" /\ pc'.c = c))
    <3>1. pc' = pc \/ pc' = [Idle EXCEPT !.at = "drop", !.c = c, !.eof = eof]
      BY <1>6 DEF seat_close_seat
    <3> QED  BY <1>t, <3>1 DEF Idle, Place
  <2>3. toC' \in [Clients -> Seq(Message)] /\ conn' \in [Clients -> {"none", "backlog", "open"}]
    <3>1. toC' = toC \/ toC' = Sent(toC, c, Event("ERROR"))
      BY <1>6 DEF seat_close_seat
    <3>2. conn' = conn \/ conn' = [conn EXCEPT ![c] = "none"]
      BY <1>6 DEF seat_close_seat
    <3>3. conn' \in [Clients -> {"none", "backlog", "open"}]
      BY <3>2 DEF Types
    <3> QED  BY <1>t, <3>1, <3>3, SentEvents
  <2> QED
    BY <1>1, <1>6, <2>1, <2>2, <2>3 DEF Types, session
<1>7. CASE Same /\ toD[c] # <<>> /\ seat_open_device(c, Head(toD[c]).kind)
  <2> DEFINE d == [id |-> dev_id, kind |-> Head(toD[c]).kind]
  <2>1. CASE Refused(c)
    BY <1>4, <1>7, <2>1
  <2>2. CASE ~Refused(c)
    <3>1. d \in Device
      BY <1>3, <1>7 DEF Device, Message, Types
    <3>2. /\ UNCHANGED <<clients, vt, devices, dev_id, told, conn>>
          /\ pc' = pc \/ pc' = [Idle EXCEPT !.at = "device", !.c = c, !.d = d]
          /\ toC' = toC \/ toC' = Sent(toC, c, Event("ERROR"))
      BY <1>7, <2>2 DEF seat_open_device
    <3> HIDE DEF d
    <3>3. pc' \in Place /\ (pc' = pc \/ (pc'.at = "device" /\ pc'.c = c /\ pc'.d = d))
      BY <1>t, <3>1, <3>2 DEF Idle, Place
    <3>4. toC' \in [Clients -> Seq(Message)]
      BY <1>t, <3>2, SentEvents
    <3> QED
      BY <1>1, <1>7, <3>1, <3>2, <3>3, <3>4 DEF Types, session
  <2> QED  BY <2>1, <2>2
<1>8. CASE Same /\ ~Refused(c) /\ seat_close_device(c, Head(toD[c]).id)
  <2> DEFINE id == Head(toD[c]).id
  <2>1. /\ \E i \in DOMAIN devices[c] : devices[c][i].id = id
        /\ devices' = [devices EXCEPT ![c] = Without(@, id)]
        /\ toC' = Sent(toC, c, Event("ACK"))
        /\ UNCHANGED <<pc, clients, vt, dev_id, told, conn>>
    BY <1>8 DEF seat_close_device
  <2> HIDE DEF id
  <2>2. toC' \in [Clients -> Seq(Message)]
    BY <1>t, <2>1, SentEvents
  <2>3. devices \in [Clients -> Seq(Device)]
    BY DEF Types
  <2> DEFINE t == Without(devices[c], id)
  <2>5. t \in Seq(Device)
    BY <2>1, <2>3, RemovedDevice
  <2>6. devices' = [devices EXCEPT ![c] = t]
    BY <2>1
  <2> HIDE DEF t
  <2>4. devices' \in [Clients -> Seq(Device)]
    BY <2>3, <2>5, <2>6
  <2> QED
    BY <1>1, <1>8, <2>1, <2>2, <2>4 DEF Types, session
<1> QED
  BY <1>2, <1>4, <1>5, <1>6, <1>7, <1>8, Callback

LEMMA TypesInv ==
  ASSUME Base, [Next]_vars  PROVE Types'
<1> USE SessionAssumption
<1> Types /\ Places
  BY DEF Base
<1>1. CASE UNCHANGED vars
  BY <1>1 DEF Types, vars, seats, kernel, session
<1>2. CASE \E v \in VTs : switch_vt(v)
  BY <1>2 DEF Types, switch_vt, Shown, seats, session
<1>3. ASSUME NEW c \in Clients, seat_server_callback(c)  PROVE Types'
  BY <1>3 DEF Types, seat_server_callback, seats, kernel, session
<1>4. CASE vt_disable
  <2>1. toC' \in [Clients -> Seq(Message)]
    <3>1. pc.c \in Clients
      BY <1>4 DEF Types, vt_disable, Main
    <3>2. toC' = toC \/ toC' = Sent(toC, pc.c, Event("ERROR"))
      BY <1>4 DEF vt_disable
    <3>3. toC \in [Clients -> Seq(Message)]
      BY DEF Types
    <3> QED  BY <3>1, <3>2, <3>3, SentEvents
  <2>2. /\ pc' \in Place /\ pc'.at \in {"loop", "push"}
        /\ pc'.at = "push" => pc'.c = pc.c
    <3>1. pc' = [pc EXCEPT !.at = "push"] \/ pc' = Idle
      BY <1>4 DEF vt_disable
    <3>2. pc \in Place
      BY DEF Types
    <3>3. LET q == [pc EXCEPT !.at = "push"] IN q \in Place /\ q.at = "push" /\ q.c = pc.c
      BY <3>2 DEF Place
    <3>4. Idle \in Place /\ Idle.at = "loop"
      BY DEF Idle, Place
    <3> QED  BY <3>1, <3>3, <3>4
  <2>3. mode' \in [VTs -> {"auto", "process"}] /\ newvt' \in VTs \cup {NoVT}
    BY <1>4 DEF Types, vt_disable
  <2> QED
    BY <1>4, <2>1, <2>2, <2>3 DEF Types, vt_disable, session, Main
<1>i. Idle \in Place /\ Idle.at = "loop"
  BY DEF Idle, Place
<1>5. CASE seat_register
  <2>1. pc.c \in Clients /\ pc' = Idle /\ pc.vt \in VTs \cup {NoVT}
    BY <1>5 DEF seat_register, Main, Types, Place
  <2>2. clients' \in Seq(Clients)
    BY <1>5, <2>1, Appended DEF seat_register, Types
  <2>3. toC' \in [Clients -> Seq(Message)]
    BY <1>5, <2>1, SentEvents DEF Types, seat_register, seat_enable
  <2>4. vt' \in [Clients -> VTs \cup {NoVT}] /\ devices' \in [Clients -> Seq(Device)]
    BY <1>5, <2>1 DEF seat_register, Types
  <2>5. told' \in [Clients -> BOOLEAN] /\ crossed' \in [Clients -> BOOLEAN]
    BY <1>5, <2>1 DEF seat_register, seat_enable, Types, Calling
  <2> QED
    BY <1>5, <1>i, <2>1, <2>2, <2>3, <2>4, <2>5 DEF Types, seat_register, kernel, session
<1>6. CASE seat_forget
  <2>1. pc.c \in Clients /\ pc' = Idle /\ pc.c \in Range(clients)
    BY <1>6 DEF seat_forget, Main, Types, Places, Working, Registered
  <2>2. clients' \in Seq(Clients)
    BY <1>6, <2>1, RemovedFirst DEF seat_forget, Remaining, Types, Places
  <2>3. vt' \in [Clients -> VTs \cup {NoVT}] /\ devices' \in [Clients -> Seq(Device)]
    BY <1>6, <2>1 DEF seat_forget, Types
  <2>4. told' \in [Clients -> BOOLEAN] /\ conn' \in [Clients -> {"none", "backlog", "open"}]
    BY <1>6, <2>1 DEF seat_forget, Types
  <2> QED
    BY <1>6, <1>i, <2>1, <2>2, <2>3, <2>4 DEF Types, seat_forget, kernel, session
<1>7. CASE seat_add_device
  <2>1. pc.c \in Clients /\ pc.d \in Device /\ pc' = Idle
    BY <1>7 DEF seat_add_device, Main, Types
  <2>2. pc.d.id \in Nat
    BY <2>1 DEF Device
  <2>3. devices' \in [Clients -> Seq(Device)]
    BY <1>7, <2>1, Appended DEF Types, seat_add_device
  <2>4. toC' \in [Clients -> Seq(Message)]
    BY <1>7, <2>1, <2>2, Messages, SentTypes DEF Types, seat_add_device
  <2> QED
    BY <1>7, <1>i, <2>1, <2>3, <2>4 DEF Types, seat_add_device, kernel, session
<1>t. toC \in [Clients -> Seq(Message)] /\ pc \in Place
  BY DEF Types
<1>o. \A c \in Owners(front) : c \in Clients
  BY DEF Owners, Types, Range
<1>8. CASE on_vt_release
  <2>1. /\ toC' \in [Clients -> Seq(Message)]
        /\ told' \in [Clients -> BOOLEAN] /\ crossed' \in [Clients -> BOOLEAN]
    <3>1. CASE UNCHANGED <<toC, told, crossed>>
      BY <3>1 DEF Types
    <3>2. CASE ~UNCHANGED <<toC, told, crossed>>
      <4>1. PICK c \in Owners(front) :
              /\ seat_disable(c)
              /\ \/ toC' = Sent(toC, c, Event("DISABLE"))
                 \/ toC' = Sent(Sent(toC, c, Event("DISABLE")), c, Event("ERROR"))
        BY <1>8, <3>2 DEF on_vt_release
      <4>2. toC' \in [Clients -> Seq(Message)]
        <5> DEFINE q == Sent(toC, c, Event("DISABLE"))
        <5>1. q \in [Clients -> Seq(Message)]
          BY <1>o, <1>t, SentEvents
        <5>2. toC' = q \/ toC' = Sent(q, c, Event("ERROR"))
          BY <4>1
        <5> HIDE DEF q
        <5> QED  BY <1>o, <5>1, <5>2, SentEvents
      <4> QED  BY <1>o, <4>1, <4>2 DEF Types, seat_disable, Calling
    <3> QED  BY <3>1, <3>2
  <2> QED
    BY <1>8, <2>1 DEF Types, on_vt_release, Shown, seats, session
<1>9. CASE on_vt_activate
  <2>1. /\ toC' \in [Clients -> Seq(Message)]
        /\ told' \in [Clients -> BOOLEAN] /\ crossed' \in [Clients -> BOOLEAN]
    <3>1. CASE UNCHANGED <<toC, told, crossed>>
      BY <3>1 DEF Types
    <3>2. CASE ~UNCHANGED <<toC, told, crossed>>
      <4>1. PICK c \in Owners(front) : seat_enable(c)
        BY <1>9, <3>2 DEF on_vt_activate
      <4>2. toC' \in [Clients -> Seq(Message)]
        BY <1>o, <4>1, SentEvents DEF Types, seat_enable
      <4> QED  BY <1>o, <4>1, <4>2 DEF Types, seat_enable, Calling
    <3> QED  BY <3>1, <3>2
  <2> QED
    BY <1>9, <2>1 DEF Types, on_vt_activate, Shown, seats, session
<1>10. CASE cleanup
  BY <1>10, DownTypes DEF cleanup, Types
<1>11. ASSUME NEW c \in Clients, SessionStep(c)  PROVE Types'
  <2>1. CASE seat_open(c)
    <3>1. toD' \in [Clients -> Seq(Message)]
      BY <2>1, Messages DEF seat_open, Types, Ops, DevKinds
    <3> QED
      BY <2>1, <3>1 DEF seat_open, Types, seats, kernel
  <2>2. ASSUME Leave(c)  PROVE Types'
    <3>1. Request("CLOSE_SEAT", 0, "none") \in Message
      BY Messages DEF Ops, DevKinds
    <3>2. <<Request("CLOSE_SEAT", 0, "none")>> \in Seq(Message)
      BY <3>1
    <3> QED  BY <2>2, <3>2, LeftTypes DEF Leave
  <2>3. CASE crash(c)
    <3>1. <<>> \in Seq(Message)
      OBVIOUS
    <3> QED  BY <2>3, <3>1, LeftTypes DEF crash
  <2>4. ASSUME Consumed(c)  PROVE toC' \in [Clients -> Seq(Message)]
    <3>1. toC[c] # <<>> => Rest(toC[c]) \in Seq(Message)
      BY TakenIsThere DEF Types
    <3> QED  BY <2>4, <3>1 DEF Consumed, Types
  <2>5. ASSUME seat_dispatch(c)  PROVE Types'
    <3>1. CASE Leave(c)
      BY <3>1, <2>2
    <3>2. CASE ~Leave(c)
      BY <2>4, <2>5, <3>2 DEF seat_dispatch, Types, seats, kernel
    <3> QED  BY <3>1, <3>2
  <2>6. ASSUME NEW m \in Message, NEW st \in {"open", "close"}, Call(c, st, m)  PROVE Types'
    <3>1. toD' \in [Clients -> Seq(Message)]
      BY <2>6, Appended DEF Call, Types
    <3> QED
      BY <2>6, <3>1 DEF Call, Types, seats, kernel
  <2>7. CASE call_returns(c)
    <3>1. toC' \in [Clients -> Seq(Message)]
      BY <2>4, <2>7 DEF call_returns
    <3>2. Answer(c) \in Message
      BY Messages, TakenIsThere DEF Answer, Types, Ops
    <3>3. mine' \in [Clients -> SUBSET Held]
      <4>1. [id |-> Answer(c).id, fd |-> Answer(c).fd, kind |-> want[c].kind]
              \in Held
        <5>1. want[c] \in Message
          BY DEF Types
        <5> QED  BY <3>2, <5>1 DEF Message, Held
      <4> QED  BY <2>7, <4>1 DEF call_returns, Types
    <3>4. want' \in [Clients -> Message]
      BY <2>7, Messages DEF call_returns, Types, Ops
    <3> QED
      BY <2>7, <3>1, <3>3, <3>4 DEF call_returns, Types, seats, kernel
  <2>8. ASSUME NEW kind \in Kinds, open_device(c, kind)  PROVE Types'
    BY <2>6, <2>8, Messages DEF open_device, Ops, DevKinds
  <2>9. ASSUME NEW d \in mine[c], close_device(c, d)  PROVE Types'
    <3>1. d.id \in Nat
      BY DEF Types, Held
    <3>2. Request("CLOSE_DEVICE", d.id, "event") \in Message
      BY <3>1, Messages DEF Ops, DevKinds
    <3> QED  BY <2>6, <2>9, <3>2 DEF close_device
  <2> QED
    BY <1>11, <2>1, <2>2, <2>3, <2>5, <2>7, <2>8, <2>9
       DEF SessionStep, c_session_init, seat_event_cb, c_session_free
<1> QED
  BY <1>1, <1>2, <1>3, <1>4, <1>5, <1>6, <1>7, <1>8, <1>9, <1>10, <1>11, CallbackTypes
     DEF Next, DaemonStep, Handler

-----------------------------------------------------------------------------
(* Where the daemon is, who is registered and what its connections carry.     *)

LEMMA Registering ==
  ASSUME Base, seat_register
  PROVE  /\ pc.c \in Clients /\ ~Registered(pc.c) /\ conn[pc.c] = "open"
         /\ IsInjective(clients') /\ Range(clients') = Range(clients) \cup {pc.c}
<1>1. pc.at = "push" /\ pc.c \in Clients /\ clients \in Seq(Clients) /\ clients' = Append(clients, pc.c)
  BY DEF seat_register, Main, Base, Types
<1>2. ~Registered(pc.c) /\ conn[pc.c] = "open" /\ IsInjective(clients)
  BY <1>1 DEF Base, Places, Working
<1> QED
  BY <1>1, <1>2, Appended DEF Registered

LEMMA Forgetting ==
  ASSUME Base, seat_forget
  PROVE  /\ pc.c \in Clients /\ Registered(pc.c) /\ conn[pc.c] = "open"
         /\ IsInjective(clients') /\ Range(clients') = Range(clients) \ {pc.c}
<1>1. pc.at = "drop" /\ pc.c \in Clients /\ clients \in Seq(Clients) /\ clients' = RemoveFirst(clients, pc.c)
  BY DEF seat_forget, Main, Base, Types, Remaining
<1>2. Registered(pc.c) /\ conn[pc.c] = "open" /\ IsInjective(clients)
  BY <1>1 DEF Base, Places, Working
<1> QED
  BY <1>1, <1>2, RemovedFirst DEF Registered

(* A handler that only answers, or does one of the four things.               *)
LEMMA CallbackPlaces ==
  ASSUME Base, NEW c \in Clients, seat_client_callback(c)
  PROVE  Places' /\ OpenOnce'
<1> USE DEF Places, OpenOnce, Working, OpensFor, Registered
<1> Types /\ Places /\ OpenOnce
  BY DEF Base
<1>1. pc.at = "loop" /\ daemon = "up" /\ conn[c] = "open" /\ conn \in [Clients -> {"none", "backlog", "open"}]
  BY Callback DEF Main, Types
<1>2. /\ toD \in [Clients -> Seq(Message)]
      /\ toD' = toD \/ toD' = [toD EXCEPT ![c] = <<>>]
  BY Callback DEF Types
<1>3. \A e \in Clients : \A m \in Range(toD'[e]) : m \in Range(toD[e])
  BY <1>2 DEF Range
<1>4. Idle.at = "loop"
  BY DEF Idle
<1>5. CASE Down("abort")
  <2>1. clients' = <<>> /\ pc' = Idle /\ conn' = conn
    BY <1>5 DEF Down
  <2>2. IsInjective(<<>>) /\ Range(<<>>) = {}
    BY DEF IsInjective, Range
  <2> QED
    BY <1>1, <1>3, <1>4, <2>1, <2>2
<1> DEFINE Same == UNCHANGED <<daemon, sig, front, mode, newvt>>
<1>6. ASSUME Same, UNCHANGED <<pc, clients, conn>>  PROVE Places' /\ OpenOnce'
  BY <1>1, <1>3, <1>6
<1>7. CASE Same /\ toD[c] # <<>> /\ toD' = [toD EXCEPT ![c] = <<>>] /\ Head(toD[c]).op = "OPEN_SEAT" /\ seat_open_seat(c) /\ ~Refused(c)
  <2>1. pc'.at = "setmode" /\ pc'.c = c /\ UNCHANGED <<clients, conn>>
    BY <1>7 DEF seat_open_seat, Idle
  <2>2. ~Registered(c)
    <3>1. Head(toD[c]) \in Range(toD[c])
      BY <1>2, <1>7 DEF Range
    <3> QED  BY <1>7, <3>1
  <2>3. toD'[c] = <<>>
    BY <1>2, <1>7
  <2> QED
    BY <1>1, <1>3, <1>7, <2>1, <2>2, <2>3 DEF Range
<1>8. ASSUME NEW eof \in BOOLEAN, Same, seat_close_seat(c, eof), eof => toD[c] = <<>>, ~UNCHANGED <<pc, clients, conn>>
      PROVE  Places' /\ OpenOnce'
  <2>1. UNCHANGED clients
    BY <1>8 DEF seat_close_seat
  <2>2. CASE Registered(c)
    <3>1. pc'.at = "drop" /\ pc'.c = c /\ UNCHANGED conn
      BY <1>8, <2>2 DEF seat_close_seat, Idle
    <3> QED
      BY <1>1, <1>3, <1>8, <2>1, <2>2, <3>1
  <2>3. CASE ~Registered(c)
    <3>1. pc' = pc /\ (conn' = conn \/ (eof /\ conn' = [conn EXCEPT ![c] = "none"]))
      BY <1>8, <2>3 DEF seat_close_seat
    <3>3. toD[c] = <<>>
      BY <1>8, <2>1, <3>1
    <3>2. toD'[c] = <<>>
      BY <1>2, <3>3
    <3> QED
      BY <1>1, <1>3, <1>8, <2>1, <2>3, <3>1, <3>2 DEF Range
  <2> QED  BY <2>2, <2>3
<1>9. CASE Same /\ toD[c] # <<>> /\ seat_open_device(c, Head(toD[c]).kind) /\ ~UNCHANGED <<pc, clients, conn>>
  <2>1. pc'.at = "device" /\ pc'.c = c /\ Registered(c) /\ UNCHANGED <<clients, conn>>
    BY <1>9 DEF seat_open_device, Idle, Refused
  <2> QED
    BY <1>1, <1>3, <1>9, <2>1
<1>10. CASE Same /\ seat_close_device(c, Head(toD[c]).id)
  BY <1>6, <1>10 DEF seat_close_device, Refused
<1>11. ASSUME Refused(c), Same  PROVE Places' /\ OpenOnce'
  BY <1>6, <1>11 DEF Refused
<1> QED
  BY <1>5, <1>6, <1>7, <1>8, <1>9, <1>10, <1>11, Callback
LEMMA LeftPlaces ==
  ASSUME Base, NEW c \in Clients, Leave(c) \/ crash(c)
  PROVE  Places' /\ OpenOnce'
<1> USE DEF Places, OpenOnce, Working, OpensFor, Registered
<1> Types /\ Places /\ OpenOnce
  BY DEF Base
<1>1. UNCHANGED <<daemon, pc, clients>>
  BY DEF Leave, crash, Left, seats
<1>2. conn \in [Clients -> {"none", "backlog", "open"}] /\ toD \in [Clients -> Seq(Message)]
  BY DEF Types
<1>3. CASE daemon = "up"
  <2> DEFINE bye == Request("CLOSE_SEAT", 0, "none")
  <2>1. bye \in Message /\ bye.op # "OPEN_SEAT"
    BY Messages DEF Ops, DevKinds
  <2>2. conn' = conn
    BY <1>3 DEF Leave, crash, Left
  <2> HIDE DEF bye
  <2>3. toD' = [toD EXCEPT ![c] = @ \o <<bye>>] \/ toD' = [toD EXCEPT ![c] = @ \o <<>>]
    BY <1>3 DEF Leave, crash, Left, bye
  <2>4. <<bye>> \in Seq(Message) /\ <<>> \in Seq(Message) /\ Range(<<bye>>) = {bye}
        /\ Range(<<>>) = {}
    BY <2>1 DEF Range
  <2>5. \A e \in Clients : Range(toD'[e]) \subseteq Range(toD[e]) \cup {bye}
    <3>1. /\ Range(toD[c] \o <<bye>>) = Range(toD[c]) \cup {bye}
          /\ Range(toD[c] \o <<>>) = Range(toD[c])
      <4>1. toD[c] \in Seq(Message)
        BY <1>2
      <4>2. Range(toD[c] \o <<bye>>) = Range(toD[c]) \cup Range(<<bye>>)
        <5> DEFINE b == <<bye>>
        <5>1. b \in Seq(Message)
          BY <2>4
        <5> HIDE DEF b
        <5>2. Range(toD[c] \o b) = Range(toD[c]) \cup Range(b)
          BY <4>1, <5>1, RangeConcatenation
        <5> QED  BY <5>2 DEF b
      <4>3. Range(toD[c] \o <<>>) = Range(toD[c]) \cup Range(<<>>)
        BY <2>4, <4>1, RangeConcatenation
      <4> QED  BY <2>4, <4>2, <4>3
    <3> QED  BY <1>2, <2>3, <3>1
  <2> QED  BY <1>1, <2>1, <2>2, <2>5
<1>4. CASE daemon # "up"
  <2>1. toD' = [toD EXCEPT ![c] = <<>>] /\ conn' = [conn EXCEPT ![c] = "none"]
    BY <1>4 DEF Leave, crash, Left
  <2>2. Range(<<>>) = {} /\ Idle.at = "loop"
    BY DEF Range, Idle
  <2> QED  BY <1>1, <1>2, <1>4, <2>1, <2>2
<1> QED
  BY <1>3, <1>4

LEMMA BaseInv ==
  ASSUME Base, [Next]_vars  PROVE Base'
<1> USE DEF Places, OpenOnce, Working, OpensFor, Registered
<1> Types /\ Places /\ OpenOnce
  BY DEF Base
<1> SUFFICES Places' /\ OpenOnce'
  BY TypesInv DEF Base
<1>t. /\ conn \in [Clients -> {"none", "backlog", "open"}] /\ toD \in [Clients -> Seq(Message)]
      /\ Idle.at = "loop" /\ Range(<<>>) = {} /\ IsInjective(<<>>)
  BY DEF Types, Idle, Range, IsInjective
<1>1. ASSUME UNCHANGED <<daemon, pc, clients, conn, toD>>  PROVE Places' /\ OpenOnce'
  BY <1>1
<1>2. CASE UNCHANGED vars
  BY <1>1, <1>2 DEF vars, seats
<1>3. CASE \E v \in VTs : switch_vt(v)
  BY <1>1, <1>3 DEF switch_vt, seats
<1>4. ASSUME NEW c \in Clients, seat_server_callback(c)  PROVE Places' /\ OpenOnce'
  <2>1. UNCHANGED <<daemon, pc, clients, toD>> /\ conn' = [conn EXCEPT ![c] = "open"]
    BY <1>4 DEF seat_server_callback, seats
  <2> QED  BY <1>t, <2>1
<1>5. CASE vt_disable
  <2>1. UNCHANGED <<daemon, clients, conn, toD>> /\ daemon = "up" /\ pc.at = "setmode"
    BY <1>5 DEF vt_disable, Main
  <2>2. pc'.at = "loop" \/ (pc'.at = "push" /\ pc'.c = pc.c)
    <3>1. pc' = Idle \/ pc' = [pc EXCEPT !.at = "push"]
      BY <1>5 DEF vt_disable
    <3> QED  BY <1>t, <3>1 DEF Types, Place
  <2> QED  BY <2>1, <2>2
<1>6. CASE seat_register
  <2>1. UNCHANGED <<daemon, conn, toD>> /\ pc' = Idle /\ daemon = "up" /\ pc.at = "push"
    BY <1>6 DEF seat_register, Main
  <2> QED  BY <1>6, <1>t, <2>1, Registering
<1>7. CASE seat_forget
  <2>1. UNCHANGED <<daemon, toD>> /\ pc' = Idle /\ daemon = "up" /\ pc.at = "drop"
        /\ (conn' = conn \/ conn' = [conn EXCEPT ![pc.c] = "none"])
    BY <1>7 DEF seat_forget, Main
  <2>2. \A m \in Range(toD[pc.c]) : m.op # "OPEN_SEAT"
    BY <1>7, Forgetting
  <2> QED  BY <1>7, <1>t, <2>1, <2>2, Forgetting
<1>8. CASE seat_add_device
  <2>1. UNCHANGED <<daemon, conn, clients, toD>> /\ pc' = Idle /\ daemon = "up"
    BY <1>8 DEF seat_add_device, Main
  <2> QED  BY <1>t, <2>1
<1>9. CASE on_vt_release \/ on_vt_activate
  BY <1>1, <1>9 DEF on_vt_release, on_vt_activate, seats
<1>10. CASE cleanup
  <2>1. clients' = <<>> /\ pc' = Idle /\ conn' = conn /\ toD' = toD
    BY <1>10 DEF cleanup, Down
  <2> QED  BY <1>t, <2>1
<1>11. ASSUME NEW c \in Clients, SessionStep(c)  PROVE Places' /\ OpenOnce'
  <2>1. CASE seat_open(c)
    <3>1. /\ conn[c] = "none" /\ daemon = "up" /\ UNCHANGED <<daemon, pc, clients>>
          /\ conn' = [conn EXCEPT ![c] = "backlog"]
          /\ toD' = [toD EXCEPT ![c] = <<Request("OPEN_SEAT", 0, "none")>>]
      BY <2>1 DEF seat_open, seats
    <3> QED  BY <1>t, <3>1
  <2>2. CASE Leave(c) \/ crash(c)
    BY <2>2, LeftPlaces
  <2>3. CASE seat_dispatch(c)
    BY <1>1, <2>2, <2>3 DEF seat_dispatch, seats
  <2>4. CASE call_returns(c)
    BY <1>1, <2>4 DEF call_returns, seats
  <2>5. ASSUME NEW m \in Message, NEW st, Call(c, st, m), m.op # "OPEN_SEAT"
        PROVE  Places' /\ OpenOnce'
    <3>1. UNCHANGED <<daemon, pc, clients, conn>> /\ toD' = [toD EXCEPT ![c] = Append(@, m)]
      BY <2>5 DEF Call, seats
    <3>2. Range(Append(toD[c], m)) = Range(toD[c]) \cup {m}
      BY <1>t, Appended
    <3> QED  BY <1>t, <2>5, <3>1, <3>2
  <2>6. ASSUME NEW kind \in Kinds, open_device(c, kind)  PROVE Places' /\ OpenOnce'
    <3>1. LET m == Request("OPEN_DEVICE", 0, kind) IN m \in Message /\ m.op # "OPEN_SEAT"
      BY Messages, SessionAssumption DEF Ops, DevKinds
    <3> QED  BY <2>5, <2>6, <3>1 DEF open_device
  <2>7. ASSUME NEW d \in mine[c], close_device(c, d)  PROVE Places' /\ OpenOnce'
    <3>1. d.id \in Nat
      BY DEF Types, Held
    <3>2. LET m == Request("CLOSE_DEVICE", d.id, "event") IN m \in Message /\ m.op # "OPEN_SEAT"
      BY <3>1, Messages DEF Ops, DevKinds
    <3> QED  BY <2>5, <2>7, <3>2 DEF close_device
  <2> QED
    BY <1>11, <2>1, <2>2, <2>3, <2>4, <2>6, <2>7
       DEF SessionStep, c_session_init, seat_event_cb, c_session_free
<1> QED
  BY <1>2, <1>3, <1>4, <1>5, <1>6, <1>7, <1>8, <1>9, <1>10, <1>11, CallbackPlaces
     DEF Next, DaemonStep, Handler

-----------------------------------------------------------------------------
(* Who has the seat, while nobody asks for a switch before the daemon is done. *)

(* A signal says what the kernel waits for, and comes between two requests.   *)
Signalled ==
  /\ "USR1" \in sig => newvt \in VTs
  /\ "USR2" \in sig => newvt = NoVT
  /\ sig # {} /\ daemon = "up" => pc.at \in {"loop", "device"}

(* A terminal has one session, and the daemon controls it.                   *)
OwnTerminal ==
  /\ \A c \in Clients : Registered(c) => vt[c] \in VTs /\ mode[vt[c]] = "process"
  /\ \A c, d \in Clients : Registered(c) /\ Registered(d) /\ vt[c] = vt[d] => c = d
  /\ pc.at \in {"setmode", "push"} => /\ pc.vt = front
                                      /\ \A c \in Clients : Registered(c) => vt[c] # front
  /\ pc.at = "push" => mode[pc.vt] = "process"

(* The session of the terminal that is shown has the seat, until and after    *)
(* the signals of a switch are handled.                                     *)
Turn ==
  \A c \in Clients : told[c] <=> Registered(c) /\ vt[c] = front /\ "USR2" \notin sig

SeatInv == Base /\ Signalled /\ OwnTerminal /\ Turn

LEMMA OwnersAre ==
  ASSUME Types, NEW v
  PROVE  \A c : c \in Owners(v) <=> c \in Clients /\ Registered(c) /\ vt[c] = v
BY RangeOfSeq DEF Types, Owners, Registered

(* The seat changes hands in one of two ways.                                *)
LEMMA Given ==
  ASSUME Types, NEW c \in Clients, \A d \in Clients : ~told[d], told' = [told EXCEPT ![c] = TRUE]
  PROVE  [Lock!Next]_{d \in Clients : told[d]}
<1>1. {d \in Clients : told[d]} = {} /\ {d \in Clients : told'[d]} = {c}
  BY DEF Types
<1> QED
  BY <1>1 DEF Lock!Next, Lock!Give

LEMMA GivenBack ==
  ASSUME Types, NEW c \in Clients, \A d \in Clients : told[d] => d = c,
         told' = [told EXCEPT ![c] = FALSE]
  PROVE  [Lock!Next]_{d \in Clients : told[d]}
<1>1. {d \in Clients : told'[d]} = {}
  BY DEF Types
<1> QED
  BY <1>1 DEF Lock!Next, Lock!Take

LEMMA SeatStep ==
  ASSUME SeatInv, ~Eager, [Next]_vars
  PROVE  Signalled' /\ OwnTerminal' /\ Turn' /\ [Lock!Next]_{d \in Clients : told[d]}
<1> USE SessionAssumption DEF Signalled, OwnTerminal, Turn, Registered
<1> Base /\ Types /\ Places /\ Signalled /\ OwnTerminal /\ Turn
  BY DEF SeatInv, Base
<1> DEFINE Holders == {d \in Clients : told[d]}
           Good == Signalled' /\ OwnTerminal' /\ Turn' /\ [Lock!Next]_Holders
<1>t. /\ told \in [Clients -> BOOLEAN] /\ vt \in [Clients -> VTs \cup {NoVT}]
      /\ mode \in [VTs -> {"auto", "process"}] /\ front \in VTs /\ newvt \in VTs \cup {NoVT}
      /\ sig \subseteq {"USR1", "USR2"} /\ Idle.at = "loop"
  BY DEF Types, Idle
<1>1. ASSUME UNCHANGED <<daemon, pc, clients, vt, kernel, told>>  PROVE Good
  BY <1>1 DEF kernel
<1>2. CASE UNCHANGED vars
  BY <1>1, <1>2 DEF vars, seats
<1>3. ASSUME NEW v \in VTs, switch_vt(v)  PROVE Good
  <2>1. /\ newvt = NoVT /\ sig = {} /\ pc.at \in {"loop", "device"}
        /\ UNCHANGED <<daemon, pc, clients, vt, mode, told>>
    BY <1>3 DEF switch_vt, seats
  <2>2. CASE (mode[front] = "auto" \/ daemon # "up") /\ Shown(v, sig)
    <3>1. \A c \in Clients : Registered(c) => vt[c] # front
      BY <2>2 DEF Places, Range
    <3>2. front' = v /\ newvt' = NoVT /\ (sig' = {"USR2"} \/ (sig' = {} /\ mode[v] # "process"))
      BY <2>1, <2>2 DEF Shown
    <3> QED
      BY <2>1, <3>1, <3>2
  <2>3. CASE newvt' = v /\ sig' = sig \cup {"USR1"} /\ UNCHANGED front
    BY <2>1, <2>3
  <2> QED  BY <1>3, <2>2, <2>3 DEF switch_vt
<1>4. ASSUME NEW c \in Clients, seat_server_callback(c)  PROVE Good
  BY <1>1, <1>4 DEF seat_server_callback, seats
<1>5. CASE vt_disable
  <2>1. /\ sig = {} /\ pc.at = "setmode" /\ UNCHANGED <<daemon, clients, vt, front, sig, told>>
        /\ mode' = [mode EXCEPT ![pc.vt] = "process"]
    BY <1>5 DEF vt_disable, Main
  <2>2. pc'.at = "loop" \/ (pc'.at = "push" /\ pc'.vt = pc.vt)
    <3>1. pc' = Idle \/ pc' = [pc EXCEPT !.at = "push"]
      BY <1>5 DEF vt_disable
    <3> QED  BY <1>t, <3>1 DEF Types, Place
  <2> QED
    BY <1>t, <2>1, <2>2
<1>6. CASE seat_register
  <2>1. /\ sig = {} /\ pc.at = "push" /\ pc' = Idle /\ UNCHANGED <<daemon, kernel>>
        /\ vt' = [vt EXCEPT ![pc.c] = pc.vt] /\ told' = [told EXCEPT ![pc.c] = TRUE]
    BY <1>6 DEF seat_register, seat_enable, Main
  <2>2. \A d \in Clients : ~told[d]
    BY <2>1
  <2>3. [Lock!Next]_Holders
    BY <1>6, <2>1, <2>2, Registering, Given
  <2>4. Signalled' /\ OwnTerminal'
    BY <1>6, <1>t, <2>1, Registering DEF kernel
  <2>5. Turn'
    BY <1>6, <1>t, <2>1, <2>2, Registering DEF kernel
  <2> QED  BY <2>3, <2>4, <2>5
<1>7. CASE seat_forget
  <2>1. /\ sig = {} /\ pc' = Idle /\ UNCHANGED <<daemon, kernel>>
        /\ vt' = [vt EXCEPT ![pc.c] = NoVT] /\ told' = [told EXCEPT ![pc.c] = FALSE]
    BY <1>7 DEF seat_forget, Main
  <2>2. [Lock!Next]_Holders
    <3>1. CASE told[pc.c]
      BY <1>7, <2>1, <3>1, Forgetting, GivenBack
    <3>2. CASE ~told[pc.c]
      <4>1. told' = told
        BY <1>7, <1>t, <2>1, <3>2, Forgetting
      <4> QED  BY <4>1
    <3> QED  BY <3>1, <3>2
  <2>3. Signalled' /\ OwnTerminal' /\ Turn'
    BY <1>7, <1>t, <2>1, Forgetting DEF kernel
  <2> QED  BY <2>2, <2>3
<1>8. CASE seat_add_device
  <2>1. pc' = Idle /\ UNCHANGED <<daemon, clients, vt, kernel, told>>
    BY <1>8 DEF seat_add_device
  <2> QED  BY <1>t, <2>1 DEF kernel
<1>9. CASE on_vt_release
  <2>1. "USR1" \in sig /\ daemon = "up" /\ newvt \in VTs /\ "USR2" \notin sig
        /\ UNCHANGED <<daemon, pc, clients, vt, mode>> /\ pc.at \in {"loop", "device"}
    BY <1>9 DEF on_vt_release, seats
  <2>2. CASE Owners(front) = {} /\ sig' = sig \ {"USR1"} /\ UNCHANGED <<front, newvt, told>>
    BY <2>1, <2>2
  <2>3. ASSUME NEW c \in Owners(front), seat_disable(c), Shown(newvt, sig \ {"USR1"})
        PROVE  Good
    <3>1. c \in Clients /\ Registered(c) /\ vt[c] = front
      BY <2>3, OwnersAre
    <3>2. told' = [told EXCEPT ![c] = FALSE]
      BY <2>3 DEF seat_disable
    <3>3. \A d \in Clients : told[d] => d = c
      BY <3>1
    <3>4. [Lock!Next]_Holders
      BY <3>1, <3>2, <3>3, GivenBack
    <3>5. front' = newvt /\ newvt' = NoVT
          /\ (sig' = {"USR2"} \/ (sig' = {} /\ mode[newvt] # "process"))
      BY <1>t, <2>1, <2>3 DEF Shown
    <3>6. Signalled' /\ OwnTerminal'
      BY <2>1, <3>5
    <3>7. Turn'
      BY <1>t, <2>1, <3>1, <3>2, <3>3, <3>5
    <3> QED  BY <3>4, <3>6, <3>7
  <2> QED
    BY <1>9, <2>1, <2>2, <2>3, OwnersAre DEF on_vt_release, VtOpen
<1>10. CASE on_vt_activate
  <2>1. "USR2" \in sig /\ daemon = "up" /\ newvt = NoVT /\ "USR1" \notin sig
        /\ UNCHANGED <<daemon, pc, clients, vt, mode>>
    BY <1>10 DEF on_vt_activate, seats
  <2>2. sig' = {} /\ UNCHANGED <<front, newvt>>
    BY <1>10, <1>t, <2>1 DEF on_vt_activate
  <2>3. CASE Owners(front) = {} /\ told' = told
    BY <1>t, <2>1, <2>2, <2>3, OwnersAre
  <2>4. ASSUME NEW c \in Owners(front), seat_enable(c)  PROVE Good
    <3>1. c \in Clients /\ Registered(c) /\ vt[c] = front
      BY <2>4, OwnersAre
    <3>2. told' = [told EXCEPT ![c] = TRUE] /\ \A d \in Clients : ~told[d]
      BY <2>1, <2>4 DEF seat_enable
    <3>3. [Lock!Next]_Holders
      BY <3>1, <3>2, Given
    <3>4. Signalled' /\ OwnTerminal' /\ Turn'
      BY <1>t, <2>1, <2>2, <3>1, <3>2
    <3> QED  BY <3>3, <3>4
  <2> QED
    BY <1>10, <2>3, <2>4 DEF on_vt_activate
<1>11. ASSUME NEW how, Down(how)  PROVE Good
  <2>1. clients' = <<>> /\ pc' = Idle /\ sig' = {} /\ UNCHANGED <<front, mode, newvt>>
        /\ told' = [c \in Clients |-> FALSE]
    BY <1>11 DEF Down
  <2>2. Range(clients') = {}
    BY <2>1 DEF Range
  <2>3. {d \in Clients : told'[d]} = {}
    BY <2>1
  <2>4. [Lock!Next]_Holders
    BY <2>3 DEF Lock!Next, Lock!Take
  <2> QED  BY <1>t, <2>1, <2>2, <2>4
<1>12. CASE cleanup
  BY <1>11, <1>12 DEF cleanup
<1>13. ASSUME NEW c \in Clients, seat_client_callback(c)  PROVE Good
  <2>1. sig = {} /\ pc.at = "loop"
    BY <1>13, Callback DEF Main
  <2>2. CASE Down("abort")
    BY <1>11, <2>2
  <2> DEFINE Same == UNCHANGED <<daemon, sig, front, mode, newvt>>
  <2>3. ASSUME Same, UNCHANGED <<clients, vt, told>>, pc' = pc \/ pc'.at \in {"drop", "device"}
        PROVE  Good
    BY <2>1, <2>3
  <2>4. CASE Same /\ seat_open_seat(c) /\ ~Refused(c)
    <3>1. /\ pc'.at = "setmode" /\ pc'.vt = front /\ UNCHANGED <<clients, vt, told>>
          /\ Owners(front) = {}
      BY <2>4 DEF seat_open_seat, Idle
    <3> QED  BY <2>1, <2>4, <3>1, OwnersAre
  <2>5. ASSUME NEW eof, Same, seat_close_seat(c, eof)  PROVE Good
    <3>1. UNCHANGED <<clients, vt, told>> /\ (pc' = pc \/ pc'.at = "drop")
      BY <2>5 DEF seat_close_seat, Idle
    <3> QED  BY <2>3, <2>5, <3>1
  <2>6. ASSUME NEW kind, Same, seat_open_device(c, kind)  PROVE Good
    <3>1. UNCHANGED <<clients, vt, told>> /\ (pc' = pc \/ pc'.at = "device")
      BY <2>6 DEF seat_open_device, Refused, Idle
    <3> QED  BY <2>3, <2>6, <3>1
  <2>7. ASSUME NEW id, Same, seat_close_device(c, id)  PROVE Good
    <3>1. UNCHANGED <<clients, vt, told, pc>>
      BY <2>7 DEF seat_close_device, Refused
    <3> QED  BY <2>3, <2>7, <3>1
  <2>8. ASSUME Same, Refused(c)  PROVE Good
    BY <2>3, <2>8 DEF Refused
  <2> QED
    BY <1>13, <2>2, <2>4, <2>5, <2>6, <2>7, <2>8, Callback
<1>14. ASSUME NEW c \in Clients, SessionStep(c)  PROVE Good
  <2>1. UNCHANGED <<daemon, pc, clients, vt, kernel, told>>
    BY <1>14 DEF SessionStep, seat_open, c_session_init, seat_event_cb, seat_dispatch, Leave, Left,
                 Call, call_returns, open_device, close_device, c_session_free, crash, seats
  <2> QED  BY <1>1, <2>1
<1> QED
  BY <1>2, <1>3, <1>4, <1>5, <1>6, <1>7, <1>8, <1>9, <1>10, <1>12, <1>13, <1>14
     DEF Next, DaemonStep, Handler

LEMMA InitSeat == Init => SeatInv /\ Lock!Init
<1> SUFFICES ASSUME Init  PROVE SeatInv /\ Lock!Init
  OBVIOUS
<1> USE SessionAssumption DEF Init
<1>1. Range(<<>>) = {} /\ IsInjective(<<>>) /\ Idle \in Place /\ Idle.at = "loop"
  BY DEF Range, IsInjective, Idle, Place
<1>2. front \in VTs
  OBVIOUS
<1>3. want \in [Clients -> Message]
  BY Messages DEF Ops
<1>4. Types
  BY <1>1, <1>2, <1>3 DEF Types
<1>5. Places /\ OpenOnce
  BY <1>1 DEF Places, OpenOnce, Working, Registered
<1>6. Signalled /\ OwnTerminal /\ Turn
  BY <1>1 DEF Signalled, OwnTerminal, Turn, Registered
<1>7. Lock!Init
  BY DEF Lock!Init
<1> QED
  BY <1>4, <1>5, <1>6, <1>7 DEF SeatInv, Base

LEMMA SeatInvariant ==
  ASSUME ~Eager  PROVE Spec => []SeatInv
<1>1. Init => SeatInv
  BY InitSeat
<1>2. SeatInv /\ [Next]_vars => SeatInv'
  BY BaseInv, SeatStep DEF SeatInv
<1> QED
  BY <1>1, <1>2, PTL DEF Spec

(* A session is told it has the seat exactly while its terminal is shown,     *)
(* whenever the daemon has nothing left to do: through opening, closing,      *)
(* crashing and switching (daemon.c:191-299).                               *)
THEOREM ToldIffShownCorrect ==
  ASSUME ~Eager  PROVE Spec => []ToldIffShown
<1>1. SeatInv => ToldIffShown
  BY RangeOfSeq DEF SeatInv, Base, Types, Turn, ToldIffShown, Quiet, Registered
<1> QED
  BY <1>1, SeatInvariant, PTL

(* The daemon implements SeatHandover: the seat is given when nobody has it,   *)
(* and taken before it is given again (daemon.c:60-76, 191-299).             *)
THEOREM HandoverCorrect ==
  ASSUME ~Eager  PROVE Spec => Handover
<1>1. Init => Lock!Init
  BY InitSeat
<1>2. SeatInv /\ [Next]_vars => [Lock!Next]_{c \in Clients : told[c]}
  BY SeatStep
<1> QED
  BY <1>1, <1>2, SeatInvariant, PTL DEF Spec, Handover, Lock!Spec

-----------------------------------------------------------------------------
(* What a session and the daemon agree on, whoever asks for a switch when.    *)

Listed(c) == Ids(Range(devices[c]))
Holds(c) == Ids(mine[c])

(* The ids of a session's devices differ, and the next one is new.            *)
Numbered ==
  /\ \A c \in Clients : IdsApart(devices[c]) /\ \A id \in Listed(c) : id < dev_id
  /\ pc.at = "device" => pc.d.id = dev_id

(* A session that starts has no device, and is told that it has the seat only *)
(* once it is registered.                                                   *)
Starts(c) ==
  /\ stage[c] \in {"out", "opening"} => Holds(c) = {}
  /\ stage[c] = "out" => toC[c] = <<>>
  /\ stage[c] = "opening" /\ daemon = "up" =>
       /\ toD[c] = <<>> \/ Head(toD[c]).op = "OPEN_SEAT"
       /\ Working(c) => toD[c] = <<>> /\ OpensFor(c)
       /\ IF Registered(c) THEN Listed(c) = {}
          ELSE toC[c] # <<>> => Head(toC[c]).op \notin {"ENABLE", "DISABLE"}

(* Between calls nothing of the session is under way.                        *)
Runs(c) ==
  stage[c] = "running" /\ daemon = "up" /\ ~crossed[c] =>
    Registered(c) /\ toD[c] = <<>> /\ ~Working(c) /\ Holds(c) = Listed(c)

(* The reply that answers the call c is in.                                  *)
Replied(c) ==
  \E r \in Message :
    /\ toC[c] = <<r>>
    /\ \/ r.op = "ERROR" /\ Holds(c) = Listed(c)
       \/ r.op = "ACK" /\ stage[c] = "open" /\ Listed(c) = Holds(c) \cup {r.id}
       \/ r.op = "ACK" /\ stage[c] = "close" /\ Listed(c) = Holds(c) \ {want[c].id}

(* In a call, the request is on its way, is worked on, or is answered.        *)
Calls(c) ==
  Calling(c) /\ daemon = "up" /\ ~crossed[c] =>
    /\ Registered(c)
    /\ want[c].op = IF stage[c] = "open" THEN "OPEN_DEVICE" ELSE "CLOSE_DEVICE"
    /\ \/ /\ toD[c] # <<>> /\ Head(toD[c]) = want[c] /\ toC[c] = <<>> /\ ~Working(c)
          /\ Holds(c) = Listed(c)
       \/ /\ toD[c] = <<>> /\ toC[c] = <<>> /\ Working(c) /\ pc.at = "device"
          /\ stage[c] = "open" /\ Holds(c) = Listed(c)
       \/ toD[c] = <<>> /\ ~Working(c) /\ Replied(c)

Agree(c) == Starts(c) /\ Runs(c) /\ Calls(c)

DeviceInv == Base /\ Numbered /\ \A c \in Clients : Agree(c)

(* A step that leaves what concerns c alone.                                 *)
LEMMA Untouched ==
  ASSUME NEW c, Agree(c), daemon' = "up" => daemon = "up",
         UNCHANGED <<stage[c], toC[c], toD[c], want[c], mine[c], crossed[c], devices[c]>>,
         Registered(c)' <=> Registered(c), Working(c)' <=> Working(c),
         OpensFor(c)' <=> OpensFor(c), Working(c) /\ pc.at = "device" => pc'.at = "device"
  PROVE  Agree(c)'
<1>1. Listed(c)' = Listed(c) /\ Holds(c)' = Holds(c) /\ Calling(c)' = Calling(c)
  BY DEF Listed, Holds, Calling
<1>2. Replied(c) => Replied(c)'
  BY <1>1 DEF Replied
<1> QED
  BY <1>1, <1>2 DEF Agree, Starts, Runs, Calls

(* The daemon is gone: only what the session itself holds is left to say.     *)
LEMMA AgreeDown ==
  ASSUME NEW how \in {"exit", "abort"}, Down(how), UNCHANGED session, Numbered,
         \A c \in Clients : Agree(c)
  PROVE  Numbered' /\ \A c \in Clients : Agree(c)'
<1>1. /\ daemon' = how /\ pc' = Idle /\ devices' = [c \in Clients |-> <<>>] /\ toC' = toC
      /\ UNCHANGED <<stage, mine>>
  BY DEF Down, session
<1>2. Idle.at = "loop" /\ Range(<<>>) = {} /\ Ids({}) = {} /\ IdsApart(<<>>)
  BY DEF Idle, Range, Ids, IdsApart
<1>3. Numbered'
  BY <1>1, <1>2 DEF Numbered, Listed
<1>4. ASSUME NEW c \in Clients  PROVE Agree(c)'
  BY <1>1 DEF Agree, Starts, Runs, Calls, Holds
<1> QED
  BY <1>3, <1>4

(* Sent changes what is unread of c, and only if c listens.                  *)
LEMMA SentTo ==
  ASSUME NEW q \in [Clients -> Seq(Message)], NEW c \in Clients, NEW m \in Message
  PROVE  /\ \A e \in Clients : e # c => Sent(q, c, m)[e] = q[e]
         /\ stage[c] = "out" => Sent(q, c, m)[c] = q[c]
         /\ stage[c] # "out" /\ q[c] = <<>> => Sent(q, c, m)[c] = <<m>>
         /\ stage[c] # "out" /\ q[c] # <<>> => Head(Sent(q, c, m)[c]) = Head(q[c])
<1>1. q[c] \in Seq(Message)
  OBVIOUS
<1>2. Append(<<>>, m) = <<m>>
  OBVIOUS
<1>3. q[c] # <<>> => Head(Append(q[c], m)) = Head(q[c])
  BY <1>1, Appended
<1> QED
  BY <1>2, <1>3 DEF Sent

LEMMA DeviceHandlers ==
  ASSUME DeviceInv, Handler  PROVE Numbered' /\ \A c \in Clients : Agree(c)'
<1> Base /\ Types /\ Places /\ Numbered /\ \A c \in Clients : Agree(c)
  BY DEF DeviceInv, Base
<1> USE DEF Registered, Working, OpensFor
<1>t. /\ toC \in [Clients -> Seq(Message)] /\ toD \in [Clients -> Seq(Message)]
      /\ devices \in [Clients -> Seq(Device)] /\ clients \in Seq(Clients)
      /\ stage \in [Clients -> {"out", "opening", "running", "open", "close"}]
      /\ crossed \in [Clients -> BOOLEAN]
      /\ pc.at # "loop" => pc.c \in Clients
      /\ Idle.at = "loop" /\ dev_id \in Nat
  BY DEF Types, Idle
<1>m. /\ Event("ERROR") \in Message /\ Event("ERROR").op = "ERROR"
      /\ Event("ENABLE") \in Message
  BY Messages DEF Ops
<1>1. CASE vt_disable
  <2>0. pc.c \in Clients
    BY <1>1, <1>t DEF Main, vt_disable
  <2> PICK p \in Clients : p = pc.c
    BY <2>0
  <2>1. /\ pc.at = "setmode" /\ daemon = "up" /\ p \in Clients /\ ~Registered(p)
        /\ UNCHANGED <<daemon, clients, devices, dev_id, toD, session, crossed>>
    BY <1>1, <1>t DEF vt_disable, Main, Places
  <2>2. CASE pc'.at = "push" /\ pc'.c = p /\ UNCHANGED toC
    <3>1. ASSUME NEW c \in Clients  PROVE Agree(c)'
      BY <2>1, <2>2, Untouched DEF session
    <3> QED  BY <2>1, <2>2, <3>1 DEF Numbered, Listed
  <2>3. CASE pc' = Idle /\ toC' = Sent(toC, p, Event("ERROR"))
    <3>0. /\ \A e \in Clients : e # p => toC'[e] = toC[e]
          /\ stage[p] = "out" => toC'[p] = toC[p]
          /\ stage[p] # "out" /\ toC[p] = <<>> => toC'[p] = <<Event("ERROR")>>
          /\ stage[p] # "out" /\ toC[p] # <<>> => Head(toC'[p]) = Head(toC[p])
      <4> DEFINE m == Event("ERROR")
      <4>1. m \in Message
        BY <1>m
      <4>2. toC' = Sent(toC, p, m)
        BY <2>3
      <4> HIDE DEF m
      <4>3. /\ \A e \in Clients : e # p => toC'[e] = toC[e]
            /\ stage[p] = "out" => toC'[p] = toC[p]
            /\ stage[p] # "out" /\ toC[p] = <<>> => toC'[p] = <<m>>
            /\ stage[p] # "out" /\ toC[p] # <<>> => Head(toC'[p]) = Head(toC[p])
        <5>1. toC \in [Clients -> Seq(Message)]
          BY <1>t
        <5> QED  BY <4>1, <4>2, <5>1, SentTo
      <4> QED  BY <4>3 DEF m
    <3>1. ASSUME NEW c \in Clients, c # p  PROVE Agree(c)'
      BY <1>t, <2>1, <2>3, <3>0, <3>1, Untouched DEF session
    <3>2. Agree(p)'
      <4>1. Holds(p)' = Holds(p)
        BY <2>1 DEF Holds, session
      <4>2. Starts(p)'
        BY <1>t, <1>m, <2>1, <2>3, <3>0, <4>1 DEF Agree, Starts, session
      <4>3. Runs(p)' /\ Calls(p)'
        BY <2>1 DEF Agree, Runs, Calls, Calling, session
      <4> QED  BY <4>2, <4>3 DEF Agree
    <3> QED  BY <1>t, <2>1, <2>3, <3>1, <3>2 DEF Numbered, Listed
  <2>4. pc \in Place
    BY DEF Types
  <2>5. LET q == [pc EXCEPT !.at = "push"] IN q.at = "push" /\ q.c = p
    BY <2>4 DEF Place
  <2> QED
    BY <1>1, <2>2, <2>3, <2>5 DEF vt_disable
<1>2. CASE seat_register
  <2>0. pc.c \in Clients
    BY <1>2, <1>t DEF Main, seat_register
  <2> PICK p \in Clients : p = pc.c
    BY <2>0
  <2>1. /\ pc.at = "push" /\ daemon = "up" /\ pc' = Idle
        /\ devices' = [devices EXCEPT ![p] = <<>>]
        /\ toC' = Sent(toC, p, Event("ENABLE"))
        /\ crossed' = [crossed EXCEPT ![p] = @ \/ Calling(p)]
        /\ UNCHANGED <<daemon, dev_id, toD, session>>
    BY <1>2 DEF seat_register, seat_enable, Main
  <2>2. p \in Clients /\ ~Registered(p) /\ Range(clients') = Range(clients) \cup {p}
    BY <1>2, Registering
  <2>s. /\ \A e \in Clients : e # p => toC'[e] = toC[e]
        /\ stage[p] = "out" => toC'[p] = toC[p]
        /\ stage[p] # "out" /\ toC[p] = <<>> => toC'[p] = <<Event("ENABLE")>>
        /\ stage[p] # "out" /\ toC[p] # <<>> => Head(toC'[p]) = Head(toC[p])
    BY <1>t, <1>m, <2>1, SentTo
  <2>3. ASSUME NEW c \in Clients, c # p  PROVE Agree(c)'
    BY <1>t, <2>1, <2>2, <2>3, <2>s, Untouched DEF session
  <2>4. Range(<<>>) = {} /\ Ids({}) = {} /\ IdsApart(<<>>)
    BY DEF Range, Ids, IdsApart
  <2>5. Agree(p)'
    <3>1. Holds(p)' = Holds(p) /\ Listed(p)' = {}
      BY <1>t, <2>1, <2>2, <2>4 DEF Holds, Listed, session
    <3>2. Starts(p)'
      BY <1>t, <2>1, <2>2, <2>s, <3>1 DEF Agree, Starts, session
    <3>3. Runs(p)' /\ Calls(p)'
      BY <1>t, <2>1, <2>2 DEF Agree, Runs, Calls, Calling, session
    <3> QED  BY <3>2, <3>3 DEF Agree
  <2>6. Numbered'
    BY <1>t, <2>1, <2>2, <2>4 DEF Numbered, Listed
  <2> QED  BY <2>3, <2>5, <2>6
<1>3. CASE seat_forget
  <2>0. pc.c \in Clients
    BY <1>3, <1>t DEF Main, seat_forget
  <2> PICK p \in Clients : p = pc.c
    BY <2>0
  <2>1. /\ pc.at = "drop" /\ daemon = "up" /\ pc' = Idle
        /\ devices' = [devices EXCEPT ![p] = <<>>]
        /\ UNCHANGED <<daemon, dev_id, toD, toC, crossed, session>>
    BY <1>3 DEF seat_forget, Main
  <2>2. p \in Clients /\ Registered(p) /\ Range(clients') = Range(clients) \ {p}
    BY <1>3, Forgetting
  <2>3. ASSUME NEW c \in Clients, c # p  PROVE Agree(c)'
    BY <1>t, <2>1, <2>2, <2>3, Untouched DEF session
  <2>4. Range(<<>>) = {} /\ Ids({}) = {} /\ IdsApart(<<>>)
    BY DEF Range, Ids, IdsApart
  <2>5. Agree(p)'
    <3>1. Holds(p)' = Holds(p)
      BY <2>1 DEF Holds, session
    <3>2. Starts(p)'
      BY <1>t, <2>1, <2>2, <3>1 DEF Agree, Starts, session
    <3>3. Runs(p)' /\ Calls(p)'
      BY <1>t, <2>1, <2>2 DEF Agree, Runs, Calls, Calling, session
    <3> QED  BY <3>2, <3>3 DEF Agree
  <2>6. Numbered'
    BY <1>t, <2>1, <2>2, <2>4 DEF Numbered, Listed
  <2> QED  BY <2>3, <2>5, <2>6
<1>4. CASE seat_add_device
  <2>0. pc.c \in Clients
    BY <1>4, <1>t DEF Main, seat_add_device
  <2> PICK p \in Clients : p = pc.c
    BY <2>0
  <2>1. /\ pc.at = "device" /\ daemon = "up" /\ pc' = Idle /\ p \in Clients
        /\ devices' = [devices EXCEPT ![p] = Append(@, pc.d)] /\ dev_id' = dev_id + 1
        /\ toC' = Sent(toC, p, Ack(pc.d, pc.d.id))
        /\ UNCHANGED <<daemon, clients, toD, crossed, session>>
    BY <1>4, <1>t DEF seat_add_device, Main
  <2>2. pc.d \in Device /\ pc.d.id = dev_id /\ pc.d.id \in Nat
    BY <1>t, <2>1 DEF Types, Numbered
  <2> DEFINE r == Ack(pc.d, pc.d.id)
  <2>3. r \in Message /\ r.op = "ACK" /\ r.id = pc.d.id
    BY <2>2, Messages DEF Ack
  <2> HIDE DEF r
  <2>4. toC' = Sent(toC, p, r)
    BY <2>1 DEF r
  <2>s. /\ \A e \in Clients : e # p => toC'[e] = toC[e]
        /\ stage[p] = "out" => toC'[p] = toC[p]
        /\ stage[p] # "out" /\ toC[p] = <<>> => toC'[p] = <<r>>
        /\ stage[p] # "out" /\ toC[p] # <<>> => Head(toC'[p]) = Head(toC[p])
    BY <1>t, <2>3, <2>4, SentTo
  <2>5. ASSUME NEW c \in Clients, c # p  PROVE Agree(c)'
    BY <1>t, <2>1, <2>5, <2>s, Untouched DEF session
  <2>6. Listed(p)' = Listed(p) \cup {pc.d.id} /\ Holds(p)' = Holds(p)
    <3>1. Range(devices'[p]) = Range(devices[p]) \cup {pc.d}
      BY <1>t, <2>1, <2>2, Appended
    <3> QED  BY <2>1, <3>1 DEF Listed, Holds, Ids, session
  <2>7. Agree(p)'
    <3>1. Starts(p)'
      BY <2>1, <2>6, <2>s DEF Agree, Starts, session
    <3>2. Runs(p)'
      BY <2>1 DEF Agree, Runs, session
    <3>3. Calls(p)'
      <4>1. CASE Calling(p) /\ ~crossed[p]
        <5>1. /\ Registered(p) /\ toD[p] = <<>> /\ toC[p] = <<>>
              /\ stage[p] = "open" /\ Holds(p) = Listed(p)
              /\ want[p].op = "OPEN_DEVICE"
          BY <2>1, <4>1 DEF Agree, Calls
        <5>2. toC'[p] = <<r>>
          BY <2>s, <5>1
        <5>3. Replied(p)'
          BY <2>1, <2>3, <2>6, <5>1, <5>2 DEF Replied, session
        <5> QED  BY <1>t, <2>1, <5>1, <5>3 DEF Calls, session
      <4>2. CASE ~(Calling(p) /\ ~crossed[p])
        BY <2>1, <4>2 DEF Calls, Calling, session
      <4> QED  BY <4>1, <4>2
    <3> QED  BY <3>1, <3>2, <3>3 DEF Agree
  <2>8. Numbered'
    <3>1. \A c \in Clients : \A id \in Listed(c)' : id < dev_id + 1
      <4>1. ASSUME NEW c \in Clients, c # p  PROVE Listed(c)' = Listed(c)
        BY <1>t, <2>1, <4>1 DEF Listed
      <4>2. \A c \in Clients : Listed(c) \in SUBSET Nat
        <5>1. \A c \in Clients : Range(devices[c]) \in SUBSET Device
          BY <1>t, RangeOfSeq
        <5> QED  BY <5>1 DEF Listed, Ids, Device
      <4>3. \A c \in Clients : \A id \in Listed(c) : id < dev_id + 1
        BY <1>t, <4>2 DEF Numbered
      <4>4. \A id \in Listed(p)' : id < dev_id + 1
        BY <1>t, <2>2, <2>6, <4>3
      <4> QED  BY <4>1, <4>3, <4>4
    <3>2. IdsApart(Append(devices[p], pc.d))
      <4>1. /\ \A i \in DOMAIN devices[p] : devices[p][i].id \in Listed(p)
            /\ \A id \in Listed(p) : id < dev_id
            /\ IdsApart(devices[p])
        BY <2>1 DEF Listed, Ids, Range, Numbered
      <4>2. \A i \in DOMAIN devices[p] : devices[p][i].id # pc.d.id
        BY <1>t, <2>2, <4>1
      <4>3. devices[p] \in Seq(Device)
        BY <1>t, <2>1
      <4> DEFINE n == Len(devices[p])
      <4>4. /\ DOMAIN Append(devices[p], pc.d) = 1..(n + 1) /\ DOMAIN devices[p] = 1..n /\ n \in Nat
            /\ \A i \in 1..n : Append(devices[p], pc.d)[i] = devices[p][i]
            /\ Append(devices[p], pc.d)[n + 1] = pc.d
        BY <2>2, <4>3
      <4> HIDE DEF n
      <4>5. \A i \in 1..(n + 1) : i \in 1..n \/ i = n + 1
        BY <4>4
      <4> QED  BY <4>1, <4>2, <4>4, <4>5 DEF IdsApart
    <3>3. \A c \in Clients : IdsApart(devices'[c])
      BY <1>t, <2>1, <3>2 DEF Numbered
    <3> QED  BY <1>t, <2>1, <3>1, <3>3 DEF Numbered
  <2> QED  BY <2>5, <2>7, <2>8
<1> QED
  BY <1>1, <1>2, <1>3, <1>4 DEF Handler

LEMMA DeviceCallback ==
  ASSUME DeviceInv, NEW c \in Clients, seat_client_callback(c)
  PROVE  Numbered' /\ \A e \in Clients : Agree(e)'
<1> Base /\ Types /\ Places /\ OpenOnce /\ Numbered /\ \A e \in Clients : Agree(e)
  BY DEF DeviceInv, Base
<1> USE DEF Registered, Working, OpensFor
<1>t. /\ toC \in [Clients -> Seq(Message)] /\ toD \in [Clients -> Seq(Message)]
      /\ devices \in [Clients -> Seq(Device)] /\ dev_id \in Nat
      /\ stage \in [Clients -> {"out", "opening", "running", "open", "close"}]
      /\ crossed \in [Clients -> BOOLEAN]
  BY DEF Types
<1>1. pc.at = "loop" /\ daemon = "up" /\ UNCHANGED <<session, crossed>>
  BY Callback DEF Main
<1>2. CASE Down("abort")
  BY <1>1, <1>2, AgreeDown
<1> DEFINE Same == UNCHANGED <<daemon, sig, front, mode, newvt>>
           Read == toD[c] # <<>> /\ toD' = [toD EXCEPT ![c] = <<>>]
           m == Head(toD[c])
<1>3. Holds(c)' = Holds(c)
  BY <1>1 DEF Holds, session
<1>4. ASSUME Read  PROVE m \in Range(toD[c])
  BY <1>4, <1>t DEF Range
<1> HIDE DEF m
(* A session in the middle of a call has sent one request, and one that runs none. *)
<1>5. ASSUME Read
      PROVE  /\ stage[c] = "opening" => m.op = "OPEN_SEAT" /\ ~Registered(c)
             /\ stage[c] = "running" => crossed[c]
             /\ Calling(c) /\ ~crossed[c] =>
                  /\ Registered(c) /\ m = want[c] /\ toC[c] = <<>> /\ Holds(c) = Listed(c)
                  /\ want[c].op = IF stage[c] = "open" THEN "OPEN_DEVICE" ELSE "CLOSE_DEVICE"
  <2>1. stage[c] = "opening" => m.op = "OPEN_SEAT" /\ ~Registered(c)
    BY <1>1, <1>4, <1>5 DEF Agree, Starts, OpenOnce, m
  <2>2. stage[c] = "running" => crossed[c]
    BY <1>1, <1>5 DEF Agree, Runs
  <2>3. Calling(c) /\ ~crossed[c] =>
          /\ Registered(c) /\ m = want[c] /\ toC[c] = <<>> /\ Holds(c) = Listed(c)
          /\ want[c].op = IF stage[c] = "open" THEN "OPEN_DEVICE" ELSE "CLOSE_DEVICE"
    BY <1>1, <1>5 DEF Agree, Calls, m
  <2> QED  BY <2>1, <2>2, <2>3
<1>6. ASSUME NEW e \in Clients, e # c, Same, UNCHANGED clients, toC'[e] = toC[e], toD'[e] = toD[e],
             devices'[e] = devices[e], pc' = pc \/ pc'.c = c
      PROVE  Agree(e)'
  BY <1>1, <1>6, Untouched DEF session
(* An answer at once: the request is done with.                              *)
<1>7. ASSUME NEW r \in Message, Same, Read, r.op \in {"ERROR", "ACK"},
             UNCHANGED <<pc, clients>>, toC' = Sent(toC, c, r),
             \A e \in Clients : e # c => devices'[e] = devices[e],
             Calling(c) /\ ~crossed[c] =>
               \/ r.op = "ERROR" /\ Listed(c)' = Listed(c)
               \/ r.op = "ACK" /\ m.op = "CLOSE_DEVICE" /\ Listed(c)' = Listed(c) \ {m.id}
      PROVE  \A e \in Clients : Agree(e)'
  <2>s. /\ \A e \in Clients : e # c => toC'[e] = toC[e]
        /\ stage[c] = "out" => toC'[c] = toC[c]
        /\ stage[c] # "out" /\ toC[c] = <<>> => toC'[c] = <<r>>
        /\ stage[c] # "out" /\ toC[c] # <<>> => Head(toC'[c]) = Head(toC[c])
    BY <1>t, <1>7, SentTo
  <2>1. ASSUME NEW e \in Clients, e # c  PROVE Agree(e)'
    BY <1>t, <1>6, <1>7, <2>1, <2>s
  <2>2. Starts(c)'
    BY <1>t, <1>1, <1>3, <1>5, <1>7, <2>s DEF Agree, Starts, session
  <2>3. Runs(c)'
    BY <1>1, <1>5, <1>7 DEF Agree, Runs, session
  <2>4. Calls(c)'
    <3>1. CASE Calling(c) /\ ~crossed[c]
      <4>1. toC'[c] = <<r>> /\ toD'[c] = <<>> /\ Holds(c) = Listed(c) /\ m = want[c]
        BY <1>t, <1>5, <1>7, <2>s, <3>1 DEF Calling
      <4>2. m.op = "CLOSE_DEVICE" => stage[c] = "close"
        BY <1>5, <1>7, <3>1 DEF Calling
      <4>3. Replied(c)'
        BY <1>1, <1>3, <1>7, <3>1, <4>1, <4>2 DEF Replied, session
      <4> QED  BY <1>1, <1>5, <1>7, <3>1, <4>1, <4>3 DEF Calls, Calling, session
    <3>2. CASE ~(Calling(c) /\ ~crossed[c])
      BY <1>1, <3>2 DEF Calls, Calling, session
    <3> QED  BY <3>1, <3>2
  <2> QED  BY <2>1, <2>2, <2>3, <2>4 DEF Agree
<1>8. ASSUME Refused(c), Same, Read
      PROVE  Numbered' /\ \A e \in Clients : Agree(e)'
  <2> DEFINE r == Event("ERROR")
  <2>1. r \in Message /\ r.op = "ERROR"
    BY Messages DEF Ops
  <2>2. toC' = Sent(toC, c, r) /\ UNCHANGED <<pc, clients, devices, dev_id>>
    BY <1>8 DEF Refused
  <2> HIDE DEF r
  <2>3. Listed(c)' = Listed(c)
    BY <2>2 DEF Listed
  <2>4. \A e \in Clients : Agree(e)'
    BY <1>7, <1>8, <2>1, <2>2, <2>3
  <2> QED  BY <2>2, <2>4 DEF Numbered, Listed
<1>9. CASE Same /\ Read /\ m.op = "OPEN_SEAT" /\ seat_open_seat(c) /\ ~Refused(c)
  <2>1. /\ pc'.at = "setmode" /\ pc'.c = c
        /\ UNCHANGED <<clients, devices, dev_id, toC>>
    BY <1>9 DEF seat_open_seat, Idle
  <2>2. ~Registered(c)
    BY <1>4, <1>9 DEF OpenOnce
  <2>3. ASSUME NEW e \in Clients, e # c  PROVE Agree(e)'
    BY <1>t, <1>6, <1>9, <2>1, <2>3
  <2>4. Agree(c)'
    <3>1. Starts(c)'
      BY <1>t, <1>1, <1>3, <1>9, <2>1, <2>2 DEF Agree, Starts, session
    <3>2. Runs(c)' /\ Calls(c)'
      BY <1>1, <1>9, <2>1, <2>2 DEF Agree, Runs, Calls, Calling, session
    <3> QED  BY <3>1, <3>2 DEF Agree
  <2> QED  BY <1>1, <2>1, <2>3, <2>4 DEF Numbered, Listed
<1>10. CASE Same /\ Read /\ m.op = "CLOSE_SEAT" /\ seat_close_seat(c, FALSE)
  <2>0. UNCHANGED <<clients, devices, dev_id>>
    BY <1>10 DEF seat_close_seat
  <2>1. CASE Registered(c)
    <3>1. pc'.at = "drop" /\ pc'.c = c /\ UNCHANGED toC
      BY <1>10, <2>1 DEF seat_close_seat, Idle
    <3>2. ASSUME NEW e \in Clients, e # c  PROVE Agree(e)'
      BY <1>t, <1>6, <1>10, <2>0, <3>1, <3>2
    <3>3. Agree(c)'
      <4>1. Starts(c)'
        BY <1>1, <1>3, <1>5, <1>10, <3>1 DEF Agree, Starts, session
      <4>2. Runs(c)' /\ Calls(c)'
        BY <1>1, <1>5, <1>10 DEF Agree, Runs, Calls, Calling, session
      <4> QED  BY <4>1, <4>2 DEF Agree
    <3> QED  BY <1>1, <2>0, <3>1, <3>2, <3>3 DEF Numbered, Listed
  <2>2. CASE ~Registered(c)
    <3> DEFINE r == Event("ERROR")
    <3>1. r \in Message /\ r.op = "ERROR"
      BY Messages DEF Ops
    <3>2. toC' = Sent(toC, c, r) /\ UNCHANGED pc
      BY <1>10, <2>2 DEF seat_close_seat
    <3> HIDE DEF r
    <3>3. \A e \in Clients : Agree(e)'
      BY <1>5, <1>7, <1>10, <2>0, <2>2, <3>1, <3>2
    <3>4. Numbered'
      BY <2>0, <3>2 DEF Numbered, Listed
    <3> QED  BY <3>3, <3>4
  <2> QED  BY <2>1, <2>2
<1>11. CASE Same /\ UNCHANGED toD /\ stage[c] = "out" /\ seat_close_seat(c, TRUE)
  <2>1. /\ UNCHANGED <<clients, devices, dev_id, toC>>
        /\ pc' = pc \/ (pc'.at = "drop" /\ pc'.c = c)
    BY <1>11 DEF seat_close_seat, Sent, Idle
  <2>2. ASSUME NEW e \in Clients, e # c  PROVE Agree(e)'
    BY <1>6, <1>11, <2>1, <2>2
  <2>3. Agree(c)'
    BY <1>1, <1>3, <1>11, <2>1 DEF Agree, Starts, Runs, Calls, Calling, session
  <2> QED  BY <1>1, <2>1, <2>2, <2>3 DEF Numbered, Listed
<1>12. CASE /\ Same /\ Read /\ m.op = "OPEN_DEVICE" /\ seat_open_device(c, m.kind)
            /\ ~Refused(c)
  <2>1. /\ UNCHANGED <<clients, devices, dev_id>>
        /\ \/ pc' = pc /\ toC' = Sent(toC, c, Event("ERROR"))
           \/ /\ pc'.at = "device" /\ pc'.c = c /\ pc'.d.id = dev_id /\ UNCHANGED toC
    <3> DEFINE d == [id |-> dev_id, kind |-> m.kind]
    <3>1. d.id = dev_id
      OBVIOUS
    <3>2. /\ UNCHANGED <<clients, devices, dev_id>>
          /\ \/ pc' = pc /\ toC' = Sent(toC, c, Event("ERROR"))
             \/ pc' = [Idle EXCEPT !.at = "device", !.c = c, !.d = d] /\ UNCHANGED toC
      BY <1>12 DEF seat_open_device
    <3> HIDE DEF d
    <3> QED  BY <3>1, <3>2 DEF Idle
  <2>2. CASE pc' = pc /\ toC' = Sent(toC, c, Event("ERROR"))
    <3> DEFINE r == Event("ERROR")
    <3>1. r \in Message /\ r.op = "ERROR"
      BY Messages DEF Ops
    <3>2. toC' = Sent(toC, c, r)
      BY <2>2
    <3> HIDE DEF r
    <3>3. Listed(c)' = Listed(c)
      BY <2>1 DEF Listed
    <3>4. \A e \in Clients : Agree(e)'
      BY <1>7, <1>12, <2>1, <2>2, <3>1, <3>2, <3>3
    <3>5. Numbered'
      BY <2>1, <2>2 DEF Numbered, Listed
    <3> QED  BY <3>4, <3>5
  <2>3. CASE pc'.at = "device" /\ pc'.c = c /\ pc'.d.id = dev_id /\ UNCHANGED toC
    <3>1. ASSUME NEW e \in Clients, e # c  PROVE Agree(e)'
      BY <1>t, <1>6, <1>12, <2>1, <2>3, <3>1
    <3>2. Starts(c)'
      BY <1>1, <1>3, <1>5, <1>12, <2>3 DEF Agree, Starts, session
    <3>3. Runs(c)'
      BY <1>1, <1>5, <1>12 DEF Agree, Runs, session
    <3>4. Calls(c)'
      <4>1. CASE Calling(c) /\ ~crossed[c]
        <5>1. /\ Registered(c)' /\ toC'[c] = <<>> /\ toD'[c] = <<>> /\ Holds(c) = Listed(c)
              /\ stage[c] = "open" /\ Listed(c)' = Listed(c)
          BY <1>t, <1>5, <1>12, <2>1, <2>3, <4>1 DEF Listed
        <5> QED  BY <1>1, <1>3, <1>5, <1>12, <2>3, <4>1, <5>1 DEF Calls, Calling, session
      <4>2. CASE ~(Calling(c) /\ ~crossed[c])
        BY <1>1, <4>2 DEF Calls, Calling, session
      <4> QED  BY <4>1, <4>2
    <3>5. Numbered'
      BY <2>1, <2>3 DEF Numbered, Listed
    <3> QED  BY <3>1, <3>2, <3>3, <3>4, <3>5 DEF Agree
  <2> QED  BY <2>1, <2>2, <2>3
<1>13. CASE /\ Same /\ Read /\ m.op = "CLOSE_DEVICE" /\ seat_close_device(c, m.id)
            /\ ~Refused(c)
  <2> DEFINE r == Event("ACK")
             rest == Without(devices[c], m.id)
  <2>1. r \in Message /\ r.op = "ACK"
    BY Messages DEF Ops
  <2>2. /\ UNCHANGED <<pc, clients, dev_id>> /\ toC' = Sent(toC, c, r)
        /\ devices' = [devices EXCEPT ![c] = rest]
        /\ \E i \in DOMAIN devices[c] : devices[c][i].id = m.id
    BY <1>13 DEF seat_close_device
  <2>3. /\ IdsApart(rest) /\ Range(rest) \subseteq Range(devices[c])
        /\ Ids(Range(rest)) = Listed(c) \ {m.id}
    <3>1. devices[c] \in Seq(Device) /\ IdsApart(devices[c])
      BY <1>t DEF Numbered
    <3> QED  BY <2>2, <3>1, RemovedDevice DEF Listed
  <2> HIDE DEF r, rest
  <2>4. Listed(c)' = Listed(c) \ {m.id} /\ \A e \in Clients : e # c => devices'[e] = devices[e]
    BY <1>t, <2>2, <2>3 DEF Listed
  <2>5. \A e \in Clients : Agree(e)'
    BY <1>7, <1>13, <2>1, <2>2, <2>4
  <2>6. Numbered'
    <3>1. \A e \in Clients : e # c => Listed(e)' = Listed(e)
      BY <2>4 DEF Listed
    <3> QED  BY <1>t, <1>1, <2>2, <2>3, <2>4, <3>1 DEF Numbered
  <2> QED  BY <2>5, <2>6
<1> QED
  <2>1. \/ Down("abort")
        \/ /\ Same /\ Read
           /\ \/ m.op = "OPEN_SEAT" /\ seat_open_seat(c)
              \/ m.op = "CLOSE_SEAT" /\ seat_close_seat(c, FALSE)
              \/ m.op = "OPEN_DEVICE" /\ seat_open_device(c, m.kind)
              \/ m.op = "CLOSE_DEVICE" /\ seat_close_device(c, m.id)
        \/ Same /\ UNCHANGED toD /\ stage[c] = "out" /\ seat_close_seat(c, TRUE)
    BY Callback DEF m
  <2> QED
    BY <1>2, <1>8, <1>9, <1>10, <1>11, <1>12, <1>13, <2>1

(* A single unread message is what a receive yields.                         *)
LEMMA TakenSingle ==
  ASSUME NEW r \in Message
  PROVE  Taken(<<r>>).op = r.op /\ Taken(<<r>>).id = r.id
BY DEF Taken, Message

LEMMA DeviceSession ==
  ASSUME DeviceInv, NEW c \in Clients, SessionStep(c)
  PROVE  Numbered' /\ \A e \in Clients : Agree(e)'
<1> Base /\ Types /\ Places /\ OpenOnce /\ Numbered /\ \A e \in Clients : Agree(e)
  BY DEF DeviceInv, Base
<1> USE DEF Registered, Working, OpensFor
<1>t. /\ toC \in [Clients -> Seq(Message)] /\ toD \in [Clients -> Seq(Message)]
      /\ stage \in [Clients -> {"out", "opening", "running", "open", "close"}]
      /\ crossed \in [Clients -> BOOLEAN] /\ want \in [Clients -> Message]
      /\ mine \in [Clients -> SUBSET Held]
      /\ daemon \in {"up", "exit", "abort"}
      /\ conn \in [Clients -> {"none", "backlog", "open"}]
  BY DEF Types
<1>s. UNCHANGED <<daemon, seats>>
  BY DEF SessionStep, seat_open, c_session_init, seat_event_cb, seat_dispatch, Leave, Left,
         Call, call_returns, open_device, close_device, c_session_free, crash
<1>n. Numbered'
  BY <1>s DEF Numbered, Listed, seats
<1>l. Listed(c)' = Listed(c) /\ (Registered(c)' <=> Registered(c)) /\ (Working(c)' <=> Working(c))
      /\ (OpensFor(c)' <=> OpensFor(c))
  BY <1>s DEF Listed, seats
<1>o. ASSUME NEW e \in Clients, e # c,
             stage'[e] = stage[e], toC'[e] = toC[e], toD'[e] = toD[e], want'[e] = want[e],
             mine'[e] = mine[e], crossed'[e] = crossed[e]
      PROVE  Agree(e)'
  BY <1>s, <1>o, Untouched DEF seats
<1>1. CASE seat_open(c)
  <2>1. /\ stage[c] = "out" /\ conn[c] = "none" /\ stage' = [stage EXCEPT ![c] = "opening"]
        /\ toD' = [toD EXCEPT ![c] = <<Request("OPEN_SEAT", 0, "none")>>]
        /\ UNCHANGED <<toC, want, mine, crossed>>
    BY <1>1 DEF seat_open
  <2>2. ~Registered(c) /\ ~Working(c)
    BY <2>1 DEF Places
  <2>3. ASSUME NEW e \in Clients, e # c  PROVE Agree(e)'
    BY <1>o, <1>t, <2>1, <2>3
  <2>4. toD'[c] = <<Request("OPEN_SEAT", 0, "none")>> /\ Head(toD'[c]).op = "OPEN_SEAT"
    BY <1>t, <2>1 DEF Request
  <2>5. Holds(c)' = {} /\ stage'[c] = "opening" /\ toC'[c] = <<>>
    BY <1>t, <2>1 DEF Agree, Starts, Holds
  <2>6. Agree(c)'
    BY <1>l, <2>2, <2>4, <2>5 DEF Agree, Starts, Runs, Calls, Calling
  <2> QED  BY <1>n, <2>3, <2>6
<1>2. CASE Leave(c) \/ crash(c)
  <2>1. /\ stage' = [stage EXCEPT ![c] = "out"] /\ toC' = [toC EXCEPT ![c] = <<>>]
        /\ mine' = [mine EXCEPT ![c] = {}] /\ UNCHANGED crossed
        /\ \A e \in Clients : e # c => toD'[e] = toD[e] /\ want'[e] = want[e]
    BY <1>2, <1>t DEF Leave, crash, Left
  <2>2. ASSUME NEW e \in Clients, e # c  PROVE Agree(e)'
    BY <1>o, <1>t, <2>1, <2>2
  <2>3. stage'[c] = "out" /\ toC'[c] = <<>> /\ Holds(c)' = {}
    BY <1>t, <2>1 DEF Holds, Ids
  <2>4. Agree(c)'
    BY <2>3 DEF Agree, Starts, Runs, Calls, Calling
  <2> QED  BY <1>n, <2>2, <2>4
<1>3. CASE seat_dispatch(c) /\ ~Leave(c) /\ stage[c] \in {"opening", "running"}
  <2>1. /\ stage' = [stage EXCEPT ![c] = "running"] /\ UNCHANGED <<toD, want, mine, crossed>>
        /\ \A e \in Clients : e # c => toC'[e] = toC[e]
        /\ daemon = "up" => toC[c] # <<>> /\ Head(toC[c]).op \in {"ENABLE", "DISABLE"}
    <3>1. PICK op \in Received(c) :
             /\ op \in {"ENABLE", "DISABLE"} /\ stage' = [stage EXCEPT ![c] = "running"]
             /\ Consumed(c) /\ UNCHANGED <<toD, want, mine, crossed>>
      BY <1>3 DEF seat_dispatch
    <3>2. \A e \in Clients : e # c => toC'[e] = toC[e]
      BY <1>t, <3>1 DEF Consumed
    <3>3. ASSUME daemon = "up"  PROVE toC[c] # <<>> /\ Head(toC[c]).op \in {"ENABLE", "DISABLE"}
      <4>1. toC[c] # <<>>
        BY <1>3, <3>3 DEF seat_dispatch, Readable
      <4>2. Head(toC[c]) \in Message /\ op = Taken(toC[c]).op
        BY <1>t, <3>1, <4>1 DEF Received
      <4>3. Taken(toC[c]).op = Head(toC[c]).op
        BY <4>2 DEF Taken, Message
      <4> QED  BY <3>1, <4>1, <4>2, <4>3
    <3> QED  BY <3>1, <3>2, <3>3
  <2>2. ASSUME NEW e \in Clients, e # c  PROVE Agree(e)'
    BY <1>o, <1>t, <2>1, <2>2
  <2>3. Holds(c)' = Holds(c) /\ stage'[c] = "running"
    BY <1>t, <2>1 DEF Holds
  <2>4. ASSUME daemon = "up", ~crossed[c]
        PROVE  Registered(c) /\ toD[c] = <<>> /\ ~Working(c) /\ Holds(c) = Listed(c)
    <3>1. CASE stage[c] = "running"
      BY <2>4, <3>1 DEF Agree, Runs
    <3>2. CASE stage[c] = "opening"
      <4>1. Registered(c) /\ Holds(c) = {} /\ Listed(c) = {}
            /\ (Working(c) => OpensFor(c))
            /\ (toD[c] = <<>> \/ Head(toD[c]).op = "OPEN_SEAT")
        BY <2>1, <2>4, <3>2 DEF Agree, Starts
      <4>2. toD[c] # <<>> => Head(toD[c]) \in Range(toD[c])
        BY <1>t DEF Range
      <4>3. toD[c] = <<>>
        BY <4>1, <4>2 DEF OpenOnce
      <4>4. ~Working(c)
        BY <4>1 DEF Places
      <4> QED  BY <4>1, <4>3, <4>4
    <3> QED  BY <1>3, <3>1, <3>2
  <2>5. Agree(c)'
    BY <1>s, <1>l, <2>1, <2>3, <2>4 DEF Agree, Starts, Runs, Calls, Calling
  <2> QED  BY <1>n, <2>2, <2>5
<1>4. ASSUME NEW m \in Message, NEW st \in {"open", "close"}, Call(c, st, m),
             m.op = IF st = "open" THEN "OPEN_DEVICE" ELSE "CLOSE_DEVICE"
      PROVE  Numbered' /\ \A e \in Clients : Agree(e)'
  <2>1. /\ stage[c] = "running" /\ daemon = "up" /\ stage' = [stage EXCEPT ![c] = st]
        /\ want' = [want EXCEPT ![c] = m] /\ toD' = [toD EXCEPT ![c] = Append(@, m)]
        /\ crossed' = [crossed EXCEPT ![c] = @ \/ toC[c] # <<>>]
        /\ UNCHANGED <<toC, mine>>
    BY <1>4 DEF Call
  <2>2. ASSUME NEW e \in Clients, e # c  PROVE Agree(e)'
    BY <1>o, <1>t, <2>1, <2>2
  <2>3. Holds(c)' = Holds(c) /\ stage'[c] = st
    BY <1>t, <2>1 DEF Holds
  <2>4. Calls(c)'
    <3>1. CASE ~crossed'[c]
      <4>1. ~crossed[c] /\ toC[c] = <<>>
        BY <1>t, <2>1, <3>1
      <4>2. Registered(c) /\ toD[c] = <<>> /\ ~Working(c) /\ Holds(c) = Listed(c)
        BY <2>1, <4>1 DEF Agree, Runs
      <4>3. Append(<<>>, m) = <<m>> /\ Head(<<m>>) = m /\ <<m>> # <<>>
        OBVIOUS
      <4>4. toD'[c] # <<>> /\ Head(toD'[c]) = want'[c] /\ want'[c] = m /\ toC'[c] = <<>>
        BY <1>t, <2>1, <4>1, <4>2, <4>3
      <4> QED  BY <1>l, <1>4, <2>3, <4>2, <4>4 DEF Calls
    <3>2. CASE crossed'[c]
      BY <3>2 DEF Calls
    <3> QED  BY <3>1, <3>2
  <2>5. Starts(c)' /\ Runs(c)'
    BY <1>4, <2>3 DEF Starts, Runs
  <2> QED  BY <1>n, <2>2, <2>4, <2>5 DEF Agree
<1>5. ASSUME NEW kind \in Kinds, open_device(c, kind)
      PROVE  Numbered' /\ \A e \in Clients : Agree(e)'
  <2> DEFINE m == Request("OPEN_DEVICE", 0, kind)
  <2>1. m \in Message /\ m.op = "OPEN_DEVICE"
    BY Messages, SessionAssumption DEF Ops, DevKinds
  <2>2. Call(c, "open", m)
    BY <1>5 DEF open_device
  <2> HIDE DEF m
  <2> QED  BY <1>4, <2>1, <2>2
<1>6. ASSUME NEW d \in mine[c], close_device(c, d)
      PROVE  Numbered' /\ \A e \in Clients : Agree(e)'
  <2> DEFINE m == Request("CLOSE_DEVICE", d.id, "event")
  <2>1. d.id \in Nat
    BY <1>t DEF Held
  <2>2. m \in Message /\ m.op = "CLOSE_DEVICE"
    BY <2>1, Messages DEF Ops, DevKinds
  <2>3. Call(c, "close", m)
    BY <1>6 DEF close_device
  <2> HIDE DEF m
  <2> QED  BY <1>4, <2>2, <2>3
<1>7. CASE call_returns(c)
  <2>1. /\ Calling(c) /\ Readable(c) /\ stage' = [stage EXCEPT ![c] = "running"]
        /\ UNCHANGED <<toD, crossed>>
        /\ \A e \in Clients : e # c => /\ toC'[e] = toC[e] /\ want'[e] = want[e]
                                       /\ mine'[e] = mine[e]
    BY <1>7, <1>t DEF call_returns, Consumed
  <2>2. ASSUME NEW e \in Clients, e # c  PROVE Agree(e)'
    BY <1>o, <1>t, <2>1, <2>2
  <2>3. stage'[c] = "running"
    BY <1>t, <2>1
  <2>4. Runs(c)'
    <3>1. CASE daemon = "up" /\ ~crossed[c]
      <4>1. toC[c] # <<>>
        BY <2>1, <3>1 DEF Readable
      <4>2. Registered(c) /\ toD[c] = <<>> /\ ~Working(c) /\ Replied(c)
        BY <2>1, <3>1, <4>1 DEF Agree, Calls
      <4>3. PICK r \in Message :
              /\ toC[c] = <<r>>
              /\ \/ r.op = "ERROR" /\ Holds(c) = Listed(c)
                 \/ r.op = "ACK" /\ stage[c] = "open" /\ Listed(c) = Holds(c) \cup {r.id}
                 \/ r.op = "ACK" /\ stage[c] = "close" /\ Listed(c) = Holds(c) \ {want[c].id}
        BY <4>2 DEF Replied
      <4>4. Answer(c).op = r.op /\ Answer(c).id = r.id
        BY <4>1, <4>3, TakenSingle DEF Answer
      <4> DEFINE new == [id |-> Answer(c).id, fd |-> Answer(c).fd, kind |-> want[c].kind]
      <4>5. mine'[c] = IF Answer(c).op = "ERROR" THEN mine[c]
                       ELSE IF stage[c] = "open" THEN mine[c] \cup {new}
                       ELSE {d \in mine[c] : d.id # want[c].id}
        BY <1>7, <1>t DEF call_returns
      <4>6. new.id = r.id
        BY <4>4
      <4> HIDE DEF new
      <4>7. Holds(c)' = Listed(c)
        BY <4>3, <4>4, <4>5, <4>6 DEF Holds, Ids
      <4> QED  BY <1>l, <2>1, <4>2, <4>7 DEF Runs
    <3>2. CASE ~(daemon = "up" /\ ~crossed[c])
      BY <1>s, <2>1, <3>2 DEF Runs
    <3> QED  BY <3>1, <3>2
  <2>5. Starts(c)' /\ Calls(c)'
    BY <2>3 DEF Starts, Calls, Calling
  <2> QED  BY <1>n, <2>2, <2>4, <2>5 DEF Agree
<1> QED
  BY <1>1, <1>2, <1>3, <1>5, <1>6, <1>7
     DEF SessionStep, c_session_init, seat_event_cb, c_session_free

LEMMA DeviceStep ==
  ASSUME DeviceInv, [Next]_vars
  PROVE  Numbered' /\ \A c \in Clients : Agree(c)'
<1> Base /\ Types /\ Places /\ Numbered /\ \A c \in Clients : Agree(c)
  BY DEF DeviceInv, Base
<1> USE DEF Registered, Working, OpensFor
<1>t. /\ toC \in [Clients -> Seq(Message)] /\ crossed \in [Clients -> BOOLEAN]
      /\ stage \in [Clients -> {"out", "opening", "running", "open", "close"}]
  BY DEF Types
<1>1. ASSUME UNCHANGED <<daemon, seats, toC, toD, session, crossed>>
      PROVE  Numbered' /\ \A c \in Clients : Agree(c)'
  BY <1>1, Untouched DEF Numbered, Listed, seats, session
<1>2. CASE UNCHANGED vars
  BY <1>1, <1>2 DEF vars
<1>3. CASE \E v \in VTs : switch_vt(v)
  BY <1>1, <1>3 DEF switch_vt
<1>4. ASSUME NEW c \in Clients, seat_server_callback(c)
      PROVE  Numbered' /\ \A e \in Clients : Agree(e)'
  BY <1>1, <1>4 DEF seat_server_callback
(* An event for a registered session: what it is waiting for comes behind it. *)
<1>5. ASSUME NEW c \in Clients, Registered(c), UNCHANGED <<daemon, seats, toD, session>>,
             crossed' = [crossed EXCEPT ![c] = @ \/ Calling(c)],
             \A e \in Clients : e # c \/ stage[e] = "out" => toC'[e] = toC[e]
      PROVE  Numbered' /\ \A e \in Clients : Agree(e)'
  <2>1. Numbered'
    BY <1>5 DEF Numbered, Listed, seats
  <2>2. ASSUME NEW e \in Clients, e # c  PROVE Agree(e)'
    BY <1>t, <1>5, <2>2, Untouched DEF seats, session
  <2>3. Listed(c)' = Listed(c) /\ Holds(c)' = Holds(c) /\ (Calling(c)' <=> Calling(c))
    BY <1>5 DEF Listed, Holds, Calling, seats, session
  <2>4. Agree(c)'
    <3>1. Starts(c)'
      BY <1>5, <2>3 DEF Agree, Starts, seats, session
    <3>2. Runs(c)' /\ Calls(c)'
      BY <1>t, <1>5, <2>3 DEF Agree, Runs, Calls, Calling, seats, session
    <3> QED  BY <3>1, <3>2 DEF Agree
  <2> QED  BY <2>1, <2>2, <2>4
<1>6. CASE on_vt_release
  <2>1. UNCHANGED <<daemon, seats, toD, session>>
    BY <1>6 DEF on_vt_release
  <2>2. CASE UNCHANGED <<toC, crossed>>
    BY <1>1, <2>1, <2>2
  <2>3. ASSUME NEW c \in Owners(front), seat_disable(c),
               \/ toC' = Sent(toC, c, Event("DISABLE"))
               \/ toC' = Sent(Sent(toC, c, Event("DISABLE")), c, Event("ERROR"))
        PROVE  Numbered' /\ \A e \in Clients : Agree(e)'
    <3>1. c \in Clients /\ Registered(c)
      BY OwnersAre
    <3>2. \A e \in Clients : e # c \/ stage[e] = "out" => toC'[e] = toC[e]
      BY <1>t, <2>3, <3>1 DEF Sent
    <3> QED  BY <1>5, <2>1, <2>3, <3>1, <3>2 DEF seat_disable
  <2> QED
    BY <1>6, <2>2, <2>3 DEF on_vt_release
<1>7. CASE on_vt_activate
  <2>1. UNCHANGED <<daemon, seats, toD, session>>
    BY <1>7 DEF on_vt_activate
  <2>2. CASE UNCHANGED <<toC, crossed>>
    BY <1>1, <2>1, <2>2
  <2>3. ASSUME NEW c \in Owners(front), seat_enable(c)
        PROVE  Numbered' /\ \A e \in Clients : Agree(e)'
    <3>1. c \in Clients /\ Registered(c)
      BY OwnersAre
    <3>2. \A e \in Clients : e # c \/ stage[e] = "out" => toC'[e] = toC[e]
      BY <1>t, <2>3, <3>1 DEF Sent, seat_enable
    <3> QED  BY <1>5, <2>1, <2>3, <3>1, <3>2 DEF seat_enable
  <2> QED
    BY <1>7, <2>2, <2>3 DEF on_vt_activate
<1>8. CASE cleanup
  BY <1>8, AgreeDown DEF cleanup
<1> QED
  BY <1>2, <1>3, <1>4, <1>6, <1>7, <1>8, DeviceHandlers, DeviceCallback, DeviceSession
     DEF Next, DaemonStep

LEMMA InitDevices == Init => DeviceInv
<1> SUFFICES ASSUME Init  PROVE DeviceInv
  OBVIOUS
<1>1. Base
  BY InitSeat DEF SeatInv
<1>2. Range(<<>>) = {} /\ Ids({}) = {} /\ IdsApart(<<>>) /\ Idle.at = "loop"
  BY DEF Range, Ids, IdsApart, Idle
<1>3. Numbered
  BY <1>2 DEF Init, Numbered, Listed
<1>4. ASSUME NEW c \in Clients  PROVE Agree(c)
  BY <1>2 DEF Init, Agree, Starts, Runs, Calls, Calling, Holds
<1> QED  BY <1>1, <1>3, <1>4 DEF DeviceInv

LEMMA DeviceInvariant == Spec => []DeviceInv
<1>1. DeviceInv /\ [Next]_vars => DeviceInv'
  BY BaseInv, DeviceStep DEF DeviceInv
<1> QED
  BY <1>1, InitDevices, PTL DEF Spec

(* Between calls a session and the daemon list the same devices, if no event   *)
(* came in the way of a reply (session.c:55-81, daemon.c:119-189): whatever is *)
(* asked of the kernel fails, whoever leaves, crashes or asks for a switch.    *)
THEOREM DevicesAgreeCorrect == Spec => []DevicesAgree
<1>1. DeviceInv => DevicesAgree
  <2> SUFFICES ASSUME DeviceInv, NEW c \in Range(clients), Quiet, stage[c] = "running", ~crossed[c]
               PROVE  Ids(mine[c]) = Ids(Range(devices[c]))
    BY DEF DevicesAgree
  <2>1. c \in Clients
    BY RangeOfSeq DEF DeviceInv, Base, Types
  <2> QED
    BY <2>1 DEF DeviceInv, Agree, Runs, Quiet, Holds, Listed
<1> QED
  BY <1>1, DeviceInvariant, PTL

-----------------------------------------------------------------------------
(* Which card a session has, and that it is DRM master.                     *)

Opens(c) == Working(c) /\ pc.at = "device"
Coming(c) == IF Opens(c) /\ pc.d.kind = "card" THEN {pc.d.id} ELSE {}

(* What the session takes a device for is what the daemon has it for.        *)
KindsKnown(c) ==
  /\ \A d \in mine[c], e \in Range(devices[c]) : d.id = e.id => d.kind = e.kind
  /\ stage[c] = "open" /\ Opens(c) => pc.d.kind = want[c].kind
  /\ stage[c] = "open" /\ toC[c] # <<>> /\ Head(toC[c]).op = "ACK" =>
       \A e \in Range(devices[c]) : e.id = Head(toC[c]).id => e.kind = want[c].kind
  /\ toD[c] # <<>> /\ Head(toD[c]).op = "CLOSE_DEVICE" =>
       \A e \in Range(devices[c]) : e.id = Head(toD[c]).id => e.kind = "event"

(* A card is asked for only when the session has none.                       *)
OneCard(c) ==
  /\ \A i, j \in DOMAIN devices[c] :
       devices[c][i].kind = "card" /\ devices[c][j].kind = "card" => i = j
  /\ Coming(c) # {} => CardsOf(c) = {}
  /\ toD[c] # <<>> /\ Head(toD[c]).op \in {"OPEN_DEVICE", "CLOSE_DEVICE"} => ~Working(c)
  /\ toD[c] # <<>> /\ Head(toD[c]).op = "OPEN_DEVICE" /\ Head(toD[c]).kind = "card" =>
       CardsOf(c) = {}
  /\ Registered(c) \/ devices[c] = <<>>

(* Master is nobody or the card, and the card if the session has the seat.   *)
Mastered(c) ==
  /\ master \in {NoFile} \cup CardsOf(c) \cup Coming(c)
  /\ CardsOf(c) \cup Coming(c) \subseteq dfds
  /\ Coming(c) \subseteq {master}
  /\ told[c] => CardsOf(c) \subseteq {master}

CardInv(c) == KindsKnown(c) /\ OneCard(c) /\ Mastered(c)
Plain(c) == daemon = "up" /\ ~crossed[c]
MasterInv == DeviceInv /\ \A c \in Clients : Plain(c) => CardInv(c)

(* The greatest of some positions.                                          *)
LEMMA GreatestIn ==
  ASSUME NEW n \in Nat, NEW S \in SUBSET (1..n), S # {}
  PROVE  Max(S) \in S
<1> DEFINE T == {n - y : y \in S}
<1>0. \A y \in S : y \in 1..n /\ n - y \in Nat
  OBVIOUS
<1>1. T \in SUBSET Nat /\ T # {}
  BY <1>0
<1>2. PICK k \in T : \A j \in T : k <= j
  <2> HIDE DEF T
  <2> QED  BY <1>1, LeastNat
<1>3. PICK x \in S : k = n - x
  BY <1>2
<1>4. ASSUME NEW y \in S  PROVE x >= y
  <2>1. k <= n - y /\ x \in 1..n /\ y \in 1..n
    BY <1>0, <1>2
  <2> QED  BY <1>3, <2>1
<1> QED
  BY <1>4 DEF Max

(* What asking all of them does to the master and the result b.              *)
Asking(b, s) == FoldLeft(Ioctl, b, s)

(* Requests of which at most one is for a card have the effect of that one.  *)
LEMMA OneRequest ==
  ASSUME NEW b, NEW n \in Nat, NEW s, DOMAIN s = 1..n, NEW p \in 0..n,
         \A i \in 1..n : s[i].kind = "card" <=> i = p
  PROVE  Asking(b, s) = IF p = 0 THEN b ELSE Ioctl(b, s[p])
<1> DEFINE M(S) == Max(S)
           value == Ioctl(b, s[p])
           g == [S \in SUBSET (1..n) |-> IF p \in S THEN value ELSE b]
           h == CHOOSE f : f = [S \in SUBSET (1..n) |->
                  IF S = {} THEN b ELSE Ioctl(f[S \ {M(S)}], s[M(S)])]
<1>1. \A S \in SUBSET (1..n) : S # {} => M(S) \in S
  BY GreatestIn
<1>2. Asking(b, s) = h[1..n]
  BY DEF Asking, FoldLeft, MapThenFoldSet
<1>4. \A k \in 1..n : M(1..k) = k
  <2> SUFFICES ASSUME NEW k \in 1..n  PROVE M(1..k) = k
    OBVIOUS
  <2>1. k \in 1..k /\ \A y \in 1..k : k >= y
    OBVIOUS
  <2> QED  BY <2>1 DEF Max
<1> HIDE DEF M
<1>5. \A a, i : s[i].kind # "card" => Ioctl(a, s[i]) = a
  BY DEF Ioctl
<1>6. g = [S \in SUBSET (1..n) |-> IF S = {} THEN b ELSE Ioctl(g[S \ {M(S)}], s[M(S)])]
  <2> SUFFICES ASSUME NEW S \in SUBSET (1..n), S # {}
               PROVE  g[S] = Ioctl(g[S \ {M(S)}], s[M(S)])
    OBVIOUS
  <2>1. M(S) \in S /\ M(S) \in 1..n
    BY <1>1
  <2>2. S \ {M(S)} \in SUBSET (1..n)
    OBVIOUS
  <2>3. CASE M(S) = p
    <3>1. g[S] = value /\ g[S \ {M(S)}] = b
      BY <2>1, <2>2, <2>3
    <3> QED  BY <2>3, <3>1
  <2>4. CASE M(S) # p
    <3>1. g[S \ {M(S)}] = g[S]
      BY <2>1, <2>2, <2>4
    <3>2. s[M(S)].kind # "card"
      BY <2>1, <2>4
    <3> QED  BY <1>5, <3>1, <3>2
  <2> QED  BY <2>3, <2>4
<1> DEFINE R(f) == [S \in SUBSET (1..n) |->
                      IF S = {} THEN b ELSE Ioctl(f[S \ {M(S)}], s[M(S)])]
<1>7. h = R(h)
  <2> HIDE DEF g
  <2> QED  BY <1>6
<1> HIDE DEF h, g, value
<1>8. h[{}] = b /\ \A k \in 1..n : h[1..k] = Ioctl(h[1..(k - 1)], s[k])
  <2>1. h[{}] = b
    BY <1>7
  <2>2. ASSUME NEW k \in 1..n  PROVE h[1..k] = Ioctl(h[1..(k - 1)], s[k])
    <3>1. (1..k) \ {k} = 1..(k - 1) /\ 1..k # {} /\ 1..k \in SUBSET (1..n)
      OBVIOUS
    <3>2. h[1..k] = Ioctl(h[(1..k) \ {M(1..k)}], s[M(1..k)])
      BY <1>7, <3>1
    <3> QED  BY <1>4, <3>1, <3>2
  <2> QED  BY <2>1, <2>2
<1> DEFINE T == {k \in 0..n : h[1..k] # IF p # 0 /\ p <= k THEN value ELSE b}
<1>9. T = {}
  <2> SUFFICES ASSUME T # {}  PROVE FALSE
    OBVIOUS
  <2>1. T \in SUBSET Nat
    OBVIOUS
  <2>2. PICK k \in T : \A j \in T : k <= j
    <3> HIDE DEF T
    <3> QED  BY <2>1, LeastNat
  <2>3. k \in 0..n /\ h[1..k] # IF p # 0 /\ p <= k THEN value ELSE b
    BY <2>2
  <2>4. k # 0
    <3>1. 1..0 = {}
      OBVIOUS
    <3> QED  BY <1>8, <2>3, <3>1
  <2>5. h[1..(k - 1)] = IF p # 0 /\ p <= k - 1 THEN value ELSE b
    <3>1. k - 1 \in 0..n /\ k - 1 \notin T
      BY <2>2, <2>3, <2>4
    <3> QED  BY <3>1
  <2>6. h[1..k] = Ioctl(h[1..(k - 1)], s[k]) /\ k \in 1..n
    BY <1>8, <2>3, <2>4
  <2>7. CASE k = p
    BY <2>3, <2>5, <2>6, <2>7 DEF value
  <2>8. CASE k # p
    <3>1. h[1..k] = h[1..(k - 1)]
      BY <1>5, <2>6, <2>8
    <3> QED  BY <2>3, <2>5, <2>6, <2>8, <3>1
  <2> QED  BY <2>7, <2>8
<1>10. h[1..n] = IF p # 0 /\ p <= n THEN value ELSE b
  BY <1>9
<1> QED
  BY <1>2, <1>10 DEF value

(* The requests of one session are those of the list of sessions.           *)
LEMMA OneList ==
  ASSUME NEW s
  PROVE  FlattenSeq(<<s>>) = s
<1> DEFINE h == CHOOSE f :
             f = [i \in 1..1 |-> IF i = 1 THEN <<s>>[i] ELSE f[i-1] \o <<s>>[i]]
<1>1. [i \in 1..1 |-> s]
        = [i \in 1..1 |-> IF i = 1 THEN <<s>>[i] ELSE [j \in 1..1 |-> s][i-1] \o <<s>>[i]]
  OBVIOUS
<1>2. h = [i \in 1..1 |-> IF i = 1 THEN <<s>>[i] ELSE h[i-1] \o <<s>>[i]]
  BY <1>1
<1>3. h[1] = s
  BY <1>2
<1>4. Len(<<s>>) = 1
  OBVIOUS
<1>5. FlattenSeq(<<s>>) = h[1]
  BY <1>4 DEF FlattenSeq
<1> QED
  BY <1>3, <1>5

(* Asked for its own terminal, the card of the only session becomes master.   *)
LEMMA Activated ==
  ASSUME NEW u, Clients = {u}, Types, Places, Registered(u), OneCard(u), NEW v, NEW m
  PROVE  /\ CardsOf(u) = {} => drm_activate_master(v, m) = [master |-> m, ok |-> TRUE]
         /\ vt[u] = v /\ CardsOf(u) # {} /\ m \in {NoFile} \cup CardsOf(u) =>
              /\ drm_activate_master(v, m).ok
              /\ CardsOf(u) = {drm_activate_master(v, m).master}
<1>1. clients = <<u>>
  <2>1. clients \in Seq({u}) /\ IsInjective(clients) /\ u \in Range(clients)
    BY DEF Types, Places, Registered
  <2>2. DOMAIN clients = 1..Len(clients) /\ Len(clients) \in Nat
        /\ \A i \in 1..Len(clients) : clients[i] = u
    BY <2>1
  <2>3. \A i, j \in 1..Len(clients) : i = j
    BY <2>1, <2>2 DEF IsInjective
  <2>4. Len(clients) = 1
    <3>1. Len(clients) # 0
      BY <2>1, <2>2 DEF Range
    <3>2. ~(Len(clients) >= 2)
      <4>1. Len(clients) >= 2 => 1 \in 1..Len(clients) /\ 2 \in 1..Len(clients)
        BY <2>2
      <4> QED  BY <2>3, <4>1
    <3> QED  BY <2>2, <3>1, <3>2
  <2> QED  BY <2>1, <2>2, <2>4
<1> DEFINE s == DeviceRequests(u, vt[u] = v)
           n == Len(devices[u])
           b == [master |-> m, ok |-> TRUE]
<1>2. DrmRequests(v) = s
  <2>1. [i \in DOMAIN clients |-> DeviceRequests(clients[i], vt[clients[i]] = v)] = <<s>>
    BY <1>1
  <2> HIDE DEF s
  <2> QED  BY <2>1, OneList DEF DrmRequests
<1>3. n \in Nat /\ DOMAIN s = 1..n /\ DOMAIN devices[u] = 1..n
      /\ \A i \in 1..n : s[i] = [id |-> devices[u][i].id, kind |-> devices[u][i].kind,
                                 set |-> vt[u] = v]
  BY DEF Types, DeviceRequests
<1>4. drm_activate_master(v, m) = Asking(b, s)
  BY <1>2 DEF drm_activate_master, Asking
<1>5. CardsOf(u) = {devices[u][i].id : i \in {j \in 1..n : devices[u][j].kind = "card"}}
  BY <1>3 DEF CardsOf, Ids, Range
<1> HIDE DEF s, n, b
<1>6. CASE \A i \in 1..n : devices[u][i].kind # "card"
  <2>1. \A i \in 1..n : s[i].kind = "card" <=> i = 0
    BY <1>3, <1>6
  <2>2. Asking(b, s) = b
    BY <1>3, <2>1, OneRequest
  <2>3. CardsOf(u) = {}
    BY <1>5, <1>6
  <2> QED  BY <1>4, <2>2, <2>3 DEF b
<1>7. ASSUME NEW p \in 1..n, devices[u][p].kind = "card"
      PROVE  /\ CardsOf(u) # {}
             /\ vt[u] = v /\ m \in {NoFile} \cup CardsOf(u) =>
                  /\ drm_activate_master(v, m).ok
                  /\ CardsOf(u) = {drm_activate_master(v, m).master}
  <2>1. \A i \in 1..n : devices[u][i].kind = "card" <=> i = p
    BY <1>3, <1>7 DEF OneCard
  <2>2. \A i \in 1..n : s[i].kind = "card" <=> i = p
    BY <1>3, <2>1
  <2>3. Asking(b, s) = Ioctl(b, s[p])
    <3>1. p \in 0..n /\ p # 0
      BY <1>3
    <3> QED  BY <1>3, <2>2, <3>1, OneRequest
  <2>4. CardsOf(u) = {devices[u][p].id}
    BY <1>5, <2>1
  <2>5. s[p].kind = "card" /\ s[p].id = devices[u][p].id /\ s[p].set = (vt[u] = v)
    BY <1>3, <2>2
  <2>6. ASSUME vt[u] = v, m \in {NoFile} \cup CardsOf(u)
        PROVE  Ioctl(b, s[p]).ok /\ Ioctl(b, s[p]).master = s[p].id
    BY <2>4, <2>5, <2>6 DEF Ioctl, b
  <2> QED  BY <1>4, <2>3, <2>4, <2>5, <2>6
<1> QED
  BY <1>6, <1>7

(* Closing a file leaves a master that the daemon still has open.            *)
LEMMA KeptFile ==
  ASSUME NEW m, NEW d, NEW q, NEW t, m = NoFile \/ m \in d
  PROVE  Kept(m, d, q, t) = m
BY DEF Kept

(* A step that lists no other device and asks for none.                      *)
LEMMA CardUntouched ==
  ASSUME NEW c, CardInv(c), UNCHANGED <<devices[c], master, dfds, mine[c]>>,
         told'[c] => told[c],
         Opens(c)' => Opens(c) /\ UNCHANGED pc, Opens(c) => Opens(c)',
         Working(c)' => Working(c) \/ toD'[c] = <<>>,
         Registered(c) => Registered(c)',
         stage'[c] = "open" => UNCHANGED <<stage[c], want[c]>>,
         \/ toC'[c] = <<>> \/ UNCHANGED toC[c]
         \/ stage'[c] # "open"
         \/ toC[c] # <<>> /\ Head(toC'[c]) = Head(toC[c])
         \/ toC'[c] # <<>> /\ Head(toC'[c]).op # "ACK",
         \/ toD'[c] = <<>> \/ UNCHANGED toD[c]
         \/ toD[c] # <<>> /\ Head(toD'[c]) = Head(toD[c])
         \/ toD'[c] # <<>> /\ Head(toD'[c]).op \notin {"OPEN_DEVICE", "CLOSE_DEVICE"}
  PROVE  CardInv(c)'
<1>1. CardsOf(c)' = CardsOf(c) /\ Coming(c)' = Coming(c)
  BY DEF CardsOf, Coming
<1>2. KindsKnown(c)'
  BY DEF CardInv, KindsKnown
<1>3. OneCard(c)'
  BY <1>1 DEF CardInv, OneCard
<1>4. Mastered(c)'
  BY <1>1 DEF CardInv, Mastered
<1> QED
  BY <1>2, <1>3, <1>4 DEF CardInv

(* Each step keeps a session that no event has crossed at one card, and master. *)
LEMMA CardHandlers ==
  ASSUME NEW u, Clients = {u}, MasterInv, Handler, Plain(u)'
  PROVE  CardInv(u)'
<1> Base /\ Types /\ Places /\ Numbered /\ Agree(u)
  BY DEF MasterInv, DeviceInv, Base
<1>t. /\ toC \in [Clients -> Seq(Message)] /\ toD \in [Clients -> Seq(Message)]
      /\ devices \in [Clients -> Seq(Device)] /\ clients \in Seq(Clients)
      /\ stage \in [Clients -> {"out", "opening", "running", "open", "close"}]
      /\ told \in [Clients -> BOOLEAN] /\ vt \in [Clients -> VTs \cup {NoVT}]
      /\ conn \in [Clients -> {"none", "backlog", "open"}]
      /\ crossed \in [Clients -> BOOLEAN]
      /\ pc \in Place
      /\ pc.at # "loop" => pc.c = u
      /\ pc.at = "device" => pc.d \in Device
      /\ Idle.at = "loop" /\ dev_id \in Nat /\ u \in Clients
  BY DEF Types, Idle
<1>p. Plain(u)
  <2>1. daemon' = daemon /\ (crossed[u] => crossed'[u])
    BY <1>t DEF Handler, vt_disable, seat_register, seat_forget, seat_add_device, seat_enable
  <2> QED  BY <2>1 DEF Plain
<1>c. CardInv(u) /\ KindsKnown(u) /\ OneCard(u) /\ Mastered(u)
  BY <1>p DEF MasterInv, CardInv
<1> USE DEF Working, Opens, Registered
<1>s. UNCHANGED <<stage, want, mine>> /\ daemon = "up" /\ pc.at # "loop" /\ pc.c = u
  <2>1. UNCHANGED session /\ daemon = "up" /\ pc.at # "loop"
    BY DEF Handler, vt_disable, seat_register, seat_forget, seat_add_device, Main
  <2> QED  BY <1>t, <2>1 DEF session
<1>1. CASE vt_disable
  <2>1. UNCHANGED <<devices, master, dfds, told, toD, clients>>
    BY <1>1 DEF vt_disable
  <2>2. pc.at = "setmode" /\ pc'.at \in {"push", "loop"}
    <3>1. pc.at = "setmode" /\ (pc' = [pc EXCEPT !.at = "push"] \/ pc' = Idle)
      BY <1>1 DEF vt_disable, Main
    <3>2. [pc EXCEPT !.at = "push"].at = "push"
      BY <1>t DEF Place
    <3> QED  BY <1>t, <3>1, <3>2
  <2>3. \/ UNCHANGED toC[u]
        \/ toC[u] # <<>> /\ Head(toC'[u]) = Head(toC[u])
        \/ toC'[u] # <<>> /\ Head(toC'[u]).op # "ACK"
    <3>1. toC' = toC \/ toC' = Sent(toC, u, Event("ERROR"))
      BY <1>1, <1>s DEF vt_disable
    <3>2. Event("ERROR") \in Message /\ Event("ERROR").op = "ERROR"
      BY Messages DEF Ops
    <3>3. CASE toC' = Sent(toC, u, Event("ERROR")) /\ toC[u] = <<>> /\ stage[u] # "out"
      <4>1. toC'[u] = <<Event("ERROR")>>
        BY <1>t, <3>2, <3>3, SentTo
      <4> QED  BY <3>2, <4>1
    <3>4. CASE toC' = Sent(toC, u, Event("ERROR")) /\ (toC[u] # <<>> \/ stage[u] = "out")
      BY <1>t, <3>2, <3>4, SentTo
    <3> QED  BY <3>1, <3>3, <3>4
  <2> QED  BY <1>c, <1>s, <2>1, <2>2, <2>3, CardUntouched
<1>2. CASE seat_register
  <2>1. /\ devices'[u] = <<>> /\ UNCHANGED <<master, dfds, toD>> /\ pc' = Idle
        /\ u \in Range(clients') /\ pc.at = "push" /\ toC' = Sent(toC, u, Event("ENABLE"))
    BY <1>2, <1>s, <1>t, Appended DEF seat_register, Main, seat_enable
  <2>2. ~Registered(u) /\ devices[u] = <<>>
    BY <1>c, <1>s, <2>1 DEF Places, OneCard
  <2>3. CardsOf(u) = {} /\ CardsOf(u)' = {} /\ Coming(u) = {} /\ Coming(u)' = {}
    BY <1>t, <2>1, <2>2 DEF CardsOf, Coming, Ids, Range
  <2>4. KindsKnown(u)'
    BY <1>t, <2>1 DEF KindsKnown, Range
  <2>5. OneCard(u)'
    BY <1>c, <1>t, <2>1, <2>3 DEF OneCard
  <2>6. Mastered(u)'
    BY <1>c, <2>1, <2>3 DEF Mastered
  <2> QED  BY <2>4, <2>5, <2>6 DEF CardInv
<1>3. CASE seat_forget
  <2>1. /\ devices'[u] = <<>> /\ UNCHANGED <<dfds, toD, toC>> /\ pc' = Idle
        /\ pc.at = "drop" /\ master' = Dropped(master, u)
    BY <1>3, <1>s, <1>t DEF seat_forget, Main
  <2>2. CardsOf(u)' = {} /\ Coming(u) = {} /\ Coming(u)' = {}
    BY <1>t, <2>1 DEF CardsOf, Coming, Ids, Range
  <2>3. master' = NoFile
    BY <1>c, <2>1, <2>2 DEF Mastered, Dropped
  <2>4. KindsKnown(u)'
    BY <1>t, <2>1 DEF KindsKnown, Range
  <2>5. OneCard(u)'
    BY <1>c, <1>t, <2>1, <2>2 DEF OneCard
  <2>6. Mastered(u)'
    BY <1>c, <2>2, <2>3 DEF Mastered
  <2> QED  BY <2>4, <2>5, <2>6 DEF CardInv
<1>4. CASE seat_add_device
  <2>1. /\ devices'[u] = Append(devices[u], pc.d) /\ UNCHANGED <<dfds, toD, told, master, clients>>
        /\ toC' = Sent(toC, u, Ack(pc.d, pc.d.id)) /\ pc' = Idle /\ pc.at = "device"
    BY <1>4, <1>s, <1>t DEF seat_add_device, Main
  <2>2. /\ pc.d \in Device /\ devices[u] \in Seq(Device) /\ pc.d.id = dev_id
        /\ \A e \in Range(devices[u]) : e.id # dev_id
    <3>1. \A id \in Listed(u) : id < dev_id
      BY <1>t DEF Numbered
    <3>2. \A e \in Range(devices[u]) : e.id \in Listed(u)
      BY DEF Listed, Ids
    <3>3. \A e \in Range(devices[u]) : e.id \in Nat
      <4>1. \A i \in DOMAIN devices[u] : devices[u][i] \in Device
        BY <1>t
      <4> QED  BY <4>1 DEF Range, Device
    <3> QED  BY <1>t, <2>1, <3>1, <3>2, <3>3 DEF Numbered
  <2>3. Range(devices'[u]) = Range(devices[u]) \cup {pc.d}
    BY <2>1, <2>2, Appended
  <2>4. CardsOf(u)' = CardsOf(u) \cup Coming(u) /\ Coming(u)' = {}
    BY <1>s, <1>t, <2>1, <2>3 DEF CardsOf, Coming, Ids
  <2>5. Mastered(u)'
    BY <1>c, <2>1, <2>4 DEF Mastered
  <2>6. OneCard(u)'
    <3>1. /\ DOMAIN devices[u] = 1..Len(devices[u]) /\ Len(devices[u]) \in Nat
          /\ DOMAIN devices'[u] = 1..(Len(devices[u]) + 1)
          /\ \A i \in 1..Len(devices[u]) : devices'[u][i] = devices[u][i]
          /\ devices'[u][Len(devices[u]) + 1] = pc.d
      BY <2>1, <2>2
    <3>2. pc.d.kind = "card" => \A i \in DOMAIN devices[u] : devices[u][i].kind # "card"
      BY <1>c, <1>s, <2>1 DEF OneCard, Coming, CardsOf, Ids, Range
    <3>3. \A i, j \in DOMAIN devices'[u] :
            devices'[u][i].kind = "card" /\ devices'[u][j].kind = "card" => i = j
      <4>1. \A i \in DOMAIN devices'[u] : i # Len(devices[u]) + 1 => i \in 1..Len(devices[u])
        BY <3>1
      <4> QED  BY <1>c, <3>1, <3>2, <4>1 DEF OneCard
    <3>4. Registered(u)'
      BY <1>s, <2>1 DEF Places
    <3> QED  BY <1>c, <1>s, <2>1, <2>4, <3>3, <3>4 DEF OneCard
  <2>7. KindsKnown(u)'
    <3>1. pc.d.id \notin Holds(u)
      <4>1. stage[u] \in {"out", "opening"} => Holds(u) = {}
        BY DEF Agree, Starts
      <4>2. stage[u] # "running"
        BY <1>p, <1>s DEF Agree, Runs, Plain
      <4>3. stage[u] \in {"open", "close"} => Holds(u) = Listed(u)
        BY <1>p, <1>s DEF Agree, Calls, Plain, Calling
      <4>4. pc.d.id \notin Listed(u)
        BY <2>2 DEF Listed, Ids
      <4> QED  BY <1>t, <4>1, <4>2, <4>3, <4>4
    <3>2. \A d \in mine[u], e \in Range(devices'[u]) : d.id = e.id => d.kind = e.kind
      BY <1>c, <2>3, <3>1 DEF KindsKnown, Holds, Ids
    <3>3. stage[u] = "open" => /\ toC[u] = <<>> /\ toC'[u] = <<Ack(pc.d, pc.d.id)>>
                               /\ pc.d.kind = want[u].kind
      <4>1. stage[u] = "open" => toC[u] = <<>>
        BY <1>p, <1>s DEF Agree, Calls, Plain, Calling
      <4>2. Ack(pc.d, pc.d.id) \in Message
        BY <2>2, Messages DEF Device
      <4> QED  BY <1>c, <1>s, <1>t, <2>1, <4>1, <4>2, SentTo DEF KindsKnown
    <3>4. stage[u] = "open" =>
            \A e \in Range(devices'[u]) : e.id = Head(toC'[u]).id => e.kind = want[u].kind
      <4>1. Ack(pc.d, pc.d.id).id = pc.d.id
        BY DEF Ack
      <4> QED  BY <2>2, <2>3, <3>3, <4>1
    <3>5. toD[u] # <<>> => Head(toD[u]).op # "CLOSE_DEVICE"
      BY <1>c, <1>s, <2>1 DEF OneCard
    <3> QED  BY <1>c, <1>s, <1>t, <2>1, <2>3, <3>2, <3>4, <3>5 DEF KindsKnown
  <2> QED  BY <2>5, <2>6, <2>7 DEF CardInv
<1> QED
  BY <1>1, <1>2, <1>3, <1>4 DEF Handler

LEMMA CardCallback ==
  ASSUME NEW u, Clients = {u}, MasterInv, seat_client_callback(u), Plain(u)'
  PROVE  CardInv(u)'
<1> Base /\ Types /\ Places /\ Numbered /\ Agree(u) /\ u \in Clients
  BY DEF MasterInv, DeviceInv, Base
<1>t. /\ toC \in [Clients -> Seq(Message)] /\ toD \in [Clients -> Seq(Message)]
      /\ devices \in [Clients -> Seq(Device)] /\ dev_id \in Nat
      /\ stage \in [Clients -> {"out", "opening", "running", "open", "close"}]
  BY DEF Types
<1>1. pc.at = "loop" /\ daemon = "up" /\ UNCHANGED <<stage, want, mine, crossed>>
  BY Callback DEF Main, session
<1>c. Plain(u) /\ CardInv(u) /\ KindsKnown(u) /\ OneCard(u) /\ Mastered(u)
  BY <1>1 DEF MasterInv, CardInv, Plain
<1> USE DEF Working, Opens, Registered
<1>n. Coming(u) = {}
  BY <1>1 DEF Coming
<1> DEFINE m == Head(toD[u])
<1> HIDE DEF m
(* The session is told of a failure, or is not, and nothing is asked.         *)
<1>2. ASSUME UNCHANGED <<clients, devices, dfds, master, told>>, toD'[u] = <<>>,
             toC' = toC \/ toC' = Sent(toC, u, Event("ERROR")),
             pc' = pc \/ pc'.at \in {"setmode", "drop"}
      PROVE  CardInv(u)'
  <2>1. Event("ERROR") \in Message /\ Event("ERROR").op = "ERROR"
    BY Messages DEF Ops
  <2>2. \/ UNCHANGED toC[u]
        \/ toC[u] # <<>> /\ Head(toC'[u]) = Head(toC[u])
        \/ toC'[u] # <<>> /\ Head(toC'[u]).op # "ACK"
    <3>1. CASE toC' = Sent(toC, u, Event("ERROR")) /\ toC[u] = <<>> /\ stage[u] # "out"
      <4>1. toC'[u] = <<Event("ERROR")>>
        BY <1>t, <2>1, <3>1, SentTo
      <4> QED  BY <2>1, <4>1
    <3>2. CASE toC' = Sent(toC, u, Event("ERROR")) /\ (toC[u] # <<>> \/ stage[u] = "out")
      BY <1>t, <2>1, <3>2, SentTo
    <3> QED  BY <1>2, <3>1, <3>2
  <2> QED  BY <1>1, <1>2, <1>c, <2>2, CardUntouched
<1>3. ASSUME toD'[u] = <<>>, Refused(u)  PROVE CardInv(u)'
  BY <1>2, <1>3 DEF Refused
<1>4. ASSUME toD'[u] = <<>>, seat_open_seat(u)  PROVE CardInv(u)'
  BY <1>2, <1>3, <1>4 DEF seat_open_seat, Idle
<1>5. ASSUME toD'[u] = <<>>, NEW eof, seat_close_seat(u, eof)  PROVE CardInv(u)'
  BY <1>2, <1>5 DEF seat_close_seat, Idle
<1>6. ASSUME toD'[u] = <<>>, toD[u] # <<>>, m.op = "OPEN_DEVICE", seat_open_device(u, m.kind),
             ~Refused(u)
      PROVE  CardInv(u)'
  <2> DEFINE file == dev_id
             opened == IF m.kind = "card" /\ master = NoFile THEN file ELSE master
             act == drm_activate_master(vt[u], opened)
  <2>1. /\ Registered(u) /\ UNCHANGED <<clients, vt, devices, told>>
        /\ \/ /\ act.ok /\ master' = act.master
              /\ dfds' = IF m.kind = "card" THEN dfds \cup {file} ELSE dfds
              /\ pc' = [Idle EXCEPT !.at = "device", !.c = u, !.d = [id |-> file, kind |-> m.kind]]
              /\ UNCHANGED toC
           \/ ~act.ok
           \/ toC' = Sent(toC, u, Event("ERROR")) /\ UNCHANGED <<dfds, pc, master>>
    BY <1>6 DEF seat_open_device
  <2>2. m.kind = "card" => CardsOf(u) = {} /\ master = NoFile /\ opened = file
    BY <1>c, <1>n, <1>6 DEF OneCard, Mastered, m
  <2>3. opened \in {NoFile} \cup CardsOf(u) \/ CardsOf(u) = {}
    BY <1>c, <1>n, <2>2 DEF Mastered
  <2>4. /\ CardsOf(u) = {} => act = [master |-> opened, ok |-> TRUE]
        /\ CardsOf(u) # {} => act.ok /\ CardsOf(u) = {act.master}
    <3> HIDE DEF opened
    <3>1. /\ CardsOf(u) = {} =>
               drm_activate_master(vt[u], opened) = [master |-> opened, ok |-> TRUE]
          /\ vt[u] = vt[u] /\ CardsOf(u) # {} /\ opened \in {NoFile} \cup CardsOf(u) =>
               /\ drm_activate_master(vt[u], opened).ok
               /\ CardsOf(u) = {drm_activate_master(vt[u], opened).master}
      BY <1>c, <2>1, Activated
    <3> QED  BY <2>3, <3>1
  <2>5. act.ok
    BY <2>4
  <2>6. ASSUME master' = act.master, UNCHANGED toC,
               dfds' = IF m.kind = "card" THEN dfds \cup {file} ELSE dfds,
               pc' = [Idle EXCEPT !.at = "device", !.c = u, !.d = [id |-> file, kind |-> m.kind]]
        PROVE  CardInv(u)'
    <3>1. pc'.at = "device" /\ pc'.c = u /\ pc'.d = [id |-> file, kind |-> m.kind]
      BY <2>6 DEF Idle
    <3>2. CardsOf(u)' = CardsOf(u) /\ Coming(u)' = IF m.kind = "card" THEN {file} ELSE {}
      BY <2>1, <3>1 DEF CardsOf, Coming
    <3>3. KindsKnown(u)'
      <4>1. stage[u] = "open" => m.kind = want[u].kind
        BY <1>1, <1>c, <1>6 DEF Agree, Calls, Plain, Calling, m
      <4> QED  BY <1>1, <1>c, <1>6, <2>1, <2>6, <3>1, <4>1 DEF KindsKnown
    <3>4. OneCard(u)'
      BY <1>c, <1>6, <2>1, <2>2, <3>2 DEF OneCard
    <3>5. Mastered(u)'
      <4>1. CASE m.kind = "card"
        BY <1>c, <2>1, <2>2, <2>4, <2>6, <3>2, <4>1 DEF Mastered
      <4>2. CASE m.kind # "card"
        BY <1>c, <1>n, <2>1, <2>4, <2>6, <3>2, <4>2 DEF Mastered
      <4> QED  BY <4>1, <4>2
    <3> QED  BY <3>3, <3>4, <3>5 DEF CardInv
  <2> HIDE DEF act
  <2> QED  BY <1>2, <1>6, <2>1, <2>5, <2>6
<1>7. ASSUME toD'[u] = <<>>, toD[u] # <<>>, m.op = "CLOSE_DEVICE", seat_close_device(u, m.id),
             ~Refused(u)
      PROVE  CardInv(u)'
  <2> DEFINE rest == Without(devices[u], m.id)
  <2>1. /\ UNCHANGED <<pc, clients, told>> /\ toC' = Sent(toC, u, Event("ACK"))
        /\ devices'[u] = rest /\ dfds' = dfds \ {m.id}
        /\ master' = Kept(master, dfds', toC, theirs)
        /\ \E i \in DOMAIN devices[u] : devices[u][i].id = m.id
        /\ Registered(u)
    <3>1. /\ Registered(u) /\ \E i \in DOMAIN devices[u] : devices[u][i].id = m.id
          /\ devices' = [devices EXCEPT ![u] = rest]
          /\ dfds' = dfds \ {m.id} /\ toC' = Sent(toC, u, Event("ACK"))
          /\ master' = Kept(master, dfds', toC, theirs) /\ UNCHANGED <<pc, clients, told>>
      <4>1. Registered(u) /\ \E i \in DOMAIN devices[u] : devices[u][i].id = m.id
        BY <1>7 DEF seat_close_device
      <4>2. dfds' = dfds \ {m.id} /\ devices' = [devices EXCEPT ![u] = rest]
        BY <1>7 DEF seat_close_device
      <4>3. toC' = Sent(toC, u, Event("ACK")) /\ UNCHANGED <<pc, clients, told>>
        BY <1>7 DEF seat_close_device
      <4>4. master' = Kept(master, dfds', toC, theirs)
        BY <1>7 DEF seat_close_device
      <4> QED  BY <4>1, <4>2, <4>3, <4>4
    <3> HIDE DEF rest
    <3>2. devices'[u] = rest
      BY <1>t, <3>1
    <3> QED  BY <3>1, <3>2
  <2>2. devices[u] \in Seq(Device) /\ IdsApart(devices[u])
    BY <1>t DEF Numbered
  <2>3. /\ IdsApart(rest) /\ Range(rest) \subseteq Range(devices[u])
        /\ Ids(Range(rest)) = Listed(u) \ {m.id}
    BY <2>1, <2>2, RemovedDevice DEF Listed
  <2> HIDE DEF rest
  <2>4. \A d, e \in Range(devices[u]) : d.id = e.id => d = e
    BY <2>2 DEF IdsApart, Range
  <2>5. \A e \in Range(devices[u]) : e.id = m.id => e.kind = "event"
    BY <1>c, <1>7 DEF KindsKnown, m
  <2>6. CardsOf(u)' = CardsOf(u) /\ m.id \notin CardsOf(u)
    <3>1. ASSUME NEW d \in Range(devices[u]), d.kind = "card"  PROVE d \in Range(rest)
      <4>1. d.id \in Ids(Range(rest))
        BY <2>3, <2>5, <3>1 DEF Listed, Ids
      <4> QED  BY <2>3, <2>4, <4>1 DEF Ids
    <3> QED  BY <2>1, <2>3, <2>5, <3>1 DEF CardsOf, Ids
  <2>7. Coming(u)' = {}
    BY <1>n, <2>1 DEF Coming
  <2>8. master' = master
    BY <1>c, <1>n, <2>1, <2>6, KeptFile DEF Mastered
  <2>9. KindsKnown(u)'
    <3>1. stage[u] # "open"
      BY <1>1, <1>c, <1>7 DEF Agree, Calls, Plain, Calling, m
    <3> QED  BY <1>1, <1>c, <1>7, <2>1, <2>3, <3>1 DEF KindsKnown
  <2>10. OneCard(u)'
    <3>1. ASSUME NEW i \in DOMAIN rest, NEW j \in DOMAIN rest,
                 rest[i].kind = "card", rest[j].kind = "card"
          PROVE  i = j
      <4>1. rest[i] \in Range(devices[u]) /\ rest[j] \in Range(devices[u])
        BY <2>3, <3>1 DEF Range
      <4>2. rest[i] = rest[j]
        BY <1>c, <3>1, <4>1 DEF OneCard, Range
      <4> QED  BY <2>3, <4>2 DEF IdsApart
    <3> QED  BY <1>7, <2>1, <2>7, <3>1 DEF OneCard
  <2>11. Mastered(u)'
    <3>1. CardsOf(u) \subseteq dfds' /\ told'[u] = told[u]
      BY <1>c, <2>1, <2>6 DEF Mastered
    <3> QED  BY <1>c, <1>n, <2>6, <2>7, <2>8, <3>1 DEF Mastered
  <2> QED  BY <2>9, <2>10, <2>11 DEF CardInv
<1> QED
  <2>1. ~Down("abort")
    BY DEF Down, Plain
  <2>2. \/ /\ toD[u] # <<>> /\ toD'[u] = <<>>
           /\ \/ m.op = "OPEN_SEAT" /\ seat_open_seat(u)
              \/ m.op = "CLOSE_SEAT" /\ seat_close_seat(u, FALSE)
              \/ m.op = "OPEN_DEVICE" /\ seat_open_device(u, m.kind)
              \/ m.op = "CLOSE_DEVICE" /\ seat_close_device(u, m.id)
        \/ toD'[u] = <<>> /\ seat_close_seat(u, TRUE)
    BY <1>t, <2>1, Callback DEF m
  <2> QED
    BY <1>3, <1>4, <1>5, <1>6, <1>7, <2>2

LEMMA CardSession ==
  ASSUME NEW u, Clients = {u}, MasterInv, SessionStep(u), Plain(u)'
  PROVE  CardInv(u)'
<1> Base /\ Types /\ Places /\ Numbered /\ Agree(u) /\ u \in Clients
  BY DEF MasterInv, DeviceInv, Base
<1>t. /\ toC \in [Clients -> Seq(Message)] /\ toD \in [Clients -> Seq(Message)]
      /\ devices \in [Clients -> Seq(Device)] /\ want \in [Clients -> Message]
      /\ stage \in [Clients -> {"out", "opening", "running", "open", "close"}]
      /\ crossed \in [Clients -> BOOLEAN] /\ mine \in [Clients -> SUBSET Held]
  BY DEF Types
<1>s. UNCHANGED <<daemon, seats, told>>
  BY DEF SessionStep, seat_open, c_session_init, seat_event_cb, seat_dispatch, Leave, Left,
         Call, call_returns, open_device, close_device, c_session_free, crash
<1>1. UNCHANGED <<daemon, pc, clients, devices, dfds, told>>
  BY <1>s DEF seats
<1>2. crossed[u] => crossed'[u]
  BY <1>t DEF SessionStep, seat_open, c_session_init, seat_event_cb, seat_dispatch, Leave, Left,
         Call, call_returns, open_device, close_device, c_session_free, crash
<1>c. Plain(u) /\ CardInv(u) /\ KindsKnown(u) /\ OneCard(u) /\ Mastered(u)
  BY <1>1, <1>2 DEF MasterInv, CardInv, Plain
<1> USE DEF Working, Opens, Registered
<1>3. \A q, t : Kept(master, dfds, q, t) = master
  <2>1. master = NoFile \/ master \in dfds
    BY <1>c DEF Mastered
  <2> QED  BY <2>1, KeptFile
(* The session starts, reads an event or ends.                               *)
<1>4. CASE seat_open(u)
  <2>1. toD'[u] = <<Request("OPEN_SEAT", 0, "none")>> /\ stage'[u] # "open"
        /\ UNCHANGED <<master, toC, want, mine>>
    BY <1>4, <1>t DEF seat_open
  <2>2. toD'[u] # <<>> /\ Head(toD'[u]).op = "OPEN_SEAT"
    BY <2>1 DEF Request
  <2> QED  BY <1>1, <1>c, <2>1, <2>2, CardUntouched
<1>5. ASSUME NEW said \in {<<>>, <<Request("CLOSE_SEAT", 0, "none")>>}, Left(u, said)
      PROVE  CardInv(u)'
  <2>1. /\ stage'[u] = "out" /\ toC'[u] = <<>> /\ mine'[u] = {} /\ master' = master
        /\ toD'[u] = <<>> \/ toD'[u] = toD[u] \o said
    BY <1>3, <1>5, <1>t DEF Left
  <2>2. \/ toD'[u] = <<>> \/ UNCHANGED toD[u]
        \/ toD[u] # <<>> /\ Head(toD'[u]) = Head(toD[u])
        \/ toD'[u] # <<>> /\ Head(toD'[u]).op = "CLOSE_SEAT"
    <3>1. toD[u] \in Seq(Message)
      BY <1>t
    <3>2. Request("CLOSE_SEAT", 0, "none") \in Message
          /\ Request("CLOSE_SEAT", 0, "none").op = "CLOSE_SEAT"
      BY Messages DEF Ops, DevKinds
    <3>3. CASE said = <<>>
      BY <2>1, <3>1, <3>3
    <3>4. CASE said = <<Request("CLOSE_SEAT", 0, "none")>>
      <4>1. toD[u] \o said = Append(toD[u], Request("CLOSE_SEAT", 0, "none"))
        BY <3>1, <3>2, <3>4
      <4>2. toD[u] = <<>> => Append(toD[u], Request("CLOSE_SEAT", 0, "none"))
                               = <<Request("CLOSE_SEAT", 0, "none")>>
        OBVIOUS
      <4>3. toD[u] # <<>> => Head(Append(toD[u], Request("CLOSE_SEAT", 0, "none"))) = Head(toD[u])
        BY <3>1, <3>2, Appended
      <4> QED  BY <2>1, <3>2, <4>1, <4>2, <4>3
    <3> QED  BY <3>3, <3>4
  <2>3. KindsKnown(u)'
    BY <1>1, <1>c, <2>1, <2>2 DEF KindsKnown
  <2>4. CardsOf(u)' = CardsOf(u) /\ Coming(u)' = Coming(u)
    BY <1>1 DEF CardsOf, Coming
  <2>5. OneCard(u)'
    BY <1>1, <1>c, <2>2, <2>4 DEF OneCard
  <2>6. Mastered(u)'
    BY <1>1, <1>c, <2>1, <2>4 DEF Mastered
  <2> QED  BY <2>3, <2>5, <2>6 DEF CardInv
<1>6. CASE Leave(u) \/ crash(u)
  BY <1>5, <1>6 DEF Leave, crash
<1>7. CASE seat_dispatch(u) /\ ~Leave(u)
  <2>1. stage'[u] = "running" /\ UNCHANGED <<toD, want, mine>> /\ master' = master
    BY <1>3, <1>7, <1>t DEF seat_dispatch
  <2> QED  BY <1>1, <1>c, <2>1, CardUntouched
(* A call starts: nothing of the session is under way.                       *)
<1>8. ASSUME NEW m \in Message, NEW st \in {"open", "close"}, Call(u, st, m),
             m.op = IF st = "open" THEN "OPEN_DEVICE" ELSE "CLOSE_DEVICE",
             m.op = "OPEN_DEVICE" /\ m.kind = "card" => \A d \in mine[u] : d.kind # "card",
             m.op = "CLOSE_DEVICE" => \E d \in mine[u] : d.id = m.id /\ d.kind = "event"
      PROVE  CardInv(u)'
  <2>1. /\ stage[u] = "running" /\ stage'[u] = st /\ want'[u] = m
        /\ toD' = [toD EXCEPT ![u] = Append(@, m)]
        /\ crossed'[u] = (crossed[u] \/ toC[u] # <<>>)
        /\ UNCHANGED <<toC, mine, master>>
    BY <1>8, <1>t DEF Call
  <2>2. toC[u] = <<>> /\ toD[u] = <<>> /\ ~Working(u) /\ Holds(u) = Listed(u) /\ Registered(u)
    BY <1>c, <2>1 DEF Agree, Runs, Plain
  <2>3. toD'[u] = <<m>> /\ Head(toD'[u]) = m
    <3>1. Append(<<>>, m) = <<m>> /\ Head(<<m>>) = m
      OBVIOUS
    <3> QED  BY <1>t, <2>1, <2>2, <3>1
  <2>4. \A e \in Range(devices[u]) : \E d \in mine[u] : d.id = e.id /\ d.kind = e.kind
    <3>1. \A e \in Range(devices[u]) : \E d \in mine[u] : d.id = e.id
      BY <2>2 DEF Holds, Listed, Ids
    <3> QED  BY <1>c, <3>1 DEF KindsKnown
  <2>5. m.op = "OPEN_DEVICE" /\ m.kind = "card" => CardsOf(u) = {}
    BY <1>8, <2>4 DEF CardsOf, Ids
  <2>6. m.op = "CLOSE_DEVICE" => \A e \in Range(devices[u]) : e.id = m.id => e.kind = "event"
    BY <1>8, <1>c DEF KindsKnown
  <2>7. CardsOf(u)' = CardsOf(u) /\ Coming(u)' = Coming(u) /\ Coming(u) = {}
    BY <1>1, <2>2 DEF CardsOf, Coming
  <2>8. KindsKnown(u)'
    BY <1>1, <1>c, <2>1, <2>2, <2>3, <2>6 DEF KindsKnown
  <2>9. OneCard(u)'
    BY <1>1, <1>c, <2>2, <2>3, <2>5, <2>7 DEF OneCard
  <2>10. Mastered(u)'
    BY <1>1, <1>c, <2>1, <2>7 DEF Mastered
  <2> QED  BY <2>8, <2>9, <2>10 DEF CardInv
<1>9. ASSUME NEW kind \in Kinds, open_device(u, kind)  PROVE CardInv(u)'
  <2> DEFINE m == Request("OPEN_DEVICE", 0, kind)
  <2>1. m \in Message /\ m.op = "OPEN_DEVICE" /\ m.kind = kind
    BY Messages, SessionAssumption DEF Ops, DevKinds, Request
  <2>2. Call(u, "open", m) /\ (kind = "card" => \A d \in mine[u] : d.kind # "card")
    BY <1>9 DEF open_device
  <2> HIDE DEF m
  <2> QED  BY <1>8, <2>1, <2>2
<1>10. ASSUME NEW d \in mine[u], close_device(u, d)  PROVE CardInv(u)'
  <2> DEFINE m == Request("CLOSE_DEVICE", d.id, "event")
  <2>1. d.id \in Nat
    BY <1>t DEF Held
  <2>2. m \in Message /\ m.op = "CLOSE_DEVICE" /\ m.id = d.id
    BY <2>1, Messages DEF Ops, DevKinds, Request
  <2>3. Call(u, "close", m) /\ d.kind = "event"
    BY <1>10 DEF close_device
  <2> HIDE DEF m
  <2> QED  BY <1>8, <2>2, <2>3
<1>11. CASE call_returns(u)
  <2>1. /\ Calling(u) /\ Readable(u) /\ stage'[u] = "running"
        /\ UNCHANGED toD /\ master' = master
    BY <1>3, <1>11, <1>t DEF call_returns
  <2>2. toC[u] # <<>> /\ ~Working(u) /\ Replied(u)
    BY <1>c, <2>1 DEF Agree, Calls, Plain, Readable
  <2>3. PICK r \in Message :
          /\ toC[u] = <<r>>
          /\ \/ r.op = "ERROR" /\ Holds(u) = Listed(u)
             \/ r.op = "ACK" /\ stage[u] = "open" /\ Listed(u) = Holds(u) \cup {r.id}
             \/ r.op = "ACK" /\ stage[u] = "close" /\ Listed(u) = Holds(u) \ {want[u].id}
    BY <2>2 DEF Replied
  <2>4. Answer(u).op = r.op /\ Answer(u).id = r.id
    BY <2>2, <2>3, TakenSingle DEF Answer
  <2> DEFINE new == [id |-> Answer(u).id, fd |-> Answer(u).fd, kind |-> want[u].kind]
  <2>5. mine'[u] = IF Answer(u).op = "ERROR" THEN mine[u]
                   ELSE IF stage[u] = "open" THEN mine[u] \cup {new}
                   ELSE {d \in mine[u] : d.id # want[u].id}
    BY <1>11, <1>t DEF call_returns
  <2>6. new.id = r.id /\ new.kind = want[u].kind
    BY <2>4
  <2> HIDE DEF new
  <2>7. stage[u] = "open" /\ r.op = "ACK" =>
          \A e \in Range(devices[u]) : e.id = new.id => e.kind = new.kind
    <3>1. Head(toC[u]) = r
      BY <2>3
    <3> QED  BY <1>c, <2>2, <2>6, <3>1 DEF KindsKnown
  <2>8. \A d \in mine'[u], e \in Range(devices[u]) : d.id = e.id => d.kind = e.kind
    <3>1. \A d \in mine'[u] : d \in mine[u] \/ (d = new /\ stage[u] = "open" /\ r.op = "ACK")
      BY <2>3, <2>4, <2>5
    <3> QED  BY <1>c, <2>7, <3>1 DEF KindsKnown
  <2>9. KindsKnown(u)'
    BY <1>1, <1>c, <2>1, <2>8 DEF KindsKnown
  <2>10. CardsOf(u)' = CardsOf(u) /\ Coming(u)' = Coming(u)
    BY <1>1 DEF CardsOf, Coming
  <2>11. OneCard(u)' /\ Mastered(u)'
    BY <1>1, <1>c, <2>1, <2>10 DEF OneCard, Mastered
  <2> QED  BY <2>9, <2>11 DEF CardInv
<1> QED
  BY <1>4, <1>6, <1>7, <1>9, <1>10, <1>11
     DEF SessionStep, c_session_init, seat_event_cb, c_session_free

LEMMA CardStep ==
  ASSUME NEW u, Clients = {u}, MasterInv, [Next]_vars, Plain(u)'
  PROVE  CardInv(u)'
<1> Base /\ Types /\ Places /\ Agree(u) /\ u \in Clients
  BY DEF MasterInv, DeviceInv, Base
<1>t. /\ toC \in [Clients -> Seq(Message)] /\ crossed \in [Clients -> BOOLEAN]
      /\ stage \in [Clients -> {"out", "opening", "running", "open", "close"}]
      /\ told \in [Clients -> BOOLEAN]
  BY DEF Types
<1> USE DEF Working, Opens, Registered
<1>1. ASSUME UNCHANGED <<daemon, seats, toC, toD, session, crossed, told, master>>
      PROVE  CardInv(u)'
  <2>1. Plain(u) /\ CardInv(u)
    BY <1>1 DEF Plain, MasterInv
  <2>2. UNCHANGED <<pc, clients, devices, dfds, stage, want, mine>>
    BY <1>1 DEF seats, session
  <2> QED  BY <1>1, <2>1, <2>2, CardUntouched
<1>2. CASE UNCHANGED vars
  BY <1>1, <1>2 DEF vars
<1>3. CASE \E v \in VTs : switch_vt(v)
  BY <1>1, <1>3 DEF switch_vt
<1>4. CASE seat_server_callback(u)
  BY <1>1, <1>4 DEF seat_server_callback
(* An event that comes in the way of no reply.                               *)
<1>5. ASSUME UNCHANGED <<daemon, seats, toD, session>>,
             crossed' = [crossed EXCEPT ![u] = @ \/ Calling(u)]
      PROVE  /\ Plain(u) /\ CardInv(u) /\ stage[u] # "open"
             /\ UNCHANGED <<pc, clients, devices, dfds, vt, stage, want, mine>>
  <2>1. Plain(u) /\ ~Calling(u)
    BY <1>5, <1>t DEF Plain
  <2> QED  BY <1>5, <2>1 DEF MasterInv, Calling, seats, session
<1>6. CASE on_vt_release
  <2>1. UNCHANGED <<daemon, seats, toD, session, master>>
    BY <1>6 DEF on_vt_release
  <2>2. CASE UNCHANGED <<toC, crossed, told>>
    BY <1>1, <2>1, <2>2
  <2>3. ASSUME NEW c \in Owners(front), seat_disable(c)  PROVE CardInv(u)'
    <3>1. c = u
      BY OwnersAre
    <3>2. told'[u] = FALSE /\ crossed' = [crossed EXCEPT ![u] = @ \/ Calling(u)]
      BY <1>t, <2>3, <3>1 DEF seat_disable
    <3> QED  BY <1>5, <2>1, <3>2, CardUntouched
  <2> QED
    BY <1>6, <2>2, <2>3 DEF on_vt_release
<1>7. CASE on_vt_activate
  <2>1. UNCHANGED <<daemon, seats, toD, session>>
    BY <1>7 DEF on_vt_activate
  <2>2. CASE UNCHANGED <<toC, crossed, told, master>>
    BY <1>1, <2>1, <2>2
  <2>3. ASSUME NEW c \in Owners(front), seat_enable(c),
               master' = drm_activate_master(front, master).master
        PROVE  CardInv(u)'
    <3>1. c = u /\ vt[u] = front /\ Registered(u)
      BY <2>3, OwnersAre DEF Owners
    <3>2. crossed' = [crossed EXCEPT ![u] = @ \/ Calling(u)]
      BY <2>3, <3>1 DEF seat_enable
    <3>3. /\ Plain(u) /\ CardInv(u) /\ KindsKnown(u) /\ OneCard(u) /\ Mastered(u)
          /\ stage[u] # "open"
          /\ UNCHANGED <<pc, clients, devices, dfds, vt, stage, want, mine>>
      BY <1>5, <2>1, <3>2 DEF CardInv
    <3>4. CardsOf(u)' = CardsOf(u) /\ Coming(u)' = Coming(u)
      BY <3>3 DEF CardsOf, Coming
    <3>5. /\ CardsOf(u) = {} =>
               drm_activate_master(front, master) = [master |-> master, ok |-> TRUE]
          /\ CardsOf(u) # {} /\ master \in {NoFile} \cup CardsOf(u) =>
               CardsOf(u) = {drm_activate_master(front, master).master}
      BY <3>1, <3>3, Activated
    <3>6. /\ CardsOf(u) = {} => master' = master
          /\ CardsOf(u) # {} => CardsOf(u) = {master'} /\ Coming(u) = {}
      BY <2>3, <3>3, <3>5 DEF Mastered, OneCard
    <3>7. Mastered(u)'
      BY <3>3, <3>4, <3>6 DEF Mastered
    <3>8. KindsKnown(u)'
      BY <2>1, <3>3 DEF KindsKnown
    <3>9. OneCard(u)'
      BY <2>1, <3>3, <3>4 DEF OneCard
    <3> QED  BY <3>7, <3>8, <3>9 DEF CardInv
  <2> QED
    BY <1>7, <2>2, <2>3 DEF on_vt_activate
<1>8. ~cleanup
  BY DEF cleanup, Down, Plain
<1> QED
  BY <1>2, <1>3, <1>4, <1>6, <1>7, <1>8, CardHandlers, CardCallback, CardSession
     DEF Next, DaemonStep

(* The session that is told it has the seat has DRM master with its card      *)
(* (daemon.c:97-109, 292-294), if it is the only one: for any terminals and    *)
(* devices, through switches at any moment, failures and restarts.           *)
THEOREM MasterKeptCorrect ==
  ASSUME NEW u, Clients = {u}
  PROVE  Spec => []MasterKept
<1>1. Init => MasterInv
  <2> SUFFICES ASSUME Init  PROVE CardInv(u)
    BY InitDevices DEF MasterInv
  <2>1. Range(<<>>) = {} /\ Idle.at = "loop" /\ <<>> \in Seq({})
    BY DEF Range, Idle
  <2>2. CardsOf(u) = {} /\ Coming(u) = {} /\ devices[u] = <<>> /\ mine[u] = {}
        /\ toD[u] = <<>> /\ toC[u] = <<>> /\ ~told[u] /\ stage[u] = "out" /\ master = NoFile
    BY <2>1 DEF Init, CardsOf, Coming, Ids, Opens, Working
  <2> QED
    BY <2>1, <2>2 DEF CardInv, KindsKnown, OneCard, Mastered
<1>2. MasterInv /\ [Next]_vars => MasterInv'
  <2> SUFFICES ASSUME MasterInv, [Next]_vars, Plain(u)'  PROVE CardInv(u)'
    BY BaseInv, DeviceStep DEF MasterInv, DeviceInv
  <2> QED  BY CardStep
<1>3. MasterInv => MasterKept
  <2> SUFFICES ASSUME MasterInv, NEW c \in Range(clients), told[c], CardsOf(c) # {}, ~crossed[c]
               PROVE  master \in CardsOf(c)
    BY DEF MasterKept
  <2>1. c \in Clients /\ daemon = "up"
    <3>1. Types /\ Places
      BY DEF MasterInv, DeviceInv, Base
    <3>2. Range(<<>>) = {}
      BY DEF Range
    <3> QED  BY <3>1, <3>2, RangeOfSeq DEF Types, Places
  <2> QED  BY <2>1 DEF MasterInv, Plain, CardInv, Mastered
<1> QED
  BY <1>1, <1>2, <1>3, PTL DEF Spec
=============================================================================
