-------------------------------- MODULE Session --------------------------------
(***************************************************************************)
(* The seat: the daemon diazepam, the sessions that use it, the streams     *)
(* between them, and the kernel's virtual terminals and DRM master.         *)
(*                                                                          *)
(* The daemon is one thread.  Its two signal handlers run between any two   *)
(* of its steps, so the handlers of requests that a signal can disturb are  *)
(* cut where that matters (pc) and every other handler is one action.  A    *)
(* session blocks in a call from its request to the first message that      *)
(* comes back, whatever that message is.                                    *)
(***************************************************************************)
EXTENDS Integers, Sequences, FiniteSets, SequencesExt

CONSTANTS
  Clients,      \* processes that may run a session
  DeviceUsers,  \* those that open devices
  Kinds,        \* of devices: the card, input devices
  VTs,          \* virtual terminals
  NoVT,
  MAX_DEVICES,  \* daemon.c:18
  MaxId,        \* bound on the devices ever opened
  MaxQueue,     \* bound on the unread messages of a session when a switch is asked for
  Eager,        \* a switch may be requested before the daemon is done
  Faults        \* opening a file or taking a VT over may fail, the daemon may be ended

ASSUME SessionAssumption ==
  /\ DeviceUsers \subseteq Clients
  /\ Kinds \subseteq {"card", "event"}
  /\ VTs # {} /\ NoVT \notin VTs
  /\ {MAX_DEVICES, MaxId, MaxQueue} \subseteq Nat
  /\ {Eager, Faults} \subseteq BOOLEAN

VARIABLES
  daemon,   \* "up", or how it ended: "exit", "abort"
  pc,       \* where the daemon is, with the client and the VT it works on
  clients,  \* serv.clients, in list order
  vt,       \* seat_client.vt
  devices,  \* seat_client.devices
  dev_id,   \* __dev_id
  dfds,     \* card files the daemon has open
  front, mode, newvt, sig,  \* kernel: VT shown, VT modes, VT asked for, pending signals
  master,   \* kernel: the file that is DRM master
  conn, toD, toC,           \* a session's socket and the unread messages
  stage,    \* where a session is
  want,     \* the argument of the call it is in
  mine,     \* c_session.devices
  theirs,   \* card files the session's process has open
  told,     \* history: the daemon's last event was ENABLE
  crossed   \* history: an event was, or came, in the way of a reply

kernel == <<front, mode, newvt, sig>>
seats == <<pc, clients, vt, devices, dev_id, dfds>>
session == <<stage, want, mine, theirs>>
vars == <<daemon, seats, kernel, master, conn, toD, toC, session, told, crossed>>

NoFile == 0
Leaked == -1    \* a file the daemon opened, did not register and never closes

Event(op) == [op |-> op, id |-> 0, fd |-> NoFile, kind |-> "none"]
Ack(d, fd) == [op |-> "ACK", id |-> d.id, fd |-> fd, kind |-> d.kind]
Request(op, id, kind) == [op |-> op, id |-> id, fd |-> NoFile, kind |-> kind]
Idle == [at |-> "loop", c |-> <<>>, vt |-> NoVT, eof |-> FALSE, d |-> <<>>]

Init ==
  /\ daemon = "up" /\ pc = Idle /\ clients = <<>> /\ dev_id = 1 /\ dfds = {}
  /\ vt = [c \in Clients |-> NoVT]
  /\ devices = [c \in Clients |-> <<>>]
  /\ front = (CHOOSE v \in VTs : TRUE) /\ newvt = NoVT /\ sig = {}
  /\ mode = [v \in VTs |-> "auto"]
  /\ master = NoFile
  /\ conn = [c \in Clients |-> "none"]
  /\ toD = [c \in Clients |-> <<>>] /\ toC = [c \in Clients |-> <<>>]
  /\ stage = [c \in Clients |-> "out"]
  /\ want = [c \in Clients |-> Event("none")]
  /\ mine = [c \in Clients |-> {}] /\ theirs = [c \in Clients |-> {}]
  /\ told = [c \in Clients |-> FALSE] /\ crossed = [c \in Clients |-> FALSE]

-----------------------------------------------------------------------------
(* The kernel. *)

\* A file that is DRM master stops being it when the last descriptor goes.
Kept(m, d, q, t) ==
  IF \/ m \in d \cup {Leaked}
     \/ \E c \in Clients : m \in t[c] \/ \E i \in DOMAIN q[c] : q[c][i].fd = m
  THEN m ELSE NoFile

\* What is no card is passed over, and nothing is asked after a failure.
\* SET_MASTER fails when another file is master, DROP_MASTER when this is not.
Ioctl(s, r) ==
  IF ~s.ok \/ r.kind # "card" THEN s
  ELSE IF r.set
       THEN IF s.master \in {NoFile, r.id} THEN [s EXCEPT !.master = r.id]
                                           ELSE [s EXCEPT !.ok = FALSE]
       ELSE IF s.master = r.id THEN [s EXCEPT !.master = NoFile]
                               ELSE [s EXCEPT !.ok = FALSE]

\* VT_RELDISP lets the switch that was asked for happen; the VT that comes
\* to the front tells its process.  Fails when no switch was asked for.
Shown(v, base) ==
  /\ front' = v
  /\ newvt' = NoVT
  /\ sig' = IF mode[v] = "process" THEN base \cup {"USR2"} ELSE base

\* Somebody asks for another VT (chvt; the keyboard is off).
switch_vt(v) ==
  /\ v # front
  /\ \A c \in Clients : Len(toC[c]) + Len(toD[c]) <= MaxQueue
  /\ Eager \/ (newvt = NoVT /\ sig = {} /\ pc.at \in {"loop", "device"})
  /\ \/ /\ mode[front] = "auto" \/ daemon # "up"
        /\ Shown(v, sig)
     \/ /\ mode[front] = "process" /\ daemon = "up"
        /\ newvt' = v
        /\ sig' = sig \cup {"USR1"}
        /\ UNCHANGED front
  /\ UNCHANGED <<daemon, seats, mode, master, conn, toD, toC, session, told, crossed>>

-----------------------------------------------------------------------------
(* The daemon. *)

Registered(c) == c \in Range(clients)
Owners(v) == {c \in Range(clients) : vt[c] = v}
Calling(c) == stage[c] \in {"open", "close"}

\* seat_send: the message is queued unless the peer is gone.
Sent(q, c, m) == IF stage[c] = "out" THEN q ELSE [q EXCEPT ![c] = Append(@, m)]

seat_enable(c) ==
  /\ toC' = Sent(toC, c, Event("ENABLE"))
  /\ told' = [told EXCEPT ![c] = TRUE]
  /\ crossed' = [crossed EXCEPT ![c] = @ \/ Calling(c)]

\* Mutant: the session is not told.
SilentRelease(c) == UNCHANGED <<told, crossed>>

seat_disable(c) ==
  /\ told' = [told EXCEPT ![c] = FALSE]
  /\ crossed' = [crossed EXCEPT ![c] = @ \/ Calling(c)]

Ids(S) == {d.id : d \in S}
CardsOf(c) == Ids({d \in Range(devices[c]) : d.kind = "card"})

\* What drm_activate_master asks of each device, in list order.
DeviceRequests(c, set) ==
  [j \in DOMAIN devices[c] |->
    [id |-> devices[c][j].id, kind |-> devices[c][j].kind, set |-> set]]
\* Mutant: the requests the wrong way round.
SwappedRequests(v) ==
  FlattenSeq([i \in DOMAIN clients |-> DeviceRequests(clients[i], vt[clients[i]] # v)])

DrmRequests(v) ==
  FlattenSeq([i \in DOMAIN clients |-> DeviceRequests(clients[i], vt[clients[i]] = v)])
drm_activate_master(v, m) ==
  FoldLeft(Ioctl, [master |-> m, ok |-> TRUE], DrmRequests(v))

\* What the main loop does waits while a signal is pending.
Main(at) == daemon = "up" /\ sig = {} /\ pc.at = at

\* Mutant: an early return that forgets the answer.
RefusedSilently(c) ==
  UNCHANGED <<toC, pc, clients, vt, devices, dev_id, dfds, master, told, conn>>

Refused(c) ==
  /\ toC' = Sent(toC, c, Event("ERROR"))
  /\ UNCHANGED <<pc, clients, vt, devices, dev_id, dfds, master, told, conn>>

seat_server_callback(c) ==
  /\ Main("loop")
  /\ conn[c] = "backlog"
  /\ conn' = [conn EXCEPT ![c] = "open"]
  /\ UNCHANGED <<daemon, seats, kernel, master, toD, toC, session, told, crossed>>

\* Mutant: no look for a client that has the VT.
UncheckedSeat(c) ==
  /\ pc' = [Idle EXCEPT !.at = "setmode", !.c = c, !.vt = front]
  /\ UNCHANGED <<clients, vt, devices, dev_id, dfds, master, told, conn, toC>>

\* seat_open_seat reads the VT and looks for a client that has it ...
seat_open_seat(c) ==
  IF Owners(front) # {} THEN Refused(c)
  ELSE /\ pc' = [Idle EXCEPT !.at = "setmode", !.c = c, !.vt = front]
       /\ UNCHANGED <<clients, vt, devices, dev_id, dfds, master, told, conn, toC>>

\* ... takes the VT over, which can fail halfway ...
vt_disable ==
  /\ Main("setmode")
  /\ mode' = [mode EXCEPT ![pc.vt] = "process"]
  /\ newvt' = IF pc.vt = front THEN NoVT ELSE newvt
  /\ \/ /\ pc' = [pc EXCEPT !.at = "push"]
        /\ UNCHANGED toC
     \/ /\ Faults
        /\ pc' = Idle
        /\ toC' = Sent(toC, pc.c, Event("ERROR"))
  /\ UNCHANGED <<daemon, clients, vt, devices, dev_id, dfds, front, sig, master, conn, toD,
                 session, told, crossed>>

\* ... and registers and enables the client.
seat_register ==
  /\ Main("push")
  /\ clients' = Append(clients, pc.c)
  /\ vt' = [vt EXCEPT ![pc.c] = pc.vt]
  /\ devices' = [devices EXCEPT ![pc.c] = <<>>]
  /\ seat_enable(pc.c)
  /\ pc' = Idle
  /\ UNCHANGED <<daemon, dev_id, dfds, kernel, master, conn, toD, session>>

\* seat_close_seat gives the console back ...
seat_close_seat(c, eof) ==
  IF Registered(c)
  THEN /\ pc' = [Idle EXCEPT !.at = "drop", !.c = c, !.eof = eof]
       /\ UNCHANGED <<clients, vt, devices, dev_id, dfds, master, told, conn, toC>>
  ELSE /\ toC' = Sent(toC, c, Event("ERROR"))
       /\ conn' = IF eof THEN [conn EXCEPT ![c] = "none"] ELSE conn
       /\ UNCHANGED <<pc, clients, vt, devices, dev_id, dfds, master, told>>

\* ... then drops master and forgets the client; the card files stay open.
Dropped(m, c) == IF m \in CardsOf(c) THEN NoFile ELSE m
Remaining(c) == RemoveFirst(clients, c)
seat_forget ==
  /\ Main("drop")
  /\ master' = Dropped(master, pc.c)
  /\ clients' = Remaining(pc.c)
  /\ vt' = [vt EXCEPT ![pc.c] = NoVT]
  /\ devices' = [devices EXCEPT ![pc.c] = <<>>]
  /\ told' = [told EXCEPT ![pc.c] = FALSE]
  /\ conn' = IF pc.eof THEN [conn EXCEPT ![pc.c] = "none"] ELSE conn
  /\ pc' = Idle
  /\ UNCHANGED <<daemon, dev_id, dfds, kernel, toD, toC, session, crossed>>

\* seat_open_device opens the file and hands master round ...
seat_open_device(c, kind) ==
  IF ~Registered(c) \/ Len(devices[c]) > MAX_DEVICES THEN Refused(c)
  ELSE LET file == dev_id
           opened == IF kind = "card" /\ master = NoFile THEN file ELSE master
           act == drm_activate_master(vt[c], opened)
       IN  /\ UNCHANGED <<clients, vt, devices, dev_id, told, conn>>
           /\ \/ /\ act.ok
                 /\ master' = act.master
                 /\ dfds' = IF kind = "card" THEN dfds \cup {file} ELSE dfds
                 /\ pc' = [Idle EXCEPT !.at = "device", !.c = c,
                                       !.d = [id |-> dev_id, kind |-> kind]]
                 /\ UNCHANGED toC
              \/ /\ ~act.ok
                 /\ master' = IF act.master = file THEN Leaked ELSE act.master
                 /\ toC' = Sent(toC, c, Event("ERROR"))
                 /\ UNCHANGED <<dfds, pc>>
              \/ /\ Faults                                 \* open() failed
                 /\ toC' = Sent(toC, c, Event("ERROR"))
                 /\ UNCHANGED <<dfds, pc, master>>

\* ... then registers the device and answers.
seat_add_device ==
  /\ Main("device")
  /\ devices' = [devices EXCEPT ![pc.c] = Append(@, pc.d)]
  /\ dev_id' = dev_id + 1
  /\ toC' = Sent(toC, pc.c, Ack(pc.d, pc.d.id))
  /\ pc' = Idle
  /\ UNCHANGED <<daemon, clients, vt, dfds, kernel, master, conn, toD, session, told, crossed>>

\* Mutant: the device stays in the list.
KeptDevice(c, id) ==
  /\ toC' = Sent(toC, c, Event("ACK"))
  /\ UNCHANGED <<pc, clients, vt, devices, dev_id, dfds, master, told, conn>>

\* The list without the first device that has the id.
Without(s, id) == RemoveFirstMatch(s, LAMBDA d : d.id = id)

\* The answer of seat_close_device is asserted to be sent.
seat_close_device(c, id) ==
  IF ~Registered(c) \/ (\A i \in DOMAIN devices[c] : devices[c][i].id # id) THEN Refused(c)
  ELSE /\ devices' = [devices EXCEPT ![c] = Without(@, id)]
       /\ dfds' = dfds \ {id}
       /\ toC' = Sent(toC, c, Event("ACK"))
       /\ master' = Kept(master, dfds', toC, theirs)
       /\ UNCHANGED <<pc, clients, vt, dev_id, told, conn>>

\* Every descriptor of the daemon is closed.
Down(how) ==
  /\ daemon' = how /\ pc' = Idle /\ clients' = <<>> /\ dfds' = {}
  /\ vt' = [c \in Clients |-> NoVT] /\ devices' = [c \in Clients |-> <<>>]
  /\ master' = Kept(IF master = Leaked THEN NoFile ELSE master, {}, toC, theirs)
  /\ told' = [c \in Clients |-> FALSE] /\ sig' = {}
  /\ UNCHANGED <<dev_id, front, mode, newvt, conn, toC>>

\* One message is handled; those behind it in the same read are lost.
seat_client_callback(c) ==
  /\ Main("loop")
  /\ conn[c] = "open"
  /\ \/ /\ toD[c] # <<>>
        /\ toD' = [toD EXCEPT ![c] = <<>>]
        /\ LET m == Head(toD[c])
               asserts == /\ m.op = "CLOSE_DEVICE" /\ stage[c] = "out"
                          /\ \E i \in DOMAIN devices[c] : devices[c][i].id = m.id
           IN  \/ /\ asserts
                  /\ Down("abort")
               \/ /\ ~asserts
                  /\ \/ m.op = "OPEN_SEAT" /\ seat_open_seat(c)
                     \/ m.op = "CLOSE_SEAT" /\ seat_close_seat(c, FALSE)
                     \/ m.op = "OPEN_DEVICE" /\ seat_open_device(c, m.kind)
                     \/ m.op = "CLOSE_DEVICE" /\ seat_close_device(c, m.id)
                  /\ UNCHANGED <<daemon, sig, front, mode, newvt>>
     \/ /\ toD[c] = <<>> /\ stage[c] = "out"
        /\ seat_close_seat(c, TRUE)
        /\ UNCHANGED <<daemon, sig, front, mode, newvt, toD>>
  /\ UNCHANGED <<session, crossed>>

\* Mutant: the descriptor is closed once the seat is open (daemon.c:275).
VtClosed(c) == FALSE

\* The descriptor of its VT is closed while a client is being forgotten.
VtOpen(c) == ~(pc.at = "drop" /\ pc.c = c)

\* SIGUSR1: another VT is asked for.
on_vt_release ==
  /\ daemon = "up" /\ "USR1" \in sig
  /\ \/ /\ Owners(front) = {}
        /\ sig' = sig \ {"USR1"}
        /\ UNCHANGED <<front, newvt, toC, told, crossed>>
     \/ \E c \in Owners(front) :
          /\ seat_disable(c)
          /\ \/ /\ newvt # NoVT /\ VtOpen(c)
                /\ Shown(newvt, sig \ {"USR1"})
                /\ toC' = Sent(toC, c, Event("DISABLE"))
             \/ /\ newvt = NoVT \/ ~VtOpen(c)
                /\ sig' = sig \ {"USR1"}
                /\ toC' = Sent(Sent(toC, c, Event("DISABLE")), c, Event("ERROR"))
                /\ UNCHANGED <<front, newvt>>
  /\ UNCHANGED <<daemon, seats, mode, master, conn, toD, session>>

\* SIGUSR2: a VT the daemon controls is shown.  The result of handing master
\* over is not looked at, and the acknowledgement also lets a switch happen
\* that was asked for in between.
on_vt_activate ==
  /\ daemon = "up" /\ "USR2" \in sig
  /\ \/ /\ Owners(front) = {}
        /\ sig' = sig \ {"USR2"}
        /\ UNCHANGED <<front, newvt, toC, told, crossed, master>>
     \/ \E c \in Owners(front) :
          /\ seat_enable(c)
          /\ master' = drm_activate_master(front, master).master
          /\ IF newvt # NoVT /\ VtOpen(c)
             THEN Shown(newvt, sig \ {"USR2"})
             ELSE sig' = sig \ {"USR2"} /\ UNCHANGED <<front, newvt>>
  /\ UNCHANGED <<daemon, seats, mode, conn, toD, session>>

\* SIGINT.
cleanup ==
  /\ Faults /\ daemon = "up"
  /\ Down("exit")
  /\ UNCHANGED <<toD, session, crossed>>

-----------------------------------------------------------------------------
(* A session: the seat client of a compositor. *)

\* recv takes what is there, up to and with the first message that carries a
\* descriptor; the header is the first message's, the descriptor the last's.
TakenN(q) ==
  LET withFd == {i \in DOMAIN q : q[i].fd # NoFile}
  IN  IF withFd = {} THEN Len(q) ELSE CHOOSE i \in withFd : \A j \in withFd : i <= j
Taken(q) == [Head(q) EXCEPT !.fd = q[TakenN(q)].fd]
Rest(q) == SubSeq(q, TakenN(q) + 1, Len(q))

\* The process ends: its descriptors are closed and what it did not read is lost.
Left(c, said) ==
  /\ stage' = [stage EXCEPT ![c] = "out"]
  /\ toC' = [toC EXCEPT ![c] = <<>>]
  /\ toD' = IF daemon = "up" THEN [toD EXCEPT ![c] = @ \o said] ELSE [toD EXCEPT ![c] = <<>>]
  /\ mine' = [mine EXCEPT ![c] = {}]
  /\ theirs' = [theirs EXCEPT ![c] = {}]
  /\ want' = [want EXCEPT ![c] = Event("none")]
  /\ conn' = IF daemon = "up" THEN conn ELSE [conn EXCEPT ![c] = "none"]
  /\ master' = Kept(master, dfds, toC', theirs')
  /\ UNCHANGED <<daemon, seats, kernel, told, crossed>>

Leave(c) == Left(c, <<Request("CLOSE_SEAT", 0, "none")>>)

seat_open(c) ==
  /\ stage[c] = "out" /\ conn[c] = "none" /\ daemon = "up"
  /\ stage' = [stage EXCEPT ![c] = "opening"]
  /\ conn' = [conn EXCEPT ![c] = "backlog"]
  /\ toD' = [toD EXCEPT ![c] = <<Request("OPEN_SEAT", 0, "none")>>]
  /\ UNCHANGED <<daemon, seats, kernel, master, toC, want, mine, theirs, told, crossed>>

\* What a receive yields; after the daemon has gone, nothing or garbage.
Received(c) == IF toC[c] # <<>> THEN {Taken(toC[c]).op} ELSE {"ENABLE", "garbage"}
Readable(c) == toC[c] # <<>> \/ daemon # "up"
Consumed(c) == toC' = [toC EXCEPT ![c] = IF @ = <<>> THEN @ ELSE Rest(@)]

seat_dispatch(c) ==
  /\ Readable(c)
  /\ \E op \in Received(c) :
       IF op \in {"ENABLE", "DISABLE"}
       THEN /\ stage' = [stage EXCEPT ![c] = "running"]
            /\ Consumed(c)
            /\ master' = Kept(master, dfds, toC', theirs)
            /\ UNCHANGED <<daemon, seats, kernel, conn, toD, want, mine, theirs, told, crossed>>
       ELSE Leave(c)

\* The start waits for one message, whichever of the two it is ...
c_session_init(c) == stage[c] = "opening" /\ seat_dispatch(c)

\* ... and the event loop handles later ones.
seat_event_cb(c) == stage[c] = "running" /\ seat_dispatch(c)

\* The call blocks from here to the next action.
Call(c, st, m) ==
  /\ stage[c] = "running" /\ daemon = "up"
  /\ stage' = [stage EXCEPT ![c] = st]
  /\ want' = [want EXCEPT ![c] = m]
  /\ toD' = [toD EXCEPT ![c] = Append(@, m)]
  /\ crossed' = [crossed EXCEPT ![c] = @ \/ toC[c] # <<>>]
  /\ UNCHANGED <<daemon, seats, kernel, master, conn, toC, mine, theirs, told>>

\* Ids given and to be given.
Asked ==
  dev_id + (IF pc.at = "device" THEN 1 ELSE 0)
  + Cardinality({ei \in Clients \X (1..(MaxId + 1)) :
      ei[2] \in DOMAIN toD[ei[1]] /\ toD[ei[1]][ei[2]].op = "OPEN_DEVICE"})

open_device(c, kind) ==
  /\ Asked < MaxId
  /\ c \in DeviceUsers
  /\ kind = "card" => \A d \in mine[c] : d.kind # "card"
  /\ Call(c, "open", Request("OPEN_DEVICE", 0, kind))

close_device(c, d) ==
  /\ d \in mine[c] /\ d.kind = "event"
  /\ Call(c, "close", Request("CLOSE_DEVICE", d.id, "event"))

\* Anything that is not an error is taken for the answer.
Answer(c) == IF toC[c] # <<>> THEN Taken(toC[c]) ELSE Event("nothing")
call_returns(c) ==
  /\ Calling(c)
  /\ Readable(c)
  /\ stage' = [stage EXCEPT ![c] = "running"]
  /\ want' = [want EXCEPT ![c] = Event("none")]
  /\ Consumed(c)
  /\ LET said == Answer(c)
     IN  /\ theirs' = [theirs EXCEPT ![c] = @ \cup ({said.fd} \ {NoFile})]
         /\ mine' = [mine EXCEPT ![c] =
              IF said.op = "ERROR" THEN @
              ELSE IF stage[c] = "open"
              THEN @ \cup {[id |-> said.id, fd |-> said.fd, kind |-> want[c].kind]}
              ELSE {d \in @ : d.id # want[c].id}]
  /\ master' = Kept(master, dfds, toC', theirs')
  /\ UNCHANGED <<daemon, seats, kernel, conn, toD, told, crossed>>

c_session_free(c) == stage[c] = "running" /\ Leave(c)

crash(c) == stage[c] # "out" /\ Left(c, <<>>)

-----------------------------------------------------------------------------
Handler == vt_disable \/ seat_register \/ seat_forget \/ seat_add_device
DaemonStep ==
  \/ Handler
  \/ \E c \in Clients : seat_server_callback(c) \/ seat_client_callback(c)

SessionStep(c) ==
  \/ seat_open(c) \/ c_session_init(c) \/ seat_event_cb(c) \/ call_returns(c)
  \/ \E kind \in Kinds : open_device(c, kind)
  \/ \E d \in mine[c] : close_device(c, d)
  \/ c_session_free(c) \/ crash(c)

Next ==
  \/ DaemonStep \/ on_vt_release \/ on_vt_activate \/ cleanup
  \/ \E c \in Clients : SessionStep(c)
  \/ \E v \in VTs : switch_vt(v)

Spec == Init /\ [][Next]_vars

\* The daemon is scheduled and serves its descriptors, and signals do not
\* starve it; a session reads its socket.  Nobody has to open, close, switch
\* or end anything.
Fairness ==
  /\ WF_vars(on_vt_release) /\ WF_vars(on_vt_activate)
  /\ SF_vars(Handler)
  /\ \A c \in Clients :
       /\ SF_vars(seat_server_callback(c) \/ seat_client_callback(c))
       /\ WF_vars(c_session_init(c) \/ seat_event_cb(c) \/ call_returns(c))

FairSpec == Spec /\ Fairness

-----------------------------------------------------------------------------
Quiet == daemon = "up" /\ sig = {} /\ pc.at = "loop"

TypeOK ==
  /\ daemon \in {"up", "exit", "abort"}
  /\ pc.at \in {"loop", "setmode", "push", "drop", "device"}
  /\ Range(clients) \subseteq Clients /\ IsInjective(clients)
  /\ vt \in [Clients -> VTs \cup {NoVT}]
  /\ \A c \in Clients : Ids(Range(devices[c])) \subseteq 1..MaxId
  /\ dev_id \in 1..MaxId /\ dfds \subseteq 1..MaxId
  /\ front \in VTs /\ newvt \in VTs \cup {NoVT} /\ sig \subseteq {"USR1", "USR2"}
  /\ mode \in [VTs -> {"auto", "process"}]
  /\ master \in (1..MaxId) \cup {NoFile, Leaked}
  /\ conn \in [Clients -> {"none", "backlog", "open"}]
  /\ stage \in [Clients -> {"out", "opening", "running", "open", "close"}]
  /\ \A c \in Clients : Ids(mine[c]) \subseteq 0..MaxId /\ theirs[c] \subseteq 1..MaxId
  /\ told \in [Clients -> BOOLEAN] /\ crossed \in [Clients -> BOOLEAN]

\* A session is told it has the seat exactly while its VT is shown, whenever
\* the daemon has nothing left to do: through opening, closing, crashing and
\* switching (daemon.c:191-299).
ToldIffShown == Quiet => \A c \in Range(clients) : told[c] <=> vt[c] = front

\* The session that is told it has the seat has DRM master with the card it
\* opened, after any number of switches and restarts (daemon.c:97-109, 292-294).
\* Only while a single session opens devices, and no event
\* came in the way of its replies.
MasterKept ==
  \A c \in Range(clients) :
    told[c] /\ CardsOf(c) # {} /\ ~crossed[c] => master \in CardsOf(c)

\* Between calls a session and the daemon list the same devices, if no event
\* came in the way of a reply (session.c:55-81, daemon.c:119-189).
DevicesAgree ==
  \A c \in Range(clients) :
    /\ Quiet /\ stage[c] = "running" /\ toC[c] = <<>> /\ toD[c] = <<>> /\ ~crossed[c]
    => Ids(mine[c]) = Ids(Range(devices[c]))

\* The seat goes from one session to none and from none to one.
Lock == INSTANCE SeatHandover WITH holders <- {c \in Clients : told[c]}
Handover == Lock!Spec

\* A VT of a session is left when another one is asked for (daemon.c:207-223).
SwitchDone ==
  (daemon = "up" /\ newvt # NoVT /\ Owners(front) # {}) ~> (newvt = NoVT \/ daemon # "up")

\* A session never blocks for ever: whatever is read together, lost with the
\* rest of a read or taken for the wrong reply, some message comes
\* (seat.c:102-157, sock.c:46-75).
CallsReturn == \A c \in Clients :
  stage[c] \in {"opening", "open", "close"} ~> stage[c] \in {"out", "running"}

\* daemon.c:57: assert(seat_send(client_fd, &params) >= 0).
AckDelivered == daemon # "abort"
=============================================================================
