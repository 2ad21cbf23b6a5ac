# A verification project for cuts

`cuts` is a tiling Wayland compositor in C: its own wire protocol code, its own
window manager, an atomic KMS output, a GLES renderer, and its own seat daemon
("diazepam"). It is one thread around `epoll` (`util/event_loop.c`); the daemon
is a second process. There are no tests in the repository. Everything below is
about the code at the commit in `src/`.

## 1. Inventory

| Component | State | Operations | Talks to | What makes it correct |
|---|---|---|---|---|
| Presentation path (`output/output.c`, `wayland/impl/wayland.c`, `wayland/impl/presentation-time.c`, `compositor/scene.c`) | pending/active buffer of a surface, frame and feedback objects, `output->cb`, `front`, `waiting_for_flip`, `need_redraw`, reference counts | attach, frame, feedback, commit, destroy, page flip, redraw | kernel (atomic commits and flip events), clients (release, done, presented) | counts equal pointers; nothing drawn into the buffer on screen; a buffer goes back to its client only when nothing reads it; every frame callback is answered |
| Scene graph (`compositor/scene.c`) | list of nodes ordered by layer and z, z counters per layer | add, remove, raise, update, move | window manager, renderer | order is by layer, then by age or raise; a node is in the list once |
| Renderer (`render/`) | textures per buffer, back buffer | begin, draw, commit | DRM, EGL | only live buffers are sampled |
| DRM backend (`output/drm/`) | connectors, planes, properties | probe, atomic commit | kernel | - |
| Window manager (`cuts.c`) | list of clients with tag bits, focused client and its index, tags with a fullscreen window, layout, drag | map, focus, close, tag switch, move, fullscreen, float, zoom | xdg-shell listeners, input bindings, scene | focus is a visible client; windows on the screen know their size and who is active; the seat events agree with the focus; no dangling client pointer |
| Tile layout (`cuts.c:433-468, 1774-1835`) | - | pure | window manager | tiles cover the area and do not overlap |
| Clipboard, drag-and-drop (`cuts.c`, `wayland/impl/wayland.c`) | selection source, offers, drag | set_selection, start_drag, offer, cancel | two clients at once | a paste reaches the current source or none |
| Layer shell, popups (`cuts.c`, `wlr-layer-shell`, `xdg-shell`) | arrangement, exclusive zones | configure, commit, destroy | window manager | zones of surfaces that are gone are given back |
| Wayland wire and connection (`wayland/server.c`) | objects by id, incoming batch, output buffer, descriptors | dispatch, post, flush, object add and delete, free | socket, every handler | events leave in order and once; ids name what the client thinks; sync after what came before it |
| Display (`wayland/display.c`) | connections, globals | accept, bind, dispatch, free | event loop | - |
| Objects and roles (`wayland/impl/*`) | references among surface, role, subsurfaces, viewport, buffers | create, destroy, disconnect | window manager, output | no reference dangles after any order of destroys |
| Geometry (`compositor/window.c`, `surface.c`, `util.c`) | - | hit tests, scaling | - | - |
| Cursor (`cursor/`) | plane, images | set, move | DRM | - |
| Input (`seat/input.c`) | pressed keys and buttons, capabilities, bindings | device events | libinput, window manager | press and release pair up |
| Session, seat client (`seat/session/`) | active flag, stream to the daemon | open, close device, dispatch | daemon | a reply belongs to the request before it |
| Seat daemon (`seat/session/impl/diazepam/daemon.c`, `vt.c`) | clients, devices, active client, VT mode | open/close seat and device, VT signals | kernel, clients | at most one client has DRM master, the one on the VT |
| Event loop, signals (`util/event_loop.c`, `util/signal.c`) | registered descriptors | add, del, run, stop | everything | a callback is never run after its descriptor was removed |
| Memory, callbacks (`util/mem.c`, `util/callback.[ch]`) | counts, lists of listeners | ref, unref, add, remove, notify | everything | see the presentation path |
| List, map, bitmap (`util/`) | links, buckets, bits | insert, remove, iterate | everything | they are sequences, functions and sets |
| EGL/GLES, bars and text, logging, shm, code generator | - | - | - | I/O, pixels, wording |

Hard behaviours: requests of several clients interleave with page flips; a
handler and its listeners run in a fixed order that some of the code gets wrong;
destruction comes in any order, or all at once when a client disconnects; the
daemon's replies and its own events share a stream; signal handlers run
asynchronously in the daemon; atomic commits fail when DRM master is lost.

## 2. Plan

Done, in this order:

1. **Present** with **BufferLoan** (section 3): the life of a buffer between
   attach and screen. First, because everything a user sees depends on it.
2. **Wm** with **SeatEvents** (section 4): clients, tags, focus, floating,
   fullscreen, closing and moving, and what the clients are told.
3. **Session** with **SeatHandover** (section 5): daemon and sessions over their
   streams, VT signals, DRM master.
4. **Wire** (section 6): the two passes over a batch, object ids, the event buffer.
5. **Roles** (section 7): counted pointers among the structs behind a client's
   objects, through every order of destruction.
6. **Clipboard** (section 8): selection and drag between two clients.
7. **Input** (section 9): keys, buttons, combinations and devices, and what the
   clients' keyboards make of them.

Each of 3 to 7 stands alone: they meet the others through what they leave to
chance. `Wire` delivers the requests whose handlers are the actions of the
others; `Session` takes DRM master away, which is why a commit may fail in
`Present`; `Roles` has the pointers to the structs whose buffers `Present`
counts; `Clipboard` and `Input` take the focus that `Wm` decides
on as any window.

Left:

- proofs: `HeapExact`, `NamedBothWays` and `CrashesOnly` of `Roles`, which are about what
  a whole handler leaves of the heap. A handler is a program that a recursive function
  runs, over lists of children of any length, and an `Unref` in the middle of it may free
  a struct: a proof needs the sum of what each instruction adds to a count and takes
  from it, while the links are half undone. They are checked by TLC only.
- modules: **EventLoop** (a batch of events whose descriptors an earlier handler
  removes), **Scene** (z order),
  **Tile** (the arithmetic of the layout), and links and buckets of **List** and
  **Map** as an implementation of sequences and functions.

There are twelve runs, of which one shows a disagreement. Further promises that
the code does not keep are stated in the modules, and each section says which
cfg shows them; `TypeOK` of `Wm`, `Session`, `Wire` and `Roles`, which
no run lists, holds in their runs when it is added to the cfg.

## 3. Present

`Present.tla` is the presentation path. The compositor is single-threaded, so a
request with every listener it runs is one action, and so is `drm_callback` with
the page flip handler, all the callbacks it runs and the redraw it schedules.

| Model | Code |
|---|---|
| `alive`, `pending`, `commited`, `active`, `output`, `frames_n`, `frame_cb`, `feedbacks_n`, `feedback_cb` | `struct c_wl_surface` |
| `obj`, `ref`, `buf_cb`, `backing` | `struct c_wl_buffer`, its count, and the count of its `c_rawbuf` or `c_dmabuf` |
| `node`, `quad` | scene node of a toplevel; the buffer its quad samples |
| `cb`, `front`, `waiting_for_flip`, `need_redraw`, `fb` | `struct c_output`; `fb` is which buffers were drawn into each swapchain buffer |
| `scanout`, `queued` | the kernel: the buffer on screen and the flip accepted but not done |
| `running` | the event loop goes on |
| `lent`, `outbox`, `due`, `awaiting` | what the client may believe: history of what was written, sent, committed and answered |

An action's name is the handler's: `wl_surface_attach`, `wl_surface_commit`
(state apply, then the listener of `output.c`, then that of `cuts.c`, which
redraws), `page_flip_handler`, and so on. `schedule_pageflip` may fail in three
places when `Faults` is TRUE; a failure ends the loop, as in the code.

`BufferLoan.tla` is what a client is promised: only lent buffers are shown or
read, and reading starts only while the buffer is the content of a surface.
`Present` is shown to implement it through a refinement mapping (`Loan`).

What clients do: a buffer is attached to one surface only (`Owner`; the
protocol leaves the release of a shared buffer undefined). With `Reattach =
FALSE` a client waits for the release before it attaches a buffer again; the
properties on lending assume this. `RefCounts`, `BackingCounts` and
`CallbackList` hold for clients that do not wait as well. A client
destroys a role before its surface, as xdg-shell demands.

### Runs

| Run | Instance | Shows |
|---|---|---|
| `present_one` | 1 surface, 2 buffers, 1 frame and 2 feedback objects, faults | `CountsExact`: no dangling or leaked `c_wl_buffer` (`RefCounts`) nor pixels (`BackingCounts`). `CallbackList`: a page flip finds the callbacks that are set. `FlipPipeline`, `DrawsOffScreen`: the guess the code makes of the kernel is right whenever it draws. `QuadsAreCurrent`. `LoanRefinement`: no buffer is released that is content, is read or was not lent |
| `present_live` | 1 surface, 2 buffers, no faults | `FlipsAnswer`: registered frame callbacks (`FramesAnswered`) and deferred releases (`ReleasesRun`) run. `RedrawHappens` |

One surface is enough for the counts and the pipeline as the theorems below hold
for any number, with clients that re-attach as well; `Surfaces = {s1, s2}` with
`BindsOutput = {s1, s2}`, `Buffers = {a1}`, `Owner <- OneBuffer`, `MaxFeedbacks = 0`,
`Reattach = TRUE`, `Faults = FALSE` checks the invariants for two clients that share the callback list.

Bounds. Two buffers are what a double-buffered client uses, and allow one to be
content while the other is pending, deferred or in a flip; a third would only
repeat one of these roles. `MaxFrames` and `MaxFeedbacks` stand for the lengths
of the arrays in `struct c_wl_surface`: the handlers treat them as "none",
"some" and "full", and 2 feedback objects are needed for the loop that stops
after one. The swapchain has two buffers in the code as in the model. There are
no other bounds: the state space is finite.

`present_one` allows a terminal state since a failed commit ends the event loop
of the program (`CHECK_DEADLOCK FALSE`).

Fairness. `FairSpec` assumes weak fairness of `page_flip_handler` alone: a
display that is on reports each accepted flip, and the loop then runs the
handler. No request of a client is fair.

### Promises not kept

To see one fail, put it in place of the properties of the cfg named.

| Property | cfg | Code |
|---|---|---|
| `CommitedFramesAnswered` | `PresentLive.cfg` | the frame callback of a first commit is not registered, since the surface gets its output later in the same request (`output.c:287`, `cuts.c:1123`; `wayland.xml:1578`) |
| `FeedbackRemembered` | `PresentOne.cfg` | a destroyed surface discards one feedback object only: the loop clears its own bound (`wayland.c:363`; `presentation-time.xml:77`) |
| `LoanRefinement` | `PresentOne.cfg` with `Surfaces = {s1, s2}`, `Buffers = {a1, a2, b1}`, `Owner <- TwoOwners`, `BindsOutput = {s2}`, `MaxFrames = 0`, `MaxFeedbacks = 0` | a client that has not bound `wl_output` gets its buffer back while a queued frame samples it (`output.c:273`; `wayland.xml:1497`) |
| `ReleaseReachesClient` | `PresentLive.cfg` | a release written by a flip is not flushed (`output.c:144`) |
| `OnlyCommitedFrames` | `PresentLive.cfg` with `MaxFrames = 2` | a frame request is answered before its commit (`output.c:161`) |
| `PresentedIsOnScreen` | `PresentOne.cfg` | "presented" is sent for content that is not on the screen (`output.c:312`; `presentation-time.xml:202`) |

### Proofs

All for every value of the constants, from `OwnerAssumption`,
`NoBufferAssumption`, `BoundsAssumption` and `FlagsAssumption`;
`LoanRefinementHolds` also assumes `Lending`.

- `PresentProofs`: `FlipPipelineHolds`. `FlipInv` is `FlipPipeline` with the
  types of the four variables it speaks of; it is inductive as it stands, for
  every action either leaves those variables alone or goes through
  `schedule_pageflip`.
- `PresentRefProofs`: `CoreInvHolds`, with `RefCountsHold` and
  `BackingCountsHold` (together `CountsExactHolds`), `CallbackListHolds`, `QuadsAreCurrentHolds` and
  `TypeOKHolds` as consequences. `RefCounts` alone is not inductive: the page
  flip drops a reference for each entry of `output->cb`, so it needs that the
  entries are the callbacks that are set (`CallbackList`); a commit must know
  that the buffer it replaces belongs to its surface and that a pending buffer
  is marked as committed (`Ownership`); `BackingCounts` needs to know when a
  count reaches 0 (`RefCounts`) and that a quad is current. So the invariant
  is the conjunction `CoreInv`, with a lemma per action, and two groups of
  lemmas on `Without` and `Listened` for lists without duplicates. The upper
  bounds in `TypeOK` follow from the counting invariants; the counters are
  integers in the induction.
- `DrawsOffScreenHolds`, of `PresentInv` (`CoreInv`, `FlipInv` and the types of the
  rest). `DrawnThen` says what a step does to the swapchain, which only a redraw and a
  page flip change, through `schedule_pageflip`: it draws into the back buffer while no
  flip is in flight, so that by `FlipPipeline` the other one is on the screen; and a
  frame accepted by the kernel in this step is drawn from the quads as they are after
  it.
- `LoanRefinementHolds`: the initial states map to those of `BufferLoan`, and every step
  to one of its steps or a stutter. `Lending` is what section "Promises not kept" leaves
  of the promise: clients wait for a release (`Reattach = FALSE`) and have bound
  `wl_output` (`BindsOutput = Surfaces`), without which the code releases the buffer at
  once (`output.c:273`). The invariant it needs, `LentInv`, says who holds a loan:
  content is lent, is on a surface with an output and waits for no release; what is
  pending is with the client; what waits for a release is lent; and so is what a frame
  in flight samples. The last part survives a page flip, which runs all the releases,
  because the frame that is then in flight is drawn after them, from quads, which are
  content (`QuadsAreCurrent`); no other step ends the loan of a buffer in flight. One
  lemma per action, `CommitHolds` to `FlipHolds`, carries the first three parts;
  `FlightStep` the last; `LoanStep` is the simulation.

Model-checked only: the liveness properties.

Not modelled here: subsurfaces, popups and layer surfaces (their quads),
several outputs, changing the mode of an output after start-up, damage.

## 4. Wm

`Wm.tla` is the window manager of `cuts.c` with the parts of
`compositor/window.c`, `compositor/surface.c` (`SeatEvents.tla`) and
`seat/input.c` it runs. A handler runs to its end, so a request, a key or a
pointer event is one action, with the layout and the events it leads to.

| Model | Code |
|---|---|
| `place`, `tag`, `state` | `cuts.clients` and `struct client` of a toplevel |
| `states`, `slot`, `pfocus` | `window->states`, its `x`, `y`, `width`, `height`, and `window->focused` |
| `visible`, `border` | `is_visible` of the node and of its borders |
| `focused`, `idx`, `kb_focus`, `cur`, `fullscreen`, `layout`, `dragging` | the fields of `cuts`: `focused_client`, `focused_client_idx`, `kb_focus`, `tag`, `fullscreen`, `layout`, `pointer.is_dragging` |
| `drag` | `input->state.drag_handler` |
| `layers`, `interactivity` | layer surfaces that exist, and what they last asked for |
| `told` | the last configure event each window was sent |
| `seat` | the devices a client has bound and the active surface each of them has, by the rules of `wayland.xml`; `wrong` collects the kinds of events those rules forbid |

Where a window is, is abstracted to its slot: place *i* of *n* in the tiling,
the whole area, the whole output, or a size of its own. `Arranged` is what
`tile` and `zoom` do to the slots, `LAYOUT` adds the configure events. The
actions have the names of the handlers; what the user can do is what `config.h`
binds, which is why `Layouts`, `Floating` and `Drags` are constants.
`window_kill` only sends a close event, to which the client's destruction is
the answer; it changes nothing else and is left out. The stacking
order is left out: any window of the tag may be the topmost at the pointer, and
any surface of it may be hit. `change_mfact`, `change_nmaster`, `change_gap`
and `change_border` arrange anew in the current layout, as `set_layout` does
with the same layout. Drag-and-drop and the bar are left out; so is the
release of a device by a client.

### Runs

| Run | Instance | Shows |
|---|---|---|
| `wm_tags` | 3 windows, 2 tags, both layouts, fullscreen | `FocusIsLive`; `FocusKept`: a tag that has windows never loses the focus, through closing, moving, switching; `VisibleIffOnTag` |
| `wm_seat` | 2 windows of 2 clients, keyboards bound first, 2 tags, floating, both drags, fullscreen | `ActivatedIsFocused`: the configure events of hidden windows included; `KeyboardFollowsFocus`, `EnterLeavePaired`: the enter and leave events keep the protocol and add up to the focus; `NoOverlap`, `ToldItsSize`: every way in and out of the tiling arranges the others and tells them |
| `wm_layers` | 1 window, 2 layer surfaces of another client | `KeyboardHandedOver`: a layer surface that took the keyboard (`ExclusiveEntered`) and whoever gets keys (`KeysToEntered`) has been entered |

Bounds. Three windows are a closed one, the one that gets the focus and one
that must keep out of it, and the least for which the middle of the list is not
an end. Two tags are the one shown and a hidden one; all tags but the shown one
are treated alike. No other bound is needed, all fields range over finite sets;
`idx` is kept below the number of windows by the code, which `TypeCorrect` proves.
The runs with three windows treat windows of one client and tags as
interchangeable (`Symmetric`). No run needs fairness: nothing the window
manager does is put off to a later step.

`wm_seat` assumes that a client binds its devices first (`LateBind = FALSE`),
that windows have no subsurfaces, and no layer surfaces. Each of these is
needed, as the table below shows.

### Promises not kept

To see one fail, put it in place of the properties of the cfg named, with the
change named.

| Property | cfg | Code |
|---|---|---|
| `FullscreenIsTold` | `WmTags.cfg` | an enumerator is used as a mask: a fullscreen window is told that it is maximized (`cuts.c:890`; `xdg-shell.xml:848`) |
| `FullscreenAnswered` | `WmTags.cfg` | a window of a hidden tag gets no answer to `set_fullscreen` (`cuts.c:896`; `xdg-shell.xml:1085`) |
| `EnterOnce` | `WmLayers.cfg` | a window is entered although it was not left, when the layer surface that had the keyboard goes (`cuts.c:1535`; `wayland.xml:2487`) |
| `LeaveMatches` | `WmSeat.cfg`, `HasSub = {w1}` | what is left is not what was entered (`window.c:222`; `wayland.xml:2507`) |
| `KeysToEntered` | `WmSeat.cfg`, `LateBind = TRUE` | a keyboard bound late gets keys without an enter (`cuts.c:1100`; `wayland.xml:2547`) |
| `ExclusiveKeyboard` | `WmLayers.cfg` | a window keeps an active surface beside the layer surface (`cuts.c:1520`) |
| `NoneKeyboard` | `WmLayers.cfg` | a layer surface cannot give the keyboard back (`cuts.c:1515`) |
| `PointerLeavesFirst` | `WmSeat.cfg`, `HasSub = {w1}`, `Devices = {"pointer"}` | the pointer enters one surface before it leaves another (`window.c:216`) |

Other behaviour of the code the model has and no line of the repository speaks
against: the bit of a tag in `cuts.fullscreen` stays set when the fullscreen
window is closed or moved away, so that new windows of the tag get no focus and
neither keys nor, without a focused window, the pointer can give one; of two
fullscreen windows of a tag the first to leave clears the bit; a floating window
that goes fullscreen and floats again shows its borders; a window that is moved
off a tag it was alone on keeps the focus; a tag is not arranged anew when a
window is moved off it; `is_dragging` stays set if the drag ends when no
window has the focus.

### Proofs

`WmProofs`, for every number of windows, layer surfaces, tags and clients, any
bindings, with late binding or not, from the assumptions named in `Wm`.

- `FocusIsLiveCorrect`, `VisibleCorrect`, `FocusKeptCorrect` follow from
  `CoreInv`: places in the list differ, a live window has a tag, the focus is
  live, what is drawn is what is on the tag. The lemma `Steps` reduces the
  actions to six kinds of steps (nothing, a new focus, a window comes, goes, the
  tag is switched, a window is moved), and `CoreInv` is shown for each kind.
- `ActivatedCorrect`: `Active(tl, f)` says that in the events `tl` exactly `f` is
  active; `ConfiguredActive` is the step: telling a set of windows moves the
  activity from one to another if both are told. It needs nothing else.
- `NoOverlapCorrect`: a step either keeps the slots of the windows that stay
  tiled (`Keeps`) or arranges them (`Lays`); arranged windows have different
  ranks, since places differ, and all ranks are below the number of windows
  (`TiledRanks`). `NoOverlap` alone is not inductive: it needs `CoreInv` and
  the types of `state` and `slot`.
- `ToldItsSizeCorrect`: `Knows(tl)` relates events to the slots of the next
  state, so that actions that tell windows twice are taken in two steps.
- `TypeCorrect` from all of these, with the operators of `SeatEvents` shown to
  keep to `Seats`.

`WmSeatProofs` is about the keyboard, under two hypotheses the runs have too:
`Prompt`, that clients bind their devices before they have windows, and `Apart`,
that no client has both windows and layer surfaces. Without the first the code breaks the
properties (section "Promises not kept").

- `KeyboardInvCorrect`: `KeyboardInv` is `CoreInv` with `Follows`: what the
  client of a keyboard believes active is the focused window or a part of it, or the
  layer surface that took the keyboard, or nothing. The properties alone are not inductive: who
  gets the keyboard next depends on `kb_focus` as well as on the focus, and a
  window with subsurfaces may have been left in another surface than it was entered in.
  The lemma `SeatMovesStep` reduces the actions to the kinds of steps that the focus, `kb_focus`
  and the seat make together (`SeatMoves`), and `Follows` is shown for each kind.
- `KeyboardFollowsCorrect`, `PairedCorrect` without layer surfaces and subsurfaces (with
  them the code breaks `EnterLeavePaired`), `KeyboardHandedCorrect` with both.


## 5. Session

`Session.tla` is the seat: the daemon diazepam (`daemon.c`, `vt.c`), the sessions
that use it (`session.c`, `seat.c`), the streams between them (`sock.c`), and of
the kernel what they rely on: which VT is shown, the handshake of
`VT_PROCESS`, and which open file is DRM master.

| Model | Code |
|---|---|
| `clients`, `vt`, `devices`, `dev_id` | `serv.clients`, `struct seat_client`, `__dev_id` |
| `pc` | how far a handler of the daemon has come |
| `sig`, `newvt`, `front`, `mode` | kernel: pending signals, the VT asked for, the one shown, the VT modes |
| `master`, `dfds`, `theirs` | kernel: the file that is master, and who has which card file open |
| `toD`, `toC`, `conn` | the two directions of a session's socket |
| `stage`, `want`, `mine` | where a session is, the call it is in, `c_session.devices` |
| `told`, `crossed` | history: the last event was ENABLE; an event got in the way of a reply |

The daemon's signal handlers run between any two of its steps and touch what the
handlers of requests touch, so `seat_open_seat`, `seat_open_device` and
`seat_close_seat` are cut where a signal makes a difference (`pc`): after the VT
was read, after it was taken over, after the device was opened, after the VT was
given back. A session's call sends a request and takes the first message that
comes for the reply. A session may crash, exit, and start again; opening may
fail; the daemon may be ended.

`SeatHandover.tla` is what a seat daemon promises: the seat is given to one
session at a time and taken from it before another has it. `Session` implements
it under the mapping `holders <- {c : told[c]}`.

| Run | Instance | Shows |
|---|---|---|
| `session` | 1 session, a card and an input device, 3 device ids, crash and restart, faults, a switch at any moment | `MasterKept`: the session that was told it has the seat has master, at every moment; `DevicesAgree`: both sides list the same devices between calls unless an event crossed a reply; `CallsReturn`: a call always ends |
| `seat` | 2 sessions with a card, 2 VTs, switches when the daemon is idle | `ToldIffShown`: the session that was told is the one that is shown; `Handover`; `SwitchDone`: a switch away from a session is let happen |

Bounds. `MaxId` counts the devices ever opened, `MaxQueue` the unread messages
when a switch is asked for (0: the switch finds the stream read, though events and
replies still cross after it), `MAX_DEVICES` is small enough to be reached. Two
sessions and every kind of device with `MaxId = 3` were checked for safety by hand
(2.5 million states). Deadlock is not checked since the daemon may end.

Fairness. The daemon is a loop around `epoll` that serves what is readable, and a
signal that is pending is delivered: weak fairness of the signal handlers, strong
fairness of the cut handlers and of serving a client, as signals interrupt them.
A session in a call reads its socket. Nobody has to call, close or switch.

What the runs assume, and what happens beyond:

- With two sessions and a switch at any moment (`Eager`), `ToldIffShown` and
  `Handover` are false: `seat_open_seat` reads which VT is shown and takes it over
  later (`daemon.c:245-263`), and the acknowledgement of one switch may complete
  the next one.
- With two sessions that both open devices at any time, `MasterKept` is false:
  opening an input device in a session that is hidden takes master for it
  (`daemon.c:169`), an open that fails later leaks a file that may have master,
  and `on_vt_activate` ignores the result (`daemon.c:233`).
- `AckDelivered` (`Session.cfg`), `daemon.c:57`,
  `assert(seat_send(client_fd, &params) >= 0)`, is false: a session that dies after
  it asked for a device to be closed ends the daemon, and with it the others.
- `DevicesAgree` needs `~crossed`: the first message is taken for the reply
  whatever it is (`seat.c:116`).
- One device more than `MAX_DEVICES` is let in (`daemon.c:149`). After a session
  has exited its VT stays in process mode, so a switch away from it is not answered. A
  session's closing leaves the daemon's device files open. After the daemon has
  died, an open "succeeds" with descriptor 0. `session->active` is never read.

### Proofs

`SessionProofs`, for any number of sessions, terminals, devices and messages under way,
with failures of every call of the kernel and crashes at any moment, from
`SessionAssumption`:

- `ToldIffShownCorrect` and `HandoverCorrect`, for `~Eager`: a switch is asked for when the
  daemon is idle and its signals are served, as in the run `seat` (with `Eager` both are
  false, see above). `SeatInv` says who was told between any two steps of the daemon
  (`Turn`): the registered session of the VT shown, but while the signal that a VT is shown
  waits to be handled nobody. It needs that two sessions never have one terminal, nor one
  that is being opened, and that their terminals are in process mode (`OwnTerminal`), and
  that signals come between two requests and say what the kernel waits for
  (`Signalled`). The step lemma shows the steps of `SeatHandover` at once.
- `DevicesAgreeCorrect`, without that hypothesis: `Agree(c)` relates the two lists through
  what is under way, for each state a call may be in: the request unread, the daemon between
  opening and answering, the reply unread. It needs that ids are handed out once
  (`Numbered`), so that a closed device is not one opened later.

- `MasterKeptCorrect`, for one session (`Clients = {u}`; of several it is false, see above)
  and switches at any moment. `MasterInv` adds to `DeviceInv` that the session and the
  daemon take a device for the same kind (`KindsKnown`), that a card is asked for only
  when the daemon lists none (`OneCard`), and that master is nobody or the card, and the card
  while the session is told it has the seat (`Mastered`). That a pass of
  `drm_activate_master` over the list has the effect of its one card (`OneRequest`) is
  proved of the library's fold: its values on the prefixes of the list are a counterexample
  with a least length, or right.

Model-checked only: `CallsReturn` and `SwitchDone`, liveness.

Not modelled: the libseat backend, the dispatch table, `vt_ack` (unused), the
graphics and keyboard modes of a VT, which no property speaks of.

## 6. Wire

`Wire.tla` is `server.c` and `display.c` under the loop of `event_loop.c`: a wakeup
reads a batch of requests, adds the callbacks of all its syncs, handles the rest in
order, answers the syncs and flushes. The client is modelled as a client that keeps
to the protocol: it uses an id again when `delete_id` has come.

| Model | Code |
|---|---|
| `conn[c].objects`, `.pool`, `.buffer` | `conn->objects`, `server_id_pool`, `buffer` |
| `conn[c].wire`, `toS`, `peer` | the socket |
| `phase` | accepted or freed |
| `loop` | whether `c_event_loop_run` goes on; `"overrun"` when an event was written past the end of a buffer |
| `ids`, `offers` | what the client knows of its ids, and of the server's |

A request is `sync`, a creation, a destruction, one that is answered (`ask`), one
that changes nothing (`ignored`), one that is refused (`bad`) or one without an
implementation (`missing`). `ret`, which a batch of syncs alone leaves
uninitialised (`server.c:367`), is any value (`Uninit`). Between batches the
compositor posts events, answers frame callbacks and makes offers.

A flush may fail, because the peer has gone or the socket is full. `post` does not look at
that (`server.c:224-233`): it copies the event behind the others, and past the end of
`conn->buffer` into `buffer_size` and the descriptors if there is no room. What the program
does from there is not known; `loop` is then `"overrun"`, no step of the compositor
follows, and what the properties say ends there. A flush that fails within a step fails for
the rest of it, so the length of the buffer at its end tells. Inside
`client_epoll_callback` a last flush that fails drops the connection; for events posted
elsewhere nobody looks. The teardown posts a `delete_id` for each
object that has a destructor (`TornDown`), which counts for the overrun; that those
reach the client when its socket takes them is left out.

`wire` (1 client, 2 ids, 4 requests, a buffer of 2 events, a socket of 4) shows:

- `IdsOwned`: a client's id is in one place, the server's ids are fresh, a legal client is
  never told it is wrong unless a request of its batch was refused;
- `EventForItsObject`: no event reaches a later object with the same id;
- `SyncIsBarrier`;
- `StreamIsFifo`: through full buffers and flushes, failed ones too, events come whole and
  in order until one is written past the end;
- `ReadersFit`: that takes a client that has gone, or a socket that does not hold what may
  still be posted.

A promise that is not kept is `BufferFits`, after what the log says of a full buffer ("not
enough space in the connection buffer. flusing connection", `server.c:225`). To see it
fail, put it in place of the properties of `Wire.cfg`; with `Ops = {"create"}`,
`ClientIds = {2, 3, 4}`, `MaxOffers = 0`, `MaxPending = 0` and `SockCap = 100` a client with three
objects goes, and its teardown posts three events to a buffer of two. In the code it
takes some 170 objects, or 2048 bytes of events for a client that has gone or does not read.

Bounds. Two ids are the least for one to be reused while the other is in use;
three requests per read and four in all make batches of several requests, a rest
for the next read, and a reuse. `SockCap` is 4, so that a client that does not read fills
its socket within a batch; the buffer is small enough to be overrun by a client with an
object or two. Deadlock is not checked, as a client may end. Liveness is left out: a
client need not send anything, so an unflushed event may stay
(see `ReleaseReachesClient` in section 3).

What the code does beyond these bounds, which the model leaves out:

- a read ends after 2048 bytes, within a request if there are more (`server.c:366`);
  more than 16 syncs in a batch, and one message more than fits, are not checked
  (`server.c:383`, `391`, `414`);
- a partial send moves the wrong bytes (`server.c:139`), which a local socket with
  messages of at most 2048 bytes never makes;
- a full pool of server ids gives out id 0 again (`bitmap.c:31`), an opcode equal to
  the number of requests is let through (`server.c:291`), an event for an object
  that does not exist ends the compositor (`server.c:155`).

Descriptors, argument types and the registry are not modelled.

### Proofs

`WireProofs`, for any number of clients, ids and requests and any sizes of batches,
buffers, pools and sockets, from `WireAssumption`: `EventForItsObjectCorrect`,
`SyncIsBarrierCorrect`, `StreamIsFifoCorrect`, and `IdsOwnedCorrect` if
`MaxOffers <= PoolSize`; like the properties they speak of the time before an overrun.
`ReadersFit` is checked by TLC only: it would need the lengths of what each pass posts. The invariant behind them, `WireInv`,
says for every connection that its objects (`ObjectsAgree`), the events under way
(`EventsAgree`) and the requests under way (`RequestsAgree`) agree with what the
client knows of its ids. An object, an event and a creation have the number of the
client's last object of that id; after a `delete_id` nothing names the id, in the
stream, the table or the requests; a creation comes before and a destruction after
every other request for its object; an answer after a `done` is to a later request.

The main step is a batch. `InTurn` is a recursive function: the lemmas `SyncsTurn` to
`AnsweredTurn` give the values it takes, `UpTo` is induction over the requests, in the
form of sets, and `PreparedAgrees`, `DoneAgrees` and `AnsweredAgrees` carry the
agreement through the three passes. In the middle of a batch it holds with the
requests that are not handled yet: those of the rest of the pass, of the next passes and
of the next reads. `BatchServed` puts the passes together; a callback of a sync is
older than what the first pass leaves, and is answered when everything older is
handled. Each action has a lemma `...Moves` that also says what it does to the
stream, from which `StreamIsFifo` follows.

`IdsOwned` needs more than `WireInv`, which says whom an id names but not that it
names something. `IdsInv` (`IdsInvCorrect`) adds where every id is. `OffersAgree`: the
pool of the server's ids is the ids in the table, and what the client knows as an
offer, is being offered or destroys is each there once. `OffersLive`: all of those are
in the table. `Accounted`: an id of the client's that is not free is in a request that
creates it, in the table or in a `delete_id` under way, and what a request names is
in the table or comes before it. `Accounted` ends with the first request that is refused,
as the rest of its batch is dropped (`server.c:407`); a request can name an object
wrongly only after that, which is `LegalServed`. Each action has a lemma `...Ids`, and
the passes of a batch carry the three parts as they carry the agreement. The assumption
is on the bound of the model: the pool has 4096 ids (`server.c:509`) and a full one
gives out id 0 again (`bitmap.c:31`), so that with more offers than ids `IdsOwned` is false.

## 7. Roles

`Roles.tla` is the memory behind a client's objects: which struct is counted by
which object, pointer and list, and what each handler of `wayland.c`,
`xdg-shell.c`, `viewporter.c`, the layer shell and their listeners in `cuts.c` reads, counts and
frees, in the code's order. A handler is a program of steps (`Read`, `Ref`, `Unref`,
`Set`, `Push`, ...), run to its end by one action; a step through a null
pointer or to a freed struct ends the compositor (`heap.crash`). A disconnect runs
the destructors of all objects in the order of hash buckets (`server.c:527`), which
is any order: the model reaches it by destroy requests in every order.

| Model | Code |
|---|---|
| `heap.count`, `heap.at`, `heap.kids`, `heap.list` | the count before each struct (`mem.c`), its pointers, its list of children and whether that was freed |
| `heap.role`, `.title`, `.sync` | role of a surface, state of a title string, mode of a subsurface |
| `heap.objs` | the client's object table |
| `heap.clients` | `cuts.clients` |
| `misuse`, `excused` | history: destruction out of order; structs linked by `set_parent`, and a window that one of them is a popup of later |

`roles` has 2 surfaces, 2 xdg surfaces, 2 subsurfaces, a layer surface, a viewport, a
positioner, an output and a pointer, of which a client has as many at a time as one of
the `Mixes` allows: two xdg surfaces with a dialog or a popup; two subsurfaces; or one
of each with an extra struct. It shows `HeapExact`: counts are the numbers of holders, no
struct points to a freed one, and nothing is left of a client that has gone;
`NamedBothWays`: structs that name each other do so both ways; `CrashesOnly`: what can
bring the compositor down. Liveness has no place: every handler ends.

`CrashesOnly` and the exceptions in `HeapExact` name what the code gets wrong:

- a surface destroyed before its role object is not refused as `wayland.xml:1429-1432`
  demands (`defunct_role_object`); the later destruction of the role object follows a null
  pointer (`cuts.c:1229-1232`, `xdg-shell.c:465`, layer shell `:155`) (`misuse`);
- `set_parent` counts what nothing gives back, and closing a dialog closes the client of its
  parent (`cuts.c:630`, `1229`), so that the next `LAYOUT` walks over a freed window
  (`excused`);
- the destruction of a popup or toplevel leaves `parent` behind, which
  `client_from_surface` reads (`LeftBehind`);
- a toplevel that changes its title frees a string twice (`xdg-shell.c:319`), `place_above`
  and `place_below` always fail an assertion (`wayland.c:666`, `682`), the reposition of a popup
  copies over its own pointers (`xdg-shell.c:449`), a cycle of parents is followed for ever
  (`cuts.c:633`), a `set_parent` with the id of a toplevel that is gone is looked up and followed
  (`xdg-shell.c:295`): `heap.crash` of a kind of its own each.

A window that had its parent set twice stays in the lists of both; as a popup of a third
window later it loses that parent when the list of an older one is destroyed, and the
third is never given back (`xdg-shell.c:300`, `168`). So the parent of
a popup that is excused is excused too; it takes three xdg surfaces, more than the run has.

Left out: `get_xdg_surface` twice for a surface (`NoRole`), requests that are refused,
buffers and sizes, focus, the hit test, the state of nested subsurfaces in sync.

## 8. Clipboard

`Clipboard.tla` is `cuts.cb` and `cuts.dnd`. Both are bare pointers to connections,
sources, offers and devices that clients destroy by themselves.

| Model | Code |
|---|---|
| `cuts.cb`, `cuts.dnd`, `cuts.focus`, `cuts.windows` | `cuts.cb`, `cuts.dnd`, `cuts.focused_client`, `cuts.clients`, one window for each connection |
| `cuts.drag_of` | `data_device->dnd.data_source` |
| `cuts.source`, `cuts.offers`, `cuts.devices` | sources, offers and devices of both protocols |
| `cuts.end` | what the compositor ran into |
| `cuts.told`, `cuts.holds`, `cuts.lost` | history: the source the focused client was last offered; sources that were set and not cancelled; those the code forgets without a word |
| `blame` | history: which of the named causes went before |

`clipboard` has a client with two sources and a device, and one with a source of either
protocol and devices of both; a source is used once, as the protocol has it.

- `SelectionOwned`: the selection is a live source of its client, with the functions of its
  own kind; the exception is a source of the ext protocol, whose destruction has no
  listener.
- `FocusedIsTold`: the client with the focus was offered the present selection last.
- `OneHolder`: as long as the compositor runs, a source that was replaced has been cancelled,
  but for one that is forgotten when its client destroys another source.
- `PasteAsks`: a paste asks the source its offer was made for, for the last offer of the
  focused client and the offer of a drag that is on.
- `EndsOnly`: nothing else than the causes in `blame` ends the compositor, among them a second
  selection of the client that has one and a `finish` of an offer that is not the drag's.

`clipboard_assert` shows that a drag that comes to another client's window gives it an
offer without a device, which `wl_data_offer.set_actions` asserts (`wayland.c:911`): every
drop on another client ends the compositor.

A client that copies twice ends it too, which `SecondIsServed` in place of the properties of
`Clipboard.cfg` shows: `on_wl_data_device_set_selection` returns 1 to the client that has the
selection (`cuts.c:1382`), nothing else handles the request, and `dispatch` takes it for one
that is not implemented (`server.c:356-359`), which ends the event loop
(`display.c:138-141`; `not_implemented` in the module). The error of `wl_data_offer.finish`
(`cuts.c:1310`) ends it in the same way.

Bounds. `MaxOffers` is the number of offers there may be when one more is made. A
behaviour with a cause in `blame` is followed only if that is the focus moving during
a drag, with one offer (`Bounded`); the step that adds another cause is still
checked. Deadlock is not checked: everything may be gone or have ended.

What the module has and the properties except: destroying any `wl_data_source` of a client
clears its selection and its drag (`cuts.c:555-583` compare connections only); a
selection that is cleared is not announced; ext devices are told only if
their client has a window; a drag keeps its target when the focus moves while there is a
selection, and posts to it with another client's ids (`cuts.c:697`); a source destroyed while its
client drags over itself clears the target alone; `negotiated_actions` outlives the drag.
The descriptor of a `receive` that no source answers is not closed (`cuts.c:1275`).

### Proofs

`ClipboardProofs`, for any clients, sources, devices, MIME types and bounds, and any
number of causes in `blame`, from `SourceAssumption` and `NullAssumption` (the names for
null and freed pointers are no connection's and no source's). A lemma for each
operator says what it does to any record of the set `States` (`BroadcastTells`,
`ChangeFocusState`, `ClearState`, ...); a lemma for each action shows `ClipInv`:

- `Typed`; `Owned`, `Told`, `Held`: as `SelectionOwned`, `FocusedIsTold`, `OneHolder`, but
  also after the end. A `receive` or `set_selection` that ends the compositor must not disturb
  them half-way.
- `Known`: the offer of the drag is of the drag's source. `PasteAsksCorrect` follows from it and
  from `Told`, as `receive` looks at both and not at the offer.
- `Dragging`: as long as there was no cause for blame, the client that drags is the one with the
  focus and the target, its source lives, and every offer of a drag has its device.
  This is what makes `EndsOnly` inductive: each pointer the code follows without a check is
  either one of these or the selection.

Left out: icons, layer surfaces with the focus, an offer allocated at the address of a freed
one, the references `start_drag` keeps on its error paths.

## 9. Input

`Input.tla` follows an event from libinput to the keyboards of the clients: `handle_event`
updates the modifiers, looks for a bound combination, and what no combination takes goes
to the listeners in `cuts.c`, which send it to the client of the focused window.

| Model | Code |
|---|---|
| `plugged`, `down` | libinput: the devices, and what is held on each |
| `mod_mask` | `input->state.mod_mask`: xkb counts how many devices hold a modifier |
| `combo_cb` | `input->combo_cb`, from `config.h` |
| `capabilities`, `button`, `drag` | `input->capabilities`, `state.button`, `state.drag_handler` |
| `is_dragging`, `focused`, `live` | `cuts.pointer.is_dragging`, `cuts.focused_client`, `cuts.clients` |
| `kb` | the logical state that `wayland.xml` gives a `wl_keyboard`: active surface, keys down, modifiers |
| `seen`, `keyboards`, `refused` | the capabilities last announced to a client, who has a keyboard, and who got an error for asking |

`input` has two devices with the same keys, one of them a pointer too, the leader and
one other key, two buttons, a key that moves the focus and a button that drags, and two
clients with a window each, which may get their keyboards at any time.

- `BelievedIsHeld`: no key and no modifier sticks with a client, although a combination keeps
  the press from the clients, moves the focus between press and release, and a
  key may be held twice.
- `OnlyFocusHolds`: a client without the focus believes nothing to be down.
- `DragHasButton`: a drag does not go on without a button.

Bounds. Two devices are needed for a key that is held twice, two buttons for a drag that
another button ends, two clients for a focus that moves. All else is finite. Which
window gets the focus is left open, as `Wm` decides it; a drag handler may return early
at any time, as it does while the tag has a fullscreen window.

### Proofs

`InputProofs`, for any devices, keys, combinations and clients, from `Input`'s assumptions:
`BelievedCorrect`, `OnlyFocusCorrect`, `DragCorrect` and `InputTypes`. `InputInv` is
`TypeOK`, `DragHasButton`, `Believed`, and `OnlyHeard`: a keyboard that was told anything is its client's
and its client has the focus. `Believed` alone is not inductive: when a key goes up only the
client with the focus is told, so no other may have believed it to be down.

### Promises not kept

In place of the properties of `Input.cfg`:

| Property | Code |
|---|---|
| `ReleasedWasDown` | the release of a bound key, or of one that was down before the focus came, is sent to a client that was not told of the press (`input.c:172`; `wayland.xml:2548`) |
| `ModifiersAreTold` | a window is entered with modifiers of zero while some are held, so that the next key is taken without them (`surface.c:26`; `wayland.xml:2564`) |
| `NoneRefused` | a client that was told of a keyboard is refused one after another keyboard was removed (`input.c:240`, `cuts.c:1092`; `wayland.xml:1965`); a change of the capabilities is never announced (`wayland.xml:1917`) |

Left out: locked and latched modifiers and layouts, scrolling, the pointer's position, layer
surfaces with the keyboard (`Wm`), the keymap file, acceleration profiles.

## 10. Not modelled

- EGL, GLES, DRM probing, cursor images, bars and text, logging, shared memory files: I/O,
  pixels and wording.
- Matrices and coordinates: arithmetic on doubles.
- The protocol descriptions and the code generator: data, and a script at build time.
- The event loop's batches, scene order, the arithmetic of the tiles, the
  links of lists and buckets of maps: planned (section 2).
- Liveness under fairness, `Roles`, and what each section lists, are model-checked only.
