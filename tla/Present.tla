------------------------------- MODULE Present -------------------------------
(***************************************************************************)
(* The presentation path of the compositor: what happens to a wl_buffer    *)
(* between the wl_surface.attach of a client and the page flip that puts    *)
(* it on the screen, and how the client gets it back.                      *)
(*                                                                         *)
(*   wayland/impl/wayland.c  attach, frame, commit and destroy requests     *)
(*   output/output.c         the listeners of those requests, the swapchain *)
(*                           and the callbacks run by a page flip           *)
(*   compositor/scene.c      the quads of a window node and the redraw      *)
(*   cuts.c                  the window manager's listeners                 *)
(*   util/mem.c              the reference counts                           *)
(*                                                                         *)
(* The compositor is one thread around epoll, so a request handler with    *)
(* every listener it runs is one action, and so is the DRM event handler.   *)
(* Requests and page flips interleave freely.                              *)
(***************************************************************************)
EXTENDS Integers, Sequences, FiniteSets

CONSTANTS
  Surfaces,     \* wl_surface objects, each of a client of its own
  Buffers,      \* wl_buffer objects
  Owner,        \* the surface a buffer is attached to (wayland.xml leaves the
                \* release of a buffer shared by several surfaces undefined)
  NoBuffer,     \* the NULL struct c_wl_buffer *
  BindsOutput,  \* the surfaces whose client has bound the wl_output global
  Reattach,     \* whether a client attaches a buffer it has not got back yet
  MaxFrames,    \* LENGTH(surface->frames)
  MaxFeedbacks, \* LENGTH(surface->feedbacks)
  Faults        \* whether rendering and the atomic commit may fail

ASSUME OwnerAssumption == Owner \in [Buffers -> Surfaces]
ASSUME NoBufferAssumption == NoBuffer \notin Buffers
ASSUME BindsAssumption == BindsOutput \subseteq Surfaces
ASSUME BoundsAssumption == MaxFrames \in Nat /\ MaxFeedbacks \in Nat
ASSUME FlagsAssumption == Reattach \in BOOLEAN /\ Faults \in BOOLEAN

VARIABLES
  (* struct c_wl_surface *)
  alive,        \* the wl_surface object exists
  pending,      \* pending.buffer
  commited,     \* C_WL_SURFACE_STATE_BUFFER in pending.commited
  active,       \* active.buffer
  output,       \* surface->output is set
  frames_n, frame_cb, feedbacks_n, feedback_cb,
  (* struct c_wl_buffer and the c_rawbuf / c_dmabuf behind it *)
  obj,          \* buffer->obj: the client has not destroyed the wl_buffer
  ref,          \* reference count of the c_wl_buffer, 0 once freed
  buf_cb,       \* buffer->cb is set
  backing,      \* reference count of buffer->shm / buffer->dma
  (* the scene node of the toplevel of a surface *)
  node, quad,
  (* struct c_output *)
  cb, front, waiting_for_flip, need_redraw,
  fb,           \* the buffers sampled when each swapchain buffer was drawn
  (* the kernel *)
  scanout, queued,
  running,      \* the event loop has not been stopped
  (* what the client knows *)
  lent,         \* committed, and no release event written since
  outbox,       \* release events written to a connection and not yet sent
  due,          \* frame callbacks of the commits, not yet answered
  awaiting      \* feedback objects that have had no answer

surfaceVars == <<alive, pending, commited, active, output, frames_n, frame_cb,
                 feedbacks_n, feedback_cb>>
bufferVars  == <<obj, ref, buf_cb, backing>>
sceneVars   == <<node, quad>>
outputVars  == <<cb, front, waiting_for_flip, need_redraw, fb>>
kernelVars  == <<scanout, queued>>
clientVars  == <<lent, outbox, due, awaiting>>
vars == <<surfaceVars, bufferVars, sceneVars, outputVars, kernelVars, running,
          clientVars>>

NoFb == 2
Content == Buffers \cup {NoBuffer}

(* The entries of output->cb that this module follows, named for the       *)
(* functions in the pageflip slot of their listeners.                      *)
BufferReleased(b) == <<"wl_buffer_released", b>>
DoneFrames(s)     == <<"wl_surface_done_frames", s>>
Presented(s)      == <<"wp_presentation_presented", s>>
Callbacks == {BufferReleased(b) : b \in Buffers}
               \cup {DoneFrames(s) : s \in Surfaces}
               \cup {Presented(s) : s \in Surfaces}

Registered(list, e) == \E i \in DOMAIN list : list[i] = e

(* Defect, for a mutation run: the entry stays.                            *)
WithoutNone(list, e) == list

(* c_callback_remove: the entry e is unlinked.  The list has one of each    *)
(* (CallbackList), as the code tells them apart by their addresses.        *)
Without(list, e) ==
  IF ~Registered(list, e) THEN list
  ELSE LET at == CHOOSE i \in DOMAIN list : list[i] = e
       IN [j \in 1 .. Len(list) - 1 |-> IF j < at THEN list[j] ELSE list[j + 1]]

(* c_output_listen, called only on a condition: the entry goes to the end.  *)
Listened(list, p, e) == IF p THEN Append(list, e) ELSE list

One(p) == IF p THEN 1 ELSE 0

-----------------------------------------------------------------------------
(* The state in which main enters the event loop: c_output_set_mode has    *)
(* put swapchain buffer 1 on the screen with a modeset, then drawn the      *)
(* empty scene into it and asked for a flip to it.  It ignores the result   *)
(* of that last commit.                                                    *)
Init ==
  /\ alive = [s \in Surfaces |-> FALSE]
  /\ pending = [s \in Surfaces |-> NoBuffer]
  /\ commited = [s \in Surfaces |-> FALSE]
  /\ active = [s \in Surfaces |-> NoBuffer]
  /\ output = [s \in Surfaces |-> FALSE]
  /\ frames_n = [s \in Surfaces |-> 0]
  /\ frame_cb = [s \in Surfaces |-> FALSE]
  /\ feedbacks_n = [s \in Surfaces |-> 0]
  /\ feedback_cb = [s \in Surfaces |-> FALSE]
  /\ obj = [b \in Buffers |-> FALSE]
  /\ ref = [b \in Buffers |-> 0]
  /\ buf_cb = [b \in Buffers |-> FALSE]
  /\ backing = [b \in Buffers |-> 0]
  /\ node = [s \in Surfaces |-> FALSE]
  /\ quad = [s \in Surfaces |-> NoBuffer]
  /\ cb = <<>>
  /\ front = 0
  /\ waiting_for_flip = TRUE
  /\ need_redraw = FALSE
  /\ fb = [i \in {0, 1} |-> {}]
  /\ scanout = 1
  /\ queued \in (IF Faults THEN {1, NoFb} ELSE {1})
  /\ running = TRUE
  /\ lent = [b \in Buffers |-> FALSE]
  /\ outbox = [s \in Surfaces |-> {}]
  /\ due = [s \in Surfaces |-> 0]
  /\ awaiting = [s \in Surfaces |-> 0]

-----------------------------------------------------------------------------
(* The buffers the nodes of the scene are drawn from.                      *)
Drawn(q) == {q[s] : s \in Surfaces} \ {NoBuffer}

(* Defect: the front buffer is taken for the back buffer.                   *)
FrontForBack(frnt) == frnt

(* c_output_backbuffer *)
back_buffer(frnt) == 1 - frnt

(* Defects: a flip is scheduled while one is in flight, and need_redraw is  *)
(* not reset by the draw.                                                  *)
ScheduleWhileWaiting(need, waiting, frnt, inFlight, q) ==
  /\ fb' = [fb EXCEPT ![back_buffer(frnt)] = IF need THEN Drawn(q) ELSE @]
  /\ need_redraw' = FALSE
  /\ waiting_for_flip' = (need \/ waiting)
  /\ queued' = IF need THEN back_buffer(frnt) ELSE inFlight
  /\ UNCHANGED running

ScheduleKeepsNeed(need, waiting, frnt, inFlight, q) ==
  LET drawn == need /\ ~waiting
  IN /\ fb' = [fb EXCEPT ![back_buffer(frnt)] = IF drawn THEN Drawn(q) ELSE @]
     /\ need_redraw' = need
     /\ waiting_for_flip' = (drawn \/ waiting)
     /\ queued' = IF drawn THEN back_buffer(frnt) ELSE inFlight
     /\ UNCHANGED running

(* schedule_pageflip with c_renderer_begin, on_redraw and                  *)
(* c_renderer_commit: draw the quads q into the back buffer and queue a    *)
(* flip to it.  A failed render keeps need_redraw and is flipped all the    *)
(* same.  A failed atomic commit sets waiting_for_flip although no flip is  *)
(* queued, a failed export of the fence does not, and both stop the loop.   *)
schedule_pageflip(need, waiting, frnt, inFlight, q) ==
  LET back == back_buffer(frnt)
  IN IF need /\ ~waiting
     THEN \E rendered, accepted \in (IF Faults THEN BOOLEAN ELSE {TRUE}) :
            /\ fb' = [fb EXCEPT ![back] = Drawn(q)]
            /\ need_redraw' = ~rendered
            /\ waiting_for_flip' \in {TRUE, accepted}
            /\ queued' = IF accepted THEN back ELSE inFlight
            /\ running' = accepted
     ELSE /\ need_redraw' = need
          /\ waiting_for_flip' = waiting
          /\ queued' = inFlight
          /\ UNCHANGED <<fb, running>>

NoOutputCommit == UNCHANGED <<fb, need_redraw, waiting_for_flip, queued, running>>

(* Defect: the change of the scene is not followed by a redraw.            *)
SceneOnly(q) == NoOutputCommit

(* output_commit of the window manager, called when the scene changed.     *)
output_commit(q) ==
  schedule_pageflip(TRUE, waiting_for_flip, front, queued, q)

(* The end of client_epoll_callback: the connection is flushed.            *)
Flush(s) == outbox' = [outbox EXCEPT ![s] = {}]

(* c_scene_node_update of a window, whose surface shows the given content:  *)
(* the quads are collected anew.  A surface without content has none; the   *)
(* defect keeps the old ones then.                                         *)
StaleQuads(s, content) ==
  [quad EXCEPT ![s] = IF node[s] /\ content # NoBuffer THEN content ELSE @]

c_scene_node_update(s, content) ==
  [quad EXCEPT ![s] = IF node[s] THEN content ELSE @]

(* Defect: the references of replaced quads are not given back.            *)
QuadRefsKept(rc, q) ==
  [b \in Buffers |->
     (backing[b] + One(q[Owner[b]] = b) + One(ref[b] = 0 /\ rc[b] > 0))
       - One(ref[b] > 0 /\ rc[b] = 0)]

(* The references to the backing store of a buffer: one of the c_wl_buffer *)
(* until its defer function runs, one of every quad.                       *)
backing_refs(rc, q) ==
  [b \in Buffers |->
     (backing[b] + One(q[Owner[b]] = b) + One(ref[b] = 0 /\ rc[b] > 0))
       - (One(quad[Owner[b]] = b) + One(ref[b] > 0 /\ rc[b] = 0))]

-----------------------------------------------------------------------------
(* Requests of the clients.                                                *)

wl_compositor_create_surface(s) ==
  /\ running /\ ~alive[s]
  /\ alive' = [alive EXCEPT ![s] = TRUE]
  /\ awaiting' = [awaiting EXCEPT ![s] = 0]
  /\ Flush(s)
  /\ UNCHANGED <<pending, commited, active, output, frames_n, frame_cb,
                 feedbacks_n, feedback_cb, bufferVars, sceneVars, outputVars,
                 kernelVars, running, lent, due>>

(* A buffer is allocated.  Its name is used again once the buffer that had  *)
(* it before is freed and in no frame.                                     *)
wl_shm_pool_create_buffer(b) ==
  /\ running /\ ~obj[b] /\ ref[b] = 0 /\ backing[b] = 0
  /\ \A i \in {0, 1} : b \notin fb[i]
  /\ obj' = [obj EXCEPT ![b] = TRUE]
  /\ ref' = [ref EXCEPT ![b] = 1]
  /\ backing' = [backing EXCEPT ![b] = 1]
  /\ lent' = [lent EXCEPT ![b] = FALSE]
  /\ outbox' = [outbox EXCEPT ![Owner[b]] = {}]
  /\ UNCHANGED <<surfaceVars, buf_cb, sceneVars, outputVars, kernelVars,
                 running, due, awaiting>>

wl_buffer_destroy(b) ==
  /\ running /\ obj[b]
  /\ obj' = [obj EXCEPT ![b] = FALSE]
  /\ ref' = [ref EXCEPT ![b] = @ - 1]
  /\ backing' = backing_refs(ref', quad)
  /\ outbox' = [outbox EXCEPT ![Owner[b]] = {}]
  /\ UNCHANGED <<surfaceVars, buf_cb, sceneVars, outputVars, kernelVars,
                 running, lent, due, awaiting>>

(* Whether the client of a surface regards a buffer as its own.            *)
HasBack(b) == ~lent[b] /\ b \notin outbox[Owner[b]]

(* The buffer that an attach drops because it was never committed; the      *)
(* defect forgets it.                                                      *)
NothingDropped(s) == NoBuffer

Dropped(s) == IF commited[s] THEN pending[s] ELSE NoBuffer

wl_surface_attach(s, b) ==
  /\ running /\ alive[s]
  /\ b # NoBuffer => Owner[b] = s /\ obj[b] /\ (Reattach \/ HasBack(b))
  /\ ref' = [x \in Buffers |->
               (ref[x] + One(x = b))
                 - One(Dropped(s) = x)]
  /\ backing' = backing_refs(ref', quad)
  /\ pending' = [pending EXCEPT ![s] = b]
  /\ commited' = [commited EXCEPT ![s] = TRUE]
  /\ Flush(s)
  /\ UNCHANGED <<alive, active, output, frames_n, frame_cb, feedbacks_n,
                 feedback_cb, obj, buf_cb, sceneVars, outputVars, kernelVars,
                 running, lent, due, awaiting>>

wl_surface_frame(s) ==
  /\ running /\ alive[s] /\ frames_n[s] < MaxFrames
  /\ frames_n' = [frames_n EXCEPT ![s] = @ + 1]
  /\ Flush(s)
  /\ UNCHANGED <<alive, pending, commited, active, output, frame_cb,
                 feedbacks_n, feedback_cb, bufferVars, sceneVars, outputVars,
                 kernelVars, running, lent, due, awaiting>>

(* wp_presentation.feedback and its listener in output.c: the callback is  *)
(* registered by the request itself, not by the commit that follows.       *)
wp_presentation_feedback(s) ==
  /\ running /\ alive[s] /\ feedbacks_n[s] < MaxFeedbacks
  /\ feedbacks_n' = [feedbacks_n EXCEPT ![s] = @ + 1]
  /\ awaiting' = [awaiting EXCEPT ![s] = @ + 1]
  /\ feedback_cb' = [feedback_cb EXCEPT ![s] = @ \/ output[s]]
  /\ cb' = Listened(cb, ~feedback_cb[s] /\ output[s], Presented(s))
  /\ Flush(s)
  /\ UNCHANGED <<alive, pending, commited, active, output, frames_n, frame_cb,
                 bufferVars, sceneVars, front, waiting_for_flip, need_redraw,
                 fb, kernelVars, running, lent, due>>

(* wl_surface.commit and its listeners, output.c first and cuts.c second.   *)
(* A replaced buffer is released by the next page flip if the surface has   *)
(* an output and the buffer is not already waiting for one, else at once.   *)
(* Defect: a release at once although one was deferred.                     *)
NowAndLater(s) == commited[s] /\ active[s] # NoBuffer /\ obj[active[s]]

ReleaseLater(s) ==
  /\ commited[s] /\ active[s] # NoBuffer /\ obj[active[s]]
  /\ output[s] /\ ~buf_cb[active[s]]

ReleaseNow(s) ==
  /\ commited[s] /\ active[s] # NoBuffer /\ obj[active[s]]
  /\ ~(output[s] /\ ~buf_cb[active[s]])

ListenFrames(s) == ~frame_cb[s] /\ output[s] /\ frames_n[s] > 0

wl_surface_commit(s) ==
  LET old == active[s]
      new == IF commited[s] THEN pending[s] ELSE old
      q == c_scene_node_update(s, new)
  IN
  /\ running /\ alive[s]
  /\ ref' = [x \in Buffers |-> (ref[x] + One(ReleaseLater(s) /\ x = old))
                                 - One(commited[s] /\ x = old)]
  /\ buf_cb' = [x \in Buffers |-> buf_cb[x] \/ (ReleaseLater(s) /\ x = old)]
  /\ cb' = Listened(Listened(cb, ReleaseLater(s), BufferReleased(old)),
                    ListenFrames(s), DoneFrames(s))
  /\ lent' = [x \in Buffers |-> IF ReleaseNow(s) /\ x = old THEN FALSE
                                ELSE lent[x] \/ (commited[s] /\ x = new)]
  /\ active' = [active EXCEPT ![s] = new]
  /\ pending' = [pending EXCEPT ![s] = NoBuffer]
  /\ commited' = [commited EXCEPT ![s] = FALSE]
  /\ frame_cb' = [frame_cb EXCEPT ![s] = @ \/ ListenFrames(s)]
  /\ due' = [due EXCEPT ![s] = frames_n[s]]
  /\ backing' = backing_refs(ref', q)
  /\ quad' = q
  /\ output' = [output EXCEPT ![s] = @ \/ s \in BindsOutput]
  /\ IF output'[s] THEN output_commit(q) ELSE NoOutputCommit
  /\ Flush(s)
  /\ UNCHANGED <<alive, frames_n, feedbacks_n, feedback_cb, obj, node, front,
                 scanout, awaiting>>

(* xdg_surface.get_toplevel: the window gets a node, which has no quads     *)
(* until the next commit, and the layout is redone.                        *)
xdg_surface_get_toplevel(s) ==
  /\ running /\ alive[s] /\ ~node[s]
  /\ node' = [node EXCEPT ![s] = TRUE]
  /\ output_commit(quad)
  /\ Flush(s)
  /\ UNCHANGED <<surfaceVars, bufferVars, quad, cb, front, scanout, lent, due,
                 awaiting>>

(* wl_surface.destroy of another surface of the same client, a cursor or a  *)
(* subsurface: the listener of cuts.c collects the quads of the window      *)
(* anew, and redraws if that other surface was ever shown.                 *)
other_surface_destroy(s) ==
  LET q == c_scene_node_update(s, active[s])
  IN
  /\ running /\ node[s]
  /\ quad' = q
  /\ backing' = backing_refs(ref, q)
  /\ \/ NoOutputCommit
     \/ output_commit(q)
  /\ Flush(s)
  /\ UNCHANGED <<surfaceVars, obj, ref, buf_cb, node, cb, front, scanout, lent,
                 due, awaiting>>

(* xdg_toplevel.destroy: client_close drops the node and its quads.        *)
xdg_toplevel_destroy(s) ==
  LET q == [quad EXCEPT ![s] = NoBuffer]
  IN
  /\ running /\ node[s]
  /\ node' = [node EXCEPT ![s] = FALSE]
  /\ quad' = q
  /\ backing' = backing_refs(ref, q)
  /\ output_commit(q)
  /\ Flush(s)
  /\ UNCHANGED <<surfaceVars, obj, ref, buf_cb, cb, front, scanout, lent, due,
                 awaiting>>

(* wl_surface.destroy, after its role object as the protocol demands: the  *)
(* listeners run first and cancel the callbacks of the surface.  The loop   *)
(* that discards the feedback objects clears feedbacks_n in its body, so    *)
(* that it ends after the first.                                           *)
wl_surface_destroy(s) ==
  /\ running /\ alive[s] /\ ~node[s]
  /\ alive' = [alive EXCEPT ![s] = FALSE]
  /\ cb' = IF output[s] THEN Without(Without(cb, Presented(s)), DoneFrames(s))
                        ELSE cb
  /\ frame_cb' = [frame_cb EXCEPT ![s] = @ /\ ~output[s]]
  /\ feedback_cb' = [feedback_cb EXCEPT ![s] = @ /\ ~output[s]]
  /\ awaiting' = [awaiting EXCEPT ![s] = @ - One(feedbacks_n[s] > 0)]
  /\ ref' = [x \in Buffers |->
               ref[x] - (One(active[s] = x) + One(pending[s] = x))]
  /\ backing' = backing_refs(ref', quad)
  /\ active' = [active EXCEPT ![s] = NoBuffer]
  /\ pending' = [pending EXCEPT ![s] = NoBuffer]
  /\ commited' = [commited EXCEPT ![s] = FALSE]
  /\ frames_n' = [frames_n EXCEPT ![s] = 0]
  /\ feedbacks_n' = [feedbacks_n EXCEPT ![s] = 0]
  /\ due' = [due EXCEPT ![s] = 0]
  /\ output' = [output EXCEPT ![s] = FALSE]
  /\ IF output[s] THEN output_commit(quad) ELSE NoOutputCommit
  /\ Flush(s)
  /\ UNCHANGED <<obj, buf_cb, sceneVars, front, scanout, lent>>

-----------------------------------------------------------------------------
(* drm_callback.  The kernel reports the queued flip; page_flip_handler     *)
(* swaps the swapchain and runs every callback, each of which removes       *)
(* itself; then the next redraw is scheduled.  wl_buffer_released writes    *)
(* its event without flushing the connection: it leaves with a later frame  *)
(* or feedback event of the same client, if there is one.                  *)
Sends(i, s) ==
  \/ cb[i] = DoneFrames(s) /\ frames_n[s] > 0
  \/ cb[i] = Presented(s) /\ feedbacks_n[s] > 0

Released == {b \in Buffers : Registered(cb, BufferReleased(b)) /\ obj[b]}

Unsent(s) ==
  {b \in outbox[s] : \A i \in DOMAIN cb : ~Sends(i, s)}
    \cup {b \in Released :
            /\ Owner[b] = s
            /\ \E i \in DOMAIN cb :
                 /\ cb[i] = BufferReleased(b)
                 /\ \A j \in DOMAIN cb : Sends(j, s) => j < i}

page_flip_handler ==
  /\ running /\ queued # NoFb
  /\ scanout' = queued
  /\ front' = 1 - front
  /\ cb' = <<>>
  /\ ref' = [b \in Buffers |-> ref[b] - One(Registered(cb, BufferReleased(b)))]
  /\ buf_cb' = [b \in Buffers |-> buf_cb[b] /\ ~Registered(cb, BufferReleased(b))]
  /\ backing' = backing_refs(ref', quad)
  /\ lent' = [b \in Buffers |-> lent[b] /\ b \notin Released]
  /\ outbox' = [s \in Surfaces |-> Unsent(s)]
  /\ frame_cb' = [s \in Surfaces |-> frame_cb[s] /\ ~Registered(cb, DoneFrames(s))]
  /\ frames_n' = [s \in Surfaces |-> IF Registered(cb, DoneFrames(s)) THEN 0
                                     ELSE frames_n[s]]
  /\ due' = [s \in Surfaces |-> IF Registered(cb, DoneFrames(s)) THEN 0 ELSE due[s]]
  /\ feedback_cb' = [s \in Surfaces |-> feedback_cb[s] /\ ~Registered(cb, Presented(s))]
  /\ awaiting' = [s \in Surfaces |-> IF Registered(cb, Presented(s))
                                     THEN awaiting[s] - feedbacks_n[s]
                                     ELSE awaiting[s]]
  /\ feedbacks_n' = [s \in Surfaces |-> IF Registered(cb, Presented(s)) THEN 0
                                        ELSE feedbacks_n[s]]
  /\ schedule_pageflip(need_redraw, FALSE, 1 - front, NoFb, quad)
  /\ UNCHANGED <<alive, pending, commited, active, output, obj, sceneVars>>

-----------------------------------------------------------------------------
Request(s) ==
  \/ wl_compositor_create_surface(s)
  \/ \E b \in Content : wl_surface_attach(s, b)
  \/ wl_surface_frame(s)
  \/ wp_presentation_feedback(s)
  \/ wl_surface_commit(s)
  \/ wl_surface_destroy(s)
  \/ xdg_surface_get_toplevel(s)
  \/ other_surface_destroy(s)
  \/ xdg_toplevel_destroy(s)

Next ==
  \/ \E s \in Surfaces : Request(s)
  \/ \E b \in Buffers : wl_shm_pool_create_buffer(b) \/ wl_buffer_destroy(b)
  \/ page_flip_handler

Spec == Init /\ [][Next]_vars

(* A display that is on reports every flip; nothing obliges a client.      *)
FairSpec == Spec /\ WF_vars(page_flip_handler)

-----------------------------------------------------------------------------
(* Every variable keeps to the values the code's fields can hold.          *)
TypeOK ==
  /\ alive \in [Surfaces -> BOOLEAN]
  /\ pending \in [Surfaces -> Content]
  /\ commited \in [Surfaces -> BOOLEAN]
  /\ active \in [Surfaces -> Content]
  /\ output \in [Surfaces -> BOOLEAN]
  /\ frames_n \in [Surfaces -> 0 .. MaxFrames]
  /\ frame_cb \in [Surfaces -> BOOLEAN]
  /\ feedbacks_n \in [Surfaces -> 0 .. MaxFeedbacks]
  /\ feedback_cb \in [Surfaces -> BOOLEAN]
  /\ obj \in [Buffers -> BOOLEAN]
  /\ ref \in [Buffers -> 0 .. 4]
  /\ buf_cb \in [Buffers -> BOOLEAN]
  /\ backing \in [Buffers -> 0 .. 2]
  /\ node \in [Surfaces -> BOOLEAN]
  /\ quad \in [Surfaces -> Content]
  /\ cb \in Seq(Callbacks)
  /\ front \in {0, 1}
  /\ waiting_for_flip \in BOOLEAN
  /\ need_redraw \in BOOLEAN
  /\ fb \in [{0, 1} -> SUBSET Buffers]
  /\ scanout \in {0, 1}
  /\ queued \in {0, 1, NoFb}
  /\ running \in BOOLEAN
  /\ lent \in [Buffers -> BOOLEAN]
  /\ outbox \in [Surfaces -> SUBSET Buffers]
  /\ due \in [Surfaces -> 0 .. MaxFrames]
  /\ awaiting \in [Surfaces -> 0 .. MaxFeedbacks]

(* What else the reference counts rest on: a surface only holds buffers of  *)
(* its own, a pending buffer is marked as commited until the commit takes   *)
(* it, a surface that is gone holds nothing, and a live one remembers every *)
(* feedback object that was requested for it.                              *)
Owned(s) == {b \in Buffers : Owner[b] = s} \cup {NoBuffer}

Ownership ==
  \A s \in Surfaces :
    /\ pending[s] \in Owned(s) /\ active[s] \in Owned(s) /\ quad[s] \in Owned(s)
    /\ pending[s] # NoBuffer => commited[s]
    /\ ~alive[s] => /\ active[s] = NoBuffer /\ pending[s] = NoBuffer
                    /\ ~output[s] /\ frames_n[s] = 0 /\ feedbacks_n[s] = 0
    /\ alive[s] => awaiting[s] = feedbacks_n[s]

(* The reference count of every c_wl_buffer is the number of pointers to   *)
(* it: the wl_buffer object, the active and the pending state of a surface  *)
(* and a release callback.  With it, none of those pointers dangles and no  *)
(* buffer is leaked.                                                       *)
RefCounts ==
  \A b \in Buffers :
    ref[b] = One(obj[b]) + One(active[Owner[b]] = b)
               + One(pending[Owner[b]] = b) + One(buf_cb[b])

(* The pixels behind a buffer (c_rawbuf, c_dmabuf) live as long as the      *)
(* c_wl_buffer or a quad of the scene: a redraw never samples freed ones.   *)
BackingCounts ==
  \A b \in Buffers :
    backing[b] = One(ref[b] > 0) + One(quad[Owner[b]] = b)

(* Every count is right, so nothing that is freed is used and nothing leaks. *)
CountsExact == RefCounts /\ BackingCounts

(* output->cb holds one entry for each callback pointer that is set and no  *)
(* other, and an entry for a surface only while the surface exists: the     *)
(* page flip handler calls nothing that is gone and calls nothing twice.    *)
CallbackList ==
  /\ \A i, j \in DOMAIN cb : cb[i] = cb[j] => i = j
  /\ \A b \in Buffers : buf_cb[b] <=> Registered(cb, BufferReleased(b))
  /\ \A s \in Surfaces :
       /\ frame_cb[s] <=> Registered(cb, DoneFrames(s))
       /\ feedback_cb[s] <=> Registered(cb, Presented(s))
       /\ frame_cb[s] => alive[s] /\ output[s] /\ frames_n[s] > 0
       /\ feedback_cb[s] => alive[s] /\ output[s] /\ feedbacks_n[s] > 0

(* Whenever the compositor is free to draw, no flip is in flight and the    *)
(* buffer it will draw into is not the one on the screen, although "front"  *)
(* and "waiting_for_flip" are its own guess of what the kernel does.        *)
FlipPipeline ==
  /\ queued # NoFb => waiting_for_flip /\ queued = 1 - front
  /\ ~waiting_for_flip => queued = NoFb /\ scanout = front

(* What a step draws, it draws into a buffer that is neither on the screen  *)
(* nor in a flip the kernel has accepted and not yet done.                 *)
DrawsOffScreen ==
  [][\A i \in {0, 1} : fb'[i] # fb[i] => i \notin {scanout', queued}]_vars

(* A window is drawn from what its surface shows: no quad outlives the      *)
(* content it was collected from.                                          *)
QuadsAreCurrent ==
  \A s \in Surfaces : quad[s] # NoBuffer => node[s] /\ quad[s] = active[s]

(* The presentation path keeps the promise of BufferLoan.                  *)
Contents == {active[s] : s \in Surfaces} \ {NoBuffer}
Loan == INSTANCE BufferLoan WITH
          lent <- {b \in Buffers : lent[b]},
          shown <- Contents,
          reading <- Drawn(quad) \cup (IF queued = NoFb THEN {} ELSE fb[queued])
LoanRefinement == Loan!LoanSpec

-----------------------------------------------------------------------------
(* Liveness, under the fairness of the display alone.                      *)

(* A frame callback registered with an output is answered, or its surface  *)
(* destroyed.                                                              *)
FramesAnswered == \A s \in Surfaces : frame_cb[s] ~> ~frame_cb[s]

(* A redraw that was asked for is drawn: the screen does not stay behind.  *)
RedrawHappens == need_redraw ~> ~need_redraw

(* A deferred release is written, so that the buffer can be freed.         *)
ReleasesRun == \A b \in Buffers : buf_cb[b] ~> ~buf_cb[b]

(* What waits for a page flip is not forgotten.                            *)
FlipsAnswer == FramesAnswered /\ ReleasesRun

-----------------------------------------------------------------------------
(* What the protocol promises and the code does not keep.                  *)

(* The release events written reach the client without its help.           *)
ReleaseReachesClient ==
  \A b \in Buffers : (b \in outbox[Owner[b]]) ~> (b \notin outbox[Owner[b]])

(* Every frame callback committed on a surface is answered.                *)
CommitedFramesAnswered == \A s \in Surfaces : due[s] > 0 ~> due[s] = 0

(* A page flip answers only the frame callbacks of commits.                *)
OnlyCommitedFrames == \A s \in Surfaces : frame_cb[s] => frames_n[s] = due[s]

(* "presented" is told of content that is on the screen.                   *)
PresentedIsOnScreen ==
  [][\A s \in Surfaces :
       feedback_cb[s] /\ ~feedback_cb'[s] /\ alive'[s] =>
         active[s] = NoBuffer \/ active[s] \in fb[scanout']]_vars

(* Every feedback object not yet answered is one the surface remembers.    *)
FeedbackRemembered == \A s \in Surfaces : awaiting[s] = feedbacks_n[s]
=============================================================================
