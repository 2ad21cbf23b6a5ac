-------------------------- MODULE PresentRefProofs --------------------------
(***************************************************************************)
(* Proofs about the memory of Present: the reference counts of buffers and  *)
(* of their pixels, and the list of page flip callbacks.                    *)
(***************************************************************************)
EXTENDS PresentProofs

Distinct(list) == \A i, j \in DOMAIN list : list[i] = list[j] => i = j

(***************************************************************************)
(* What the operations on output->cb do to membership and to distinctness.  *)
(***************************************************************************)
(* The empty list has no entry.                                            *)
LEMMA RegisteredEmpty == ASSUME NEW e PROVE ~Registered(<<>>, e)
BY DEF Registered

(* An appended entry is registered, and so is what was.                    *)
LEMMA RegisteredAppend ==
  ASSUME NEW S, NEW list \in Seq(S), NEW f \in S, NEW e
  PROVE  /\ Append(list, f) \in Seq(S)
         /\ Registered(Append(list, f), e) <=> Registered(list, e) \/ e = f
BY DEF Registered

(* Appending what is not there yet makes no duplicate.                     *)
LEMMA DistinctAppend ==
  ASSUME NEW S, NEW list \in Seq(S), NEW f \in S, Distinct(list),
         ~Registered(list, f)
  PROVE  Distinct(Append(list, f))
BY DEF Registered, Distinct

(* The list after the entry at a position is unlinked.                     *)
Unlinked(list, at) ==
  [j \in 1 .. Len(list) - 1 |-> IF j < at THEN list[j] ELSE list[j + 1]]

(* Unlinking shortens the list by one.                                     *)
LEMMA UnlinkedSeq ==
  ASSUME NEW S, NEW list \in Seq(S), NEW at \in 1 .. Len(list)
  PROVE  /\ Unlinked(list, at) \in Seq(S)
         /\ Len(Unlinked(list, at)) = Len(list) - 1
         /\ DOMAIN Unlinked(list, at) = 1 .. Len(list) - 1
<1>1. \A j \in 1 .. Len(list) - 1 :
        (IF j < at THEN list[j] ELSE list[j + 1]) \in S
  OBVIOUS
<1> QED
  BY <1>1 DEF Unlinked

(* Unlinking keeps every other entry.                                      *)
LEMMA UnlinkedRegistered ==
  ASSUME NEW S, NEW list \in Seq(S), NEW at \in 1 .. Len(list), NEW f,
         f # list[at]
  PROVE  Registered(Unlinked(list, at), f) <=> Registered(list, f)
<1> DEFINE u == Unlinked(list, at)
<1>1. \A j \in 1 .. Len(list) - 1 :
        u[j] = IF j < at THEN list[j] ELSE list[j + 1]
  BY DEF Unlinked
<1>2. ASSUME NEW i \in 1 .. Len(list), list[i] = f
      PROVE  \E j \in 1 .. Len(list) - 1 : u[j] = f
  <2>1. CASE i < at
    <3>1. i \in 1 .. Len(list) - 1
      BY <2>1
    <3> QED
      BY <1>1, <1>2, <2>1, <3>1
  <2>2. CASE i > at
    <3>1. i - 1 \in 1 .. Len(list) - 1 /\ ~(i - 1 < at) /\ (i - 1) + 1 = i
      BY <2>2
    <3> QED
      BY <1>1, <1>2, <3>1
  <2> QED
    BY <1>2, <2>1, <2>2
<1>3. ASSUME NEW j \in 1 .. Len(list) - 1, u[j] = f
      PROVE  \E i \in 1 .. Len(list) : list[i] = f
  BY <1>1, <1>3
<1>4. DOMAIN u = 1 .. Len(list) - 1
  BY UnlinkedSeq
<1> HIDE DEF u
<1>5. Registered(u, f) <=> Registered(list, f)
  BY <1>2, <1>3, <1>4 DEF Registered
<1> QED
  BY <1>5 DEF u

(* Of a list without duplicates, unlinking leaves nothing of the entry.    *)
LEMMA UnlinkedDistinct ==
  ASSUME NEW S, NEW list \in Seq(S), NEW at \in 1 .. Len(list), Distinct(list)
  PROVE  /\ Distinct(Unlinked(list, at))
         /\ ~Registered(Unlinked(list, at), list[at])
<1> DEFINE u == Unlinked(list, at)
           from(j) == IF j < at THEN j ELSE j + 1
<1>1. \A j \in 1 .. Len(list) - 1 :
        from(j) \in 1 .. Len(list) /\ u[j] = list[from(j)] /\ from(j) # at
  BY DEF Unlinked
<1>2. \A i, j \in 1 .. Len(list) - 1 : from(i) = from(j) => i = j
  OBVIOUS
<1>3. \A i, j \in 1 .. Len(list) : list[i] = list[j] => i = j
  BY DEF Distinct
<1>4. DOMAIN u = 1 .. Len(list) - 1
  BY UnlinkedSeq
<1> HIDE DEF u, from
<1>5. Distinct(u)
  BY <1>1, <1>2, <1>3, <1>4 DEF Distinct
<1>6. ~Registered(u, list[at])
  BY <1>1, <1>3, <1>4 DEF Registered
<1> QED
  BY <1>5, <1>6 DEF u

(* c_callback_remove keeps every other entry, and of a list without         *)
(* duplicates nothing is left of the one it removes.                       *)
LEMMA WithoutProperties ==
  ASSUME NEW S, NEW list \in Seq(S), NEW e
  PROVE  /\ Without(list, e) \in Seq(S)
         /\ \A f : f # e => (Registered(Without(list, e), f) <=> Registered(list, f))
         /\ Distinct(list) => /\ Distinct(Without(list, e))
                              /\ ~Registered(Without(list, e), e)
<1>1. CASE ~Registered(list, e)
  BY <1>1 DEF Without
<1>2. CASE Registered(list, e)
  <2> DEFINE at == CHOOSE i \in DOMAIN list : list[i] = e
  <2>1. at \in 1 .. Len(list) /\ list[at] = e
    BY <1>2 DEF Registered
  <2>2. Without(list, e) = Unlinked(list, at)
    BY <1>2 DEF Without, Unlinked
  <2> HIDE DEF at
  <2> QED
    BY <2>1, <2>2, UnlinkedSeq, UnlinkedRegistered, UnlinkedDistinct
<1> QED
  BY <1>1, <1>2

-----------------------------------------------------------------------------
(* The types that the invariants below rest on.                            *)
FlagTypes ==
  /\ alive \in [Surfaces -> BOOLEAN]
  /\ commited \in [Surfaces -> BOOLEAN]
  /\ output \in [Surfaces -> BOOLEAN]
  /\ frame_cb \in [Surfaces -> BOOLEAN]
  /\ feedback_cb \in [Surfaces -> BOOLEAN]
  /\ obj \in [Buffers -> BOOLEAN]
  /\ buf_cb \in [Buffers -> BOOLEAN]
  /\ node \in [Surfaces -> BOOLEAN]

PointerTypes ==
  /\ pending \in [Surfaces -> Content]
  /\ active \in [Surfaces -> Content]
  /\ quad \in [Surfaces -> Content]

CountTypes ==
  /\ frames_n \in [Surfaces -> 0 .. MaxFrames]
  /\ feedbacks_n \in [Surfaces -> 0 .. MaxFeedbacks]
  /\ ref \in [Buffers -> Int]
  /\ backing \in [Buffers -> Int]
  /\ due \in [Surfaces -> 0 .. MaxFrames]
  /\ awaiting \in [Surfaces -> 0 .. MaxFeedbacks]

MemTypes == FlagTypes /\ PointerTypes /\ CountTypes /\ cb \in Seq(Callbacks)

(* The inductive invariant: each part is needed for the step of another.    *)
(* RefCounts needs CallbackList (a release callback that runs holds a       *)
(* reference) and Ownership, CallbackList needs Ownership, BackingCounts    *)
(* and Ownership need QuadsAreCurrent.                                     *)
CoreInv ==
  /\ MemTypes
  /\ Ownership
  /\ RefCounts
  /\ BackingCounts
  /\ CallbackList
  /\ QuadsAreCurrent

(* Every step changes a reference count by what it does to the four kinds  *)
(* of pointers.                                                            *)
LEMMA RefCountsStep == CoreInv /\ [Next]_vars => RefCounts'
<1> SUFFICES ASSUME CoreInv, [Next]_vars PROVE RefCounts'
  OBVIOUS
<1>u. ASSUME UNCHANGED <<obj, ref, buf_cb, active, pending>> PROVE RefCounts'
  BY <1>u DEF CoreInv, RefCounts
<1>1. ASSUME NEW s \in Surfaces, Request(s) PROVE RefCounts'
  <2>1. CASE wl_compositor_create_surface(s)
    BY <1>u, <2>1 DEF wl_compositor_create_surface, bufferVars
  <2>2. ASSUME NEW b \in Content, wl_surface_attach(s, b) PROVE RefCounts'
    <3>1. /\ ref' = [x \in Buffers |-> (ref[x] + One(x = b)) - One(Dropped(s) = x)]
          /\ pending' = [pending EXCEPT ![s] = b]
          /\ UNCHANGED <<obj, active, buf_cb>>
          /\ b # NoBuffer => Owner[b] = s
      BY <2>2 DEF wl_surface_attach
    <3>2. \A x \in Buffers : Dropped(s) = x <=> pending[s] = x
      BY NoBufferAssumption DEF Dropped, CoreInv, Ownership
    <3>3. SUFFICES ASSUME NEW x \in Buffers
                   PROVE  ref'[x] = One(obj[x]) + One(active[Owner[x]] = x)
                            + One(pending'[Owner[x]] = x) + One(buf_cb[x])
      BY <3>1 DEF RefCounts
    <3>4. /\ ref[x] = One(obj[x]) + One(active[Owner[x]] = x)
                        + One(pending[Owner[x]] = x) + One(buf_cb[x])
          /\ Owner[x] \in Surfaces
      BY OwnerAssumption DEF CoreInv, RefCounts
    <3>5. ref'[x] = (ref[x] + One(x = b)) - One(pending[s] = x)
      BY <3>1, <3>2 DEF One
    <3>6. CASE Owner[x] # s
      <4>1. x # b /\ pending[s] # x
        BY <3>1, <3>6, NoBufferAssumption DEF CoreInv, Ownership, Owned
      <4>2. pending'[Owner[x]] = pending[Owner[x]]
        BY <3>1, <3>4, <3>6 DEF CoreInv, MemTypes, PointerTypes
      <4> QED
        BY <3>4, <3>5, <4>1, <4>2 DEF One
    <3>7. CASE Owner[x] = s
      <4>1. pending'[s] = b
        BY <3>1 DEF CoreInv, MemTypes, PointerTypes
      <4> QED
        BY <3>4, <3>5, <3>7, <4>1 DEF One
    <3> QED
      BY <3>6, <3>7
  <2>3. CASE wl_surface_frame(s)
    BY <1>u, <2>3 DEF wl_surface_frame, bufferVars
  <2>4. CASE wp_presentation_feedback(s)
    BY <1>u, <2>4 DEF wp_presentation_feedback, bufferVars
  <2>5. CASE wl_surface_commit(s)
    <3> DEFINE old == active[s]
               new == IF commited[s] THEN pending[s] ELSE old
    <3>1. /\ ref' = [x \in Buffers |->
                      (ref[x] + One(ReleaseLater(s) /\ x = old))
                        - One(commited[s] /\ x = old)]
          /\ buf_cb' = [x \in Buffers |->
                         buf_cb[x] \/ (ReleaseLater(s) /\ x = old)]
          /\ active' = [active EXCEPT ![s] = new]
          /\ pending' = [pending EXCEPT ![s] = NoBuffer]
          /\ obj' = obj
      BY <2>5 DEF wl_surface_commit
    <3>2. ReleaseLater(s) => commited[s] /\ ~buf_cb[old]
      BY DEF ReleaseLater
    <3>3. SUFFICES ASSUME NEW x \in Buffers
                   PROVE  ref'[x] = One(obj[x]) + One(active'[Owner[x]] = x)
                            + One(pending'[Owner[x]] = x) + One(buf_cb'[x])
      BY <3>1 DEF RefCounts
    <3>4. /\ ref[x] = One(obj[x]) + One(active[Owner[x]] = x)
                        + One(pending[Owner[x]] = x) + One(buf_cb[x])
          /\ Owner[x] \in Surfaces
      BY OwnerAssumption DEF CoreInv, RefCounts
    <3>5. buf_cb'[x] <=> buf_cb[x] \/ (ReleaseLater(s) /\ x = old)
      BY <3>1
    <3>6. CASE Owner[x] # s
      <4>1. x # old
        BY <3>6, NoBufferAssumption DEF CoreInv, Ownership, Owned
      <4>2. active'[Owner[x]] = active[Owner[x]] /\ pending'[Owner[x]] = pending[Owner[x]]
        BY <3>1, <3>4, <3>6
           DEF CoreInv, MemTypes, FlagTypes, PointerTypes, CountTypes
      <4>3. ref'[x] = (ref[x] + One(FALSE)) - One(FALSE)
        BY <3>1, <4>1
      <4> QED
        BY <3>4, <3>5, <4>1, <4>2, <4>3 DEF One
    <3>7. CASE Owner[x] = s
      <4>1. active'[s] = new /\ pending'[s] = NoBuffer /\ x # NoBuffer
        BY <3>1, NoBufferAssumption
           DEF CoreInv, MemTypes, FlagTypes, PointerTypes, CountTypes
      <4>2. ~commited[s] => pending[s] # x
        BY <4>1 DEF CoreInv, Ownership
      <4>3. ref'[x] = (ref[x] + One(ReleaseLater(s) /\ x = old))
                        - One(commited[s] /\ x = old)
        BY <3>1
      <4> QED
        BY <3>2, <3>4, <3>5, <3>7, <4>1, <4>2, <4>3 DEF One
    <3> QED
      BY <3>6, <3>7
  <2>6. CASE wl_surface_destroy(s)
    <3>1. /\ ref' = [x \in Buffers |->
                       ref[x] - (One(active[s] = x) + One(pending[s] = x))]
          /\ active' = [active EXCEPT ![s] = NoBuffer]
          /\ pending' = [pending EXCEPT ![s] = NoBuffer]
          /\ UNCHANGED <<obj, buf_cb>>
      BY <2>6 DEF wl_surface_destroy
    <3>2. SUFFICES ASSUME NEW x \in Buffers
                   PROVE  ref'[x] = One(obj[x]) + One(active'[Owner[x]] = x)
                            + One(pending'[Owner[x]] = x) + One(buf_cb[x])
      BY <3>1 DEF RefCounts
    <3>3. /\ ref[x] = One(obj[x]) + One(active[Owner[x]] = x)
                        + One(pending[Owner[x]] = x) + One(buf_cb[x])
          /\ Owner[x] \in Surfaces /\ x # NoBuffer
      BY OwnerAssumption, NoBufferAssumption DEF CoreInv, RefCounts
    <3>4. ref'[x] = ref[x] - (One(active[s] = x) + One(pending[s] = x))
      BY <3>1
    <3>5. CASE Owner[x] # s
      <4>1. active[s] # x /\ pending[s] # x
        BY <3>3, <3>5 DEF CoreInv, Ownership, Owned
      <4>2. /\ active'[Owner[x]] = active[Owner[x]]
            /\ pending'[Owner[x]] = pending[Owner[x]]
        BY <3>1, <3>3, <3>5 DEF CoreInv, MemTypes, PointerTypes
      <4> QED
        BY <3>3, <3>4, <4>1, <4>2 DEF One
    <3>6. CASE Owner[x] = s
      <4>1. active'[s] = NoBuffer /\ pending'[s] = NoBuffer
        BY <3>1 DEF CoreInv, MemTypes, PointerTypes
      <4> QED
        BY <3>3, <3>4, <3>6, <4>1 DEF One
    <3> QED
      BY <3>5, <3>6
  <2>7. CASE xdg_surface_get_toplevel(s)
    BY <1>u, <2>7 DEF xdg_surface_get_toplevel, surfaceVars, bufferVars
  <2>8. CASE other_surface_destroy(s)
    BY <1>u, <2>8 DEF other_surface_destroy, surfaceVars
  <2>9. CASE xdg_toplevel_destroy(s)
    BY <1>u, <2>9 DEF xdg_toplevel_destroy, surfaceVars
  <2> QED
    BY <1>1, <2>1, <2>2, <2>3, <2>4, <2>5, <2>6, <2>7, <2>8, <2>9 DEF Request
<1>2. ASSUME NEW b \in Buffers, wl_shm_pool_create_buffer(b) PROVE RefCounts'
  BY <1>2, OwnerAssumption, NoBufferAssumption
     DEF wl_shm_pool_create_buffer, CoreInv, MemTypes, FlagTypes,
         PointerTypes, CountTypes, Ownership, RefCounts, Owned, Content, One,
         surfaceVars
<1>3. ASSUME NEW b \in Buffers, wl_buffer_destroy(b) PROVE RefCounts'
  <2>1. /\ obj[b]
        /\ obj' = [obj EXCEPT ![b] = FALSE]
        /\ ref' = [ref EXCEPT ![b] = @ - 1]
        /\ UNCHANGED <<active, pending, buf_cb>>
    BY <1>3 DEF wl_buffer_destroy, surfaceVars
  <2>2. SUFFICES ASSUME NEW x \in Buffers
                 PROVE  ref'[x] = One(obj'[x]) + One(active[Owner[x]] = x)
                          + One(pending[Owner[x]] = x) + One(buf_cb[x])
    BY <2>1 DEF RefCounts
  <2>3. ref[x] = One(obj[x]) + One(active[Owner[x]] = x)
                   + One(pending[Owner[x]] = x) + One(buf_cb[x])
    BY DEF CoreInv, RefCounts
  <2>4. CASE x = b
    BY <2>1, <2>3, <2>4 DEF CoreInv, MemTypes, FlagTypes, CountTypes, One
  <2>5. CASE x # b
    BY <2>1, <2>3, <2>5 DEF CoreInv, MemTypes, FlagTypes, CountTypes
  <2> QED
    BY <2>4, <2>5
<1>4. CASE page_flip_handler
  <2>1. SUFFICES ASSUME NEW x \in Buffers
                 PROVE  ref'[x] = One(obj[x]) + One(active[Owner[x]] = x)
                          + One(pending[Owner[x]] = x) + One(buf_cb'[x])
    BY <1>4 DEF page_flip_handler, RefCounts
  <2>2. /\ ref'[x] = ref[x] - One(Registered(cb, BufferReleased(x)))
        /\ buf_cb'[x] <=> buf_cb[x] /\ ~Registered(cb, BufferReleased(x))
    BY <1>4 DEF page_flip_handler
  <2>3. buf_cb[x] <=> Registered(cb, BufferReleased(x))
    BY DEF CoreInv, CallbackList
  <2>4. ref[x] = One(obj[x]) + One(active[Owner[x]] = x)
                   + One(pending[Owner[x]] = x) + One(buf_cb[x])
    BY DEF CoreInv, RefCounts
  <2> QED
    BY <2>2, <2>3, <2>4 DEF One
<1>5. CASE UNCHANGED vars
  BY <1>u, <1>5 DEF vars, surfaceVars, bufferVars
<1> QED
  BY <1>1, <1>2, <1>3, <1>4, <1>5 DEF Next

(* The flags stay flags.                                                   *)
LEMMA FlagTypesStep == CoreInv /\ [Next]_vars => FlagTypes'
<1> SUFFICES ASSUME CoreInv, [Next]_vars PROVE FlagTypes'
  OBVIOUS
<1>1. ASSUME NEW s \in Surfaces, Request(s) PROVE FlagTypes'
  <2>1. CASE wl_compositor_create_surface(s)
    BY <2>1
       DEF wl_compositor_create_surface, CoreInv, MemTypes, FlagTypes,
           bufferVars, sceneVars
  <2>2. ASSUME NEW b \in Content, wl_surface_attach(s, b) PROVE FlagTypes'
    BY <2>2 DEF wl_surface_attach, CoreInv, MemTypes, FlagTypes, sceneVars
  <2>3. CASE wl_surface_frame(s)
    BY <2>3
       DEF wl_surface_frame, CoreInv, MemTypes, FlagTypes, bufferVars,
           sceneVars
  <2>4. CASE wp_presentation_feedback(s)
    BY <2>4
       DEF wp_presentation_feedback, CoreInv, MemTypes, FlagTypes, bufferVars,
           sceneVars
  <2>5. CASE wl_surface_commit(s)
    BY <2>5 DEF wl_surface_commit, CoreInv, MemTypes, FlagTypes
  <2>6. CASE wl_surface_destroy(s)
    BY <2>6 DEF wl_surface_destroy, CoreInv, MemTypes, FlagTypes, sceneVars
  <2>7. CASE xdg_surface_get_toplevel(s)
    BY <2>7
       DEF xdg_surface_get_toplevel, CoreInv, MemTypes, FlagTypes,
           surfaceVars, bufferVars
  <2>8. CASE other_surface_destroy(s)
    BY <2>8
       DEF other_surface_destroy, CoreInv, MemTypes, FlagTypes,
           surfaceVars
  <2>9. CASE xdg_toplevel_destroy(s)
    BY <2>9 DEF xdg_toplevel_destroy, CoreInv, MemTypes, FlagTypes, surfaceVars
  <2> QED
    BY <1>1, <2>1, <2>2, <2>3, <2>4, <2>5, <2>6, <2>7, <2>8, <2>9 DEF Request
<1>2. ASSUME NEW b \in Buffers, wl_shm_pool_create_buffer(b) PROVE FlagTypes'
  BY <1>2
     DEF wl_shm_pool_create_buffer, CoreInv, MemTypes, FlagTypes, surfaceVars,
         sceneVars
<1>3. ASSUME NEW b \in Buffers, wl_buffer_destroy(b) PROVE FlagTypes'
  BY <1>3
     DEF wl_buffer_destroy, CoreInv, MemTypes, FlagTypes, surfaceVars,
         sceneVars
<1>4. CASE page_flip_handler
  BY <1>4 DEF page_flip_handler, CoreInv, MemTypes, FlagTypes, sceneVars
<1>5. CASE UNCHANGED vars
  BY <1>5
     DEF vars, CoreInv, MemTypes, FlagTypes, surfaceVars, bufferVars,
         sceneVars
<1> QED
  BY <1>1, <1>2, <1>3, <1>4, <1>5 DEF Next

(* The pointers of a surface stay pointers to buffers, or NULL.            *)
LEMMA PointerTypesStep == CoreInv /\ [Next]_vars => PointerTypes'
<1> SUFFICES ASSUME CoreInv, [Next]_vars PROVE PointerTypes'
  OBVIOUS
<1>1. ASSUME NEW s \in Surfaces, Request(s) PROVE PointerTypes'
  <2>1. CASE wl_compositor_create_surface(s)
    BY <2>1
       DEF wl_compositor_create_surface, CoreInv, MemTypes, PointerTypes,
           Content, c_scene_node_update, sceneVars
  <2>2. ASSUME NEW b \in Content, wl_surface_attach(s, b) PROVE PointerTypes'
    BY <2>2
       DEF wl_surface_attach, CoreInv, MemTypes, PointerTypes, Content,
           c_scene_node_update, sceneVars
  <2>3. CASE wl_surface_frame(s)
    BY <2>3
       DEF wl_surface_frame, CoreInv, MemTypes, PointerTypes, Content,
           c_scene_node_update, sceneVars
  <2>4. CASE wp_presentation_feedback(s)
    BY <2>4
       DEF wp_presentation_feedback, CoreInv, MemTypes, PointerTypes, Content,
           c_scene_node_update, sceneVars
  <2>5. CASE wl_surface_commit(s)
    BY <2>5
       DEF wl_surface_commit, CoreInv, MemTypes, PointerTypes, Content,
           c_scene_node_update
  <2>6. CASE wl_surface_destroy(s)
    BY <2>6
       DEF wl_surface_destroy, CoreInv, MemTypes, PointerTypes, Content,
           c_scene_node_update, sceneVars
  <2>7. CASE xdg_surface_get_toplevel(s)
    BY <2>7
       DEF xdg_surface_get_toplevel, CoreInv, MemTypes, PointerTypes, Content,
           c_scene_node_update, surfaceVars
  <2>8. CASE other_surface_destroy(s)
    BY <2>8
       DEF other_surface_destroy, CoreInv, MemTypes, PointerTypes,
           Content, c_scene_node_update, surfaceVars
  <2>9. CASE xdg_toplevel_destroy(s)
    BY <2>9
       DEF xdg_toplevel_destroy, CoreInv, MemTypes, PointerTypes, Content,
           c_scene_node_update, surfaceVars
  <2> QED
    BY <1>1, <2>1, <2>2, <2>3, <2>4, <2>5, <2>6, <2>7, <2>8, <2>9 DEF Request
<1>2. ASSUME NEW b \in Buffers, wl_shm_pool_create_buffer(b) PROVE PointerTypes'
  BY <1>2
     DEF wl_shm_pool_create_buffer, CoreInv, MemTypes, PointerTypes, Content,
         c_scene_node_update, surfaceVars, sceneVars
<1>3. ASSUME NEW b \in Buffers, wl_buffer_destroy(b) PROVE PointerTypes'
  BY <1>3
     DEF wl_buffer_destroy, CoreInv, MemTypes, PointerTypes, Content,
         c_scene_node_update, surfaceVars, sceneVars
<1>4. CASE page_flip_handler
  BY <1>4
     DEF page_flip_handler, CoreInv, MemTypes, PointerTypes, Content,
         c_scene_node_update, sceneVars
<1>5. CASE UNCHANGED vars
  BY <1>5 DEF vars, CoreInv, MemTypes, PointerTypes, surfaceVars, sceneVars
<1> QED
  BY <1>1, <1>2, <1>3, <1>4, <1>5 DEF Next

(* The arrays of frames and feedbacks are not overrun; an answer to        *)
(* feedback objects is an answer to all that wait.                         *)
LEMMA CountTypesStep == CoreInv /\ [Next]_vars => CountTypes'
<1> SUFFICES ASSUME CoreInv, [Next]_vars PROVE CountTypes'
  OBVIOUS
<1>1. ASSUME NEW s \in Surfaces, Request(s) PROVE CountTypes'
  <2>1. CASE wl_compositor_create_surface(s)
    BY <2>1, BoundsAssumption
       DEF wl_compositor_create_surface, CoreInv, MemTypes, CountTypes,
           backing_refs, One, bufferVars
  <2>2. ASSUME NEW b \in Content, wl_surface_attach(s, b) PROVE CountTypes'
    <3>1. /\ ref' = [x \in Buffers |-> (ref[x] + One(x = b)) - One(Dropped(s) = x)]
          /\ backing' = backing_refs(ref', quad)
          /\ UNCHANGED <<frames_n, feedbacks_n, due, awaiting>>
      BY <2>2 DEF wl_surface_attach
    <3>2. ref' \in [Buffers -> Int]
      BY <3>1 DEF CoreInv, MemTypes, CountTypes, One
    <3>3. backing' \in [Buffers -> Int]
      BY <3>1 DEF CoreInv, MemTypes, CountTypes, backing_refs, One
    <3> QED
      BY <3>1, <3>2, <3>3 DEF CoreInv, MemTypes, CountTypes
  <2>3. CASE wl_surface_frame(s)
    BY <2>3, BoundsAssumption
       DEF wl_surface_frame, CoreInv, MemTypes, CountTypes, backing_refs, One,
           bufferVars
  <2>4. CASE wp_presentation_feedback(s)
    <3>1. /\ alive[s] /\ feedbacks_n[s] < MaxFeedbacks
          /\ feedbacks_n' = [feedbacks_n EXCEPT ![s] = @ + 1]
          /\ awaiting' = [awaiting EXCEPT ![s] = @ + 1]
          /\ UNCHANGED <<frames_n, due, ref, backing>>
      BY <2>4 DEF wp_presentation_feedback, bufferVars
    <3>2. awaiting[s] = feedbacks_n[s]
      BY <3>1 DEF CoreInv, Ownership
    <3>3. feedbacks_n[s] + 1 \in 0 .. MaxFeedbacks
      BY <3>1, BoundsAssumption DEF CoreInv, MemTypes, CountTypes
    <3> QED
      BY <3>1, <3>2, <3>3 DEF CoreInv, MemTypes, CountTypes
  <2>5. CASE wl_surface_commit(s)
    <3>1. /\ ref' = [x \in Buffers |->
                       (ref[x] + One(ReleaseLater(s) /\ x = active[s]))
                         - One(commited[s] /\ x = active[s])]
          /\ backing' = backing_refs(ref', quad')
          /\ due' = [due EXCEPT ![s] = frames_n[s]]
          /\ UNCHANGED <<frames_n, feedbacks_n, awaiting>>
      BY <2>5 DEF wl_surface_commit
    <3>2. ref' \in [Buffers -> Int]
      BY <3>1 DEF CoreInv, MemTypes, CountTypes, One
    <3>3. backing' \in [Buffers -> Int]
      BY <3>1 DEF CoreInv, MemTypes, CountTypes, backing_refs, One
    <3>4. due' \in [Surfaces -> 0 .. MaxFrames]
      BY <3>1 DEF CoreInv, MemTypes, CountTypes
    <3> QED
      BY <3>1, <3>2, <3>3, <3>4 DEF CoreInv, MemTypes, CountTypes
  <2>6. CASE wl_surface_destroy(s)
    <3>1. /\ frames_n' = [frames_n EXCEPT ![s] = 0]
          /\ feedbacks_n' = [feedbacks_n EXCEPT ![s] = 0]
          /\ ref' = [x \in Buffers |->
                       ref[x] - (One(active[s] = x) + One(pending[s] = x))]
          /\ backing' = backing_refs(ref', quad)
      BY <2>6 DEF wl_surface_destroy
    <3>2. ref' \in [Buffers -> Int]
      BY <3>1 DEF CoreInv, MemTypes, CountTypes, One
    <3>3. backing' \in [Buffers -> Int]
      BY <3>1 DEF CoreInv, MemTypes, CountTypes, backing_refs, One
    <3>4. /\ awaiting' = [awaiting EXCEPT ![s] = @ - One(feedbacks_n[s] > 0)]
          /\ due' = [due EXCEPT ![s] = 0]
      BY <2>6 DEF wl_surface_destroy
    <3>5. alive[s] /\ awaiting[s] = feedbacks_n[s]
      BY <2>6 DEF wl_surface_destroy, CoreInv, Ownership
    <3>6. awaiting' \in [Surfaces -> 0 .. MaxFeedbacks]
      <4>1. awaiting[s] - One(feedbacks_n[s] > 0) \in 0 .. MaxFeedbacks
        BY <3>5, BoundsAssumption DEF CoreInv, MemTypes, CountTypes, One
      <4> QED
        BY <3>4, <4>1 DEF CoreInv, MemTypes, CountTypes
    <3>7. /\ frames_n' \in [Surfaces -> 0 .. MaxFrames]
          /\ due' \in [Surfaces -> 0 .. MaxFrames]
          /\ feedbacks_n' \in [Surfaces -> 0 .. MaxFeedbacks]
      BY <3>1, <3>4, BoundsAssumption DEF CoreInv, MemTypes, CountTypes
    <3> QED
      BY <3>2, <3>3, <3>6, <3>7 DEF CountTypes
  <2>7. CASE xdg_surface_get_toplevel(s)
    BY <2>7, BoundsAssumption
       DEF xdg_surface_get_toplevel, CoreInv, MemTypes, CountTypes,
           backing_refs, One, surfaceVars, bufferVars
  <2>8. CASE other_surface_destroy(s)
    BY <2>8, BoundsAssumption
       DEF other_surface_destroy, CoreInv, MemTypes, CountTypes,
           backing_refs, One, surfaceVars
  <2>9. CASE xdg_toplevel_destroy(s)
    BY <2>9, BoundsAssumption
       DEF xdg_toplevel_destroy, CoreInv, MemTypes, CountTypes, backing_refs,
           One, surfaceVars
  <2> QED
    BY <1>1, <2>1, <2>2, <2>3, <2>4, <2>5, <2>6, <2>7, <2>8, <2>9 DEF Request
<1>2. ASSUME NEW b \in Buffers, wl_shm_pool_create_buffer(b) PROVE CountTypes'
  BY <1>2, BoundsAssumption
     DEF wl_shm_pool_create_buffer, CoreInv, MemTypes, CountTypes,
         backing_refs, One, surfaceVars
<1>3. ASSUME NEW b \in Buffers, wl_buffer_destroy(b) PROVE CountTypes'
  BY <1>3, BoundsAssumption
     DEF wl_buffer_destroy, CoreInv, MemTypes, CountTypes, backing_refs, One,
         surfaceVars
<1>4. CASE page_flip_handler
  <2>1. /\ frames_n' = [s \in Surfaces |-> IF Registered(cb, DoneFrames(s)) THEN 0
                                           ELSE frames_n[s]]
        /\ due' = [s \in Surfaces |-> IF Registered(cb, DoneFrames(s)) THEN 0
                                      ELSE due[s]]
        /\ feedbacks_n' = [s \in Surfaces |-> IF Registered(cb, Presented(s)) THEN 0
                                              ELSE feedbacks_n[s]]
        /\ awaiting' = [s \in Surfaces |-> IF Registered(cb, Presented(s))
                                           THEN awaiting[s] - feedbacks_n[s]
                                           ELSE awaiting[s]]
        /\ ref' = [b \in Buffers |-> ref[b] - One(Registered(cb, BufferReleased(b)))]
        /\ backing' = backing_refs(ref', quad)
    BY <1>4 DEF page_flip_handler
  <2>2. /\ frames_n' \in [Surfaces -> 0 .. MaxFrames]
        /\ due' \in [Surfaces -> 0 .. MaxFrames]
        /\ feedbacks_n' \in [Surfaces -> 0 .. MaxFeedbacks]
    BY <2>1, BoundsAssumption DEF CoreInv, MemTypes, CountTypes
  <2>3. ref' \in [Buffers -> Int]
    BY <2>1 DEF CoreInv, MemTypes, CountTypes, One
  <2>4. backing' \in [Buffers -> Int]
    BY <2>1 DEF CoreInv, MemTypes, CountTypes, backing_refs, One
  <2>5. \A s \in Surfaces :
          Registered(cb, Presented(s)) => awaiting[s] - feedbacks_n[s] = 0
    <3>1. \A s \in Surfaces : awaiting[s] \in Int
      BY BoundsAssumption DEF CoreInv, MemTypes, CountTypes
    <3> QED
      BY <3>1 DEF CoreInv, CallbackList, Ownership
  <2>6. awaiting' \in [Surfaces -> 0 .. MaxFeedbacks]
    BY <2>1, <2>5, BoundsAssumption DEF CoreInv, MemTypes, CountTypes
  <2> QED
    BY <2>2, <2>3, <2>4, <2>6 DEF CountTypes
<1>5. CASE UNCHANGED vars
  BY <1>5
     DEF vars, CoreInv, MemTypes, CountTypes, surfaceVars, bufferVars,
         clientVars
<1> QED
  BY <1>1, <1>2, <1>3, <1>4, <1>5 DEF Next

(* c_output_listen adds one entry, and no duplicate if it is not there yet. *)
LEMMA ListenedProperties ==
  ASSUME NEW S, NEW list \in Seq(S), NEW p, NEW e \in S
  PROVE  /\ Listened(list, p, e) \in Seq(S)
         /\ \A f : Registered(Listened(list, p, e), f) <=>
                     Registered(list, f) \/ (p /\ f = e)
         /\ Distinct(list) /\ (p => ~Registered(list, e)) =>
              Distinct(Listened(list, p, e))
<1>1. CASE p
  BY <1>1, RegisteredAppend, DistinctAppend DEF Listened
<1>2. CASE ~p
  BY <1>2 DEF Listened
<1> QED
  BY <1>1, <1>2

(* No two callbacks have the same name.                                    *)
LEMMA CallbackNames ==
  /\ \A b \in Buffers, s \in Surfaces :
       /\ BufferReleased(b) # DoneFrames(s)
       /\ BufferReleased(b) # Presented(s)
       /\ DoneFrames(s) # BufferReleased(b)
       /\ Presented(s) # BufferReleased(b)
  /\ \A s, t \in Surfaces :
       /\ DoneFrames(s) # Presented(t)
       /\ DoneFrames(s) = DoneFrames(t) => s = t
       /\ Presented(s) = Presented(t) => s = t
  /\ \A a, b \in Buffers : BufferReleased(a) = BufferReleased(b) => a = b
BY DEF BufferReleased, DoneFrames, Presented

(* The entries the code adds are entries of the list.                      *)
LEMMA CallbackMembers ==
  /\ \A b \in Buffers : BufferReleased(b) \in Callbacks
  /\ \A s \in Surfaces : DoneFrames(s) \in Callbacks /\ Presented(s) \in Callbacks
BY DEF Callbacks

(* The callback list stays a list of callbacks.                            *)
LEMMA ListTypeStep == CoreInv /\ [Next]_vars => (cb \in Seq(Callbacks))'
<1> SUFFICES ASSUME CoreInv, [Next]_vars PROVE (cb \in Seq(Callbacks))'
  OBVIOUS
<1>u. ASSUME UNCHANGED cb PROVE (cb \in Seq(Callbacks))'
  BY <1>u DEF CoreInv, MemTypes
<1>1. ASSUME NEW s \in Surfaces, Request(s) PROVE (cb \in Seq(Callbacks))'
  <2>1. CASE wl_compositor_create_surface(s)
    BY <2>1, <1>u DEF wl_compositor_create_surface, outputVars
  <2>2. ASSUME NEW b \in Content, wl_surface_attach(s, b) PROVE (cb \in Seq(Callbacks))'
    BY <2>2, <1>u DEF wl_surface_attach, outputVars
  <2>3. CASE wl_surface_frame(s)
    BY <2>3, <1>u DEF wl_surface_frame, outputVars
  <2>4. CASE wp_presentation_feedback(s)
    BY <2>4, ListenedProperties, CallbackMembers
       DEF wp_presentation_feedback, CoreInv, MemTypes
  <2>5. CASE wl_surface_commit(s)
    <3>1. CASE ReleaseLater(s)
      <4>1. BufferReleased(active[s]) \in Callbacks
        BY <3>1, CallbackMembers
           DEF ReleaseLater, CoreInv, MemTypes, PointerTypes, Content
      <4>2. Listened(cb, TRUE, BufferReleased(active[s])) \in Seq(Callbacks)
        BY <4>1, ListenedProperties DEF CoreInv, MemTypes
      <4> QED
        BY <2>5, <3>1, <4>2, ListenedProperties, CallbackMembers
           DEF wl_surface_commit
    <3>2. CASE ~ReleaseLater(s)
      <4>1. cb' = Listened(cb, ListenFrames(s), DoneFrames(s))
        BY <2>5, <3>2 DEF wl_surface_commit, Listened
      <4> QED
        BY <4>1, ListenedProperties, CallbackMembers DEF CoreInv, MemTypes
    <3> QED
      BY <3>1, <3>2
  <2>6. CASE wl_surface_destroy(s)
    <3>1. /\ Without(cb, Presented(s)) \in Seq(Callbacks)
          /\ Without(Without(cb, Presented(s)), DoneFrames(s)) \in Seq(Callbacks)
      BY WithoutProperties DEF CoreInv, MemTypes
    <3> QED
      BY <2>6, <1>u, <3>1 DEF wl_surface_destroy
  <2>7. CASE xdg_surface_get_toplevel(s)
    BY <2>7, <1>u DEF xdg_surface_get_toplevel
  <2>8. CASE other_surface_destroy(s)
    BY <2>8, <1>u DEF other_surface_destroy
  <2>9. CASE xdg_toplevel_destroy(s)
    BY <2>9, <1>u DEF xdg_toplevel_destroy
  <2> QED
    BY <1>1, <2>1, <2>2, <2>3, <2>4, <2>5, <2>6, <2>7, <2>8, <2>9 DEF Request
<1>2. ASSUME NEW b \in Buffers, wl_shm_pool_create_buffer(b) PROVE (cb \in Seq(Callbacks))'
  BY <1>2, <1>u DEF wl_shm_pool_create_buffer, outputVars
<1>3. ASSUME NEW b \in Buffers, wl_buffer_destroy(b) PROVE (cb \in Seq(Callbacks))'
  BY <1>3, <1>u DEF wl_buffer_destroy, outputVars
<1>4. CASE page_flip_handler
  BY <1>4 DEF page_flip_handler
<1>5. CASE UNCHANGED vars
  BY <1>u, <1>5 DEF vars, outputVars
<1> QED
  BY <1>1, <1>2, <1>3, <1>4, <1>5 DEF Next

(* All of the types of the memory.                                         *)
LEMMA MemTypesStep == CoreInv /\ [Next]_vars => MemTypes'
BY FlagTypesStep, PointerTypesStep, CountTypesStep, ListTypeStep DEF MemTypes

(* Every step that sets or clears a callback pointer adds or removes its   *)
(* entry, and a surface that goes takes its entries along.                 *)
LEMMA CallbackListStep == CoreInv /\ [Next]_vars => CallbackList'
<1> SUFFICES ASSUME CoreInv, [Next]_vars PROVE CallbackList'
  OBVIOUS
<1>u. ASSUME UNCHANGED <<cb, buf_cb, frame_cb, feedback_cb>>,
             \A s \in Surfaces :
               /\ frame_cb[s] => alive'[s] /\ output'[s] /\ frames_n'[s] > 0
               /\ feedback_cb[s] => alive'[s] /\ output'[s] /\ feedbacks_n'[s] > 0
      PROVE  CallbackList'
  BY <1>u DEF CoreInv, CallbackList, Registered
<1>v. ASSUME UNCHANGED <<cb, buf_cb, frame_cb, feedback_cb, alive, output, frames_n,
                         feedbacks_n>>
      PROVE  CallbackList'
  BY <1>u, <1>v DEF CoreInv, CallbackList
<1>c. /\ cb \in Seq(Callbacks) /\ Distinct(cb)
      /\ \A b \in Buffers : buf_cb[b] <=> Registered(cb, BufferReleased(b))
      /\ \A s \in Surfaces :
           /\ frame_cb[s] <=> Registered(cb, DoneFrames(s))
           /\ feedback_cb[s] <=> Registered(cb, Presented(s))
           /\ frame_cb[s] => alive[s] /\ output[s] /\ frames_n[s] > 0
           /\ feedback_cb[s] => alive[s] /\ output[s] /\ feedbacks_n[s] > 0
  BY DEF CoreInv, MemTypes, CallbackList, Distinct
<1>1. ASSUME NEW s \in Surfaces, Request(s) PROVE CallbackList'
  <2>1. CASE wl_compositor_create_surface(s)
    BY <2>1, <1>u, <1>c, BoundsAssumption
       DEF wl_compositor_create_surface, CoreInv, MemTypes, FlagTypes,
           CountTypes, bufferVars, outputVars
  <2>2. ASSUME NEW b \in Content, wl_surface_attach(s, b) PROVE CallbackList'
    BY <2>2, <1>v DEF wl_surface_attach, outputVars
  <2>3. CASE wl_surface_frame(s)
    BY <2>3, <1>u, <1>c, BoundsAssumption
       DEF wl_surface_frame, CoreInv, MemTypes, FlagTypes, CountTypes,
           bufferVars, outputVars
  <2>4. CASE wp_presentation_feedback(s)
    <3> DEFINE p == ~feedback_cb[s] /\ output[s]
    <3>1. /\ cb' = Listened(cb, p, Presented(s))
          /\ feedback_cb' = [feedback_cb EXCEPT ![s] = @ \/ output[s]]
          /\ feedbacks_n' = [feedbacks_n EXCEPT ![s] = @ + 1]
          /\ alive[s]
          /\ UNCHANGED <<buf_cb, frame_cb, alive, output, frames_n>>
      BY <2>4 DEF wp_presentation_feedback, bufferVars
    <3>2. Distinct(cb') /\ \A f : Registered(cb', f) <=>
                                   Registered(cb, f) \/ (p /\ f = Presented(s))
      BY <1>c, <3>1, ListenedProperties, CallbackMembers
    <3>3. \A b \in Buffers : buf_cb'[b] <=> Registered(cb', BufferReleased(b))
      BY <1>c, <3>1, <3>2, CallbackNames
    <3>4. ASSUME NEW t \in Surfaces
          PROVE  /\ frame_cb'[t] <=> Registered(cb', DoneFrames(t))
                 /\ feedback_cb'[t] <=> Registered(cb', Presented(t))
                 /\ frame_cb'[t] => alive'[t] /\ output'[t] /\ frames_n'[t] > 0
      BY <1>c, <3>1, <3>2, CallbackNames DEF CoreInv, MemTypes, FlagTypes
    <3>5. ASSUME NEW t \in Surfaces, feedback_cb'[t]
          PROVE  alive'[t] /\ output'[t] /\ feedbacks_n'[t] > 0
      <4>1. alive'[t] /\ output'[t] /\ (t = s \/ feedback_cb[t])
        BY <1>c, <3>1, <3>5 DEF CoreInv, MemTypes, FlagTypes
      <4> QED
        BY <1>c, <3>1, <4>1, BoundsAssumption DEF CoreInv, MemTypes, CountTypes
    <3> QED
      BY <3>2, <3>3, <3>4, <3>5 DEF CallbackList, Distinct
  <2>5. CASE wl_surface_commit(s)
    <3> DEFINE rl == ReleaseLater(s)
               lf == ListenFrames(s)
               mid == Listened(cb, rl, BufferReleased(active[s]))
    <3>1. /\ cb' = Listened(mid, lf, DoneFrames(s))
          /\ buf_cb' = [x \in Buffers |-> buf_cb[x] \/ (rl /\ x = active[s])]
          /\ frame_cb' = [frame_cb EXCEPT ![s] = @ \/ lf]
          /\ output' = [output EXCEPT ![s] = @ \/ s \in BindsOutput]
          /\ alive[s]
          /\ UNCHANGED <<feedback_cb, alive, frames_n, feedbacks_n>>
      BY <2>5 DEF wl_surface_commit
    <3>2. /\ rl => active[s] \in Buffers /\ ~buf_cb[active[s]]
          /\ lf => ~frame_cb[s] /\ output[s] /\ frames_n[s] > 0
      BY DEF ReleaseLater, ListenFrames, CoreInv, MemTypes, PointerTypes,
             Content
    <3> HIDE DEF rl, lf
    <3>3. /\ mid \in Seq(Callbacks) /\ Distinct(mid)
          /\ \A f : Registered(mid, f) <=>
                       Registered(cb, f) \/ (rl /\ f = BufferReleased(active[s]))
      <4>1. CASE rl
        <5>1. /\ BufferReleased(active[s]) \in Callbacks
              /\ ~Registered(cb, BufferReleased(active[s]))
          BY <1>c, <3>2, <4>1, CallbackMembers
        <5> QED
          BY <1>c, <4>1, <5>1, ListenedProperties
      <4>2. CASE ~rl
        BY <1>c, <4>2 DEF Listened
      <4> QED
        BY <4>1, <4>2
    <3> HIDE DEF mid
    <3>4. /\ Distinct(cb')
          /\ \A f : Registered(cb', f) <=> \/ Registered(cb, f)
                                           \/ rl /\ f = BufferReleased(active[s])
                                           \/ lf /\ f = DoneFrames(s)
      <4>1. lf => ~Registered(mid, DoneFrames(s))
        BY <1>c, <3>2, <3>3, CallbackNames
      <4> QED
        BY <3>1, <3>3, <4>1, ListenedProperties, CallbackMembers
    <3>5. \A b \in Buffers : buf_cb'[b] <=> Registered(cb', BufferReleased(b))
      BY <1>c, <3>1, <3>2, <3>4, CallbackNames
    <3>6. ASSUME NEW t \in Surfaces
          PROVE  /\ frame_cb'[t] <=> Registered(cb', DoneFrames(t))
                 /\ feedback_cb'[t] <=> Registered(cb', Presented(t))
      BY <1>c, <3>1, <3>2, <3>4, CallbackNames DEF CoreInv, MemTypes, FlagTypes
    <3>7. ASSUME NEW t \in Surfaces
          PROVE  /\ frame_cb'[t] => alive'[t] /\ output'[t] /\ frames_n'[t] > 0
                 /\ feedback_cb'[t] => alive'[t] /\ output'[t] /\ feedbacks_n'[t] > 0
      BY <1>c, <3>1, <3>2 DEF CoreInv, MemTypes, FlagTypes
    <3> QED
      BY <3>4, <3>5, <3>6, <3>7 DEF CallbackList, Distinct
  <2>6. CASE wl_surface_destroy(s)
    <3>1. /\ cb' = IF output[s] THEN Without(Without(cb, Presented(s)), DoneFrames(s))
                    ELSE cb
          /\ frame_cb' = [frame_cb EXCEPT ![s] = @ /\ ~output[s]]
          /\ feedback_cb' = [feedback_cb EXCEPT ![s] = @ /\ ~output[s]]
          /\ alive' = [alive EXCEPT ![s] = FALSE]
          /\ output' = [output EXCEPT ![s] = FALSE]
          /\ frames_n' = [frames_n EXCEPT ![s] = 0]
          /\ feedbacks_n' = [feedbacks_n EXCEPT ![s] = 0]
          /\ UNCHANGED buf_cb
      BY <2>6 DEF wl_surface_destroy
    <3>2. ~frame_cb'[s] /\ ~feedback_cb'[s]
      BY <1>c, <3>1 DEF CoreInv, MemTypes, FlagTypes
    <3>3. /\ Distinct(cb')
          /\ \A f : f # Presented(s) /\ f # DoneFrames(s) =>
                     (Registered(cb', f) <=> Registered(cb, f))
          /\ ~Registered(cb', Presented(s)) /\ ~Registered(cb', DoneFrames(s))
      <4>1. CASE output[s]
        <5> DEFINE mid == Without(cb, Presented(s))
        <5>1. /\ mid \in Seq(Callbacks) /\ Distinct(mid)
              /\ \A f : f # Presented(s) => (Registered(mid, f) <=> Registered(cb, f))
              /\ ~Registered(mid, Presented(s))
          BY <1>c, WithoutProperties
        <5>2. cb' = Without(mid, DoneFrames(s))
          BY <3>1, <4>1
        <5> HIDE DEF mid
        <5>3. /\ Distinct(cb')
              /\ \A f : f # DoneFrames(s) => (Registered(cb', f) <=> Registered(mid, f))
              /\ ~Registered(cb', DoneFrames(s))
          BY <5>1, <5>2, WithoutProperties
        <5> QED
          BY <5>1, <5>3, CallbackNames
      <4>2. CASE ~output[s]
        BY <1>c, <3>1, <4>2
      <4> QED
        BY <4>1, <4>2
    <3>4. \A b \in Buffers : buf_cb'[b] <=> Registered(cb', BufferReleased(b))
      BY <1>c, <3>1, <3>3, CallbackNames
    <3>5. ASSUME NEW t \in Surfaces
          PROVE  /\ frame_cb'[t] <=> Registered(cb', DoneFrames(t))
                 /\ feedback_cb'[t] <=> Registered(cb', Presented(t))
      BY <1>c, <3>1, <3>2, <3>3, CallbackNames DEF CoreInv, MemTypes, FlagTypes
    <3>6. ASSUME NEW t \in Surfaces
          PROVE  /\ frame_cb'[t] => alive'[t] /\ output'[t] /\ frames_n'[t] > 0
                 /\ feedback_cb'[t] => alive'[t] /\ output'[t] /\ feedbacks_n'[t] > 0
      BY <1>c, <3>1, <3>2 DEF CoreInv, MemTypes, FlagTypes, CountTypes
    <3> QED
      BY <3>3, <3>4, <3>5, <3>6 DEF CallbackList, Distinct
  <2>7. CASE xdg_surface_get_toplevel(s)
    BY <2>7, <1>v DEF xdg_surface_get_toplevel, surfaceVars, bufferVars
  <2>8. CASE other_surface_destroy(s)
    BY <2>8, <1>v DEF other_surface_destroy, surfaceVars
  <2>9. CASE xdg_toplevel_destroy(s)
    BY <2>9, <1>v DEF xdg_toplevel_destroy, surfaceVars
  <2> QED
    BY <1>1, <2>1, <2>2, <2>3, <2>4, <2>5, <2>6, <2>7, <2>8, <2>9 DEF Request
<1>2. ASSUME NEW b \in Buffers, wl_shm_pool_create_buffer(b) PROVE CallbackList'
  BY <1>2, <1>v DEF wl_shm_pool_create_buffer, surfaceVars, outputVars
<1>3. ASSUME NEW b \in Buffers, wl_buffer_destroy(b) PROVE CallbackList'
  BY <1>3, <1>v DEF wl_buffer_destroy, surfaceVars, outputVars
<1>4. CASE page_flip_handler
  <2>1. /\ cb' = <<>>
        /\ \A b \in Buffers : ~buf_cb'[b]
        /\ \A s \in Surfaces : ~frame_cb'[s] /\ ~feedback_cb'[s]
    BY <1>c, <1>4 DEF page_flip_handler
  <2> QED
    BY <2>1, RegisteredEmpty DEF CallbackList
<1>5. CASE UNCHANGED vars
  BY <1>v, <1>5 DEF vars, surfaceVars, bufferVars, outputVars
<1> QED
  BY <1>1, <1>2, <1>3, <1>4, <1>5 DEF Next

(* A surface never comes to hold a buffer of another one.                  *)
LEMMA OwnershipStep == CoreInv /\ [Next]_vars => Ownership'
<1> SUFFICES ASSUME CoreInv, [Next]_vars PROVE Ownership'
  OBVIOUS
<1>u. ASSUME UNCHANGED <<alive, pending, commited, active, output, frames_n,
                         feedbacks_n, quad, awaiting>>
      PROVE  Ownership'
  BY <1>u DEF CoreInv, Ownership, Owned
<1>1. ASSUME NEW s \in Surfaces, Request(s) PROVE Ownership'
  <2>1. CASE wl_compositor_create_surface(s)
    BY <2>1, NoBufferAssumption
       DEF wl_compositor_create_surface, CoreInv, MemTypes, FlagTypes,
           PointerTypes, CountTypes, Ownership, Owned, Content, sceneVars
  <2>2. ASSUME NEW b \in Content, wl_surface_attach(s, b) PROVE Ownership'
    BY <2>2, NoBufferAssumption
       DEF wl_surface_attach, CoreInv, MemTypes, FlagTypes, PointerTypes,
           CountTypes, Ownership, Owned, Content, sceneVars
  <2>3. CASE wl_surface_frame(s)
    BY <2>3, NoBufferAssumption
       DEF wl_surface_frame, CoreInv, MemTypes, FlagTypes, PointerTypes,
           CountTypes, Ownership, Owned, Content, sceneVars
  <2>4. CASE wp_presentation_feedback(s)
    BY <2>4, NoBufferAssumption
       DEF wp_presentation_feedback, CoreInv, MemTypes, FlagTypes,
           PointerTypes, CountTypes, Ownership, Owned, Content, sceneVars
  <2>5. CASE wl_surface_commit(s)
    BY <2>5, NoBufferAssumption
       DEF wl_surface_commit, CoreInv, MemTypes, FlagTypes, PointerTypes,
           CountTypes, Ownership, Owned, Content, c_scene_node_update
  <2>6. CASE wl_surface_destroy(s)
    BY <2>6, NoBufferAssumption
       DEF wl_surface_destroy, CoreInv, MemTypes, FlagTypes, PointerTypes,
           CountTypes, Ownership, Owned, Content, sceneVars
  <2>7. CASE xdg_surface_get_toplevel(s)
    BY <2>7, <1>u DEF xdg_surface_get_toplevel, surfaceVars
  <2>8. CASE other_surface_destroy(s)
    BY <2>8, NoBufferAssumption
       DEF other_surface_destroy, CoreInv, MemTypes, FlagTypes,
           PointerTypes, CountTypes, Ownership, Owned, Content,
           c_scene_node_update, surfaceVars
  <2>9. CASE xdg_toplevel_destroy(s)
    BY <2>9, NoBufferAssumption
       DEF xdg_toplevel_destroy, CoreInv, MemTypes, FlagTypes, PointerTypes,
           CountTypes, Ownership, Owned, Content, surfaceVars
  <2> QED
    BY <1>1, <2>1, <2>2, <2>3, <2>4, <2>5, <2>6, <2>7, <2>8, <2>9 DEF Request
<1>2. ASSUME NEW b \in Buffers, wl_shm_pool_create_buffer(b) PROVE Ownership'
  BY <1>2, <1>u DEF wl_shm_pool_create_buffer, surfaceVars, sceneVars
<1>3. ASSUME NEW b \in Buffers, wl_buffer_destroy(b) PROVE Ownership'
  BY <1>3, <1>u DEF wl_buffer_destroy, surfaceVars, sceneVars
<1>4. CASE page_flip_handler
  BY <1>4, NoBufferAssumption
     DEF page_flip_handler, CoreInv, MemTypes, FlagTypes, PointerTypes,
         CountTypes, Ownership, Owned, Content, sceneVars
<1>5. CASE UNCHANGED vars
  BY <1>u, <1>5 DEF vars, surfaceVars, sceneVars, clientVars
<1> QED
  BY <1>1, <1>2, <1>3, <1>4, <1>5 DEF Next

(* The quads follow the content of their surface.                          *)
LEMMA QuadsStep == CoreInv /\ [Next]_vars => QuadsAreCurrent'
<1> SUFFICES ASSUME CoreInv, [Next]_vars PROVE QuadsAreCurrent'
  OBVIOUS
<1>u. ASSUME UNCHANGED <<node, quad, active>> PROVE QuadsAreCurrent'
  BY <1>u DEF CoreInv, QuadsAreCurrent
<1>1. ASSUME NEW s \in Surfaces, Request(s) PROVE QuadsAreCurrent'
  <2>1. CASE wl_compositor_create_surface(s)
    BY <2>1, <1>u DEF wl_compositor_create_surface, sceneVars
  <2>2. ASSUME NEW b \in Content, wl_surface_attach(s, b) PROVE QuadsAreCurrent'
    BY <2>2, <1>u DEF wl_surface_attach, sceneVars
  <2>3. CASE wl_surface_frame(s)
    BY <2>3, <1>u DEF wl_surface_frame, sceneVars
  <2>4. CASE wp_presentation_feedback(s)
    BY <2>4, <1>u DEF wp_presentation_feedback, sceneVars
  <2>5. CASE wl_surface_commit(s)
    BY <2>5
       DEF wl_surface_commit, CoreInv, MemTypes, FlagTypes, PointerTypes,
           CountTypes, QuadsAreCurrent, c_scene_node_update
  <2>6. CASE wl_surface_destroy(s)
    BY <2>6
       DEF wl_surface_destroy, CoreInv, MemTypes, FlagTypes, PointerTypes,
           CountTypes, QuadsAreCurrent, c_scene_node_update, sceneVars
  <2>7. CASE xdg_surface_get_toplevel(s)
    BY <2>7
       DEF xdg_surface_get_toplevel, CoreInv, MemTypes, FlagTypes,
           PointerTypes, CountTypes, QuadsAreCurrent, c_scene_node_update,
           surfaceVars
  <2>8. CASE other_surface_destroy(s)
    BY <2>8
       DEF other_surface_destroy, CoreInv, MemTypes, FlagTypes,
           PointerTypes, CountTypes, QuadsAreCurrent, c_scene_node_update,
           surfaceVars
  <2>9. CASE xdg_toplevel_destroy(s)
    BY <2>9
       DEF xdg_toplevel_destroy, CoreInv, MemTypes, FlagTypes, PointerTypes,
           CountTypes, QuadsAreCurrent, c_scene_node_update, surfaceVars
  <2> QED
    BY <1>1, <2>1, <2>2, <2>3, <2>4, <2>5, <2>6, <2>7, <2>8, <2>9 DEF Request
<1>2. ASSUME NEW b \in Buffers, wl_shm_pool_create_buffer(b) PROVE QuadsAreCurrent'
  BY <1>2, <1>u DEF wl_shm_pool_create_buffer, surfaceVars, sceneVars
<1>3. ASSUME NEW b \in Buffers, wl_buffer_destroy(b) PROVE QuadsAreCurrent'
  BY <1>3, <1>u DEF wl_buffer_destroy, surfaceVars, sceneVars
<1>4. CASE page_flip_handler
  BY <1>4, <1>u DEF page_flip_handler, sceneVars
<1>5. CASE UNCHANGED vars
  BY <1>u, <1>5 DEF vars, surfaceVars, sceneVars
<1> QED
  BY <1>1, <1>2, <1>3, <1>4, <1>5 DEF Next

(* backing_refs, given the counts before the step, makes them right after   *)
(* it, whatever the step makes of the reference counts and the quads.       *)
LEMMA BackingRefs ==
  ASSUME CoreInv, NEW rc \in [Buffers -> Nat], NEW q \in [Surfaces -> Content],
         NEW b \in Buffers
  PROVE  backing_refs(rc, q)[b] = One(rc[b] > 0) + One(q[Owner[b]] = b)
<1>1. /\ backing[b] = One(ref[b] > 0) + One(quad[Owner[b]] = b)
      /\ ref[b] \in Nat /\ rc[b] \in Nat
  <2>1. ref[b] \in Nat
    BY DEF CoreInv, RefCounts, One
  <2> QED
    BY <2>1 DEF CoreInv, BackingCounts
<1> QED
  BY <1>1 DEF backing_refs, One

(* Every step that moves a quad or frees a buffer balances the counts of   *)
(* the pixels.                                                             *)
LEMMA BackingCountsStep == CoreInv /\ [Next]_vars => BackingCounts'
<1> SUFFICES ASSUME CoreInv, [Next]_vars PROVE BackingCounts'
  OBVIOUS
<1>u. ASSUME UNCHANGED <<backing, ref, quad>> PROVE BackingCounts'
  BY <1>u DEF CoreInv, BackingCounts
<1>b. ASSUME backing' = backing_refs(ref', quad') PROVE BackingCounts'
  <2>1. ref' \in [Buffers -> Nat] /\ quad' \in [Surfaces -> Content]
    <3>1. ref' \in [Buffers -> Int] /\ quad' \in [Surfaces -> Content]
      BY MemTypesStep DEF MemTypes, PointerTypes, CountTypes
    <3>2. \A b \in Buffers : ref'[b] \in Nat
      BY RefCountsStep DEF RefCounts, One
    <3> QED
      BY <3>1, <3>2
  <2> QED
    BY <1>b, <2>1, BackingRefs DEF BackingCounts
<1>1. ASSUME NEW s \in Surfaces, Request(s) PROVE BackingCounts'
  <2>1. CASE wl_compositor_create_surface(s)
    BY <2>1, <1>u DEF wl_compositor_create_surface, bufferVars, sceneVars
  <2>2. ASSUME NEW b \in Content, wl_surface_attach(s, b) PROVE BackingCounts'
    BY <2>2, <1>b DEF wl_surface_attach, sceneVars
  <2>3. CASE wl_surface_frame(s)
    BY <2>3, <1>u DEF wl_surface_frame, bufferVars, sceneVars
  <2>4. CASE wp_presentation_feedback(s)
    BY <2>4, <1>u DEF wp_presentation_feedback, bufferVars, sceneVars
  <2>5. CASE wl_surface_commit(s)
    BY <2>5, <1>b DEF wl_surface_commit
  <2>6. CASE wl_surface_destroy(s)
    BY <2>6, <1>b DEF wl_surface_destroy, sceneVars
  <2>7. CASE xdg_surface_get_toplevel(s)
    BY <2>7, <1>u DEF xdg_surface_get_toplevel, bufferVars
  <2>8. CASE other_surface_destroy(s)
    BY <2>8, <1>b DEF other_surface_destroy
  <2>9. CASE xdg_toplevel_destroy(s)
    BY <2>9, <1>b DEF xdg_toplevel_destroy
  <2> QED
    BY <1>1, <2>1, <2>2, <2>3, <2>4, <2>5, <2>6, <2>7, <2>8, <2>9 DEF Request
<1>2. ASSUME NEW b \in Buffers, wl_shm_pool_create_buffer(b) PROVE BackingCounts'
  BY <1>2, OwnerAssumption
     DEF wl_shm_pool_create_buffer, CoreInv, MemTypes, FlagTypes,
         PointerTypes, CountTypes, BackingCounts, One, sceneVars
<1>3. ASSUME NEW b \in Buffers, wl_buffer_destroy(b) PROVE BackingCounts'
  BY <1>3, <1>b DEF wl_buffer_destroy, sceneVars
<1>4. CASE page_flip_handler
  BY <1>4, <1>b DEF page_flip_handler, sceneVars
<1>5. CASE UNCHANGED vars
  BY <1>u, <1>5 DEF vars, bufferVars, sceneVars
<1> QED
  BY <1>1, <1>2, <1>3, <1>4, <1>5 DEF Next

-----------------------------------------------------------------------------
(* Nothing is allocated and no callback is set when the event loop starts. *)
LEMMA CoreInvInit == Init => CoreInv
<1> SUFFICES ASSUME Init PROVE CoreInv
  OBVIOUS
<1>1. MemTypes
  BY BoundsAssumption
     DEF Init, MemTypes, FlagTypes, PointerTypes, CountTypes, Content
<1>2. Ownership /\ RefCounts /\ BackingCounts /\ QuadsAreCurrent
  BY OwnerAssumption, NoBufferAssumption
     DEF Init, Ownership, Owned, RefCounts, BackingCounts, QuadsAreCurrent,
         One
<1>3. CallbackList
  BY RegisteredEmpty DEF Init, CallbackList
<1> QED
  BY <1>1, <1>2, <1>3 DEF CoreInv

(* The invariant is inductive.                                             *)
LEMMA CoreInvStep == CoreInv /\ [Next]_vars => CoreInv'
BY MemTypesStep, OwnershipStep, RefCountsStep, BackingCountsStep,
   CallbackListStep, QuadsStep
   DEF CoreInv

(* All parts of the inductive invariant hold together.                     *)
THEOREM CoreInvHolds == Spec => []CoreInv
BY CoreInvInit, CoreInvStep, PTL DEF Spec

(* No c_wl_buffer is freed while a pointer to it is left, and none is       *)
(* leaked: for every number of clients, of buffers and of callbacks, with   *)
(* clients that attach a buffer they have not got back and failing commits. *)
THEOREM RefCountsHold == Spec => []RefCounts
<1>1. CoreInv => RefCounts
  BY DEF CoreInv
<1> QED
  BY <1>1, CoreInvHolds, PTL

(* The pixels outlive every quad drawn from them.                          *)
THEOREM BackingCountsHold == Spec => []BackingCounts
<1>1. CoreInv => BackingCounts
  BY DEF CoreInv
<1> QED
  BY <1>1, CoreInvHolds, PTL

(* Both counts together.                                                   *)
THEOREM CountsExactHolds == Spec => []CountsExact
<1>1. CoreInv => CountsExact
  BY DEF CoreInv, CountsExact
<1> QED
  BY <1>1, CoreInvHolds, PTL

(* The page flip handler finds one entry for each callback that is set, and *)
(* no entry of a surface that is gone.                                     *)
THEOREM CallbackListHolds == Spec => []CallbackList
<1>1. CoreInv => CallbackList
  BY DEF CoreInv
<1> QED
  BY <1>1, CoreInvHolds, PTL

(* No window is drawn from content its surface no longer has.              *)
THEOREM QuadsAreCurrentHolds == Spec => []QuadsAreCurrent
<1>1. CoreInv => QuadsAreCurrent
  BY DEF CoreInv
<1> QED
  BY <1>1, CoreInvHolds, PTL

-----------------------------------------------------------------------------
(* The types of what the invariants above do not rest on.                  *)
RestTypes ==
  /\ waiting_for_flip \in BOOLEAN
  /\ need_redraw \in BOOLEAN
  /\ running \in BOOLEAN
  /\ fb \in [{0, 1} -> SUBSET Buffers]
  /\ lent \in [Buffers -> BOOLEAN]
  /\ outbox \in [Surfaces -> SUBSET Buffers]

(* A draw samples buffers only.                                            *)
LEMMA ScheduleTypes ==
  ASSUME RestTypes, FlipTypes, CoreInv, NEW q \in [Surfaces -> Content], output_commit(q)
  PROVE  /\ waiting_for_flip' \in BOOLEAN
         /\ need_redraw' \in BOOLEAN
         /\ running' \in BOOLEAN
         /\ fb' \in [{0, 1} -> SUBSET Buffers]
<1>1. Drawn(q) \in SUBSET Buffers
  BY DEF Drawn, Content
<1>2. back_buffer(front) \in {0, 1}
  BY DEF back_buffer, FlipTypes
<1> QED
  BY <1>1, <1>2, FlagsAssumption
     DEF output_commit, schedule_pageflip, RestTypes

(* What the invariant does not mention keeps its type too.                 *)
LEMMA RestTypesStep == CoreInv /\ FlipTypes /\ RestTypes /\ [Next]_vars => RestTypes'
<1> SUFFICES ASSUME CoreInv, FlipTypes, RestTypes, [Next]_vars PROVE RestTypes'
  OBVIOUS
<1>1. ASSUME NEW s \in Surfaces, Request(s) PROVE RestTypes'
  <2>1. CASE wl_compositor_create_surface(s)
    BY <2>1
       DEF wl_compositor_create_surface, RestTypes, Flush, sceneVars,
           outputVars, kernelVars
  <2>2. ASSUME NEW b \in Content, wl_surface_attach(s, b) PROVE RestTypes'
    BY <2>2
       DEF wl_surface_attach, RestTypes, Flush, sceneVars, outputVars,
           kernelVars
  <2>3. CASE wl_surface_frame(s)
    BY <2>3
       DEF wl_surface_frame, RestTypes, Flush, sceneVars, outputVars,
           kernelVars
  <2>4. CASE wp_presentation_feedback(s)
    BY <2>4
       DEF wp_presentation_feedback, RestTypes, Flush, sceneVars, kernelVars
  <2>5. CASE wl_surface_commit(s)
    <3>1. outbox' \in [Surfaces -> SUBSET Buffers] /\ lent' \in [Buffers -> BOOLEAN]
      BY <2>5 DEF wl_surface_commit, Flush, RestTypes
    <3>2. quad' \in [Surfaces -> Content]
      BY MemTypesStep DEF MemTypes, PointerTypes
    <3> QED
      BY <2>5, <3>1, <3>2, ScheduleTypes
         DEF wl_surface_commit, NoOutputCommit, RestTypes
  <2>6. CASE wl_surface_destroy(s)
    <3>1. outbox' \in [Surfaces -> SUBSET Buffers] /\ lent' \in [Buffers -> BOOLEAN]
      BY <2>6 DEF wl_surface_destroy, Flush, RestTypes
    <3>2. quad' \in [Surfaces -> Content]
      BY MemTypesStep DEF MemTypes, PointerTypes
    <3> QED
      BY <2>6, <3>1, <3>2, ScheduleTypes
         DEF wl_surface_destroy, NoOutputCommit, RestTypes, sceneVars
  <2>7. CASE xdg_surface_get_toplevel(s)
    <3>1. outbox' \in [Surfaces -> SUBSET Buffers] /\ lent' \in [Buffers -> BOOLEAN]
      BY <2>7 DEF xdg_surface_get_toplevel, Flush, RestTypes
    <3>2. quad' \in [Surfaces -> Content]
      BY MemTypesStep DEF MemTypes, PointerTypes
    <3> QED
      BY <2>7, <3>1, <3>2, ScheduleTypes
         DEF xdg_surface_get_toplevel, NoOutputCommit, RestTypes
  <2>8. CASE other_surface_destroy(s)
    <3>1. outbox' \in [Surfaces -> SUBSET Buffers] /\ lent' \in [Buffers -> BOOLEAN]
      BY <2>8 DEF other_surface_destroy, Flush, RestTypes
    <3>2. quad' \in [Surfaces -> Content]
      BY MemTypesStep DEF MemTypes, PointerTypes
    <3> QED
      BY <2>8, <3>1, <3>2, ScheduleTypes
         DEF other_surface_destroy, NoOutputCommit, RestTypes
  <2>9. CASE xdg_toplevel_destroy(s)
    <3>1. outbox' \in [Surfaces -> SUBSET Buffers] /\ lent' \in [Buffers -> BOOLEAN]
      BY <2>9 DEF xdg_toplevel_destroy, Flush, RestTypes
    <3>2. quad' \in [Surfaces -> Content]
      BY MemTypesStep DEF MemTypes, PointerTypes
    <3> QED
      BY <2>9, <3>1, <3>2, ScheduleTypes
         DEF xdg_toplevel_destroy, NoOutputCommit, RestTypes
  <2> QED
    BY <1>1, <2>1, <2>2, <2>3, <2>4, <2>5, <2>6, <2>7, <2>8, <2>9 DEF Request
<1>2. ASSUME NEW b \in Buffers, wl_shm_pool_create_buffer(b) PROVE RestTypes'
  BY <1>2
     DEF wl_shm_pool_create_buffer, RestTypes, Flush, sceneVars, outputVars,
         kernelVars
<1>3. ASSUME NEW b \in Buffers, wl_buffer_destroy(b) PROVE RestTypes'
  BY <1>3
     DEF wl_buffer_destroy, RestTypes, Flush, sceneVars, outputVars,
         kernelVars
<1>4. CASE page_flip_handler
  <2>1. lent' \in [Buffers -> BOOLEAN]
    BY <1>4 DEF page_flip_handler, RestTypes
  <2>2. outbox' \in [Surfaces -> SUBSET Buffers]
    BY <1>4 DEF page_flip_handler, RestTypes, Unsent, Released
  <2>3. Drawn(quad) \in SUBSET Buffers
    BY DEF Drawn, Content, CoreInv, MemTypes, PointerTypes
  <2>4. back_buffer(1 - front) \in {0, 1}
    BY DEF back_buffer, FlipTypes
  <2>5. /\ waiting_for_flip' \in BOOLEAN
        /\ need_redraw' \in BOOLEAN
        /\ running' \in BOOLEAN
        /\ fb' \in [{0, 1} -> SUBSET Buffers]
    BY <1>4, <2>3, <2>4, FlagsAssumption
       DEF page_flip_handler, schedule_pageflip, RestTypes
  <2> QED
    BY <2>1, <2>2, <2>5 DEF RestTypes
<1>5. CASE UNCHANGED vars
  BY <1>5 DEF vars, RestTypes, outputVars, clientVars
<1> QED
  BY <1>1, <1>2, <1>3, <1>4, <1>5 DEF Next

(* All invariants together.                                                *)
PresentInv == CoreInv /\ FlipInv /\ RestTypes

LEMMA PresentInvStep == PresentInv /\ [Next]_vars => PresentInv'
BY CoreInvStep, FlipInvStep, RestTypesStep DEF PresentInv, FlipInv

LEMMA PresentInvHolds == Spec => []PresentInv
<1>1. Init => PresentInv
  <2> SUFFICES ASSUME Init PROVE PresentInv
    OBVIOUS
  <2>1. RestTypes
    BY DEF Init, RestTypes
  <2> QED
    BY <2>1, CoreInvInit, FlipInvInit DEF PresentInv
<1> QED
  BY <1>1, PresentInvStep, PTL DEF Spec

(* Every variable keeps to the values the fields of the code can hold.      *)
THEOREM TypeOKHolds == Spec => []TypeOK
<1>1. PresentInv => TypeOK
  <2> SUFFICES ASSUME PresentInv PROVE TypeOK
    OBVIOUS
  <2>1. ref \in [Buffers -> 0 .. 4] /\ backing \in [Buffers -> 0 .. 2]
    <3>1. \A b \in Buffers : ref[b] \in 0 .. 4
      BY DEF PresentInv, CoreInv, RefCounts, One
    <3>2. \A b \in Buffers : backing[b] \in 0 .. 2
      BY DEF PresentInv, CoreInv, BackingCounts, One
    <3> QED
      BY <3>1, <3>2 DEF PresentInv, CoreInv, MemTypes, CountTypes
  <2> QED
    BY <2>1
       DEF TypeOK, PresentInv, CoreInv, MemTypes, FlagTypes, PointerTypes, CountTypes,
           FlipInv, FlipTypes, RestTypes
<1> QED
  BY <1>1, PresentInvHolds, PTL

-----------------------------------------------------------------------------
(* What a step does to the display: nothing, a redraw of the quads it leaves,  *)
(* or a page flip.                                                         *)
LEMMA DisplaySteps ==
  ASSUME [Next]_vars
  PROVE  \/ UNCHANGED <<fb, queued, front, scanout>>
         \/ \E q : q = quad' /\ output_commit(q) /\ UNCHANGED <<front, scanout>>
         \/ page_flip_handler
<1> DEFINE Still == UNCHANGED <<fb, queued, front, scanout>>
           Redrawn == \E q : q = quad' /\ output_commit(q) /\ UNCHANGED <<front, scanout>>
<1>1. ASSUME NEW s \in Surfaces, Request(s)  PROVE Still \/ Redrawn
  <2>1. CASE wl_compositor_create_surface(s)
    BY <2>1 DEF wl_compositor_create_surface, outputVars, kernelVars
  <2>2. CASE \E b \in Content : wl_surface_attach(s, b)
    BY <2>2 DEF wl_surface_attach, outputVars, kernelVars
  <2>3. CASE wl_surface_frame(s)
    BY <2>3 DEF wl_surface_frame, outputVars, kernelVars
  <2>4. CASE wp_presentation_feedback(s)
    BY <2>4 DEF wp_presentation_feedback, kernelVars
  <2>5. CASE wl_surface_commit(s)
    BY <2>5 DEF wl_surface_commit, NoOutputCommit
  <2>6. CASE wl_surface_destroy(s)
    BY <2>6 DEF wl_surface_destroy, NoOutputCommit, sceneVars
  <2>7. CASE xdg_surface_get_toplevel(s)
    BY <2>7 DEF xdg_surface_get_toplevel
  <2>8. CASE other_surface_destroy(s)
    BY <2>8 DEF other_surface_destroy, NoOutputCommit
  <2>9. CASE xdg_toplevel_destroy(s)
    BY <2>9 DEF xdg_toplevel_destroy
  <2> QED
    BY <1>1, <2>1, <2>2, <2>3, <2>4, <2>5, <2>6, <2>7, <2>8, <2>9 DEF Request
<1>2. ASSUME NEW b \in Buffers, wl_shm_pool_create_buffer(b) \/ wl_buffer_destroy(b)
      PROVE  Still
  BY <1>2 DEF wl_shm_pool_create_buffer, wl_buffer_destroy, outputVars, kernelVars
<1>3. CASE UNCHANGED vars
  BY <1>3 DEF vars, outputVars, kernelVars
<1> QED
  BY <1>1, <1>2, <1>3 DEF Next

(* The buffer that is drawn into, and what may be in flight after a step: a     *)
(* draw made of the quads the step leaves, or what was in flight before.      *)
LEMMA DrawnThen ==
  ASSUME PresentInv, [Next]_vars
  PROVE  /\ \A i \in {0, 1} : fb'[i] # fb[i] => i \notin {scanout', queued}
         /\ queued' # NoFb => \/ fb'[queued'] = Drawn(quad')
                              \/ /\ queued' = queued /\ fb'[queued] = fb[queued]
                                 /\ ~page_flip_handler
<1>1. /\ front \in {0, 1} /\ scanout \in {0, 1} /\ queued \in {0, 1, NoFb}
      /\ queued # NoFb => waiting_for_flip /\ queued = 1 - front
      /\ ~waiting_for_flip => queued = NoFb /\ scanout = front
      /\ fb \in [{0, 1} -> SUBSET Buffers]
  BY DEF PresentInv, FlipInv, FlipTypes, FlipPipeline, RestTypes
<1>2. CASE page_flip_handler
  <2>1. /\ queued # NoFb /\ scanout' = queued /\ quad' = quad
        /\ schedule_pageflip(need_redraw, FALSE, 1 - front, NoFb, quad)
    BY <1>2 DEF page_flip_handler, sceneVars
  <2>2. 1 - (1 - front) = front
    BY <1>1
  <2>3. \/ fb' = [fb EXCEPT ![front] = Drawn(quad)] /\ queued' \in {front, NoFb}
        \/ fb' = fb /\ queued' = NoFb
    BY <2>1, <2>2 DEF schedule_pageflip, back_buffer
  <2> QED
    BY <1>1, <2>1, <2>3 DEF NoFb
<1>3. CASE UNCHANGED <<fb, queued, front, scanout>> /\ ~page_flip_handler
  BY <1>3
<1>4. ASSUME ~page_flip_handler, NEW q, q = quad', output_commit(q), scanout' = scanout
      PROVE  /\ \A i \in {0, 1} : fb'[i] # fb[i] => i \notin {scanout', queued}
             /\ queued' # NoFb => \/ fb'[queued'] = Drawn(quad')
                                  \/ /\ queued' = queued /\ fb'[queued] = fb[queued]
                                     /\ ~page_flip_handler
  <2>1. CASE waiting_for_flip
    BY <1>4, <2>1 DEF output_commit, schedule_pageflip
  <2>2. CASE ~waiting_for_flip
    <3>1. /\ fb' = [fb EXCEPT ![1 - front] = Drawn(q)] /\ queued' \in {1 - front, queued}
      BY <1>4, <2>2 DEF output_commit, schedule_pageflip, back_buffer
    <3> QED
      BY <1>1, <1>4, <2>2, <3>1 DEF NoFb
  <2> QED
    BY <2>1, <2>2
<1> QED
  BY <1>2, <1>3, <1>4, DisplaySteps

(* What is drawn is drawn into a buffer that is neither on the screen nor in a  *)
(* flip in flight (output.c:179, output.c:202).                              *)
THEOREM DrawsOffScreenHolds == Spec => DrawsOffScreen
<1> DEFINE Off == \A i \in {0, 1} : fb'[i] # fb[i] => i \notin {scanout', queued}
<1>1. PresentInv /\ [Next]_vars => [Off]_vars
  BY DrawnThen
<1>2. [][Off]_vars <=> DrawsOffScreen
  BY DEF DrawsOffScreen
<1> QED
  BY <1>1, PresentInvHolds, PTL DEF Spec, DrawsOffScreen

-----------------------------------------------------------------------------
(* The loan of a buffer, for clients that bind wl_output and do not attach a    *)
(* buffer before they have it back.                                         *)
Lending == ~Reattach /\ BindsOutput = Surfaces

(* Content is lent, of a surface that has its output, and no release of it is   *)
(* deferred; what is pending is not lent yet; what waits for a flip is lent.  *)
ContentLent ==
  \A s \in Surfaces : active[s] # NoBuffer =>
    lent[active[s]] /\ output[s] /\ ~buf_cb[active[s]]
PendingBack == \A s \in Surfaces : pending[s] # NoBuffer => ~lent[pending[s]]
DeferredLent == \A b \in Buffers : buf_cb[b] => lent[b]
FlightLent == queued # NoFb => \A b \in fb[queued] : lent[b]

HolderInv == ContentLent /\ PendingBack /\ DeferredLent
LentInv == HolderInv /\ FlightLent

(* With an output and no deferred release, a replaced buffer is not released   *)
(* at once.                                                                *)
LEMMA NoneAtOnce ==
  ASSUME ContentLent, NEW s \in Surfaces
  PROVE  ~ReleaseNow(s)
BY DEF ContentLent, ReleaseNow

LEMMA CommitHolds ==
  ASSUME CoreInv, Lending, HolderInv, RestTypes, NEW s \in Surfaces, wl_surface_commit(s)
  PROVE  HolderInv' /\ \A b \in Buffers : lent[b] => lent'[b]
<1> DEFINE old == active[s]
           new == IF commited[s] THEN pending[s] ELSE old
<1>1. /\ buf_cb' = [x \in Buffers |-> buf_cb[x] \/ (ReleaseLater(s) /\ x = old)]
      /\ lent' = [x \in Buffers |-> IF ReleaseNow(s) /\ x = old THEN FALSE
                                    ELSE lent[x] \/ (commited[s] /\ x = new)]
      /\ active' = [active EXCEPT ![s] = new]
      /\ pending' = [pending EXCEPT ![s] = NoBuffer]
      /\ output' = [output EXCEPT ![s] = @ \/ s \in BindsOutput]
  BY DEF wl_surface_commit
<1>2. \A x \in Buffers : lent'[x] <=> lent[x] \/ (commited[s] /\ x = new)
  BY <1>1, NoneAtOnce DEF HolderInv
<1>3. ReleaseLater(s) => commited[s] /\ old # NoBuffer
  BY DEF ReleaseLater
<1>4. /\ active \in [Surfaces -> Content] /\ pending \in [Surfaces -> Content]
      /\ output \in [Surfaces -> BOOLEAN]
      /\ lent \in [Buffers -> BOOLEAN] /\ buf_cb \in [Buffers -> BOOLEAN]
  BY DEF CoreInv, MemTypes, PointerTypes, FlagTypes, RestTypes
<1>5. /\ active'[s] = new /\ pending'[s] = NoBuffer /\ output'[s]
      /\ \A t \in Surfaces \ {s} : /\ active'[t] = active[t] /\ pending'[t] = pending[t]
                                   /\ output'[t] = output[t]
  BY <1>1, <1>4 DEF Lending
<1>6. \A x \in Buffers : buf_cb'[x] <=> buf_cb[x] \/ (ReleaseLater(s) /\ x = old)
  BY <1>1
<1>7. \A t \in Surfaces \ {s} : /\ active[t] = NoBuffer \/ active[t] \notin {old, new}
                                /\ pending[t] = NoBuffer \/ pending[t] \notin {old, new}
  BY NoBufferAssumption DEF CoreInv, Ownership, Owned
<1>8. NoBuffer \notin Buffers
  BY NoBufferAssumption
<1> HIDE DEF new
<1>9. new # NoBuffer => new \in Buffers /\ ~buf_cb[new] /\ lent'[new] /\ ~(ReleaseLater(s) /\ new = old)
  BY <1>2, <1>3, <1>4 DEF new, HolderInv, ContentLent, PendingBack, DeferredLent, Content
<1>10. ContentLent'
  <2> SUFFICES ASSUME NEW t \in Surfaces, active'[t] # NoBuffer
               PROVE  lent'[active'[t]] /\ output'[t] /\ ~buf_cb'[active'[t]]
    BY DEF ContentLent
  <2>1. CASE t = s
    BY <1>5, <1>6, <1>9, <2>1
  <2>2. CASE t # s
    <3>1. active'[t] = active[t] /\ active[t] \in Buffers /\ output'[t] = output[t]
      BY <1>4, <1>5, <2>2 DEF Content
    <3> QED
      BY <1>2, <1>6, <1>7, <2>2, <3>1 DEF HolderInv, ContentLent
  <2> QED
    BY <2>1, <2>2
<1>11. PendingBack'
  <2> SUFFICES ASSUME NEW t \in Surfaces, pending'[t] # NoBuffer  PROVE ~lent'[pending'[t]]
    BY DEF PendingBack
  <2>1. t # s /\ pending'[t] = pending[t] /\ pending[t] \in Buffers
    BY <1>4, <1>5 DEF Content
  <2> QED
    BY <1>2, <1>7, <2>1 DEF HolderInv, PendingBack
<1>12. DeferredLent'
  BY <1>2, <1>3, <1>6 DEF HolderInv, DeferredLent, ContentLent
<1> QED
  BY <1>2, <1>10, <1>11, <1>12 DEF HolderInv

LEMMA AttachHolds ==
  ASSUME CoreInv, Lending, HolderInv, NEW s \in Surfaces, NEW b \in Content,
         wl_surface_attach(s, b)
  PROVE  HolderInv' /\ lent' = lent
<1>1. /\ pending' = [pending EXCEPT ![s] = b]
      /\ b # NoBuffer => ~lent[b]
  BY DEF wl_surface_attach, HasBack, Lending
<1>2. active' = active /\ output' = output /\ buf_cb' = buf_cb /\ lent' = lent
  BY DEF wl_surface_attach
<1>3. pending \in [Surfaces -> Content]
  BY DEF CoreInv, MemTypes, PointerTypes
<1>4. \A t \in Surfaces : pending'[t] = IF t = s THEN b ELSE pending[t]
  BY <1>1, <1>3
<1>5. PendingBack'
  BY <1>1, <1>2, <1>4 DEF PendingBack, HolderInv
<1> QED
  BY <1>2, <1>5 DEF HolderInv, ContentLent, DeferredLent

LEMMA DestroyHolds ==
  ASSUME CoreInv, HolderInv, NEW s \in Surfaces, wl_surface_destroy(s)
  PROVE  HolderInv' /\ lent' = lent
<1>1. /\ active' = [active EXCEPT ![s] = NoBuffer] /\ pending' = [pending EXCEPT ![s] = NoBuffer]
      /\ output' = [output EXCEPT ![s] = FALSE] /\ buf_cb' = buf_cb /\ lent' = lent
  BY DEF wl_surface_destroy
<1>2. /\ active \in [Surfaces -> Content] /\ pending \in [Surfaces -> Content]
      /\ output \in [Surfaces -> BOOLEAN]
  BY DEF CoreInv, MemTypes, PointerTypes, FlagTypes
<1>3. \A t \in Surfaces \ {s} : /\ active'[t] = active[t] /\ pending'[t] = pending[t]
                                /\ output'[t] = output[t]
  BY <1>1, <1>2
<1>4. active'[s] = NoBuffer /\ pending'[s] = NoBuffer
  BY <1>1, <1>2
<1> QED
  BY <1>1, <1>3, <1>4 DEF HolderInv, ContentLent, PendingBack, DeferredLent

(* The name of a buffer that is taken again is of one that nothing points to.   *)
LEMMA CreateHolds ==
  ASSUME CoreInv, HolderInv, RestTypes, NEW b \in Buffers, wl_shm_pool_create_buffer(b)
  PROVE  HolderInv' /\ \A x \in Buffers \ {b} : lent'[x] = lent[x]
<1>1. /\ lent' = [lent EXCEPT ![b] = FALSE] /\ ref[b] = 0
      /\ active' = active /\ output' = output /\ buf_cb' = buf_cb /\ pending' = pending
  BY DEF wl_shm_pool_create_buffer, surfaceVars
<1>2. /\ lent \in [Buffers -> BOOLEAN]
      /\ active \in [Surfaces -> Content] /\ pending \in [Surfaces -> Content]
  BY DEF RestTypes, CoreInv, MemTypes, PointerTypes
<1>3. ~lent'[b] /\ \A x \in Buffers \ {b} : lent'[x] = lent[x]
  BY <1>1, <1>2
<1>4. ~buf_cb[b] /\ active[Owner[b]] # b
  <2>1. ref[b] = One(obj[b]) + One(active[Owner[b]] = b)
                   + One(pending[Owner[b]] = b) + One(buf_cb[b])
    BY DEF CoreInv, RefCounts
  <2> QED
    BY <1>1, <2>1 DEF One
<1>5. \A s \in Surfaces : active[s] # b
  BY <1>4, NoBufferAssumption DEF CoreInv, Ownership, Owned
<1>6. ContentLent'
  BY <1>1, <1>2, <1>3, <1>5 DEF HolderInv, ContentLent, Content
<1>7. PendingBack'
  BY <1>1, <1>2, <1>3 DEF HolderInv, PendingBack, Content
<1>8. DeferredLent'
  BY <1>1, <1>3, <1>4 DEF HolderInv, DeferredLent
<1> QED
  BY <1>3, <1>6, <1>7, <1>8 DEF HolderInv

LEMMA FlipHolds ==
  ASSUME CoreInv, HolderInv, RestTypes, page_flip_handler
  PROVE  HolderInv'
<1>1. /\ buf_cb' = [b \in Buffers |-> buf_cb[b] /\ ~Registered(cb, BufferReleased(b))]
      /\ lent' = [b \in Buffers |-> lent[b] /\ b \notin Released]
      /\ active' = active /\ output' = output /\ pending' = pending
  BY DEF page_flip_handler
<1>2. /\ active \in [Surfaces -> Content] /\ pending \in [Surfaces -> Content]
      /\ \A b \in Buffers : buf_cb[b] <=> Registered(cb, BufferReleased(b))
  BY DEF CoreInv, MemTypes, PointerTypes, CallbackList
<1>3. \A b \in Buffers : /\ ~buf_cb'[b]
                         /\ lent'[b] => lent[b]
                         /\ lent[b] /\ ~buf_cb[b] => lent'[b]
  BY <1>1, <1>2 DEF Released
<1> QED
  BY <1>1, <1>2, <1>3 DEF HolderInv, ContentLent, PendingBack, DeferredLent, Content

(* What a step takes back from the compositor: nothing but a buffer whose name  *)
(* is taken again or, in a page flip, those whose release was deferred.       *)
LEMMA HolderStep ==
  ASSUME PresentInv, Lending, HolderInv, [Next]_vars
  PROVE  /\ HolderInv'
         /\ \/ page_flip_handler
            \/ \A b \in Buffers : b \in fb[0] \cup fb[1] /\ lent[b] => lent'[b]
<1> DEFINE Kept == \A b \in Buffers : b \in fb[0] \cup fb[1] /\ lent[b] => lent'[b]
<1>i. CoreInv /\ RestTypes
  BY DEF PresentInv
<1>u. ASSUME UNCHANGED <<active, output, buf_cb, pending, lent>>  PROVE HolderInv' /\ Kept
  BY <1>u DEF HolderInv, ContentLent, PendingBack, DeferredLent
<1>1. ASSUME NEW s \in Surfaces, Request(s)  PROVE HolderInv' /\ Kept
  <2>1. CASE wl_compositor_create_surface(s)
    BY <1>u, <2>1 DEF wl_compositor_create_surface, bufferVars
  <2>2. CASE \E b \in Content : wl_surface_attach(s, b)
    BY <1>i, <2>2, AttachHolds
  <2>3. CASE wl_surface_frame(s)
    BY <1>u, <2>3 DEF wl_surface_frame, bufferVars
  <2>4. CASE wp_presentation_feedback(s)
    BY <1>u, <2>4 DEF wp_presentation_feedback, bufferVars
  <2>5. CASE wl_surface_commit(s)
    BY <1>i, <2>5, CommitHolds
  <2>6. CASE wl_surface_destroy(s)
    BY <1>i, <2>6, DestroyHolds
  <2>7. CASE xdg_surface_get_toplevel(s)
    BY <1>u, <2>7 DEF xdg_surface_get_toplevel, surfaceVars, bufferVars
  <2>8. CASE other_surface_destroy(s)
    BY <1>u, <2>8 DEF other_surface_destroy, surfaceVars
  <2>9. CASE xdg_toplevel_destroy(s)
    BY <1>u, <2>9 DEF xdg_toplevel_destroy, surfaceVars
  <2> QED
    BY <1>1, <2>1, <2>2, <2>3, <2>4, <2>5, <2>6, <2>7, <2>8, <2>9 DEF Request
<1>2. ASSUME NEW b \in Buffers, wl_shm_pool_create_buffer(b)  PROVE HolderInv' /\ Kept
  <2>1. b \notin fb[0] \cup fb[1]
    BY <1>2 DEF wl_shm_pool_create_buffer
  <2> QED
    BY <1>i, <1>2, <2>1, CreateHolds
<1>3. ASSUME NEW b \in Buffers, wl_buffer_destroy(b)  PROVE HolderInv' /\ Kept
  BY <1>u, <1>3 DEF wl_buffer_destroy, surfaceVars
<1>4. CASE page_flip_handler
  BY <1>i, <1>4, FlipHolds
<1>5. CASE UNCHANGED vars
  BY <1>u, <1>5 DEF vars, surfaceVars, bufferVars, clientVars
<1> QED
  BY <1>1, <1>2, <1>3, <1>4, <1>5 DEF Next

(* What is drawn after a step is content, and content is lent.                *)
LEMMA DrawnIsContent ==
  ASSUME CoreInv', ContentLent'
  PROVE  (Drawn(quad) \subseteq Contents /\ Contents \subseteq {b \in Buffers : lent[b]})'
BY DEF CoreInv, QuadsAreCurrent, MemTypes, PointerTypes, Drawn, Contents, Content, ContentLent

LEMMA FlightStep ==
  ASSUME PresentInv, LentInv, [Next]_vars, CoreInv', HolderInv',
         \/ page_flip_handler
         \/ \A b \in Buffers : b \in fb[0] \cup fb[1] /\ lent[b] => lent'[b]
  PROVE  FlightLent'
<1>1. SUFFICES ASSUME queued' # NoFb, NEW b \in fb'[queued']  PROVE lent'[b]
  BY DEF FlightLent
<1>2. CASE fb'[queued'] = Drawn(quad')
  <2>1. (Drawn(quad) \subseteq Contents /\ Contents \subseteq {x \in Buffers : lent[x]})'
    BY DrawnIsContent DEF HolderInv
  <2> QED
    BY <1>1, <1>2, <2>1
<1>3. CASE queued' = queued /\ fb'[queued] = fb[queued] /\ ~page_flip_handler
  <2>1. queued \in {0, 1} /\ fb \in [{0, 1} -> SUBSET Buffers]
    BY <1>1, <1>3 DEF PresentInv, FlipInv, FlipTypes, RestTypes
  <2> QED
    BY <1>1, <1>3, <2>1 DEF LentInv, FlightLent
<1> QED
  BY <1>1, <1>2, <1>3, DrawnThen

LEMMA LentStep ==
  ASSUME PresentInv, Lending, LentInv, [Next]_vars
  PROVE  LentInv'
BY HolderStep, FlightStep, PresentInvStep DEF LentInv, PresentInv

LEMMA LentInit == Init => LentInv
<1> SUFFICES ASSUME Init PROVE LentInv
  OBVIOUS
<1>1. HolderInv
  BY DEF Init, HolderInv, ContentLent, PendingBack, DeferredLent
<1>2. FlightLent
  BY DEF Init, FlightLent, NoFb
<1> QED
  BY <1>1, <1>2 DEF LentInv

(* A step of the presentation path is one of BufferLoan.                      *)
LEMMA LoanStep ==
  ASSUME PresentInv, LentInv, [Next]_vars, PresentInv', LentInv'
  PROVE  Loan!LoanNext
<1> DEFINE Reading == Drawn(quad) \cup (IF queued = NoFb THEN {} ELSE fb[queued])
           L == {b \in Buffers : lent[b]}
<1>1. (Drawn(quad) \subseteq Contents /\ Contents \subseteq L)'
  BY DrawnIsContent DEF PresentInv, LentInv, HolderInv
<1>2. Reading' \subseteq L'
  <2>1. queued' # NoFb => fb'[queued'] \subseteq Buffers
    BY DEF PresentInv, FlipInv, FlipTypes, RestTypes
  <2> QED
    BY <1>1, <2>1 DEF LentInv, FlightLent
<1>3. Reading' \ Reading \subseteq Contents'
  BY <1>1, DrawnThen
<1>4. L' \in SUBSET Buffers
  OBVIOUS
<1> QED
  BY <1>1, <1>2, <1>3, <1>4 DEF Loan!LoanNext

(* A buffer is not released while it is content or in a frame that is drawn or   *)
(* in flight, and no frame is drawn from content that was replaced            *)
(* (output.c:144, output.c:271, scene.c:195).                                *)
THEOREM LoanRefinementHolds ==
  ASSUME Lending
  PROVE  Spec => LoanRefinement
<1>1. Init => Loan!LoanInit
  <2> SUFFICES ASSUME Init  PROVE Loan!LoanInit
    OBVIOUS
  <2>1. Drawn(quad) = {} /\ Contents = {} /\ {b \in Buffers : lent[b]} = {}
    BY DEF Init, Drawn, Contents
  <2>2. queued = NoFb \/ fb[queued] = {}
    BY DEF Init
  <2> QED
    BY <2>1, <2>2 DEF Loan!LoanInit
<1>2. Init => LentInv
  BY LentInit
<1>3. PresentInv /\ LentInv /\ [Next]_vars => LentInv'
  BY LentStep
<1>4. PresentInv /\ LentInv /\ [Next]_vars /\ PresentInv' /\ LentInv' => [Loan!LoanNext]_(Loan!loanVars)
  BY LoanStep
<1> QED
  BY <1>1, <1>2, <1>3, <1>4, PresentInvHolds, PTL DEF Spec, LoanRefinement, Loan!LoanSpec
=============================================================================
