---------------------------- MODULE PresentProofs ----------------------------
(***************************************************************************)
(* Proofs about Present for every number of surfaces and buffers, every     *)
(* limit on frames and feedbacks, with and without faults.                  *)
(***************************************************************************)
EXTENDS Present, TLAPS

(* The fields of the output that tell the compositor what the kernel does. *)
FlipTypes ==
  /\ front \in {0, 1}
  /\ scanout \in {0, 1}
  /\ queued \in {0, 1, NoFb}

FlipInv == FlipTypes /\ FlipPipeline

(* output_commit keeps the swapchain in step with the kernel, whatever is   *)
(* drawn and whether or not the commit fails.                              *)
LEMMA OutputCommitFlip ==
  ASSUME FlipInv, NEW q, output_commit(q), UNCHANGED <<front, scanout>>
  PROVE  FlipInv'
<1>1. CASE waiting_for_flip
  BY <1>1
     DEF FlipInv, FlipTypes, FlipPipeline, output_commit, schedule_pageflip
<1>2. CASE ~waiting_for_flip
  <2>1. (queued' = 1 - front /\ waiting_for_flip') \/ queued' = queued
    BY <1>2 DEF output_commit, schedule_pageflip, back_buffer
  <2> QED
    BY <1>2, <2>1 DEF FlipInv, FlipTypes, FlipPipeline, NoFb
<1> QED
  BY <1>1, <1>2

(* A request that does not redraw changes nothing of it.                   *)
LEMMA NoOutputCommitFlip ==
  ASSUME FlipInv, NoOutputCommit, UNCHANGED <<front, scanout>>
  PROVE  FlipInv'
BY DEF FlipInv, FlipTypes, FlipPipeline, NoOutputCommit

(* The flip event itself: what was queued is on the screen, and the next    *)
(* frame goes into the buffer that has left it.                            *)
LEMMA PageFlipFlip ==
  ASSUME FlipInv, page_flip_handler
  PROVE  FlipInv'
<1>1. queued # NoFb /\ scanout' = queued /\ front' = 1 - front
  BY DEF page_flip_handler
<1>2. (queued' = 1 - (1 - front) /\ waiting_for_flip') \/ queued' = NoFb
  BY DEF page_flip_handler, schedule_pageflip, back_buffer
<1> QED
  BY <1>1, <1>2 DEF FlipInv, FlipTypes, FlipPipeline, NoFb

(* Every step keeps it, and only three kinds of steps touch it.            *)
LEMMA FlipInvStep == FlipInv /\ [Next]_vars => FlipInv'
<1> SUFFICES ASSUME FlipInv, [Next]_vars PROVE FlipInv'
  OBVIOUS
<1>u. ASSUME UNCHANGED <<outputVars, kernelVars, running>> PROVE FlipInv'
  BY <1>u DEF FlipInv, FlipTypes, FlipPipeline, outputVars, kernelVars
<1>1. ASSUME NEW s \in Surfaces, Request(s) PROVE FlipInv'
  <2>1. CASE wl_compositor_create_surface(s)
    BY <1>u, <2>1 DEF wl_compositor_create_surface
  <2>2. CASE \E b \in Content : wl_surface_attach(s, b)
    BY <1>u, <2>2 DEF wl_surface_attach
  <2>3. CASE wl_surface_frame(s)
    BY <1>u, <2>3 DEF wl_surface_frame
  <2>4. CASE wp_presentation_feedback(s)
    BY <2>4
       DEF wp_presentation_feedback, FlipInv, FlipTypes, FlipPipeline,
           kernelVars
  <2>5. CASE wl_surface_commit(s)
    BY <2>5, OutputCommitFlip, NoOutputCommitFlip DEF wl_surface_commit
  <2>6. CASE wl_surface_destroy(s)
    BY <2>6, OutputCommitFlip, NoOutputCommitFlip DEF wl_surface_destroy
  <2>7. CASE xdg_surface_get_toplevel(s)
    BY <2>7, OutputCommitFlip DEF xdg_surface_get_toplevel
  <2>8. CASE other_surface_destroy(s)
    BY <2>8, OutputCommitFlip, NoOutputCommitFlip DEF other_surface_destroy
  <2>9. CASE xdg_toplevel_destroy(s)
    BY <2>9, OutputCommitFlip DEF xdg_toplevel_destroy
  <2> QED
    BY <1>1, <2>1, <2>2, <2>3, <2>4, <2>5, <2>6, <2>7, <2>8, <2>9 DEF Request
<1>2. ASSUME NEW b \in Buffers, wl_shm_pool_create_buffer(b) PROVE FlipInv'
  BY <1>u, <1>2 DEF wl_shm_pool_create_buffer
<1>3. ASSUME NEW b \in Buffers, wl_buffer_destroy(b) PROVE FlipInv'
  BY <1>u, <1>3 DEF wl_buffer_destroy
<1>4. CASE page_flip_handler
  BY <1>4, PageFlipFlip
<1>5. CASE UNCHANGED vars
  BY <1>u, <1>5 DEF vars
<1> QED
  BY <1>1, <1>2, <1>3, <1>4, <1>5 DEF Next

(* The modeset and the first flip of c_output_set_mode establish it.       *)
LEMMA FlipInvInit == Init => FlipInv
BY DEF Init, FlipInv, FlipTypes, FlipPipeline, NoFb

(* Whenever the compositor is free to draw, no flip is in flight and the    *)
(* back buffer is not on the screen: output.c keeps front and               *)
(* waiting_for_flip in step with the kernel, through every failure.         *)
THEOREM FlipPipelineHolds == Spec => []FlipPipeline
<1>1. FlipInv => FlipPipeline
  BY DEF FlipInv
<1> QED
  BY <1>1, FlipInvInit, FlipInvStep, PTL DEF Spec
=============================================================================
