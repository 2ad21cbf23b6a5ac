----------------------------- MODULE BufferLoan -----------------------------
(***************************************************************************)
(* What the compositor promises about the pixels of a client, as the       *)
(* description of wl_surface.attach states it: committing a buffer lends    *)
(* it, the compositor may read it from then on, and wl_buffer.release says  *)
(* that it will not read it any more.                                      *)
(***************************************************************************)
EXTENDS FiniteSets

CONSTANT Buffers

VARIABLES
  lent,     \* the buffers committed and not released since
  shown,    \* the buffers that are the content of a surface
  reading   \* the buffers a frame being drawn or not yet flipped samples

loanVars == <<lent, shown, reading>>

LoanInit == lent = {} /\ shown = {} /\ reading = {}

(* Only lent buffers are shown or read, and reading starts only while the  *)
(* buffer is the content of a surface: a frame may outlive the content it   *)
(* was drawn from, but no frame is drawn from replaced content.            *)
LoanNext ==
  /\ lent' \in SUBSET Buffers
  /\ shown' \subseteq lent'
  /\ reading' \subseteq lent'
  /\ reading' \ reading \subseteq shown'

LoanSpec == LoanInit /\ [][LoanNext]_loanVars
=============================================================================
