---------------------------- MODULE FrameTable ----------------------------
(***************************************************************************)
(* g_stage5c_frames, which Stage 5C writes and the frame allocator of      *)
(* Stages 6A to 6D reads, and the two numbers they share.                  *)
(***************************************************************************)
EXTENDS Arith64, Sequences, FiniteSets

CONSTANTS
    FRAME_SIZE,        \* STAGE5C_FRAME_SIZE
    POLICY_MIN_ADDR    \* STAGE5B_POLICY_MIN_ADDR

VARIABLE frames   \* the range table, its frame total, and what is only printed
=============================================================================
