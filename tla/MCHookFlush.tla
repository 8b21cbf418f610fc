---------------------------- MODULE MCHookFlush -----------------------------
(* Three hooks: one whose run is under way, and two that peek into each    *)
(* other or come after.                                                    *)
EXTENDS HookFlush, TLC
=============================================================================
