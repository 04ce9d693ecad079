---------------------------- MODULE MCEmulator ----------------------------
(***************************************************************************)
(* Values for Emulator: a settle time below, at and beyond the timeout, one*)
(* beyond the caller's patience, and refused arguments.                    *)
(***************************************************************************)
EXTENDS Emulator

MCSettles == {-1, 0, 1, 2, 5}
=============================================================================
