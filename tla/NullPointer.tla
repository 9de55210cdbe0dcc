---------------------------- MODULE NullPointer ----------------------------
(***************************************************************************)
(* The value that a pointer has when it points to nothing.                 *)
(***************************************************************************)
CONSTANT NULL
=============================================================================
