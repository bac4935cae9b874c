------------------------------- MODULE Absent -------------------------------
(* What Python calls None and SQL calls NULL, shared by the service modules. *)
CONSTANT None
=============================================================================
