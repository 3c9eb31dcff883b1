------------------------------- MODULE Options -------------------------------
(* Option<T>: a value of T, or None. *)
CONSTANT None
=============================================================================
