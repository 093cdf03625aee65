----------------------------- MODULE MCBootGuard -----------------------------
(***************************************************************************)
(* A small instance of BootGuard for TLC: three pages, the first with the  *)
(* vectors, the guard and the beginning of the body.                       *)
(***************************************************************************)
EXTENDS BootGuard

MCPageOf == [u \in 0 .. 6 |-> CASE u <= 2 -> 0 [] u <= 4 -> 1 [] OTHER -> 2]

==============================================================================
