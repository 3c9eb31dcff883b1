----------------------------- MODULE LevelFeed -----------------------------
(***************************************************************************)
(* What the level cache of a provider promises: `cached` takes, one after  *)
(* the other and in their order, every level that ETW announced and no     *)
(* other value.  It may lag behind, it never skips, repeats or invents a   *)
(* level.                                                                  *)
(*                                                                         *)
(* EtwProvider implements it when ETW runs the callbacks of a registration *)
(* one at a time; TraceLogger is built on it.                              *)
(***************************************************************************)
EXTENDS Naturals, Sequences

CONSTANT Levels

VARIABLES
  announced,  \* every level ETW has announced to the registration so far
  applied,    \* how many of them the cache has taken
  cached      \* StableProviderData::max_level

vars == <<announced, applied, cached>>

\* The level of the sessions: the newest one announced, 0 if there is none.
Current == IF announced = <<>> THEN 0 ELSE announced[Len(announced)]

Init == announced = <<>> /\ applied = 0 /\ cached = 0

Announce(l) ==
  /\ announced' = Append(announced, l)
  /\ UNCHANGED <<applied, cached>>

Apply ==
  /\ applied < Len(announced)
  /\ applied' = applied + 1 /\ cached' = announced[applied + 1]
  /\ UNCHANGED announced

Next == Apply \/ \E l \in Levels : Announce(l)

Spec == Init /\ [][Next]_vars
=============================================================================
