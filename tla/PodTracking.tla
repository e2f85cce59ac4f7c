---------------------------- MODULE PodTracking ----------------------------
(***************************************************************************)
(* What the monitor promises of the containers that were granted tokens,   *)
(* without channels, goroutines, passes and maps.                          *)
(*                                                                         *)
(* A granted container is pending until it is tracked, once; it is tracked *)
(* until it is over; and it is over only after what was being sampled has  *)
(* gone, or was taken for gone because it could not be read.  Module       *)
(* Monitor implements this when no two containers share a pod name.        *)
(***************************************************************************)
CONSTANT Ids   \* the containers, by vGPU id

VARIABLES
  stage,  \* "ungranted", "pending", "tracked" or "over"
  gone    \* containers whose files could not be read at some time

vars == <<stage, gone>>

Init ==
  /\ stage = [i \in Ids |-> "ungranted"]
  /\ gone = {}

Advance(id, from, to) ==
  /\ stage[id] = from
  /\ stage' = [stage EXCEPT ![id] = to]
  /\ UNCHANGED gone

Grant(id) == Advance(id, "ungranted", "pending")
Track(id) == Advance(id, "pending", "tracked")
Reap(id)  == id \in gone /\ Advance(id, "tracked", "over")

(* The container ends, or has no GPU node, or its files cannot be read. *)
Lose(id) ==
  /\ stage[id] \in {"pending", "tracked"}
  /\ gone' = gone \cup {id}
  /\ UNCHANGED stage

Next == \E id \in Ids : Grant(id) \/ Track(id) \/ Reap(id) \/ Lose(id)

Spec == Init /\ [][Next]_vars

=============================================================================
