--------------------------- MODULE Announcements ---------------------------
(***************************************************************************)
(* What newPodCh promises to the monitor, without handlers and counters:   *)
(* the ids come in the order they were announced, none of them a second    *)
(* time, not even in a later life of the daemon; and only the end of a     *)
(* life makes an id go unannounced, one at most.                           *)
(***************************************************************************)
EXTENDS Naturals, Sequences

CONSTANT Cap   \* how many announcements wait at most

VARIABLES
  up,   \* the daemon runs
  ch,   \* the announcements that wait
  used  \* ids that were announced, or lost

vars == <<up, ch, used>>

Init == ~up /\ ch = <<>> /\ used = {}

Begin ==
  /\ ~up /\ up'
  /\ UNCHANGED <<ch, used>>

Announce ==
  /\ up /\ up'
  /\ Len(ch) < Cap
  /\ \E id \in used' \ used :
        /\ ch' = Append(ch, id)
        /\ used' = used \cup {id}

Take ==
  /\ up /\ up'
  /\ ch # <<>>
  /\ ch' = Tail(ch)
  /\ UNCHANGED used

(* The daemon ends, and with it the id that was being made. *)
Lose ==
  /\ up /\ ~up'
  /\ ch' = <<>>
  /\ \/ UNCHANGED used
     \/ \E id \in used' \ used : used' = used \cup {id}

Next == Begin \/ Announce \/ Take \/ Lose

Spec == Init /\ [][Next]_vars

=============================================================================
