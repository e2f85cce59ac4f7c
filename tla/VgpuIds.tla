------------------------------- MODULE VgpuIds -------------------------------
(***************************************************************************)
(* What the token manager promises of the ids it grants, without handlers, *)
(* channels and restarts: an id is created at most once, it may be given   *)
(* to the one request it was created for, and if that request is cut off   *)
(* it is never given to anyone.                                            *)
(***************************************************************************)
CONSTANTS
  Containers,  \* the containers that ask for tokens
  Ids,         \* what ids are taken from
  NoId         \* not an id

VARIABLES
  created,  \* ids that have a GPU node
  offered,  \* the id made for the request at hand, or NoId
  grant     \* the id of each container, or NoId

vars == <<created, offered, grant>>

Init ==
  /\ created = {}
  /\ offered = NoId
  /\ grant = [c \in Containers |-> NoId]

Create ==
  /\ offered = NoId
  /\ offered' \in Ids \ created
  /\ created' = created \cup {offered'}
  /\ UNCHANGED grant

Give(c) ==
  /\ offered # NoId /\ grant[c] = NoId
  /\ grant' = [grant EXCEPT ![c] = offered]
  /\ offered' = NoId
  /\ UNCHANGED created

(* The request is cut off: its id is lost for good. *)
Burn ==
  /\ offered # NoId
  /\ offered' = NoId
  /\ UNCHANGED <<created, grant>>

Next == Create \/ Burn \/ \E c \in Containers : Give(c)

Spec == Init /\ [][Next]_vars

=============================================================================
