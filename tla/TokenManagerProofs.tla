------------------------- MODULE TokenManagerProofs -------------------------
(***************************************************************************)
(* What holds of TokenManager for any number of containers and starts of   *)
(* the daemon.  Each invariant is kept until a mishap it does not survive: *)
(* as mishaps are never forgotten, a step that ends without one began      *)
(* without.                                                                *)
(***************************************************************************)
EXTENDS TokenManager, TLAPS

(* The initial states are well typed. *)
LEMMA TypeInit == Init => TypeOK
  BY TokenManagerAssumption
     DEF TokenManagerAssumption, Init, TypeOK, Plugins, Watches, Allocs, NoId

(* Every step keeps the types. *)
LEMMA TypeStep == TypeOK /\ [Next]_vars => TypeOK'
<1> SUFFICES ASSUME TypeOK, [Next]_vars PROVE TypeOK'
  OBVIOUS
<1> USE DEF TypeOK, Plugins, Watches, Allocs
<1>1. CASE Start
  BY <1>1 DEF Start, Dialled, watchVars, allocVars, kernel, kubelet
<1>2. CASE Register
  BY <1>2 DEF Register, Dialled, watchVars, allocVars, kernel, kubelet
<1>3. CASE Stop
  BY <1>3 DEF Stop, watchVars, allocVars, kernel, kubelet
<1>4. CASE Exit
  BY <1>4 DEF Exit, kernel, kubelet
<1>5. CASE SendDevices
  BY <1>5 DEF SendDevices, runVars, allocVars, kernel, kubelet
<1>6. CASE ListAndWatch
  <2>1. CASE ReadTotalIDs
    <3>1. readIDs' \in Nat /\ slips' \in SUBSET Slips
      BY <2>1 DEF ReadTotalIDs
    <3> QED
      BY <2>1, <3>1 DEF ReadTotalIDs, runVars, allocVars, kernel, kubelet
  <2>2. CASE AssignTotalIDs
    BY <2>2 DEF AssignTotalIDs, runVars, allocVars, kernel, kubelet
  <2>3. CASE WatchReturns
    BY <2>3 DEF WatchReturns, runVars, allocVars, kernel, kubelet
  <2> QED
    BY <1>6, <2>1, <2>2, <2>3 DEF ListAndWatch
<1>7. CASE \E c \in Containers : Ask(c)
  BY <1>7, TokenManagerAssumption
     DEF TokenManagerAssumption, Ask, runVars, watchVars, kernel, kubelet
<1>8. CASE \E c \in Containers : EndContainer(c)
  BY <1>8 DEF EndContainer, runVars, watchVars, allocVars, kernel
<1>9. CASE CreateGPUID
  <2>1. counter' \in Nat /\ nodes' \in SUBSET Nat /\ slips' \in SUBSET Slips
    <3>1. CASE /\ counter' = counter + 1 /\ nodes' = nodes \cup {totalIDs}
               /\ UNCHANGED slips
      BY <3>1
    <3>2. CASE /\ UNCHANGED kernel
               /\ "command" \in Slips /\ slips' = slips \cup {"command"}
      BY <3>2 DEF kernel
    <3> QED
      BY <1>9, <3>1, <3>2 DEF CreateGPUID
  <2>2. /\ alloc = "creating" /\ alloc' = "naming"
        /\ UNCHANGED <<runVars, totalIDs, watchVars, asking, vgpuId, newPodCh,
                       kubelet>>
    BY <1>9 DEF CreateGPUID
  <2> QED
    BY <2>1, <2>2 DEF runVars, watchVars, kubelet
<1>10. CASE ReadVgpuId
  BY <1>10 DEF ReadVgpuId, runVars, watchVars, kernel, kubelet
<1>11. CASE PushNewPod
  BY <1>11 DEF PushNewPod, runVars, watchVars, kernel, kubelet
<1>12. CASE Answer
  <2>1. asking \in Containers
    BY <1>12 DEF Answer
  <2>2. grant' \in [Containers -> Nat \cup {NoId}] /\ live' \in SUBSET Containers
    BY <1>12, <2>1 DEF Answer, kubelet
  <2> QED
    BY <1>12, <2>2 DEF Answer, runVars, watchVars, kernel
<1>13. CASE Receive
  BY <1>13 DEF Receive, Ending, runVars, watchVars, allocVars, kernel, kubelet
<1>14. CASE UNCHANGED vars
  BY <1>14 DEF vars, runVars, watchVars, allocVars, kernel, kubelet
<1>15. CASE KubeletRestart
  BY <1>15 DEF KubeletRestart, watchVars, allocVars, kernel, kubelet
<1>16. CASE CloseStop
  BY <1>16 DEF CloseStop, watchVars, allocVars, kernel, kubelet
<1> QED
  BY <1>1, <1>2, <1>3, <1>4, <1>5, <1>6, <1>7, <1>8, <1>9, <1>10, <1>11,
     <1>12, <1>13, <1>14, <1>15, <1>16 DEF Next, Allocate

(* Every variable has its type, and handlers run only in a daemon that has *)
(* registered with kubelet.                                                *)
THEOREM TypeCorrect == Spec => []TypeOK
  BY TypeInit, TypeStep, PTL DEF Spec

----------------------------------------------------------------------------
(* The mishaps. *)

(* No mishap is forgotten, and no start. *)
LEMMA SlipsStep ==
  ASSUME TypeOK, [Next]_vars
  PROVE  slips \subseteq slips' /\ starts <= starts' /\ starts' \in Nat
<1>0. starts \in Nat
  BY DEF TypeOK
<1>1. CASE UNCHANGED <<starts, slips>>
  BY <1>0, <1>1
<1>2. CASE Start
  BY <1>0, <1>2 DEF Start
<1>3. CASE ReadTotalIDs
  BY <1>0, <1>3 DEF ReadTotalIDs, runVars
<1>4. CASE \E c \in Containers : Ask(c)
  BY <1>0, <1>4 DEF Ask, runVars
<1>5. CASE CreateGPUID
  BY <1>0, <1>5 DEF CreateGPUID, runVars
<1> QED
  BY <1>1, <1>2, <1>3, <1>4, <1>5
     DEF Next, Allocate, ListAndWatch, Register, KubeletRestart, Stop,
         CloseStop, Exit, SendDevices, AssignTotalIDs, WatchReturns,
         ReadVgpuId, PushNewPod, Answer, Receive, EndContainer, runVars, vars

(* Kubelet has waited for the count. *)
Waited == "early" \notin slips

(* Nothing has gone wrong. *)
Smooth == slips = {}

----------------------------------------------------------------------------
(* The count of ids. *)

Created == {"naming", "pushing", "counting"}

(* The count was assigned, and ListAndWatch does nothing more but return. *)
Settled == {"watching", "returned"}

(* A request is served only after the count was assigned, so that nobody   *)
(* else touches it in between; what is announced and answered is the id    *)
(* that was created, and it goes to a container that has none.             *)
AllocInv ==
  /\ alloc # "none" => watch \in Settled
  /\ alloc \in {"pushing", "counting"} => vgpuId = totalIDs
  /\ asking # NoOne => grant[asking] = NoId

(* No request is served at first. *)
LEMMA AllocInit == Init => AllocInv
  BY DEF Init, AllocInv

(* Every step keeps this while kubelet waits for the count to be assigned, *)
(* whatever the command and the count do.                                  *)
LEMMA AllocStep ==
  ASSUME Waited', TypeOK, AllocInv, [Next]_vars
  PROVE  AllocInv'
<1> USE DEF AllocInv, Settled
<1>1. CASE Exit
  BY <1>1 DEF Exit, kubelet
<1>2. CASE SendDevices
  BY <1>2 DEF SendDevices, allocVars, kubelet
<1>3. CASE ListAndWatch
  BY <1>3 DEF ListAndWatch, ReadTotalIDs, AssignTotalIDs, WatchReturns,
              allocVars, kubelet
<1>4. CASE \E c \in Containers : Ask(c)
  BY <1>4 DEF Waited, Ask, watchVars, kubelet
<1>5. CASE CreateGPUID
  BY <1>5 DEF CreateGPUID, watchVars, kubelet
<1>6. CASE ReadVgpuId
  BY <1>6 DEF ReadVgpuId, watchVars, kubelet
<1>7. CASE PushNewPod
  BY <1>7 DEF PushNewPod, watchVars, kubelet
<1>8. CASE Answer
  BY <1>8 DEF Answer, watchVars
<1>9. CASE UNCHANGED <<watch, alloc, asking, vgpuId, totalIDs, grant>>
  BY <1>9
<1> QED
  BY <1>1, <1>2, <1>3, <1>4, <1>5, <1>6, <1>7, <1>8, <1>9
     DEF Next, Allocate, Start, Register, KubeletRestart, Stop, CloseStop,
         EndContainer, Receive, watchVars, allocVars, kubelet, vars

(* One request at a time, after the count. *)
LEMMA AllocCorrect == Spec => [](Waited => AllocInv)
<1>1. TypeOK /\ (Waited => AllocInv) /\ [Next]_vars => (Waited => AllocInv)'
  BY AllocStep, SlipsStep DEF Waited
<1> QED
  BY <1>1, AllocInit, TypeCorrect, PTL DEF Spec

(* Between reading the kernel's counter and the end of the daemon, the     *)
(* next id is the counter, except that Allocate counts an id only after it *)
(* has created, named and announced it.                                    *)
CountInv ==
  /\ watch = "read" => readIDs = counter
  /\ watch \in Settled =>
       counter = IF alloc \in Created THEN totalIDs + 1 ELSE totalIDs

(* Ids that were granted lie below the counter, and below the one that is  *)
(* being created; their nodes exist, and so does that of the latter.       *)
GrantInv ==
  /\ \A c \in Containers :
       grant[c] # NoId => /\ grant[c] < counter
                          /\ alloc \in Created => grant[c] < totalIDs
  /\ alloc \in Created => totalIDs \in nodes

(* No two containers have the same id. *)
Distinct ==
  \A c, d \in Containers :
    c # d /\ grant[c] # NoId => grant[c] # grant[d]

CoreInv == CountInv /\ GrantInv /\ Distinct

(* Nothing is granted at first. *)
LEMMA CoreInit == Init => CoreInv
  BY DEF Init, CoreInv, CountInv, GrantInv, Distinct, Created

(* Every step keeps the count, as long as nothing goes wrong. *)
LEMMA CoreStep ==
  ASSUME Smooth', TypeOK, AllocInv, CoreInv, [Next]_vars
  PROVE  CoreInv'
<1> USE DEF Smooth, AllocInv, CoreInv, CountInv, Settled, GrantInv, Distinct
<1>1. CASE Start
  BY <1>1 DEF Start, Dialled, watchVars, allocVars, kernel, kubelet
<1>2. CASE Register
  BY <1>2 DEF Register, Dialled, watchVars, allocVars, kernel, kubelet
<1>3. CASE Stop
  BY <1>3 DEF Stop, watchVars, allocVars, kernel, kubelet
<1>4. CASE Exit
  BY <1>4 DEF Exit, kernel, kubelet, Created
<1>5. CASE SendDevices
  BY <1>5 DEF SendDevices, runVars, allocVars, kernel, kubelet, Created
<1>6. CASE ListAndWatch
  BY <1>6 DEF ListAndWatch, ReadTotalIDs, AssignTotalIDs, WatchReturns,
              runVars, allocVars, kernel, kubelet, Created
<1>7. CASE \E c \in Containers : Ask(c)
  BY <1>7 DEF Ask, runVars, watchVars, kernel, kubelet, Created
<1>8. CASE \E c \in Containers : EndContainer(c)
  BY <1>8 DEF EndContainer, runVars, watchVars, allocVars, kernel
<1>9. CASE CreateGPUID
  <2>1. /\ alloc = "creating" /\ alloc' = "naming"
        /\ counter' = counter + 1 /\ nodes' = nodes \cup {totalIDs}
        /\ UNCHANGED <<totalIDs, watch, readIDs, asking, vgpuId, grant>>
    BY <1>9 DEF CreateGPUID, runVars, watchVars, kernel, kubelet
  <2>2. counter = totalIDs /\ counter \in Nat
    BY <2>1 DEF TypeOK, Created
  <2>3. CountInv'
    BY <2>1, <2>2 DEF Created
  <2>4. \A c \in Containers : grant[c] # NoId => grant[c] \in Nat /\ grant[c] < counter
    BY DEF TypeOK
  <2>5. GrantInv'
    BY <2>1, <2>2, <2>4 DEF Created
  <2> QED
    BY <2>1, <2>3, <2>5
<1>10. CASE ReadVgpuId
  BY <1>10 DEF ReadVgpuId, runVars, watchVars, kernel, kubelet, Created
<1>11. CASE PushNewPod
  BY <1>11 DEF PushNewPod, runVars, watchVars, kernel, kubelet, Created
<1>12. CASE Answer
  <2>1. /\ alloc = "counting" /\ alloc' = "none" /\ asking' = NoOne
        /\ totalIDs' = totalIDs + 1
        /\ UNCHANGED <<watch, readIDs, counter, nodes>>
    BY <1>12 DEF Answer, watchVars, kernel
  <2>2. /\ watch \in Settled /\ vgpuId = totalIDs /\ counter = totalIDs + 1
        /\ totalIDs \in nodes /\ totalIDs \in Nat /\ asking \in Containers
    BY <2>1 DEF Created, TypeOK
  <2>3. CountInv'
    BY <2>1, <2>2 DEF Created
  <2>4. CASE UNCHANGED grant
    BY <2>1, <2>2, <2>3, <2>4 DEF Created
  <2>5. CASE grant' = [grant EXCEPT ![asking] = vgpuId]
    <3>1. \A c \in Containers :
            grant'[c] = IF c = asking THEN totalIDs ELSE grant[c]
      BY <2>2, <2>5 DEF TypeOK
    <3>2. \A c \in Containers :
            grant[c] # NoId => grant[c] \in Nat /\ grant[c] < totalIDs
      BY <2>1 DEF Created, TypeOK
    <3>3. GrantInv'
      BY <2>1, <2>2, <3>1, <3>2 DEF Created
    <3>4. Distinct'
      BY <2>2, <3>1, <3>2
    <3> QED
      BY <2>3, <3>3, <3>4
  <2> QED
    BY <1>12, <2>4, <2>5 DEF Answer, kubelet
<1>13. CASE Receive
  BY <1>13 DEF Receive, Ending, runVars, watchVars, allocVars, kernel, kubelet
<1>14. CASE UNCHANGED vars
  BY <1>14 DEF vars, runVars, watchVars, allocVars, kernel, kubelet
<1>15. CASE KubeletRestart
  BY <1>15 DEF KubeletRestart, watchVars, allocVars, kernel, kubelet
<1>16. CASE CloseStop
  BY <1>16 DEF CloseStop, watchVars, allocVars, kernel, kubelet
<1> QED
  BY <1>1, <1>2, <1>3, <1>4, <1>5, <1>6, <1>7, <1>8, <1>9, <1>10, <1>11,
     <1>12, <1>13, <1>14, <1>15, <1>16 DEF Next, Allocate

(* Until something goes wrong kubelet has waited. *)
LEMMA SmoothAlloc == Spec => [](Smooth => AllocInv)
<1>1. Smooth => Waited
  BY DEF Smooth, Waited
<1> QED
  BY <1>1, AllocCorrect, PTL

(* The count and what was granted agree until something goes wrong. *)
LEMMA CoreCorrect == Spec => [](Smooth => CoreInv)
<1>1. /\ TypeOK /\ (Smooth => AllocInv) /\ (Smooth => CoreInv) /\ [Next]_vars
      => (Smooth => CoreInv)'
  BY CoreStep, SlipsStep DEF Smooth
<1> QED
  BY <1>1, CoreInit, SmoothAlloc, TypeCorrect, PTL DEF Spec

(* The node of the id at hand exists, and those of the ids that were       *)
(* granted, unless a command failed or kubelet was early.                  *)
NodeInv ==
  /\ alloc \in Created => totalIDs \in nodes
  /\ \A c \in Containers : grant[c] # NoId => grant[c] \in nodes

(* What is granted was created, and no node is ever removed. *)
LEMMA NodeStep ==
  ASSUME slips' \subseteq {"read"}, TypeOK, AllocInv, NodeInv, [Next]_vars
  PROVE  NodeInv'
<1> USE DEF NodeInv, Created
<1>1. CASE CreateGPUID
  BY <1>1 DEF CreateGPUID, kernel, kubelet
<1>2. CASE Answer
  <2>1. /\ vgpuId \in nodes /\ asking \in Containers /\ nodes' = nodes
        /\ alloc' = "none"
    BY <1>2 DEF Answer, AllocInv, TypeOK, kernel
  <2> QED
    BY <1>2, <2>1 DEF Answer, TypeOK, kubelet
<1>3. CASE AssignTotalIDs
  BY <1>3 DEF AssignTotalIDs, AllocInv, Settled, allocVars, kernel, kubelet
<1>4. CASE Exit
  BY <1>4 DEF Exit, kernel, kubelet
<1>5. CASE \E c \in Containers : Ask(c)
  BY <1>5 DEF Ask, kernel, kubelet
<1>6. CASE ReadVgpuId \/ PushNewPod
  BY <1>6 DEF ReadVgpuId, PushNewPod, kernel, kubelet
<1>7. CASE UNCHANGED <<alloc, totalIDs, nodes, grant>>
  BY <1>7
<1> QED
  BY <1>1, <1>2, <1>3, <1>4, <1>5, <1>6, <1>7
     DEF Next, Allocate, ListAndWatch, Start, Register, KubeletRestart, Stop,
         CloseStop, SendDevices, ReadTotalIDs, WatchReturns, EndContainer,
         Receive, allocVars, kernel, kubelet, vars

(* GrantHasNode: the GPU node of a granted id exists, even if the count    *)
(* could not be read, as long as the command that creates it succeeds and  *)
(* kubelet has waited.                                                     *)
THEOREM GrantHasNodeCorrect == Spec => []GrantHasNode
<1> DEFINE Unharmed == slips \subseteq {"read"}
<1>1. Init => NodeInv
  BY DEF Init, NodeInv, Created
<1>2. /\ TypeOK /\ (Waited => AllocInv) /\ (Unharmed => NodeInv) /\ [Next]_vars
      => (Unharmed => NodeInv)'
  BY NodeStep, SlipsStep DEF Waited
<1>3. (Unharmed => NodeInv) => GrantHasNode
  BY DEF NodeInv, GrantHasNode
<1> QED
  BY <1>1, <1>2, <1>3, AllocCorrect, TypeCorrect, PTL DEF Spec

----------------------------------------------------------------------------
(* The first life. *)

(* In its first life the daemon counts for itself, beyond all it granted,  *)
(* whatever the command and the kernel's count do.                         *)
FirstLifeInv ==
  /\ plugin # "down" => starts = 1
  /\ \A c \in Containers : grant[c] # NoId =>
       /\ starts = 1
       /\ \/ plugin = "down"
          \/ watch \in Settled /\ grant[c] < totalIDs

(* Nothing is granted at first. *)
LEMMA FirstLifeInit == Init => FirstLifeInv /\ Distinct
  BY DEF Init, FirstLifeInv, Distinct

(* A step of the only life grants an id above all that were granted. *)
LEMMA FirstLifeStep ==
  ASSUME starts' <= 1, TypeOK, AllocInv, FirstLifeInv, Distinct, [Next]_vars
  PROVE  FirstLifeInv' /\ Distinct'
<1> USE DEF FirstLifeInv, Distinct, Settled
<1>1. CASE Start
  <2>1. /\ starts = 0 /\ starts' = 1 /\ UNCHANGED grant
        /\ plugin' # "down"
    BY <1>1 DEF Start, Dialled, TypeOK, kubelet
  <2> QED
    BY <2>1
<1>2. CASE Exit
  BY <1>2 DEF Exit, kernel, kubelet
<1>3. CASE SendDevices
  BY <1>3 DEF SendDevices, runVars, kubelet
<1>4. CASE ReadTotalIDs \/ WatchReturns
  BY <1>4 DEF ReadTotalIDs, WatchReturns, runVars, kubelet
<1>5. CASE AssignTotalIDs
  <2>1. watch = "read" /\ UNCHANGED <<plugin, starts, grant>>
    BY <1>5 DEF AssignTotalIDs, runVars, kubelet
  <2>2. plugin # "down"
    BY <2>1 DEF TypeOK
  <2>3. \A c \in Containers : grant[c] = NoId
    BY <2>1, <2>2
  <2> QED
    BY <2>1, <2>3
<1>6. CASE Answer
  <2>1. /\ alloc = "counting" /\ vgpuId = totalIDs /\ totalIDs' = totalIDs + 1
        /\ watch \in Settled /\ totalIDs \in Nat /\ asking \in Containers
        /\ UNCHANGED <<plugin, starts, watch>>
    BY <1>6 DEF Answer, AllocInv, TypeOK, runVars, watchVars
  <2>2. plugin # "down" /\ starts = 1
    BY <2>1 DEF TypeOK
  <2>3. \A c \in Containers :
          grant[c] # NoId => grant[c] \in Nat /\ grant[c] < totalIDs
    BY <2>1, <2>2 DEF TypeOK
  <2>4. CASE UNCHANGED grant
    BY <2>1, <2>2, <2>3, <2>4
  <2>5. CASE grant' = [grant EXCEPT ![asking] = vgpuId]
    <3>1. \A c \in Containers :
            grant'[c] = IF c = asking THEN totalIDs ELSE grant[c]
      BY <2>1, <2>5 DEF TypeOK
    <3>2. FirstLifeInv'
      BY <2>1, <2>2, <2>3, <3>1
    <3>3. Distinct'
      BY <2>1, <2>3, <3>1
    <3> QED
      BY <3>2, <3>3
  <2> QED
    BY <1>6, <2>4, <2>5 DEF Answer, kubelet
<1>7. CASE /\ UNCHANGED <<starts, totalIDs, watch, grant>>
           /\ (plugin' = "down") = (plugin = "down")
  BY <1>7
<1> QED
  BY <1>1, <1>2, <1>3, <1>4, <1>5, <1>6, <1>7
     DEF Next, ListAndWatch, Allocate, Register, KubeletRestart, Stop, CloseStop,
         Dialled, Ask, EndContainer, CreateGPUID, ReadVgpuId, PushNewPod,
         Receive, runVars, watchVars, allocVars, kubelet, vars

(* The ids of the first life are distinct. *)
LEMMA FirstLifeCorrect ==
  Spec => [](starts <= 1 /\ Waited => Distinct)
<1> DEFINE First == starts <= 1 /\ Waited
<1>1. /\ TypeOK /\ (Waited => AllocInv) /\ [Next]_vars
      /\ (First => FirstLifeInv /\ Distinct)
      => (First => FirstLifeInv /\ Distinct)'
  <2> SUFFICES ASSUME TypeOK, Waited => AllocInv, [Next]_vars, First',
                      First => FirstLifeInv /\ Distinct
               PROVE  FirstLifeInv' /\ Distinct'
    OBVIOUS
  <2>1. First
    BY SlipsStep DEF Waited, TypeOK
  <2> QED
    BY <2>1, FirstLifeStep
<1>2. (First => FirstLifeInv /\ Distinct) => (First => Distinct)
  OBVIOUS
<1> QED
  BY <1>1, <1>2, FirstLifeInit, AllocCorrect, TypeCorrect, PTL DEF Spec

(* FreshIds: no vGPU id is granted twice, over all the lives of the daemon *)
(* until something goes wrong, and in the first one even if commands fail  *)
(* or the count cannot be read.                                            *)
THEOREM FreshIdsCorrect == Spec => []FreshIds
<1>1. (Smooth => CoreInv) /\ (starts <= 1 /\ Waited => Distinct) => FreshIds
  BY DEF Smooth, CoreInv, Waited, Distinct, Counted, FreshIds
<1> QED
  BY <1>1, CoreCorrect, FirstLifeCorrect, PTL

(* Only a container that was given an id is live with one. *)
LiveInv == \A c \in live : grant[c] # NoId

(* A container becomes live with its grant, and keeps it. *)
LEMMA LiveCorrect == Spec => []LiveInv
<1>1. Init => LiveInv
  BY DEF Init, LiveInv
<1>2. TypeOK /\ LiveInv /\ [Next]_vars => LiveInv'
  <2> SUFFICES ASSUME TypeOK, LiveInv, [Next]_vars PROVE LiveInv'
    OBVIOUS
  <2>1. CASE Answer
    <3>1. CASE UNCHANGED kubelet
      BY <3>1 DEF kubelet, LiveInv
    <3>2. CASE /\ grant' = [grant EXCEPT ![asking] = vgpuId]
               /\ live' = live \cup {asking}
      <4>1. vgpuId # NoId /\ asking \in Containers /\ live \subseteq Containers
        BY <2>1 DEF Answer, TypeOK, NoId
      <4> QED
        BY <3>2, <4>1 DEF LiveInv, TypeOK
    <3> QED
      BY <2>1, <3>1, <3>2 DEF Answer
  <2>2. CASE live' \subseteq live /\ UNCHANGED grant
    BY <2>2 DEF LiveInv
  <2> QED
    BY <2>1, <2>2
       DEF Next, ListAndWatch, Allocate, Start, Register, KubeletRestart, Stop,
           CloseStop, Exit, SendDevices, ReadTotalIDs, AssignTotalIDs, WatchReturns,
           Ask, EndContainer, CreateGPUID, ReadVgpuId, PushNewPod, Receive,
           kubelet, vars
<1> QED
  BY <1>1, <1>2, TypeCorrect, PTL DEF Spec

(* OneLivePerId: what the monitor looks up by an id is one container,      *)
(* until something goes wrong, and in the first life of the daemon as long *)
(* as kubelet waits for the count: without an early call or a mishap in an *)
(* earlier life nothing breaks it.                                         *)
THEOREM OneLivePerIdCorrect == Spec => [](Counted => OneLivePerId)
<1>1. TypeOK /\ LiveInv /\ FreshIds => (Counted => OneLivePerId)
  BY DEF TypeOK, LiveInv, FreshIds, OneLivePerId
<1> QED
  BY <1>1, FreshIdsCorrect, LiveCorrect, TypeCorrect, PTL

----------------------------------------------------------------------------
(* The announcements. *)

(* What waits was counted before, or is about to be, by the only process   *)
(* that could announce it; an answer that was not lost granted it.         *)
QueueInv ==
  /\ newPodCh # <<>> => watch \in Settled
  /\ \A k \in 1 .. Len(newPodCh) :
       \/ newPodCh[k] < totalIDs
       \/ alloc = "counting" /\ newPodCh[k] = totalIDs
  /\ \A k, m \in 1 .. Len(newPodCh) : newPodCh[k] = newPodCh[m] => k = m

(* What waits was granted or is about to be, or its answer was lost. *)
Answered ==
  \A k \in 1 .. Len(newPodCh) :
    \/ \E c \in Containers : grant[c] = newPodCh[k]
    \/ alloc = "counting" /\ vgpuId = newPodCh[k]
    \/ plugin # "registered"

AnnounceInv == QueueInv /\ Answered

(* Nothing waits at first. *)
LEMMA AnnounceInit == Init => AnnounceInv
  BY DEF Init, AnnounceInv, QueueInv, Answered

(* Every step keeps the queue. *)
LEMMA AnnounceStep ==
  ASSUME Waited', TypeOK, AllocInv, AnnounceInv, [Next]_vars
  PROVE  AnnounceInv'
<1> USE DEF AllocInv, AnnounceInv, QueueInv, Settled, Answered
<1>1. CASE Start
  BY <1>1 DEF Start, Dialled, watchVars, allocVars, kernel, kubelet, TypeOK
<1>2. CASE Register
  BY <1>2 DEF Register, Dialled, watchVars, allocVars, kernel, kubelet, TypeOK
<1>3. CASE Stop
  BY <1>3 DEF Stop, watchVars, allocVars, kernel, kubelet
<1>4. CASE Exit
  BY <1>4 DEF Exit, kernel, kubelet
<1>5. CASE SendDevices
  BY <1>5 DEF SendDevices, runVars, allocVars, kernel, kubelet
<1>6. CASE ListAndWatch
  BY <1>6 DEF ListAndWatch, ReadTotalIDs, AssignTotalIDs, WatchReturns,
              runVars, allocVars, kernel, kubelet
<1>7. CASE \E c \in Containers : Ask(c)
  BY <1>7 DEF Ask, runVars, watchVars, kernel, kubelet
<1>8. CASE \E c \in Containers : EndContainer(c)
  BY <1>8 DEF EndContainer, runVars, watchVars, allocVars, kernel
<1>9. CASE CreateGPUID
  BY <1>9 DEF CreateGPUID, runVars, watchVars, kubelet
<1>10. CASE ReadVgpuId
  BY <1>10 DEF ReadVgpuId, runVars, watchVars, kernel, kubelet
<1>11. CASE PushNewPod
  <2>1. /\ alloc = "pushing" /\ alloc' = "counting" /\ vgpuId = totalIDs
        /\ newPodCh' = Append(newPodCh, totalIDs)
        /\ watch \in Settled
        /\ UNCHANGED <<plugin, totalIDs, watch, vgpuId, grant>>
    BY <1>11 DEF PushNewPod, runVars, watchVars, kernel, kubelet
  <2>2. newPodCh \in Seq(Nat) /\ totalIDs \in Nat
    BY DEF TypeOK
  <2>3. /\ Len(newPodCh') = Len(newPodCh) + 1
        /\ newPodCh'[Len(newPodCh) + 1] = totalIDs
        /\ \A k \in 1 .. Len(newPodCh) : newPodCh'[k] = newPodCh[k]
    BY <2>1, <2>2
  <2>4. \A k \in 1 .. Len(newPodCh) : newPodCh[k] < totalIDs
    BY <2>1
  <2>5. QueueInv'
    BY <2>1, <2>2, <2>3, <2>4
  <2>6. Answered'
    BY <2>1, <2>2, <2>3, <2>5
  <2> QED
    BY <2>5, <2>6
<1>12. CASE Answer
  <2>1. /\ alloc = "counting" /\ vgpuId = totalIDs /\ totalIDs' = totalIDs + 1
        /\ UNCHANGED <<plugin, watch, newPodCh>> /\ totalIDs \in Nat
        /\ asking \in Containers /\ grant[asking] = NoId
    BY <1>12 DEF Answer, runVars, watchVars, kernel, TypeOK
  <2>2. \A k \in 1 .. Len(newPodCh) : newPodCh[k] \in Nat
    BY DEF TypeOK
  <2>3. QueueInv'
    BY <2>1, <2>2
  <2>4. ASSUME NEW k \in 1 .. Len(newPodCh)
        PROVE  (\E c \in Containers : grant'[c] = newPodCh[k]) \/ plugin # "registered"
    <3>1. CASE plugin = "registered"
      <4>1. grant' = [grant EXCEPT ![asking] = totalIDs]
        BY <1>12, <2>1, <3>1 DEF Answer
      <4>2. /\ grant'[asking] = totalIDs
            /\ \A c \in Containers \ {asking} : grant'[c] = grant[c]
        BY <2>1, <4>1 DEF TypeOK
      <4>3. newPodCh[k] # NoId
        BY <2>2 DEF NoId
      <4> QED
        BY <2>1, <3>1, <4>2, <4>3
    <3>2. CASE plugin # "registered"
      BY <3>2
    <3> QED
      BY <2>1, <3>1, <3>2 DEF TypeOK
  <2> QED
    BY <2>1, <2>3, <2>4
<1>13. CASE Receive
  <2>1. /\ newPodCh # <<>> /\ newPodCh' = Tail(newPodCh)
        /\ UNCHANGED <<plugin, totalIDs, watch, alloc, vgpuId, grant>>
    BY <1>13 DEF Receive, Ending, runVars, watchVars, allocVars, kernel, kubelet
  <2>2. newPodCh \in Seq(Nat)
    BY DEF TypeOK
  <2>3. /\ Len(newPodCh') = Len(newPodCh) - 1 /\ Len(newPodCh) \in Nat
        /\ \A k \in 1 .. Len(newPodCh') :
             newPodCh'[k] = newPodCh[k + 1] /\ k + 1 \in 1 .. Len(newPodCh)
    BY <2>1, <2>2
  <2>4. \A k, m \in 1 .. Len(newPodCh') : newPodCh'[k] = newPodCh'[m] => k = m
    BY <2>3
  <2> QED
    BY <2>1, <2>3, <2>4
<1>14. CASE UNCHANGED vars
  BY <1>14 DEF vars, runVars, watchVars, allocVars, kernel, kubelet
<1>15. CASE KubeletRestart
  BY <1>15 DEF KubeletRestart, watchVars, allocVars, kernel, kubelet
<1>16. CASE CloseStop
  BY <1>16 DEF CloseStop, watchVars, allocVars, kernel, kubelet
<1> QED
  BY <1>1, <1>2, <1>3, <1>4, <1>5, <1>6, <1>7, <1>8, <1>9, <1>10, <1>11,
     <1>12, <1>13, <1>14, <1>15, <1>16 DEF Next, Allocate

(* AnnouncedOnce: what waits on newPodCh was granted or is about to be, or *)
(* its answer was lost, and no two messages carry the same id, even if     *)
(* commands fail or the count cannot be read.                              *)
THEOREM AnnouncedOnceCorrect == Spec => []AnnouncedOnce
<1>1. /\ TypeOK /\ (Waited => AllocInv) /\ (Waited => AnnounceInv) /\ [Next]_vars
      => (Waited => AnnounceInv)'
  BY AnnounceStep, SlipsStep DEF Waited
<1>2. (Waited => AnnounceInv) => AnnouncedOnce
  BY DEF Waited, AnnounceInv, QueueInv, Answered, AnnouncedOnce
<1> QED
  BY <1>1, <1>2, AnnounceInit, AllocCorrect, TypeCorrect, PTL DEF Spec

----------------------------------------------------------------------------
(* The refinement of VgpuIds. *)

(* The nodes are those that the kernel has counted. *)
NodesInv == \A n \in nodes : n < counter

(* Allocate names a node that is not there yet. *)
LEMMA NodesStep ==
  ASSUME Smooth', TypeOK, AllocInv, CountInv, NodesInv, [Next]_vars
  PROVE  NodesInv'
<1>1. CASE CreateGPUID
  <2>1. counter' = counter + 1 /\ nodes' = nodes \cup {totalIDs} /\ alloc = "creating"
    BY <1>1 DEF CreateGPUID, Smooth
  <2>2. counter = totalIDs /\ counter \in Nat /\ nodes \subseteq Nat
    BY <2>1 DEF AllocInv, CountInv, Settled, Created, TypeOK
  <2> QED
    BY <2>1, <2>2 DEF NodesInv
<1>2. CASE UNCHANGED kernel
  BY <1>2 DEF NodesInv, kernel
<1> QED
  BY <1>1, <1>2
     DEF Next, Start, Register, KubeletRestart, Stop, CloseStop, Exit, SendDevices,
         ListAndWatch, ReadTotalIDs, AssignTotalIDs, WatchReturns, Ask,
         EndContainer, Allocate, ReadVgpuId, PushNewPod, Answer, Receive, vars

(* Every node was counted. *)
LEMMA NodesCorrect == Spec => [](Smooth => NodesInv)
<1>1. Init => NodesInv
  BY DEF Init, NodesInv
<1>2. /\ TypeOK /\ (Smooth => AllocInv) /\ (Smooth => CoreInv)
      /\ (Smooth => NodesInv) /\ [Next]_vars
      => (Smooth => NodesInv)'
  BY NodesStep, SlipsStep DEF CoreInv, Smooth
<1> QED
  BY <1>1, <1>2, TypeCorrect, SmoothAlloc, CoreCorrect, PTL DEF Spec

Offered == IF alloc \in Created THEN totalIDs ELSE NoId

(* Every step of TokenManager is a step of VgpuIds or none: an id that is  *)
(* being handed out is given, or is burnt by the end of the daemon or the  *)
(* loss of the connection.                                                 *)
LEMMA PromiseStep ==
  ASSUME Smooth', TypeOK, AllocInv, CoreInv, NodesInv, [Next]_vars
  PROVE  [Promise!Next]_(Promise!vars)
<1>0. CountInv /\ GrantInv
  BY DEF CoreInv
<1>a. ASSUME UNCHANGED <<nodes, Offered, grant>> PROVE UNCHANGED Promise!vars
  BY <1>a DEF Offered, Created, Promise!vars
<1>b. ASSUME alloc \in Created, ~(alloc' \in Created), UNCHANGED <<nodes, grant>>
      PROVE  Promise!Next
  <2>1. totalIDs # NoId
    BY DEF TypeOK, NoId
  <2> QED
    BY <1>b, <2>1 DEF Created, Promise!Next, Promise!Burn
<1>1. CASE Exit
  <2>1. alloc' = "none" /\ UNCHANGED <<nodes, grant>>
    BY <1>1 DEF Exit, kernel, kubelet
  <2> QED
    BY <2>1, <1>a, <1>b DEF Offered, Created
<1>2. CASE CreateGPUID
  <2>1. /\ alloc = "creating" /\ alloc' = "naming"
        /\ nodes' = nodes \cup {totalIDs}
        /\ UNCHANGED <<totalIDs, grant>>
    BY <1>2 DEF CreateGPUID, kubelet, Smooth
  <2>2. totalIDs \in Nat \ nodes
    BY <1>0, <2>1 DEF AllocInv, CountInv, Settled, Created, NodesInv, TypeOK
  <2> QED
    BY <2>1, <2>2 DEF Promise!Next, Promise!Create
<1>3. CASE Answer
  <2>1. /\ alloc = "counting" /\ alloc' = "none" /\ vgpuId = totalIDs
        /\ asking \in Containers /\ grant[asking] = NoId /\ nodes' = nodes
    BY <1>3 DEF Answer, AllocInv, TypeOK, kernel
  <2>2. totalIDs # NoId
    BY DEF TypeOK, NoId
  <2>3. CASE grant' = [grant EXCEPT ![asking] = vgpuId]
    BY <2>1, <2>2, <2>3 DEF Promise!Next, Promise!Give
  <2>4. CASE UNCHANGED kubelet
    BY <2>1, <2>4, <1>b DEF Created, kubelet
  <2> QED
    BY <1>3, <2>3, <2>4 DEF Answer
<1>4. CASE AssignTotalIDs
  <2>1. alloc = "none" /\ UNCHANGED <<alloc, nodes, grant>>
    BY <1>4 DEF AssignTotalIDs, AllocInv, Settled, allocVars, kernel, kubelet
  <2> QED
    BY <2>1, <1>a DEF Offered, Created
<1>5. CASE \E c \in Containers : Ask(c)
  BY <1>5, <1>a DEF Ask, Offered, Created, kernel, kubelet
<1>6. CASE ReadVgpuId \/ PushNewPod
  BY <1>6, <1>a DEF ReadVgpuId, PushNewPod, Offered, Created, kernel, kubelet
<1>7. CASE UNCHANGED <<alloc, totalIDs, nodes, grant>>
  BY <1>7, <1>a DEF Offered
<1> QED
  BY <1>1, <1>2, <1>3, <1>4, <1>5, <1>6, <1>7, <1>a
     DEF Next, Start, Register, KubeletRestart, Stop, CloseStop, SendDevices,
         ListAndWatch, ReadTotalIDs, WatchReturns, EndContainer, Allocate,
         Receive, allocVars, kernel, kubelet, vars

(* KeepsPromise: over all the lives of the daemon and of kubelet an id is  *)
(* created once and given at most once, to the request it was made for,    *)
(* until something goes wrong.                                             *)
THEOREM KeepsPromiseCorrect == Spec => KeepsPromise
<1>1. Init => Promise!Init
  BY DEF Init, Promise!Init
<1>2. /\ TypeOK /\ (Smooth => AllocInv) /\ (Smooth => CoreInv)
      /\ (Smooth => NodesInv) /\ [Next]_vars
      => [slips' = {} => Promise!Next]_(Promise!vars)
  BY PromiseStep, SlipsStep DEF Smooth
<1> QED
  BY <1>1, <1>2, NodesCorrect, TypeCorrect, SmoothAlloc, CoreCorrect, PTL
     DEF Spec, KeepsPromise

----------------------------------------------------------------------------
(* The refinement of Announcements. *)

Unsent == IF alloc \in {"naming", "pushing"} THEN {totalIDs} ELSE {}
Sent   == nodes \ Unsent
Up     == plugin # "down"

(* Nothing waits for a daemon that does not run. *)
DownInv == plugin = "down" => newPodCh = <<>>

(* Only a running daemon announces. *)
LEMMA DownCorrect == Spec => []DownInv
<1>1. Init => DownInv
  BY DEF Init, DownInv
<1>2. TypeOK /\ DownInv /\ [Next]_vars => DownInv'
  <2> SUFFICES ASSUME TypeOK, DownInv, [Next]_vars PROVE DownInv'
    OBVIOUS
  <2>1. CASE Exit
    BY <2>1 DEF Exit, DownInv
  <2>2. CASE PushNewPod
    BY <2>2 DEF PushNewPod, TypeOK, DownInv, runVars
  <2>3. CASE Receive
    BY <2>3 DEF Receive, DownInv, runVars
  <2>4. CASE newPodCh' = newPodCh /\ (plugin' = "down" => plugin = "down")
    BY <2>4 DEF DownInv
  <2> QED
    BY <2>1, <2>2, <2>3, <2>4
       DEF Next, ListAndWatch, Allocate, Start, Register, KubeletRestart, Stop,
           CloseStop, SendDevices, ReadTotalIDs, AssignTotalIDs, WatchReturns,
           Ask, EndContainer, CreateGPUID, ReadVgpuId, Answer, Dialled,
           runVars, vars
<1> QED
  BY <1>1, <1>2, TypeCorrect, PTL DEF Spec

(* Every step of TokenManager is a step of Announcements or none: an id    *)
(* counts as used once it is pushed, or when the daemon ends before that.  *)
LEMMA ChannelStep ==
  ASSUME Smooth', TypeOK, AllocInv, CoreInv, NodesInv, DownInv, [Next]_vars
  PROVE  [Channel!Next]_(Channel!vars)
<1>a. ASSUME UNCHANGED <<Up, newPodCh, Sent>> PROVE UNCHANGED Channel!vars
  BY <1>a DEF Up, Sent, Unsent, Channel!vars
<1>b. Channel!Next =
        \/ ~Up /\ Up' /\ newPodCh' = newPodCh /\ Sent' = Sent
        \/ /\ Up /\ Up'
           /\ Len(newPodCh) < ChCap
           /\ \E id \in Sent' \ Sent :
                newPodCh' = Append(newPodCh, id) /\ Sent' = Sent \cup {id}
        \/ Up /\ Up' /\ newPodCh # <<>> /\ newPodCh' = Tail(newPodCh) /\ Sent' = Sent
        \/ /\ Up /\ ~Up'
           /\ newPodCh' = <<>>
           /\ \/ Sent' = Sent
              \/ \E id \in Sent' \ Sent : Sent' = Sent \cup {id}
  BY DEF Channel!Next, Channel!Begin, Channel!Announce, Channel!Take,
         Channel!Lose, Up, Sent, Unsent
<1>c. alloc \in {"naming", "pushing"} => totalIDs \in nodes
  BY DEF CoreInv, GrantInv, Created
<1>1. CASE Exit
  <2>1. Up /\ ~Up' /\ newPodCh' = <<>> /\ Sent' = nodes
    BY <1>1 DEF Exit, kernel, Up, Sent, Unsent
  <2>2. CASE alloc \in {"naming", "pushing"}
    <3>1. totalIDs \in nodes /\ Sent = nodes \ {totalIDs}
      BY <1>c, <2>2 DEF Sent, Unsent
    <3>2. totalIDs \in Sent' \ Sent /\ Sent' = Sent \cup {totalIDs}
      BY <2>1, <3>1
    <3> QED
      BY <1>b, <2>1, <3>2
  <2>3. CASE ~(alloc \in {"naming", "pushing"})
    <3>1. Sent = nodes
      BY <2>3 DEF Sent, Unsent
    <3> QED
      BY <1>b, <2>1, <3>1
  <2> QED
    BY <2>2, <2>3
<1>2. CASE CreateGPUID
  <2>1. /\ alloc = "creating" /\ alloc' = "naming"
        /\ nodes' = nodes \cup {totalIDs}
        /\ UNCHANGED <<totalIDs, plugin, newPodCh>>
    BY <1>2 DEF CreateGPUID, runVars, Smooth
  <2>2. totalIDs \notin nodes
    BY <2>1 DEF AllocInv, CoreInv, CountInv, Settled, Created, NodesInv, TypeOK
  <2>3. Sent' = Sent
    BY <2>1, <2>2 DEF Sent, Unsent
  <2> QED
    BY <1>a, <2>1, <2>3 DEF Up
<1>3. CASE PushNewPod
  <2>1. /\ alloc = "pushing" /\ alloc' = "counting" /\ vgpuId = totalIDs
        /\ Len(newPodCh) < ChCap /\ newPodCh' = Append(newPodCh, totalIDs)
        /\ UNCHANGED <<totalIDs, nodes, plugin>>
    BY <1>3 DEF PushNewPod, AllocInv, kernel, runVars
  <2>2. /\ totalIDs \in Sent' \ Sent /\ Sent' = Sent \cup {totalIDs}
    BY <1>c, <2>1 DEF Sent, Unsent
  <2>3. Up /\ Up'
    BY <2>1 DEF Up, TypeOK
  <2> QED
    BY <1>b, <2>1, <2>2, <2>3
<1>4. CASE Receive
  <2>1. /\ newPodCh # <<>> /\ newPodCh' = Tail(newPodCh)
        /\ UNCHANGED <<alloc, totalIDs, nodes, plugin>>
    BY <1>4 DEF Receive, allocVars, kernel, runVars
  <2>2. Sent' = Sent
    BY <2>1 DEF Sent, Unsent
  <2>3. Up /\ Up'
    BY <2>1 DEF Up, DownInv
  <2> QED
    BY <1>b, <2>1, <2>2, <2>3
<1>5. CASE Start
  <2>1. /\ ~Up /\ Up'
        /\ UNCHANGED <<alloc, totalIDs, nodes, newPodCh>>
    BY <1>5 DEF Start, Dialled, Up, allocVars, kernel
  <2> QED
    BY <1>b, <2>1 DEF Sent, Unsent
<1>6. CASE AssignTotalIDs
  <2>1. alloc = "none" /\ UNCHANGED <<alloc, nodes, plugin, newPodCh>>
    BY <1>6 DEF AssignTotalIDs, AllocInv, Settled, allocVars, kernel, runVars
  <2> QED
    BY <2>1, <1>a DEF Up, Sent, Unsent
<1>7. CASE \E c \in Containers : Ask(c)
  <2>1. /\ alloc = "none" /\ alloc' = "creating"
        /\ UNCHANGED <<nodes, plugin, newPodCh>>
    BY <1>7 DEF Ask, kernel, runVars
  <2> QED
    BY <2>1, <1>a DEF Up, Sent, Unsent
<1>8. CASE ReadVgpuId
  <2>1. /\ alloc = "naming" /\ alloc' = "pushing"
        /\ UNCHANGED <<totalIDs, nodes, plugin, newPodCh>>
    BY <1>8 DEF ReadVgpuId, kernel, runVars
  <2> QED
    BY <2>1, <1>a DEF Up, Sent, Unsent
<1>9. CASE Answer
  <2>1. /\ alloc = "counting" /\ alloc' = "none"
        /\ UNCHANGED <<nodes, plugin, newPodCh>>
    BY <1>9 DEF Answer, kernel, runVars
  <2> QED
    BY <2>1, <1>a DEF Up, Sent, Unsent
<1>10. CASE Register \/ KubeletRestart \/ Stop \/ CloseStop
  <2>1. /\ Up /\ Up'
        /\ UNCHANGED <<alloc, totalIDs, nodes, newPodCh>>
    BY <1>10 DEF Register, KubeletRestart, Stop, CloseStop, Dialled, Up,
                 allocVars, kernel
  <2> QED
    BY <2>1, <1>a DEF Sent, Unsent
<1>11. CASE UNCHANGED <<alloc, totalIDs, nodes, plugin, newPodCh>>
  BY <1>11, <1>a DEF Up, Sent, Unsent
<1> QED
  BY <1>1, <1>2, <1>3, <1>4, <1>5, <1>6, <1>7, <1>8, <1>9, <1>10, <1>11
     DEF Next, SendDevices, ListAndWatch, ReadTotalIDs, WatchReturns,
         EndContainer, Allocate, runVars, allocVars, kernel, vars

(* AnnouncesAll: every id that is created is announced, in order and never *)
(* twice, or lost at the end of a life, one each time, until something     *)
(* goes wrong.                                                             *)
THEOREM AnnouncesAllCorrect == Spec => AnnouncesAll
<1>1. Init => Channel!Init
  BY DEF Init, Channel!Init
<1>2. /\ TypeOK /\ (Smooth => AllocInv) /\ (Smooth => CoreInv)
      /\ (Smooth => NodesInv) /\ DownInv /\ [Next]_vars
      => [slips' = {} => Channel!Next]_(Channel!vars)
  BY ChannelStep, SlipsStep DEF Smooth
<1> QED
  BY <1>1, <1>2, NodesCorrect, TypeCorrect, SmoothAlloc, CoreCorrect,
     DownCorrect, PTL
     DEF Spec, AnnouncesAll

=============================================================================
