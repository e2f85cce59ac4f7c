--------------------------- MODULE MonitorProofs ---------------------------
(***************************************************************************)
(* What holds of Monitor for any number of containers, pods and restarts.  *)
(*                                                                         *)
(* SafeInv needs no assumption on the pod names.  OwnInv, and what         *)
(* follows from it, needs every container to have a pod name of its own.   *)
(***************************************************************************)
EXTENDS Monitor, TLAPS

(* The initial states are well typed. *)
LEMMA TypeCorrectInit == Init => TypeOK
<1> SUFFICES ASSUME Init PROVE TypeOK
  OBVIOUS
<1>1. newPodCh \in Seq(Ids) /\ todo \in SUBSET Pods /\ gpuNode \in SUBSET Ids
  BY DEF Init
<1>2. (cur # Nil) = (loop \in {"update", "store", "scaleStore"})
  BY DEF Init
<1>3. 0 \in 0 .. MaxInst
  BY MonitorAssumption DEF MonitorAssumption
<1> QED
  BY <1>1, <1>2, <1>3 DEF Init, TypeOK, Phases, Working, Prepared, Loops

(* A sample touches one pod, completes it or leaves it what it was made,   *)
(* never revives it, and counts as misread only if it completed the pod.   *)
LEMMA SampleDoes ==
  ASSUME TypeOK, NEW id \in Ids, NEW fresh \in {"initializing", "running"},
         Sample(id, fresh)
  PROVE  /\ status' \in [Ids -> {"none", "initializing", "running", "completed"}]
         /\ \A j \in Ids \ {id} : status'[j] = status[j]
         /\ status'[id] \in {fresh, "completed"}
         /\ status[id] = "completed" => status'[id] = "completed"
         /\ status'[id] = "completed" =>
              status[id] = "completed" \/ ~Alive(id) \/ id \in misread'
         /\ misread' = misread \/ misread' = misread \cup {id}
         /\ misread' # misread => status'[id] = "completed"
<1>1. PICK failed \in BOOLEAN :
        /\ status' = [status EXCEPT ![id] =
                        IF status[id] = "completed" \/ failed \/ ~Alive(id)
                        THEN "completed" ELSE fresh]
        /\ misread' = IF failed /\ Alive(id) THEN misread \cup {id} ELSE misread
  BY DEF Sample, TypeOK
<1>2. /\ status'[id] = IF status[id] = "completed" \/ failed \/ ~Alive(id)
                       THEN "completed" ELSE fresh
      /\ \A j \in Ids \ {id} : status'[j] = status[j]
      /\ status' \in [Ids -> {"none", "initializing", "running", "completed"}]
  BY <1>1 DEF TypeOK
<1> QED
  BY <1>1, <1>2

(* Every step keeps the types, and Run holds a pointer only in between. *)
LEMMA TypeCorrectStep == TypeOK /\ [Next]_vars => TypeOK'
<1> SUFFICES ASSUME TypeOK, [Next]_vars PROVE TypeOK'
  OBVIOUS
<1>0. ASSUME NEW id \in Ids, NEW fresh \in {"initializing", "running"},
             Sample(id, fresh)
      PROVE  /\ status' \in [Ids -> {"none", "initializing", "running", "completed"}]
             /\ misread' \in SUBSET Ids /\ status'[id] # "none"
             /\ \A j \in Ids \ {id} : status'[j] = status[j]
  BY <1>0, SampleDoes DEF TypeOK
<1> USE MonitorAssumption DEF MonitorAssumption, TypeOK, Phases, Working, Prepared, Loops
<1>1. ASSUME NEW id \in Ids, Grant(id) PROVE TypeOK'
  BY <1>1 DEF Grant, loopVars, maps
<1>2. ASSUME NEW id \in Ids, StartContainer(id) PROVE TypeOK'
  BY <1>2 DEF StartContainer, loopVars, maps
<1>3. ASSUME NEW id \in Ids, EndContainer(id) PROVE TypeOK'
  BY <1>3 DEF EndContainer, loopVars, maps
<1>4. ASSUME NEW id \in Ids, FindContainer(id) PROVE TypeOK'
  BY <1>4 DEF FindContainer, At, loopVars, maps, env
<1>5. ASSUME NEW id \in Ids, InspectContainer(id) PROVE TypeOK'
  BY <1>5 DEF InspectContainer, At, loopVars, maps, env
<1>6. ASSUME NEW id \in Ids, DockerPanic(id) PROVE TypeOK'
  BY <1>6 DEF DockerPanic, loopVars, maps, env
<1>7. ASSUME NEW id \in Ids, PreparePod(id) PROVE TypeOK'
  <2>1. Sample(id, "initializing")
    BY <1>7 DEF PreparePod
  <2>2. /\ status' \in [Ids -> {"none", "initializing", "running", "completed"}]
        /\ misread' \in SUBSET Ids /\ status'[id] # "none"
        /\ \A j \in Ids \ {id} : status'[j] = status[j]
    BY <2>1, <1>0
  <2> QED
    BY <1>7, <2>2 DEF PreparePod, At, loopVars, maps, env
<1>8. ASSUME NEW id \in Ids, BeginInsert(id) PROVE TypeOK'
  BY <1>8 DEF BeginInsert, At, loopVars, maps, env
<1>9. ASSUME NEW id \in Ids, EndInsert(id) PROVE TypeOK'
  BY <1>9 DEF EndInsert, At, Tracked, env
<1>10. CASE ReceiveNewPod
  BY <1>10 DEF ReceiveNewPod, Go, maps, env
<1>11. CASE StartPass
  BY <1>11 DEF StartPass, Go, Tracked, maps, env
<1>12. CASE RangeNext
  BY <1>12 DEF RangeNext, Fetch, Go, Tracked, maps, env
<1>13. CASE UpdatePod
  <2>1. cur \in Ids /\ Sample(cur, "running")
    BY <1>13 DEF UpdatePod, Go
  <2>2. /\ status' \in [Ids -> {"none", "initializing", "running", "completed"}]
        /\ misread' \in SUBSET Ids /\ status'[cur] # "none"
        /\ \A j \in Ids \ {cur} : status'[j] = status[j]
    BY <2>1, <1>0
  <2> QED
    BY <1>13, <2>2 DEF UpdatePod, Go, maps, env
<1>14. CASE StorePod
  BY <1>14 DEF StorePod, Store, Go, env
<1>15. CASE EndRange
  BY <1>15 DEF EndRange, Go, Tracked, maps, env
<1>16. CASE ScaleNext
  BY <1>16 DEF ScaleNext, Fetch, Go, Tracked, maps, env
<1>17. CASE ScaleStore
  BY <1>17 DEF ScaleStore, Go, env
<1>18. CASE EndScale
  BY <1>18 DEF EndScale, Go, maps, env
<1>19. CASE MapFault
  BY <1>19 DEF MapFault, loopVars, maps, env
<1>20. CASE Signal
  BY <1>20 DEF Signal, loopVars, maps, env
<1>21. CASE StopLoop
  BY <1>21 DEF StopLoop, Go, maps, env
<1>22. CASE Exit
  BY <1>22 DEF Exit, loopVars, maps, env
<1>23. CASE UNCHANGED vars
  BY <1>23 DEF vars, loopVars, maps, env
<1> HIDE DEF TypeOK
<1> QED
  BY <1>1, <1>2, <1>3, <1>4, <1>5, <1>6, <1>7, <1>8, <1>9, <1>10, <1>11,
     <1>12, <1>13, <1>14, <1>15, <1>16, <1>17, <1>18, <1>19, <1>20, <1>21,
     <1>22, <1>23
     DEF Next, UpdateNewPod, Pass

(* Every variable has its type, for any instance. *)
THEOREM TypeCorrect == Spec => []TypeOK
  BY TypeCorrectInit, TypeCorrectStep, PTL DEF Spec


----------------------------------------------------------------------------
(* The strengthening that holds whatever the pod names are.                *)

Early == {"idle", "polling", "inspecting", "preparing"}

(* A message waits for a container whose goroutine has not begun; no two   *)
(* messages name the same container.                                       *)
QueueInv ==
  /\ \A k \in 1 .. Len(newPodCh) :
       worker[newPodCh[k]] = "idle" /\ phase[newPodCh[k]] # "ungranted"
  /\ \A j, k \in 1 .. Len(newPodCh) : newPodCh[j] = newPodCh[k] => j = k

(* A PodInfo exists once its goroutine has prepared it, and is bound to an *)
(* instance that was started; a read that failed completed it.             *)
WorkerInv ==
  \A id \in Ids :
    /\ phase[id] = "ungranted" => worker[id] = "idle"
    /\ worker[id] \in Early => status[id] = "none"
    /\ bound[id] <= inst[id]
    /\ id \in misread => status[id] = "completed"

(* What Run reaches through the map, or holds, was stored by a goroutine   *)
(* that has returned.                                                      *)
MapsInv ==
  /\ \A p \in Pods : running[p] # Nil => worker[running[p]] = "done"
  /\ cur # Nil => worker[cur] = "done"

(* A pod that counts as completed has lost its files for good, or they     *)
(* were there and could not be read.                                       *)
CompletedHasCause ==
  \A id \in Ids : status[id] = "completed" => ~Alive(id) \/ id \in misread

SafeInv == TypeOK /\ QueueInv /\ WorkerInv /\ MapsInv /\ CompletedHasCause

(* SafeInv is inductive. *)
LEMMA SafeInvInit == Init => SafeInv
<1> SUFFICES ASSUME Init PROVE SafeInv
  OBVIOUS
<1>1. TypeOK
  BY TypeCorrectInit
<1>2. QueueInv
  BY DEF Init, QueueInv
<1>3. WorkerInv /\ MapsInv /\ CompletedHasCause
  BY MonitorAssumption DEF MonitorAssumption, Init, WorkerInv, MapsInv, CompletedHasCause
<1> QED
  BY <1>1, <1>2, <1>3 DEF SafeInv

(* Every step keeps SafeInv: a message waits for a goroutine that was not  *)
(* started, and nothing but PreparePod and UpdatePod completes a pod.      *)
LEMMA SafeInvStep == SafeInv /\ TypeOK' /\ [Next]_vars => SafeInv'
<1> SUFFICES ASSUME SafeInv, TypeOK', [Next]_vars PROVE SafeInv'
  OBVIOUS
<1> USE MonitorAssumption
    DEF MonitorAssumption, SafeInv, QueueInv, WorkerInv, MapsInv, CompletedHasCause,
        Alive, Early, Phases, Working
<1>1. ASSUME NEW id \in Ids, Grant(id) PROVE SafeInv'
  <2>1. newPodCh \in Seq(Ids) /\ newPodCh' = Append(newPodCh, id)
    BY <1>1 DEF TypeOK, Grant
  <2>2. /\ Len(newPodCh') = Len(newPodCh) + 1
        /\ \A k \in 1 .. Len(newPodCh) : newPodCh'[k] = newPodCh[k]
        /\ newPodCh'[Len(newPodCh) + 1] = id
    BY <2>1
  <2>3. worker[id] = "idle" /\ phase'[id] = "granted"
    BY <1>1 DEF TypeOK, Grant
  <2>4. \A k \in 1 .. Len(newPodCh) : newPodCh[k] # id
    BY <1>1 DEF Grant
  <2>5. \A k \in 1 .. Len(newPodCh') :
          worker'[newPodCh'[k]] = "idle" /\ phase'[newPodCh'[k]] # "ungranted"
    BY <1>1, <2>1, <2>2, <2>3, SMTT(60) DEF TypeOK, Grant
  <2>6. \A j, k \in 1 .. Len(newPodCh') : newPodCh'[j] = newPodCh'[k] => j = k
    BY <2>1, <2>2, <2>4, SMTT(60)
  <2> QED
    <3>1. QueueInv'
      BY <2>5, <2>6 DEF QueueInv
    <3>2. WorkerInv' /\ MapsInv' /\ CompletedHasCause'
      BY <1>1, <2>3 DEF TypeOK, Grant, loopVars, maps
    <3> QED
      BY <3>1, <3>2 DEF SafeInv
<1>2. ASSUME NEW id \in Ids, StartContainer(id) PROVE SafeInv'
  BY <1>2 DEF TypeOK, StartContainer, loopVars, maps
<1>3. ASSUME NEW id \in Ids, EndContainer(id) PROVE SafeInv'
  BY <1>3 DEF TypeOK, EndContainer, loopVars, maps
<1>4. ASSUME NEW id \in Ids, FindContainer(id) PROVE SafeInv'
  <2>1. QueueInv'
    BY <1>4 DEF TypeOK, FindContainer, At, loopVars, maps, env
  <2>2. WorkerInv' /\ CompletedHasCause'
    BY <1>4 DEF TypeOK, FindContainer, At, loopVars, maps, env
  <2>3. MapsInv'
    BY <1>4 DEF TypeOK, FindContainer, At, loopVars, maps, env
  <2> QED
    BY <2>1, <2>2, <2>3
<1>5. ASSUME NEW id \in Ids, InspectContainer(id) PROVE SafeInv'
  BY <1>5 DEF TypeOK, InspectContainer, At, loopVars, maps, env
<1>6. ASSUME NEW id \in Ids, DockerPanic(id) PROVE SafeInv'
  BY <1>6 DEF TypeOK, DockerPanic, loopVars, maps, env
<1>7. ASSUME NEW id \in Ids, PreparePod(id) PROVE SafeInv'
  <2>0. /\ worker[id] = "preparing" /\ worker' = [worker EXCEPT ![id] = "ready"]
        /\ UNCHANGED <<newPodCh, cur, bound, running, completed, phase, inst, gpuNode>>
        /\ Sample(id, "initializing")
    BY <1>7 DEF PreparePod, At, loopVars, maps, env
  <2>1. QueueInv'
    BY <2>0 DEF TypeOK
  <2>2. WorkerInv' /\ CompletedHasCause'
    <3>1. /\ \A j \in Ids \ {id} : status'[j] = status[j]
          /\ misread \subseteq misread' /\ misread' \subseteq misread \cup {id}
          /\ status'[id] = "completed" => ~Alive(id) \/ id \in misread'
          /\ id \in misread' => status'[id] = "completed"
      BY <2>0, SampleDoes DEF TypeOK, WorkerInv, CompletedHasCause, Early
    <3>2. \A j \in Ids : Alive(j)' = Alive(j)
      BY <2>0 DEF Alive
    <3>3. WorkerInv'
      BY <2>0, <3>1 DEF TypeOK, WorkerInv, Early
    <3>4. CompletedHasCause'
      BY <3>1, <3>2 DEF CompletedHasCause
    <3> QED
      BY <3>3, <3>4
  <2>3. MapsInv'
    BY <2>0 DEF TypeOK
  <2> QED
    BY <2>1, <2>2, <2>3
<1>8. ASSUME NEW id \in Ids, BeginInsert(id) PROVE SafeInv'
  <2>1. QueueInv'
    BY <1>8 DEF TypeOK, BeginInsert, At, loopVars, maps, env
  <2>2. WorkerInv' /\ CompletedHasCause'
    BY <1>8 DEF TypeOK, BeginInsert, At, loopVars, maps, env
  <2>3. MapsInv'
    BY <1>8 DEF TypeOK, BeginInsert, At, loopVars, maps, env
  <2> QED
    BY <2>1, <2>2, <2>3
<1>9. ASSUME NEW id \in Ids, EndInsert(id) PROVE SafeInv'
  <2>1. QueueInv'
    BY <1>9 DEF TypeOK, EndInsert, At, Tracked, env
  <2>2. WorkerInv' /\ CompletedHasCause'
    BY <1>9 DEF TypeOK, EndInsert, At, Tracked, env
  <2>3. MapsInv'
    BY <1>9 DEF TypeOK, EndInsert, At, Tracked, env
  <2> QED
    BY <2>1, <2>2, <2>3
<1>10. CASE ReceiveNewPod
  <2>1. newPodCh \in Seq(Ids) /\ newPodCh # <<>> /\ newPodCh' = Tail(newPodCh)
    BY <1>10 DEF TypeOK, ReceiveNewPod
  <2>2. /\ Len(newPodCh') = Len(newPodCh) - 1
        /\ \A k \in 1 .. Len(newPodCh') : newPodCh'[k] = newPodCh[k + 1]
        /\ Head(newPodCh) = newPodCh[1]
        /\ Len(newPodCh) \in Nat \ {0}
    BY <2>1
  <2>3. /\ worker' = [worker EXCEPT ![newPodCh[1]] = "polling"]
        /\ newPodCh[1] \in Ids
        /\ worker[newPodCh[1]] = "idle" /\ phase[newPodCh[1]] # "ungranted"
    BY <1>10, <2>1, <2>2 DEF ReceiveNewPod
  <2>4. \A k \in 1 .. Len(newPodCh') : k + 1 \in 1 .. Len(newPodCh) /\ k + 1 # 1
    BY <2>2
  <2>5. ASSUME NEW k \in 1 .. Len(newPodCh')
        PROVE worker'[newPodCh'[k]] = "idle" /\ phase'[newPodCh'[k]] # "ungranted"
    <3>1. newPodCh'[k] = newPodCh[k + 1] /\ k + 1 \in 1 .. Len(newPodCh) /\ 1 \in 1 .. Len(newPodCh)
      BY <2>2, <2>4
    <3>2. /\ newPodCh[k + 1] # newPodCh[1] /\ newPodCh[k + 1] \in Ids
          /\ worker[newPodCh[k + 1]] = "idle" /\ phase[newPodCh[k + 1]] # "ungranted"
      BY <3>1, <2>1, <2>4
    <3>3. phase' = phase
      BY <1>10 DEF ReceiveNewPod, env
    <3>4. worker \in [Ids -> Working \cup {"idle", "done"}]
      BY DEF TypeOK
    <3>5. worker'[newPodCh[k + 1]] = worker[newPodCh[k + 1]]
      BY <3>2, <3>4, <2>3
    <3> QED
      BY <3>1, <3>2, <3>3, <3>5
  <2>6. \A j, k \in 1 .. Len(newPodCh') : newPodCh'[j] = newPodCh'[k] => j = k
    BY <2>2, <2>4
  <2> QED
    <3>1. QueueInv'
      BY <2>5, <2>6 DEF QueueInv
    <3>2. WorkerInv' /\ MapsInv' /\ CompletedHasCause'
      BY <1>10, <2>3 DEF TypeOK, ReceiveNewPod, Go, maps, env
    <3> QED
      BY <3>1, <3>2 DEF SafeInv
<1>11. CASE StartPass
  BY <1>11 DEF TypeOK, StartPass, Go, Tracked, maps, env
<1>12. CASE RangeNext
  BY <1>12 DEF TypeOK, RangeNext, Fetch, Go, Tracked, maps, env
<1>13. CASE UpdatePod
  <2>0. /\ cur \in Ids /\ worker[cur] = "done" /\ Sample(cur, "running")
        /\ UNCHANGED <<newPodCh, cur, worker, bound, running, completed, phase,
                       inst, gpuNode>>
    BY <1>13 DEF UpdatePod, Go, maps, env, TypeOK
  <2>1. QueueInv' /\ MapsInv'
    BY <2>0
  <2>2. PICK id \in Ids : id = cur
    BY <2>0
  <2>3. /\ \A j \in Ids \ {id} : status'[j] = status[j]
        /\ status[id] = "completed" => status'[id] = "completed"
        /\ status'[id] = "completed" =>
             status[id] = "completed" \/ ~Alive(id) \/ id \in misread'
        /\ misread' = misread \/ misread' = misread \cup {id}
        /\ misread' # misread => status'[id] = "completed"
    BY <2>0, <2>2, SampleDoes DEF TypeOK
  <2>4. WorkerInv'
    BY <2>0, <2>2, <2>3
  <2>5. CompletedHasCause'
    BY <2>0, <2>2, <2>3
  <2> QED
    BY <2>1, <2>4, <2>5
<1>14. CASE StorePod
  BY <1>14 DEF TypeOK, StorePod, Store, Go, env
<1>15. CASE EndRange
  BY <1>15 DEF TypeOK, EndRange, Go, Tracked, maps, env
<1>16. CASE ScaleNext
  BY <1>16 DEF TypeOK, ScaleNext, Fetch, Go, Tracked, maps, env
<1>17. CASE ScaleStore
  BY <1>17 DEF TypeOK, ScaleStore, Go, env
<1>18. CASE EndScale
  BY <1>18 DEF TypeOK, EndScale, Go, maps, env
<1>19. CASE MapFault
  BY <1>19 DEF TypeOK, MapFault, loopVars, maps, env
<1>20. CASE Signal
  BY <1>20 DEF TypeOK, Signal, loopVars, maps, env
<1>21. CASE StopLoop
  BY <1>21 DEF TypeOK, StopLoop, Go, maps, env
<1>22. CASE Exit
  BY <1>22 DEF TypeOK, Exit, loopVars, maps, env
<1>23. CASE UNCHANGED vars
  BY <1>23 DEF TypeOK, vars, loopVars, maps, env
<1> HIDE DEF SafeInv
<1> QED
  BY <1>1, <1>2, <1>3, <1>4, <1>5, <1>6, <1>7, <1>8, <1>9, <1>10, <1>11, <1>12, <1>13, <1>14, <1>15, <1>16, <1>17, <1>18, <1>19, <1>20, <1>21, <1>22, <1>23
     DEF Next, UpdateNewPod, Pass

----------------------------------------------------------------------------
(* A container that was granted is in the channel or has a goroutine.      *)

GrantInv ==
  \A id \in Ids : phase[id] # "ungranted" => Queued(id) \/ worker[id] # "idle"

(* Nothing is granted at first. *)
LEMMA GrantInvInit == Init => GrantInv
  BY DEF Init, GrantInv

(* A step that leaves the channel alone can only add goroutines. *)
LEMMA GrantInvKept ==
  ASSUME GrantInv, newPodCh' = newPodCh,
         \A id \in Ids : phase'[id] # "ungranted" => phase[id] # "ungranted",
         \A id \in Ids : worker[id] # "idle" => worker'[id] # "idle"
  PROVE  GrantInv'
  BY DEF GrantInv, Queued

(* Every step keeps GrantInv: a message leaves the channel only when its   *)
(* goroutine starts.                                                       *)
LEMMA GrantInvStep == SafeInv /\ GrantInv /\ [Next]_vars => GrantInv'
<1> SUFFICES ASSUME SafeInv, GrantInv, [Next]_vars PROVE GrantInv'
  OBVIOUS
<1>0. TypeOK /\ QueueInv
  BY DEF SafeInv
<1>1. ASSUME NEW id \in Ids, Grant(id) PROVE GrantInv'
  <2>1. newPodCh \in Seq(Ids) /\ newPodCh' = Append(newPodCh, id)
    BY <1>1, <1>0 DEF TypeOK, Grant
  <2>2. /\ Len(newPodCh') = Len(newPodCh) + 1 /\ Len(newPodCh) \in Nat
        /\ \A k \in 1 .. Len(newPodCh) : newPodCh'[k] = newPodCh[k]
        /\ newPodCh'[Len(newPodCh) + 1] = id
    BY <2>1
  <2>3. \A j \in Ids : Queued(j) \/ j = id => Queued(j)'
    BY <2>2 DEF Queued
  <2>4. \A j \in Ids \ {id} : phase'[j] = phase[j] /\ worker'[j] = worker[j]
    BY <1>1, <1>0 DEF Grant, TypeOK
  <2> QED
    BY <2>3, <2>4 DEF GrantInv
<1>2. ASSUME NEW id \in Ids, StartContainer(id) PROVE GrantInv'
  BY <1>2, <1>0, GrantInvKept DEF TypeOK, StartContainer, loopVars, maps
<1>3. ASSUME NEW id \in Ids, EndContainer(id) PROVE GrantInv'
  BY <1>3, <1>0, GrantInvKept DEF TypeOK, EndContainer, loopVars, maps
<1>4. ASSUME NEW id \in Ids, FindContainer(id) PROVE GrantInv'
  BY <1>4, <1>0, GrantInvKept DEF TypeOK, FindContainer, At, loopVars, maps, env
<1>5. ASSUME NEW id \in Ids, InspectContainer(id) PROVE GrantInv'
  BY <1>5, <1>0, GrantInvKept DEF TypeOK, InspectContainer, At, loopVars, maps, env
<1>6. ASSUME NEW id \in Ids, DockerPanic(id) PROVE GrantInv'
  BY <1>6, <1>0, GrantInvKept DEF TypeOK, DockerPanic, loopVars, maps, env
<1>7. ASSUME NEW id \in Ids, PreparePod(id) PROVE GrantInv'
  BY <1>7, <1>0, GrantInvKept DEF TypeOK, PreparePod, At, loopVars, maps, env
<1>8. ASSUME NEW id \in Ids, BeginInsert(id) PROVE GrantInv'
  BY <1>8, <1>0, GrantInvKept DEF TypeOK, BeginInsert, At, loopVars, maps, env
<1>9. ASSUME NEW id \in Ids, EndInsert(id) PROVE GrantInv'
  BY <1>9, <1>0, GrantInvKept DEF TypeOK, EndInsert, At, Tracked, env
<1>10. CASE ReceiveNewPod
  <2>1. newPodCh \in Seq(Ids) /\ newPodCh # <<>> /\ newPodCh' = Tail(newPodCh)
    BY <1>10, <1>0 DEF TypeOK, ReceiveNewPod
  <2>2. /\ Len(newPodCh') = Len(newPodCh) - 1 /\ Len(newPodCh) \in Nat \ {0}
        /\ \A k \in 1 .. Len(newPodCh') : newPodCh'[k] = newPodCh[k + 1]
        /\ Head(newPodCh) = newPodCh[1]
    BY <2>1
  <2>3. ASSUME NEW j \in Ids, Queued(j), j # newPodCh[1] PROVE Queued(j)'
    <3>1. PICK k \in 1 .. Len(newPodCh) : newPodCh[k] = j
      BY <2>3 DEF Queued
    <3>2. k - 1 \in 1 .. Len(newPodCh') /\ (k - 1) + 1 = k
      BY <3>1, <2>2, <2>3
    <3> QED
      BY <3>1, <3>2, <2>2 DEF Queued
  <2>4. /\ worker' = [worker EXCEPT ![newPodCh[1]] = "polling"]
        /\ phase' = phase
    BY <1>10, <2>2 DEF ReceiveNewPod, env
  <2>5. \A j \in Ids : worker[j] # "idle" \/ j = newPodCh[1] => worker'[j] # "idle"
    BY <2>4, <1>0 DEF TypeOK
  <2> QED
    BY <2>3, <2>4, <2>5 DEF GrantInv
<1>11. CASE StartPass
  BY <1>11, <1>0, GrantInvKept DEF TypeOK, StartPass, Go, Tracked, maps, env
<1>12. CASE RangeNext
  BY <1>12, <1>0, GrantInvKept DEF TypeOK, RangeNext, Fetch, Go, Tracked, maps, env
<1>13. CASE UpdatePod
  BY <1>13, <1>0, GrantInvKept DEF TypeOK, UpdatePod, Go, maps, env
<1>14. CASE StorePod
  BY <1>14, <1>0, GrantInvKept DEF TypeOK, StorePod, Store, Go, env
<1>15. CASE EndRange
  BY <1>15, <1>0, GrantInvKept DEF TypeOK, EndRange, Go, Tracked, maps, env
<1>16. CASE ScaleNext
  BY <1>16, <1>0, GrantInvKept DEF TypeOK, ScaleNext, Fetch, Go, Tracked, maps, env
<1>17. CASE ScaleStore
  BY <1>17, <1>0, GrantInvKept DEF TypeOK, ScaleStore, Go, env
<1>18. CASE EndScale
  BY <1>18, <1>0, GrantInvKept DEF TypeOK, EndScale, Go, maps, env
<1>19. CASE MapFault
  BY <1>19, <1>0, GrantInvKept DEF TypeOK, MapFault, loopVars, maps, env
<1>20. CASE Signal
  BY <1>20, <1>0, GrantInvKept DEF TypeOK, Signal, loopVars, maps, env
<1>21. CASE StopLoop
  BY <1>21, <1>0, GrantInvKept DEF TypeOK, StopLoop, Go, maps, env
<1>22. CASE Exit
  BY <1>22, <1>0, GrantInvKept DEF TypeOK, Exit, loopVars, maps, env
<1>23. CASE UNCHANGED vars
  BY <1>23, <1>0, GrantInvKept DEF TypeOK, vars, loopVars, maps, env
<1> QED
  BY <1>1, <1>2, <1>3, <1>4, <1>5, <1>6, <1>7, <1>8, <1>9, <1>10, <1>11, <1>12,
     <1>13, <1>14, <1>15, <1>16, <1>17, <1>18, <1>19, <1>20, <1>21, <1>22, <1>23
     DEF Next, UpdateNewPod, Pass

----------------------------------------------------------------------------
(* What distinct pod names add.                                            *)

DistinctPods == \A i, j \in Ids : PodOf[i] = PodOf[j] => i = j

(* The containers that share their pod's name with no other. *)
Alone == {id \in Ids : \A j \in Ids : PodOf[j] = PodOf[id] => j = id}

(* Every entry of either map lies under its own pod's name.  A container   *)
(* alone in its pod is in one map only, is still in it while Run holds it, *)
(* and is in one of them once its goroutine is done, whatever containers   *)
(* of other pods share their names.                                        *)
NameInv ==
  /\ \A p \in Pods : running[p] # Nil => PodOf[running[p]] = p
  /\ \A p \in Pods : completed[p] # Nil =>
       PodOf[completed[p]] = p /\ worker[completed[p]] = "done"
  /\ \A id \in Alone : Reaped(id) => ~Tracking(id)
  /\ cur \in Alone => running[PodOf[cur]] = cur
  /\ \A id \in Alone : worker[id] = "done" => Tracking(id) \/ Reaped(id)

(* Both maps are empty at first. *)
LEMMA NameInvInit == Init => NameInv
  BY MonitorAssumption
     DEF MonitorAssumption, Init, NameInv, Alone, Tracking, Reaped

(* Every step keeps NameInv: nobody but a container alone in its pod and   *)
(* Run, holding its PodInfo, touches the entries under its pod's name.     *)
LEMMA NameInvStep == SafeInv /\ NameInv /\ TypeOK' /\ [Next]_vars => NameInv'
<1> SUFFICES ASSUME SafeInv, NameInv, TypeOK', [Next]_vars PROVE NameInv'
  OBVIOUS
<1>0. TypeOK /\ QueueInv /\ WorkerInv /\ MapsInv
  BY DEF SafeInv
<1> USE MonitorAssumption, <1>0
    DEF MonitorAssumption, Alone, NameInv, MapsInv, Tracking, Reaped
<1>1. ASSUME NEW id \in Ids, Grant(id) PROVE NameInv'
  BY <1>1 DEF TypeOK, Grant, loopVars, maps
<1>2. ASSUME NEW id \in Ids, StartContainer(id) PROVE NameInv'
  BY <1>2 DEF TypeOK, StartContainer, loopVars, maps
<1>3. ASSUME NEW id \in Ids, EndContainer(id) PROVE NameInv'
  BY <1>3 DEF TypeOK, EndContainer, loopVars, maps
<1>4. ASSUME NEW id \in Ids, FindContainer(id) PROVE NameInv'
  BY <1>4 DEF TypeOK, FindContainer, At, loopVars, maps, env
<1>5. ASSUME NEW id \in Ids, InspectContainer(id) PROVE NameInv'
  BY <1>5 DEF TypeOK, InspectContainer, At, loopVars, maps, env
<1>6. ASSUME NEW id \in Ids, DockerPanic(id) PROVE NameInv'
  BY <1>6 DEF TypeOK, DockerPanic, loopVars, maps, env
<1>7. ASSUME NEW id \in Ids, PreparePod(id) PROVE NameInv'
  BY <1>7 DEF TypeOK, PreparePod, At, loopVars, maps, env
<1>8. ASSUME NEW id \in Ids, BeginInsert(id) PROVE NameInv'
  BY <1>8 DEF TypeOK, BeginInsert, At, loopVars, maps, env
<1>9. ASSUME NEW id \in Ids, EndInsert(id) PROVE NameInv'
  BY <1>9 DEF TypeOK, EndInsert, At, Tracked, env
<1>10. CASE ReceiveNewPod
  <2>1. newPodCh \in Seq(Ids) /\ newPodCh # <<>>
    BY <1>10 DEF TypeOK, ReceiveNewPod
  <2>2. Head(newPodCh) \in Ids /\ worker[Head(newPodCh)] = "idle"
    BY <2>1 DEF QueueInv
  <2> QED
    BY <1>10, <2>2 DEF TypeOK, ReceiveNewPod, Go, maps, env
<1>11. CASE StartPass
  BY <1>11 DEF TypeOK, StartPass, Go, Tracked, maps, env
<1>12. CASE RangeNext
  BY <1>12 DEF TypeOK, RangeNext, Fetch, Go, Tracked, maps, env
<1>13. CASE UpdatePod
  BY <1>13 DEF TypeOK, UpdatePod, Go, maps, env
<1>14. CASE StorePod
  BY <1>14 DEF TypeOK, StorePod, Store, Go, env
<1>15. CASE EndRange
  BY <1>15 DEF TypeOK, EndRange, Go, Tracked, maps, env
<1>16. CASE ScaleNext
  BY <1>16 DEF TypeOK, ScaleNext, Fetch, Go, Tracked, maps, env
<1>17. CASE ScaleStore
  BY <1>17 DEF TypeOK, ScaleStore, Go, env
<1>18. CASE EndScale
  BY <1>18 DEF TypeOK, EndScale, Go, maps, env
<1>19. CASE MapFault
  BY <1>19 DEF TypeOK, MapFault, loopVars, maps, env
<1>20. CASE Signal
  BY <1>20 DEF TypeOK, Signal, loopVars, maps, env
<1>21. CASE StopLoop
  BY <1>21 DEF TypeOK, StopLoop, Go, maps, env
<1>22. CASE Exit
  BY <1>22 DEF TypeOK, Exit, loopVars, maps, env
<1>23. CASE UNCHANGED vars
  BY <1>23 DEF TypeOK, vars, loopVars, maps, env
<1> HIDE DEF NameInv
<1> QED
  BY <1>1, <1>2, <1>3, <1>4, <1>5, <1>6, <1>7, <1>8, <1>9, <1>10, <1>11, <1>12,
     <1>13, <1>14, <1>15, <1>16, <1>17, <1>18, <1>19, <1>20, <1>21, <1>22, <1>23
     DEF Next, UpdateNewPod, Pass

(* The maps hold what they should for every container alone in its pod:    *)
(* its entry is in one map only, and is not lost.                          *)
THEOREM AloneCorrect == Spec => [](SafeInv /\ GrantInv /\ NameInv)
<1>1. Init => SafeInv /\ GrantInv /\ NameInv
  BY SafeInvInit, GrantInvInit, NameInvInit
<1>2. SafeInv /\ GrantInv /\ NameInv /\ [Next]_vars
        => (SafeInv /\ GrantInv /\ NameInv)'
  BY SafeInvStep, TypeCorrectStep, GrantInvStep, NameInvStep DEF SafeInv
<1> QED
  BY <1>1, <1>2, PTL DEF Spec

(* What NeverForgotten says, of each container alone in its pod: no grant  *)
(* of its own is lost between channel, goroutine and maps or held twice,   *)
(* even while other containers share their pods' names.                    *)
THEOREM AloneNeverForgotten ==
  Spec => [](\A id \in Alone : phase[id] # "ungranted" => HeldOnce(id))
<1>1. ASSUME SafeInv, GrantInv, NameInv, NEW id \in Alone, phase[id] # "ungranted"
      PROVE  HeldOnce(id)
  <2>1. id \in Ids /\ id # Nil /\ PodOf[id] \in Pods
    BY MonitorAssumption DEF MonitorAssumption, Alone
  <2>2. Queued(id) => worker[id] = "idle"
    BY <1>1 DEF SafeInv, QueueInv, Queued
  <2>3. Tracking(id) \/ Reaped(id) => worker[id] = "done"
    BY <1>1, <2>1 DEF SafeInv, MapsInv, NameInv, Tracking, Reaped
  <2>4. Queued(id) \/ worker[id] # "idle"
    BY <1>1, <2>1 DEF GrantInv
  <2>5. ~(Tracking(id) /\ Reaped(id))
    BY <1>1 DEF NameInv
  <2>6. worker[id] = "done" => Tracking(id) \/ Reaped(id)
    BY <1>1 DEF NameInv
  <2> QED
    BY <2>2, <2>3, <2>4, <2>5, <2>6 DEF HeldOnce, Pending, Working
<1>2. SafeInv /\ GrantInv /\ NameInv
        => \A id \in Alone : phase[id] # "ungranted" => HeldOnce(id)
  BY <1>1
<1> QED
  BY AloneCorrect, <1>2, PTL

(* What OnlyCompletedRemoved says, of each container alone in its pod: its *)
(* entry leaves RunningPodMap, or is replaced, only when it was completed. *)
THEOREM AloneOnlyCompletedRemoved ==
  Spec => [][\A id \in Alone : Tracking(id) /\ ~Tracking(id)' =>
               status[id] = "completed"]_vars
<1> DEFINE Step == \A id \in Alone : Tracking(id) /\ ~Tracking(id)' =>
                     status[id] = "completed"
<1>1. SafeInv /\ NameInv /\ [Next]_vars => [Step]_vars
  <2> SUFFICES ASSUME SafeInv, NameInv, Next, NEW id \in Alone,
                      Tracking(id), ~Tracking(id)'
               PROVE  status[id] = "completed"
    OBVIOUS
  <2>1. TypeOK /\ MapsInv
    BY DEF SafeInv
  <2>0. id \in Ids /\ id # Nil /\ PodOf[id] \in Pods
    BY MonitorAssumption DEF MonitorAssumption, Alone
  <2>2. ASSUME NEW j \in Ids, EndInsert(j) PROVE FALSE
    BY <2>0, <2>1, <2>2 DEF EndInsert, At, NameInv, MapsInv, TypeOK, Alone, Tracking
  <2>3. CASE StorePod
    BY <2>0, <2>1, <2>3 DEF StorePod, Store, Go, NameInv, TypeOK, Alone, Tracking
  <2>4. CASE ScaleStore
    BY <2>0, <2>1, <2>4 DEF ScaleStore, Go, NameInv, TypeOK, Alone, Tracking
  <2>5. CASE running' = running
    BY <2>5 DEF Tracking
  <2> QED
    BY <2>2, <2>3, <2>4, <2>5
       DEF Next, Grant, StartContainer, EndContainer, UpdateNewPod, FindContainer,
           InspectContainer, DockerPanic, PreparePod, BeginInsert,
           ReceiveNewPod, StartPass, Pass, RangeNext, ScaleNext, Fetch,
           UpdatePod, EndRange, EndScale, MapFault, Signal, StopLoop, Exit, maps
<1> QED
  BY AloneCorrect, <1>1, PTL DEF Spec

(* What ReapedForGood says, of each container alone in its pod: once it is *)
(* in CompletedPodMap it stays there and is never tracked again.           *)
THEOREM AloneReapedForGood ==
  Spec => [][\A id \in Alone : Reaped(id) => Reaped(id)' /\ ~Tracking(id)']_vars
<1> DEFINE Step == \A id \in Alone : Reaped(id) => Reaped(id)' /\ ~Tracking(id)'
<1>1. SafeInv /\ NameInv /\ (SafeInv /\ NameInv)' /\ [Next]_vars => [Step]_vars
  <2> SUFFICES ASSUME SafeInv, NameInv, NameInv', Next, NEW id \in Alone, Reaped(id)
               PROVE  Reaped(id)' /\ ~Tracking(id)'
    OBVIOUS
  <2>1. TypeOK /\ MapsInv
    BY DEF SafeInv
  <2>0. id \in Ids /\ id # Nil /\ PodOf[id] \in Pods
    BY MonitorAssumption DEF MonitorAssumption, Alone
  <2>2. completed'[PodOf[id]] = id
    <3>1. CASE StorePod
      BY <2>0, <2>1, <3>1
         DEF StorePod, Store, Go, NameInv, TypeOK, Reaped, Alone
    <3>2. CASE completed' = completed
      BY <3>2 DEF Reaped
    <3> QED
      BY <3>1, <3>2
         DEF Next, Grant, StartContainer, EndContainer, UpdateNewPod, FindContainer,
             InspectContainer, DockerPanic, PreparePod, BeginInsert, EndInsert,
             ReceiveNewPod, StartPass, Pass, RangeNext, ScaleNext, Fetch,
             UpdatePod, EndRange, ScaleStore, EndScale, MapFault, Signal,
             StopLoop, Exit, maps
  <2> QED
    BY <2>2 DEF NameInv, Reaped, Tracking, Alone
<1> QED
  BY AloneCorrect, <1>1, PTL DEF Spec

(* The same of all of them: every entry of either map lies under its own   *)
(* pod's name, none lies in both, what Run holds is still in the map, and  *)
(* what a goroutine stored is in one of them.                              *)
OwnInv ==
  /\ \A p \in Pods : running[p] # Nil => PodOf[running[p]] = p
  /\ \A p \in Pods : completed[p] # Nil =>
       /\ PodOf[completed[p]] = p
       /\ worker[completed[p]] = "done"
       /\ running[p] # completed[p]
  /\ cur # Nil => running[PodOf[cur]] = cur
  /\ \A id \in Ids : worker[id] = "done" => Tracking(id) \/ Reaped(id)

(* Without shared pod names every container is alone. *)
LEMMA AllAlone ==
  ASSUME DistinctPods, TypeOK, NameInv
  PROVE  OwnInv
<1>1. Alone = Ids
  BY DEF Alone, DistinctPods
<1>2. ASSUME NEW p \in Pods, completed[p] # Nil PROVE running[p] # completed[p]
  <2>1. PICK id \in Ids : id = completed[p]
    BY <1>2 DEF TypeOK
  <2>2. PodOf[id] = p
    BY <1>2, <2>1 DEF NameInv
  <2>3. Reaped(id)
    BY <2>1, <2>2 DEF Reaped
  <2>4. ~Tracking(id)
    BY <1>1, <2>3 DEF NameInv
  <2> QED
    BY <2>1, <2>2, <2>4 DEF Tracking
<1>3. cur # Nil => running[PodOf[cur]] = cur
  BY <1>1 DEF TypeOK, NameInv
<1> QED
  BY <1>1, <1>2, <1>3 DEF NameInv, OwnInv

(* With a pod name for each container the maps hold what they should: an   *)
(* entry is under its own name, in one map only, and none is lost.         *)
THEOREM UniqueCorrect ==
  ASSUME DistinctPods
  PROVE  Spec => [](SafeInv /\ GrantInv /\ OwnInv)
<1>1. SafeInv /\ GrantInv /\ NameInv => SafeInv /\ GrantInv /\ OwnInv
  BY AllAlone DEF SafeInv
<1> QED
  BY AloneCorrect, <1>1, PTL

(* NeverForgotten: a container with a grant is queued, being prepared,     *)
(* tracked or reaped, and in one of these only.                            *)
THEOREM NeverForgottenCorrect ==
  ASSUME DistinctPods
  PROVE  Spec => []NeverForgotten
<1>1. Alone = Ids
  BY DEF Alone, DistinctPods
<1>2. (\A id \in Alone : phase[id] # "ungranted" => HeldOnce(id)) => NeverForgotten
  BY <1>1 DEF NeverForgotten
<1> QED
  BY AloneNeverForgotten, <1>2, PTL

(* OnlyCompletedRemoved: nothing but a completed pod leaves RunningPodMap, *)
(* and nothing in it is replaced.                                          *)
THEOREM OnlyCompletedRemovedCorrect ==
  ASSUME DistinctPods
  PROVE  Spec => OnlyCompletedRemoved
<1> DEFINE Step ==
      \A p \in Pods :
        running[p] # Nil /\ running'[p] # running[p] =>
          status[running[p]] = "completed"
<1>1. SafeInv /\ OwnInv /\ [Next]_vars => [Step]_vars
  <2> SUFFICES ASSUME SafeInv, OwnInv, Next, NEW p \in Pods,
                      running[p] # Nil, running'[p] # running[p]
               PROVE  status[running[p]] = "completed"
    OBVIOUS
  <2>1. TypeOK /\ MapsInv
    BY DEF SafeInv
  <2> USE MonitorAssumption DEF MonitorAssumption
  <2>2. ASSUME NEW id \in Ids, EndInsert(id) PROVE FALSE
    BY <2>1, <2>2 DEF EndInsert, At, OwnInv, MapsInv, TypeOK, DistinctPods
  <2>3. CASE StorePod
    BY <2>1, <2>3 DEF StorePod, Store, Go, OwnInv, TypeOK
  <2>4. CASE ScaleStore
    BY <2>1, <2>4 DEF ScaleStore, Go, OwnInv, TypeOK
  <2>5. CASE running' = running
    BY <2>5
  <2> QED
    BY <2>2, <2>3, <2>4, <2>5
       DEF Next, Grant, StartContainer, EndContainer, UpdateNewPod, FindContainer,
           InspectContainer, DockerPanic, PreparePod, BeginInsert,
           ReceiveNewPod, StartPass, Pass, RangeNext, ScaleNext, Fetch,
           UpdatePod, EndRange, EndScale, MapFault, Signal, StopLoop, Exit, maps
<1> QED
  BY UniqueCorrect, <1>1, PTL DEF Spec, OnlyCompletedRemoved

(* RemovedWasCompleted: sharing a pod name is all that lets another pod's  *)
(* entry leave the map in place of the one that was checked.               *)
THEOREM RemovedWasCompletedCorrect ==
  ASSUME DistinctPods
  PROVE  Spec => RemovedWasCompleted
<1> DEFINE Kept ==
      \A p \in Pods :
        running[p] # Nil /\ running'[p] # running[p] =>
          status[running[p]] = "completed"
<1> DEFINE Removed ==
      \A p \in Pods :
        running[p] # Nil /\ running'[p] = Nil =>
          status[running[p]] = "completed"
<1>1. Kept => Removed
  OBVIOUS
<1>2. [][Kept]_vars => [][Removed]_vars
  BY <1>1, PTL
<1> QED
  BY <1>2, OnlyCompletedRemovedCorrect
     DEF OnlyCompletedRemoved, RemovedWasCompleted

(* ReapedForGood: what is in CompletedPodMap stays there and is never      *)
(* tracked again.                                                          *)
THEOREM ReapedForGoodCorrect ==
  ASSUME DistinctPods
  PROVE  Spec => ReapedForGood
<1>1. Alone = Ids
  BY DEF Alone, DistinctPods
<1> DEFINE StepOf(S) == \A id \in S : Reaped(id) => Reaped(id)' /\ ~Tracking(id)'
<1>2. [StepOf(Alone)]_vars => [StepOf(Ids)]_vars
  BY <1>1
<1> QED
  BY AloneReapedForGood, <1>2, PTL DEF ReapedForGood

----------------------------------------------------------------------------
(* The refinement of PodTracking.                                          *)

(* What was reaped was completed. *)
ReapedInv == \A id \in Ids : Reaped(id) => status[id] = "completed"

(* Nothing is reaped at first. *)
LEMMA ReapedInvInit == Init => ReapedInv
  BY MonitorAssumption DEF MonitorAssumption, Init, ReapedInv, Reaped

(* Only StorePod adds to CompletedPodMap, after it looked at the status,   *)
(* and no completed pod becomes anything else.                             *)
LEMMA ReapedInvStep ==
  ASSUME DistinctPods
  PROVE  SafeInv /\ OwnInv /\ ReapedInv /\ [Next]_vars => ReapedInv'
<1> SUFFICES ASSUME SafeInv, OwnInv, ReapedInv, [Next]_vars, NEW id \in Ids, Reaped(id)'
             PROVE  status'[id] = "completed"
  BY DEF ReapedInv
<1>0. TypeOK /\ MapsInv /\ id # Nil /\ PodOf[id] \in Pods
  BY MonitorAssumption DEF MonitorAssumption, SafeInv
<1>1. CASE StorePod
  BY <1>0, <1>1, MonitorAssumption
     DEF MonitorAssumption, StorePod, Store, Go, ReapedInv, Reaped, TypeOK
<1>2. CASE UpdatePod
  <2>1. cur \in Ids /\ Sample(cur, "running") /\ completed' = completed
    BY <1>0, <1>2 DEF UpdatePod, Go, TypeOK, maps
  <2>2. status[id] = "completed"
    BY <2>1 DEF ReapedInv, Reaped
  <2> QED
    BY <1>0, <2>1, <2>2, SampleDoes
<1>3. ASSUME NEW j \in Ids, PreparePod(j) PROVE status'[id] = "completed"
  <2>1. completed' = completed /\ worker[j] = "preparing"
    BY <1>3 DEF PreparePod, At, maps
  <2>2. worker[id] = "done" /\ status[id] = "completed"
    BY <1>0, <2>1 DEF OwnInv, ReapedInv, Reaped
  <2> QED
    BY <1>0, <1>3, <2>1, <2>2, SampleDoes DEF PreparePod
<1>4. CASE completed' = completed /\ status' = status
  BY <1>4 DEF ReapedInv, Reaped
<1> QED
  BY <1>1, <1>2, <1>3, <1>4
     DEF Next, Grant, StartContainer, EndContainer, UpdateNewPod, FindContainer,
         InspectContainer, DockerPanic, BeginInsert, EndInsert, ReceiveNewPod,
         StartPass, Pass, RangeNext, ScaleNext, Fetch, EndRange, ScaleStore,
         EndScale, MapFault, Signal, StopLoop, Exit, maps, vars

Stages == [id \in Ids |-> Stage(id)]
Gone   == {id \in Ids : Found(id) /\ ~Alive(id)} \cup misread

(* A container's stage and its being gone depend on these alone. *)
LEMMA SameStage ==
  ASSUME UNCHANGED <<running, completed, bound, phase, inst, gpuNode, misread>>,
         \A id \in Ids : Found(id)' = Found(id)
  PROVE  UNCHANGED <<Stages, Gone>>
  BY DEF Stages, Gone, Stage, Reaped, Tracking, Alive

(* A container that is not found yet is in neither map. *)
LEMMA NotStored ==
  ASSUME SafeInv, OwnInv, NEW id \in Ids, worker[id] # "done"
  PROVE  ~Tracking(id) /\ ~Reaped(id)
  BY MonitorAssumption
     DEF MonitorAssumption, SafeInv, MapsInv, OwnInv, Tracking, Reaped

(* Every step of Monitor is a step of PodTracking or none.                 *)
LEMMA TrackingStep ==
  ASSUME DistinctPods, SafeInv, OwnInv, ReapedInv, TypeOK', OwnInv', [Next]_vars
  PROVE  [Promise!Next]_(Promise!vars)
<1>0. TypeOK /\ MapsInv /\ WorkerInv /\ QueueInv /\ CompletedHasCause
  BY DEF SafeInv
<1>a. ASSUME UNCHANGED <<Stages, Gone>> PROVE UNCHANGED Promise!vars
  BY <1>a DEF Stages, Gone, Promise!vars
<1>b. ASSUME NEW id \in Ids, NEW from, NEW to, Stage(id) = from, Stage(id)' = to,
             \A j \in Ids \ {id} : Stage(j)' = Stage(j), Gone' = Gone
      PROVE  Promise!Advance(id, from, to)
  BY <1>b DEF Promise!Advance, Gone
<1>c. ASSUME NEW id \in Ids, Stage(id) \in {"pending", "tracked"},
             \A j \in Ids : Stage(j)' = Stage(j), Gone' = Gone \cup {id}
      PROVE  Promise!Next
  BY <1>c DEF Promise!Next, Promise!Lose, Gone
<1> USE MonitorAssumption DEF MonitorAssumption
<1>1. ASSUME NEW id \in Ids, Grant(id) PROVE Promise!Next
  <2>1. worker[id] = "idle" /\ worker' = worker /\ phase' = [phase EXCEPT ![id] = "granted"]
    BY <1>1, <1>0 DEF Grant, WorkerInv
  <2>2. UNCHANGED <<running, completed, bound, inst, misread>>
    BY <1>1 DEF Grant, maps
  <2>3. ~Tracking(id) /\ ~Reaped(id)
    BY <2>1, NotStored
  <2>4. Stage(id) = "ungranted" /\ Stage(id)' = "pending"
    BY <1>1, <1>0, <2>1, <2>2, <2>3 DEF Grant, Stage, TypeOK, Tracking, Reaped
  <2>5. \A j \in Ids \ {id} : Stage(j)' = Stage(j)
    BY <1>0, <2>1, <2>2 DEF Stage, TypeOK, Tracking, Reaped
  <2>6. Gone' = Gone
    BY <1>0, <1>1, <2>1, <2>2 DEF Grant, Gone, Found, Alive, TypeOK
  <2> QED
    BY <1>b, <2>4, <2>5, <2>6 DEF Promise!Next, Promise!Grant
<1>2. ASSUME NEW id \in Ids, StartContainer(id) PROVE UNCHANGED <<Stages, Gone>>
  <2>1. UNCHANGED <<running, completed, bound, worker, gpuNode, misread>>
    BY <1>2 DEF StartContainer, maps
  <2>2. phase[id] \notin {"ungranted", "running"} /\ inst'[id] # bound[id]
    BY <1>0, <1>2 DEF StartContainer, TypeOK, WorkerInv
  <2> QED
    BY <1>0, <1>2, <2>1, <2>2
       DEF StartContainer, Stages, Gone, Stage, Found, Alive, Tracking, Reaped, TypeOK
<1>3. ASSUME NEW id \in Ids, EndContainer(id) PROVE [Promise!Next]_(Promise!vars)
  <2>1. UNCHANGED <<running, completed, bound, worker, inst, gpuNode, misread>>
    BY <1>3 DEF EndContainer, maps
  <2>2. \A j \in Ids : Stage(j)' = Stage(j)
    BY <1>0, <1>3, <2>1 DEF EndContainer, Stage, Tracking, Reaped, TypeOK
  <2>3. \A j \in Ids \ {id} : Alive(j)' = Alive(j)
    BY <1>0, <1>3, <2>1 DEF EndContainer, Alive, TypeOK
  <2>4. ~Alive(id)'
    BY <1>0, <1>3, <2>1 DEF EndContainer, Alive, TypeOK
  <2>5. CASE Found(id) /\ Alive(id) /\ id \notin misread
    <3>1. Stage(id) \in {"pending", "tracked"}
      BY <1>0, <2>5, <1>3 DEF EndContainer, Stage, ReapedInv, CompletedHasCause
    <3>2. Gone' = Gone \cup {id}
      BY <2>1, <2>3, <2>4, <2>5 DEF Gone, Found
    <3> QED
      BY <1>c, <2>2, <3>1, <3>2
  <2>6. CASE ~(Found(id) /\ Alive(id) /\ id \notin misread)
    <3>1. Gone' = Gone
      BY <2>1, <2>3, <2>4, <2>6 DEF Gone, Found
    <3> QED
      BY <1>a, <2>2, <3>1 DEF Stages
  <2> QED
    BY <2>5, <2>6
<1>4. ASSUME NEW id \in Ids, FindContainer(id) PROVE [Promise!Next]_(Promise!vars)
  <2>1. UNCHANGED <<running, completed, phase, inst, gpuNode, misread>>
    BY <1>4 DEF FindContainer, maps, env
  <2>2. /\ worker[id] = "polling" /\ worker' = [worker EXCEPT ![id] = "inspecting"]
        /\ bound' = [bound EXCEPT ![id] = inst[id]] /\ phase[id] = "running"
    BY <1>4 DEF FindContainer, At
  <2>3. \A j \in Ids : Stage(j)' = Stage(j)
    BY <2>1 DEF Stage, Tracking, Reaped
  <2>4. Stage(id) = "pending"
    BY <2>2, NotStored DEF Stage
  <2>5. \A j \in Ids \ {id} : Alive(j)' = Alive(j) /\ Found(j)' = Found(j)
    BY <1>0, <2>1, <2>2 DEF Alive, Found, TypeOK
  <2>6. ~Found(id) /\ Found(id)'
    BY <1>0, <2>2 DEF Found, TypeOK
  <2>7. CASE Alive(id)'
    <3>1. Gone' = Gone
      BY <2>1, <2>5, <2>6, <2>7 DEF Gone
    <3> QED
      BY <1>a, <2>3, <3>1 DEF Stages
  <2>8. CASE ~Alive(id)'
    <3>1. Gone' = Gone \cup {id}
      BY <2>1, <2>5, <2>6, <2>8 DEF Gone
    <3> QED
      BY <1>c, <2>3, <2>4, <3>1
  <2> QED
    BY <2>7, <2>8
<1>5. ASSUME NEW id \in Ids, InspectContainer(id) \/ BeginInsert(id)
      PROVE UNCHANGED <<Stages, Gone>>
  BY <1>0, <1>5, SameStage
     DEF InspectContainer, BeginInsert, At, maps, env, Found, TypeOK
<1>d. ASSUME NEW id \in Ids, NEW fresh \in {"initializing", "running"},
             Sample(id, fresh), Stage(id) \in {"pending", "tracked"},
             \A j \in Ids : Found(j)' = Found(j),
             UNCHANGED <<running, completed, bound, phase, inst, gpuNode>>
      PROVE  [Promise!Next]_(Promise!vars)
  <2>1. \A j \in Ids : Stage(j)' = Stage(j) /\ Alive(j)' = Alive(j)
    BY <1>d DEF Stage, Reaped, Tracking, Alive
  <2>2. misread' = misread \/ misread' = misread \cup {id}
    BY <1>0, <1>d, SampleDoes
  <2>3. CASE misread' = misread
    BY <1>a, <1>d, <2>3, SameStage
  <2>4. CASE misread' = misread \cup {id}
    <3>1. Gone' = Gone \cup {id}
      BY <1>d, <2>1, <2>4 DEF Gone
    <3> QED
      BY <1>c, <1>d, <2>1, <3>1
  <2> QED
    BY <2>2, <2>3, <2>4
<1>11. ASSUME NEW id \in Ids, PreparePod(id) PROVE [Promise!Next]_(Promise!vars)
  <2>1. /\ worker[id] = "preparing" /\ worker' = [worker EXCEPT ![id] = "ready"]
        /\ Sample(id, "initializing")
        /\ UNCHANGED <<running, completed, bound, phase, inst, gpuNode>>
    BY <1>11 DEF PreparePod, At, maps, env
  <2>2. Stage(id) = "pending"
    BY <1>0, <2>1, NotStored DEF Stage, WorkerInv
  <2>3. \A j \in Ids : Found(j)' = Found(j)
    BY <1>0, <2>1 DEF Found, TypeOK
  <2> QED
    BY <1>d, <2>1, <2>2, <2>3
<1>12. CASE UpdatePod
  <2>1. /\ cur \in Ids /\ Sample(cur, "running") /\ running[PodOf[cur]] = cur
        /\ UNCHANGED <<running, completed, bound, worker, phase, inst, gpuNode>>
    BY <1>0, <1>12 DEF UpdatePod, Go, maps, env, TypeOK, OwnInv
  <2>2. Stage(cur) = "tracked"
    BY <1>0, <2>1 DEF Stage, Tracking, Reaped, OwnInv, MapsInv, WorkerInv
  <2>3. \A j \in Ids : Found(j)' = Found(j)
    BY <2>1 DEF Found
  <2> QED
    BY <1>d, <2>1, <2>2, <2>3
<1>6. ASSUME NEW id \in Ids, EndInsert(id) PROVE Promise!Next
  <2>1. /\ worker[id] = "inserting" /\ worker' = [worker EXCEPT ![id] = "done"]
        /\ running' = [running EXCEPT ![PodOf[id]] = id]
        /\ UNCHANGED <<completed, bound, phase, inst, gpuNode, misread>>
    BY <1>6 DEF EndInsert, At, env
  <2>2. ~Tracking(id) /\ ~Reaped(id) /\ phase[id] # "ungranted"
    BY <1>0, <2>1, NotStored DEF WorkerInv
  <2>3. Tracking(id)' /\ ~Reaped(id)'
    BY <1>0, <2>1, <2>2 DEF Tracking, Reaped, TypeOK
  <2>4. \A j \in Ids \ {id} : Tracking(j)' = Tracking(j) /\ Reaped(j)' = Reaped(j)
    BY <1>0, <2>1 DEF Tracking, Reaped, TypeOK, DistinctPods
  <2>5. Stage(id) = "pending" /\ Stage(id)' = "tracked"
    BY <2>1, <2>2, <2>3 DEF Stage
  <2>6. \A j \in Ids \ {id} : Stage(j)' = Stage(j)
    BY <2>1, <2>4 DEF Stage
  <2>7. Gone' = Gone
    BY <1>0, <2>1 DEF Gone, Found, Alive, TypeOK
  <2> QED
    BY <1>b, <2>5, <2>6, <2>7 DEF Promise!Next, Promise!Track
<1>7. CASE ReceiveNewPod
  <2>1. newPodCh \in Seq(Ids) /\ newPodCh # <<>>
    BY <1>0, <1>7 DEF TypeOK, ReceiveNewPod
  <2>2. Head(newPodCh) \in Ids /\ worker[Head(newPodCh)] = "idle"
    BY <1>0, <2>1 DEF QueueInv
  <2> QED
    BY <1>0, <1>7, <2>2, <1>a, SameStage DEF ReceiveNewPod, maps, env, Found, TypeOK
<1>8. CASE StorePod
  <2>1. /\ cur \in Ids /\ running[PodOf[cur]] = cur /\ worker[cur] = "done"
        /\ phase[cur] # "ungranted" /\ PodOf[cur] \in Pods
    BY <1>0, <1>8 DEF StorePod, Store, Go, TypeOK, OwnInv, MapsInv, WorkerInv
  <2>2. UNCHANGED <<worker, bound, phase, inst, gpuNode, misread>>
    BY <1>8 DEF StorePod, Store, env
  <2>3. ~Reaped(cur)
    BY <2>1 DEF OwnInv, Reaped
  <2>4. CASE status[cur] = "completed"
    <3>0. PICK id \in Ids : id = cur
      BY <2>1
    <3>1. /\ running' = [running EXCEPT ![PodOf[id]] = Nil]
          /\ completed' = [completed EXCEPT ![PodOf[id]] = id]
      BY <1>8, <2>4, <3>0 DEF StorePod, Store
    <3>2. Stage(id) = "tracked" /\ Stage(id)' = "over"
      BY <1>0, <2>1, <2>2, <2>3, <3>0, <3>1 DEF Stage, Tracking, Reaped, TypeOK
    <3>3. \A j \in Ids \ {id} : Stage(j)' = Stage(j)
      BY <1>0, <2>1, <2>2, <3>0, <3>1 DEF Stage, Tracking, Reaped, TypeOK, DistinctPods
    <3>4. id \in Gone /\ Gone' = Gone
      BY <1>0, <2>1, <2>2, <2>4, <3>0 DEF Gone, Found, Alive, CompletedHasCause
    <3> QED
      BY <1>b, <3>2, <3>3, <3>4 DEF Promise!Next, Promise!Reap, Gone
  <2>5. CASE status[cur] # "completed"
    <3>1. running' = running /\ completed' = completed
      BY <1>0, <1>8, <2>1, <2>5 DEF StorePod, Store, TypeOK
    <3> QED
      BY <1>a, <2>2, <3>1, SameStage DEF Found
  <2> QED
    BY <2>4, <2>5
<1>9. CASE ScaleStore
  <2>1. cur \in Ids /\ running[PodOf[cur]] = cur
    BY <1>0, <1>9 DEF ScaleStore, Go, TypeOK, OwnInv
  <2>2. running' = running
    BY <1>0, <1>9, <2>1 DEF ScaleStore, TypeOK
  <2> QED
    BY <1>9, <2>2, <1>a, SameStage DEF ScaleStore, env, Found
<1>10. CASE UNCHANGED <<running, completed, bound, worker, phase, inst, gpuNode,
                       misread>>
  BY <1>10, <1>a, SameStage DEF Found
<1> QED
  BY <1>1, <1>2, <1>3, <1>4, <1>5, <1>6, <1>7, <1>8, <1>9, <1>10, <1>11, <1>12, <1>a
     DEF Next, UpdateNewPod, DockerPanic, StartPass, Pass, RangeNext, ScaleNext,
         Fetch, EndRange, EndScale, MapFault, Signal, StopLoop,
         Exit, maps, env, vars

(* KeepsPromise: Monitor implements PodTracking when every container has a *)
(* pod name of its own.                                                    *)
THEOREM KeepsPromiseCorrect ==
  ASSUME DistinctPods
  PROVE  Spec => KeepsPromise
<1>1. Init => Promise!Init
  BY MonitorAssumption DEF MonitorAssumption, Init, Promise!Init, Stage, Found
<1>2. Spec => []ReapedInv
  <2>1. SafeInv /\ OwnInv /\ ReapedInv /\ [Next]_vars => ReapedInv'
    BY ReapedInvStep
  <2> QED
    BY <2>1, ReapedInvInit, UniqueCorrect, PTL DEF Spec
<1>3. /\ SafeInv /\ OwnInv /\ ReapedInv /\ SafeInv' /\ OwnInv' /\ [Next]_vars
      => [Promise!Next]_(Promise!vars)
  BY TrackingStep DEF SafeInv
<1> QED
  BY <1>1, <1>2, <1>3, UniqueCorrect, PTL DEF Spec, KeepsPromise, Promise!Spec

=============================================================================
