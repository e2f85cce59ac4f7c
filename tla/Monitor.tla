------------------------------ MODULE Monitor ------------------------------
(***************************************************************************)
(* pkg/kumonitor: which containers the daemon tracks.                      *)
(*                                                                         *)
(* Run is one goroutine that selects over stopCh, newPodCh, ebpfCh and the *)
(* timer.  A message on newPodCh spawns a goroutine UpdateNewPod that      *)
(* polls docker for the container, prepares its PodInfo and stores it in   *)
(* RunningPodMap.  The timer and every eBPF event run MonitorAndAutoScale, *)
(* which ranges over the same map, samples each pod, moves the completed   *)
(* ones to CompletedPodMap and writes the others back.  No lock guards the *)
(* map, so every access of it is a step of its own, and an assignment made *)
(* by UpdateNewPod has a beginning and an end.                             *)
(*                                                                         *)
(* A PodInfo is named by the vGPU id of the message it was made for.  What *)
(* scaling computes for one pod is module PodScale.                        *)
(***************************************************************************)
EXTENDS Naturals, Sequences

CONSTANTS
  Ids,             \* vGPU ids the token manager grants, one per container
  Pods,            \* pod names, the keys of RunningPodMap
  PodOf,           \* the io.kubernetes.pod.name label of an id's container
  ChCap,           \* capacity of newPodCh (10 in cmd/kuscale/main.go)
  MaxInst,         \* bound: how often kubelet starts an id's container
  MonitoringMode,  \* config.monitoringMode: sample only, never set limits
  Nil              \* no PodInfo

ASSUME MonitorAssumption ==
  /\ PodOf \in [Ids -> Pods]
  /\ ChCap \in Nat \ {0}
  /\ MaxInst \in Nat \ {0}
  /\ MonitoringMode \in BOOLEAN
  /\ Nil \notin Ids

VARIABLES
  proc,       \* the daemon process: "up", "crashed" or "exited"
  stopped,    \* stopCh is closed
  newPodCh,   \* the channel from Allocate to Run
  loop,       \* where Run is
  todo,       \* keys the current range over RunningPodMap still owes
  cur,        \* the PodInfo pointer Run holds between fetch and store
  worker,     \* where each UpdateNewPod goroutine is
  bound,      \* the container instance whose paths the PodInfo holds
  status,     \* PodInfo.status, "none" before the PodInfo exists
  running,    \* RunningPodMap
  completed,  \* CompletedPodMap
  phase,      \* docker and kubelet: state of each container
  inst,       \* docker: how often the container was started
  gpuNode,    \* sysfs: ids with a directory under /sys/kernel/gpu/IDs
  misread     \* history: ids whose files were there when a read failed

loopVars == <<loop, todo, cur>>
maps     == <<running, completed>>
env      == <<phase, inst, gpuNode>>
vars     == <<proc, stopped, newPodCh, loopVars, worker, bound, status,
              misread, maps, env>>

Tracked == {p \in Pods : running[p] # Nil}

(* The files updateUsage reads exist: the cgroup of the instance that was  *)
(* found, and the GPU node, which nothing ever removes.                    *)
Alive(id) ==
  /\ phase[id] = "running"
  /\ inst[id] = bound[id]
  /\ id \in gpuNode

Init ==
  /\ proc = "up"
  /\ stopped = FALSE
  /\ newPodCh = <<>>
  /\ loop = "select" /\ todo = {} /\ cur = Nil
  /\ worker = [i \in Ids |-> "idle"]
  /\ bound = [i \in Ids |-> 0]
  /\ status = [i \in Ids |-> "none"]
  /\ running = [p \in Pods |-> Nil]
  /\ completed = [p \in Pods |-> Nil]
  /\ phase = [i \in Ids |-> "ungranted"]
  /\ inst = [i \in Ids |-> 0]
  /\ gpuNode = {}
  /\ misread = {}

----------------------------------------------------------------------------
(* The environment: Allocate, kubelet and docker, as src/ uses them.       *)

(* Allocate pushes "vgpuId:tokens" and only then answers kubelet.  The     *)
(* shell command that creates the GPU node may fail; that is only logged.  *)
Grant(id) ==
  /\ proc = "up"
  /\ phase[id] = "ungranted"
  /\ Len(newPodCh) < ChCap
  /\ newPodCh' = Append(newPodCh, id)
  /\ phase' = [phase EXCEPT ![id] = "granted"]
  /\ gpuNode' \in {gpuNode, gpuNode \cup {id}}
  /\ UNCHANGED <<proc, stopped, loopVars, worker, bound, status, misread, maps,
                 inst>>

(* A container starts once, or again in place after it ended, with a new   *)
(* docker ID and the same annotations.  Allocate is not called again.      *)
StartContainer(id) ==
  /\ phase[id] \in {"granted", "exited", "removed"}
  /\ inst[id] < MaxInst
  /\ phase' = [phase EXCEPT ![id] = "running"]
  /\ inst' = [inst EXCEPT ![id] = @ + 1]
  /\ UNCHANGED <<proc, stopped, newPodCh, loopVars, worker, bound, status,
                 misread, maps, gpuNode>>

(* A container ends, and later docker removes it. *)
EndContainer(id) ==
  /\ \/ phase[id] = "running" /\ phase' = [phase EXCEPT ![id] = "exited"]
     \/ phase[id] = "exited"  /\ phase' = [phase EXCEPT ![id] = "removed"]
  /\ UNCHANGED <<proc, stopped, newPodCh, loopVars, worker, bound, status,
                 misread, maps, inst, gpuNode>>

----------------------------------------------------------------------------
(* UpdateNewPod, one goroutine per message. *)

At(id, from, to) ==
  /\ proc = "up"
  /\ worker[id] = from
  /\ worker' = [worker EXCEPT ![id] = to]

(* Mutant: docker is asked once, not until the container is there. *)
FindContainerOnce(id) ==
  /\ At(id, "polling", IF phase[id] = "running" THEN "inspecting" ELSE "done")
  /\ bound' = [bound EXCEPT ![id] = inst[id]]
  /\ UNCHANGED <<proc, stopped, newPodCh, loopVars, status, misread, maps,
                 env>>

(* ContainerList sees running containers only; until the one with the label *)
(* is among them the goroutine keeps polling.                               *)
FindContainer(id) ==
  /\ At(id, "polling", "inspecting")
  /\ phase[id] = "running"
  /\ bound' = [bound EXCEPT ![id] = inst[id]]
  /\ UNCHANGED <<proc, stopped, newPodCh, loopVars, status, misread, maps,
                 env>>

InspectContainer(id) ==
  /\ At(id, "inspecting", "preparing")
  /\ inst[id] > bound[id] \/ phase[id] # "removed"
  /\ UNCHANGED <<proc, stopped, newPodCh, loopVars, bound, status, misread,
                 maps, env>>

(* Docker fails to list or to inspect, or has removed the container that   *)
(* was listed: each error panics, and the panic ends the daemon.           *)
DockerPanic(id) ==
  /\ proc = "up"
  /\ worker[id] \in {"polling", "inspecting"}
  /\ proc' = "crashed"
  /\ UNCHANGED <<stopped, newPodCh, loopVars, worker, bound, status, misread,
                 maps, env>>

(* A pod is sampled.  A file that is missing, or cannot be read, marks the *)
(* pod completed; a completed pod stays so whatever the files say now.     *)
Sample(id, fresh) ==
  \E failed \in BOOLEAN :
    /\ status' = [status EXCEPT ![id] =
                    IF @ = "completed" \/ failed \/ ~Alive(id)
                    THEN "completed" ELSE fresh]
    /\ misread' = IF failed /\ Alive(id) THEN misread \cup {id} ELSE misread

(* Mutant: the new PodInfo is given no status. *)
PreparePodUnset(id) ==
  /\ At(id, "preparing", "ready")
  /\ Sample(id, status[id])
  /\ UNCHANGED <<proc, stopped, newPodCh, loopVars, bound, maps, env>>

(* NewPodInfo, then two samples; either may complete the pod for good. *)
PreparePod(id) ==
  /\ At(id, "preparing", "ready")
  /\ Sample(id, "initializing")
  /\ UNCHANGED <<proc, stopped, newPodCh, loopVars, bound, maps, env>>

BeginInsert(id) ==
  /\ At(id, "ready", "inserting")
  /\ UNCHANGED <<proc, stopped, newPodCh, loopVars, bound, status, misread,
                 maps, env>>

(* A key that appears during a range is visited by it or not. *)
EndInsert(id) ==
  LET p == PodOf[id]
  IN /\ At(id, "inserting", "done")
     /\ running' = [running EXCEPT ![p] = id]
     /\ todo' \in IF p \in Tracked \/ loop \in {"select", "returned"}
                  THEN {todo} ELSE {todo, todo \cup {p}}
     /\ UNCHANGED <<proc, stopped, newPodCh, loop, cur, bound, status, misread,
                    completed, env>>

UpdateNewPod(id) ==
  \/ FindContainer(id) \/ InspectContainer(id)
  \/ PreparePod(id) \/ BeginInsert(id) \/ EndInsert(id)

----------------------------------------------------------------------------
(* Run and MonitorAndAutoScale. *)

Go(from, to) ==
  /\ proc = "up"
  /\ loop = from
  /\ loop' = to

ReceiveNewPod ==
  /\ Go("select", "select")
  /\ newPodCh # <<>>
  /\ newPodCh' = Tail(newPodCh)
  /\ worker' = [worker EXCEPT ![Head(newPodCh)] = "polling"]
  /\ UNCHANGED <<proc, stopped, todo, cur, bound, status, misread, maps, env>>

(* The timer or an eBPF event; with an empty map the pass returns at once. *)
StartPass ==
  /\ Go("select", "range")
  /\ Tracked # {}
  /\ todo' = Tracked
  /\ UNCHANGED <<proc, stopped, newPodCh, cur, worker, bound, status, misread,
                 maps, env>>

Fetch(from, to) ==
  /\ Go(from, to)
  /\ \E p \in todo \cap Tracked :
        /\ cur' = running[p]
        /\ todo' = todo \ {p}
  /\ UNCHANGED <<proc, stopped, newPodCh, worker, bound, status, misread, maps,
                 env>>

RangeNext == Fetch("range", "update")

(* Mutant: completion is read off the GPU node only, which stays. *)
UpdatePodGpuOnly ==
  /\ Go("update", "store")
  /\ status' = [status EXCEPT ![cur] =
                  IF @ # "completed" /\ cur \in gpuNode THEN "running"
                                                        ELSE "completed"]
  /\ UNCHANGED <<proc, stopped, newPodCh, todo, cur, worker, bound, misread,
                 maps, env>>

(* updatePod, on the pod that Run holds. *)
UpdatePod ==
  /\ Go("update", "store")
  /\ Sample(cur, "running")
  /\ UNCHANGED <<proc, stopped, newPodCh, todo, cur, worker, bound, maps, env>>

Store(over, reap, writeBack) ==
  LET p == PodOf[cur]
  IN /\ Go("store", "range")
     /\ running' = [running EXCEPT ![p] =
                      IF over /\ ~writeBack THEN Nil ELSE cur]
     /\ completed' = [completed EXCEPT ![p] = IF over /\ reap THEN cur ELSE @]
     /\ UNCHANGED <<proc, stopped, newPodCh, todo, worker, bound, status,
                    misread, env>>

(* Mutants: a completed pod is deleted and not recorded; it is recorded    *)
(* and written back; the files are looked at again instead of the status.  *)
StorePodDrops == Store(status[cur] = "completed", FALSE, FALSE) /\ cur' = Nil
StorePodBoth == Store(status[cur] = "completed", TRUE, TRUE) /\ cur' = Nil
StorePodRechecks == Store(~Alive(cur), TRUE, FALSE) /\ cur' = Nil

(* delete by name, or write the fetched pointer back under its name. *)
StorePod == Store(status[cur] = "completed", TRUE, FALSE) /\ cur' = Nil

EndRange ==
  /\ todo \cap Tracked = {}
  /\ \/ MonitoringMode  /\ Go("range", "select")     /\ todo' = {}
     \/ ~MonitoringMode /\ Go("range", "scaleRange") /\ todo' = Tracked
  /\ UNCHANGED <<proc, stopped, newPodCh, cur, worker, bound, status, misread,
                 maps, env>>

ScaleNext == Fetch("scaleRange", "scaleStore")

ScaleStore ==
  /\ Go("scaleStore", "scaleRange")
  /\ running' = [running EXCEPT ![PodOf[cur]] = cur]
  /\ cur' = Nil
  /\ UNCHANGED <<proc, stopped, newPodCh, todo, worker, bound, status, misread,
                 completed, env>>

EndScale ==
  /\ Go("scaleRange", "select")
  /\ todo \cap Tracked = {}
  /\ todo' = {}
  /\ UNCHANGED <<proc, stopped, newPodCh, cur, worker, bound, status, misread,
                 maps, env>>

Pass ==
  \/ RangeNext \/ UpdatePod \/ StorePod \/ EndRange
  \/ ScaleNext \/ ScaleStore \/ EndScale

(* The Go runtime may find an access of the map overlapping an assignment  *)
(* and throw, which no recover catches; or the overlap goes unnoticed.     *)
MapFault ==
  /\ proc = "up"
  /\ \E id \in Ids :
        /\ worker[id] = "inserting"
        /\ \/ loop \in {"range", "store", "scaleRange", "scaleStore"}
           \/ \E j \in Ids \ {id} : worker[j] \in {"ready", "inserting"}
  /\ proc' = "crashed"
  /\ UNCHANGED <<stopped, newPodCh, loopVars, worker, bound, status, misread,
                 maps, env>>

(* The first signal closes stopCh. *)
Signal ==
  /\ proc = "up" /\ ~stopped
  /\ stopped' = TRUE
  /\ UNCHANGED <<proc, newPodCh, loopVars, worker, bound, status, misread,
                 maps, env>>

(* Mutant: Run looks at stopCh only when it tracks nothing. *)
StopLoopWhenIdle ==
  /\ Go("select", "returned")
  /\ stopped /\ Tracked = {}
  /\ UNCHANGED <<proc, stopped, newPodCh, todo, cur, worker, bound, status,
                 misread, maps, env>>

StopLoop ==
  /\ Go("select", "returned")
  /\ stopped
  /\ UNCHANGED <<proc, stopped, newPodCh, todo, cur, worker, bound, status,
                 misread, maps, env>>

(* main returns two seconds after stopCh closes, waiting for nobody; a     *)
(* second signal ends the process at any time.                             *)
Exit ==
  /\ proc = "up" /\ stopped
  /\ proc' = "exited"
  /\ UNCHANGED <<stopped, newPodCh, loopVars, worker, bound, status, misread,
                 maps, env>>

Next ==
  \/ \E id \in Ids : Grant(id) \/ StartContainer(id) \/ EndContainer(id)
  \/ \E id \in Ids : UpdateNewPod(id) \/ DockerPanic(id)
  \/ ReceiveNewPod \/ StartPass \/ Pass
  \/ MapFault \/ Signal \/ StopLoop \/ Exit

(* Goroutines are scheduled and the timer keeps firing (WF).  A select     *)
(* picks among its ready cases at random, so a case that is ready again    *)
(* and again is taken (SF).  Nothing is assumed of docker and kubelet.     *)
Fairness ==
  /\ \A id \in Ids : WF_vars(UpdateNewPod(id))
  /\ WF_vars(Pass)
  /\ SF_vars(StartPass)
  /\ SF_vars(ReceiveNewPod)
  /\ SF_vars(StopLoop)

Spec == Init /\ [][Next]_vars

FairSpec == Spec /\ Fairness

----------------------------------------------------------------------------
(* Properties *)

Phases  == {"ungranted", "granted", "running", "exited", "removed"}
Working == {"polling", "inspecting", "preparing", "ready", "inserting"}
Prepared == {"ready", "inserting", "done"}
Loops   == {"select", "range", "update", "store", "scaleRange", "scaleStore",
            "returned"}

(* Every variable has its type; Run holds a pointer exactly between the    *)
(* fetch and the store of a range, and what can get into the map has a     *)
(* status.                                                                 *)
TypeOK ==
  /\ proc \in {"up", "crashed", "exited"}
  /\ stopped \in BOOLEAN
  /\ newPodCh \in Seq(Ids)
  /\ loop \in Loops
  /\ todo \in SUBSET Pods
  /\ cur \in Ids \cup {Nil}
  /\ (cur # Nil) = (loop \in {"update", "store", "scaleStore"})
  /\ worker \in [Ids -> Working \cup {"idle", "done"}]
  /\ bound \in [Ids -> 0 .. MaxInst]
  /\ status \in [Ids -> {"none", "initializing", "running", "completed"}]
  /\ running \in [Pods -> Ids \cup {Nil}]
  /\ completed \in [Pods -> Ids \cup {Nil}]
  /\ phase \in [Ids -> Phases]
  /\ inst \in [Ids -> 0 .. MaxInst]
  /\ gpuNode \in SUBSET Ids
  /\ misread \in SUBSET Ids
  /\ \A id \in Ids : worker[id] \in Prepared => status[id] # "none"

Queued(id)   == \E k \in 1 .. Len(newPodCh) : newPodCh[k] = id
Pending(id)  == Queued(id) \/ worker[id] \in Working
Tracking(id) == running[PodOf[id]] = id
Reaped(id)   == completed[PodOf[id]] = id

(* It waits in the channel, or its goroutine works on it, or it is in      *)
(* RunningPodMap, or it is in CompletedPodMap, and in one of these only.   *)
HeldOnce(id) ==
  /\ Queued(id) \/ worker[id] # "idle"
  /\ worker[id] = "done" => Tracking(id) \/ Reaped(id)
  /\ ~(Queued(id) /\ worker[id] # "idle")
  /\ ~(Pending(id) /\ (Tracking(id) \/ Reaped(id)))
  /\ ~(Tracking(id) /\ Reaped(id))

(* No container that was granted tokens is ever forgotten or held twice.   *)
(* Needs every container to have a pod name of its own.                    *)
NeverForgotten ==
  \A id \in Ids : phase[id] # "ungranted" => HeldOnce(id)

(* "Check and Remove Completed Pods": an entry leaves RunningPodMap, or is *)
(* replaced by another PodInfo, only if the pod it held was completed.     *)
OnlyCompletedRemoved ==
  [][\A p \in Pods :
       running[p] # Nil /\ running'[p] # running[p] =>
         status[running[p]] = "completed"]_vars

(* The same for removal alone: what leaves the map is what was checked,    *)
(* not another pod's entry that has taken its name in between.             *)
RemovedWasCompleted ==
  [][\A p \in Pods :
       running[p] # Nil /\ running'[p] = Nil =>
         status[running[p]] = "completed"]_vars

(* Once reaped, always reaped, and never tracked again, even when kubelet  *)
(* starts the container anew.                                              *)
ReapedForGood ==
  [][\A id \in Ids : Reaped(id) => Reaped(id)' /\ ~Tracking(id)']_vars

(* A running container with a grant is tracked sooner or later, unless it  *)
(* ends first or the daemon does.                                          *)
EventuallyTracked ==
  \A id \in Ids :
    phase[id] = "running" ~>
      \/ Tracking(id) \/ Reaped(id)
      \/ phase[id] # "running" \/ stopped \/ proc # "up"

(* A tracked pod whose container is gone is moved to CompletedPodMap. *)
EventuallyReaped ==
  \A id \in Ids :
    Tracking(id) /\ ~Alive(id) ~> Reaped(id) \/ stopped \/ proc # "up"

(* Run returns after stopCh is closed, however much work is queued. *)
StopReturns == stopped ~> (loop = "returned" \/ proc # "up")

----------------------------------------------------------------------------
(* The promise that channel, goroutines, passes and maps keep together.    *)

Stage(id) ==
  IF phase[id] = "ungranted" THEN "ungranted"
  ELSE IF Reaped(id) THEN "over"
  ELSE IF Tracking(id) THEN "tracked" ELSE "pending"

Found(id) == worker[id] \notin {"idle", "polling"}

Promise == INSTANCE PodTracking WITH
  stage <- [id \in Ids |-> Stage(id)],
  gone  <- {id \in Ids : Found(id) /\ ~Alive(id)} \cup misread

(* A grant is pending, then tracked, then over, one step at a time, never  *)
(* back and never skipping a stage, and over only when the container that  *)
(* was found is gone or could once not be read: whatever the interleaving  *)
(* of the goroutines.                                                      *)
KeepsPromise == Promise!Spec

=============================================================================
