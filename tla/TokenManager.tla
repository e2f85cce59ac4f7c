---------------------------- MODULE TokenManager ----------------------------
(***************************************************************************)
(* pkg/kutokenmanager: the device plugin that hands out vGPU ids.          *)
(*                                                                         *)
(* Run starts the gRPC server, registers with kubelet and stops the server *)
(* when stopCh closes.  Kubelet then calls ListAndWatch, which sends the   *)
(* tokens and only afterwards reads the next free id from the kernel, and  *)
(* Allocate, one call at a time, which creates the GPU node of the next    *)
(* id, announces it on newPodCh and counts it.  The two handlers share     *)
(* totalIDs without a lock.  The kernel module outlives the daemon; the    *)
(* daemon may end and be started again.                                    *)
(*                                                                         *)
(* The code survives three mishaps: the command that creates a node fails, *)
(* the kernel's count cannot be read, kubelet calls Allocate before the    *)
(* count was assigned.  slips records which of them ever happened, so that *)
(* a property can say which of them it does not survive.                   *)
(***************************************************************************)
EXTENDS Integers, Sequences

CONSTANTS
  Containers,  \* the containers that ask for tokens
  ChCap,       \* capacity of newPodCh
  MaxStarts,   \* bound: how often the daemon is started
  Slips,       \* bound: the mishaps there may be
  NoOne        \* no container

ASSUME TokenManagerAssumption ==
  /\ ChCap \in Nat \ {0}
  /\ MaxStarts \in Nat
  /\ Slips \subseteq {"command", "read", "early"}
  /\ NoOne \notin Containers

VARIABLES
  plugin,     \* where Run is
  starts,     \* how often the daemon was started
  totalIDs,   \* ktm.totalIDs
  watch,      \* where ListAndWatch is
  readIDs,    \* what ListAndWatch read and has not assigned yet
  alloc,      \* where Allocate is
  asking,     \* the container Allocate serves, or NoOne
  vgpuId,     \* Allocate's local variable
  newPodCh,   \* the channel to the monitor; its messages, the ids
  counter,    \* kernel: /sys/kernel/gpu/configs/totalIDs
  nodes,      \* kernel: the directories under /sys/kernel/gpu/IDs
  grant,      \* the id in each container's annotation, or NoId
  live,       \* containers with a grant that have not ended
  slips       \* history: the mishaps there were

runVars   == <<plugin, starts>>
watchVars == <<watch, readIDs>>
allocVars == <<alloc, asking, vgpuId>>
kernel    == <<counter, nodes>>
kubelet   == <<grant, live>>
vars ==
  <<runVars, totalIDs, watchVars, allocVars, newPodCh, kernel, kubelet, slips>>

NoId == -1

Init ==
  /\ plugin = "down" /\ starts = 0
  /\ totalIDs = 0
  /\ watch = "none" /\ readIDs = 0
  /\ alloc = "none" /\ asking = NoOne /\ vgpuId = 0
  /\ newPodCh = <<>>
  /\ counter = 0 /\ nodes = {}
  /\ grant = [c \in Containers |-> NoId]
  /\ live = {}
  /\ slips = {}

----------------------------------------------------------------------------
(* Run.  Every start is a new process.  The kernel module is inserted once *)
(* and keeps its state.  When the server cannot start or register, Run     *)
(* returns and the daemon goes on without a plugin.                        *)

(* A connection is there, or is not within five seconds. *)
Dialled(to) == {to, "failed"}

Start ==
  /\ plugin = "down"
  /\ starts < MaxStarts
  /\ starts' = starts + 1
  /\ plugin' \in Dialled("serving")
  /\ UNCHANGED <<totalIDs, watchVars, allocVars, newPodCh, kernel, kubelet,
                 slips>>

Register ==
  /\ plugin = "serving"
  /\ plugin' \in Dialled("registered")
  /\ UNCHANGED <<starts, totalIDs, watchVars, allocVars, newPodCh, kernel,
                 kubelet, slips>>

(* Kubelet restarts and has forgotten its plugins.  Nobody watches the     *)
(* socket to register again; handlers in flight go on for nobody.          *)
KubeletRestart ==
  /\ plugin = "registered"
  /\ plugin' = "forgotten"
  /\ UNCHANGED <<starts, totalIDs, watchVars, allocVars, newPodCh, kernel,
                 kubelet, slips>>

(* server.Stop: connections are closed, handlers in flight go on. *)
Stop ==
  /\ plugin \in {"registered", "forgotten"}
  /\ plugin' = "stopping"
  /\ UNCHANGED <<starts, totalIDs, watchVars, allocVars, newPodCh, kernel,
                 kubelet, slips>>

(* ktm.stop is closed and then forgotten, that is, set to nil. *)
CloseStop ==
  /\ plugin = "stopping"
  /\ plugin' = "stopped"
  /\ UNCHANGED <<starts, totalIDs, watchVars, allocVars, newPodCh, kernel,
                 kubelet, slips>>

(* The process ends, by itself two seconds after a signal or in a crash;   *)
(* what it held is lost.                                                   *)
Exit ==
  /\ plugin # "down"
  /\ plugin' = "down"
  /\ totalIDs' = 0
  /\ watch' = "none" /\ readIDs' = 0
  /\ alloc' = "none" /\ asking' = NoOne /\ vgpuId' = 0
  /\ newPodCh' = <<>>
  /\ UNCHANGED <<starts, kernel, kubelet, slips>>

----------------------------------------------------------------------------
(* ListAndWatch; kubelet calls it once for each registration. *)

(* Mutant: the tokens are offered before kubelet knows the plugin. *)
SendDevicesEarly ==
  /\ plugin # "down"
  /\ watch = "none"
  /\ watch' = "sent"
  /\ UNCHANGED <<runVars, totalIDs, readIDs, allocVars, newPodCh, kernel,
                 kubelet, slips>>

SendDevices ==
  /\ plugin = "registered"
  /\ watch = "none"
  /\ watch' = "sent"
  /\ UNCHANGED <<runVars, totalIDs, readIDs, allocVars, newPodCh, kernel,
                 kubelet, slips>>

(* A count that cannot be read or parsed is zero. *)
ReadTotalIDs ==
  /\ watch = "sent"
  /\ watch' = "read"
  /\ \/ readIDs' = counter /\ UNCHANGED slips
     \/ /\ "read" \in Slips
        /\ readIDs' = 0
        /\ slips' = slips \cup {"read"}
  /\ UNCHANGED <<runVars, totalIDs, allocVars, newPodCh, kernel, kubelet>>

(* The assignment may fall between the load and the store of Allocate's    *)
(* increment, and is then lost.  From then on the handler waits for        *)
(* ktm.stop, for ever if that is nil by now.                               *)
AssignTotalIDs ==
  /\ watch = "read"
  /\ watch' = IF plugin = "stopped" THEN "stuck" ELSE "watching"
  /\ \/ totalIDs' = readIDs
     \/ alloc = "counting" /\ UNCHANGED totalIDs
  /\ UNCHANGED <<runVars, readIDs, allocVars, newPodCh, kernel, kubelet,
                 slips>>

WatchReturns ==
  /\ watch = "watching" /\ plugin = "stopped"
  /\ watch' = "returned"
  /\ UNCHANGED <<runVars, totalIDs, readIDs, allocVars, newPodCh, kernel,
                 kubelet, slips>>

ListAndWatch == ReadTotalIDs \/ AssignTotalIDs \/ WatchReturns

----------------------------------------------------------------------------
(* Allocate; kubelet makes one call at a time. *)

(* Kubelet knows the tokens as soon as they are sent. *)
Ask(c) ==
  /\ plugin = "registered"
  /\ \/ watch = "watching" /\ UNCHANGED slips
     \/ /\ "early" \in Slips
        /\ watch \in {"sent", "read"}
        /\ slips' = slips \cup {"early"}
  /\ alloc = "none"
  /\ grant[c] = NoId
  /\ alloc' = "creating"
  /\ asking' = c
  /\ UNCHANGED <<runVars, totalIDs, watchVars, vgpuId, newPodCh, kernel,
                 kubelet>>

(* The kernel module counts every request, and adds a node if there is     *)
(* none of that name.  A failure of the command is only logged.            *)
CreateGPUID ==
  /\ alloc = "creating"
  /\ alloc' = "naming"
  /\ \/ /\ counter' = counter + 1
        /\ nodes' = nodes \cup {totalIDs}
        /\ UNCHANGED slips
     \/ /\ "command" \in Slips
        /\ slips' = slips \cup {"command"}
        /\ UNCHANGED kernel
  /\ UNCHANGED <<runVars, totalIDs, watchVars, asking, vgpuId, newPodCh,
                 kubelet>>

(* Mutant: the id that comes after the one that was created. *)
ReadNextId ==
  /\ alloc = "naming"
  /\ alloc' = "pushing"
  /\ vgpuId' = totalIDs + 1
  /\ UNCHANGED <<runVars, totalIDs, watchVars, asking, newPodCh, kernel,
                 kubelet, slips>>

ReadVgpuId ==
  /\ alloc = "naming"
  /\ alloc' = "pushing"
  /\ vgpuId' = totalIDs
  /\ UNCHANGED <<runVars, totalIDs, watchVars, asking, newPodCh, kernel,
                 kubelet, slips>>

(* Mutant: Allocate does not wait for room. *)
PushOrDrop ==
  /\ alloc = "pushing"
  /\ alloc' = "counting"
  /\ newPodCh' = IF Len(newPodCh) < ChCap THEN Append(newPodCh, vgpuId) ELSE newPodCh
  /\ UNCHANGED <<runVars, totalIDs, watchVars, asking, vgpuId, kernel, kubelet,
                 slips>>

PushNewPod ==
  /\ alloc = "pushing"
  /\ Len(newPodCh) < ChCap
  /\ alloc' = "counting"
  /\ newPodCh' = Append(newPodCh, vgpuId)
  /\ UNCHANGED <<runVars, totalIDs, watchVars, asking, vgpuId, kernel, kubelet,
                 slips>>

(* Mutant: the id is not counted. *)
AnswerUncounted ==
  /\ alloc = "counting"
  /\ alloc' = "none" /\ asking' = NoOne /\ vgpuId' = 0
  /\ IF plugin = "registered"
     THEN grant' = [grant EXCEPT ![asking] = vgpuId] /\ live' = live \cup {asking}
     ELSE UNCHANGED kubelet
  /\ UNCHANGED <<runVars, totalIDs, watchVars, newPodCh, kernel, slips>>

(* Kubelet gets the annotations unless the connection is gone. *)
Answer ==
  /\ alloc = "counting"
  /\ alloc' = "none" /\ asking' = NoOne /\ vgpuId' = 0
  /\ totalIDs' = totalIDs + 1
  /\ IF plugin = "registered"
     THEN grant' = [grant EXCEPT ![asking] = vgpuId] /\ live' = live \cup {asking}
     ELSE UNCHANGED kubelet
  /\ UNCHANGED <<runVars, watchVars, newPodCh, kernel, slips>>

Allocate == CreateGPUID \/ ReadVgpuId \/ PushNewPod \/ Answer

----------------------------------------------------------------------------
(* stopCh is closed. *)
Ending == plugin \in {"stopping", "stopped"}

(* Mutant: the monitor takes messages between two calls only. *)
ReceiveBetweenCalls ==
  /\ ~Ending
  /\ newPodCh # <<>> /\ alloc = "none"
  /\ newPodCh' = Tail(newPodCh)
  /\ UNCHANGED <<runVars, totalIDs, watchVars, allocVars, kernel, kubelet,
                 slips>>

(* Monitor.Run takes a message until stopCh closes. *)
Receive ==
  /\ ~Ending
  /\ newPodCh # <<>>
  /\ newPodCh' = Tail(newPodCh)
  /\ UNCHANGED <<runVars, totalIDs, watchVars, allocVars, kernel, kubelet,
                 slips>>

EndContainer(c) ==
  /\ c \in live
  /\ live' = live \ {c}
  /\ UNCHANGED <<runVars, totalIDs, watchVars, allocVars, newPodCh, kernel,
                 grant, slips>>

Next ==
  \/ Start \/ Register \/ KubeletRestart \/ Stop \/ CloseStop \/ Exit
  \/ SendDevices \/ ListAndWatch
  \/ \E c \in Containers : Ask(c) \/ EndContainer(c)
  \/ Allocate \/ Receive

Spec == Init /\ [][Next]_vars

(* Handlers and Run are scheduled, and a stopped daemon exits. *)
FairSpec ==
  /\ Spec
  /\ WF_vars(ListAndWatch)
  /\ WF_vars(Allocate)
  /\ WF_vars(Receive)
  /\ WF_vars(Ending /\ Exit)

----------------------------------------------------------------------------
(* Properties *)

Plugins == {"down", "serving", "registered", "forgotten", "stopping",
            "stopped", "failed"}
Watches == {"none", "sent", "read", "watching", "returned", "stuck"}
Allocs  == {"none", "creating", "naming", "pushing", "counting"}

(* Every variable has its type; Allocate serves a container exactly while  *)
(* it runs, and handlers run only in a daemon that has registered.         *)
TypeOK ==
  /\ plugin \in Plugins
  /\ starts \in Nat
  /\ totalIDs \in Nat
  /\ watch \in Watches
  /\ readIDs \in Nat
  /\ alloc \in Allocs
  /\ asking \in Containers \cup {NoOne}
  /\ (asking = NoOne) = (alloc = "none")
  /\ vgpuId \in Nat
  /\ newPodCh \in Seq(Nat)
  /\ counter \in Nat
  /\ nodes \in SUBSET Nat
  /\ grant \in [Containers -> Nat \cup {NoId}]
  /\ live \in SUBSET Containers
  /\ slips \in SUBSET Slips
  /\ alloc # "none" \/ watch # "none" =>
       plugin \notin {"down", "serving", "failed"}

(* The ids are safe: no mishap yet, or the daemon is in its first life,    *)
(* which counts for itself, and kubelet has waited for it to begin.        *)
Counted ==
  \/ slips = {}
  \/ starts <= 1 /\ "early" \notin slips

(* No vGPU id is granted twice: over all the lives of the daemon unless    *)
(* something has gone wrong, and in the first whatever the command and the *)
(* count do.  The monitor looks a container up by its id, and the GPU node *)
(* of an id is never removed.                                              *)
FreshIds ==
  Counted => \A c, d \in Containers :
               c # d /\ grant[c] # NoId => grant[c] # grant[d]

(* A container that is given an id finds the GPU node of that name, the    *)
(* one its answer mounts, unless the command failed or kubelet was early;  *)
(* that the count could not be read does not matter.                       *)
GrantHasNode ==
  slips \subseteq {"read"} =>
    \A c \in Containers : grant[c] # NoId => grant[c] \in nodes

(* What waits on newPodCh was granted or is about to be, or the answer was *)
(* lost to a stopped server or a new kubelet; nothing is announced twice   *)
(* in one life, even if the command and the count fail.                    *)
AnnouncedOnce ==
  "early" \notin slips =>
    \A k \in 1 .. Len(newPodCh) :
      /\ \/ \E c \in Containers : grant[c] = newPodCh[k]
         \/ alloc = "counting" /\ vgpuId = newPodCh[k]
         \/ plugin # "registered"
      /\ \A m \in 1 .. Len(newPodCh) : newPodCh[m] = newPodCh[k] => m = k

(* Allocate returns, even if newPodCh is full, or the daemon ends. *)
AllocateReturns == alloc # "none" ~> alloc = "none"

(* "Found the new container with vgpu": the container the monitor is to    *)
(* find by an id is the only live one with that id.                        *)
OneLivePerId ==
  \A c, d \in live : c # d => grant[c] # grant[d]

----------------------------------------------------------------------------
(* The promise that the handlers keep together, whenever the daemon or     *)
(* kubelet ends.                                                           *)

Promise == INSTANCE VgpuIds WITH
  Ids     <- Nat,
  created <- nodes,
  offered <- IF alloc \in {"naming", "pushing", "counting"} THEN totalIDs ELSE NoId

(* Every id is created once, for one request, and given to it or to none:  *)
(* over all the lives of the daemon and of kubelet, until something has    *)
(* gone wrong.                                                             *)
KeepsPromise ==
  Promise!Init /\ [][slips' = {} => Promise!Next]_(Promise!vars)

Channel == INSTANCE Announcements WITH
  Cap  <- ChCap,
  up   <- plugin # "down",
  ch   <- newPodCh,
  used <- nodes \ (IF alloc \in {"naming", "pushing"} THEN {totalIDs} ELSE {})

(* Every id that is created is announced, in that order and once in all    *)
(* the lives of the daemon, but for one that may be lost at the end of     *)
(* each, until something has gone wrong.                                   *)
AnnouncesAll ==
  Channel!Init /\ [][slips' = {} => Channel!Next]_(Channel!vars)

=============================================================================
