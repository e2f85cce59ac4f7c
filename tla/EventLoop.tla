------------------------------ MODULE EventLoop ------------------------------
(***************************************************************************)
(* Kernel launches, the passes they trigger, and the samples of a pod that *)
(* launches them: BpfWatcher and UsageSampling, composed by what           *)
(* UpdateNewPod and MonitorAndAutoScale do in monitoring mode, where no    *)
(* limit is set and the daemon is controlled by its events alone.          *)
(*                                                                         *)
(* UpdateNewPod samples the pod twice and stores it; then every pass       *)
(* samples it once.  All steps of a pass but the sample are module         *)
(* Monitor's, and so is the completed pod.                                 *)
(***************************************************************************)
EXTENDS Naturals, Sequences

CONSTANTS W, Scale, Rate, Cpus, RingCap, EbpfCap, MaxLaunches

VARIABLES
  clock, acct, alive, at, timeStamp, last, usage, avgUsage,
  elapsed, ran, late, window,
  proc, stopped, watcher, ring, poller, relay, ebpfCh, loop, served,
  on, gone,
  prepared,   \* how often UpdateNewPod sampled the pod; stored after two
  owed,       \* the pod was in the map when the pass began
  unsampled   \* history: launches after the time stamp of the last sample

S == INSTANCE UsageSampling
B == INSTANCE BpfWatcher

ASSUME EventLoopAssumption == S!SamplingAssumption /\ B!WatcherAssumption

sampling == <<clock, acct, alive, at, timeStamp, last, usage, avgUsage, elapsed,
              ran, late, window>>
watching == <<proc, stopped, watcher, ring, poller, relay, ebpfCh, loop, served,
              on, gone>>
own      == <<prepared, owed, unsampled>>
vars     == <<sampling, watching, own>>

Init ==
  /\ S!Init /\ B!Init
  /\ prepared = 0 /\ owed = FALSE /\ unsampled = {}

Stored == prepared = 2

----------------------------------------------------------------------------
(* The container, and the goroutines that do not sample. *)

Run(used) ==
  /\ proc = "up"
  /\ S!Run(used)
  /\ UNCHANGED <<watching, own>>

Time == \E used \in 0 .. Rate : Run(used)

EndContainer ==
  /\ proc = "up"
  /\ S!EndContainer
  /\ UNCHANGED <<watching, own>>

Launch ==
  /\ alive
  /\ B!Launch
  /\ unsampled' = IF Stored THEN unsampled \cup {B!launched'} ELSE unsampled
  /\ UNCHANGED <<sampling, prepared, owed>>

Others ==
  /\ B!Main \/ B!Relay \/ B!StopLoop
  /\ UNCHANGED <<sampling, own>>

----------------------------------------------------------------------------
(* UpdatePodUsage, called by UpdateNewPod and by a pass. *)

TakeTime ==
  /\ S!ReadClock
  /\ unsampled' = {}

Read == S!UpdateUsage \/ S!Completed

(* A pod whose first sample fails is stored as a completed one. *)
PrepareTime ==
  /\ proc = "up" /\ ~Stored
  /\ TakeTime
  /\ UNCHANGED <<watching, prepared, owed>>

PrepareRead ==
  /\ proc = "up" /\ ~Stored
  /\ Read
  /\ prepared' = IF at' = "completed" THEN 2 ELSE prepared + 1
  /\ UNCHANGED <<watching, owed, unsampled>>

(* An event or the timer. *)
Wake ==
  /\ B!ReceiveEvent \/ B!Tick
  /\ owed' = Stored
  /\ UNCHANGED <<sampling, prepared, unsampled>>

PassTime ==
  /\ proc = "up" /\ loop = "pass" /\ Stored
  /\ TakeTime
  /\ UNCHANGED <<watching, prepared, owed>>

PassRead ==
  /\ Stored
  /\ Read
  /\ B!EndPass
  /\ UNCHANGED own

(* Mutant: a pass that follows the last sample closely is left out. *)
PassWithoutDelay ==
  /\ ~owed \/ at = "completed" \/ elapsed = 0
  /\ ~(Stored /\ at = "timed")
  /\ B!EndPass
  /\ UNCHANGED <<sampling, own>>

(* The pod is not in the map, or was stored after the range had passed by. *)
PassWithout ==
  /\ ~owed \/ at = "completed"
  /\ ~(Stored /\ at = "timed")
  /\ B!EndPass
  /\ UNCHANGED <<sampling, own>>

Sample == PrepareTime \/ PrepareRead \/ PassTime \/ PassRead

Next ==
  \/ Time \/ EndContainer \/ Launch \/ Others
  \/ Sample \/ Wake \/ PassWithout

Spec == Init /\ [][Next]_vars

(* Goroutines are scheduled, and time passes.  select chooses at random    *)
(* among what is ready.                                                    *)
FairSpec ==
  /\ Spec
  /\ WF_vars(Time)
  /\ WF_vars(Sample) /\ WF_vars(PassWithout)
  /\ WF_vars(B!StartPolling /\ Others) /\ WF_vars(B!Relay /\ Others)
  /\ SF_vars(B!ReceiveEvent /\ Wake)

----------------------------------------------------------------------------
(* Properties *)

(* When the pass that an event triggered is over, the pod was sampled at a *)
(* time after the launch: events are neither answered with old samples nor *)
(* taken before they happened.                                             *)
SampledAfter ==
  proc = "up" /\ loop # "pass" /\ at # "completed" =>
    \A k \in 1 .. Len(served) : served[k] \notin unsampled

Waits(event) ==
  \E q \in {ebpfCh, relay, poller} \cup {ring[c] : c \in Cpus} :
    event \in B!Elements(q)

(* No launch is overlooked: until the pod is sampled after it, its event   *)
(* waits somewhere before Run, or Run is in a pass that will sample;       *)
(* unless its buffer had no room for it or it was garbled.                  *)
LaunchPending ==
  proc = "up" /\ at # "completed" =>
    \A event \in unsampled \ gone :
      Waits(event) \/ (loop = "pass" /\ owed /\ at # "timed")

(* Every launch is noticed in the end: the pod is sampled after it, or     *)
(* held to be over, or the event was lost in its buffer, or the daemon is  *)
(* stopped or ends.                                                        *)
EveryLaunchSampled ==
  unsampled \ gone # {} ~>
    unsampled \ gone = {} \/ at = "completed" \/ stopped \/ proc = "exited"

(* What the two components promise by themselves, they do together. *)
TypeOK == S!TypeOK /\ B!TypeOK
UsageIsMeasured == S!UsageIsMeasured
NoneLost == B!NoneLost
Samples == S!Spec
Watches == B!Spec

=============================================================================
