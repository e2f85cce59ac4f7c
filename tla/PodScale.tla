------------------------------ MODULE PodScale ------------------------------
(***************************************************************************)
(* pkg/kumonitor/info.go: the control loop of one pod.                     *)
(*                                                                         *)
(* UpdateNewPod prepares the PodInfo and sets the initial limits.  Every   *)
(* pass samples the pod (updatePod) and then computes its next limits from *)
(* the usages just measured, the token reservation and the weights         *)
(* (UpdateDynamicWeight, getNextLimit, setNextLimit).  A pod stored between *)
(* the two halves of a pass is scaled before its first regular sample.     *)
(*                                                                         *)
(* Percentages and tokens are integers that count the Unit-th parts of a   *)
(* percent and of a token, and quotients are rounded down to such a part.  *)
(* The daemon keeps the parts, the kernel is given whole percents only.    *)
(* Floor stands for the ten percent below which no limit is set.           *)
(***************************************************************************)
EXTENDS Integers

CONSTANTS
  R,               \* TokenReservation, tokens per second
  T,               \* monitoringPeriod, seconds
  StaticV,         \* staticV; 0 selects the dynamic weights
  Weights,         \* values dynamic weights take
  Unit,            \* parts of a percent that the daemon's numbers keep
  Floor,           \* the least limit, and the initial one: whole percents
  Loads,           \* bound: the percentages a container can use
  MonitoringMode,  \* config.monitoringMode: limits are never set
  EventDriven,     \* eBPF events trigger passes, so windows can be short
  Enforced         \* resources whose limit file exists and is honoured

Res == {"CPU", "GPU"}

(* NewPodInfo: miliCPU costs 1 token, miliGPU 3. *)
price == [r \in Res |-> IF r = "CPU" THEN 1 ELSE 3]

ASSUME ScaleAssumption ==
  /\ R \in Nat
  /\ T \in Nat \ {0}
  /\ StaticV \in Nat
  /\ Weights \subseteq Nat \ {0} /\ Weights # {}
  /\ Unit \in Nat \ {0}
  /\ Floor \in Nat \ {0} /\ Floor % Unit = 0
  /\ Loads \subseteq Nat
  /\ MonitoringMode \in BOOLEAN
  /\ EventDriven \in BOOLEAN
  /\ Enforced \subseteq Res

VARIABLES
  status,      \* PodInfo.status, "none" before UpdateNewPod
  turn,        \* which half of a pass comes to the pod next
  alive,       \* the container runs: its cgroup and GPU node are there
  demand,      \* what the container would use if nothing limited it
  usage,       \* ri.usage, the last sample
  limit,       \* ri.limit
  quota,       \* what the kernel enforces; NoQuota until it is written
  TokenQueue,  \* PodInfo.TokenQueue
  updated      \* UpdatedCount > 0, that is, lastUpdatedTime is set

vars == <<status, turn, alive, demand, usage, limit, quota, TokenQueue, updated>>

NoQuota == -1

PerRes(S) == [Res -> S]

Least(a, b)    == IF a <= b THEN a ELSE b
Greatest(a, b) == IF a >= b THEN a ELSE b

Cost(x) == price["CPU"] * x["CPU"] + price["GPU"] * x["GPU"]

----------------------------------------------------------------------------
(* getNextLimit.  The factor k of the token queue is zero, so the tokens   *)
(* that are available are those of one period.                             *)

availableToken == R * T

Unconstrained(u, w) ==
  [r \in Res |-> u[r] + (price[r] * availableToken) \div (2 * w[r])]

(* Mutant: the period is left out of the token condition. *)
TokenEnoughPerSecond(x) == availableToken - Cost(x) >= 0

TokenEnough(x) == availableToken - Cost(x) * T >= 0

(* Mutant: the tokens of a period, not of a second. *)
upPerPeriod(u) == availableToken - Cost(u)

up(u) == availableToken \div T - Cost(u)

below(w) ==
  w["GPU"] * price["CPU"] * price["CPU"] + w["CPU"] * price["GPU"] * price["GPU"]

Other(r) == IF r = "CPU" THEN "GPU" ELSE "CPU"

(* Mutant: a resource is weighted by its own weight. *)
ConstrainedUnswapped(u, w) ==
  [r \in Res |-> u[r] + (price[r] * w[r] * up(u)) \div below(w)]

Constrained(u, w) ==
  [r \in Res |-> u[r] + (price[r] * w[Other(r)] * up(u)) \div below(w)]

(* Mutant: the token condition is not looked at. *)
NextLimitUnconstrained(u, w) == Unconstrained(u, w)

NextLimit(u, w) ==
  IF TokenEnough(Unconstrained(u, w)) THEN Unconstrained(u, w)
                                      ELSE Constrained(u, w)

(* Mutant: no limit has a floor. *)
AtLeastZero(x) == [r \in Res |-> Greatest(x[r], 0)]

(* setNextLimit lifts what is computed to the floor. *)
AtLeastFloor(x) == [r \in Res |-> Greatest(x[r], Floor)]

(* UpdateDynamicWeight: the price times staticV, or a positive weight that *)
(* depends on the averages of past usage, which this module leaves open.   *)
DynamicWeights ==
  IF StaticV > 0 THEN {[r \in Res |-> price[r] * StaticV]}
                 ELSE PerRes(Weights)

(* UpdateTokenQueue *)
NextQueue(elapsed) ==
  LET q == TokenQueue + R * elapsed - Cost(limit) * elapsed
  IN IF q < 0 THEN 0 ELSE Least(q, R)

----------------------------------------------------------------------------
(* uint64(limit): the whole percents of a limit. *)
Whole(x) == (x \div Unit) * Unit

(* SetLimit writes the whole percents into the kernel's files, in vain     *)
(* where there is none, and remembers the limit with its fraction.         *)
SetLimit(x) ==
  /\ limit' = x
  /\ quota' = [r \in Res |-> IF alive /\ r \in Enforced THEN Whole(x[r])
                             ELSE quota[r]]

(* The usages a sample can find.  A quota holds over a monitoring period;  *)
(* in a window as short as that between two events anything can be seen.   *)
Measured ==
  IF EventDriven THEN PerRes(Loads)
  ELSE {[r \in Res |-> IF quota[r] = NoQuota THEN demand[r]
                       ELSE Least(demand[r], quota[r])]}

Init ==
  /\ status = "none"
  /\ turn = "update"
  /\ alive \in BOOLEAN
  /\ demand \in PerRes(Loads)
  /\ usage = [r \in Res |-> 0]
  /\ limit = [r \in Res |-> 0]
  /\ quota = [r \in Res |-> NoQuota]
  /\ TokenQueue = 0
  /\ updated = FALSE

(* The container needs more or less than before, or ends. *)
ChangeDemand ==
  /\ demand' \in PerRes(Loads)
  /\ UNCHANGED <<status, turn, alive, usage, limit, quota, TokenQueue, updated>>

EndContainer ==
  /\ alive
  /\ alive' = FALSE
  /\ UNCHANGED <<status, turn, demand, usage, limit, quota, TokenQueue, updated>>

(* UpdateNewPod prepares the PodInfo.  Its two samples lie microseconds    *)
(* apart, so the usage it leaves can be anything, and either may find that *)
(* a file cannot be read, be it there or not.  When the pod is stored Run  *)
(* may be in the middle of a pass.                                         *)
UpdateNewPod ==
  /\ status = "none"
  /\ IF MonitoringMode
     THEN turn' = "update" /\ UNCHANGED <<limit, quota>>
     ELSE turn' \in {"update", "scale"} /\ SetLimit([r \in Res |-> Floor])
  /\ \/ alive /\ status' = "initializing" /\ usage' \in PerRes(Loads)
     \/ status' = "completed" /\ usage' \in PerRes(Loads \cup {0})
  /\ UNCHANGED <<alive, demand, TokenQueue, updated>>

(* updatePod.  Before the first scaling lastUpdatedTime is zero, and the   *)
(* elapsed time is that since 1970: any amount of tokens.                  *)
Epoch == 1000 * (R + 1)

(* Mutant: time is counted from the start of the pod. *)
ElapsedSinceStart == 0 .. T

Elapsed ==
  IF ~updated THEN {Epoch} ELSE IF EventDriven THEN 0 .. T ELSE {T}

UpdatePod ==
  /\ status \in {"initializing", "running"}
  /\ turn = "update"
  /\ \E elapsed \in Elapsed : TokenQueue' = NextQueue(elapsed)
  /\ \/ /\ alive
        /\ status' = "running"
        /\ usage' \in Measured
        /\ turn' = IF MonitoringMode THEN "update" ELSE "scale"
     \/ /\ status' = "completed"      \* a file could not be read
        /\ UNCHANGED <<usage, turn>>  \* not looked at again
  /\ UNCHANGED <<alive, demand, limit, quota, updated>>

(* Mutant: the next limits are computed from the limits, not the usages. *)
ScaleFromLimit ==
  /\ turn = "scale"
  /\ \E w \in DynamicWeights : SetLimit(AtLeastFloor(NextLimit(limit, w)))
  /\ updated' = TRUE
  /\ turn' = "update"
  /\ UNCHANGED <<status, alive, demand, usage, TokenQueue>>

(* UpdateDynamicWeight, getNextLimit and setNextLimit.  A pod that is      *)
(* completed when it is stored in the middle of a pass is scaled once too, *)
(* in vain, before it is reaped.                                           *)
Scale ==
  /\ turn = "scale"
  /\ \E w \in DynamicWeights : SetLimit(AtLeastFloor(NextLimit(usage, w)))
  /\ updated' = TRUE
  /\ turn' = "update"
  /\ UNCHANGED <<status, alive, demand, usage, TokenQueue>>

Next == ChangeDemand \/ EndContainer \/ UpdateNewPod \/ UpdatePod \/ Scale

Spec == Init /\ [][Next]_vars

(* Run's timer keeps firing and every pass visits every tracked pod. *)
FairSpec == Spec /\ WF_vars(UpdateNewPod) /\ WF_vars(UpdatePod) /\ WF_vars(Scale)

----------------------------------------------------------------------------
(* Properties *)

Statuses == {"none", "initializing", "running", "completed"}

(* Every variable has its type; a tracked pod has a limit on each resource *)
(* that is no lower than the floor, unless only monitoring was asked for.  *)
TypeOK ==
  /\ status \in Statuses
  /\ turn \in {"update", "scale"}
  /\ alive \in BOOLEAN
  /\ demand \in PerRes(Loads)
  /\ usage \in PerRes(Nat)
  /\ limit \in PerRes(Nat)
  /\ quota \in PerRes(Nat \cup {NoQuota})
  /\ TokenQueue \in 0 .. R
  /\ updated \in BOOLEAN
  /\ \A r \in Res : limit[r] >= Floor \/ MonitoringMode \/ status = "none"

(* A pod whose measured usage costs no more than its reservation is never  *)
(* given less than what it uses: it may keep what it has, but for the      *)
(* fraction of a percent that the kernel does not get.                     *)
UnderBudgetNotThrottled ==
  [][turn = "scale" /\ turn' = "update" /\ Cost(usage) <= R =>
       \A r \in Res : limit'[r] >= usage[r]]_vars

(* A pod whose usage costs more than its reservation is never given more   *)
(* than what it uses, of neither resource, beyond the floor.               *)
OverBudgetNotRaised ==
  [][turn = "scale" /\ turn' = "update" /\ Cost(usage) > R =>
       \A r \in Res : limit'[r] <= Greatest(usage[r], Floor)]_vars

(* What the reservation buys when it is spent on r alone, or the floor. *)
Share(r)  == Greatest(R \div price[r], Floor)
Within(r) == limit[r] <= Share(r)

(* Once a regularly sampled pod has a limit its reservation can pay for,   *)
(* whatever it asks for and whatever the other resource does its limits    *)
(* stay so, wherever the kernel honours them.                              *)
StaysWithin ==
  [][\A r \in Enforced :
       Within(r) /\ status = "running" => Within(r)']_vars

(* A limit that is beyond its share comes down whenever a regularly        *)
(* sampled pod is scaled, until it is within.                              *)
OvershootFalls ==
  [][turn = "scale" /\ turn' = "update" /\ status = "running" =>
       \A r \in Enforced : Within(r)' \/ limit'[r] < limit[r]]_vars

(* The limits together exceed the reservation at most by the two floors.   *)
BothWithin == Cost(limit) <= R + (price["CPU"] + price["GPU"]) * Floor

(* Whatever was measured and however the weights came out, limits computed *)
(* from a usage that the reservation pays for are paid for as well, but    *)
(* for the floors: one irregular window cannot give a modest pod too much. *)
UnderBudgetAffordable ==
  [][turn = "scale" /\ turn' = "update" /\ Cost(usage) <= R => BothWithin']_vars

(* A pod whose reservation cannot pay for the floor never saves a token.   *)
PoorSavesNothing ==
  R < Cost([r \in Res |-> Floor]) /\ ~MonitoringMode => TokenQueue = 0

(* Before the first scaling the elapsed time is counted from 1970, so the  *)
(* queue is full or empty at once, whatever the container did.             *)
FirstQueueSaturated == ~updated => TokenQueue \in {0, R}

(* A pod that its irregular first sample gave too much is brought back to  *)
(* what its reservation can pay for.                                       *)
AllWithin == \A r \in Enforced : Within(r)
OvershootRecovers == ~AllWithin ~> AllWithin \/ status = "completed"

(* A pod whose constant demand fits its reservation is granted all of it   *)
(* in the end and for good, by the daemon and by the kernel.  Within Slack *)
(* of the reservation the steps of the controller come to less than a      *)
(* percent and are lost on the way to the kernel.                          *)
Slack == (price["CPU"] + price["GPU"]) * Unit
Modest == {d \in PerRes(Loads) : Cost(d) + Slack <= R}
Satisfied ==
  /\ \A r \in Res : limit[r] >= demand[r]
  /\ \A r \in Enforced : quota[r] >= demand[r]
EventuallySatisfied ==
  <>[][UNCHANGED demand]_demand =>
    <>[](demand \in Modest => Satisfied \/ status = "completed")

(* A pod that leaves Slack of its reservation unused is given more than it *)
(* uses of either resource, and still is once the fraction is cut off:     *)
(* neither resource is starved for the other.  The static weights must not *)
(* round a period's tokens to less than a percent.                         *)
HeadroomGiven ==
  [][turn = "scale" /\ turn' = "update" /\ Cost(usage) + Slack <= R
       /\ StaticV > 0 /\ 2 * StaticV * Unit <= availableToken =>
         \A r \in Res : Whole(limit'[r]) > usage[r]]_vars

(* setNextLimit reports that the limits are set: the kernel has their      *)
(* whole percents.                                                         *)
LimitsAreSet ==
  alive /\ updated => \A r \in Res : quota[r] = Whole(limit[r])

=============================================================================
