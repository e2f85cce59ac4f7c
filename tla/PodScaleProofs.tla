--------------------------- MODULE PodScaleProofs ---------------------------
(***************************************************************************)
(* What holds of PodScale for every reservation, period, floor, positive   *)
(* weights and demand.                                                     *)
(***************************************************************************)
EXTENDS PodScale, TLAPS

----------------------------------------------------------------------------
(* Arithmetic. *)

(* A quotient is an integer with the sign of what was divided, and what it *)
(* leaves is less than the divisor.                                        *)
LEMMA DivBounds ==
  ASSUME NEW a \in Int, NEW b \in Nat \ {0}
  PROVE  /\ a \div b \in Int
         /\ b * (a \div b) <= a
         /\ a < b * (a \div b) + b
         /\ a >= 0 => a \div b >= 0
         /\ a < 0 => a \div b < 0
  BY SMTT(20)

(* A positive factor cancels. *)
LEMMA MulCancel ==
  ASSUME NEW x \in Int, NEW y \in Int, NEW b \in Nat \ {0}, b * x <= b * y
  PROVE  x <= y
  BY SMTT(20)

(* The product of two naturals is one, and is zero only if a factor is. *)
LEMMA MulNat ==
  ASSUME NEW a \in Nat, NEW b \in Nat
  PROVE  a * b \in Nat /\ (a > 0 /\ b > 0 => a * b > 0)
  BY SMTT(20)

(* A factor that divides can be divided away. *)
LEMMA DivExact ==
  ASSUME NEW a \in Int, NEW b \in Nat \ {0}
  PROVE  (a * b) \div b = a
  BY SMTT(20)

----------------------------------------------------------------------------
(* The operators. *)

(* The prices are those of NewPodInfo. *)
LEMMA Prices == price["CPU"] = 1 /\ price["GPU"] = 3 /\ \A r \in Res : price[r] \in {1, 3}
  BY DEF price, Res

(* What percentages cost, written out. *)
LEMMA CostIs ==
  ASSUME NEW x \in PerRes(Int)
  PROVE  /\ Cost(x) = x["CPU"] + 3 * x["GPU"]
         /\ Cost(x) \in Int
         /\ x["CPU"] \in Int /\ x["GPU"] \in Int
  BY Prices DEF Cost, PerRes, Res

(* Weights are positive, and so is the divisor made of them. *)
LEMMA WeightsPositive ==
  ASSUME NEW w \in DynamicWeights
  PROVE  /\ w \in PerRes(Nat \ {0})
         /\ w["CPU"] \in Nat \ {0} /\ w["GPU"] \in Nat \ {0}
         /\ below(w) = w["GPU"] + 9 * w["CPU"]
         /\ below(w) \in Nat \ {0}
<1>1. w \in PerRes(Nat \ {0})
  <2>1. CASE StaticV > 0
    BY <2>1, Prices, ScaleAssumption DEF ScaleAssumption, DynamicWeights, PerRes, Res
  <2>2. CASE ~(StaticV > 0)
    BY <2>2, ScaleAssumption DEF ScaleAssumption, DynamicWeights, PerRes
  <2> QED
    BY <2>1, <2>2
<1>2. w["CPU"] \in Nat \ {0} /\ w["GPU"] \in Nat \ {0}
  BY <1>1 DEF PerRes, Res
<1>3. below(w) = w["GPU"] + 9 * w["CPU"]
  BY <1>2, Prices DEF below
<1> QED
  BY <1>1, <1>2, <1>3

(* Without the token condition no resource gets less than it used. *)
LEMMA UnconstrainedAtLeast ==
  ASSUME NEW u \in PerRes(Nat), NEW w \in DynamicWeights
  PROVE  /\ Unconstrained(u, w) \in PerRes(Nat)
         /\ \A r \in Res : Unconstrained(u, w)[r] >= u[r]
<1>1. ASSUME NEW r \in Res
      PROVE  (price[r] * availableToken) \div (2 * w[r]) \in Nat
  <2>1. w[r] \in Nat \ {0}
    BY WeightsPositive DEF PerRes
  <2>2. price[r] * availableToken \in Nat
    BY Prices, MulNat, ScaleAssumption DEF ScaleAssumption, availableToken
  <2>3. 2 * w[r] \in Nat \ {0}
    BY <2>1
  <2> QED
    BY <2>2, <2>3, DivBounds
<1> QED
  BY <1>1 DEF Unconstrained, PerRes

(* The token condition says that the limits cost no more than R.          *)
LEMMA TokenEnoughCost ==
  ASSUME NEW x \in PerRes(Int), TokenEnough(x)
  PROVE  Cost(x) <= R
<1>1. R \in Int /\ T \in Nat \ {0} /\ Cost(x) \in Int
  BY CostIs, ScaleAssumption DEF ScaleAssumption
<1>2. R * T - Cost(x) * T >= 0
  BY DEF TokenEnough, availableToken
<1>3. T * Cost(x) <= T * R
  BY <1>1, <1>2, SMTT(20)
<1> QED
  BY <1>1, <1>3, MulCancel

(* What is left of a second's tokens after the usages are paid. *)
LEMMA UpIs ==
  ASSUME NEW u \in PerRes(Int)
  PROVE  up(u) = R - Cost(u) /\ up(u) \in Int
<1>1. availableToken \div T = R
  BY DivExact, ScaleAssumption DEF ScaleAssumption, availableToken
<1> QED
  BY <1>1, CostIs, ScaleAssumption DEF ScaleAssumption, up

(* With the token condition the limits move with the sign of what is left, *)
(* and never cost more than the reservation.                               *)
LEMMA ConstrainedBounds ==
  ASSUME NEW u \in PerRes(Nat), NEW w \in DynamicWeights
  PROVE  /\ Constrained(u, w) \in PerRes(Int)
         /\ Cost(u) <= R => \A r \in Res : Constrained(u, w)[r] >= u[r]
         /\ Cost(u) > R => \A r \in Res : Constrained(u, w)[r] < u[r]
         /\ Cost(Constrained(u, w)) <= R
<1> DEFINE a == w["GPU"]
           b == w["CPU"]
           m == up(u)
           d == below(w)
           qc == (a * m) \div d
           qg == (3 * b * m) \div d
<1>1. a \in Nat \ {0} /\ b \in Nat \ {0} /\ d = a + 9 * b /\ d \in Nat \ {0}
  BY WeightsPositive
<1>2. u \in PerRes(Int) /\ u["CPU"] \in Nat /\ u["GPU"] \in Nat
  BY DEF PerRes, Res
<1>3. m \in Int /\ m = R - Cost(u) /\ R \in Nat /\ Cost(u) = u["CPU"] + 3 * u["GPU"]
  BY <1>2, UpIs, CostIs, ScaleAssumption DEF ScaleAssumption
<1>4. /\ Constrained(u, w)["CPU"] = u["CPU"] + qc
      /\ Constrained(u, w)["GPU"] = u["GPU"] + qg
      /\ Constrained(u, w) = [r \in Res |-> Constrained(u, w)[r]]
  <2>1. price["CPU"] * w[Other("CPU")] * up(u) = a * m
    BY <1>1, <1>3, Prices DEF Other
  <2>2. price["GPU"] * w[Other("GPU")] * up(u) = 3 * b * m
    BY <1>1, <1>3, Prices DEF Other
  <2> QED
    BY <2>1, <2>2 DEF Constrained, Res
<1> HIDE DEF a, b, m, d
<1>5. a * m \in Int /\ 3 * b * m \in Int
  BY <1>1, <1>3
<1>6. /\ qc \in Int /\ d * qc <= a * m /\ (a * m >= 0 => qc >= 0) /\ (a * m < 0 => qc < 0)
      /\ qg \in Int /\ d * qg <= 3 * b * m /\ (3 * b * m >= 0 => qg >= 0)
      /\ (3 * b * m < 0 => qg < 0)
  BY <1>1, <1>5, DivBounds
<1> HIDE DEF qc, qg
<1>7. (m >= 0 => a * m >= 0 /\ 3 * b * m >= 0) /\ (m < 0 => a * m < 0 /\ 3 * b * m < 0)
  BY <1>1, <1>3, SMTT(20)
<1>8. qc + 3 * qg <= m
  <2>1. d * qc + 3 * (d * qg) <= a * m + 3 * (3 * b * m)
    BY <1>1, <1>5, <1>6
  <2>2. d * (qc + 3 * qg) = d * qc + 3 * (d * qg)
    BY <1>1, <1>6, SMTT(20)
  <2>3. d * m = a * m + 3 * (3 * b * m)
    BY <1>1, <1>3, SMTT(20)
  <2>4. d * (qc + 3 * qg) <= d * m
    BY <2>1, <2>2, <2>3
  <2> QED
    BY <2>4, <1>1, <1>3, <1>6, MulCancel
<1>9. Constrained(u, w) \in PerRes(Int)
  BY <1>2, <1>4, <1>6 DEF PerRes, Res
<1>10. Cost(Constrained(u, w)) <= R
  BY <1>2, <1>3, <1>4, <1>6, <1>8, <1>9, CostIs
<1> QED
  BY <1>2, <1>3, <1>4, <1>6, <1>7, <1>9, <1>10 DEF Res

(* A pod within its reservation keeps what it uses and is given no more    *)
(* than the reservation; a pod beyond it is given less than it uses.       *)
LEMMA NextLimitBounds ==
  ASSUME NEW u \in PerRes(Nat), NEW w \in DynamicWeights
  PROVE  /\ NextLimit(u, w) \in PerRes(Int)
         /\ Cost(u) <= R => /\ Cost(NextLimit(u, w)) <= R
                            /\ \A r \in Res : NextLimit(u, w)[r] >= u[r]
         /\ Cost(u) > R => \A r \in Res : NextLimit(u, w)[r] < u[r]
<1>1. CASE TokenEnough(Unconstrained(u, w))
  <2>1. /\ Unconstrained(u, w) \in PerRes(Int)
        /\ \A r \in Res : Unconstrained(u, w)[r] >= u[r]
    BY UnconstrainedAtLeast DEF PerRes
  <2>2. Cost(Unconstrained(u, w)) <= R
    BY <1>1, <2>1, TokenEnoughCost
  <2>3. u \in PerRes(Int)
    BY DEF PerRes
  <2>4. Cost(u) <= Cost(Unconstrained(u, w))
    BY <2>1, <2>3, CostIs DEF Res
  <2>5. Cost(u) <= R
    BY <2>1, <2>2, <2>3, <2>4, CostIs, ScaleAssumption DEF ScaleAssumption
  <2> QED
    BY <1>1, <2>1, <2>2, <2>3, <2>5, CostIs, ScaleAssumption
       DEF NextLimit, ScaleAssumption
<1>2. CASE ~TokenEnough(Unconstrained(u, w))
  BY <1>2, ConstrainedBounds DEF NextLimit
<1> QED
  BY <1>1, <1>2

(* The floor raises a limit to Floor at most. *)
LEMMA FloorBounds ==
  ASSUME NEW x \in PerRes(Int)
  PROVE  /\ AtLeastFloor(x) \in PerRes(Nat)
         /\ \A r \in Res : /\ AtLeastFloor(x)[r] = Greatest(x[r], Floor)
                           /\ AtLeastFloor(x)[r] >= Floor
                           /\ AtLeastFloor(x)[r] >= x[r]
  BY ScaleAssumption DEF ScaleAssumption, AtLeastFloor, Greatest, PerRes

----------------------------------------------------------------------------
(* The invariants. *)

(* The kernel is given no more than the limit, and a fraction of a percent *)
(* less at most.                                                           *)
LEMMA WholeBounds ==
  ASSUME NEW x \in Nat
  PROVE  /\ Whole(x) \in Nat
         /\ Whole(x) <= x
         /\ x < Whole(x) + Unit
<1> DEFINE q == x \div Unit
<1>1. Unit \in Nat \ {0}
  BY ScaleAssumption DEF ScaleAssumption
<1>2. q \in Nat /\ Unit * q <= x /\ x < Unit * q + Unit
  BY <1>1, DivBounds
<1> HIDE DEF q
<1>3. q * Unit \in Nat /\ q * Unit = Unit * q
  BY <1>1, <1>2, SMTT(20)
<1> QED
  BY <1>1, <1>2, <1>3 DEF Whole, q

(* The initial states are well typed. *)
LEMMA TypeInit == Init => TypeOK
<1> SUFFICES ASSUME Init PROVE TypeOK
  OBVIOUS
<1>1. usage \in PerRes(Nat) /\ limit \in PerRes(Nat)
  BY DEF Init, PerRes
<1>2. quota \in PerRes(Nat \cup {NoQuota})
  BY DEF Init, PerRes
<1>3. TokenQueue \in 0 .. R
  BY ScaleAssumption DEF ScaleAssumption, Init
<1> QED
  BY <1>1, <1>2, <1>3 DEF Init, TypeOK, Statuses

(* The token queue is cut off at zero and at the reservation. *)
LEMMA QueueType ==
  ASSUME TypeOK, NEW e \in Nat
  PROVE  NextQueue(e) \in 0 .. R
<1>1. TokenQueue + R * e - Cost(limit) * e \in Int
  <2>1. limit \in PerRes(Int)
    BY DEF TypeOK, PerRes
  <2> QED
    BY <2>1, CostIs, ScaleAssumption DEF ScaleAssumption, TypeOK
<1> QED
  BY <1>1, ScaleAssumption DEF ScaleAssumption, NextQueue, Least

(* Elapsed time does not run backwards. *)
LEMMA ElapsedType == Elapsed \subseteq Nat
  BY ScaleAssumption DEF ScaleAssumption, Elapsed, Epoch

(* SetLimit gives both variables a value of their type. *)
LEMMA SetLimitType ==
  ASSUME TypeOK, NEW x \in PerRes(Nat), SetLimit(x)
  PROVE  limit' \in PerRes(Nat) /\ quota' \in PerRes(Nat \cup {NoQuota})
<1>1. \A r \in Res : Whole(x[r]) \in Nat
  BY WholeBounds DEF PerRes
<1> QED
  BY <1>1 DEF SetLimit, TypeOK, PerRes

(* What a regular sample finds is bounded by the quota that is enforced. *)
LEMMA MeasuredType ==
  ASSUME TypeOK, NEW u \in Measured
  PROVE  /\ u \in PerRes(Nat)
         /\ ~EventDriven =>
              \A r \in Res : quota[r] # NoQuota => u[r] <= quota[r]
<1>1. CASE EventDriven
  BY <1>1, ScaleAssumption DEF ScaleAssumption, Measured, PerRes
<1>2. CASE ~EventDriven
  <2>1. u = [r \in Res |-> IF quota[r] = NoQuota THEN demand[r]
                           ELSE Least(demand[r], quota[r])]
    BY <1>2 DEF Measured
  <2>2. \A r \in Res : demand[r] \in Nat /\ (quota[r] # NoQuota => quota[r] \in Nat)
    BY ScaleAssumption DEF ScaleAssumption, TypeOK, PerRes
  <2> QED
    BY <2>1, <2>2 DEF Least, PerRes
<1> QED
  BY <1>1, <1>2

(* Every step keeps the types and, in a scaling pass, the floor. *)
LEMMA TypeStep == TypeOK /\ [Next]_vars => TypeOK'
<1> SUFFICES ASSUME TypeOK, [Next]_vars PROVE TypeOK'
  OBVIOUS
<1>1. CASE ChangeDemand
  BY <1>1 DEF ChangeDemand, TypeOK
<1>2. CASE EndContainer
  BY <1>2 DEF EndContainer, TypeOK
<1>3. CASE UpdateNewPod
  <2>1. [r \in Res |-> Floor] \in PerRes(Nat)
    BY ScaleAssumption DEF ScaleAssumption, PerRes
  <2>2. limit' \in PerRes(Nat) /\ quota' \in PerRes(Nat \cup {NoQuota})
    BY <1>3, <2>1, SetLimitType DEF UpdateNewPod, TypeOK
  <2>3. \A r \in Res : limit'[r] >= Floor \/ MonitoringMode
    BY <1>3, ScaleAssumption DEF ScaleAssumption, UpdateNewPod, SetLimit
  <2>4. usage' \in PerRes(Nat)
    <3>1. PICK S \in {Loads, Loads \cup {0}} : usage' \in [Res -> S]
      BY <1>3, Zenon DEF UpdateNewPod, PerRes
    <3>2. S \subseteq Nat
      BY <3>1, ScaleAssumption DEF ScaleAssumption
    <3>3. \A r \in Res : usage'[r] \in Nat
      BY <3>1, <3>2
    <3> QED
      BY <3>1, <3>3 DEF PerRes
  <2> QED
    BY <1>3, <2>2, <2>3, <2>4 DEF UpdateNewPod, TypeOK, Statuses
<1>4. CASE UpdatePod
  <2>1. TokenQueue' \in 0 .. R
    BY <1>4, QueueType, ElapsedType DEF UpdatePod
  <2>2. usage' \in PerRes(Nat)
    BY <1>4, MeasuredType DEF UpdatePod, TypeOK
  <2> QED
    BY <1>4, <2>1, <2>2 DEF UpdatePod, TypeOK, Statuses
<1>5. CASE Scale
  <2>1. PICK w \in DynamicWeights : SetLimit(AtLeastFloor(NextLimit(usage, w)))
    BY <1>5 DEF Scale
  <2>2. NextLimit(usage, w) \in PerRes(Int)
    BY NextLimitBounds DEF TypeOK
  <2>3. /\ AtLeastFloor(NextLimit(usage, w)) \in PerRes(Nat)
        /\ \A r \in Res : AtLeastFloor(NextLimit(usage, w))[r] >= Floor
    BY <2>2, FloorBounds
  <2>4. limit' \in PerRes(Nat) /\ quota' \in PerRes(Nat \cup {NoQuota})
    BY <2>1, <2>3, SetLimitType
  <2>5. \A r \in Res : limit'[r] >= Floor
    BY <2>1, <2>3 DEF SetLimit
  <2> QED
    BY <1>5, <2>4, <2>5 DEF Scale, TypeOK
<1>6. CASE UNCHANGED vars
  BY <1>6 DEF vars, TypeOK
<1> QED
  BY <1>1, <1>2, <1>3, <1>4, <1>5, <1>6 DEF Next

(* Every variable has its type, and every limit that is set respects the   *)
(* floor.                                                                  *)
THEOREM TypeCorrect == Spec => []TypeOK
  BY TypeInit, TypeStep, PTL DEF Spec

----------------------------------------------------------------------------
(* What the controller promises in one step. *)

(* What one scaling promises: a pod within its reservation keeps what it   *)
(* uses, a pod beyond it is given no more, and in the first case the       *)
(* reservation pays for the new limits but for the floors.                 *)
LEMMA ScaleStep ==
  ASSUME TypeOK, Scale
  PROVE  /\ Cost(usage) <= R => \A r \in Res : limit'[r] >= usage[r]
         /\ Cost(usage) > R =>
              \A r \in Res : limit'[r] <= Greatest(usage[r], Floor)
         /\ Cost(usage) <= R =>
              \E x \in PerRes(Nat) : /\ Cost(x) <= R
                                     /\ \A r \in Res : limit'[r] = Greatest(x[r], Floor)
<1>1. PICK w \in DynamicWeights : SetLimit(AtLeastFloor(NextLimit(usage, w)))
  BY DEF Scale
<1>2. /\ usage \in PerRes(Nat) /\ \A r \in Res : usage[r] \in Nat
      /\ NextLimit(usage, w) \in PerRes(Int)
      /\ \A r \in Res : NextLimit(usage, w)[r] \in Int
  BY NextLimitBounds DEF TypeOK, PerRes
<1>3. \A r \in Res : /\ limit'[r] = Greatest(NextLimit(usage, w)[r], Floor)
                     /\ limit'[r] >= NextLimit(usage, w)[r]
  BY <1>1, <1>2, FloorBounds DEF SetLimit
<1>4. ASSUME Cost(usage) <= R
      PROVE  /\ \A r \in Res : limit'[r] >= usage[r]
             /\ NextLimit(usage, w) \in PerRes(Nat)
             /\ Cost(NextLimit(usage, w)) <= R
  <2>1. /\ Cost(NextLimit(usage, w)) <= R
        /\ \A r \in Res : NextLimit(usage, w)[r] >= usage[r]
    BY <1>2, <1>4, NextLimitBounds
  <2>2. \A r \in Res : limit'[r] >= usage[r]
    BY <1>2, <1>3, <2>1, ScaleAssumption DEF ScaleAssumption, Greatest
  <2>3. NextLimit(usage, w) \in PerRes(Nat)
    BY <1>2, <2>1 DEF PerRes
  <2> QED
    BY <2>1, <2>2, <2>3
<1>5. ASSUME Cost(usage) > R, NEW r \in Res
      PROVE  limit'[r] <= Greatest(usage[r], Floor)
  <2>1. NextLimit(usage, w)[r] < usage[r]
    BY <1>2, <1>5, NextLimitBounds
  <2> QED
    BY <1>2, <1>3, <2>1, ScaleAssumption DEF ScaleAssumption, Greatest
<1> QED
  BY <1>3, <1>4, <1>5

(* A pod beyond its reservation gets less than it used, or the floor. *)
LEMMA OverBudgetFalls ==
  ASSUME TypeOK, Scale, Cost(usage) > R, NEW r \in Res
  PROVE  limit'[r] < usage[r] \/ limit'[r] = Floor
<1>1. PICK w \in DynamicWeights : SetLimit(AtLeastFloor(NextLimit(usage, w)))
  BY DEF Scale
<1>2. usage \in PerRes(Nat) /\ NextLimit(usage, w) \in PerRes(Int)
  BY NextLimitBounds DEF TypeOK
<1>3. limit'[r] = Greatest(NextLimit(usage, w)[r], Floor)
  BY <1>1, <1>2, FloorBounds DEF SetLimit
<1>4. NextLimit(usage, w)[r] < usage[r]
  BY <1>2, NextLimitBounds
<1> QED
  BY <1>3, <1>4 DEF Greatest

(* Only Scale turns a pass over from scaling to sampling. *)
LEMMA ScaleTurn ==
  ASSUME Next, turn = "scale", turn' = "update"
  PROVE  Scale \/ status = "none"
  BY DEF Next, ChangeDemand, EndContainer, UpdateNewPod, UpdatePod, Scale

(* Limits computed from a usage that fits cost what the reservation pays   *)
(* for and what the floors add.                                            *)
LEMMA FittingCost ==
  ASSUME TypeOK, TypeOK', Scale, Cost(usage) <= R
  PROVE  Cost(limit') <= R + (price["CPU"] + price["GPU"]) * Floor
<1>1. R \in Nat /\ Floor \in Nat
  BY ScaleAssumption DEF ScaleAssumption
<1>2. limit' \in PerRes(Int) /\ \A r \in Res : limit'[r] \in Nat
  BY DEF TypeOK, PerRes
<1>3. PICK x \in PerRes(Nat) :
        Cost(x) <= R /\ \A s \in Res : limit'[s] = Greatest(x[s], Floor)
  BY ScaleStep
<1>4. x \in PerRes(Int) /\ \A r \in Res : x[r] \in Nat
  BY DEF PerRes
<1>5. \A r \in Res : limit'[r] <= x[r] + Floor
  BY <1>1, <1>3, <1>4 DEF Greatest
<1> QED
  BY <1>1, <1>2, <1>3, <1>4, <1>5, CostIs, Prices DEF Res

(* A pod that was not prepared yet is not scaled. *)
TurnInv ==
  /\ status = "none" => turn = "update"
  /\ turn = "scale" => ~MonitoringMode

(* Scaling comes after preparing, and never in monitoring mode. *)
LEMMA TurnCorrect == Spec => []TurnInv
<1>1. Init => TurnInv
  BY DEF Init, TurnInv
<1>2. TurnInv /\ [Next]_vars => TurnInv'
  BY DEF TurnInv, vars, Next, ChangeDemand, EndContainer, UpdateNewPod, UpdatePod, Scale
<1> QED
  BY <1>1, <1>2, PTL DEF Spec

(* UnderBudgetNotThrottled: a pod whose usage costs no more than its       *)
(* reservation keeps at least what it uses.                                *)
THEOREM UnderBudgetCorrect == Spec => UnderBudgetNotThrottled
<1> DEFINE Step == turn = "scale" /\ turn' = "update" /\ Cost(usage) <= R =>
                     \A r \in Res : limit'[r] >= usage[r]
<1>1. TypeOK /\ TurnInv /\ [Next]_vars => [Step]_vars
  BY ScaleStep, ScaleTurn DEF TurnInv
<1> QED
  BY <1>1, TypeCorrect, TurnCorrect, PTL DEF Spec, UnderBudgetNotThrottled

(* OverBudgetNotRaised: a pod whose usage costs more than its reservation  *)
(* is given no more than it uses, or the floor.                            *)
THEOREM OverBudgetCorrect == Spec => OverBudgetNotRaised
<1> DEFINE Step == turn = "scale" /\ turn' = "update" /\ Cost(usage) > R =>
                     \A r \in Res : limit'[r] <= Greatest(usage[r], Floor)
<1>1. TypeOK /\ TurnInv /\ [Next]_vars => [Step]_vars
  BY ScaleStep, ScaleTurn DEF TurnInv
<1> QED
  BY <1>1, TypeCorrect, TurnCorrect, PTL DEF Spec, OverBudgetNotRaised

(* UnderBudgetAffordable: for every sampling and all positive weights, the *)
(* limits of a pod within its reservation cost it and the floors at most.  *)
THEOREM UnderBudgetAffordableCorrect == Spec => UnderBudgetAffordable
<1> DEFINE Step == turn = "scale" /\ turn' = "update" /\ Cost(usage) <= R =>
                     BothWithin'
<1>1. TypeOK /\ TypeOK' /\ TurnInv /\ [Next]_vars => [Step]_vars
  <2> SUFFICES ASSUME TypeOK, TypeOK', TurnInv, Next, turn = "scale",
                      turn' = "update", Cost(usage) <= R
               PROVE  BothWithin'
    OBVIOUS
  <2>1. Cost(limit') <= R + (price["CPU"] + price["GPU"]) * Floor
    BY FittingCost, ScaleTurn DEF TurnInv
  <2> QED
    BY <2>1, Prices DEF BothWithin, Cost
<1> QED
  BY <1>1, TypeCorrect, TurnCorrect, PTL DEF Spec, UnderBudgetAffordable

(* A quotient of what is at least a multiple of the divisor. *)
LEMMA DivAtLeast ==
  ASSUME NEW a \in Int, NEW b \in Nat \ {0}, NEW n \in Nat, a >= b * n
  PROVE  a \div b \in Int /\ a \div b >= n
<1> DEFINE q == a \div b
<1>1. q \in Int /\ a < b * q + b
  BY DivBounds
<1> HIDE DEF q
<1>2. b * n < b * (q + 1)
  BY <1>1, SMTT(20)
<1>3. ~(q + 1 <= n)
  <2> SUFFICES ASSUME q + 1 <= n PROVE FALSE
    OBVIOUS
  <2>1. b * (q + 1) <= b * n
    BY <1>1, SMTT(20)
  <2> QED
    BY <1>1, <1>2, <2>1, SMTT(20)
<1> QED
  BY <1>1, <1>3 DEF q

(* With static weights both ways to compute a limit raise both resources   *)
(* by a percent, if a slack of the reservation is left.                    *)
LEMMA HeadroomRaises ==
  ASSUME NEW u \in PerRes(Nat), NEW w \in DynamicWeights, Cost(u) + Slack <= R,
         StaticV > 0, 2 * StaticV * Unit <= availableToken, NEW r \in Res
  PROVE  NextLimit(u, w)[r] >= u[r] + Unit
<1> DEFINE S == StaticV
           A == availableToken
           m == up(u)
           n == Unit
<1>1. S \in Nat \ {0} /\ A \in Nat /\ R \in Nat /\ n \in Nat \ {0}
  BY MulNat, ScaleAssumption DEF ScaleAssumption, availableToken
<1>2. m \in Int /\ m >= 4 * n
  <2>1. u \in PerRes(Int)
    BY DEF PerRes
  <2>2. Slack = 4 * n
    BY <1>1, Prices DEF Slack
  <2> QED
    BY <2>1, <2>2, <1>1, UpIs, CostIs
<1>3. w["CPU"] = S /\ w["GPU"] = 3 * S
  BY <1>1, Prices DEF DynamicWeights, Res
<1>4. below(w) = 12 * S
  BY <1>1, <1>3, WeightsPositive
<1>5. u[r] \in Nat
  BY DEF PerRes
<1>6. 2 * S * n <= A
  OBVIOUS
<1> HIDE DEF S, A, m, n
<1>7. Unconstrained(u, w)[r] >= u[r] + n
  <2>1. S * n \in Nat /\ 2 * S * n = (2 * S) * n /\ 2 * S * n = 2 * (S * n)
    BY <1>1, SMTT(20)
  <2>2. CASE r = "CPU"
    <3>1. A \div (2 * S) \in Int /\ A \div (2 * S) >= n
      BY <1>1, <1>6, <2>1, DivAtLeast
    <3>2. Unconstrained(u, w)[r] = u[r] + (1 * A) \div (2 * S)
      BY <2>2, <1>3, Prices DEF Unconstrained, A, Res
    <3> QED
      BY <1>1, <1>5, <3>1, <3>2
  <2>3. CASE r = "GPU"
    <3>1. (3 * A) \div (2 * (3 * S)) \in Int /\ (3 * A) \div (2 * (3 * S)) >= n
      <4>1. (2 * (3 * S)) * n = 3 * (2 * (S * n))
        BY <1>1, SMTT(20)
      <4>2. /\ 3 * A \in Int /\ 2 * (3 * S) \in Nat \ {0}
            /\ 3 * A >= (2 * (3 * S)) * n
        BY <1>1, <1>6, <2>1, <4>1
      <4> QED
        BY <1>1, <4>2, DivAtLeast
    <3>2. Unconstrained(u, w)[r] = u[r] + (3 * A) \div (2 * (3 * S))
      BY <2>3, <1>3, Prices DEF Unconstrained, A, Res
    <3> QED
      BY <1>1, <1>5, <3>1, <3>2
  <2> QED
    BY <2>2, <2>3 DEF Res
<1>8. Constrained(u, w)[r] >= u[r] + n
  <2>1. S * m \in Int /\ S * n \in Nat /\ S * m >= 4 * (S * n)
    BY <1>1, <1>2, SMTT(20)
  <2>2. ASSUME NEW a \in Int, a = 3 * (S * m)
        PROVE  a \div (12 * S) \in Int /\ a \div (12 * S) >= n
    <3>1. (12 * S) * n = 12 * (S * n)
      BY <1>1, SMTT(20)
    <3>2. 12 * S \in Nat \ {0} /\ a >= (12 * S) * n
      BY <1>1, <2>1, <2>2, <3>1
    <3> QED
      BY <1>1, <3>2, DivAtLeast
  <2>3. CASE r = "CPU"
    <3>1. (1 * (3 * S) * m) = 3 * (S * m)
      BY <1>1, <1>2, SMTT(20)
    <3>2. Constrained(u, w)[r] = u[r] + (1 * (3 * S) * m) \div (12 * S)
      BY <2>3, <1>3, <1>4, Prices DEF Constrained, Other, m, Res
    <3> QED
      BY <1>1, <1>5, <2>1, <2>2, <3>1, <3>2
  <2>4. CASE r = "GPU"
    <3>1. (3 * S * m) = 3 * (S * m)
      BY <1>1, <1>2, SMTT(20)
    <3>2. Constrained(u, w)[r] = u[r] + (3 * S * m) \div (12 * S)
      BY <2>4, <1>3, <1>4, Prices DEF Constrained, Other, m, Res
    <3> QED
      BY <1>1, <1>5, <2>1, <2>2, <3>1, <3>2
  <2> QED
    BY <2>3, <2>4 DEF Res
<1> QED
  BY <1>7, <1>8 DEF NextLimit, n

(* HeadroomGiven: a pod that leaves a slack of its reservation unused is   *)
(* given more than it uses of both resources, the fraction of a percent    *)
(* cut off: the step that makes EventuallySatisfied true.                  *)
THEOREM HeadroomGivenCorrect == Spec => HeadroomGiven
<1> DEFINE Step == turn = "scale" /\ turn' = "update" /\ Cost(usage) + Slack <= R
                     /\ StaticV > 0 /\ 2 * StaticV * Unit <= availableToken =>
                       \A r \in Res : Whole(limit'[r]) > usage[r]
<1>1. TypeOK /\ TypeOK' /\ TurnInv /\ [Next]_vars => [Step]_vars
  <2> SUFFICES ASSUME TypeOK, TypeOK', TurnInv, Next, turn = "scale",
                      turn' = "update", Cost(usage) + Slack <= R, StaticV > 0,
                      2 * StaticV * Unit <= availableToken, NEW r \in Res
               PROVE  Whole(limit'[r]) > usage[r]
    OBVIOUS
  <2>1. Scale
    BY ScaleTurn DEF TurnInv
  <2>2. PICK w \in DynamicWeights : SetLimit(AtLeastFloor(NextLimit(usage, w)))
    BY <2>1 DEF Scale
  <2>3. /\ usage \in PerRes(Nat) /\ usage[r] \in Nat /\ limit'[r] \in Nat
        /\ NextLimit(usage, w) \in PerRes(Int) /\ NextLimit(usage, w)[r] \in Int
        /\ Unit \in Nat /\ Floor \in Nat
    BY NextLimitBounds, ScaleAssumption DEF ScaleAssumption, TypeOK, PerRes
  <2>4. NextLimit(usage, w)[r] >= usage[r] + Unit
    BY <2>3, HeadroomRaises
  <2>5. limit'[r] = Greatest(NextLimit(usage, w)[r], Floor)
    BY <2>2, <2>3, FloorBounds DEF SetLimit
  <2>6. limit'[r] >= usage[r] + Unit
    BY <2>3, <2>4, <2>5 DEF Greatest
  <2>7. Whole(limit'[r]) \in Nat /\ limit'[r] < Whole(limit'[r]) + Unit
    BY <2>3, WholeBounds
  <2> QED
    BY <2>3, <2>6, <2>7
<1> QED
  BY <1>1, TypeCorrect, TurnCorrect, PTL DEF Spec, HeadroomGiven

----------------------------------------------------------------------------
(* The kernel's side. *)

(* What the kernel enforces on a live pod is never above the limit the    *)
(* daemon holds it to, wherever the limit file exists.                     *)
QuotaWithin ==
  \A r \in Enforced :
    alive /\ limit[r] > 0 => quota[r] \in Nat /\ quota[r] <= limit[r]

(* QuotaWithin holds: the files are written whenever the limit is.         *)
LEMMA QuotaCorrect == Spec => []QuotaWithin
<1>1. Init => QuotaWithin
  <2> SUFFICES ASSUME Init PROVE \A r \in Res : ~(limit[r] > 0)
    BY ScaleAssumption DEF ScaleAssumption, QuotaWithin
  <2> QED
    BY DEF Init
<1>2. ASSUME QuotaWithin, SetLimit(limit'), alive' = alive, TypeOK, TypeOK'
      PROVE  QuotaWithin'
  <2> SUFFICES ASSUME NEW r \in Enforced, alive
               PROVE  quota'[r] \in Nat /\ quota'[r] <= limit'[r]
    BY <1>2 DEF QuotaWithin
  <2>1. r \in Res /\ limit'[r] \in Nat
    BY <1>2, ScaleAssumption DEF ScaleAssumption, TypeOK, PerRes
  <2>2. quota'[r] = Whole(limit'[r])
    BY <1>2, <2>1 DEF SetLimit
  <2> QED
    BY <2>1, <2>2, WholeBounds
<1>3. TypeOK /\ TypeOK' /\ QuotaWithin /\ [Next]_vars => QuotaWithin'
  <2> SUFFICES ASSUME TypeOK, TypeOK', QuotaWithin, [Next]_vars
               PROVE  QuotaWithin'
    OBVIOUS
  <2>1. CASE ChangeDemand
    BY <2>1 DEF ChangeDemand, QuotaWithin
  <2>2. CASE EndContainer
    BY <2>2 DEF EndContainer, QuotaWithin
  <2>3. CASE UpdateNewPod
    <3>1. alive' = alive /\ (SetLimit(limit') \/ UNCHANGED <<limit, quota>>)
      BY <2>3 DEF UpdateNewPod, SetLimit
    <3> QED
      BY <3>1, <1>2 DEF QuotaWithin
  <2>4. CASE UpdatePod
    BY <2>4 DEF UpdatePod, QuotaWithin
  <2>5. CASE Scale
    <3>1. alive' = alive /\ SetLimit(limit')
      BY <2>5 DEF Scale, SetLimit
    <3> QED
      BY <3>1, <1>2
  <2>6. CASE UNCHANGED vars
    BY <2>6 DEF vars, QuotaWithin
  <2> QED
    BY <2>1, <2>2, <2>3, <2>4, <2>5, <2>6 DEF Next
<1> QED
  BY <1>1, <1>3, TypeCorrect, PTL DEF Spec

(* A regular sample of an enforced resource does not exceed its limit, so  *)
(* what a running pod is scaled by is within the limit it has.             *)
SampledInv ==
  status = "running" /\ turn = "scale" =>
    \A r \in Enforced : usage[r] <= limit[r]

(* Sampling at the period keeps the usages within the limits. *)
LEMMA SampledCorrect ==
  ASSUME ~EventDriven
  PROVE  Spec => []SampledInv
<1>1. Init => SampledInv
  BY DEF Init, SampledInv
<1>2. TypeOK /\ TurnInv /\ QuotaWithin /\ SampledInv /\ [Next]_vars => SampledInv'
  <2> SUFFICES ASSUME TypeOK, TurnInv, QuotaWithin, SampledInv, [Next]_vars
               PROVE  SampledInv'
    OBVIOUS
  <2>1. CASE ChangeDemand
    BY <2>1 DEF ChangeDemand, SampledInv
  <2>2. CASE EndContainer
    BY <2>2 DEF EndContainer, SampledInv
  <2>3. CASE UpdateNewPod
    BY <2>3 DEF UpdateNewPod, SampledInv
  <2>4. CASE UpdatePod
    <3> SUFFICES ASSUME status' = "running", turn' = "scale", NEW r \in Enforced
                 PROVE  usage'[r] <= limit'[r]
      BY DEF SampledInv
    <3>1. alive /\ ~MonitoringMode /\ usage' \in Measured /\ limit' = limit
      BY <2>4 DEF UpdatePod, TurnInv
    <3>2. r \in Res /\ status # "none"
      BY <2>4, ScaleAssumption DEF ScaleAssumption, UpdatePod
    <3>3. limit[r] \in Nat /\ limit[r] > 0
      BY <3>1, <3>2, ScaleAssumption DEF ScaleAssumption, TypeOK, PerRes
    <3>4. quota[r] \in Nat /\ quota[r] <= limit[r] /\ quota[r] # NoQuota
      BY <3>1, <3>3 DEF QuotaWithin, NoQuota
    <3>5. usage'[r] \in Nat /\ usage'[r] <= quota[r]
      BY <3>1, <3>2, <3>4, MeasuredType DEF PerRes
    <3> QED
      BY <3>1, <3>3, <3>4, <3>5
  <2>5. CASE Scale
    BY <2>5 DEF Scale, SampledInv
  <2>6. CASE UNCHANGED vars
    BY <2>6 DEF vars, SampledInv
  <2> QED
    BY <2>1, <2>2, <2>3, <2>4, <2>5, <2>6 DEF Next
<1> QED
  BY <1>1, <1>2, TypeCorrect, TurnCorrect, QuotaCorrect, PTL DEF Spec

(* Only scaling moves the limits of a pod that is running. *)
LEMMA LimitStep ==
  ASSUME [Next]_vars, status = "running"
  PROVE  Scale \/ UNCHANGED limit
  BY DEF Next, vars, ChangeDemand, EndContainer, UpdateNewPod, UpdatePod

(* A natural percentage that the reservation pays for is within the share  *)
(* of its resource.                                                        *)
LEMMA ShareBound ==
  ASSUME NEW x \in PerRes(Nat), Cost(x) <= R, NEW r \in Res
  PROVE  Greatest(x[r], Floor) <= Share(r)
<1>1. x["CPU"] \in Nat /\ x["GPU"] \in Nat /\ x \in PerRes(Int)
  BY DEF PerRes, Res
<1>2. x["CPU"] + 3 * x["GPU"] <= R
  BY <1>1, CostIs
<1>3. x[r] \in Nat /\ x[r] <= R \div price[r] /\ R \div price[r] \in Nat
  <2>1. CASE r = "CPU"
    BY <1>1, <1>2, <2>1, Prices, ScaleAssumption DEF ScaleAssumption
  <2>2. CASE r = "GPU"
    BY <1>1, <1>2, <2>2, Prices, ScaleAssumption DEF ScaleAssumption
  <2> QED
    BY <2>1, <2>2 DEF Res
<1> QED
  BY <1>3, ScaleAssumption DEF ScaleAssumption, Share, Greatest

(* The floor is within every share. *)
LEMMA FloorIsShare ==
  ASSUME NEW r \in Res
  PROVE  Share(r) \in Int /\ Floor <= Share(r)
<1>1. R \div price[r] \in Int
  BY Prices, DivBounds, ScaleAssumption DEF ScaleAssumption
<1> QED
  BY <1>1, ScaleAssumption DEF ScaleAssumption, Share, Greatest

(* StaysWithin: a running pod whose limit on an enforced resource is what  *)
(* its reservation can pay for never gets beyond that, whatever it does.   *)
THEOREM StaysWithinCorrect ==
  ASSUME ~EventDriven
  PROVE  Spec => StaysWithin
<1> DEFINE Step == \A r \in Enforced :
                     Within(r) /\ status = "running" => Within(r)'
<1>1. TypeOK /\ SampledInv /\ [Next]_vars => Step
  <2> SUFFICES ASSUME TypeOK, SampledInv, [Next]_vars, status = "running",
                      NEW r \in Enforced, Within(r)
               PROVE  limit'[r] <= Share(r)
    BY DEF Within
  <2>1. r \in Res
    BY ScaleAssumption DEF ScaleAssumption
  <2>2. CASE UNCHANGED limit
    BY <2>2 DEF Within
  <2>3. CASE Scale /\ Cost(usage) <= R
    <3>1. PICK x \in PerRes(Nat) :
            Cost(x) <= R /\ \A s \in Res : limit'[s] = Greatest(x[s], Floor)
      BY <2>3, ScaleStep
    <3> QED
      BY <2>1, <3>1, ShareBound
  <2>4. CASE Scale /\ Cost(usage) > R
    <3>1. limit'[r] <= Greatest(usage[r], Floor)
      BY <2>1, <2>4, ScaleStep
    <3>2. usage[r] \in Nat /\ limit[r] \in Nat /\ limit'[r] \in Nat
      BY <2>1, TypeStep DEF TypeOK, PerRes
    <3>3. usage[r] <= limit[r]
      BY <2>4 DEF SampledInv, Scale
    <3>4. Share(r) \in Int /\ limit[r] <= Share(r) /\ Floor <= Share(r)
      BY <2>1, FloorIsShare DEF Within
    <3> QED
      BY <3>1, <3>2, <3>3, <3>4, ScaleAssumption DEF ScaleAssumption, Greatest
  <2>5. Cost(usage) \in Int /\ R \in Int
    BY CostIs, ScaleAssumption DEF ScaleAssumption, TypeOK, PerRes
  <2> QED
    BY <2>2, <2>3, <2>4, <2>5, LimitStep
<1> QED
  BY <1>1, TypeCorrect, SampledCorrect, PTL DEF Spec, StaysWithin

(* OvershootFalls: a limit beyond its share comes down with every scaling  *)
(* of a regularly sampled pod until it is within: the step that makes      *)
(* OvershootRecovers true.                                                 *)
THEOREM OvershootFallsCorrect ==
  ASSUME ~EventDriven
  PROVE  Spec => OvershootFalls
<1> DEFINE Step == turn = "scale" /\ turn' = "update" /\ status = "running" =>
                     \A r \in Enforced : Within(r)' \/ limit'[r] < limit[r]
<1>1. TypeOK /\ TypeOK' /\ SampledInv /\ [Next]_vars => [Step]_vars
  <2> SUFFICES ASSUME TypeOK, TypeOK', SampledInv, Next, turn = "scale",
                      turn' = "update", status = "running", NEW r \in Enforced
               PROVE  limit'[r] <= Share(r) \/ limit'[r] < limit[r]
    BY DEF Within
  <2>1. Scale /\ r \in Res
    BY ScaleTurn, ScaleAssumption DEF ScaleAssumption
  <2>2. CASE Cost(usage) <= R
    <3>1. PICK x \in PerRes(Nat) :
            Cost(x) <= R /\ \A s \in Res : limit'[s] = Greatest(x[s], Floor)
      BY <2>1, <2>2, ScaleStep
    <3> QED
      BY <2>1, <3>1, ShareBound
  <2>3. CASE Cost(usage) > R
    <3>1. limit'[r] < usage[r] \/ limit'[r] = Floor
      BY <2>1, <2>3, OverBudgetFalls
    <3>2. usage[r] \in Nat /\ limit[r] \in Nat /\ limit'[r] \in Nat /\ usage[r] <= limit[r]
      BY <2>1 DEF TypeOK, PerRes, SampledInv
    <3>3. Floor <= Share(r)
      BY <2>1, FloorIsShare
    <3> QED
      BY <3>1, <3>2, <3>3
  <2>4. Cost(usage) \in Int /\ R \in Int
    BY CostIs, ScaleAssumption DEF ScaleAssumption, TypeOK, PerRes
  <2> QED
    BY <2>2, <2>3, <2>4
<1> QED
  BY <1>1, TypeCorrect, SampledCorrect, PTL DEF Spec, OvershootFalls

----------------------------------------------------------------------------
(* The token queue. *)

(* The queue moves with what is left of the reservation: to its end, if    *)
(* the elapsed time is that since 1970.                                    *)
LEMMA QueueMoves ==
  ASSUME TypeOK, NEW e \in Nat
  PROVE  /\ Cost(limit) >= R /\ TokenQueue = 0 => NextQueue(e) = 0
         /\ TokenQueue \in {0, R} => NextQueue(Epoch) \in {0, R}
<1> DEFINE c == Cost(limit)
<1>1. c \in Int /\ R \in Nat /\ TokenQueue \in 0 .. R
  <2>1. limit \in PerRes(Int)
    BY DEF TypeOK, PerRes
  <2> QED
    BY <2>1, CostIs, ScaleAssumption DEF ScaleAssumption, TypeOK
<1> HIDE DEF c
<1>2. NextQueue(e) = LET q == TokenQueue + R * e - c * e
                     IN IF q < 0 THEN 0 ELSE Least(q, R)
  BY DEF NextQueue, c
<1>3. NextQueue(Epoch) = LET q == TokenQueue + R * Epoch - c * Epoch
                         IN IF q < 0 THEN 0 ELSE Least(q, R)
  BY DEF NextQueue, c
<1>4. ASSUME c >= R, TokenQueue = 0
      PROVE  NextQueue(e) = 0
  <2>1. R * e - c * e = (R - c) * e /\ (R - c) * e <= 0
    BY <1>1, <1>4, SMTT(20)
  <2>2. R * e \in Int /\ c * e \in Int
    BY <1>1
  <2> QED
    BY <1>1, <1>2, <1>4, <2>1, <2>2 DEF Least
<1>5. ASSUME TokenQueue \in {0, R}
      PROVE  NextQueue(Epoch) \in {0, R}
  <2>1. Epoch \in Nat /\ Epoch > R
    BY <1>1 DEF Epoch
  <2>2. R * Epoch \in Int /\ c * Epoch \in Int
    BY <1>1, <2>1
  <2>3. CASE c < R
    <3>1. R * Epoch - c * Epoch = (R - c) * Epoch /\ (R - c) * Epoch >= Epoch
      BY <1>1, <2>1, <2>3, SMTT(20)
    <3> QED
      BY <1>1, <1>3, <2>1, <2>2, <3>1 DEF Least
  <2>4. CASE c = R
    <3>1. TokenQueue + R * Epoch - c * Epoch = TokenQueue
      BY <1>1, <2>2, <2>4
    <3> QED
      BY <1>1, <1>3, <1>5, <3>1 DEF Least
  <2>5. CASE c > R
    <3>1. c * Epoch - R * Epoch = (c - R) * Epoch /\ (c - R) * Epoch >= Epoch
      BY <1>1, <2>1, <2>5, SMTT(20)
    <3> QED
      BY <1>1, <1>3, <2>1, <2>2, <3>1
  <2> QED
    BY <1>1, <2>3, <2>4, <2>5
<1> QED
  BY <1>4, <1>5 DEF c

(* Only sampling moves the queue. *)
LEMMA QueueStep ==
  ASSUME [Next]_vars
  PROVE  UpdatePod \/ UNCHANGED TokenQueue
  BY DEF Next, vars, ChangeDemand, EndContainer, UpdateNewPod, Scale

(* PoorSavesNothing: a reservation that cannot pay for the floor saves no  *)
(* token, over any sequence of samples and scalings.                       *)
THEOREM PoorSavesNothingCorrect == Spec => []PoorSavesNothing
<1>1. Init => PoorSavesNothing
  BY DEF Init, PoorSavesNothing
<1>2. TypeOK /\ PoorSavesNothing /\ [Next]_vars => PoorSavesNothing'
  <2> DEFINE floors == [r \in Res |-> Floor]
  <2> SUFFICES ASSUME TypeOK, PoorSavesNothing, [Next]_vars,
                      R < Cost(floors), ~MonitoringMode, UpdatePod
               PROVE  TokenQueue' = 0
    BY QueueStep DEF PoorSavesNothing
  <2>1. /\ floors \in PerRes(Int) /\ limit \in PerRes(Int)
        /\ \A r \in Res : limit[r] \in Nat /\ floors[r] = Floor
    BY ScaleAssumption DEF ScaleAssumption, TypeOK, PerRes
  <2>2. \A r \in Res : limit[r] >= Floor
    BY DEF TypeOK, UpdatePod
  <2> HIDE DEF floors
  <2>3. Cost(limit) >= Cost(floors)
    BY <2>1, <2>2, CostIs, ScaleAssumption DEF ScaleAssumption, Res
  <2>4. Cost(limit) >= R
    BY <2>1, <2>3, CostIs, ScaleAssumption DEF ScaleAssumption
  <2>5. TokenQueue = 0
    BY DEF PoorSavesNothing, floors
  <2> QED
    BY <2>4, <2>5, QueueMoves, ElapsedType DEF UpdatePod
<1> QED
  BY <1>1, <1>2, TypeCorrect, PTL DEF Spec

(* FirstQueueSaturated: before the first scaling the queue is at an end of *)
(* its range.                                                              *)
THEOREM FirstQueueCorrect == Spec => []FirstQueueSaturated
<1>1. Init => FirstQueueSaturated
  BY DEF Init, FirstQueueSaturated
<1>2. TypeOK /\ FirstQueueSaturated /\ [Next]_vars => FirstQueueSaturated'
  <2> SUFFICES ASSUME TypeOK, FirstQueueSaturated, [Next]_vars, ~updated'
               PROVE  TokenQueue' \in {0, R}
    BY DEF FirstQueueSaturated
  <2>1. ~updated
    BY DEF TypeOK, Next, vars, ChangeDemand, EndContainer, UpdateNewPod,
           UpdatePod, Scale
  <2>2. CASE UNCHANGED TokenQueue
    BY <2>1, <2>2 DEF FirstQueueSaturated
  <2>3. CASE UpdatePod
    <3>1. TokenQueue' = NextQueue(Epoch)
      BY <2>1, <2>3 DEF UpdatePod, Elapsed
    <3> QED
      BY <2>1, <3>1, QueueMoves DEF FirstQueueSaturated
  <2> QED
    BY <2>2, <2>3, QueueStep
<1> QED
  BY <1>1, <1>2, TypeCorrect, PTL DEF Spec

=============================================================================
