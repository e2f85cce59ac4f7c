------------------------ MODULE UsageSamplingProofs ------------------------
(***************************************************************************)
(* What holds of UsageSampling for every width of the numbers, scale and   *)
(* rate.                                                                   *)
(***************************************************************************)
EXTENDS UsageSampling, TLAPS

----------------------------------------------------------------------------
(* Arithmetic. *)

(* A remainder is what it is called. *)
LEMMA ModSmall ==
  ASSUME NEW m \in Nat \ {0}, NEW x \in Int
  PROVE  /\ x % m \in 0 .. m - 1
         /\ 0 <= x /\ x < m => x % m = x
         /\ m <= x /\ x < 2 * m => x % m = x - m
         /\ -m <= x /\ x < 0 => x % m = x + m
  BY SMTT(30)

(* The difference of two unsigned numbers. *)
LEMMA SinceIs ==
  ASSUME SamplingAssumption,
         NEW a \in 0 .. W - 1, NEW b \in 0 .. W - 1
  PROVE  Since(a, b) = IF a >= b THEN a - b ELSE a - b + W
<1> DEFINE x == a - b
<1>1. W \in Nat \ {0} /\ x \in Int /\ -W <= x /\ x < W
  BY DEF SamplingAssumption
<1>2. x % W = IF 0 <= x THEN x ELSE x + W
  <2> HIDE DEF x
  <2>1. /\ 0 <= x /\ x < W => x % W = x
        /\ -W <= x /\ x < 0 => x % W = x + W
    BY <1>1, ModSmall, Zenon
  <2> QED
    BY <1>1, <2>1
<1> QED
  BY <1>2 DEF Since

(* A difference of unsigned numbers grows with the first of them, also     *)
(* when that comes round.                                                  *)
LEMMA SinceGrows ==
  ASSUME SamplingAssumption,
         NEW a \in 0 .. W - 1, NEW b \in 0 .. W - 1, NEW k \in Nat,
         Since(a, b) + k < W
  PROVE  /\ (a + k) % W \in 0 .. W - 1
         /\ Since((a + k) % W, b) = Since(a, b) + k
<1> DEFINE x == a + k
           c == x % W
<1>1. Since(a, b) = IF a >= b THEN a - b ELSE a - b + W
  BY SinceIs
<1>2. W \in Nat \ {0} /\ x \in Int /\ 0 <= x /\ x < 2 * W
  BY <1>1 DEF SamplingAssumption
<1>3. c = (IF x < W THEN x ELSE x - W) /\ c \in 0 .. W - 1
  <2> HIDE DEF x
  <2>1. /\ x % W \in 0 .. W - 1
        /\ 0 <= x /\ x < W => x % W = x
        /\ W <= x /\ x < 2 * W => x % W = x - W
    BY <1>2, ModSmall, Zenon
  <2> QED
    BY <1>2, <2>1
<1>4. Since(c, b) = IF c >= b THEN c - b ELSE c - b + W
  <2> HIDE DEF c
  <2> QED
    BY <1>3, SinceIs
<1>5. Since(c, b) = Since(a, b) + k
  <2> HIDE DEF c
  <2> QED
    BY <1>1, <1>2, <1>3, <1>4
<1> QED
  BY <1>3, <1>5

(* A number is no time after itself. *)
LEMMA SinceSelf ==
  ASSUME SamplingAssumption, NEW a \in 0 .. W - 1
  PROVE  Since(a, a) = 0
  BY SinceIs DEF SamplingAssumption

(* A quotient of naturals, and what it leaves. *)
LEMMA DivNat ==
  ASSUME NEW a \in Nat, NEW b \in Nat \ {0}
  PROVE  /\ a \div b \in Nat
         /\ (a \div b) * b <= a
         /\ a < (a \div b + 1) * b
  BY SMTT(20)

(* Products of naturals. *)
LEMMA MulNat ==
  ASSUME NEW a \in Nat, NEW b \in Nat
  PROVE  a * b \in Nat /\ (a + 1) * b \in Nat
  BY SMTT(20)

(* The weighted average of naturals is one. *)
LEMMA AverageNat ==
  ASSUME NEW a \in Nat, NEW b \in Nat
  PROVE  (7 * a + b) \div 8 \in Nat
  BY SMTT(20)

(* Products grow with their factors. *)
LEMMA MulMono ==
  ASSUME NEW c \in Nat, NEW x \in Nat, NEW y \in Nat, x <= y
  PROVE  c * x \in Nat /\ c * x <= c * y
  BY SMTT(20)

----------------------------------------------------------------------------
(* The invariant. *)

(* What the two numbers differ by since they were looked at last, modulo   *)
(* W, is what the history says.                                            *)
SampleInv ==
  /\ at = "idle" => Since(clock, last.timeStamp) = elapsed
  /\ at = "timed" => /\ Since(clock, timeStamp) = elapsed
                     /\ Since(timeStamp, last.timeStamp) = window.time
  /\ at # "completed" => Since(acct, last.acctUsage) = Grown /\ Grown \in 0 .. W - 1
  /\ window.least <= window.most

Inv == TypeOK /\ SampleInv /\ UsageIsMeasured

(* A fresh ResourceInfo has everything used so far in its first window.    *)
LEMMA InvInit ==
  ASSUME SamplingAssumption, Init
  PROVE  Inv
<1>1. TypeOK
  BY DEF Init, TypeOK, SamplingAssumption
<1>2. Since(clock, last.timeStamp) = 0
  BY SinceSelf DEF Init, SamplingAssumption
<1>3. Since(acct, last.acctUsage) = acct
  BY SinceIs DEF Init, SamplingAssumption
<1>4. SampleInv
  BY <1>2, <1>3 DEF Init, SampleInv, Grown, SamplingAssumption
<1>5. UsageIsMeasured
  BY DEF Init, UsageIsMeasured, SamplingAssumption
<1> QED
  BY <1>1, <1>4, <1>5 DEF Inv

(* Time passes. *)
LEMMA RunStep ==
  ASSUME SamplingAssumption, Inv, NEW used \in 0 .. Rate, Run(used)
  PROVE  Inv'
<1> USE DEF Inv
<1>0. /\ W \in Nat \ {0, 1} /\ used \in Nat /\ TypeOK
      /\ clock \in 0 .. W - 1 /\ acct \in 0 .. W - 1
  BY DEF SamplingAssumption, TypeOK
<1>1. TypeOK'
  <2>0. clock + 1 \in Int /\ acct + used \in Int /\ W \in Nat \ {0}
    BY <1>0
  <2>1. clock' \in 0 .. W - 1 /\ acct' \in 0 .. W - 1
    <3>1. (clock + 1) % W \in 0 .. W - 1 /\ (acct + used) % W \in 0 .. W - 1
      BY <2>0, ModSmall, Zenon
    <3> QED
      BY <3>1 DEF Run
  <2>2. elapsed' \in 0 .. W - 1 /\ ran' \in Nat /\ late' \in 0 .. ran'
    BY <1>0 DEF Run, TypeOK
  <2> QED
    BY <2>1, <2>2 DEF Run, TypeOK
<1>2. \A old \in 0 .. W - 1 :
        Since(clock, old) = elapsed => Since(clock', old) = elapsed'
  <2> SUFFICES ASSUME NEW old \in 0 .. W - 1, Since(clock, old) = elapsed
               PROVE  Since(clock', old) = elapsed'
    OBVIOUS
  <2>1. 1 \in Nat /\ Since(clock, old) + 1 < W
    BY <1>0 DEF Run, TypeOK
  <2>2. Since((clock + 1) % W, old) = Since(clock, old) + 1
    BY <1>0, <2>1, SinceGrows
  <2> QED
    BY <2>2 DEF Run
<1>3. at # "completed" => Since(acct', last.acctUsage) = Grown + used
  BY <1>0, SinceGrows DEF Run, TypeOK, SampleInv
<1>4. at # "completed" => Grown' = Grown + used /\ Grown' \in 0 .. W - 1
  BY <1>0 DEF Run, TypeOK, SampleInv, Grown
<1>5. SampleInv'
  BY <1>0, <1>2, <1>3, <1>4 DEF Run, TypeOK, SampleInv
<1>6. UsageIsMeasured'
  BY DEF Run, UsageIsMeasured
<1> QED
  BY <1>1, <1>5, <1>6

(* A sample begins. *)
LEMMA ReadClockStep ==
  ASSUME SamplingAssumption, Inv, ReadClock
  PROVE  Inv'
<1> USE DEF Inv
<1>0. TypeOK /\ W \in Nat \ {0, 1}
  BY DEF SamplingAssumption
<1>1. TypeOK'
  BY <1>0 DEF ReadClock, kernel, TypeOK
<1>2. Since(clock', timeStamp') = elapsed' /\ Since(timeStamp', last'.timeStamp) = window'.time
  BY <1>0, SinceSelf DEF ReadClock, kernel, TypeOK, SampleInv
<1>3. Grown' = Grown
  BY <1>0 DEF ReadClock, TypeOK, Grown
<1>4. SampleInv'
  BY <1>0, <1>2, <1>3 DEF ReadClock, kernel, TypeOK, SampleInv
<1> QED
  BY <1>1, <1>4 DEF ReadClock, UsageIsMeasured

(* A sample ends. *)
LEMMA UpdateUsageStep ==
  ASSUME SamplingAssumption, Inv, UpdateUsage
  PROVE  Inv'
<1> USE DEF Inv
<1> DEFINE t == window.time
           n == Scale * Grown
<1>0. /\ W \in Nat \ {0, 1} /\ Scale \in Nat \ {0} /\ TypeOK
      /\ t \in Nat \ {0} /\ window.least \in Nat /\ window.most \in Nat /\ ran \in Nat
  BY DEF SamplingAssumption, TypeOK
<1>1. /\ Grown = window.least + ran
      /\ Since(timeStamp, last.timeStamp) = t
      /\ Since(acct, last.acctUsage) = Grown
      /\ window.least <= window.most
  BY DEF UpdateUsage, SampleInv, Grown
<1>2. /\ window'.time = t
      /\ window'.least = window.least
      /\ window'.most = window.most + ran
  BY <1>0 DEF UpdateUsage, TypeOK
<1>3. usage' = n \div t
  BY <1>1 DEF UpdateUsage
<1>4. /\ n \in Nat
      /\ Scale * window.least \in Nat /\ Scale * window.least <= n
      /\ Scale * window'.most \in Nat /\ n <= Scale * window'.most
  BY <1>0, <1>1, <1>2, MulMono
<1>5. usage' \in Nat /\ usage' * t <= n /\ n < (usage' + 1) * t
  <2> HIDE DEF n, t
  <2> QED
    BY <1>0, <1>3, <1>4, DivNat
<1>6. avgUsage' \in Nat
  <2>0. avgUsage \in Nat /\ usage' \in Nat
    BY <1>0, <1>5 DEF TypeOK
  <2> QED
    BY <2>0, AverageNat, Zenon DEF UpdateUsage
<1>7. TypeOK'
  <2>1. window' \in [time : 1 .. W - 1, least : Nat, most : Nat]
    BY <1>0 DEF UpdateUsage, TypeOK
  <2> QED
    BY <1>0, <1>5, <1>6, <2>1 DEF UpdateUsage, kernel, TypeOK
<1>8. SampleInv'
  <2>1. Since(acct', last'.acctUsage) = 0
    BY <1>0, SinceSelf DEF UpdateUsage, kernel, TypeOK
  <2>2. Grown' = 0
    BY <1>0 DEF UpdateUsage, Grown, TypeOK
  <2> QED
    BY <1>0, <1>1, <1>2, <2>1, <2>2 DEF UpdateUsage, kernel, SampleInv
<1>9. UsageIsMeasured'
  <2>1. usage' * window'.time <= Scale * window'.most
    <3> HIDE DEF n, t
    <3>1. usage' * t \in Nat
      BY <1>0, <1>5, MulNat
    <3> QED
      BY <1>2, <1>4, <1>5, <3>1
  <2>2. Scale * window'.least < (usage' + 1) * window'.time
    <3> HIDE DEF n, t
    <3>1. usage' \in Nat /\ t \in Nat
      BY <1>0, <1>5
    <3>2. (usage' + 1) * t \in Nat
      BY <3>1, MulNat, Zenon
    <3> QED
      BY <1>2, <1>4, <1>5, <3>2
  <2> QED
    BY <2>1, <2>2 DEF UsageIsMeasured
<1> QED
  BY <1>7, <1>8, <1>9

(* Every step keeps the invariant. *)
LEMMA InvStep ==
  ASSUME SamplingAssumption, Inv, [Next]_vars
  PROVE  Inv'
<1>1. CASE \E used \in 0 .. Rate : Run(used)
  BY <1>1, RunStep
<1>2. CASE EndContainer
  BY <1>2 DEF EndContainer, history, Inv, TypeOK, SampleInv, Grown, UsageIsMeasured
<1>3. CASE ReadClock
  BY <1>3, ReadClockStep
<1>4. CASE UpdateUsage
  BY <1>4, UpdateUsageStep
<1>5. CASE Completed
  BY <1>5 DEF Completed, kernel, history, Inv, TypeOK, SampleInv, UsageIsMeasured
<1>6. CASE UNCHANGED vars
  BY <1>6 DEF vars, kernel, history, Inv, TypeOK, SampleInv, Grown, UsageIsMeasured
<1> QED
  BY <1>1, <1>2, <1>3, <1>4, <1>5, <1>6 DEF Next

----------------------------------------------------------------------------
(* The theorems. *)

(* All of the invariant holds all the time. *)
LEMMA InvHolds ==
  ASSUME SamplingAssumption
  PROVE  Spec => []Inv
<1>1. Init => Inv
  BY InvInit
<1>2. Inv /\ [Next]_vars => Inv'
  BY InvStep
<1> QED
  BY <1>1, <1>2, PTL DEF Spec

(* updateUsage keeps the types: what it divides by is never zero.          *)
THEOREM TypeCorrect ==
  ASSUME SamplingAssumption
  PROVE  Spec => []TypeOK
<1>1. Inv => TypeOK
  BY DEF Inv
<1> QED
  BY <1>1, InvHolds, PTL

(* The usage that updateUsage computes from unsigned differences is that   *)
(* of the window, for any width of the numbers and any load, as exactly as *)
(* the delay between clock and counter allows.                             *)
THEOREM UsageIsMeasuredCorrect ==
  ASSUME SamplingAssumption
  PROVE  Spec => []UsageIsMeasured
<1>1. Inv => UsageIsMeasured
  BY DEF Inv
<1> QED
  BY <1>1, InvHolds, PTL

=============================================================================
