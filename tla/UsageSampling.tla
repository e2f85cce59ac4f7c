---------------------------- MODULE UsageSampling ----------------------------
(***************************************************************************)
(* pkg/kumonitor/info.go: updateUsage, one resource of one pod.            *)
(*                                                                         *)
(* A sample takes the time, then reads the kernel's accumulated counter,   *)
(* and divides what the counter grew by since the last sample by the time  *)
(* that passed.  Both are unsigned numbers of a fixed width, and between   *)
(* the clock and the counter the container goes on running.                *)
(***************************************************************************)
EXTENDS Integers

CONSTANTS
  W,      \* 2^64: counters and time stamps are taken modulo W
  Scale,  \* a hundred percent
  Rate    \* what a container can use in a unit of time

SamplingAssumption ==
  /\ W \in Nat \ {0, 1}
  /\ Scale \in Nat \ {0}
  /\ Rate \in Nat

VARIABLES
  clock,      \* time.Now().UnixNano()
  acct,       \* the counter in cpu.stat or total_runtime
  alive,      \* the files are there
  at,         \* "idle", "timed" (the time is taken) or "completed"
  timeStamp,  \* updateUsage's local variable
  last,       \* the last of acctUsageAndTime, the only one that is read
  usage, avgUsage,
  elapsed,    \* history: time since the last time stamp
  ran,        \* history: what was used since then
  late,       \* history: what was used between the last stamp and its read
  window      \* history: the window that was measured last

kernel  == <<clock, acct, alive>>
history == <<elapsed, ran, late, window>>
vars == <<kernel, at, timeStamp, last, usage, avgUsage, history>>

(* Time stamps and counters are differences of unsigned numbers. *)
Since(new, old) == (new - old) % W

(* The container may have used anything before it was found, and all of it *)
(* is in the first window: ResourceInfo.Init knows the time only.          *)
Init ==
  /\ clock = 0
  /\ acct \in 0 .. W - 1
  /\ alive = TRUE
  /\ at = "idle" /\ timeStamp = 0
  /\ last = [timeStamp |-> clock, acctUsage |-> 0]
  /\ usage = 0 /\ avgUsage = 0
  /\ elapsed = 0 /\ ran = acct /\ late = 0
  /\ window = [time |-> 1, least |-> 0, most |-> 0]

(* What the counter grew by since it was read. *)
Grown == IF at = "timed" THEN window.least + ran ELSE ran - late

(* Time passes and the container runs.  Between two samples neither number *)
(* comes round altogether: in nanoseconds that takes centuries.            *)
Run(used) ==
  /\ elapsed < W - 1 /\ Grown + used < W
  /\ alive \/ used = 0
  /\ clock' = (clock + 1) % W
  /\ acct' = (acct + used) % W
  /\ elapsed' = elapsed + 1
  /\ ran' = ran + used
  /\ UNCHANGED <<alive, at, timeStamp, last, usage, avgUsage, late, window>>

EndContainer ==
  /\ alive
  /\ alive' = FALSE
  /\ UNCHANGED <<clock, acct, at, timeStamp, last, usage, avgUsage, history>>

(* A sample takes microseconds, so no two have the same time stamp. *)
ReadClock ==
  /\ at = "idle" /\ elapsed > 0
  /\ at' = "timed"
  /\ timeStamp' = clock
  /\ window' = [time |-> elapsed, least |-> ran - late, most |-> ran]
  /\ elapsed' = 0 /\ ran' = 0 /\ late' = 0
  /\ UNCHANGED <<kernel, last, usage, avgUsage>>

(* Mutant: the counter is not remembered with the time. *)
UpdateUsageTimeOnly ==
  /\ at = "timed" /\ alive
  /\ at' = "idle"
  /\ usage' = (Scale * Since(acct, last.acctUsage)) \div Since(timeStamp, last.timeStamp)
  /\ avgUsage' = (7 * avgUsage + usage') \div 8
  /\ last' = [last EXCEPT !.timeStamp = timeStamp]
  /\ late' = ran
  /\ window' = [window EXCEPT !.most = @ + ran]
  /\ UNCHANGED <<kernel, timeStamp, elapsed, ran>>

UpdateUsage ==
  /\ at = "timed" /\ alive
  /\ at' = "idle"
  /\ usage' = (Scale * Since(acct, last.acctUsage)) \div Since(timeStamp, last.timeStamp)
  /\ avgUsage' = (7 * avgUsage + usage') \div 8
  /\ last' = [timeStamp |-> timeStamp, acctUsage |-> acct]
  /\ late' = ran
  /\ window' = [window EXCEPT !.most = @ + ran]
  /\ UNCHANGED <<kernel, timeStamp, elapsed, ran>>

(* The file cannot be read, which also happens while it is there: the pod  *)
(* is completed, and nothing is recorded.                                  *)
Completed ==
  /\ at = "timed"
  /\ at' = "completed"
  /\ UNCHANGED <<kernel, timeStamp, last, usage, avgUsage, history>>

Next ==
  \/ \E used \in 0 .. Rate : Run(used)
  \/ EndContainer
  \/ ReadClock \/ UpdateUsage \/ Completed

Spec == Init /\ [][Next]_vars

----------------------------------------------------------------------------
(* Properties *)

(* Every variable has its type, and what was used before the last read was *)
(* used before now.                                                        *)
TypeOK ==
  /\ clock \in 0 .. W - 1
  /\ acct \in 0 .. W - 1
  /\ alive \in BOOLEAN
  /\ at \in {"idle", "timed", "completed"}
  /\ timeStamp \in 0 .. W - 1
  /\ last \in [timeStamp : 0 .. W - 1, acctUsage : 0 .. W - 1]
  /\ usage \in Nat /\ avgUsage \in Nat
  /\ elapsed \in 0 .. W - 1
  /\ ran \in Nat /\ late \in 0 .. ran
  /\ window \in [time : 1 .. W - 1, least : Nat, most : Nat]

(* The usage is what the container used of the window between the last two *)
(* time stamps, give or take what it used while a sample went from the     *)
(* clock to the counter, even when counter or clock come round in between. *)
UsageIsMeasured ==
  at = "idle" =>
    /\ usage * window.time <= Scale * window.most
    /\ Scale * window.least < (usage + 1) * window.time

=============================================================================
