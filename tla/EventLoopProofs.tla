-------------------------- MODULE EventLoopProofs --------------------------
(***************************************************************************)
(* The composition implements both of its components, so that what is      *)
(* proved of each by itself holds of the two together.                     *)
(***************************************************************************)
EXTENDS EventLoop, SequenceTheorems, TLAPS

SP == INSTANCE UsageSamplingProofs
BP == INSTANCE BpfWatcherProofs

(* The sampling of the pod is that of UsageSampling, whatever triggers it. *)
THEOREM SamplesCorrect == Spec => Samples
<1>1. Init => S!Init
  BY DEF Init
<1>2. [Next]_vars => [S!Next]_(S!vars)
  <2> SUFFICES ASSUME [Next]_vars PROVE [S!Next]_(S!vars)
    OBVIOUS
  <2> USE DEF sampling, S!vars, S!kernel, S!history
  <2>1. CASE Time
    BY <2>1 DEF Time, Run, S!Next
  <2>2. CASE EndContainer
    BY <2>2 DEF EndContainer, S!Next
  <2>3. CASE Sample
    BY <2>3 DEF Sample, PrepareTime, PrepareRead, PassTime, PassRead, TakeTime, Read, S!Next
  <2>4. CASE Launch \/ Others \/ Wake \/ PassWithout
    BY <2>4 DEF Launch, Others, Wake, PassWithout
  <2>5. CASE UNCHANGED vars
    BY <2>5 DEF vars
  <2> QED
    BY <2>1, <2>2, <2>3, <2>4, <2>5 DEF Next
<1> QED
  BY <1>1, <1>2, PTL DEF Spec, Samples, S!Spec

(* The way of an event is that of BpfWatcher, whatever a pass does. *)
THEOREM WatchesCorrect == Spec => Watches
<1>1. Init => B!Init
  BY DEF Init
<1>2. [Next]_vars => [B!Next]_(B!vars)
  <2> SUFFICES ASSUME [Next]_vars PROVE [B!Next]_(B!vars)
    OBVIOUS
  <2> USE DEF watching, B!vars, B!stop, B!pipe
  <2>1. CASE Time \/ EndContainer
    BY <2>1 DEF Time, Run, EndContainer
  <2>2. CASE Launch \/ Others \/ Wake \/ PassWithout
    BY <2>2 DEF Launch, Others, Wake, PassWithout, B!Next
  <2>3. CASE Sample
    BY <2>3 DEF Sample, PrepareTime, PrepareRead, PassTime, PassRead, B!Next
  <2>4. CASE UNCHANGED vars
    BY <2>4 DEF vars
  <2> QED
    BY <2>1, <2>2, <2>3, <2>4 DEF Next
<1> QED
  BY <1>1, <1>2, PTL DEF Spec, Watches, B!Spec

----------------------------------------------------------------------------
(* The theorems of the components, which speak of the same formulas under  *)
(* the names of the instances SP and BP.                                   *)

LEMMA SameSampling ==
  /\ SP!SamplingAssumption
  /\ S!Spec => SP!Spec
<1>1. SP!SamplingAssumption
  BY EventLoopAssumption DEF S!SamplingAssumption, SP!SamplingAssumption
<1>2. S!Init => SP!Init
  BY DEF S!Init, SP!Init
<1>3. [S!Next]_(S!vars) => [SP!Next]_(SP!vars)
  BY DEF S!Next, S!Run, S!EndContainer, S!ReadClock, S!UpdateUsage, S!Completed,
         S!Since, S!Grown, S!vars, S!kernel, S!history,
         SP!Next, SP!Run, SP!EndContainer, SP!ReadClock, SP!UpdateUsage, SP!Completed,
         SP!Since, SP!Grown, SP!vars, SP!kernel, SP!history
<1> QED
  BY <1>1, <1>2, <1>3, PTL DEF S!Spec, SP!Spec

LEMMA SameWatching ==
  /\ BP!WatcherAssumption
  /\ B!Spec => BP!Spec
<1>1. BP!WatcherAssumption
  BY EventLoopAssumption DEF B!WatcherAssumption, BP!WatcherAssumption
<1>2. B!Init => BP!Init
  BY DEF B!Init, BP!Init
<1>3. [B!Next]_(B!vars) => [BP!Next]_(BP!vars)
  BY DEF B!Next, B!Main, B!Relay, B!Signal, B!Ends, B!Exit, B!Load, B!LoadFails,
         B!StartPolling, B!StopPolling, B!Close, B!Launch, B!Poll, B!Receive, B!Send,
         B!ReceiveEvent, B!Tick, B!EndPass, B!StopLoop, B!vars, B!stop, B!pipe,
         B!launched, BP!launched,
         BP!Next, BP!Main, BP!Relay, BP!Signal, BP!Ends, BP!Exit, BP!Load, BP!LoadFails,
         BP!StartPolling, BP!StopPolling, BP!Close, BP!Launch, BP!Poll, BP!Receive,
         BP!Send, BP!ReceiveEvent, BP!Tick, BP!EndPass, BP!StopLoop, BP!vars, BP!stop,
         BP!pipe
<1> QED
  BY <1>1, <1>2, <1>3, PTL DEF B!Spec, BP!Spec

(* Every variable of either component keeps its type. *)
THEOREM TypeCorrect == Spec => []TypeOK
<1>1. SP!Spec => []SP!TypeOK
  BY SameSampling, SP!TypeCorrect, PTL
<1>2. SP!TypeOK => S!TypeOK
  BY DEF S!TypeOK, SP!TypeOK
<1>3. BP!Spec => []BP!TypeOK
  BY SameWatching, BP!TypeCorrect, PTL
<1>4. BP!TypeOK => B!TypeOK
  BY DEF B!TypeOK, BP!TypeOK
<1> QED
  BY <1>1, <1>2, <1>3, <1>4, SamplesCorrect, WatchesCorrect, SameSampling, SameWatching,
     PTL DEF Samples, Watches, TypeOK

(* The usage is what the container used between the last two time stamps,  *)
(* for every width of the numbers, although events make the samples come   *)
(* at any time.                                                            *)
THEOREM UsageIsMeasuredCorrect == Spec => []UsageIsMeasured
<1>1. SP!Spec => []SP!UsageIsMeasured
  BY SameSampling, SP!UsageIsMeasuredCorrect, PTL
<1>2. SP!UsageIsMeasured => S!UsageIsMeasured
  BY DEF S!UsageIsMeasured, SP!UsageIsMeasured
<1> QED
  BY <1>1, <1>2, SamplesCorrect, SameSampling, PTL DEF Samples, UsageIsMeasured

(* No event is lost between the probe and Run or overtaken by one of its   *)
(* CPU, for any number of CPUs and every capacity of the buffers and the   *)
(* channel, although a pass has to wait for its samples.                   *)
THEOREM NoneLostCorrect == Spec => []NoneLost
<1>1. BP!Spec => []BP!NoneLost
  BY SameWatching, BP!NoneLostCorrect, PTL
<1>2. BP!NoneLost => B!NoneLost
  BY DEF B!NoneLost, BP!NoneLost, B!Taken, BP!Taken, B!Elements, BP!Elements,
         B!launched, BP!launched
<1> QED
  BY <1>1, <1>2, WatchesCorrect, SameWatching, PTL DEF Watches, NoneLost

----------------------------------------------------------------------------
(* SampledAfter *)

Answered == \A k \in 1 .. Len(served) : served[k] \notin unsampled

(* Outside a pass, and in one that owes no sample or has its time stamp,   *)
(* the events that were served are answered.  Of a pod that is not stored  *)
(* nothing is expected, and of a stored one only a pass takes samples.     *)
Order ==
  /\ ~Stored => ~owed /\ unsampled = {}
  /\ proc = "up" /\ Stored /\ loop # "pass" => at # "timed"
  /\ proc = "up" /\ at # "completed" =>
       \/ loop = "pass" /\ owed /\ at # "timed"
       \/ Answered

(* What is in two sequences put together is in one of them. *)
LEMMA InConcat ==
  ASSUME NEW s \in Seq(Nat), NEW t \in Seq(Nat)
  PROVE  /\ s \o t \in Seq(Nat)
         /\ B!Elements(s \o t) = B!Elements(s) \cup B!Elements(t)
<1>1. /\ s \o t \in Seq(Nat)
      /\ Len(s) \in Nat /\ Len(t) \in Nat /\ Len(s \o t) = Len(s) + Len(t)
      /\ \A i \in 1 .. Len(s) + Len(t) :
           (s \o t)[i] = IF i <= Len(s) THEN s[i] ELSE t[i - Len(s)]
  BY ConcatProperties, LenProperties
<1> DEFINE u == s \o t
<1> HIDE DEF u
<1>2. ASSUME NEW k \in 1 .. Len(u) PROVE u[k] \in B!Elements(s) \cup B!Elements(t)
  <2>1. CASE k <= Len(s)
    <3>1. k \in 1 .. Len(s) /\ u[k] = s[k]
      BY <1>1, <2>1 DEF u
    <3> QED
      BY <3>1 DEF B!Elements
  <2>2. CASE k > Len(s)
    <3>1. k - Len(s) \in 1 .. Len(t) /\ u[k] = t[k - Len(s)]
      BY <1>1, <2>2 DEF u
    <3> QED
      BY <3>1 DEF B!Elements
  <2> QED
    BY <1>1, <2>1, <2>2
<1>3. ASSUME NEW k \in 1 .. Len(s) PROVE s[k] \in B!Elements(u)
  <2>1. k \in 1 .. Len(u) /\ u[k] = s[k]
    BY <1>1 DEF u
  <2> QED
    BY <2>1 DEF B!Elements
<1>4. ASSUME NEW k \in 1 .. Len(t) PROVE t[k] \in B!Elements(u)
  <2>1. Len(s) + k \in 1 .. Len(u) /\ u[Len(s) + k] = t[k]
    BY <1>1 DEF u
  <2> QED
    BY <2>1 DEF B!Elements
<1>5. B!Elements(u) = B!Elements(s) \cup B!Elements(t)
  BY <1>2, <1>3, <1>4 DEF B!Elements
<1> QED
  BY <1>1, <1>5 DEF u

(* Where the events are that left the buffers. *)
LEMMA TakenIs ==
  ASSUME B!TypeOK
  PROVE  B!Elements(B!Taken) = B!Elements(served) \cup B!Elements(ebpfCh)
                                 \cup B!Elements(relay) \cup B!Elements(poller)
<1> DEFINE a == served \o ebpfCh
           b == a \o relay
<1>0. /\ served \in Seq(Nat) /\ ebpfCh \in Seq(Nat) /\ relay \in Seq(Nat)
      /\ poller \in Seq(Nat)
  BY DEF B!TypeOK
<1>1. a \in Seq(Nat) /\ B!Elements(a) = B!Elements(served) \cup B!Elements(ebpfCh)
  BY <1>0, InConcat
<1> HIDE DEF a
<1>2. b \in Seq(Nat) /\ B!Elements(b) = B!Elements(a) \cup B!Elements(relay)
  BY <1>0, <1>1, InConcat
<1> HIDE DEF b
<1>3. B!Elements(b \o poller) = B!Elements(b) \cup B!Elements(poller)
  BY <1>0, <1>2, InConcat
<1>4. B!Taken = b \o poller
  BY DEF B!Taken, a, b
<1> QED
  BY <1>1, <1>2, <1>3, <1>4

(* An event that was served was launched. *)
LEMMA ServedLaunched ==
  ASSUME B!TypeOK, B!NoneLost
  PROVE  \A k \in 1 .. Len(served) : served[k] \in 1 .. B!launched
<1>1. B!Elements(served) \subseteq 1 .. B!launched
  BY TakenIs DEF B!NoneLost
<1> QED
  BY <1>1 DEF B!Elements

(* A launch is counted. *)
LEMMA LaunchCounted ==
  ASSUME B!TypeOK, B!Launch
  PROVE  B!launched \in Nat /\ B!launched' = B!launched + 1
<1>1. PICK c \in Cpus : on' = Append(on, c)
  BY DEF B!Launch
<1>2. Len(on) \in Nat /\ Len(on') = Len(on) + 1
  BY <1>1, AppendProperties, LenProperties DEF B!TypeOK
<1> QED
  BY <1>2 DEF B!launched

LEMMA OrderInit == Init => Order
  BY DEF Init, B!Init, Order, Answered, Stored

LEMMA OrderStep ==
  ASSUME Order, B!TypeOK, B!NoneLost, [Next]_vars
  PROVE  Order'
<1> USE DEF Order, Answered, Stored, watching, own, sampling
<1>1. CASE Time
  BY <1>1 DEF Time, Run, S!Run
<1>2. CASE EndContainer
  BY <1>2 DEF EndContainer, S!EndContainer, S!history
<1>3. CASE Launch
  <2>1. \A k \in 1 .. Len(served) : served[k] # B!launched'
    <3>1. B!launched \in Nat /\ B!launched' = B!launched + 1
      BY <1>3, LaunchCounted DEF Launch
    <3> QED
      BY <3>1, ServedLaunched
  <2>2. /\ unsampled' = IF Stored THEN unsampled \cup {B!launched'} ELSE unsampled
        /\ UNCHANGED <<prepared, owed, at, proc, loop, served>>
    BY <1>3 DEF Launch, B!Launch, B!stop
  <2> QED
    BY <2>1, <2>2
<1>4. CASE Others
  <2>1. UNCHANGED <<prepared, owed, unsampled, at>>
    BY <1>4 DEF Others
  <2>2. \/ proc' = "exited"
        \/ UNCHANGED <<proc, loop, served>>
        \/ UNCHANGED <<proc, served>> /\ loop = "select" /\ loop' = "done"
    BY <1>4 DEF Others, B!Main, B!Relay, B!StopLoop, B!Signal, B!Exit, B!Load,
                B!LoadFails, B!Ends, B!StartPolling, B!StopPolling, B!Close, B!Poll,
                B!Receive, B!Send, B!stop, B!pipe
  <2> QED
    BY <2>1, <2>2
<1>5. CASE Wake
  BY <1>5 DEF Wake, B!ReceiveEvent, B!Tick, B!stop, B!pipe
<1>6. CASE PrepareTime \/ PassTime
  BY <1>6 DEF PrepareTime, PassTime, TakeTime, S!ReadClock
<1>7. CASE PrepareRead
  BY <1>7 DEF PrepareRead, Read, S!UpdateUsage, S!Completed
<1>8. CASE PassRead
  BY <1>8 DEF PassRead, Read, S!UpdateUsage, S!Completed, B!EndPass, B!stop, B!pipe
<1>9. CASE PassWithout
  BY <1>9 DEF PassWithout, B!EndPass, B!stop, B!pipe
<1>10. CASE UNCHANGED vars
  BY <1>10 DEF vars
<1> QED
  BY <1>1, <1>2, <1>3, <1>4, <1>5, <1>6, <1>7, <1>8, <1>9, <1>10 DEF Next, Sample

(* When the pass an event triggered is over, the pod was sampled at a time *)
(* after the launch, for every number of launches and every capacity: the  *)
(* event may have waited, but it is not answered with an old sample.       *)
THEOREM SampledAfterCorrect == Spec => []SampledAfter
<1>1. Init => Order
  BY OrderInit
<1>2. Order /\ TypeOK /\ NoneLost /\ [Next]_vars => Order'
  BY OrderStep DEF TypeOK, NoneLost
<1>3. Order => SampledAfter
  BY DEF Order, Answered, SampledAfter
<1> QED
  BY <1>1, <1>2, <1>3, TypeCorrect, NoneLostCorrect, PTL DEF Spec

----------------------------------------------------------------------------
(* LaunchPending *)

(* A launch is counted before it can be sampled. *)
Counted == proc = "up" => unsampled \subseteq 1 .. B!launched

(* Only a launch adds to what was not sampled. *)
LEMMA CountedStep ==
  ASSUME B!TypeOK, Counted, [Next]_vars
  PROVE  Counted'
<1> USE DEF Counted, watching, own, B!launched
<1>1. CASE Launch
  <2>1. /\ B!launched' = B!launched + 1 /\ B!launched \in Nat /\ proc' = proc
        /\ unsampled' = IF Stored THEN unsampled \cup {B!launched'} ELSE unsampled
    BY <1>1, LaunchCounted DEF Launch, B!Launch, B!stop
  <2> QED
    BY <2>1
<1>2. CASE Others
  <2>1. UNCHANGED unsampled /\ (proc' = "exited" \/ UNCHANGED <<proc, on>>)
    BY <1>2 DEF Others, B!Main, B!Relay, B!StopLoop, B!Signal, B!Exit, B!Load,
                B!LoadFails, B!Ends, B!StartPolling, B!StopPolling, B!Close, B!Poll,
                B!Receive, B!Send, B!stop
  <2> QED
    BY <2>1
<1>3. CASE Time \/ EndContainer
  BY <1>3 DEF Time, Run, EndContainer
<1>4. CASE Sample
  BY <1>4 DEF Sample, PrepareTime, PrepareRead, PassTime, PassRead, TakeTime,
              B!EndPass, B!stop
<1>5. CASE Wake \/ PassWithout
  BY <1>5 DEF Wake, PassWithout, B!ReceiveEvent, B!Tick, B!EndPass, B!stop
<1>6. CASE UNCHANGED vars
  BY <1>6 DEF vars
<1> QED
  BY <1>1, <1>2, <1>3, <1>4, <1>5, <1>6 DEF Next

(* LaunchPending: until the pod is sampled after a launch, the event waits *)
(* before Run or Run is about to sample, for every capacity and any number *)
(* of launches; that every launch is sampled in the end then only takes    *)
(* goroutines that go on.                                                  *)
THEOREM LaunchPendingCorrect == Spec => []LaunchPending
<1>1. Init => Order /\ Counted
  BY OrderInit DEF Init, Counted
<1>2. TypeOK /\ NoneLost /\ Order /\ Counted /\ [Next]_vars => (Order /\ Counted)'
  BY OrderStep, CountedStep DEF TypeOK, NoneLost
<1>3. TypeOK /\ NoneLost /\ Order /\ Counted => LaunchPending
  <2> SUFFICES ASSUME B!TypeOK, B!NoneLost, Order, Counted, proc = "up",
                      at # "completed", NEW event \in unsampled \ gone
               PROVE  Waits(event) \/ (loop = "pass" /\ owed /\ at # "timed")
    BY DEF TypeOK, NoneLost, LaunchPending
  <2>1. event \in B!Elements(B!Taken) \cup UNION {B!Elements(ring[c]) : c \in Cpus}
    BY DEF Counted, B!NoneLost
  <2>2. event \in B!Elements(served) \/ Waits(event)
    BY <2>1, TakenIs DEF Waits
  <2>3. CASE event \in B!Elements(served)
    BY <2>3 DEF Order, Answered, B!Elements
  <2> QED
    BY <2>2, <2>3
<1> QED
  BY <1>1, <1>2, <1>3, TypeCorrect, NoneLostCorrect, PTL DEF Spec

=============================================================================
