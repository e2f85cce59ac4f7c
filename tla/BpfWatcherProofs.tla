-------------------------- MODULE BpfWatcherProofs --------------------------
(***************************************************************************)
(* What holds of BpfWatcher for any number of CPUs and of launches, and    *)
(* every capacity of the buffers and of the channel.                       *)
(***************************************************************************)
EXTENDS BpfWatcher, SequenceTheorems, TLAPS

----------------------------------------------------------------------------
(* Sequences of events. *)

(* A sequence is its head and its tail. *)
LEMMA HeadFirst ==
  ASSUME NEW s \in Seq(Nat), s # <<>>
  PROVE  /\ Head(s) \in Nat /\ Tail(s) \in Seq(Nat)
         /\ <<Head(s)>> \in Seq(Nat)
         /\ <<Head(s)>> \o Tail(s) = s
         /\ Len(Tail(s)) = Len(s) - 1
<1>1. <<Head(s)>> \o Tail(s) = s
  BY SMTT(30)
<1> QED
  BY <1>1, HeadTailProperties

(* A sequence of one element is its head. *)
LEMMA Single ==
  ASSUME NEW s \in Seq(Nat), s # <<>>, Len(s) <= 1
  PROVE  <<Head(s)>> = s
<1>1. Len(s) \in Nat /\ Tail(s) \in Seq(Nat) /\ Len(Tail(s)) = Len(s) - 1
  BY HeadFirst, LenProperties
<1>2. Len(s) # 0
  BY EmptySeq
<1>3. Len(Tail(s)) = 0
  BY <1>1, <1>2
<1>4. Tail(s) = <<>>
  BY <1>1, <1>3, EmptySeq
<1>5. <<Head(s)>> \in Seq(Nat) /\ <<Head(s)>> \o Tail(s) = s
  BY HeadFirst
<1> QED
  BY <1>4, <1>5, ConcatEmptySeq

(* Concatenation is associative. *)
LEMMA Associative ==
  ASSUME NEW a \in Seq(Nat), NEW b \in Seq(Nat), NEW c \in Seq(Nat)
  PROVE  (a \o b) \o c = a \o (b \o c)
  BY ConcatAssociative, SMTT(60)

(* What is taken from the one sequence and put at the end of another stays *)
(* where it is in the two together.                                        *)
LEMMA MoveHead ==
  ASSUME NEW a \in Seq(Nat), NEW b \in Seq(Nat), b # <<>>
  PROVE  (a \o <<Head(b)>>) \o Tail(b) = a \o b
<1>1. /\ <<Head(b)>> \in Seq(Nat) /\ Tail(b) \in Seq(Nat)
      /\ <<Head(b)>> \o Tail(b) = b
  BY HeadFirst
<1>2. (a \o <<Head(b)>>) \o Tail(b) = a \o (<<Head(b)>> \o Tail(b))
  BY <1>1, Associative, ZenonT(60)
<1> QED
  BY <1>1, <1>2, Zenon

(* Events of one CPU come in their order; f says of which CPU they are. *)
Ordered(s, f) ==
  \A j, k \in 1 .. Len(s) : j < k /\ f[s[j]] = f[s[k]] => s[j] < s[k]

(* What is in the buffer t of c was launched later than what left it. *)
Behind(t, s, f, c) ==
  \A k \in 1 .. Len(t) :
    /\ f[t[k]] = c
    /\ \A j \in 1 .. k - 1 : t[j] < t[k]
    /\ \A x \in Elements(s) : f[x] = c => x < t[k]

(* What a sequence is after an event was put at its end. *)
LEMMA AppendIs ==
  ASSUME NEW s \in Seq(Nat), NEW n \in Nat
  PROVE  /\ Append(s, n) \in Seq(Nat)
         /\ Len(s) \in Nat /\ Len(Append(s, n)) = Len(s) + 1
         /\ \A k \in 1 .. Len(s) : Append(s, n)[k] = s[k]
         /\ Append(s, n)[Len(s) + 1] = n
         /\ Elements(Append(s, n)) = Elements(s) \cup {n}
<1> DEFINE t == Append(s, n)
<1>1. /\ t \in Seq(Nat) /\ Len(s) \in Nat /\ Len(t) = Len(s) + 1
      /\ \A k \in 1 .. Len(s) : t[k] = s[k]
      /\ t[Len(s) + 1] = n
  BY AppendProperties, LenProperties
<1> HIDE DEF t
<1>2. ASSUME NEW k \in 1 .. Len(t) PROVE t[k] \in Elements(s) \cup {n}
  <2>1. k \in 1 .. Len(s) \/ k = Len(s) + 1
    BY <1>1
  <2> QED
    BY <2>1, <1>1 DEF Elements
<1>3. ASSUME NEW k \in 1 .. Len(s) PROVE s[k] \in Elements(t)
  <2>1. k \in 1 .. Len(t) /\ s[k] = t[k]
    BY <1>1
  <2> QED
    BY <2>1 DEF Elements
<1>4. n \in Elements(t)
  <2>1. Len(s) + 1 \in 1 .. Len(t)
    BY <1>1
  <2> QED
    BY <2>1, <1>1 DEF Elements
<1>5. Elements(t) = Elements(s) \cup {n}
  BY <1>2, <1>3, <1>4 DEF Elements
<1> QED
  BY <1>1, <1>5 DEF t

(* What a sequence is after the first event was taken. *)
LEMMA TailIs ==
  ASSUME NEW t \in Seq(Nat), t # <<>>
  PROVE  /\ Tail(t) \in Seq(Nat) /\ Len(t) \in Nat /\ 1 <= Len(t)
         /\ Head(t) = t[1] /\ Head(t) \in Nat
         /\ Len(Tail(t)) = Len(t) - 1
         /\ \A k \in 1 .. Len(Tail(t)) : Tail(t)[k] = t[k + 1]
         /\ Elements(t) = {Head(t)} \cup Elements(Tail(t))
<1> DEFINE u == Tail(t)
<1>1. /\ u \in Seq(Nat) /\ Len(t) \in Nat /\ Head(t) = t[1] /\ Head(t) \in Nat
      /\ Len(u) = Len(t) - 1
      /\ \A k \in 1 .. Len(u) : u[k] = t[k + 1]
  BY HeadTailProperties, LenProperties
<1>2. 1 <= Len(t)
  BY <1>1, EmptySeq
<1> HIDE DEF u
<1>3. ASSUME NEW k \in 1 .. Len(t) PROVE t[k] \in {Head(t)} \cup Elements(u)
  <2>1. CASE k = 1
    BY <2>1, <1>1
  <2>2. CASE k # 1
    <3>1. k - 1 \in 1 .. Len(u) /\ k - 1 + 1 = k
      BY <2>2, <1>1
    <3>2. u[k - 1] = t[k]
      BY <3>1, <1>1
    <3> QED
      BY <3>1, <3>2 DEF Elements
  <2> QED
    BY <2>1, <2>2
<1>4. ASSUME NEW k \in 1 .. Len(u) PROVE u[k] \in Elements(t)
  <2>1. k + 1 \in 1 .. Len(t) /\ u[k] = t[k + 1]
    BY <1>1
  <2> QED
    BY <2>1 DEF Elements
<1>5. Head(t) \in Elements(t)
  <2>1. 1 \in 1 .. Len(t)
    BY <1>1, <1>2
  <2> QED
    BY <2>1, <1>1 DEF Elements
<1>6. Elements(t) = {Head(t)} \cup Elements(u)
  BY <1>3, <1>4, <1>5 DEF Elements
<1> QED
  BY <1>1, <1>2, <1>6 DEF u

(* An event that comes after those of its CPU can be put at the end, and   *)
(* the last one can be left out, which occurs nowhere else.                *)
LEMMA AppendOrdered ==
  ASSUME NEW s \in Seq(Nat), NEW n \in Nat, NEW f
  PROVE  Ordered(Append(s, n), f) <=>
           /\ Ordered(s, f)
           /\ \A x \in Elements(s) : f[x] = f[n] => x < n
<1> DEFINE t == Append(s, n)
<1>1. /\ Len(s) \in Nat /\ Len(t) = Len(s) + 1
      /\ \A k \in 1 .. Len(s) : t[k] = s[k]
      /\ t[Len(s) + 1] = n
  BY AppendIs
<1> HIDE DEF t
<1>2. ASSUME Ordered(s, f), \A x \in Elements(s) : f[x] = f[n] => x < n,
             NEW j \in 1 .. Len(t), NEW k \in 1 .. Len(t),
             j < k, f[t[j]] = f[t[k]]
      PROVE  t[j] < t[k]
  <2>1. j \in 1 .. Len(s) /\ t[j] = s[j] /\ s[j] \in Elements(s)
    <3>1. j \in 1 .. Len(s)
      BY <1>1, <1>2
    <3> QED
      BY <3>1, <1>1 DEF Elements
  <2>2. CASE k = Len(s) + 1
    BY <2>1, <2>2, <1>1, <1>2
  <2>3. CASE k \in 1 .. Len(s)
    BY <2>1, <2>3, <1>1, <1>2 DEF Ordered
  <2> QED
    BY <2>2, <2>3, <1>1
<1>3. ASSUME Ordered(t, f), NEW j \in 1 .. Len(s), NEW k \in 1 .. Len(s),
             j < k, f[s[j]] = f[s[k]]
      PROVE  s[j] < s[k]
  <2>1. j \in 1 .. Len(t) /\ k \in 1 .. Len(t) /\ t[j] = s[j] /\ t[k] = s[k]
    BY <1>1
  <2> QED
    BY <2>1, <1>3 DEF Ordered
<1>4. ASSUME Ordered(t, f), NEW j \in 1 .. Len(s), f[s[j]] = f[n]
      PROVE  s[j] < n
  <2>1. /\ j \in 1 .. Len(t) /\ Len(s) + 1 \in 1 .. Len(t) /\ j < Len(s) + 1
        /\ t[j] = s[j] /\ t[Len(s) + 1] = n
    BY <1>1
  <2> QED
    BY <2>1, <1>4 DEF Ordered
<1>5. ASSUME Ordered(s, f), \A x \in Elements(s) : f[x] = f[n] => x < n
      PROVE  Ordered(t, f)
  BY <1>2, <1>5 DEF Ordered
<1>6. ASSUME Ordered(t, f)
      PROVE  Ordered(s, f) /\ \A x \in Elements(s) : f[x] = f[n] => x < n
  BY <1>3, <1>4, <1>6 DEF Ordered, Elements
<1> QED
  BY <1>5, <1>6 DEF t

(* Only the launches of the events at hand matter. *)
LEMMA Agree ==
  ASSUME NEW s, NEW t, NEW f, NEW g, NEW c,
         \A x \in Elements(s) \cup Elements(t) : f[x] = g[x]
  PROVE  /\ Ordered(s, f) => Ordered(s, g)
         /\ Behind(t, s, f, c) => Behind(t, s, g, c)
<1>1. \A k \in 1 .. Len(s) : f[s[k]] = g[s[k]]
  BY DEF Elements
<1>2. \A k \in 1 .. Len(t) : f[t[k]] = g[t[k]]
  BY DEF Elements
<1>3. Ordered(s, f) => Ordered(s, g)
  BY <1>1 DEF Ordered
<1>4. Behind(t, s, f, c) => Behind(t, s, g, c)
  BY <1>2 DEF Behind
<1> QED
  BY <1>3, <1>4

(* The first event of a buffer is the next one of its CPU. *)
LEMMA HeadBehind ==
  ASSUME NEW t \in Seq(Nat), t # <<>>, NEW s \in Seq(Nat), NEW f, NEW c,
         Behind(t, s, f, c)
  PROVE  /\ f[Head(t)] = c
         /\ \A x \in Elements(s) : f[x] = c => x < Head(t)
         /\ Behind(Tail(t), Append(s, Head(t)), f, c)
<1> DEFINE h == Head(t)
           u == Tail(t)
<1>1. /\ u \in Seq(Nat) /\ Len(t) \in Nat /\ 1 <= Len(t)
      /\ h = t[1] /\ h \in Nat /\ Len(u) = Len(t) - 1
      /\ \A k \in 1 .. Len(u) : u[k] = t[k + 1]
  BY TailIs
<1>2. Elements(Append(s, h)) = Elements(s) \cup {h}
  BY <1>1, AppendIs
<1> HIDE DEF h, u
<1>3. f[h] = c /\ \A x \in Elements(s) : f[x] = c => x < h
  <2>1. 1 \in 1 .. Len(t)
    BY <1>1
  <2> QED
    BY <2>1, <1>1 DEF Behind
<1>4. ASSUME NEW k \in 1 .. Len(u)
      PROVE  /\ f[u[k]] = c
             /\ \A j \in 1 .. k - 1 : u[j] < u[k]
             /\ \A x \in Elements(Append(s, h)) : f[x] = c => x < u[k]
  <2>1. k + 1 \in 1 .. Len(t) /\ u[k] = t[k + 1] /\ 1 \in 1 .. (k + 1) - 1
    BY <1>1
  <2>2. /\ f[t[k + 1]] = c
        /\ \A j \in 1 .. (k + 1) - 1 : t[j] < t[k + 1]
        /\ \A x \in Elements(s) : f[x] = c => x < t[k + 1]
    BY <2>1 DEF Behind
  <2>3. ASSUME NEW j \in 1 .. k - 1 PROVE u[j] < u[k]
    <3>1. j \in 1 .. Len(u) /\ j + 1 \in 1 .. (k + 1) - 1
      BY <1>1
    <3>2. u[j] = t[j + 1]
      BY <3>1, <1>1
    <3> QED
      BY <3>1, <3>2, <2>1, <2>2
  <2>4. h < u[k]
    BY <1>1, <2>1, <2>2
  <2> QED
    BY <1>2, <2>1, <2>2, <2>3, <2>4
<1>5. Behind(u, Append(s, h), f, c)
  BY <1>4 DEF Behind
<1> QED
  BY <1>3, <1>5 DEF h, u

(* An event of another CPU may overtake a buffer. *)
LEMMA OtherBehind ==
  ASSUME NEW t, NEW s \in Seq(Nat), NEW n \in Nat, NEW f, NEW c,
         Behind(t, s, f, c), f[n] # c
  PROVE  Behind(t, Append(s, n), f, c)
<1>1. Elements(Append(s, n)) = Elements(s) \cup {n}
  BY AppendIs
<1> QED
  BY <1>1 DEF Behind

(* The newest event of all goes to the end of a buffer. *)
LEMMA NewestBehind ==
  ASSUME NEW t \in Seq(Nat), NEW s \in Seq(Nat), NEW n \in Nat, NEW f, NEW c,
         Behind(t, s, f, c), f[n] = c,
         \A x \in Elements(s) \cup Elements(t) : x < n
  PROVE  Behind(Append(t, n), s, f, c)
<1> DEFINE u == Append(t, n)
<1>1. /\ Len(t) \in Nat /\ Len(u) = Len(t) + 1
      /\ \A k \in 1 .. Len(t) : u[k] = t[k]
      /\ u[Len(t) + 1] = n
  BY AppendIs
<1> HIDE DEF u
<1>2. ASSUME NEW k \in 1 .. Len(u)
      PROVE  /\ f[u[k]] = c
             /\ \A j \in 1 .. k - 1 : u[j] < u[k]
             /\ \A x \in Elements(s) : f[x] = c => x < u[k]
  <2>1. CASE k \in 1 .. Len(t)
    <3>1. /\ f[t[k]] = c
          /\ \A j \in 1 .. k - 1 : t[j] < t[k]
          /\ \A x \in Elements(s) : f[x] = c => x < t[k]
      BY <2>1 DEF Behind
    <3>2. u[k] = t[k] /\ \A j \in 1 .. k - 1 : u[j] = t[j]
      BY <2>1, <1>1
    <3> QED
      BY <3>1, <3>2
  <2>2. CASE k = Len(t) + 1
    <3>1. u[k] = n
      BY <2>2, <1>1
    <3>2. ASSUME NEW j \in 1 .. k - 1 PROVE u[j] < n
      <4>1. j \in 1 .. Len(t)
        BY <2>2, <1>1
      <4> QED
        BY <4>1, <1>1 DEF Elements
    <3> QED
      BY <3>1, <3>2
  <2> QED
    BY <2>1, <2>2, <1>1
<1> QED
  BY <1>2 DEF Behind, u

(* The last event that left the buffers is in none of them, nor was it     *)
(* among the earlier ones.                                                 *)
LEMMA LastOnce ==
  ASSUME NEW a \in Seq(Nat), NEW d \in Nat, NEW f, Ordered(Append(a, d), f)
  PROVE  /\ Ordered(a, f)
         /\ d \notin Elements(a)
         /\ Elements(Append(a, d)) = Elements(a) \cup {d}
         /\ \A t, c : Behind(t, Append(a, d), f, c) =>
                        Behind(t, a, f, c) /\ d \notin Elements(t)
<1>1. Elements(Append(a, d)) = Elements(a) \cup {d}
  BY AppendIs
<1>2. Ordered(a, f) /\ \A x \in Elements(a) : f[x] = f[d] => x < d
  BY AppendOrdered
<1>3. d \notin Elements(a)
  BY <1>2
<1>4. ASSUME NEW t, NEW c, Behind(t, Append(a, d), f, c)
      PROVE  Behind(t, a, f, c) /\ d \notin Elements(t)
  <2>1. Behind(t, a, f, c)
    BY <1>1, <1>4 DEF Behind
  <2>2. ASSUME NEW k \in 1 .. Len(t), t[k] = d PROVE FALSE
    BY <1>1, <1>4, <2>2 DEF Behind
  <2> QED
    BY <2>1, <2>2 DEF Elements
<1> QED
  BY <1>1, <1>2, <1>3, <1>4

----------------------------------------------------------------------------
(* Types. *)

LEMMA TypeInit == WatcherAssumption /\ Init => TypeOK
<1> SUFFICES ASSUME WatcherAssumption, Init PROVE TypeOK
  OBVIOUS
<1>1. <<>> \in Seq(Nat) /\ <<>> \in Seq(Cpus) /\ Len(<<>>) = 0
  BY EmptySeq
<1>2. 0 <= RingCap /\ 0 <= EbpfCap /\ 0 <= 1
  BY DEF WatcherAssumption
<1>3. ring \in [Cpus -> Seq(Nat)] /\ \A c \in Cpus : Len(ring[c]) <= RingCap
  BY <1>1, <1>2 DEF Init
<1>4. /\ poller \in Seq(Nat) /\ Len(poller) <= 1
      /\ relay \in Seq(Nat) /\ Len(relay) <= 1
      /\ ebpfCh \in Seq(Nat) /\ Len(ebpfCh) <= EbpfCap
      /\ served \in Seq(Nat) /\ on \in Seq(Cpus)
  BY <1>1, <1>2, Zenon DEF Init
<1> QED
  BY <1>3, <1>4 DEF Init, TypeOK

(* The type of a sequence a step leaves, appends to, or takes the head of. *)
LEMMA TakeHead ==
  ASSUME NEW s \in Seq(Nat), s # <<>>
  PROVE  /\ <<Head(s)>> \in Seq(Nat) /\ Len(<<Head(s)>>) = 1
         /\ Tail(s) \in Seq(Nat) /\ Len(Tail(s)) <= Len(s)
         /\ Head(s) \in Nat /\ Len(s) \in Nat /\ 1 <= Len(s)
<1>1. Head(s) \in Nat /\ Tail(s) \in Seq(Nat) /\ Len(Tail(s)) = Len(s) - 1 /\ Len(s) \in Nat
  BY HeadFirst, LenProperties
<1>2. <<Head(s)>> \in Seq(Nat) /\ Len(<<Head(s)>>) = 1
  BY <1>1
<1>3. Len(s) # 0
  BY EmptySeq
<1> QED
  BY <1>1, <1>2, <1>3

(* A process that ends holds nothing. *)
LEMMA TypeEnds ==
  ASSUME WatcherAssumption, TypeOK, Ends, UNCHANGED stopped
  PROVE  TypeOK'
<1>1. <<>> \in Seq(Nat) /\ <<>> \in Seq(Cpus) /\ Len(<<>>) = 0
  BY EmptySeq
<1>2. 0 <= RingCap /\ 0 <= EbpfCap /\ 0 <= 1
  BY DEF WatcherAssumption
<1>3. ring' \in [Cpus -> Seq(Nat)] /\ \A c \in Cpus : Len(ring'[c]) <= RingCap
  BY <1>1, <1>2 DEF Ends
<1>4. /\ poller' \in Seq(Nat) /\ Len(poller') <= 1
      /\ relay' \in Seq(Nat) /\ Len(relay') <= 1
      /\ ebpfCh' \in Seq(Nat) /\ Len(ebpfCh') <= EbpfCap
      /\ served' \in Seq(Nat) /\ on' \in Seq(Cpus)
  BY <1>1, <1>2, Zenon DEF Ends
<1> QED
  BY <1>3, <1>4 DEF Ends, TypeOK

(* The buffers after one of them has changed. *)
LEMMA RingType ==
  ASSUME TypeOK, NEW c \in Cpus, NEW q \in Seq(Nat), Len(q) <= RingCap,
         ring' = [ring EXCEPT ![c] = q]
  PROVE  /\ ring' \in [Cpus -> Seq(Nat)]
         /\ \A d \in Cpus : Len(ring'[d]) <= RingCap
  BY DEF TypeOK

(* What a launch does, on its CPU. *)
LEMMA LaunchIs ==
  ASSUME TypeOK, Launch
  PROVE  \E c \in Cpus :
           /\ on' = Append(on, c) /\ on' \in Seq(Cpus)
           /\ launched \in Nat /\ launched' = launched + 1
           /\ \A x \in 1 .. launched : on'[x] = on[x]
           /\ on'[launched'] = c
           /\ \/ /\ Len(ring[c]) < RingCap
                 /\ ring' = [ring EXCEPT ![c] = Append(ring[c], launched')]
                 /\ gone' = gone
              \/ ring' = ring /\ gone' = gone \cup {launched'}
           /\ UNCHANGED <<poller, relay, ebpfCh, served>>
<1>1. PICK c \in Cpus :
        /\ on' = Append(on, c)
        /\ IF Len(ring[c]) < RingCap
           THEN ring' = [ring EXCEPT ![c] = Append(@, launched')] /\ UNCHANGED gone
           ELSE gone' = gone \cup {launched'} /\ UNCHANGED ring
  BY DEF Launch
<1>2. /\ on' \in Seq(Cpus) /\ Len(on) \in Nat /\ Len(on') = Len(on) + 1
      /\ \A x \in 1 .. Len(on) : on'[x] = on[x]
      /\ on'[Len(on) + 1] = c
  BY <1>1, AppendProperties, LenProperties DEF TypeOK
<1>3. launched' = Len(on') /\ launched = Len(on)
  BY DEF launched
<1> HIDE DEF launched
<1>4. /\ launched \in Nat /\ launched' = launched + 1
      /\ \A x \in 1 .. launched : on'[x] = on[x]
      /\ on'[launched'] = c
  BY <1>2, <1>3
<1>5. \/ /\ Len(ring[c]) < RingCap
         /\ ring' = [ring EXCEPT ![c] = Append(ring[c], launched')]
         /\ gone' = gone
      \/ ring' = ring /\ gone' = gone \cup {launched'}
  BY <1>1
<1> QED
  BY <1>1, <1>2, <1>4, <1>5 DEF Launch

LEMMA TypeStep == WatcherAssumption /\ TypeOK /\ [Next]_vars => TypeOK'
<1> SUFFICES ASSUME WatcherAssumption, TypeOK, [Next]_vars
             PROVE  TypeOK'
  OBVIOUS
<1>0. /\ RingCap \in Nat /\ RingCap >= 1 /\ EbpfCap \in Nat /\ EbpfCap >= 1
      /\ <<>> \in Seq(Nat) /\ Len(<<>>) = 0
  BY EmptySeq DEF WatcherAssumption
<1> USE DEF TypeOK, stop, pipe
<1>1. CASE Signal
  BY <1>1 DEF Signal
<1>2. CASE Exit
  BY <1>2, TypeEnds DEF Exit
<1>3. CASE Load \/ StartPolling \/ StopPolling \/ Close
  BY <1>3 DEF Load, StartPolling, StopPolling, Close
<1>4. CASE LoadFails
  BY <1>4, TypeEnds DEF LoadFails
<1>5. CASE Launch
  <2>1. PICK c \in Cpus :
          /\ on' \in Seq(Cpus)
          /\ launched \in Nat /\ launched' = launched + 1
          /\ \/ /\ Len(ring[c]) < RingCap
                /\ ring' = [ring EXCEPT ![c] = Append(ring[c], launched')]
                /\ gone' = gone
             \/ ring' = ring /\ gone' = gone \cup {launched'}
    BY <1>5, LaunchIs, Zenon
  <2>0. launched' \in Nat
    BY <2>1
  <2>2. /\ ring' \in [Cpus -> Seq(Nat)]
        /\ \A d \in Cpus : Len(ring'[d]) <= RingCap
    <3>1. CASE ring' = ring
      BY <3>1
    <3>2. CASE /\ Len(ring[c]) < RingCap
               /\ ring' = [ring EXCEPT ![c] = Append(ring[c], launched')]
      <4> DEFINE q == Append(ring[c], launched')
      <4>1. q \in Seq(Nat) /\ Len(q) = Len(ring[c]) + 1 /\ Len(ring[c]) \in Nat
        BY <2>0, AppendProperties, LenProperties
      <4> HIDE DEF q
      <4>2. Len(q) <= RingCap
        BY <1>0, <3>2, <4>1
      <4>3. ring' = [ring EXCEPT ![c] = q]
        BY <3>2 DEF q
      <4> QED
        BY <4>1, <4>2, <4>3, RingType
    <3> QED
      BY <2>1, <3>1, <3>2
  <2>3. gone' \in SUBSET Nat
    BY <2>0, <2>1
  <2> QED
    BY <1>5, <2>1, <2>2, <2>3 DEF Launch
<1>6. ASSUME NEW c \in Cpus, Poll(c) PROVE TypeOK'
  <2>1. /\ ring[c] \in Seq(Nat) /\ ring[c] # <<>> /\ Len(ring[c]) <= RingCap
        /\ poller' = <<Head(ring[c])>>
        /\ ring' = [ring EXCEPT ![c] = Tail(ring[c])]
    BY <1>6 DEF Poll
  <2>2. /\ poller' \in Seq(Nat) /\ Len(poller') = 1
        /\ Tail(ring[c]) \in Seq(Nat) /\ Len(Tail(ring[c])) <= Len(ring[c])
        /\ Len(ring[c]) \in Nat /\ Len(Tail(ring[c])) \in Nat
    BY <2>1, TakeHead, LenProperties
  <2>3. Len(Tail(ring[c])) <= RingCap
    BY <1>0, <2>1, <2>2
  <2>4. /\ ring' \in [Cpus -> Seq(Nat)]
        /\ \A d \in Cpus : Len(ring'[d]) <= RingCap
    BY <2>1, <2>2, <2>3, RingType
  <2> QED
    BY <1>6, <2>2, <2>4 DEF Poll
<1>7. CASE Receive
  <2>1. poller # <<>> /\ Head(poller) \in Nat
    BY <1>7, TakeHead DEF Receive
  <2>2. relay' \in {poller, relay} /\ gone' \in {gone, gone \cup {Head(poller)}}
    BY <1>7 DEF Receive
  <2> QED
    BY <1>0, <1>7, <2>1, <2>2 DEF Receive
<1>8. CASE Send
  <2>1. /\ ebpfCh' \in Seq(Nat) /\ Len(ebpfCh') = Len(ebpfCh) + Len(relay)
        /\ Len(ebpfCh) \in Nat /\ Len(relay) \in Nat /\ Len(ebpfCh) < EbpfCap
    BY <1>8, ConcatProperties, LenProperties DEF Send
  <2>2. Len(ebpfCh') <= EbpfCap
    BY <1>0, <2>1
  <2> QED
    BY <1>0, <1>8, <2>1, <2>2 DEF Send
<1>9. CASE ReceiveEvent
  <2>1. ebpfCh # <<>> /\ served' = Append(served, Head(ebpfCh)) /\ ebpfCh' = Tail(ebpfCh)
    BY <1>9 DEF ReceiveEvent
  <2>2. /\ served' \in Seq(Nat)
        /\ ebpfCh' \in Seq(Nat) /\ Len(ebpfCh') <= Len(ebpfCh)
        /\ Len(ebpfCh) \in Nat /\ Len(ebpfCh') \in Nat
    BY <2>1, TakeHead, AppendProperties, LenProperties
  <2>3. Len(ebpfCh') <= EbpfCap
    BY <1>0, <2>2
  <2> QED
    BY <1>9, <2>2, <2>3 DEF ReceiveEvent
<1>10. CASE Tick \/ EndPass \/ StopLoop
  BY <1>10 DEF Tick, EndPass, StopLoop
<1>11. CASE UNCHANGED vars
  BY <1>11 DEF vars
<1> QED
  BY <1>1, <1>2, <1>3, <1>4, <1>5, <1>6, <1>7, <1>8, <1>9, <1>10, <1>11
     DEF Next, Main, Relay

(* Every variable has its type: the relay and gobpf's goroutine hold one   *)
(* event at most, and no channel is ever over its capacity.                *)
THEOREM TypeCorrect ==
  ASSUME WatcherAssumption
  PROVE  Spec => []TypeOK
<1>1. Init => TypeOK
  BY TypeInit
<1>2. TypeOK /\ [Next]_vars => TypeOK'
  BY TypeStep
<1> QED
  BY <1>1, <1>2, PTL DEF Spec

----------------------------------------------------------------------------
(* The invariant: what was lost was launched. *)

Inv == TypeOK /\ NoneLost /\ gone \subseteq 1 .. launched

InBuffers == UNION {Elements(ring[c]) : c \in Cpus}

(* NoneLost in terms of the operators. *)
LEMMA NoneLostIs ==
  NoneLost <=> /\ Elements(Taken) \cup InBuffers = (1 .. launched) \ gone
               /\ Ordered(Taken, on)
               /\ \A c \in Cpus : Behind(ring[c], Taken, on, c)
  BY DEF NoneLost, InBuffers, Ordered, Behind

LEMMA NoneLostNext ==
  NoneLost' <=> /\ Elements(Taken') \cup InBuffers' = (1 .. launched') \ gone'
                /\ Ordered(Taken', on')
                /\ \A c \in Cpus : Behind(ring'[c], Taken', on', c)
  BY DEF NoneLost, InBuffers, Ordered, Behind, Elements

LEMMA TakenType == TypeOK => Taken \in Seq(Nat)
<1> SUFFICES ASSUME TypeOK PROVE Taken \in Seq(Nat)
  OBVIOUS
<1>1. served \o ebpfCh \in Seq(Nat)
  BY ConcatProperties DEF TypeOK
<1>2. served \o ebpfCh \o relay \in Seq(Nat)
  BY <1>1, ConcatProperties DEF TypeOK
<1> QED
  BY <1>2, ConcatProperties DEF TypeOK, Taken

(* Nothing is anywhere when nothing was launched. *)
LEMMA NoneLostAtFirst ==
  ASSUME Taken = <<>>, ring = [c \in Cpus |-> <<>>], on = <<>>, gone = {}
  PROVE  NoneLost
<1>1. Elements(<<>>) = {}
  BY DEF Elements
<1>2. \A c \in Cpus : ring[c] = <<>>
  OBVIOUS
<1>3. InBuffers = {}
  BY <1>1, <1>2 DEF InBuffers
<1>4. 1 .. launched = {}
  BY DEF launched
<1>5. Ordered(Taken, on) /\ \A c \in Cpus : Behind(ring[c], Taken, on, c)
  BY <1>2 DEF Ordered, Behind
<1> QED
  BY <1>1, <1>3, <1>4, <1>5, NoneLostIs

LEMMA InvInit == WatcherAssumption /\ Init => Inv
<1> SUFFICES ASSUME WatcherAssumption, Init PROVE Inv
  OBVIOUS
<1>1. TypeOK
  BY TypeInit
<1>2. Taken = <<>>
  BY DEF Init, Taken
<1>3. NoneLost
  BY <1>2, NoneLostAtFirst DEF Init
<1> QED
  BY <1>1, <1>3 DEF Init, Inv

(* A step that only hands events on keeps the invariant. *)
LEMMA HandsOn ==
  ASSUME Inv, TypeOK', Taken' = Taken, UNCHANGED <<ring, on, gone>>
  PROVE  Inv'
<1>1. launched' = launched /\ InBuffers' = InBuffers
  BY DEF launched, InBuffers, Elements
<1>2. NoneLost'
  BY <1>1, NoneLostIs, NoneLostNext DEF Inv
<1> QED
  BY <1>1, <1>2 DEF Inv

(* The step of a process that ends. *)
LEMMA InvEnds ==
  ASSUME Ends, TypeOK'
  PROVE  Inv'
<1>1. /\ Taken' = <<>> /\ ring' = [c \in Cpus |-> <<>>]
      /\ on' = <<>> /\ gone' = {}
  BY DEF Ends, Taken
<1>2. Elements(<<>>) = {}
  BY DEF Elements
<1>3. \A c \in Cpus : ring'[c] = <<>>
  BY <1>1
<1>4. InBuffers' = {}
  BY <1>2, <1>3 DEF InBuffers, Elements
<1>5. 1 .. launched' = {}
  BY <1>1 DEF launched
<1>6. Ordered(Taken', on') /\ \A c \in Cpus : Behind(ring'[c], Taken', on', c)
  BY <1>1, <1>3 DEF Ordered, Behind
<1>7. NoneLost'
  BY <1>1, <1>2, <1>4, <1>5, <1>6, NoneLostNext
<1> QED
  BY <1>1, <1>7 DEF Inv

(* A launch is the newest event, or it is gone. *)
LEMMA InvLaunch ==
  ASSUME Inv, Launch, TypeOK'
  PROVE  Inv'
<1> DEFINE n == launched'
<1>0. TypeOK /\ Taken \in Seq(Nat)
  BY TakenType DEF Inv
<1>1. PICK c \in Cpus :
        /\ launched \in Nat /\ n = launched + 1
        /\ \A x \in 1 .. launched : on'[x] = on[x]
        /\ on'[n] = c
        /\ \/ /\ Len(ring[c]) < RingCap
              /\ ring' = [ring EXCEPT ![c] = Append(ring[c], n)]
              /\ gone' = gone
           \/ ring' = ring /\ gone' = gone \cup {n}
        /\ UNCHANGED <<poller, relay, ebpfCh, served>>
  BY <1>0, LaunchIs
<1>2. Taken' = Taken
  BY <1>1 DEF Taken
<1>3. /\ Elements(Taken) \cup InBuffers = (1 .. launched) \ gone
      /\ Ordered(Taken, on)
      /\ \A d \in Cpus : Behind(ring[d], Taken, on, d)
      /\ gone \subseteq 1 .. launched
  BY NoneLostIs DEF Inv
<1> HIDE DEF n
<1>4. \A d \in Cpus : \A x \in Elements(Taken) \cup Elements(ring[d]) :
        x \in 1 .. launched
  BY <1>3 DEF InBuffers
<1>5. Ordered(Taken, on')
  BY <1>1, <1>3, <1>4, Agree
<1>6. \A d \in Cpus : Behind(ring[d], Taken, on', d)
  <2> SUFFICES ASSUME NEW d \in Cpus PROVE Behind(ring[d], Taken, on', d)
    OBVIOUS
  <2>1. \A x \in Elements(Taken) \cup Elements(ring[d]) : on[x] = on'[x]
    BY <1>1, <1>4
  <2> QED
    BY <1>3, <2>1, Agree
<1>7. 1 .. n = (1 .. launched) \cup {n} /\ n \notin 1 .. launched /\ n \in Nat
  BY <1>1
<1>8. CASE /\ Len(ring[c]) < RingCap
           /\ ring' = [ring EXCEPT ![c] = Append(ring[c], n)]
           /\ gone' = gone
  <2>1. /\ ring[c] \in Seq(Nat) /\ ring'[c] = Append(ring[c], n)
        /\ \A d \in Cpus \ {c} : ring'[d] = ring[d]
    BY <1>0, <1>8 DEF TypeOK
  <2>2. Elements(ring'[c]) = Elements(ring[c]) \cup {n}
    BY <1>7, <2>1, AppendIs
  <2>3. InBuffers' = InBuffers \cup {n}
    <3>1. InBuffers' = UNION {Elements(ring'[d]) : d \in Cpus}
      BY DEF InBuffers, Elements
    <3>2. \A d \in Cpus : /\ Elements(ring'[d]) \subseteq Elements(ring[d]) \cup {n}
                          /\ Elements(ring[d]) \subseteq Elements(ring'[d])
      BY <2>1, <2>2
    <3>3. n \in Elements(ring'[c])
      BY <2>2
    <3>4. InBuffers' \subseteq InBuffers \cup {n}
      BY <3>1, <3>2, Zenon DEF InBuffers
    <3>5. InBuffers \subseteq InBuffers'
      BY <3>1, <3>2, Zenon DEF InBuffers
    <3>6. n \in InBuffers'
      BY <3>1, <3>3
    <3> QED
      BY <3>4, <3>5, <3>6, Zenon
  <2>4. Behind(ring'[c], Taken, on', c)
    <3>1. \A x \in Elements(Taken) \cup Elements(ring[c]) : x < n
      BY <1>1, <1>4
    <3>2. Behind(ring[c], Taken, on', c) /\ on'[n] = c
      BY <1>1, <1>6
    <3>3. Behind(Append(ring[c], n), Taken, on', c)
      BY <1>0, <1>7, <2>1, <3>1, <3>2, NewestBehind, Zenon
    <3> QED
      BY <2>1, <3>3
  <2>5. \A d \in Cpus : Behind(ring'[d], Taken, on', d)
    BY <1>6, <2>1, <2>4
  <2>6. Elements(Taken) \cup InBuffers' = (1 .. n) \ gone' /\ gone' \subseteq 1 .. n
    BY <1>3, <1>7, <1>8, <2>3
  <2>7. NoneLost'
    BY <1>2, <1>5, <2>5, <2>6, NoneLostNext DEF n
  <2> QED
    BY <2>6, <2>7 DEF Inv, n
<1>9. CASE ring' = ring /\ gone' = gone \cup {n}
  <2>1. InBuffers' = InBuffers
    BY <1>9 DEF InBuffers, Elements
  <2>2. Elements(Taken) \cup InBuffers' = (1 .. n) \ gone' /\ gone' \subseteq 1 .. n
    BY <1>3, <1>7, <1>9, <2>1
  <2>3. NoneLost'
    BY <1>2, <1>5, <1>6, <1>9, <2>2, NoneLostNext DEF n
  <2> QED
    BY <2>2, <2>3 DEF Inv, n
<1> QED
  BY <1>1, <1>8, <1>9

(* The first event of a buffer comes after all of its CPU that were taken. *)
LEMMA InvPoll ==
  ASSUME Inv, NEW c \in Cpus, Poll(c), TypeOK'
  PROVE  Inv'
<1> DEFINE h == Head(ring[c])
<1>1. /\ TypeOK /\ Taken \in Seq(Nat)
      /\ ring \in [Cpus -> Seq(Nat)] /\ ring[c] \in Seq(Nat) /\ ring[c] # <<>>
      /\ poller = <<>> /\ poller' = <<h>>
      /\ ring' = [ring EXCEPT ![c] = Tail(ring[c])]
      /\ UNCHANGED <<served, ebpfCh, relay, on, gone>>
  BY TakenType DEF Inv, TypeOK, Poll
<1>2. /\ Elements(Taken) \cup InBuffers = (1 .. launched) \ gone
      /\ Ordered(Taken, on)
      /\ \A d \in Cpus : Behind(ring[d], Taken, on, d)
  BY NoneLostIs DEF Inv
<1>3. /\ ring'[c] = Tail(ring[c]) /\ h \in Nat
      /\ \A d \in Cpus \ {c} : ring'[d] = ring[d]
      /\ Elements(ring[c]) = {h} \cup Elements(ring'[c])
  <2>1. ring'[c] = Tail(ring[c]) /\ \A d \in Cpus \ {c} : ring'[d] = ring[d]
    BY <1>1
  <2> QED
    BY <1>1, <2>1, TailIs
<1>4. Taken' = Append(Taken, h)
  <2> DEFINE a == served \o ebpfCh \o relay
  <2>1. a \in Seq(Nat)
    <3>1. served \o ebpfCh \in Seq(Nat)
      BY <1>1, ConcatProperties DEF TypeOK
    <3> QED
      BY <1>1, <3>1, ConcatProperties DEF TypeOK
  <2>2. Taken = a \o <<>> /\ Taken' = a \o <<h>>
    BY <1>1 DEF Taken
  <2> HIDE DEF a
  <2>3. a \o <<>> = a /\ a \o <<h>> = Append(a, h)
    BY <1>3, <2>1, ConcatEmptySeq, AppendIsConcat
  <2> QED
    BY <2>2, <2>3
<1> HIDE DEF h
<1>5. /\ on[h] = c
      /\ \A x \in Elements(Taken) : on[x] = c => x < h
      /\ Behind(ring'[c], Append(Taken, h), on, c)
  BY <1>1, <1>2, <1>3, HeadBehind DEF h
<1>6. Ordered(Taken', on')
  BY <1>1, <1>2, <1>3, <1>4, <1>5, AppendOrdered
<1>7. \A d \in Cpus : Behind(ring'[d], Taken', on', d)
  <2> SUFFICES ASSUME NEW d \in Cpus, d # c
               PROVE  Behind(ring[d], Append(Taken, h), on, d)
    BY <1>1, <1>3, <1>4, <1>5
  <2> QED
    BY <1>1, <1>2, <1>3, <1>5, OtherBehind
<1>8. Elements(Taken') \cup InBuffers' = Elements(Taken) \cup InBuffers
  <2>1. Elements(Taken') = Elements(Taken) \cup {h}
    BY <1>1, <1>3, <1>4, AppendIs
  <2>2. InBuffers' = UNION {Elements(ring'[d]) : d \in Cpus}
    BY DEF InBuffers, Elements
  <2>3. \A d \in Cpus : /\ Elements(ring'[d]) \subseteq Elements(ring[d])
                        /\ Elements(ring[d]) \subseteq Elements(ring'[d]) \cup {h}
    BY <1>3
  <2>4. h \in Elements(ring[c])
    BY <1>3
  <2> QED
    BY <2>1, <2>2, <2>3, <2>4 DEF InBuffers
<1>9. launched' = launched
  BY <1>1 DEF launched
<1>10. NoneLost'
  BY <1>1, <1>2, <1>6, <1>7, <1>8, <1>9, NoneLostNext
<1> QED
  BY <1>1, <1>9, <1>10 DEF Inv

(* The event is handed over, or it was the last one taken and is gone. *)
LEMMA InvReceive ==
  ASSUME Inv, Receive, TypeOK'
  PROVE  Inv'
<1> DEFINE a == served \o ebpfCh
           d == Head(poller)
<1>1. /\ a \in Seq(Nat) /\ poller \in Seq(Nat) /\ d \in Nat
      /\ poller # <<>> /\ relay = <<>> /\ <<d>> = poller
      /\ poller' = <<>> /\ UNCHANGED <<served, ebpfCh, ring, on>>
  BY ConcatProperties, TakeHead, Single DEF Inv, TypeOK, Receive
<1>2. launched' = launched /\ InBuffers' = InBuffers
  BY <1>1 DEF launched, InBuffers, Elements
<1>3. Taken = (a \o <<>>) \o poller /\ Taken' = (a \o relay') \o <<>>
  BY <1>1 DEF Taken
<1> HIDE DEF a, d
<1>4. a \o <<>> = a /\ a \o poller \in Seq(Nat) /\ (a \o poller) \o <<>> = a \o poller
  BY <1>1, ConcatEmptySeq, ConcatProperties
<1>5. CASE relay' = poller /\ UNCHANGED gone
  <2>1. Taken' = Taken
    BY <1>3, <1>4, <1>5
  <2> QED
    BY <1>1, <1>5, <2>1, HandsOn
<1>6. CASE gone' = gone \cup {d} /\ UNCHANGED relay
  <2>1. Taken = Append(a, d) /\ Taken' = a
    BY <1>1, <1>3, <1>4, <1>6, AppendIsConcat
  <2>2. /\ Elements(Taken) \cup InBuffers = (1 .. launched) \ gone
        /\ Ordered(Append(a, d), on)
        /\ \A c \in Cpus : Behind(ring[c], Append(a, d), on, c)
        /\ gone \subseteq 1 .. launched
    BY <2>1, NoneLostIs DEF Inv
  <2>3. /\ Ordered(a, on)
        /\ d \notin Elements(a) /\ Elements(Append(a, d)) = Elements(a) \cup {d}
    BY <1>1, <2>2, LastOnce
  <2>4. \A c \in Cpus : Behind(ring[c], a, on, c) /\ d \notin Elements(ring[c])
    BY <1>1, <2>2, LastOnce
  <2>5. d \notin InBuffers
    BY <2>4 DEF InBuffers
  <2>6. /\ Elements(Taken') \cup InBuffers' = (1 .. launched') \ gone'
        /\ gone' \subseteq 1 .. launched'
    BY <1>2, <1>6, <2>1, <2>2, <2>3, <2>5, Zenon
  <2>7. NoneLost'
    BY <1>1, <2>1, <2>3, <2>4, <2>6, NoneLostNext
  <2> QED
    BY <2>6, <2>7 DEF Inv
<1> QED
  BY <1>5, <1>6 DEF Receive, d

LEMMA InvSend ==
  ASSUME Inv, Send, TypeOK'
  PROVE  Inv'
<1>0. served \in Seq(Nat) /\ ebpfCh \in Seq(Nat) /\ relay \in Seq(Nat)
  BY DEF Inv, TypeOK
<1>1. /\ ebpfCh' = ebpfCh \o relay /\ relay' = <<>>
      /\ ebpfCh' \in Seq(Nat)
  BY DEF TypeOK, Send
<1>2. (served \o ebpfCh) \o relay = served \o (ebpfCh \o relay)
  BY <1>0, Associative, ZenonT(60)
<1>3. served \o ebpfCh' \in Seq(Nat)
  BY <1>0, <1>1, ConcatProperties
<1>4. (served \o ebpfCh') \o <<>> = served \o ebpfCh'
  BY <1>3, ConcatEmptySeq
<1>5. /\ Taken = ((served \o ebpfCh) \o relay) \o poller
      /\ Taken' = ((served \o ebpfCh') \o <<>>) \o poller
  BY <1>1 DEF Taken, Send
<1>6. Taken' = Taken
  BY <1>1, <1>2, <1>4, <1>5
<1> QED
  BY <1>6, HandsOn DEF Send

LEMMA InvReceiveEvent ==
  ASSUME Inv, ReceiveEvent, TypeOK'
  PROVE  Inv'
<1>1. /\ served \in Seq(Nat) /\ ebpfCh \in Seq(Nat) /\ ebpfCh # <<>>
      /\ served' = Append(served, Head(ebpfCh)) /\ ebpfCh' = Tail(ebpfCh)
      /\ Head(ebpfCh) \in Nat
  BY TakeHead DEF Inv, TypeOK, ReceiveEvent
<1>2. Append(served, Head(ebpfCh)) = served \o <<Head(ebpfCh)>>
  BY <1>1, AppendIsConcat
<1>3. served' \o ebpfCh' = served \o ebpfCh
  BY <1>1, <1>2, MoveHead
<1>4. Taken' = Taken
  BY <1>3 DEF Taken, ReceiveEvent
<1> QED
  BY <1>4, HandsOn DEF ReceiveEvent

LEMMA InvStep == WatcherAssumption /\ Inv /\ [Next]_vars => Inv'
<1> SUFFICES ASSUME WatcherAssumption, Inv, [Next]_vars
             PROVE  Inv'
  OBVIOUS
<1>0. TypeOK'
  BY TypeStep DEF Inv
<1>1. CASE Exit \/ LoadFails
  BY <1>0, <1>1, InvEnds DEF Exit, LoadFails
<1>2. CASE Launch
  BY <1>0, <1>2, InvLaunch
<1>3. CASE Relay
  BY <1>0, <1>3, InvPoll, InvReceive, InvSend DEF Relay
<1>4. CASE ReceiveEvent
  BY <1>0, <1>4, InvReceiveEvent
<1>5. CASE \/ Signal \/ Load \/ StartPolling \/ StopPolling \/ Close
           \/ Tick \/ EndPass \/ StopLoop \/ UNCHANGED vars
  <2>1. UNCHANGED <<pipe, served, on, gone>>
    BY <1>5 DEF Signal, Load, StartPolling, StopPolling, Close, Tick, EndPass,
                StopLoop, vars, pipe
  <2>2. Taken' = Taken /\ UNCHANGED ring
    BY <2>1 DEF Taken, pipe
  <2> QED
    BY <1>0, <2>1, <2>2, HandsOn
<1> QED
  BY <1>1, <1>2, <1>3, <1>4, <1>5 DEF Next, Main

(* No launch that had room in its buffer and could be decoded is lost or   *)
(* doubled on its way to Run, or overtaken by a later one of its CPU, for  *)
(* any number of CPUs and every size of the buffers and the channel,       *)
(* stopped or not.                                                         *)
THEOREM NoneLostCorrect ==
  ASSUME WatcherAssumption
  PROVE  Spec => []NoneLost
<1>1. Init => Inv
  BY InvInit
<1>2. Inv /\ [Next]_vars => Inv'
  BY InvStep
<1>3. Inv => NoneLost
  BY DEF Inv
<1> QED
  BY <1>1, <1>2, <1>3, PTL DEF Spec

=============================================================================
