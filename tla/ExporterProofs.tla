--------------------------- MODULE ExporterProofs ---------------------------
(***************************************************************************)
(* What holds of Exporter for every number of pods, scrapes and vectors.   *)
(***************************************************************************)
EXTENDS Exporter, TLAPS

----------------------------------------------------------------------------
(* The invariant. *)

(* What a series of the vectors must be while the pods in T are still to   *)
(* be added to it, if those in k were tracked all the while and no others  *)
(* than those in n at any time.                                            *)
Counted(k, n, series, T) ==
  \A p \in Pods :
    /\ p \in k => series[p] = IF p \in T THEN 0 ELSE 1
    /\ p \notin n => series[p] = 0

Alone(s) == Busy(s) /\ overlap[s] = {}

(* What a scrape knows of the map, and where its loops begin. *)
Known(s) ==
  /\ Busy(s) => kept[s] \subseteq tracked /\ tracked \subseteq seen[s]
  /\ at[s] \in {"range", "add"} => todo[s] \cup cur[s] \subseteq seen[s]
  /\ at[s] \in {"idle", "range", "done"} => step[s] = 1
  /\ at[s] = "add" => \E q \in Pods : cur[s] = {q}

(* A scrape that no other overlapped is the only one. *)
Sole(s) == Alone(s) => \A t \in Scrapers : t # s => at[t] = "idle"

(* How far it has come with the vectors. *)
Progress(s) ==
  /\ at[s] = "reset" => \A v \in 1 .. Vectors : v < step[s] => vec[v] = Empty
  /\ at[s] = "range" => \A v \in 1 .. Vectors : Counted(kept[s], seen[s], vec[v], todo[s])
  /\ at[s] = "add" =>
       /\ cur[s] \cap kept[s] \cap todo[s] = {}
       /\ \A v \in 1 .. Vectors :
            Counted(kept[s], seen[s], vec[v], IF v < step[s] THEN todo[s] ELSE todo[s] \cup cur[s])
  /\ at[s] = "emit" => \A v \in 1 .. Vectors :
       Counted(kept[s], seen[s], vec[v], {}) /\ (v < step[s] => Counted(kept[s], seen[s], report[s][v], {}))
  /\ at[s] = "done" => \A v \in 1 .. Vectors : Counted(kept[s], seen[s], report[s][v], {})

Inv ==
  /\ TypeOK
  /\ \A s \in Scrapers : Known(s) /\ Sole(s)
  /\ \A s \in Scrapers : Alone(s) => Progress(s)

----------------------------------------------------------------------------
(* Types. *)

LEMMA NothingHeld ==
  /\ Blank \in [1 .. Vectors -> [Pods -> Nat]]
  /\ ForEach(Blank) \in [Scrapers -> [1 .. Vectors -> [Pods -> Nat]]]
  /\ ForEach("idle") \in [Scrapers -> Places]
  /\ ForEach(1) \in [Scrapers -> 1 .. Vectors]
  /\ ForEach({}) \in [Scrapers -> SUBSET Pods]
  /\ ForEach({}) \in [Scrapers -> SUBSET Scrapers]
  /\ 0 \in 0 .. MaxWrites
  BY ExporterAssumption DEF Blank, Empty, ForEach, Places

LEMMA TypeInit == Init => TypeOK
<1> SUFFICES ASSUME Init PROVE TypeOK
  OBVIOUS
<1>1. \A s \in Scrapers : (cur[s] # {}) = (at[s] = "add")
  BY DEF Init, ForEach
<1>2. RegisteredAlone
  BY DEF Init, ForEach, RegisteredAlone, Busy
<1> QED
  BY <1>1, <1>2, NothingHeld DEF Init, TypeOK

(* A process that ended holds nothing. *)
LEMMA TypeEnds ==
  ASSUME NEW how \in {"crashed", "exited"}, Ends(how)
  PROVE  TypeOK'
<1>1. \A s \in Scrapers : (cur'[s] # {}) = (at'[s] = "add")
  BY DEF Ends, ForEach
<1>2. proc' \in {"crashed", "exited"}
  BY DEF Ends
<1>3. RegisteredAlone'
  BY DEF Ends, ForEach, RegisteredAlone, Busy
<1> QED
  BY <1>1, <1>2, <1>3, NothingHeld DEF Ends, TypeOK

(* The steps of the loops over the vectors. *)
LEMMA EachVectorType ==
  ASSUME TypeOK, NEW s \in Scrapers, NEW here \in Places, NEW next \in Places,
         EachVector(s, here, next)
  PROVE  /\ at' \in [Scrapers -> Places]
         /\ at'[s] \in {here, next}
         /\ step' \in [Scrapers -> 1 .. Vectors]
  BY ExporterAssumption DEF EachVector, Go, TypeOK

(* Until the server is started a second Collect does not begin. *)
LEMMA RegisteredAloneStep ==
  ASSUME TypeOK, [Next]_vars
  PROVE  RegisteredAlone'
<1> USE DEF RegisteredAlone, Busy
<1>0. RegisteredAlone /\ at \in [Scrapers -> Places]
  BY DEF TypeOK
<1>1. CASE BeginWrite \/ EndWrite \/ UNCHANGED vars
  BY <1>0, <1>1 DEF BeginWrite, EndWrite, vars
<1>2. ASSUME NEW s \in Scrapers, Begin(s) PROVE RegisteredAlone'
  <2>1. /\ serving \/ \A t \in Scrapers : at[t] = "idle"
        /\ serving' = serving /\ at' = [at EXCEPT ![s] = "reset"]
    BY <1>2 DEF Begin, Go
  <2> QED
    BY <1>0, <2>1
<1>3. ASSUME NEW s \in Scrapers, Collect(s), ~Answer(s) PROVE RegisteredAlone'
  <2>1. /\ serving' = serving /\ at[s] # "idle"
        /\ \A t \in Scrapers : t # s => at'[t] = at[t]
    BY <1>0, <1>3 DEF Collect, Reset, NextPod, Add, EndRange, Emit, EachVector, Go
  <2> QED
    BY <1>0, <2>1
<1>4. ASSUME NEW s \in Scrapers, Answer(s) PROVE RegisteredAlone'
  BY <1>4 DEF Answer
<1>5. CASE MapFault \/ Exit
  BY <1>5 DEF MapFault, Exit, Ends, ForEach
<1> QED
  BY <1>1, <1>2, <1>3, <1>4, <1>5 DEF Next

LEMMA TypeStep == TypeOK /\ [Next]_vars => TypeOK'
<1> SUFFICES ASSUME TypeOK, [Next]_vars PROVE TypeOK'
  OBVIOUS
<1> USE DEF monitor, history
<1>0. RegisteredAlone'
  BY RegisteredAloneStep
<1>1. CASE BeginWrite
  <2>1. writing' \in BOOLEAN /\ writes' \in 0 .. MaxWrites
    BY <1>1, ExporterAssumption DEF BeginWrite, TypeOK
  <2>2. UNCHANGED <<proc, serving, tracked, vec, at, step, todo, cur, report, history>>
    BY <1>1 DEF BeginWrite
  <2> QED
    BY <1>0, <2>1, <2>2 DEF TypeOK
<1>2. CASE EndWrite
  <2>1. /\ UNCHANGED <<proc, serving, writes, vec, at, step, cur, report, overlap>>
        /\ writing' = FALSE
    BY <1>2 DEF EndWrite
  <2>2. PICK p \in Pods : Store(p) \/ (p \in tracked /\ Delete(p))
    BY <1>2 DEF EndWrite
  <2>3. CASE Store(p)
    <3>1. /\ tracked' \in SUBSET Pods
          /\ seen' \in [Scrapers -> SUBSET Pods]
          /\ kept' = kept
      BY <2>3 DEF Store, TypeOK
    <3>2. \/ todo' = todo
          \/ \E S : todo' = [t \in Scrapers |-> IF t \in S THEN todo[t] \cup {p} ELSE todo[t]]
      BY <2>3 DEF Store
    <3>3. ASSUME NEW S, todo' = [t \in Scrapers |-> IF t \in S THEN todo[t] \cup {p} ELSE todo[t]]
          PROVE  todo' \in [Scrapers -> SUBSET Pods]
      BY <3>3 DEF TypeOK
    <3>4. todo' \in [Scrapers -> SUBSET Pods]
      BY <3>2, <3>3 DEF TypeOK
    <3> QED
      BY <1>0, <2>1, <3>1, <3>4 DEF TypeOK
  <2>4. CASE Delete(p)
    <3>1. /\ tracked' \in SUBSET Pods
          /\ kept' \in [Scrapers -> SUBSET Pods]
          /\ todo' = todo /\ seen' = seen
      BY <2>4 DEF Delete, TypeOK
    <3> QED
      BY <1>0, <2>1, <3>1 DEF TypeOK
  <2> QED
    BY <2>2, <2>3, <2>4
<1>3. ASSUME NEW s \in Scrapers, Begin(s) PROVE TypeOK'
  <2>1. /\ overlap' \in [Scrapers -> SUBSET Scrapers]
        /\ at' = [at EXCEPT ![s] = "reset"] /\ at[s] = "idle"
    BY <1>3 DEF Begin, Go, TypeOK
  <2>2. /\ kept' \in [Scrapers -> SUBSET Pods] /\ seen' \in [Scrapers -> SUBSET Pods]
        /\ UNCHANGED <<proc, serving, monitor, vec, step, todo, cur, report>>
    BY <1>3 DEF Begin, TypeOK
  <2> QED
    BY <1>0, <2>1, <2>2 DEF TypeOK, Places
<1>4. ASSUME NEW s \in Scrapers, Reset(s) PROVE TypeOK'
  <2>1. /\ at' \in [Scrapers -> Places] /\ step' \in [Scrapers -> 1 .. Vectors]
        /\ at[s] = "reset" /\ at'[s] \in {"reset", "range"}
        /\ \A t \in Scrapers : t # s => at'[t] = at[t]
    BY <1>4, EachVectorType DEF Reset, EachVector, Go, TypeOK, Places
  <2>2. /\ vec' \in [1 .. Vectors -> [Pods -> Nat]]
        /\ todo' \in [Scrapers -> SUBSET Pods]
        /\ UNCHANGED <<proc, serving, monitor, cur, report, history>>
    BY <1>4 DEF Reset, TypeOK, Empty
  <2> QED
    BY <1>0, <2>1, <2>2 DEF TypeOK
<1>5. ASSUME NEW s \in Scrapers, NextPod(s) PROVE TypeOK'
  <2>1. /\ at' \in [Scrapers -> Places] /\ at'[s] = "add" /\ at[s] = "range"
        /\ \A t \in Scrapers : t # s => at'[t] = at[t]
    BY <1>5 DEF NextPod, Go, TypeOK, Places
  <2>2. PICK p \in todo[s] \cap tracked :
          cur' = [cur EXCEPT ![s] = {p}] /\ todo' = [todo EXCEPT ![s] = @ \ {p}]
    BY <1>5 DEF NextPod
  <2>3. /\ cur' \in [Scrapers -> SUBSET Pods] /\ todo' \in [Scrapers -> SUBSET Pods]
        /\ \A t \in Scrapers : (cur'[t] # {}) = (at'[t] = "add")
    BY <2>1, <2>2 DEF TypeOK
  <2>4. UNCHANGED <<proc, serving, monitor, vec, step, report, history>>
    BY <1>5 DEF NextPod
  <2> QED
    BY <1>0, <2>1, <2>3, <2>4 DEF TypeOK
<1>6. ASSUME NEW s \in Scrapers, Add(s) PROVE TypeOK'
  <2>1. /\ at' \in [Scrapers -> Places] /\ step' \in [Scrapers -> 1 .. Vectors]
        /\ at[s] = "add" /\ at'[s] = IF step[s] < Vectors THEN "add" ELSE "range"
        /\ \A t \in Scrapers : t # s => at'[t] = at[t]
    BY <1>6, EachVectorType DEF Add, EachVector, Go, TypeOK, Places
  <2>2. PICK p \in cur[s] : vec' = [vec EXCEPT ![step[s]][p] = @ + 1]
    BY <1>6 DEF Add
  <2>3. vec' \in [1 .. Vectors -> [Pods -> Nat]]
    BY <2>2 DEF TypeOK
  <2>4. /\ cur' = [cur EXCEPT ![s] = IF step[s] = Vectors THEN {} ELSE @]
        /\ UNCHANGED <<proc, serving, monitor, todo, report, history>>
    BY <1>6 DEF Add
  <2>5. (step[s] = Vectors) <=> ~(step[s] < Vectors)
    BY ExporterAssumption DEF TypeOK
  <2>6. /\ cur' \in [Scrapers -> SUBSET Pods]
        /\ \A t \in Scrapers : t # s => cur'[t] = cur[t]
        /\ cur'[s] = IF step[s] < Vectors THEN cur[s] ELSE {}
    BY <2>4, <2>5 DEF TypeOK
  <2>7. \A t \in Scrapers : (cur'[t] # {}) = (at'[t] = "add")
    <3> SUFFICES ASSUME NEW t \in Scrapers
                 PROVE  (cur'[t] # {}) = (at'[t] = "add")
      OBVIOUS
    <3>1. CASE t # s
      BY <3>1, <2>1, <2>6 DEF TypeOK
    <3>2. CASE t = s /\ step[s] < Vectors
      BY <3>2, <2>1, <2>2, <2>6
    <3>3. CASE t = s /\ ~(step[s] < Vectors)
      BY <3>3, <2>1, <2>6
    <3> QED
      BY <3>1, <3>2, <3>3
  <2> QED
    BY <1>0, <2>1, <2>3, <2>4, <2>6, <2>7 DEF TypeOK
<1>7. ASSUME NEW s \in Scrapers, EndRange(s) PROVE TypeOK'
  BY <1>0, <1>7 DEF EndRange, Go, TypeOK, Places
<1>8. ASSUME NEW s \in Scrapers, Emit(s) PROVE TypeOK'
  <2>1. /\ at' \in [Scrapers -> Places] /\ step' \in [Scrapers -> 1 .. Vectors]
        /\ at[s] = "emit" /\ at'[s] \in {"emit", "done"}
        /\ \A t \in Scrapers : t # s => at'[t] = at[t]
    BY <1>8, EachVectorType DEF Emit, EachVector, Go, TypeOK, Places
  <2>2. /\ report' \in [Scrapers -> [1 .. Vectors -> [Pods -> Nat]]]
        /\ UNCHANGED <<proc, serving, monitor, vec, todo, cur, history>>
    BY <1>8 DEF Emit, TypeOK
  <2> QED
    BY <1>0, <2>1, <2>2 DEF TypeOK
<1>9. ASSUME NEW s \in Scrapers, Answer(s) PROVE TypeOK'
  <2>1. Blank \in [1 .. Vectors -> [Pods -> Nat]]
    BY DEF Blank, Empty
  <2> QED
    BY <1>0, <1>9, <2>1 DEF Answer, Go, TypeOK, Places
<1>10. CASE MapFault \/ Exit
  BY <1>10, TypeEnds DEF MapFault, Exit
<1>11. CASE UNCHANGED vars
  BY <1>0, <1>11 DEF vars, TypeOK
<1> QED
  BY <1>1, <1>2, <1>3, <1>4, <1>5, <1>6, <1>7, <1>8, <1>9, <1>10, <1>11 DEF Next, Collect

(* Every variable has its type, a scrape has fetched a pod exactly while   *)
(* it adds it to the vectors, and the Collect of the registration runs by  *)
(* itself, for any number of scrapes.                                      *)
THEOREM TypeCorrect == Spec => []TypeOK
  BY TypeInit, TypeStep, PTL DEF Spec

----------------------------------------------------------------------------
(* The monitor's steps. *)

LEMMA InvInit == Init => Inv
<1> SUFFICES ASSUME Init PROVE Inv
  OBVIOUS
<1>1. \A s \in Scrapers : at[s] = "idle" /\ step[s] = 1
  BY DEF Init, ForEach
<1> QED
  BY <1>1, TypeInit DEF Inv, Known, Sole, Alone, Busy

(* When fewer pods were there all the while, and more at some time, then a *)
(* series that was right still is.                                         *)
LEMMA CountedStays ==
  ASSUME NEW k, NEW l, NEW n, NEW m, NEW series, NEW T, NEW U,
         l \subseteq k, n \subseteq m, \A p \in l : p \in T <=> p \in U,
         Counted(k, n, series, T)
  PROVE  Counted(l, m, series, U)
<1> SUFFICES ASSUME NEW p \in Pods
             PROVE  /\ p \in l => series[p] = IF p \in U THEN 0 ELSE 1
                    /\ p \notin m => series[p] = 0
  BY DEF Counted
<1>1. /\ p \in k => series[p] = IF p \in T THEN 0 ELSE 1
      /\ p \notin n => series[p] = 0
  BY Zenon DEF Counted
<1>2. CASE p \in l
  <2>1. p \in k /\ (p \in T <=> p \in U)
    BY <1>2
  <2> QED
    BY <1>1, <2>1, <1>2
<1>3. CASE p \notin l
  BY <1>1, <1>3
<1> QED
  BY <1>2, <1>3

(* A write of the map changes what scrapes know, never what they did.      *)
LEMMA InvWrite ==
  ASSUME Inv, TypeOK', NEW p \in Pods, Store(p) \/ (p \in tracked /\ Delete(p)),
         UNCHANGED <<vec, at, step, cur, report, overlap>>
  PROVE  Inv'
<1>1. ASSUME NEW s \in Scrapers, Busy(s)
      PROVE  /\ kept'[s] \subseteq kept[s] /\ kept'[s] \subseteq tracked'
             /\ seen[s] \subseteq seen'[s] /\ tracked' \subseteq seen'[s]
             /\ todo[s] \subseteq todo'[s] /\ \A q \in kept'[s] : q \in todo[s] <=> q \in todo'[s]
             /\ at[s] \in {"range", "add"} => todo'[s] \cup cur[s] \subseteq seen'[s]
  <2>1. /\ kept[s] \subseteq tracked /\ tracked \subseteq seen[s]
        /\ at[s] \in {"range", "add"} => todo[s] \cup cur[s] \subseteq seen[s]
    BY <1>1 DEF Inv, Known
  <2>2. CASE Store(p)
    <3>1. /\ tracked' = tracked \cup {p} /\ kept' = kept
          /\ seen'[s] = seen[s] \cup {p}
      BY <1>1, <2>2 DEF Store
    <3>2. CASE p \in tracked
      <4>1. todo' = todo
        BY <2>2, <3>2 DEF Store
      <4> QED
        BY <2>1, <3>1, <3>2, <4>1
    <3>3. CASE p \notin tracked
      <4>1. todo'[s] \in {todo[s], todo[s] \cup {p}}
        BY <2>2, <3>3 DEF Store
      <4> QED
        BY <2>1, <3>1, <3>3, <4>1
    <3> QED
      BY <3>2, <3>3
  <2>3. CASE Delete(p)
    <3>1. /\ tracked' = tracked \ {p} /\ kept'[s] = kept[s] \ {p}
          /\ todo' = todo /\ seen' = seen
      BY <2>3 DEF Delete
    <3> QED
      BY <2>1, <3>1
  <2> QED
    BY <2>2, <2>3
<1>2. ASSUME NEW s \in Scrapers PROVE Known(s)' /\ Sole(s)'
  <2>1. Known(s) /\ Sole(s)
    BY DEF Inv
  <2>2. Busy(s)' = Busy(s)
    BY DEF Busy
  <2>3. Sole(s)'
    BY <2>1 DEF Sole, Alone, Busy
  <2>4. Known(s)'
    BY <1>1, <2>1 DEF Known, Busy
  <2> QED
    BY <2>3, <2>4
<1>3. ASSUME NEW s \in Scrapers, Alone(s)' PROVE Progress(s)'
  <2>1. Alone(s) /\ Progress(s) /\ Busy(s)
    BY <1>3 DEF Inv, Alone, Busy
  <2>2. /\ kept'[s] \subseteq kept[s] /\ seen[s] \subseteq seen'[s]
        /\ \A q \in kept'[s] : q \in todo[s] <=> q \in todo'[s]
    BY <1>1, <2>1
  <2>3. ASSUME NEW series, NEW T, NEW U, \A q \in kept'[s] : q \in T <=> q \in U,
               Counted(kept[s], seen[s], series, T)
        PROVE  Counted(kept'[s], seen'[s], series, U)
    BY <2>2, <2>3, CountedStays, Zenon
  <2>4. CASE at[s] = "reset"
    BY <2>1, <2>4 DEF Progress, Empty
  <2>5. CASE at[s] = "range"
    <3>1. ASSUME NEW v \in 1 .. Vectors PROVE Counted(kept[s], seen[s], vec[v], todo[s])'
      BY <2>1, <2>2, <2>3, <2>5 DEF Progress
    <3> QED
      BY <2>5, <3>1 DEF Progress
  <2>6. CASE at[s] = "add"
    <3>1. (cur[s] \cap kept[s] \cap todo[s] = {})'
      BY <2>1, <2>2, <2>6 DEF Progress
    <3>2. ASSUME NEW v \in 1 .. Vectors, v < step[s]
          PROVE  Counted(kept[s], seen[s], vec[v], todo[s])'
      BY <2>1, <2>2, <2>3, <2>6, <3>2 DEF Progress
    <3>3. ASSUME NEW v \in 1 .. Vectors, ~(v < step[s])
          PROVE  Counted(kept[s], seen[s], vec[v], todo[s] \cup cur[s])'
      BY <2>1, <2>2, <2>3, <2>6, <3>3 DEF Progress
    <3> QED
      BY <2>6, <3>1, <3>2, <3>3 DEF Progress
  <2>7. CASE at[s] = "emit"
    <3>1. ASSUME NEW v \in 1 .. Vectors
          PROVE  (Counted(kept[s], seen[s], vec[v], {}) /\ (v < step[s] => Counted(kept[s], seen[s], report[s][v], {})))'
      BY <2>1, <2>3, <2>7 DEF Progress
    <3> QED
      BY <2>7, <3>1 DEF Progress
  <2>8. CASE at[s] = "done"
    <3>1. ASSUME NEW v \in 1 .. Vectors PROVE Counted(kept[s], seen[s], report[s][v], {})'
      BY <2>1, <2>3, <2>8 DEF Progress
    <3> QED
      BY <2>8, <3>1 DEF Progress
  <2> QED
    BY <2>1, <2>4, <2>5, <2>6, <2>7, <2>8 DEF Inv, TypeOK, Places, Busy
<1> QED
  BY <1>2, <1>3 DEF Inv

----------------------------------------------------------------------------
(* The steps of a scrape. *)

(* A scrape changes its own part of the state only, and what it does to    *)
(* the vectors matters to others only when it overlaps them.               *)
LEMMA InvScrape ==
  ASSUME Inv, TypeOK', NEW u \in Scrapers, Busy(u),
         tracked' = tracked,
         \A s \in Scrapers : s # u =>
           /\ at'[s] = at[s] /\ step'[s] = step[s] /\ todo'[s] = todo[s]
           /\ cur'[s] = cur[s] /\ kept'[s] = kept[s] /\ seen'[s] = seen[s]
           /\ overlap'[s] = overlap[s],
         at'[u] # "idle" => overlap'[u] = overlap[u],
         Known(u)', Alone(u) /\ Alone(u)' => Progress(u)'
  PROVE  Inv'
<1>1. ASSUME NEW s \in Scrapers, s # u
      PROVE  Known(s)' /\ Sole(s)' /\ ~Alone(s)'
  <2>1. Known(s) /\ Sole(s) /\ at[u] # "idle"
    BY DEF Inv, Busy
  <2>2. ~Alone(s)'
    BY <1>1, <2>1 DEF Sole, Alone, Busy
  <2>3. Known(s)'
    BY <1>1, <2>1 DEF Known, Busy
  <2> QED
    BY <2>2, <2>3 DEF Sole
<1>2. Sole(u)' /\ (Alone(u)' => Alone(u))
  <2>1. Alone(u)' => Alone(u)
    BY DEF Alone, Busy
  <2>2. Sole(u)
    BY DEF Inv
  <2> QED
    BY <2>1, <2>2 DEF Sole
<1> QED
  BY <1>1, <1>2 DEF Inv

(* One vector after the other. *)
LEMMA EachVectorSteps ==
  ASSUME TypeOK, NEW u \in Scrapers, NEW here \in Places, NEW next \in Places,
         EachVector(u, here, next)
  PROVE  /\ at[u] = here /\ step[u] \in 1 .. Vectors
         /\ \A s \in Scrapers : s # u => at'[s] = at[s] /\ step'[s] = step[s]
         /\ \/ step[u] < Vectors /\ at'[u] = here /\ step'[u] = step[u] + 1
            \/ step[u] = Vectors /\ at'[u] = next /\ step'[u] = 1
  BY ExporterAssumption DEF EachVector, Go, TypeOK

(* The vectors up to the one whose turn it is. *)
LEMMA NextVector ==
  ASSUME NEW n \in 1 .. Vectors, NEW v \in 1 .. Vectors
  PROVE  /\ n \in Nat /\ v \in Nat /\ Vectors \in Nat
         /\ v < n + 1 <=> v < n \/ v = n
         /\ n = Vectors => v < n \/ v = n
         /\ ~(v < 1)
  BY ExporterAssumption

LEMMA InvBegin ==
  ASSUME Inv, TypeOK', NEW u \in Scrapers, Begin(u)
  PROVE  Inv'
<1>1. /\ at[u] = "idle" /\ at'[u] = "reset"
      /\ \A s \in Scrapers : s # u => at'[s] = at[s]
      /\ UNCHANGED <<tracked, vec, step, todo, cur, report>>
  BY DEF Begin, Go, Inv, TypeOK, monitor
<1>2. /\ overlap'[u] = {t \in Scrapers : Busy(t)}
      /\ \A s \in Scrapers : s # u =>
           overlap'[s] = IF Busy(s) THEN overlap[s] \cup {u} ELSE overlap[s]
  BY DEF Begin
<1>3. /\ kept'[u] = tracked /\ seen'[u] = tracked
      /\ \A s \in Scrapers : s # u => kept'[s] = kept[s] /\ seen'[s] = seen[s]
  BY DEF Begin, Inv, TypeOK
<1>4. ASSUME NEW s \in Scrapers, s # u
      PROVE  Known(s)' /\ ~Alone(s)'
  BY <1>1, <1>2, <1>3, <1>4 DEF Inv, Known, Alone, Busy
<1>5. Known(u)'
  BY <1>1, <1>3 DEF Known, Busy
<1>6. Sole(u)'
  BY <1>1, <1>2 DEF Sole, Alone, Busy
<1>7. Progress(u)'
  <2>1. step[u] = 1
    BY <1>1 DEF Inv, Known
  <2> QED
    BY <1>1, <2>1, NextVector DEF Progress
<1> QED
  BY <1>4, <1>5, <1>6, <1>7 DEF Inv, Sole

LEMMA InvReset ==
  ASSUME Inv, TypeOK', NEW u \in Scrapers, Reset(u)
  PROVE  Inv'
<1>1. /\ at[u] = "reset" /\ step[u] \in 1 .. Vectors
      /\ \A s \in Scrapers : s # u => at'[s] = at[s] /\ step'[s] = step[s]
      /\ \/ step[u] < Vectors /\ at'[u] = "reset" /\ step'[u] = step[u] + 1
         \/ step[u] = Vectors /\ at'[u] = "range" /\ step'[u] = 1
  BY EachVectorSteps DEF Reset, Inv, Places
<1>2. /\ vec' = [vec EXCEPT ![step[u]] = Empty]
      /\ todo'[u] = tracked /\ \A s \in Scrapers : s # u => todo'[s] = todo[s]
      /\ UNCHANGED <<tracked, cur, kept, seen, overlap>>
  BY DEF Reset, Inv, TypeOK, monitor, history
<1>3. Known(u) /\ Busy(u)
  BY <1>1 DEF Inv, Busy
<1>4. cur[u] = {}
  BY <1>1 DEF Inv, TypeOK
<1>5. Known(u)'
  BY <1>1, <1>2, <1>3, <1>4 DEF Known, Busy
<1>6. ASSUME Alone(u) PROVE Progress(u)'
  <2>1. \A v \in 1 .. Vectors : v < step[u] => vec[v] = Empty
    BY <1>1, <1>6 DEF Inv, Progress
  <2>2. \A v \in 1 .. Vectors : vec'[v] = IF v = step[u] THEN Empty ELSE vec[v]
    BY <1>2 DEF Inv, TypeOK
  <2>3. \A v \in 1 .. Vectors : v < step[u] \/ v = step[u] => vec'[v] = Empty
    BY <2>1, <2>2
  <2>4. CASE at'[u] = "reset"
    <3>1. \A v \in 1 .. Vectors : v < step'[u] => vec'[v] = Empty
      BY <1>1, <2>3, <2>4, NextVector
    <3> QED
      BY <2>4, <3>1 DEF Progress
  <2>5. CASE at'[u] = "range"
    <3>1. \A v \in 1 .. Vectors : vec'[v] = Empty
      BY <1>1, <2>3, <2>5, NextVector
    <3>2. kept[u] \subseteq tracked
      BY <1>3 DEF Known
    <3>3. Counted(kept[u], seen[u], Empty, tracked)
      BY <3>2 DEF Counted, Empty
    <3>4. \A v \in 1 .. Vectors : Counted(kept'[u], seen'[u], vec'[v], todo'[u])
      BY <1>2, <3>1, <3>3
    <3> QED
      BY <2>5, <3>4 DEF Progress
  <2> QED
    BY <1>1, <2>4, <2>5
<1> QED
  BY <1>1, <1>2, <1>3, <1>5, <1>6, InvScrape

LEMMA InvNextPod ==
  ASSUME Inv, TypeOK', NEW u \in Scrapers, NextPod(u)
  PROVE  Inv'
<1>1. PICK q \in todo[u] \cap tracked :
        cur' = [cur EXCEPT ![u] = {q}] /\ todo' = [todo EXCEPT ![u] = @ \ {q}]
  BY DEF NextPod
<1>2. /\ at[u] = "range" /\ at'[u] = "add"
      /\ \A s \in Scrapers : s # u => at'[s] = at[s]
      /\ UNCHANGED <<tracked, vec, step, kept, seen, overlap>>
  BY DEF NextPod, Go, Inv, TypeOK, monitor, history
<1>3. /\ q \in Pods /\ cur'[u] = {q} /\ todo'[u] = todo[u] \ {q}
      /\ \A s \in Scrapers : s # u => cur'[s] = cur[s] /\ todo'[s] = todo[s]
  BY <1>1 DEF Inv, TypeOK
<1>4. Known(u) /\ Busy(u) /\ step[u] = 1
  BY <1>2 DEF Inv, Known, Busy
<1>5. Known(u)'
  BY <1>1, <1>2, <1>3, <1>4 DEF Known, Busy
<1>6. ASSUME Alone(u) PROVE Progress(u)'
  <2>1. \A v \in 1 .. Vectors : Counted(kept[u], seen[u], vec[v], todo[u])
    BY <1>2, <1>6 DEF Inv, Progress
  <2>2. todo'[u] \cup cur'[u] = todo[u] /\ cur'[u] \cap todo'[u] = {}
    BY <1>1, <1>3
  <2>3. \A v \in 1 .. Vectors : ~(v < step'[u])
    BY <1>2, <1>4, NextVector
  <2> QED
    BY <1>2, <2>1, <2>2, <2>3 DEF Progress
<1> QED
  BY <1>2, <1>3, <1>4, <1>5, <1>6, InvScrape

LEMMA InvAdd ==
  ASSUME Inv, TypeOK', NEW u \in Scrapers, Add(u)
  PROVE  Inv'
<1>1. /\ at[u] = "add" /\ step[u] \in 1 .. Vectors
      /\ \A s \in Scrapers : s # u => at'[s] = at[s] /\ step'[s] = step[s]
      /\ \/ step[u] < Vectors /\ at'[u] = "add" /\ step'[u] = step[u] + 1
         \/ step[u] = Vectors /\ at'[u] = "range" /\ step'[u] = 1
  BY EachVectorSteps DEF Add, Inv, Places
<1>2. Known(u) /\ Busy(u)
  BY <1>1 DEF Inv, Busy
<1>3. PICK q \in Pods : cur[u] = {q}
  BY <1>1, <1>2 DEF Known
<1>4. /\ vec' = [vec EXCEPT ![step[u]][q] = @ + 1]
      /\ UNCHANGED <<tracked, todo, kept, seen, overlap>>
  BY <1>3 DEF Add, monitor, history
<1>5. /\ cur'[u] = IF step[u] = Vectors THEN {} ELSE cur[u]
      /\ \A s \in Scrapers : s # u => cur'[s] = cur[s]
  BY DEF Add, Inv, TypeOK
<1>6. Known(u)'
  <2>1. step[u] < Vectors => cur'[u] = {q}
    BY <1>1, <1>3, <1>5, NextVector
  <2> QED
    BY <1>1, <1>2, <1>3, <1>4, <1>5, <2>1 DEF Known, Busy
<1>7. ASSUME Alone(u) PROVE Progress(u)'
  <2>1. /\ q \notin kept[u] \cap todo[u]
        /\ \A v \in 1 .. Vectors :
             Counted(kept[u], seen[u], vec[v],
                     IF v < step[u] THEN todo[u] ELSE todo[u] \cup {q})
    BY <1>1, <1>3, <1>7 DEF Inv, Progress
  <2>2. q \in seen[u]
    BY <1>1, <1>2, <1>3 DEF Known
  <2>3. /\ \A v \in 1 .. Vectors : v # step[u] => vec'[v] = vec[v]
        /\ \A p \in Pods : vec'[step[u]][p] =
             IF p = q THEN vec[step[u]][p] + 1 ELSE vec[step[u]][p]
    BY <1>1, <1>4 DEF Inv, TypeOK
  <2>4. Counted(kept[u], seen[u], vec[step[u]], todo[u] \cup {q})
    <3>1. step[u] \in 1 .. Vectors /\ ~(step[u] < step[u])
      BY <1>1, ExporterAssumption DEF Inv, TypeOK
    <3> QED
      BY <2>1, <3>1, Zenon
  <2>5. Counted(kept[u], seen[u], vec'[step[u]], todo[u])
    BY <2>1, <2>2, <2>3, <2>4 DEF Counted
  <2>6. \A v \in 1 .. Vectors : v < step[u] \/ v = step[u] =>
          Counted(kept[u], seen[u], vec'[v], todo[u])
    BY <1>1, <2>1, <2>3, <2>5, NextVector
  <2>7. CASE at'[u] = "range"
    <3>1. \A v \in 1 .. Vectors : Counted(kept[u], seen[u], vec'[v], todo[u])
      BY <1>1, <2>6, <2>7, NextVector
    <3> QED
      BY <1>4, <2>7, <3>1 DEF Progress
  <2>8. CASE at'[u] = "add"
    <3>1. step'[u] = step[u] + 1 /\ cur'[u] = {q}
      BY <1>1, <1>3, <1>5, <2>8, NextVector
    <3>2. ASSUME NEW v \in 1 .. Vectors, v < step[u] + 1
          PROVE  Counted(kept[u], seen[u], vec'[v], todo[u])
      BY <1>1, <2>6, <3>2, NextVector
    <3>3. ASSUME NEW v \in 1 .. Vectors, ~(v < step[u] + 1)
          PROVE  Counted(kept[u], seen[u], vec'[v], todo[u] \cup {q})
      BY <1>1, <2>1, <2>3, <3>3, NextVector
    <3> QED
      BY <1>4, <2>1, <2>8, <3>1, <3>2, <3>3 DEF Progress
  <2> QED
    BY <1>1, <2>7, <2>8
<1> QED
  BY <1>1, <1>2, <1>4, <1>5, <1>6, <1>7, InvScrape

LEMMA InvEndRange ==
  ASSUME Inv, TypeOK', NEW u \in Scrapers, EndRange(u)
  PROVE  Inv'
<1>1. /\ at[u] = "range" /\ at'[u] = "emit"
      /\ \A s \in Scrapers : s # u => at'[s] = at[s]
      /\ todo[u] \cap tracked = {}
      /\ UNCHANGED <<tracked, vec, step, todo, cur, kept, seen, overlap, report>>
  BY DEF EndRange, Go, Inv, TypeOK, monitor, history
<1>2. Known(u) /\ Busy(u) /\ step[u] = 1 /\ kept[u] \subseteq tracked
  BY <1>1 DEF Inv, Known, Busy
<1>3. Known(u)'
  BY <1>1, <1>2 DEF Known, Busy
<1>4. ASSUME Alone(u) PROVE Progress(u)'
  <2>1. \A v \in 1 .. Vectors : Counted(kept[u], seen[u], vec[v], todo[u])
    BY <1>1, <1>4 DEF Inv, Progress
  <2>2. \A p \in kept[u] : p \in todo[u] <=> p \in {}
    BY <1>1, <1>2
  <2>3. ASSUME NEW v \in 1 .. Vectors
        PROVE  Counted(kept[u], seen[u], vec[v], {})
    <3>1. Counted(kept[u], seen[u], vec[v], todo[u])
      BY <2>1
    <3> QED
      BY <2>2, <3>1, CountedStays
  <2>4. \A v \in 1 .. Vectors : ~(v < step'[u])
    BY <1>1, <1>2, NextVector
  <2> QED
    BY <1>1, <2>3, <2>4 DEF Progress
<1> QED
  BY <1>1, <1>2, <1>3, <1>4, InvScrape

LEMMA InvEmit ==
  ASSUME Inv, TypeOK', NEW u \in Scrapers, Emit(u)
  PROVE  Inv'
<1>1. /\ at[u] = "emit" /\ step[u] \in 1 .. Vectors
      /\ \A s \in Scrapers : s # u => at'[s] = at[s] /\ step'[s] = step[s]
      /\ \/ step[u] < Vectors /\ at'[u] = "emit" /\ step'[u] = step[u] + 1
         \/ step[u] = Vectors /\ at'[u] = "done" /\ step'[u] = 1
  BY EachVectorSteps DEF Emit, Inv, Places
<1>2. /\ report' = [report EXCEPT ![u][step[u]] = vec[step[u]]]
      /\ UNCHANGED <<tracked, vec, todo, cur, kept, seen, overlap>>
  BY DEF Emit, monitor, history
<1>3. Known(u) /\ Busy(u)
  BY <1>1 DEF Inv, Busy
<1>4. Known(u)'
  BY <1>1, <1>2, <1>3 DEF Known, Busy
<1>5. ASSUME Alone(u) PROVE Progress(u)'
  <2>1. \A v \in 1 .. Vectors :
          /\ Counted(kept[u], seen[u], vec[v], {})
          /\ v < step[u] => Counted(kept[u], seen[u], report[u][v], {})
    BY <1>1, <1>5 DEF Inv, Progress
  <2>2. \A v \in 1 .. Vectors :
          report'[u][v] = IF v = step[u] THEN vec[v] ELSE report[u][v]
    BY <1>2 DEF Inv, TypeOK
  <2>3. \A v \in 1 .. Vectors : v < step[u] \/ v = step[u] =>
          Counted(kept[u], seen[u], report'[u][v], {})
    BY <2>1, <2>2
  <2>4. CASE at'[u] = "emit"
    <3>1. \A v \in 1 .. Vectors : v < step'[u] =>
            Counted(kept[u], seen[u], report'[u][v], {})
      BY <1>1, <2>3, <2>4, NextVector
    <3> QED
      BY <1>2, <2>1, <2>4, <3>1 DEF Progress
  <2>5. CASE at'[u] = "done"
    <3>1. \A v \in 1 .. Vectors : Counted(kept[u], seen[u], report'[u][v], {})
      BY <1>1, <2>3, <2>5, NextVector
    <3> QED
      BY <1>2, <2>5, <3>1 DEF Progress
  <2> QED
    BY <1>1, <2>4, <2>5
<1> QED
  BY <1>1, <1>2, <1>3, <1>4, <1>5, InvScrape

LEMMA InvAnswer ==
  ASSUME Inv, TypeOK', NEW u \in Scrapers, Answer(u)
  PROVE  Inv'
<1>1. /\ at[u] = "done" /\ at'[u] = "idle"
      /\ \A s \in Scrapers : s # u => at'[s] = at[s]
      /\ UNCHANGED <<tracked, step, cur>>
  BY DEF Answer, Go, Inv, TypeOK, monitor
<1>2. \A s \in Scrapers : s # u =>
        /\ todo'[s] = todo[s] /\ kept'[s] = kept[s] /\ seen'[s] = seen[s]
        /\ overlap'[s] = overlap[s]
  BY DEF Answer
<1>3. Known(u) /\ Busy(u)
  BY <1>1 DEF Inv, Busy
<1>4. Known(u)'
  BY <1>1, <1>3 DEF Known, Busy
<1>5. ~Alone(u)'
  BY <1>1 DEF Alone, Busy
<1> QED
  BY <1>1, <1>2, <1>3, <1>4, <1>5, InvScrape

----------------------------------------------------------------------------
(* The theorem. *)

LEMMA InvEnds ==
  ASSUME TypeOK', NEW how, Ends(how)
  PROVE  Inv'
<1>1. \A s \in Scrapers : at'[s] = "idle" /\ step'[s] = 1
  BY DEF Ends, ForEach
<1> QED
  BY <1>1 DEF Inv, Known, Sole, Alone, Busy

LEMMA InvStep == Inv /\ [Next]_vars => Inv'
<1> SUFFICES ASSUME Inv, [Next]_vars PROVE Inv'
  OBVIOUS
<1>0. TypeOK'
  BY TypeStep DEF Inv
<1>1. CASE BeginWrite \/ UNCHANGED vars
  <2>1. UNCHANGED <<tracked, vec, at, step, todo, cur, report, overlap, kept, seen>>
    BY <1>1 DEF BeginWrite, vars, monitor, history
  <2> QED
    BY <1>0, <2>1 DEF Inv, Known, Sole, Progress, Alone, Busy
<1>2. CASE EndWrite
  BY <1>0, <1>2, InvWrite DEF EndWrite
<1>3. ASSUME NEW u \in Scrapers, Begin(u) \/ Collect(u) PROVE Inv'
  BY <1>0, <1>3, InvBegin, InvReset, InvNextPod, InvAdd, InvEndRange, InvEmit, InvAnswer
     DEF Collect
<1>4. CASE MapFault \/ Exit
  BY <1>0, <1>4, InvEnds DEF MapFault, Exit
<1> QED
  BY <1>1, <1>2, <1>3, <1>4 DEF Next

(* What a scrape that no other overlapped reports shows every pod that was *)
(* tracked all the while once in every vector, and no pod that was never   *)
(* tracked, for every number of pods and of vectors, however often the     *)
(* monitor stores and deletes pods while the scrape ranges over the map.   *)
THEOREM LoneReportIsExactCorrect == Spec => []LoneReportIsExact
<1>1. Inv => LoneReportIsExact
  <2> SUFFICES ASSUME Inv, NEW s \in Scrapers, at[s] = "done", overlap[s] = {},
                      NEW v \in 1 .. Vectors
               PROVE  Exact(s, report[s][v])
    BY DEF LoneReportIsExact
  <2>1. Progress(s)
    BY DEF Inv, Alone, Busy
  <2>2. Counted(kept[s], seen[s], report[s][v], {})
    BY <2>1 DEF Progress
  <2> QED
    BY <2>2 DEF Counted, Exact
<1> QED
  BY <1>1, InvInit, InvStep, PTL DEF Spec

=============================================================================
