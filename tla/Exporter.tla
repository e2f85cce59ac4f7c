------------------------------ MODULE Exporter ------------------------------
(***************************************************************************)
(* pkg/kuexporter: what Prometheus is told about the tracked pods.         *)
(*                                                                         *)
(* A scrape resets the metric vectors one by one, ranges over the          *)
(* monitor's RunningPodMap adding every pod's values to each of them, and  *)
(* sends them off one by one.  The HTTP server runs scrapes concurrently   *)
(* over the same vectors, while Run and UpdateNewPod write the map and the *)
(* PodInfos; nothing is locked but each vector by itself (external: the    *)
(* Prometheus client).  How the map comes to change is module Monitor.     *)
(*                                                                         *)
(* A series is how often the values of its pod were added to it: once is   *)
(* right.  Of the two resources' series of a pod one stands for both.      *)
(***************************************************************************)
EXTENDS Naturals

CONSTANTS
  Pods,       \* keys of RunningPodMap
  Scrapers,   \* how many scrapes the HTTP server runs at a time
  Vectors,    \* number of metric vectors (seven)
  MaxWrites   \* bound: how often the map is written

ASSUME ExporterAssumption ==
  /\ Vectors \in Nat \ {0}
  /\ MaxWrites \in Nat

VARIABLES
  proc,     \* the process: "up", "crashed" or "exited"
  serving,  \* the collector is registered and the server listens
  tracked,  \* the keys of RunningPodMap
  writing,  \* Run or UpdateNewPod is in the middle of writing the map
  writes,   \* how often the map was written
  vec,      \* the vectors
  at,       \* where each scrape is
  step,     \* the vector it comes to next
  todo,     \* keys its range over the map still owes
  cur,      \* the pods it has fetched and is adding: one or none
  report,   \* what it has sent
  overlap,  \* history: scrapers that were busy during the scrape
  kept,     \* history: pods tracked since it began
  seen      \* history: pods tracked at some time since it began

monitor == <<tracked, writing, writes>>
history == <<overlap, kept, seen>>
vars == <<proc, serving, monitor, vec, at, step, todo, cur, report, history>>

Empty   == [p \in Pods |-> 0]
Blank   == [v \in 1 .. Vectors |-> Empty]
Busy(s) == at[s] # "idle"

ForEach(x) == [s \in Scrapers |-> x]  \* x for every scrape

Init ==
  /\ proc = "up" /\ serving = FALSE
  /\ tracked \in SUBSET Pods  \* Run was started before the exporter
  /\ writing = FALSE /\ writes = 0
  /\ vec = Blank
  /\ at = ForEach("idle")
  /\ step = ForEach(1)
  /\ todo = ForEach({}) /\ cur = ForEach({})
  /\ report = ForEach(Blank)
  /\ overlap = ForEach({})
  /\ kept = ForEach({}) /\ seen = ForEach({})

----------------------------------------------------------------------------
(* The monitor. *)

BeginWrite ==
  /\ proc = "up" /\ ~writing /\ writes < MaxWrites
  /\ writing' = TRUE /\ writes' = writes + 1
  /\ UNCHANGED <<proc, serving, tracked, vec, at, step, todo, cur,
                 report, history>>

(* A key that appears during a range is visited by it or not. *)
Store(p) ==
  /\ tracked' = tracked \cup {p}
  /\ seen' = [s \in Scrapers |-> IF Busy(s) THEN seen[s] \cup {p} ELSE {}]
  /\ IF p \in tracked THEN UNCHANGED todo
     ELSE \E S \in SUBSET {s \in Scrapers : at[s] \in {"range", "add"}} :
            todo' = [s \in Scrapers |-> IF s \in S THEN todo[s] \cup {p} ELSE todo[s]]
  /\ UNCHANGED kept

Delete(p) ==
  /\ tracked' = tracked \ {p}
  /\ kept' = [s \in Scrapers |-> kept[s] \ {p}]
  /\ UNCHANGED <<todo, seen>>

(* A new pod is stored, a completed one deleted or another written back.   *)
EndWrite ==
  /\ proc = "up" /\ writing
  /\ writing' = FALSE
  /\ \E p \in Pods : Store(p) \/ (p \in tracked /\ Delete(p))
  /\ UNCHANGED <<proc, serving, writes, vec, at, step, cur, report,
                 overlap>>

----------------------------------------------------------------------------
(* Collect *)

Go(s, from, to) ==
  /\ proc = "up"
  /\ at[s] = from
  /\ at' = [at EXCEPT ![s] = to]

(* One vector after the other. *)
EachVector(s, here, next) ==
  /\ Go(s, here, IF step[s] < Vectors THEN here ELSE next)
  /\ step' = [step EXCEPT ![s] = IF @ < Vectors THEN @ + 1 ELSE 1]

(* Mutant: the server is started before the collector is registered. *)
BeginUnregistered(s) ==
  /\ Go(s, "idle", "reset")
  /\ overlap' = [t \in Scrapers |->
       IF t = s THEN {u \in Scrapers : Busy(u)}
       ELSE IF Busy(t) THEN overlap[t] \cup {s} ELSE overlap[t]]
  /\ kept' = [kept EXCEPT ![s] = tracked]
  /\ seen' = [seen EXCEPT ![s] = tracked]
  /\ UNCHANGED <<proc, serving, monitor, vec, step, todo, cur, report>>

(* Registering the collector runs Collect once, to learn what it sends,    *)
(* before the server is started; after that it runs for every request.     *)
Begin(s) ==
  /\ Go(s, "idle", "reset")
  /\ serving \/ ~(\E t \in Scrapers : Busy(t))
  /\ overlap' = [t \in Scrapers |->
       IF t = s THEN {u \in Scrapers : Busy(u)}
       ELSE IF Busy(t) THEN overlap[t] \cup {s} ELSE overlap[t]]
  /\ kept' = [kept EXCEPT ![s] = tracked]
  /\ seen' = [seen EXCEPT ![s] = tracked]
  /\ UNCHANGED <<proc, serving, monitor, vec, step, todo, cur, report>>

(* Mutant: the last vector is not reset. *)
ResetAllButLast(s) ==
  /\ EachVector(s, "reset", "range")
  /\ vec' = [vec EXCEPT ![step[s]] = IF step[s] = Vectors THEN @ ELSE Empty]
  /\ todo' = [todo EXCEPT ![s] = tracked]
  /\ UNCHANGED <<proc, serving, monitor, cur, report, history>>

Reset(s) ==
  /\ EachVector(s, "reset", "range")
  /\ vec' = [vec EXCEPT ![step[s]] = Empty]
  /\ todo' = [todo EXCEPT ![s] = tracked]
  /\ UNCHANGED <<proc, serving, monitor, cur, report, history>>

NextPod(s) ==
  /\ Go(s, "range", "add")
  /\ \E p \in todo[s] \cap tracked :
       /\ cur' = [cur EXCEPT ![s] = {p}]
       /\ todo' = [todo EXCEPT ![s] = @ \ {p}]
  /\ UNCHANGED <<proc, serving, monitor, vec, step, report, history>>

Add(s) ==
  /\ EachVector(s, "add", "range")
  /\ \E p \in cur[s] : vec' = [vec EXCEPT ![step[s]][p] = @ + 1]
  /\ cur' = [cur EXCEPT ![s] = IF step[s] = Vectors THEN {} ELSE @]
  /\ UNCHANGED <<proc, serving, monitor, todo, report, history>>

EndRange(s) ==
  /\ Go(s, "range", "emit")
  /\ todo[s] \cap tracked = {}
  /\ UNCHANGED <<proc, serving, monitor, vec, step, todo, cur, report, history>>

Emit(s) ==
  /\ EachVector(s, "emit", "done")
  /\ report' = [report EXCEPT ![s][step[s]] = vec[step[s]]]
  /\ UNCHANGED <<proc, serving, monitor, vec, todo, cur, history>>

Answer(s) ==
  /\ Go(s, "done", "idle")
  /\ serving' = TRUE
  /\ report' = [report EXCEPT ![s] = Blank]
  /\ todo' = [todo EXCEPT ![s] = {}]
  /\ overlap' = [overlap EXCEPT ![s] = {}]
  /\ kept' = [kept EXCEPT ![s] = {}] /\ seen' = [seen EXCEPT ![s] = {}]
  /\ UNCHANGED <<proc, monitor, vec, step, cur>>

Collect(s) ==
  \/ Reset(s) \/ NextPod(s) \/ Add(s) \/ EndRange(s) \/ Emit(s) \/ Answer(s)

(* The process ends, and with it all that it held. *)
Ends(how) ==
  /\ proc = "up"
  /\ proc' = how
  /\ serving' = FALSE
  /\ tracked' = {} /\ writing' = FALSE /\ writes' = 0
  /\ vec' = Blank
  /\ at' = ForEach("idle")
  /\ step' = ForEach(1)
  /\ todo' = ForEach({}) /\ cur' = ForEach({})
  /\ report' = ForEach(Blank)
  /\ overlap' = ForEach({})
  /\ kept' = ForEach({}) /\ seen' = ForEach({})

(* The Go runtime may find a range overlapping a write, and throw. *)
MapFault ==
  /\ writing
  /\ \E s \in Scrapers : at[s] = "range"
  /\ Ends("crashed")

(* main returns, and scrapes in flight are cut. *)
Exit == Ends("exited")

Next ==
  \/ BeginWrite \/ EndWrite
  \/ \E s \in Scrapers : Begin(s) \/ Collect(s)
  \/ MapFault \/ Exit

Spec == Init /\ [][Next]_vars

----------------------------------------------------------------------------
(* Properties *)

Places == {"idle", "reset", "range", "add", "emit", "done"}

RegisteredAlone ==
  ~serving => \A s, t \in Scrapers : Busy(s) /\ Busy(t) => s = t

(* Every variable has its type, a scrape has fetched a pod exactly while   *)
(* it adds it, and the Collect of the registration runs by itself.         *)
TypeOK ==
  /\ proc \in {"up", "crashed", "exited"}
  /\ serving \in BOOLEAN
  /\ tracked \in SUBSET Pods
  /\ writing \in BOOLEAN
  /\ writes \in 0 .. MaxWrites
  /\ vec \in [1 .. Vectors -> [Pods -> Nat]]
  /\ at \in [Scrapers -> Places]
  /\ RegisteredAlone
  /\ step \in [Scrapers -> 1 .. Vectors]
  /\ todo \in [Scrapers -> SUBSET Pods]
  /\ cur \in [Scrapers -> SUBSET Pods]
  /\ \A s \in Scrapers : (cur[s] # {}) = (at[s] = "add")
  /\ report \in [Scrapers -> [1 .. Vectors -> [Pods -> Nat]]]
  /\ overlap \in [Scrapers -> SUBSET Scrapers]
  /\ kept \in [Scrapers -> SUBSET Pods]
  /\ seen \in [Scrapers -> SUBSET Pods]

(* The report of a scrape that no other overlapped shows every pod that    *)
(* was tracked all the while once in each vector, and no pod that was      *)
(* tracked at no time of it, whatever was stored and deleted meanwhile.    *)
Exact(s, series) ==
  \A p \in Pods :
    /\ p \in kept[s] => series[p] = 1
    /\ p \notin seen[s] => series[p] = 0

LoneReportIsExact ==
  \A s \in Scrapers : at[s] = "done" /\ overlap[s] = {} =>
    \A v \in 1 .. Vectors : Exact(s, report[s][v])

=============================================================================
