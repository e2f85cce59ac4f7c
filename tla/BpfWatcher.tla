----------------------------- MODULE BpfWatcher -----------------------------
(***************************************************************************)
(* pkg/kuwatcher/bpfwatcher.go, as main runs it beside Monitor.Run.        *)
(*                                                                         *)
(* A probe on cuLaunchKernel submits every launch to the perf buffer of    *)
(* the CPU that it runs on.  A goroutine of gobpf polls the buffers and    *)
(* hands each event over to the relay, which decodes it and sends an id on *)
(* ebpfCh, and every message there makes Run do a pass.  No channel is     *)
(* ever closed but stopCh, which the relay does not watch.  Since Run does *)
(* not look at the id, and pidToIdMap is never filled, an event is just    *)
(* the number of the launch.                                               *)
(***************************************************************************)
EXTENDS Naturals, Sequences

CONSTANTS
  Cpus,         \* the CPUs, each of which has a perf buffer
  RingCap,      \* capacity of a perf buffer
  EbpfCap,      \* capacity of ebpfCh (1000)
  MaxLaunches   \* bound: how many kernels are launched

WatcherAssumption ==
  /\ RingCap \in Nat \ {0}
  /\ EbpfCap \in Nat \ {0}
  /\ MaxLaunches \in Nat

VARIABLES
  proc,      \* the process: "up" or "exited"
  stopped,   \* stopCh is closed
  watcher,   \* where BpfWatcher is
  ring,      \* the perf buffers
  poller,    \* the event gobpf's goroutine holds, as a sequence
  relay,     \* the event the relay holds, likewise
  ebpfCh,    \* the channel to Run
  loop,      \* where Run is: "select", "pass" or "done"
  served,    \* history: the events that made Run do a pass
  on,        \* history: the CPUs of the launches, the first one first
  gone       \* history: events a buffer had no room for, or garbled

stop == <<proc, stopped>>
pipe == <<ring, poller, relay, ebpfCh>>
vars == <<stop, watcher, pipe, loop, served, on, gone>>

(* How many kernels were launched: the number of the last event. *)
launched == Len(on)

Init ==
  /\ proc = "up" /\ stopped = FALSE
  /\ watcher = "loading"
  /\ ring = [c \in Cpus |-> <<>>]
  /\ poller = <<>> /\ relay = <<>> /\ ebpfCh = <<>>
  /\ loop = "select" /\ served = <<>>
  /\ on = <<>> /\ gone = {}

----------------------------------------------------------------------------
(* main and the signal watcher *)

Signal ==
  /\ proc = "up" /\ ~stopped
  /\ stopped' = TRUE
  /\ UNCHANGED <<proc, watcher, pipe, loop, served, on, gone>>

(* The process ends, and all it held is lost. *)
Ends ==
  /\ proc' = "exited"
  /\ watcher' = "closed"
  /\ ring' = [c \in Cpus |-> <<>>]
  /\ poller' = <<>> /\ relay' = <<>> /\ ebpfCh' = <<>>
  /\ loop' = "done"
  /\ served' = <<>> /\ on' = <<>> /\ gone' = {}

(* Two seconds after stopCh was closed main returns, whoever still runs. *)
Exit ==
  /\ proc = "up" /\ stopped
  /\ Ends
  /\ UNCHANGED stopped

----------------------------------------------------------------------------
(* BpfWatcher *)

(* The module is compiled, the probe attached and the buffers opened.  If  *)
(* any of it fails, os.Exit ends the daemon at once.                       *)
Load ==
  /\ proc = "up" /\ watcher = "loading"
  /\ watcher' = "attached"
  /\ UNCHANGED <<stop, pipe, loop, served, on, gone>>

LoadFails ==
  /\ proc = "up" /\ watcher = "loading"
  /\ Ends
  /\ UNCHANGED stopped

(* perfMap.Start, after the relay was started. *)
StartPolling ==
  /\ proc = "up" /\ watcher = "attached"
  /\ watcher' = "polling"
  /\ UNCHANGED <<stop, pipe, loop, served, on, gone>>

StopPolling ==
  /\ proc = "up" /\ watcher = "polling" /\ stopped
  /\ watcher' = "stopping"
  /\ UNCHANGED <<stop, pipe, loop, served, on, gone>>

(* perfMap.Stop returns when the polling goroutine took notice, which it   *)
(* does between two events, and the module is closed.                      *)
Close ==
  /\ proc = "up" /\ watcher = "stopping" /\ poller = <<>>
  /\ watcher' = "closed"
  /\ UNCHANGED <<stop, pipe, loop, served, on, gone>>

(* A container launches a kernel on one of the CPUs. *)
Launch ==
  /\ proc = "up" /\ watcher \in {"attached", "polling", "stopping"}
  /\ launched < MaxLaunches
  /\ \E c \in Cpus :
       /\ on' = Append(on, c)
       /\ IF Len(ring[c]) < RingCap
          THEN ring' = [ring EXCEPT ![c] = Append(@, launched')] /\ UNCHANGED gone
          ELSE gone' = gone \cup {launched'} /\ UNCHANGED ring
  /\ UNCHANGED <<stop, watcher, poller, relay, ebpfCh, loop, served>>

(* The buffers are read in turn, and so in an order that is not that of    *)
(* the launches.                                                           *)
Poll(c) ==
  /\ proc = "up" /\ watcher \in {"polling", "stopping"}
  /\ poller = <<>> /\ ring[c] # <<>>
  /\ poller' = <<Head(ring[c])>>
  /\ ring' = [ring EXCEPT ![c] = Tail(@)]
  /\ UNCHANGED <<stop, watcher, relay, ebpfCh, loop, served, on, gone>>

(* The relay: channel has no buffer, so the two goroutines meet.  What     *)
(* cannot be decoded is dropped.                                           *)
Receive ==
  /\ proc = "up"
  /\ relay = <<>> /\ poller # <<>>
  /\ poller' = <<>>
  /\ \/ relay' = poller /\ UNCHANGED gone
     \/ gone' = gone \cup {Head(poller)} /\ UNCHANGED relay
  /\ UNCHANGED <<stop, watcher, ring, ebpfCh, loop, served, on>>

(* Mutant: an event for which the channel has no room is dropped. *)
SendOrDrop ==
  /\ proc = "up"
  /\ relay # <<>>
  /\ ebpfCh' = IF Len(ebpfCh) < EbpfCap THEN ebpfCh \o relay ELSE ebpfCh
  /\ relay' = <<>>
  /\ UNCHANGED <<stop, watcher, ring, poller, loop, served, on, gone>>

(* Mutant: the channel is a list without a bound. *)
SendAlways ==
  /\ proc = "up"
  /\ relay # <<>>
  /\ ebpfCh' = ebpfCh \o relay
  /\ relay' = <<>>
  /\ UNCHANGED <<stop, watcher, ring, poller, loop, served, on, gone>>

Send ==
  /\ proc = "up"
  /\ relay # <<>> /\ Len(ebpfCh) < EbpfCap
  /\ ebpfCh' = ebpfCh \o relay
  /\ relay' = <<>>
  /\ UNCHANGED <<stop, watcher, ring, poller, loop, served, on, gone>>

----------------------------------------------------------------------------
(* Monitor.Run; see module Monitor for what a pass does to the maps. *)

ReceiveEvent ==
  /\ proc = "up" /\ loop = "select" /\ ebpfCh # <<>>
  /\ loop' = "pass"
  /\ served' = Append(served, Head(ebpfCh))
  /\ ebpfCh' = Tail(ebpfCh)
  /\ UNCHANGED <<stop, watcher, ring, poller, relay, on, gone>>

Tick ==
  /\ proc = "up" /\ loop = "select"
  /\ loop' = "pass"
  /\ UNCHANGED <<stop, watcher, pipe, served, on, gone>>

EndPass ==
  /\ proc = "up" /\ loop = "pass"
  /\ loop' = "select"
  /\ UNCHANGED <<stop, watcher, pipe, served, on, gone>>

StopLoop ==
  /\ proc = "up" /\ loop = "select" /\ stopped
  /\ loop' = "done"
  /\ UNCHANGED <<stop, watcher, pipe, served, on, gone>>

Relay == (\E c \in Cpus : Poll(c)) \/ Receive \/ Send
Main  == Signal \/ Exit \/ Load \/ LoadFails \/ StartPolling \/ StopPolling \/ Close

Next ==
  \/ Main \/ Launch \/ Relay
  \/ ReceiveEvent \/ Tick \/ EndPass \/ StopLoop

Spec == Init /\ [][Next]_vars

----------------------------------------------------------------------------
(* Properties *)

(* Every variable has its type; goroutines hold one event at most. *)
TypeOK ==
  /\ proc \in {"up", "exited"}
  /\ stopped \in BOOLEAN
  /\ watcher \in {"loading", "attached", "polling", "stopping", "closed"}
  /\ ring \in [Cpus -> Seq(Nat)] /\ \A c \in Cpus : Len(ring[c]) <= RingCap
  /\ poller \in Seq(Nat) /\ Len(poller) <= 1
  /\ relay \in Seq(Nat) /\ Len(relay) <= 1
  /\ ebpfCh \in Seq(Nat) /\ Len(ebpfCh) <= EbpfCap
  /\ loop \in {"select", "pass", "done"}
  /\ served \in Seq(Nat)
  /\ on \in Seq(Cpus)
  /\ gone \in SUBSET Nat

(* The events that left the buffers, the one that did so first first. *)
Taken == served \o ebpfCh \o relay \o poller

Elements(s) == {s[k] : k \in 1 .. Len(s)}

(* Of the launches that had room in a buffer and could be decoded none is  *)
(* lost or doubled between the probe and Run, whatever waits for whom, and *)
(* none is overtaken by a later one of the same CPU.                       *)
NoneLost ==
  /\ Elements(Taken) \cup UNION {Elements(ring[c]) : c \in Cpus}
       = (1 .. launched) \ gone
  /\ \A j, k \in 1 .. Len(Taken) :
       j < k /\ on[Taken[j]] = on[Taken[k]] => Taken[j] < Taken[k]
  /\ \A c \in Cpus : \A k \in 1 .. Len(ring[c]) :
       /\ on[ring[c][k]] = c
       /\ \A j \in 1 .. k - 1 : ring[c][j] < ring[c][k]
       /\ \A x \in Elements(Taken) : on[x] = c => x < ring[c][k]

=============================================================================
