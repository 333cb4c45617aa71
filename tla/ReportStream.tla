---------------------------- MODULE ReportStream ----------------------------
(***************************************************************************)
(* What report delivery promises for one agent, without spool, network,    *)
(* retries or crashes: reports are numbered upwards, the server's history  *)
(* grows upwards, and a report stays with the agent until it is stored or  *)
(* has been given up for a stated reason (evicted from a full spool,       *)
(* refused by the server, or never buffered).  Delivery.tla implements it. *)
(***************************************************************************)
EXTENDS Naturals

CONSTANT Numbers  \* what reports are numbered with

VARIABLES
  measured,  \* numbers that reports have been given
  held,      \* reports the agent still has to deliver
  stored,    \* reports in the server's history
  lost       \* reports given up without the server having to store them

vars == <<measured, held, stored, lost>>

Settled == stored \cup lost

Init ==
  /\ measured = {}
  /\ held = {}
  /\ stored = {}
  /\ lost = {}

\* A new report takes a number above every number given before, across restarts.
Measure(n) ==
  /\ \A m \in measured : m < n
  /\ measured' = measured \cup {n}
  /\ held' = held \cup {n}
  /\ UNCHANGED <<stored, lost>>

\* The server adds a report above all it has; no older report is still waiting,
\* so none is turned into a replay by this one.
Store(n) ==
  /\ n \in measured
  /\ \A m \in stored : m < n
  /\ \A m \in measured : m < n => m \in Settled
  /\ stored' = stored \cup {n}
  /\ UNCHANGED <<measured, held, lost>>

\* Reports are given up or dropped from the agent: a report leaves the agent only
\* settled, and only a settled one may come back.
Release ==
  /\ \E reports \in SUBSET measured : lost' = lost \cup reports
  /\ held' \subseteq held \cup Settled
  /\ held \ held' \subseteq Settled'
  /\ UNCHANGED <<measured, stored>>

Next == Release \/ \E n \in Numbers : Measure(n) \/ Store(n)

Spec == Init /\ [][Next]_vars
=============================================================================
