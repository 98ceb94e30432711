--------------------------- MODULE MeshSupervisor ---------------------------
(***************************************************************************)
(* The host's mesh supervisor (crates/obc-spine/src/mesh_supervisor.rs): a  *)
(* tick that reads each node's facts from world memory, decides its health, *)
(* probes nodes that fell silent, presumes lost those silent for long, and  *)
(* publishes how many are lost.  The gateway link is an input: while it is   *)
(* lost nothing can be heard, and nothing may be concluded from silence.    *)
(*                                                                          *)
(* Ages are in ticks and stop where nothing compared with them can tell the *)
(* difference ("that long ago, or never").  Supervisor ticks are timely.    *)
(***************************************************************************)
EXTENDS Integers, FiniteSets

CONSTANTS
  Nodes,           \* the stations a gateway may hear
  StaleAfter,      \* stale_ms
  EscalateAfter,   \* escalate_after_ms; 0 disables
  ProbeEvery,      \* min_recovery_interval_ms
  LostProbeEvery   \* escalated_probe_interval_ms; 0 disables

ASSUME IntervalsAssumption ==
  {StaleAfter, EscalateAfter, ProbeEvery, LostProbeEvery} \subseteq Nat
ASSUME StationsAssumption == IsFiniteSet(Nodes)
\* A node is not stale within a tick of being heard: stale_ms is not below
\* tick_ms (90 s and 5 s by default; nothing checks a configuration for it).
ASSUME StaleAssumption == StaleAfter > 0

VARIABLES
  seen,        \* node -> age of its rollup fact, or NoFact
  failed,      \* the nodes whose last command result was a failure
  health,      \* node -> the health fact, "none" before the first
  healthAge,   \* node -> age of that fact
  escalated,   \* the nodes whose escalation fact says so
  probeAge,    \* node -> age of the recovery fact
  count,       \* the mesh.escalated_count fact, or NoFact
  link,        \* the gateway link is open
  linkAge,     \* age of its last (re)open
  own,         \* the console's own station, or NoFact
  judged,      \* the supervisor has ticked in this unit of time
  \* The nodes, and history:
  asked,       \* nodes with a recovery command on its way to them
  deaf         \* node -> how long it has been silent while the host listened

facts == <<seen, failed, health, healthAge, escalated, probeAge, count>>
vars == <<facts, link, linkAge, own, judged, asked, deaf>>

NoFact == -1
Older(age, cap) == IF age < cap THEN age + 1 ELSE cap
ProbeCap == IF ProbeEvery > LostProbeEvery THEN ProbeEvery ELSE LostProbeEvery

\* snapshot: every node heard over the air, less the console's own station.
Views == {n \in Nodes : seen[n] # NoFact /\ n # own}

-----------------------------------------------------------------------------
(* decide, for one node while the spine is observable.                      *)

Status(n) == IF seen[n] > StaleAfter THEN "offline"
             ELSE IF n \in failed THEN "degraded" ELSE "online"

Lost(n) == n \in escalated

\* Mutant: the outage counts as the node's silence.
OfflineForAnyhow(n) == IF health[n] = "offline" THEN healthAge[n] ELSE 0
\* How long the node has been offline: since its health fact said so, or now,
\* and never longer than the link has been open.
OfflineFor(n) ==
  LET since == IF health[n] = "offline" THEN healthAge[n] ELSE 0
  IN  IF since < linkAge THEN since ELSE linkAge

Escalates(n) ==
  /\ Status(n) = "offline" /\ ~Lost(n)
  /\ EscalateAfter > 0 /\ OfflineFor(n) >= EscalateAfter

\* Mutant: a node presumed lost is given up.
ProbesUntilLost(n) ==
  Status(n) = "offline" /\ ~Escalates(n) /\ ~Lost(n) /\ probeAge[n] >= ProbeEvery
\* The fast probe before escalation, the slow one after; none in the tick
\* that escalates.
Probes(n) ==
  /\ Status(n) = "offline" /\ ~Escalates(n)
  /\ IF Lost(n) THEN LostProbeEvery > 0 /\ probeAge[n] >= LostProbeEvery
                ELSE probeAge[n] >= ProbeEvery

Clears(n) == Status(n) # "offline" /\ Lost(n)

\* The own station's standing escalation is retired first; nothing is decided
\* while the link is lost.
EscalatedAfter ==
  LET kept == escalated \ {own}
      heard == IF link THEN Views ELSE {}
  IN  {n \in heard : Escalates(n)} \cup {n \in kept : ~(n \in heard /\ Clears(n))}

HealthAfter(n) ==
  IF n \notin Views THEN health[n]
  ELSE IF ~link THEN "unobservable" ELSE Status(n)

\* The fact is written only when the health changes.
HealthAgeAfter(n) == IF HealthAfter(n) # health[n] THEN 0 ELSE healthAge[n]

\* Recomputed after the decisions, and only when there is a node to count.
CountAfter ==
  IF Views = {} THEN count
  ELSE Cardinality(Views \cap EscalatedAfter)

-----------------------------------------------------------------------------
Init ==
  /\ seen = [n \in Nodes |-> NoFact] /\ failed = {}
  /\ health = [n \in Nodes |-> "none"] /\ healthAge = [n \in Nodes |-> 0]
  /\ escalated = {}
  /\ probeAge = [n \in Nodes |-> ProbeCap]
  /\ count = NoFact
  /\ link = TRUE /\ linkAge = 0 /\ own = NoFact
  /\ judged = FALSE /\ asked = {}
  /\ deaf = [n \in Nodes |-> 0]

\* One tick: retire, decide, write the facts that changed, send the probes
\* (sent: those the sink accepted; only they are recorded), count.
Tick(sent) ==
  /\ ~judged /\ judged' = TRUE
  /\ sent \subseteq (IF link THEN {n \in Views : Probes(n)} ELSE {})
  /\ health' = [n \in Nodes |-> HealthAfter(n)]
  /\ healthAge' = [n \in Nodes |-> HealthAgeAfter(n)]
  /\ escalated' = EscalatedAfter
  /\ probeAge' = [n \in Nodes |-> IF n \in sent THEN 0 ELSE probeAge[n]]
  /\ asked' = asked \cup sent
  /\ count' = CountAfter
  /\ UNCHANGED <<seen, failed, link, linkAge, own, deaf>>

\* Time passes.  healthAge matters only while the fact says offline.
Elapse ==
  /\ judged /\ judged' = FALSE
  /\ seen' = [n \in Nodes |-> IF seen[n] = NoFact THEN NoFact ELSE Older(seen[n], StaleAfter + 1)]
  /\ healthAge' = [n \in Nodes |->
                    IF health[n] = "offline" THEN Older(healthAge[n], EscalateAfter) ELSE 0]
  /\ probeAge' = [n \in Nodes |-> Older(probeAge[n], ProbeCap)]
  /\ linkAge' = IF link THEN Older(linkAge, EscalateAfter) ELSE 0
  /\ deaf' = [n \in Nodes |-> IF link THEN Older(deaf[n], EscalateAfter) ELSE 0]
  /\ UNCHANGED <<failed, health, escalated, count, link, own, asked>>

\* A frame of n is verified and becomes its rollup.  The own station
\* transmits and is never heard.
Hear(n) ==
  /\ link /\ n # own
  /\ seen' = [seen EXCEPT ![n] = 0]
  /\ deaf' = [deaf EXCEPT ![n] = 0]
  /\ UNCHANGED <<health, healthAge, escalated, probeAge, count, link, linkAge, own, judged>>

\* Beacons and reports leave the command result as it was.
Beacon(n) == Hear(n) /\ UNCHANGED <<failed, asked>>

\* A node answers a recovery command: ok, failed, or refused on policy, which
\* counts as ok (cmd_result_healthy).
Answer(n, ok) ==
  /\ n \in asked /\ asked' = asked \ {n}
  /\ failed' = IF ok THEN failed \ {n} ELSE failed \cup {n}
  /\ Hear(n)

\* The command or its answer is lost to the air.
LoseCommand(n) ==
  /\ n \in asked /\ asked' = asked \ {n}
  /\ UNCHANGED <<facts, link, linkAge, own, judged, deaf>>

LinkLost ==
  /\ link /\ link' = FALSE /\ linkAge' = 0
  /\ deaf' = [n \in Nodes |-> 0]
  /\ UNCHANGED <<facts, own, judged, asked>>
LinkReopens ==
  /\ ~link /\ link' = TRUE /\ linkAge' = 0
  /\ UNCHANGED <<facts, own, judged, asked, deaf>>

\* The operator moves the console cable to station n and restarts the host.
DeclareOwn(n) ==
  /\ own # n /\ own' = n
  /\ link' = TRUE /\ linkAge' = 0
  /\ asked' = asked \ {n}
  /\ deaf' = [m \in Nodes |-> 0]
  /\ UNCHANGED <<facts, judged>>

Next ==
  \/ \E sent \in SUBSET Nodes : Tick(sent)
  \/ Elapse
  \/ \E n \in Nodes : Beacon(n)
  \/ \E n \in Nodes, ok \in BOOLEAN : Answer(n, ok)
  \/ \E n \in Nodes : LoseCommand(n)
  \/ LinkLost
  \/ LinkReopens
  \/ \E n \in Nodes : DeclareOwn(n)

Spec == Init /\ [][Next]_vars

\* Ticks happen, time passes, and a probe that is owed is sent by some tick.
Fairness ==
  /\ WF_vars(\E sent \in SUBSET Nodes : Tick(sent)) /\ WF_vars(Elapse)
  /\ \A n \in Nodes : SF_vars(\E sent \in SUBSET Nodes : n \in sent /\ Tick(sent))
FairSpec == Spec /\ Fairness

-----------------------------------------------------------------------------
(* Properties.                                                              *)

\* Every variable has its type, and there is a probe only for a node heard.
TypeOK ==
  /\ seen \in [Nodes -> {NoFact} \cup 0 .. StaleAfter + 1]
  /\ failed \subseteq Nodes /\ escalated \subseteq Nodes
  /\ health \in [Nodes -> {"none", "online", "degraded", "offline", "unobservable"}]
  /\ healthAge \in [Nodes -> 0 .. EscalateAfter] /\ deaf \in [Nodes -> 0 .. EscalateAfter]
  /\ probeAge \in [Nodes -> 0 .. ProbeCap]
  /\ count \in {NoFact} \cup 0 .. Cardinality(Nodes)
  /\ link \in BOOLEAN /\ linkAge \in 0 .. EscalateAfter /\ own \in Nodes \cup {NoFact}
  /\ judged \in BOOLEAN /\ asked \subseteq {n \in Nodes : seen[n] # NoFact}

\* The published count and the escalation facts of the nodes agree whenever
\* the supervisor has just ticked over at least one node.
CountAgrees ==
  [][judged' /\ ~judged /\ Views # {} =>
       count' = Cardinality(Views \cap escalated')]_vars

\* No node is presumed lost on silence the host could not have heard broken:
\* the node was silent, and the link open, for the whole of EscalateAfter.
SilenceWasHeard ==
  [][\A n \in Nodes : ~Lost(n) /\ Lost(n)' => deaf[n] >= EscalateAfter]_vars

\* A node that is heard is not presumed lost for longer than a tick: after a
\* tick on an open link, the nodes presumed lost are offline ones.
LostAreOffline ==
  [][judged' /\ ~judged /\ link => \A n \in Views : Lost(n)' => health'[n] = "offline"]_vars

\* A node that is asked without end answers without end.
Answering(n) == SF_vars(\E ok \in BOOLEAN : Answer(n, ok))

\* A node whose beacons are all lost but which answers what it is asked does
\* not stay presumed lost: the slow probe reaches it and its reply clears it.
AnsweringNodeReturns ==
  \A n \in Nodes : Answering(n) /\ <>[](link /\ own # n) => []<>~Lost(n)

\* A node that stays silent on an open link ends up presumed lost.
SilentNodeIsLost ==
  \A n \in Nodes : <>[](link /\ n \in Views /\ seen[n] > StaleAfter) => <>[]Lost(n)

\* The count the reflexes watch falls with the nodes it counts: a tick leaves
\* it at the number of nodes presumed lost (mesh_supervisor.rs, own station).
CountDropsWithViews ==
  [][judged' /\ ~judged /\ count # NoFact =>
       count' = Cardinality(Views \cap escalated')]_vars

\* The state is well formed, what a tick concludes fits what was heard, and the
\* count what it concludes.
ConclusionsFit == []TypeOK /\ SilenceWasHeard /\ LostAreOffline /\ CountAgrees

\* Being lost is found out, and so is being back.
LostAndFound == AnsweringNodeReturns /\ SilentNodeIsLost
=============================================================================
