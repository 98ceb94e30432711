------------------------------- MODULE MCBrain -------------------------------
(***************************************************************************)
(* What the host believes, and what it lets itself do. The components share *)
(* no state, so one run checks them side by side: `part`, chosen at the     *)
(* start, names the one that moves.                                         *)
(*   "beliefs"   world memory and its sweeps (Beliefs)                      *)
(*   "grants", "plans", "trust"  the three halves of approval (Approval)    *)
(*   "audit"     the audit log (AuditLog)                                   *)
(*   "reflex"    the host's reflexes (HostReflex)                           *)
(*   "identity", "events"  peers and their announcements (P2pMesh): one     *)
(*               board that restarts and is reflashed against a brain that  *)
(*               does; two boards that change against a slow listener       *)
(*   "camera"    what a camera says of itself (CameraHealth)                *)
(*   "percepts"  what the agent notices of it (Percepts): fewer captures    *)
(*   "sightings" what a camera gateway saw (Sightings)                      *)
(***************************************************************************)
EXTENDS Beliefs, Approval, AuditLog, HostReflex, P2pMesh, Percepts, Sightings

CONSTANTS gpio, relay, thread1, thread2, peer1, peer2, x, y,
  NoticedCaptures  \* bound: captures of the part "percepts"

VARIABLE part

\* Beliefs: a sensor, a mode computed from it, and an alert that rests on
\* either.
Sensor == [entity |-> "level", source |-> "node", needs |-> {}]
Mode   == [entity |-> "mode", source |-> "host", needs |-> {{"level"}}]
Alert  == [entity |-> "alert", source |-> "host", needs |-> {{"mode"}, {"level"}}]
ProducersMC == {Sensor, Mode, Alert}

PlanMC == <<gpio, relay>>

\* Reflexes: one that escalates on change, one over two facts that has to
\* hold for a tick, one that repeats.
RulesMC ==
  << [id |-> "low", entities |-> {"batt"}, hold |-> 0, interval |-> 0,
      onChange |-> TRUE, escalates |-> TRUE],
     [id |-> "both", entities |-> {"batt", "modem"}, hold |-> 1, interval |-> 0,
      onChange |-> TRUE, escalates |-> FALSE],
     [id |-> "again", entities |-> {"modem"}, hold |-> 0, interval |-> 2,
      onChange |-> FALSE, escalates |-> TRUE] >>

\* A gateway's night: two deer and a person with a badge that lapses, a fox
\* in a row without an event, and one in a frame with a person half seen.
Detected(event, subject, class, token, sure) ==
  [event |-> event, subject |-> subject, class |-> class, token |-> token, sure |-> sure]
FeedMC ==
  << Detected(1, "deer", "wildlife", "none", TRUE), Detected(2, "deer", "wildlife", "none", TRUE),
     Detected(2, "person", "human", "badge", TRUE), Detected(0, "fox", "wildlife", "none", TRUE),
     Detected(3, "person", "human", "none", FALSE), Detected(3, "fox", "wildlife", "none", TRUE) >>
UntilMC == "badge" :> 2

eyeVars == <<cameraVars, perceptVars, sightingVars>>
brainVarsMC == <<part, vars, approvalVars, auditVars, reflexVars, p2pVars, eyeVars>>

InBeliefs(A)  == part = "beliefs" /\ A /\ UNCHANGED <<part, approvalVars, auditVars, reflexVars, p2pVars, eyeVars>>
InApproval(P, A) == part \in P /\ A /\ UNCHANGED <<part, vars, auditVars, reflexVars, p2pVars, eyeVars>>
InAudit(A)    == part = "audit" /\ A /\ UNCHANGED <<part, vars, approvalVars, reflexVars, p2pVars, eyeVars>>
InReflex(A)   == part = "reflex" /\ A /\ UNCHANGED <<part, vars, approvalVars, auditVars, p2pVars, eyeVars>>
InPeers(P, A) == part \in P /\ A /\ UNCHANGED <<part, vars, approvalVars, auditVars, reflexVars, eyeVars>>
OtherVars == <<part, vars, approvalVars, auditVars, reflexVars, p2pVars>>
InCamera(P, A) == part \in P /\ A /\ UNCHANGED <<OtherVars, perceptVars, sightingVars>>
InPercepts(A)  == part = "percepts" /\ A /\ UNCHANGED <<OtherVars, cameraVars, sightingVars>>
InSightings(A) == part = "sightings" /\ A /\ UNCHANGED <<OtherVars, cameraVars, perceptVars>>

Grants == {"grants"}
Plans  == {"plans"}
Trusts == {"trust"}
Id     == {"identity"}
Events == {"events"}
Both   == Id \cup Events

BrainInit ==
  /\ part \in {"beliefs", "audit", "reflex", "camera", "percepts", "sightings"} \cup Grants \cup Plans \cup Trusts \cup Both
  /\ Init
  /\ ApprovalInit
  /\ AuditInit
  /\ ReflexInit
  /\ P2pInit
  /\ CameraInit
  /\ PerceptInit
  /\ SightingsInit

BrainNext ==
  \/ InBeliefs(\E p \in Producers : Observe(p))
  \/ InBeliefs(\E e \in Claimable, from \in 0 .. MaxTime : Claim(e, from))
  \/ InBeliefs(\E e \in Torn : TornInsert(e))
  \/ InBeliefs(\E e \in Withdrawable : Withdraw(e))
  \/ InBeliefs(Crash)
  \/ InBeliefs(Elapse)
  \/ InBeliefs(\E s \in Stoppable : Judge(s))
  \/ InBeliefs(\E s \in Stoppable : Retire(s))
  \/ InBeliefs(SweepSilent)
  \/ InBeliefs(ListOwn)
  \/ InBeliefs(Expire)
  \/ InBeliefs(CloseListed)
  \/ InBeliefs(Ask)
  \/ InBeliefs(Visit)
  \/ InBeliefs(Finish)
  \/ InApproval(Grants, \E c \in Callers, t \in Tools : AnswerForever(c, t))
  \/ InApproval(Grants, \E c \in Callers, t \in Tools : AnswerAlways(c, t))
  \/ InApproval(Grants, \E c \in Callers, t \in Tools : Revoke(c, t))
  \/ InApproval(Grants, \E t \in Tools : RevokeSession(t))
  \/ InApproval(Grants, \E c \in Callers : SaveTruncates(c))
  \/ InApproval(Grants, \E c \in Callers : SaveFills(c))
  \/ InApproval(Grants, \E c \in Callers : SaveFails(c))
  \/ InApproval(Grants \cup Plans \cup Trusts, RestartApproval)
  \/ InApproval(Plans, ApprovePlan)
  \/ InApproval(Plans, \E t \in Tools, within \in BOOLEAN : CheckPlanCall(t, within))
  \/ InApproval(Trusts, \E success, anomaly \in BOOLEAN : RecordOutcome(success, anomaly))
  \/ InAudit(OpenLog)
  \/ InAudit(RecordWritten)
  \/ InAudit(RecordReturns)
  \/ InAudit(RecordFails)
  \/ InAudit(NewlineFails)
  \/ InAudit(ProcessEnds)
  \/ InReflex(\E e \in Watched, v \in {0, 1} : WriteFact(e, v))
  \/ InReflex(\E e \in Watched : Withhold(e))
  \/ InReflex(\E e \in Watched : ReadEntity(e))
  \/ InReflex(TickStarts)
  \/ InReflex(Evaluate)
  \/ InReflex(SinkDoes)
  \/ InReflex(Suppress)
  \/ InReflex(SinkFails)
  \/ InReflex(ReflexRestarts)
  \/ InPeers(Id, \E clock \in Clocks, written \in BOOLEAN : BoardBoots(peer1, clock, written))
  \/ InPeers(Id, Reflash(peer1))
  \/ InPeers(Id, board[peer1].count = 0 /\ Announce(peer1, x))
  \/ InPeers(Id, \E struck \in SUBSET Peers : BrainRestarts(struck))
  \/ InPeers(Events, \E n \in Peers : board[n].epoch = 0 /\ BoardBoots(n, 1, TRUE))
  \/ InPeers(Events, \E tools \in Toolsets : Announce(peer1, tools))
  \/ InPeers(Events, board[peer2].count = 0 /\ Announce(peer2, x))
  \/ InPeers(Events, Listen)
  \/ InPeers(Both, \E n \in Peers : FallsSilent(n))
  \/ InPeers(Both, \E d \in air : Pin(d))
  \/ InPeers(Both, \E d \in air : Take(d))
  \/ InPeers(Both, Evict)
  \/ InPeers(Both, PersistMarks)
  \/ InPeers(Both, Emit)
  \/ InPeers(Both, SweepFlushes)
  \/ InCamera({"camera"}, \E size \in Sizes, class \in Classes : Picture(size, class))
  \/ InCamera({"camera"}, \E size \in Sizes : Blank(size))
  \/ InCamera({"camera"}, Failure)
  \/ InCamera({"camera"}, CameraReset)
  \/ InCamera({"percepts"}, captures < NoticedCaptures /\ \E c \in {"quiet", "motion", "nudge"} : Picture(1, c))
  \/ InPercepts(TickHealth)
  \/ InPercepts(TickMotion)
  \/ InPercepts(Perceive)
  \/ InPercepts(TurnEnds)
  \/ InPercepts(\E w \in Writers, vec \in Fates : WriteRow(w, vec))
  \/ InPercepts(\E w \in Writers : RowFails(w))
  \/ InPercepts(\E w \in Writers : Experience(w))
  \/ InPercepts(\E torn \in {{}, {"feed"}, {"turn"}} : AgentRestarts(torn))
  \/ InSightings(\E n \in DOMAIN Feed, unsure \in BOOLEAN : Poll(n, unsure))
  \/ InSightings(Ingest)
  \/ InSightings(Count)
  \/ InSightings(BreaksOff)
  \/ InSightings(EndsInCount)
  \/ InSightings(Recount)

BrainSpec == BrainInit /\ [][BrainNext]_brainVarsMC
===============================================================================
