------------------------------- MODULE Approval -------------------------------
(***************************************************************************)
(* The approval gate (crates/obc-approval/src/lib.rs) over node trust      *)
(* (crates/obc-safety/src/trust.rs): what the operator granted for a       *)
(* session or for ever, the plans approved as a batch, and the trust that  *)
(* a node's outcomes earn or cost it.  Grants live in a map and in a file: *)
(* the map is changed under a lock, the file written after it is released. *)
(***************************************************************************)
EXTENDS Integers, Sequences, FiniteSets

CONSTANTS Tools,       \* tools that need approval
          AlwaysAsk,   \* config.always_ask
          AutoApprove, \* config.auto_approve
          Callers,     \* threads that answer or revoke
          Plan,        \* the steps of a plan: a sequence of tools
          MaxAnswers,  \* bound: answers and revocations
          MaxCalls,    \* bound: calls under the plan
          MaxCuts      \* bound: failed writes and process ends, together

ASSUME ApprovalAssumption == AlwaysAsk \cup AutoApprove \subseteq Tools /\ Plan \in Seq(Tools)

VARIABLES grants,    \* ForeverGrants.grants
          file,      \* approval_grants.json: a list, or what does not parse
          saves,     \* caller -> the save it is in
          session,   \* session_allowlist
          plan,      \* the approved plan: its cursor, or none
          trust,     \* NodeStats of the node: score in hundredths, samples, last outcome
          answers, cuts,
          revoked,   \* tools whose revocation returned, and was not followed by a grant
          overlap,   \* two saves were under way at once, or one failed
          calls      \* the calls checked against the plan, and their verdicts

approvalVars == <<grants, file, saves, session, plan, trust, answers, cuts, revoked,
                  overlap, calls>>

Garbage == {"garbage"}
NoSave == [at |-> "none", list |-> {}, drops |-> {}]
NoPlan == [cursor |-> 0]

(* ForeverGrants::load: what does not parse is no grant at all. *)
Loaded == IF file = Garbage THEN {} ELSE file

Saving == {c \in Callers : saves[c].at # "none"}

ApprovalInit ==
  /\ grants = {}
  /\ file = {}
  /\ saves = [c \in Callers |-> NoSave]
  /\ session = {}
  /\ plan = NoPlan
  /\ trust = [score |-> 100, samples |-> 0, failed |-> FALSE]
  /\ answers = 0
  /\ cuts = 0
  /\ revoked = {}
  /\ overlap = FALSE
  /\ calls = <<>>

----------------------------------------------------------------------------
(* The operator's answers. *)

(* save(), of the list as it is now: the write is still to come. *)
Save(c, list, drops) ==
  /\ saves' = [saves EXCEPT ![c] = [at |-> "write", list |-> list, drops |-> drops]]
  /\ overlap' = (overlap \/ Saving # {})

Answered(c) ==
  /\ saves[c] = NoSave
  /\ answers < MaxAnswers
  /\ answers' = answers + 1

(* apply_decision(Forever): grant. *)
AnswerForever(c, t) ==
  /\ Answered(c)
  /\ grants' = grants \cup {t}
  /\ revoked' = revoked \ {t}
  /\ Save(c, grants \cup {t}, {})
  /\ UNCHANGED <<file, session, plan, trust, cuts, calls>>

(* apply_decision(Always).  Yes and No change nothing but counters and log. *)
AnswerAlways(c, t) ==
  /\ Answered(c)
  /\ session' = session \cup {t}
  /\ UNCHANGED <<grants, file, saves, plan, trust, cuts, revoked, overlap, calls>>

(* Mutant: the file keeps what was revoked. *)
RevokeInMemory(c, t) ==
  /\ Answered(c)
  /\ t \in grants
  /\ grants' = grants \ {t}
  /\ revoked' = revoked \cup {t}
  /\ UNCHANGED <<file, saves, session, plan, trust, cuts, overlap, calls>>

(* revoke: nothing is saved when nothing was removed. *)
Revoke(c, t) ==
  /\ Answered(c)
  /\ t \in grants
  /\ grants' = grants \ {t}
  /\ Save(c, grants \ {t}, {t})
  /\ UNCHANGED <<file, session, plan, trust, cuts, revoked, calls>>

RevokeSession(t) ==
  /\ t \in session
  /\ session' = session \ {t}
  /\ UNCHANGED <<grants, file, saves, plan, trust, answers, cuts, revoked, overlap, calls>>

(* fs::write empties the file... *)
SaveTruncates(c) ==
  /\ saves[c].at = "write"
  /\ file' = Garbage
  /\ saves' = [saves EXCEPT ![c].at = "fill"]
  /\ UNCHANGED <<grants, session, plan, trust, answers, cuts, revoked, overlap, calls>>

(* ...and fills it; the call returns. *)
SaveFills(c) ==
  /\ saves[c].at = "fill"
  /\ file' = saves[c].list
  /\ revoked' = revoked \cup (saves[c].drops \ grants)
  /\ saves' = [saves EXCEPT ![c] = NoSave]
  /\ UNCHANGED <<grants, session, plan, trust, answers, cuts, overlap, calls>>

(* A write that fails is logged, and the call returns all the same. *)
SaveFails(c) ==
  /\ saves[c] # NoSave
  /\ cuts < MaxCuts
  /\ cuts' = cuts + 1
  /\ overlap' = TRUE
  /\ saves' = [saves EXCEPT ![c] = NoSave]
  /\ UNCHANGED <<grants, file, session, plan, trust, answers, revoked, calls>>

(* The process ends and starts again. *)
RestartApproval ==
  /\ cuts < MaxCuts
  /\ cuts' = cuts + 1
  /\ grants' = Loaded
  /\ saves' = [c \in Callers |-> NoSave]
  /\ session' = {}
  /\ plan' = NoPlan
  /\ trust' = [score |-> 100, samples |-> 0, failed |-> FALSE]
  /\ calls' = <<>>
  /\ UNCHANGED <<file, answers, revoked, overlap>>

----------------------------------------------------------------------------
(* Plans. *)

ApprovePlan ==
  /\ plan = NoPlan
  /\ calls = <<>>
  /\ plan' = [cursor |-> 1]
  /\ UNCHANGED <<grants, file, saves, session, trust, answers, cuts, revoked, overlap, calls>>

(* ApprovedPlan::check_next: the tool of the step at the cursor, and       *)
(* arguments within the bounds of that step.                               *)
FitsStep(t, within) ==
  /\ plan # NoPlan
  /\ plan.cursor <= Len(Plan)
  /\ Plan[plan.cursor] = t
  /\ within

(* check_plan_call: the step is used up; the plan goes with its last step, *)
(* and at the first call that does not fit.                                *)
CheckPlanCall(t, within) ==
  /\ Len(calls) < MaxCalls
  /\ calls' = Append(calls, [tool |-> t, ok |-> FitsStep(t, within)])
  /\ plan' = IF FitsStep(t, within) /\ plan.cursor < Len(Plan)
             THEN [cursor |-> plan.cursor + 1] ELSE NoPlan
  /\ UNCHANGED <<grants, file, saves, session, trust, answers, cuts, revoked, overlap>>

----------------------------------------------------------------------------
(* Trust. *)

Clamped(s) == IF s < 0 THEN 0 ELSE IF s > 100 THEN 100 ELSE s

OutcomeDelta(success, anomaly) ==
  (IF success THEN 0 ELSE -34) - (IF anomaly THEN 25 ELSE 0)
    + (IF success /\ ~anomaly THEN 5 ELSE 0)

(* TrustScorer::record; a latency is anomalous only next to three others. *)
RecordOutcome(success, anomaly) ==
  /\ anomaly => trust.samples = 3
  /\ trust' = [score |-> Clamped(trust.score + OutcomeDelta(success, anomaly)),
               samples |-> IF trust.samples < 3 THEN trust.samples + 1 ELSE 3,
               failed |-> ~success]
  /\ UNCHANGED <<grants, file, saves, session, plan, answers, cuts, revoked, overlap, calls>>

TrustLevel ==
  IF trust.score >= 70 THEN "trusted" ELSE IF trust.score >= 30 THEN "probation" ELSE "untrusted"

(* trust::gate, of a physical action. *)
TrustGate(risk) ==
  CASE TrustLevel = "trusted" -> "allow"
    [] TrustLevel = "probation" /\ risk.blast # "high" -> "ask"
    [] OTHER -> "deny"

(* needs_approval, at an autonomy level other than Full. *)
NeedsApproval(t) ==
  t \in AlwaysAsk \/ t \notin AutoApprove \cup session \cup grants

(* decide_gated, of a physical action on the node. *)
Decide(t, risk) ==
  CASE TrustGate(risk) # "allow" -> TrustGate(risk)
    [] ~risk.reversible /\ t \notin AutoApprove \cup session -> "ask"
    [] NeedsApproval(t) -> "ask"
    [] OTHER -> "allow"

Risks == [reversible : BOOLEAN, blast : {"low", "high"}]

ApprovalNext ==
  \/ \E c \in Callers, t \in Tools : AnswerForever(c, t) \/ AnswerAlways(c, t) \/ Revoke(c, t)
  \/ \E t \in Tools : RevokeSession(t)
  \/ \E c \in Callers : SaveTruncates(c) \/ SaveFills(c) \/ SaveFails(c)
  \/ RestartApproval
  \/ ApprovePlan
  \/ \E t \in Tools, within \in BOOLEAN : CheckPlanCall(t, within)
  \/ \E success, anomaly \in BOOLEAN : RecordOutcome(success, anomaly)

----------------------------------------------------------------------------
(* A revocation that returned is for good: neither the map nor what a      *)
(* restart would load has the tool again until the operator grants it,     *)
(* through process ends at any point of the write.  Two saves at once      *)
(* (lib.rs:249 writes outside the lock) or a failed write void it.         *)
RevokedIsGone ==
  ~overlap => revoked \cap (grants \cup Loaded) = {}

(* The calls a plan admits are its steps, in their order, each once; after *)
(* the first call that drifts from it none is admitted (lib.rs:728, "halt  *)
(* on drift").                                                             *)
PlanAdmitsItsSteps ==
  LET n == Cardinality({i \in DOMAIN calls : calls[i].ok})
  IN /\ \A i \in DOMAIN calls : calls[i].ok <=> i <= n
     /\ n <= Len(Plan)
     /\ \A i \in 1 .. n : calls[i].tool = Plan[i]

(* A node whose last outcome was a failure does nothing physical on the    *)
(* strength of an old grant, whatever it had earned before.                *)
FailedNodeAsks ==
  trust.failed => \A t \in Tools, r \in Risks : Decide(t, r) # "allow"

(* What was let through was let through by somebody who still does. *)
ApprovalStands == RevokedIsGone /\ PlanAdmitsItsSteps /\ FailedNodeAsks
=============================================================================
