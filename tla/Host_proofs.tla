------------------------------ MODULE Host_proofs ------------------------------
(* What a host lets through and does on its own: the approval gate, the audit*)
(* log that keeps what was let through, its reflexes, and the limits it      *)
(* pushes to a node.                                                         *)
(* Proved for any tools, callers, plan, records, rules, budget, facts and    *)
(* boots.                                                                    *)
EXTENDS Approval, AuditLog, HostReflex, LimitsHydration, InOrder_proofs, FiniteSetTheorems, SequenceTheorems, TLAPS

\* The gate, and nothing beside it.
ApprovalSpec == ApprovalInit /\ [][ApprovalNext]_approvalVars

-----------------------------------------------------------------------------
(* Revocations *)

GrantTypes ==
  /\ saves \in [Callers -> [at : {"none", "write", "fill"}, list : SUBSET Tools,
                            drops : SUBSET Tools]]
  /\ overlap \in BOOLEAN

\* Unless two saves ran together or one failed, a save under way writes what is
\* granted, and nothing revoked is granted or would be loaded.
SavesAreCurrent == ~overlap => \A c \in Saving : saves[c].list = grants

GrantInv ==
  /\ GrantTypes
  /\ grants \subseteq Tools /\ file \in (SUBSET Tools) \cup {Garbage}
  /\ SavesAreCurrent
  /\ RevokedIsGone

\* A save begun for the list just put in the map is the only one, or is noted
\* as overlapping.
LEMMA SaveKeepsCurrent ==
  ASSUME GrantInv, NEW c \in Callers, NEW list \in SUBSET Tools, NEW drops \in SUBSET Tools,
         Save(c, list, drops), grants' = list
  PROVE  GrantTypes' /\ SavesAreCurrent'
<1> USE DEF GrantInv, GrantTypes
<1>1. /\ saves' = [saves EXCEPT ![c] = [at |-> "write", list |-> list, drops |-> drops]]
      /\ overlap' = (overlap \/ Saving # {})
  BY DEF Save
<1>2. GrantTypes'
  BY <1>1
<1>3. SavesAreCurrent'
  <2> SUFFICES ASSUME ~overlap', NEW d \in Saving' PROVE saves'[d].list = list
    BY DEF SavesAreCurrent
  <2>1. Saving = {}
    BY <1>1
  <2>2. d \in Callers /\ saves'[d].at # "none"
    BY DEF Saving
  <2>3. d = c
    BY <1>1, <2>1, <2>2 DEF Saving
  <2> QED
    BY <1>1, <2>3
<1> QED
  BY <1>2, <1>3

\* No answer, save, restart or call brings a revoked grant back.
LEMMA GrantStep == GrantInv /\ [ApprovalNext]_approvalVars => GrantInv'
<1> SUFFICES ASSUME GrantInv, [ApprovalNext]_approvalVars PROVE GrantInv'
  OBVIOUS
<1> USE DEF GrantInv
<1>1. ASSUME NEW c \in Callers, NEW t \in Tools, AnswerForever(c, t) PROVE GrantInv'
  <2>1. /\ grants' = grants \cup {t} /\ revoked' = revoked \ {t} /\ file' = file
        /\ Save(c, grants \cup {t}, {})
    BY <1>1 DEF AnswerForever
  <2>2. GrantTypes' /\ SavesAreCurrent'
    BY <2>1, SaveKeepsCurrent
  <2>3. RevokedIsGone'
    BY <2>1 DEF RevokedIsGone, Loaded, Save, GrantTypes
  <2> QED
    BY <2>1, <2>2, <2>3
<1>2. ASSUME NEW c \in Callers, NEW t \in Tools, AnswerAlways(c, t) PROVE GrantInv'
  BY <1>2 DEF AnswerAlways, GrantTypes, SavesAreCurrent, Saving, RevokedIsGone, Loaded
<1>3. ASSUME NEW c \in Callers, NEW t \in Tools, Revoke(c, t) PROVE GrantInv'
  <2>1. /\ grants' = grants \ {t} /\ UNCHANGED <<file, revoked>>
        /\ Save(c, grants \ {t}, {t})
    BY <1>3 DEF Revoke
  <2>2. GrantTypes' /\ SavesAreCurrent'
    BY <2>1, SaveKeepsCurrent
  <2>3. RevokedIsGone'
    BY <2>1 DEF RevokedIsGone, Loaded, Save, GrantTypes
  <2> QED
    BY <2>1, <2>2, <2>3
<1>4. ASSUME NEW t \in Tools, RevokeSession(t) PROVE GrantInv'
  BY <1>4 DEF RevokeSession, GrantTypes, SavesAreCurrent, Saving, RevokedIsGone, Loaded
<1>5. ASSUME NEW c \in Callers, SaveTruncates(c) PROVE GrantInv'
  <2>1. /\ saves[c].at = "write" /\ file' = Garbage
        /\ saves' = [saves EXCEPT ![c].at = "fill"]
        /\ UNCHANGED <<grants, revoked, overlap>>
    BY <1>5 DEF SaveTruncates
  <2>2. GrantTypes' /\ Saving' = Saving /\ \A d \in Callers : saves'[d].list = saves[d].list
    BY <2>1 DEF GrantTypes, Saving
  <2>3. SavesAreCurrent'
    BY <2>1, <2>2 DEF SavesAreCurrent, Saving
  <2>4. RevokedIsGone'
    BY <2>1 DEF RevokedIsGone, Loaded
  <2> QED
    BY <2>1, <2>2, <2>3, <2>4
<1>6. ASSUME NEW c \in Callers, SaveFills(c) PROVE GrantInv'
  <2>1. /\ saves[c].at = "fill" /\ file' = saves[c].list
        /\ revoked' = revoked \cup (saves[c].drops \ grants)
        /\ saves' = [saves EXCEPT ![c] = NoSave]
        /\ UNCHANGED <<grants, overlap>>
        /\ saves[c].list \subseteq Tools
    BY <1>6 DEF SaveFills, GrantTypes
  <2>2. GrantTypes' /\ Saving' \subseteq Saving /\ \A d \in Saving' : saves'[d] = saves[d]
    BY <2>1 DEF GrantTypes, Saving, NoSave
  <2>3. SavesAreCurrent'
    BY <2>1, <2>2 DEF SavesAreCurrent
  <2>4. RevokedIsGone'
    <3> SUFFICES ASSUME ~overlap PROVE revoked' \cap (grants \cup Loaded') = {}
      BY <2>1 DEF RevokedIsGone
    <3>1. saves[c].list = grants
      BY <2>1 DEF SavesAreCurrent, Saving
    <3>2. Loaded' \subseteq grants
      BY <2>1, <3>1 DEF Loaded
    <3>3. revoked \cap grants = {}
      BY DEF RevokedIsGone
    <3> QED
      BY <2>1, <3>2, <3>3
  <2> QED
    BY <2>1, <2>2, <2>3, <2>4
<1>7. ASSUME NEW c \in Callers, SaveFails(c) PROVE GrantInv'
  <2>1. /\ overlap' = TRUE /\ saves' = [saves EXCEPT ![c] = NoSave]
        /\ UNCHANGED <<grants, file>>
    BY <1>7 DEF SaveFails
  <2> QED
    BY <2>1 DEF GrantTypes, SavesAreCurrent, RevokedIsGone, NoSave
<1>8. CASE RestartApproval
  <2>1. /\ grants' = Loaded /\ saves' = [c \in Callers |-> NoSave]
        /\ UNCHANGED <<file, revoked, overlap>>
    BY <1>8 DEF RestartApproval
  <2>2. grants' \subseteq Tools /\ Loaded' = Loaded
    BY <2>1 DEF Loaded
  <2>3. GrantTypes' /\ SavesAreCurrent'
    BY <2>1 DEF GrantTypes, SavesAreCurrent, Saving, NoSave
  <2>4. RevokedIsGone'
    BY <2>1, <2>2 DEF RevokedIsGone
  <2> QED
    BY <2>1, <2>2, <2>3, <2>4
<1>9. CASE UNCHANGED <<grants, file, saves, revoked, overlap>>
  BY <1>9 DEF GrantTypes, SavesAreCurrent, Saving, RevokedIsGone, Loaded
<1> QED
  BY <1>1, <1>2, <1>3, <1>4, <1>5, <1>6, <1>7, <1>8, <1>9
     DEF ApprovalNext, ApprovePlan, CheckPlanCall, RecordOutcome, approvalVars

-----------------------------------------------------------------------------
(* Plans *)

Verdict == [tool : Tools, ok : BOOLEAN]

\* The first n calls of q were admitted as the first n steps, and no other.
FirstAdmitted(q, n) ==
  /\ n <= Len(q) /\ n <= Len(Plan)
  /\ \A i \in 1 .. n : q[i].ok = TRUE /\ q[i].tool = Plan[i]
  /\ \A i \in n + 1 .. Len(q) : q[i].ok = FALSE

\* So it is of the calls; a plan still in force has its cursor on the next step.
PlanInv ==
  /\ calls \in Seq(Verdict)
  /\ \E n \in Nat :
       /\ FirstAdmitted(calls, n)
       /\ plan # NoPlan => n = Len(calls) /\ plan.cursor = n + 1

\* Nothing admitted of nothing called.
LEMMA NoneAdmitted == <<>> \in Seq(Verdict) /\ FirstAdmitted(<<>>, 0)
<1>1. Len(Plan) \in Nat
  BY ApprovalAssumption
<1> QED
  BY <1>1 DEF FirstAdmitted

\* One more call: what it leaves as it was, and what it adds.
LEMMA OneMoreCall ==
  ASSUME NEW q \in Seq(Verdict), NEW v \in Verdict
  PROVE  /\ Append(q, v) \in Seq(Verdict)
         /\ Len(q) \in Nat /\ Len(Append(q, v)) = Len(q) + 1
         /\ \A i \in 1 .. Len(q) : Append(q, v)[i] = q[i]
         /\ Append(q, v)[Len(q) + 1] = v
OBVIOUS

\* A call that drifts leaves the count of the admitted where it was.
LEMMA DriftAdmitsNone ==
  ASSUME NEW q \in Seq(Verdict), NEW n \in Nat, FirstAdmitted(q, n),
         NEW v \in Verdict, v.ok = FALSE
  PROVE  FirstAdmitted(Append(q, v), n)
<1> DEFINE r == Append(q, v)
<1>1. /\ Len(q) \in Nat /\ Len(r) = Len(q) + 1
      /\ \A i \in 1 .. Len(q) : r[i] = q[i]
      /\ r[Len(q) + 1] = v
  BY OneMoreCall
<1> HIDE DEF r
<1>2. n <= Len(q) /\ n <= Len(Plan)
  BY DEF FirstAdmitted
<1>3. \A i \in 1 .. n : r[i].ok = TRUE /\ r[i].tool = Plan[i]
  BY <1>1, <1>2 DEF FirstAdmitted
<1>4. ASSUME NEW i \in n + 1 .. Len(r) PROVE r[i].ok = FALSE
  <2>1. CASE i = Len(q) + 1
    BY <1>1, <2>1
  <2>2. CASE i # Len(q) + 1
    <3>1. i \in n + 1 .. Len(q) /\ i \in 1 .. Len(q)
      BY <1>1, <1>2, <2>2
    <3> QED
      BY <1>1, <3>1 DEF FirstAdmitted
  <2> QED
    BY <2>1, <2>2
<1>5. n <= Len(r)
  BY <1>1, <1>2
<1>6. FirstAdmitted(r, n)
  BY <1>2, <1>3, <1>4, <1>5 DEF FirstAdmitted
<1> QED
  BY <1>6 DEF r

\* A call for the next step, with all before it admitted, is the next admitted.
LEMMA NextStepAdmits ==
  ASSUME NEW q \in Seq(Verdict), FirstAdmitted(q, Len(q)), Len(q) + 1 <= Len(Plan),
         NEW v \in Verdict, v.ok = TRUE, v.tool = Plan[Len(q) + 1]
  PROVE  FirstAdmitted(Append(q, v), Len(q) + 1)
<1> DEFINE r == Append(q, v)
<1>1. /\ Len(q) \in Nat /\ Len(r) = Len(q) + 1
      /\ \A i \in 1 .. Len(q) : r[i] = q[i]
      /\ r[Len(q) + 1] = v
  BY OneMoreCall
<1> HIDE DEF r
<1>2. ASSUME NEW i \in 1 .. Len(q) + 1 PROVE r[i].ok = TRUE /\ r[i].tool = Plan[i]
  <2>1. CASE i = Len(q) + 1
    BY <1>1, <2>1
  <2>2. CASE i # Len(q) + 1
    <3>1. i \in 1 .. Len(q)
      BY <1>1, <2>2
    <3> QED
      BY <1>1, <3>1 DEF FirstAdmitted
  <2> QED
    BY <2>1, <2>2
<1>3. \A i \in (Len(q) + 1) + 1 .. Len(r) : r[i].ok = FALSE
  BY <1>1
<1>4. FirstAdmitted(r, Len(q) + 1)
  BY <1>1, <1>2, <1>3 DEF FirstAdmitted
<1> QED
  BY <1>4 DEF r

\* The admitted calls counted: the calls 1 .. n.
LEMMA AdmittedCount ==
  ASSUME NEW q \in Seq(Verdict), NEW n \in Nat, FirstAdmitted(q, n)
  PROVE  /\ Cardinality({i \in DOMAIN q : q[i].ok}) = n
         /\ \A i \in DOMAIN q : q[i].ok <=> i <= n
<1>1. DOMAIN q = 1 .. Len(q) /\ Len(q) \in Nat /\ n <= Len(q)
  BY DEF FirstAdmitted
<1>2. ASSUME NEW i \in DOMAIN q PROVE q[i].ok <=> i <= n
  <2>1. CASE i <= n
    BY <1>1, <2>1 DEF FirstAdmitted
  <2>2. CASE ~(i <= n)
    <3>1. i \in n + 1 .. Len(q)
      BY <1>1, <2>2
    <3>2. q[i].ok = FALSE
      BY <3>1 DEF FirstAdmitted
    <3> QED
      BY <2>2, <3>2
  <2> QED
    BY <2>1, <2>2
<1>3. {i \in DOMAIN q : i <= n} = 1 .. n
  BY <1>1
<1>4. {i \in DOMAIN q : q[i].ok} = {i \in DOMAIN q : i <= n}
  BY <1>2
<1>5. Cardinality(1 .. n) = n
  BY FS_Interval
<1> QED
  BY <1>2, <1>3, <1>4, <1>5

\* A step of the gate admits the next step of the plan in force, or none.
LEMMA PlanStep == PlanInv /\ [ApprovalNext]_approvalVars => PlanInv'
<1> SUFFICES ASSUME PlanInv, [ApprovalNext]_approvalVars PROVE PlanInv'
  OBVIOUS
<1>1. CASE UNCHANGED <<plan, calls>>
  BY <1>1 DEF PlanInv
<1>2. CASE RestartApproval
  <2>1. calls' = <<>> /\ plan' = NoPlan
    BY <1>2 DEF RestartApproval
  <2> QED
    BY <2>1, NoneAdmitted DEF PlanInv
<1>3. CASE ApprovePlan
  <2>1. calls' = <<>> /\ plan' = [cursor |-> 1]
    BY <1>3 DEF ApprovePlan
  <2>2. Len(<<>>) = 0 /\ plan'.cursor = 0 + 1
    BY <2>1
  <2> QED
    BY <2>1, <2>2, NoneAdmitted DEF PlanInv
<1>4. ASSUME NEW t \in Tools, NEW within \in BOOLEAN, CheckPlanCall(t, within) PROVE PlanInv'
  <2> DEFINE v == [tool |-> t, ok |-> FitsStep(t, within)]
  <2>1. /\ calls' = Append(calls, v)
        /\ plan' = IF FitsStep(t, within) /\ plan.cursor < Len(Plan)
                   THEN [cursor |-> plan.cursor + 1] ELSE NoPlan
    BY <1>4 DEF CheckPlanCall
  <2>2. v \in Verdict /\ v.tool = t /\ v.ok = FitsStep(t, within)
    BY DEF FitsStep, Verdict
  <2> HIDE DEF v
  <2>3. PICK n \in Nat : /\ FirstAdmitted(calls, n)
                         /\ plan # NoPlan => n = Len(calls) /\ plan.cursor = n + 1
    BY DEF PlanInv
  <2>4. calls \in Seq(Verdict) /\ calls' \in Seq(Verdict) /\ Len(calls') = Len(calls) + 1
    BY <2>1, <2>2, OneMoreCall DEF PlanInv
  <2>5. CASE FitsStep(t, within)
    <3>1. plan # NoPlan /\ plan.cursor <= Len(Plan) /\ Plan[plan.cursor] = t /\ v.ok = TRUE
      BY <2>2, <2>5 DEF FitsStep
    <3>2. FirstAdmitted(calls', Len(calls) + 1)
      BY <2>1, <2>2, <2>3, <2>4, <3>1, NextStepAdmits
    <3>3. plan' # NoPlan => plan'.cursor = Len(calls') + 1
      BY <2>1, <2>3, <2>4, <3>1
    <3> QED
      BY <2>4, <3>2, <3>3 DEF PlanInv
  <2>6. CASE ~FitsStep(t, within)
    <3>1. plan' = NoPlan /\ v.ok = FALSE
      BY <2>1, <2>2, <2>6
    <3>2. FirstAdmitted(calls', n)
      BY <2>1, <2>2, <2>3, <2>4, <3>1, DriftAdmitsNone
    <3> QED
      BY <2>4, <3>1, <3>2 DEF PlanInv
  <2> QED
    BY <2>5, <2>6
<1> QED
  BY <1>1, <1>2, <1>3, <1>4
     DEF ApprovalNext, AnswerForever, AnswerAlways, Revoke, RevokeSession, SaveTruncates,
         SaveFills, SaveFails, RecordOutcome, approvalVars

-----------------------------------------------------------------------------
(* Trust *)

\* A failure costs a node enough to leave the trusted level.
TrustInv ==
  /\ trust \in [score : 0 .. 100, samples : 0 .. 3, failed : BOOLEAN]
  /\ trust.failed => trust.score < 70

\* No outcome leaves a node that failed above the trusted level's floor.
LEMMA TrustStep == TrustInv /\ [ApprovalNext]_approvalVars => TrustInv'
<1> SUFFICES ASSUME TrustInv, [ApprovalNext]_approvalVars PROVE TrustInv'
  OBVIOUS
<1> USE DEF TrustInv
<1>1. CASE UNCHANGED trust
  BY <1>1
<1>2. CASE RestartApproval
  <2>1. trust' = [score |-> 100, samples |-> 0, failed |-> FALSE]
    BY <1>2 DEF RestartApproval
  <2> QED
    BY <2>1
<1>3. ASSUME NEW success \in BOOLEAN, NEW anomaly \in BOOLEAN, RecordOutcome(success, anomaly)
      PROVE  TrustInv'
  <2> DEFINE s == Clamped(trust.score + OutcomeDelta(success, anomaly))
             n == IF trust.samples < 3 THEN trust.samples + 1 ELSE 3
  <2>1. trust' = [score |-> s, samples |-> n, failed |-> ~success]
    BY <1>3 DEF RecordOutcome
  <2>2. trust.score \in 0 .. 100 /\ trust.samples \in 0 .. 3
    OBVIOUS
  <2>3. OutcomeDelta(success, anomaly) \in Int /\ (~success => OutcomeDelta(success, anomaly) <= -34)
    BY DEF OutcomeDelta
  <2>4. s \in 0 .. 100 /\ (~success => s < 70)
    BY <2>2, <2>3 DEF Clamped
  <2>5. n \in 0 .. 3
    BY <2>2
  <2> HIDE DEF s, n
  <2> QED
    BY <2>1, <2>4, <2>5
<1> QED
  BY <1>1, <1>2, <1>3
     DEF ApprovalNext, AnswerForever, AnswerAlways, Revoke, RevokeSession, SaveTruncates,
         SaveFills, SaveFails, ApprovePlan, CheckPlanCall, approvalVars

\* Below the trusted level no physical action is simply allowed.
LEMMA FailedIsGated == TrustInv => FailedNodeAsks
<1> SUFFICES ASSUME TrustInv, trust.failed, NEW t \in Tools, NEW r \in Risks
             PROVE  Decide(t, r) # "allow"
  BY DEF FailedNodeAsks
<1>1. TrustLevel # "trusted"
  BY DEF TrustInv, TrustLevel
<1>2. TrustGate(r) # "allow"
  BY <1>1 DEF TrustGate
<1> QED
  BY <1>2 DEF Decide

-----------------------------------------------------------------------------

\* What was let through was let through by somebody who still does: a grant not
\* revoked, the next step of a plan, a node whose last outcome was no failure
\* (ForeverGrants, check_plan_call, decide_gated).
THEOREM ApprovalAlwaysStands == ApprovalSpec => []ApprovalStands
<1>1. ApprovalInit => GrantInv /\ PlanInv /\ TrustInv
  <2> SUFFICES ASSUME ApprovalInit PROVE GrantInv /\ PlanInv /\ TrustInv
    OBVIOUS
  <2>1. GrantInv
    BY DEF ApprovalInit, GrantInv, GrantTypes, SavesAreCurrent, Saving, RevokedIsGone, NoSave
  <2>2. PlanInv
    <3>1. calls = <<>> /\ plan = NoPlan
      BY DEF ApprovalInit
    <3> QED
      BY <3>1, NoneAdmitted DEF PlanInv
  <2>3. TrustInv
    BY DEF ApprovalInit, TrustInv
  <2> QED
    BY <2>1, <2>2, <2>3
<1>2. GrantInv /\ PlanInv /\ TrustInv => ApprovalStands
  <2> SUFFICES ASSUME GrantInv, PlanInv, TrustInv PROVE ApprovalStands
    OBVIOUS
  <2>1. PICK n \in Nat : FirstAdmitted(calls, n)
    BY DEF PlanInv
  <2>2. /\ Cardinality({i \in DOMAIN calls : calls[i].ok}) = n
        /\ \A i \in DOMAIN calls : calls[i].ok <=> i <= n
    BY <2>1, AdmittedCount DEF PlanInv
  <2>3. n <= Len(Plan) /\ \A i \in 1 .. n : calls[i].tool = Plan[i]
    BY <2>1 DEF FirstAdmitted
  <2>4. PlanAdmitsItsSteps
    BY <2>2, <2>3 DEF PlanAdmitsItsSteps
  <2> QED
    BY <2>4, FailedIsGated DEF GrantInv, ApprovalStands
<1> QED
  BY <1>1, <1>2, GrantStep, PlanStep, TrustStep, PTL DEF ApprovalSpec

-----------------------------------------------------------------------------
(* The audit log *)

\* The log, and nothing beside it.
AuditSpec == AuditInit /\ [][AuditNext]_auditVars

WholeRecord == [seq : Nat, prev : Nat, mac : Nat]
AuditRecord == WholeRecord \cup {HalfLine}

AuditTypes ==
  /\ log \in Seq(Seq(AuditRecord))
  /\ ended \in BOOLEAN
  /\ auditor \in [open : BOOLEAN, seq : Nat, prev : Nat]
  /\ writing = Idle \/ writing \in WholeRecord
  /\ writes \in Nat
  /\ acked \in Seq(Nat)
  /\ cut \in BOOLEAN

\* The macs of the first n lines.
Macs(n) == [i \in 1 .. n |-> log[i][1].mac]

\* Between two calls the open line is ended, the calls that returned are the
\* lines of the log, and an auditor that is open chains to the last of them.
RestAgrees ==
  writing = Idle =>
    /\ ended
    /\ acked = Macs(Len(log))
    /\ auditor.open => /\ auditor.seq = Len(log)
                       /\ auditor.prev = IF log = <<>> THEN Genesis ELSE log[Len(log)][1].mac

\* Within a call its record is the last line, and the chain still ends before it.
WriteAgrees ==
  writing # Idle =>
    /\ auditor.open
    /\ log # <<>>
    /\ acked = Macs(Len(log) - 1)
    /\ writing = log[Len(log)][1]
    /\ auditor.seq + 1 = Len(log)

\* A line without its newline is a line of the log, and so is one being written.
OpenLine == (~ended => log # <<>>) /\ (writing # Idle => ~ended)

AuditInv == AuditTypes /\ OpenLine /\ (~cut => Verifies /\ RestAgrees /\ WriteAgrees)

\* A record is composed whole: it is not half a line, nor the mark of no call.
LEMMA ComposedWhole ==
  ASSUME AuditTypes
  PROVE  /\ Composed \in WholeRecord /\ Composed # HalfLine /\ Composed # Idle
         /\ Composed.seq = auditor.seq /\ Composed.prev = auditor.prev
<1>1. /\ Composed \in WholeRecord
      /\ Composed.seq = auditor.seq /\ Composed.prev = auditor.prev /\ Composed.mac = writes + 1
  BY DEF AuditTypes, Composed, WholeRecord
<1>2. HalfLine.seq = -1 /\ Idle.mac = 0
  BY DEF HalfLine, Idle
<1> QED
  BY <1>1, <1>2 DEF AuditTypes

\* A piece put into the file makes it a longer log of lines.
LEMMA AppendedType ==
  ASSUME AuditTypes, NEW piece \in AuditRecord, ended \/ log # <<>>
  PROVE  Appended(piece) \in Seq(Seq(AuditRecord)) /\ Appended(piece) # <<>>
<1>1. CASE ended
  <2>1. <<piece>> \in Seq(AuditRecord)
    OBVIOUS
  <2> QED
    <3>1. log \in Seq(Seq(AuditRecord)) /\ Appended(piece) = Append(log, <<piece>>)
      BY <1>1 DEF AuditTypes, Appended
    <3>2. Append(log, <<piece>>) \in Seq(Seq(AuditRecord)) /\ Len(Append(log, <<piece>>)) = Len(log) + 1
      BY <2>1, <3>1
    <3> QED
      BY <3>1, <3>2
<1>2. CASE ~ended
  <2>1. Len(log) \in DOMAIN log /\ log[Len(log)] \in Seq(AuditRecord)
    BY <1>2 DEF AuditTypes
  <2>2. Append(log[Len(log)], piece) \in Seq(AuditRecord)
    BY <2>1
  <2> QED
    BY <1>2, <2>1, <2>2 DEF AuditTypes, Appended
<1> QED
  BY <1>1, <1>2

\* A record on its way to the file, into a line of its own or a broken one.
LEMMA WriteTypes ==
  ASSUME AuditInv, RecordWritten
  PROVE  AuditTypes' /\ OpenLine'
<1>1. Composed \in WholeRecord /\ Composed \in AuditRecord
  BY ComposedWhole DEF AuditInv, AuditRecord
<1>2. log' \in Seq(Seq(AuditRecord)) /\ log' # <<>>
  BY <1>1, AppendedType DEF AuditInv, OpenLine, RecordWritten
<1>3. writes + 1 \in Nat
  BY DEF AuditInv, AuditTypes
<1> QED
  BY <1>1, <1>2, <1>3 DEF AuditInv, AuditTypes, OpenLine, RecordWritten

\* A line behind the others, one whole record that chains to them.
LEMMA LineAdded ==
  ASSUME AuditInv, ~cut, RecordWritten
  PROVE  AuditInv'
<1> DEFINE n == Len(log)
<1>1. /\ AuditTypes /\ Verifies /\ ended /\ acked = Macs(n)
      /\ auditor.seq = n
      /\ auditor.prev = IF log = <<>> THEN Genesis ELSE log[n][1].mac
  BY DEF AuditInv, RestAgrees, RecordWritten, CanWrite
<1>2. /\ log' = Append(log, <<Composed>>) /\ writing' = Composed /\ ended' = FALSE
      /\ writes' = writes + 1 /\ UNCHANGED <<auditor, acked, cut>>
  BY <1>1 DEF RecordWritten, Appended
<1>3. /\ Composed \in WholeRecord /\ Composed \in AuditRecord /\ Composed # HalfLine /\ Composed # Idle
      /\ Composed.seq = n /\ Composed.prev = auditor.prev
  BY <1>1, ComposedWhole DEF AuditRecord
<1>4. /\ log' \in Seq(Seq(AuditRecord)) /\ Len(log') = n + 1 /\ DOMAIN log' = 1 .. n + 1
      /\ DOMAIN log = 1 .. n /\ n \in Nat
      /\ \A i \in 1 .. n : log'[i] = log[i]
      /\ log'[n + 1] = <<Composed>>
  <2>1. log \in Seq(Seq(AuditRecord)) /\ <<Composed>> \in Seq(AuditRecord)
    BY <1>1, <1>3 DEF AuditTypes
  <2> QED
    BY <1>2, <2>1
<1> HIDE DEF n
<1>5. AuditTypes' /\ OpenLine'
  BY WriteTypes
<1>6. Verifies'
  <2>1. ASSUME NEW i \in 1 .. n + 1
        PROVE  Parses(log'[i]) /\ log'[i][1].seq = i - 1
    <3>1. CASE i \in 1 .. n
      BY <1>1, <1>4, <3>1 DEF Verifies
    <3>2. CASE i = n + 1
      <4>1. log'[i] = <<Composed>> /\ log'[i][1] = Composed /\ Len(log'[i]) = 1
        <5>1. <<Composed>>[1] = Composed /\ Len(<<Composed>>) = 1
          OBVIOUS
        <5> QED
          BY <1>4, <3>2, <5>1
      <4> QED
        BY <1>3, <1>4, <3>2, <4>1 DEF Parses
    <3> QED
      BY <1>4, <3>1, <3>2
  <2>2. ASSUME NEW i \in 1 .. n + 1
        PROVE  log'[i][1].prev = IF i = 1 THEN Genesis ELSE log'[i - 1][1].mac
    <3>1. CASE i \in 1 .. n
      <4>1. i = 1 \/ i - 1 \in 1 .. n
        BY <1>4, <3>1
      <4> QED
        BY <1>1, <1>4, <3>1, <4>1 DEF Verifies
    <3>2. CASE i = n + 1
      <4>1. log'[i][1] = Composed
        BY <1>4, <3>2
      <4>2. CASE log = <<>>
        BY <1>1, <1>3, <3>2, <4>1, <4>2 DEF n
      <4>3. CASE log # <<>>
        <5>1. n \in 1 .. n /\ i # 1 /\ i - 1 = n
          BY <1>1, <3>2, <4>3 DEF n, AuditTypes
        <5> QED
          BY <1>1, <1>3, <1>4, <4>1, <4>3, <5>1
      <4> QED
        BY <4>2, <4>3
    <3> QED
      BY <1>4, <3>1, <3>2
  <2> QED
    BY <1>4, <2>1, <2>2 DEF Verifies
<1>7. WriteAgrees'
  <2>1. acked' = [i \in 1 .. n |-> log'[i][1].mac]
    BY <1>1, <1>2, <1>4 DEF Macs
  <2>2. Len(log') - 1 = n /\ log' # <<>> /\ log'[Len(log')][1] = Composed
    BY <1>4
  <2>3. auditor'.open /\ auditor'.seq + 1 = Len(log')
    BY <1>1, <1>2, <1>4 DEF RecordWritten, CanWrite
  <2> QED
    BY <1>2, <2>1, <2>2, <2>3 DEF WriteAgrees, Macs
<1>8. RestAgrees'
  BY <1>2, <1>3 DEF RestAgrees
<1> QED
  BY <1>5, <1>6, <1>7, <1>8 DEF AuditInv

\* The newline is there: the call returns, and the chain ends with its record.
LEMMA LineEnded ==
  ASSUME AuditInv, RecordReturns
  PROVE  AuditInv'
<1> DEFINE n == Len(log)
<1>1. /\ writing # Idle /\ ended' = TRUE
      /\ auditor' = [auditor EXCEPT !.seq = @ + 1, !.prev = writing.mac]
      /\ acked' = Append(acked, writing.mac)
      /\ writing' = Idle
      /\ UNCHANGED <<log, writes, cut>>
  BY DEF RecordReturns
<1>2. writing.mac \in Nat
  BY <1>1 DEF AuditInv, AuditTypes, WholeRecord
<1>3. AuditTypes'
  <2>1. acked' \in Seq(Nat)
    <3>1. acked \in Seq(Nat)
      BY DEF AuditInv, AuditTypes
    <3> QED
      BY <1>1, <1>2, <3>1
  <2>2. auditor' \in [open : BOOLEAN, seq : Nat, prev : Nat]
    <3>1. auditor \in [open : BOOLEAN, seq : Nat, prev : Nat]
      BY DEF AuditInv, AuditTypes
    <3>2. auditor' = [open |-> auditor.open, seq |-> auditor.seq + 1, prev |-> writing.mac]
      BY <1>1, <3>1
    <3> QED
      BY <1>2, <3>1, <3>2
  <2> QED
    BY <1>1, <2>1, <2>2 DEF AuditInv, AuditTypes
<1>4. CASE ~cut
  <2>1. /\ auditor.open /\ log # <<>> /\ acked = Macs(n - 1) /\ writing = log[n][1]
        /\ auditor.seq + 1 = n /\ Verifies
    BY <1>1, <1>4 DEF AuditInv, WriteAgrees
  <2>2. n \in Nat \ {0} /\ n \in DOMAIN log
    BY <2>1 DEF AuditInv, AuditTypes
  <2> HIDE DEF n
  <2>3. Len(acked) = n - 1 /\ \A i \in 1 .. n - 1 : acked[i] = log[i][1].mac
    BY <2>1, <2>2 DEF Macs, AuditInv, AuditTypes
  <2>4. /\ acked' \in Seq(Nat) /\ Len(acked') = n
        /\ \A i \in 1 .. n : acked'[i] = log[i][1].mac
    <3>1. acked \in Seq(Nat)
      BY DEF AuditInv, AuditTypes
    <3> QED
      BY <1>1, <1>2, <2>1, <2>2, <2>3, <3>1
  <2>5. acked' = Macs(n)
    BY <2>2, <2>4 DEF Macs
  <2>6. RestAgrees'
    <3>1. auditor'.seq = n /\ auditor'.prev = log[n][1].mac
      BY <1>1, <2>1 DEF AuditInv, AuditTypes
    <3>2. log' = log /\ Macs(n)' = Macs(n)
      BY <1>1 DEF Macs, n
    <3> QED
      BY <1>1, <2>1, <2>5, <3>1, <3>2 DEF RestAgrees, Macs, n
  <2>7. Verifies'
    BY <1>1, <2>1 DEF Verifies
  <2>8. WriteAgrees'
    BY <1>1 DEF WriteAgrees
  <2> QED
    BY <1>1, <1>3, <2>6, <2>7, <2>8 DEF AuditInv, OpenLine
<1> QED
  BY <1>1, <1>3, <1>4 DEF AuditInv, OpenLine

\* A restart continues the chain where the file leaves it.
LEMMA OpenContinues ==
  ASSUME AuditInv, OpenLog
  PROVE  AuditInv'
<1> DEFINE n == Len(log)
<1>1. /\ ~auditor.open /\ \A i \in DOMAIN log : Parses(log[i])
      /\ auditor' = [open |-> TRUE,
                     seq |-> IF log = <<>> THEN 0 ELSE log[n][1].seq + 1,
                     prev |-> IF log = <<>> THEN Genesis ELSE log[n][1].mac]
      /\ UNCHANGED <<log, ended, writing, writes, acked, cut>>
  BY DEF OpenLog
<1>2. CASE log = <<>>
  <2>1. AuditTypes'
    BY <1>1, <1>2 DEF AuditInv, AuditTypes, Genesis
  <2>2. ~cut => Verifies' /\ WriteAgrees' /\ RestAgrees'
    BY <1>1, <1>2 DEF AuditInv, OpenLine, Verifies, WriteAgrees, RestAgrees, Macs
  <2> QED
    BY <1>1, <2>1, <2>2 DEF AuditInv, OpenLine
<1>3. CASE log # <<>>
  <2>1. n \in DOMAIN log /\ log[n] \in Seq(AuditRecord) /\ Len(log[n]) = 1
    BY <1>1, <1>3 DEF AuditInv, AuditTypes, Parses
  <2>2. log[n][1] \in WholeRecord
    <3>1. log[n][1] \in AuditRecord /\ log[n][1] # HalfLine
      BY <1>1, <2>1 DEF Parses
    <3> QED
      BY <3>1 DEF AuditRecord
  <2>3. AuditTypes'
    <3>1. auditor' \in [open : BOOLEAN, seq : Nat, prev : Nat]
      BY <1>1, <1>3, <2>2 DEF WholeRecord
    <3> QED
      BY <1>1, <3>1 DEF AuditInv, AuditTypes
  <2>4. CASE ~cut
    <3>1. log[n][1].seq = n - 1
      BY <2>1, <2>4 DEF AuditInv, Verifies
    <3>2. auditor'.seq = n /\ auditor'.prev = log[n][1].mac
      BY <1>1, <1>3, <2>1, <3>1 DEF AuditInv, AuditTypes
    <3>3. writing = Idle
      BY <1>1, <2>4 DEF AuditInv, WriteAgrees
    <3> QED
      BY <1>1, <1>3, <2>3, <2>4, <3>2, <3>3 DEF AuditInv, OpenLine, Verifies, WriteAgrees, RestAgrees, Macs
  <2> QED
    BY <1>1, <2>3, <2>4 DEF AuditInv, OpenLine
<1> QED
  BY <1>2, <1>3

\* A write that fails, whole or in part, and a process that ends: nothing is
\* added to the chain, or the log is known to be cut.
LEMMA BreaksKeepAudit ==
  ASSUME AuditInv, RecordFails \/ NewlineFails \/ ProcessEnds
  PROVE  AuditInv'
<1>1. CASE RecordFails
  <2>1. writes' = writes + 1 /\ UNCHANGED <<auditor, writing, acked>>
    BY <1>1 DEF RecordFails
  <2>2. CASE UNCHANGED <<log, ended, cut>>
    <3>1. AuditTypes'
      BY <2>1, <2>2 DEF AuditInv, AuditTypes
    <3> QED
      BY <2>1, <2>2, <3>1 DEF AuditInv, OpenLine, Verifies, RestAgrees, WriteAgrees, Macs
  <2>3. CASE log' = Appended(HalfLine) /\ ended' = FALSE /\ cut' = TRUE
    <3>1. HalfLine \in AuditRecord
      BY DEF AuditRecord
    <3>3. log' \in Seq(Seq(AuditRecord)) /\ log' # <<>>
      BY <2>3, <3>1, AppendedType DEF AuditInv, OpenLine
    <3>4. writing = Idle /\ writes + 1 \in Nat
      BY <1>1 DEF RecordFails, CanWrite, AuditInv, AuditTypes
    <3> QED
      BY <2>1, <2>3, <3>3, <3>4 DEF AuditInv, AuditTypes, OpenLine
  <2> QED
    BY <1>1, <2>2, <2>3 DEF RecordFails
<1>2. CASE NewlineFails
  BY <1>2 DEF NewlineFails, AuditInv, AuditTypes, OpenLine
<1>3. CASE ProcessEnds
  <2>1. /\ cut' = (cut \/ ~ended) /\ auditor' = NoAuditor /\ writing' = Idle
        /\ UNCHANGED <<log, ended, writes, acked>>
    BY <1>3 DEF ProcessEnds
  <2>2. AuditTypes'
    BY <2>1 DEF AuditInv, AuditTypes, NoAuditor
  <2>3. CASE ~cut /\ ended
    <3>1. writing = Idle
      BY <2>3 DEF AuditInv, OpenLine
    <3> QED
      BY <2>1, <2>2, <2>3, <3>1 DEF AuditInv, OpenLine, Verifies, RestAgrees, WriteAgrees, Macs, NoAuditor
  <2> QED
    BY <2>1, <2>2, <2>3 DEF AuditInv, AuditTypes, OpenLine
<1> QED
  BY <1>1, <1>2, <1>3

\* The log verifies, and holds every record whose call returned in the order of
\* the calls, through failed writes and restarts, unless a line was cut short
\* on its way to the file (record and last_record of audit.rs).
THEOREM AckedRecordsVerifyHolds == AuditSpec => []AckedRecordsVerify
<1>1. AuditInit => AuditInv
  <2> SUFFICES ASSUME AuditInit
               PROVE  AuditInv
    OBVIOUS
  <2>1. Len(log) = 0 /\ DOMAIN log = {} /\ log = <<>>
    BY DEF AuditInit
  <2>2. AuditTypes
    <3>1. log \in Seq(Seq(AuditRecord)) /\ acked \in Seq(Nat)
      BY DEF AuditInit
    <3> QED
      BY <3>1 DEF AuditInit, AuditTypes, NoAuditor
  <2>3. acked = Macs(0)
    BY DEF AuditInit, Macs
  <2> QED
    BY <2>1, <2>2, <2>3 DEF AuditInit, AuditInv, OpenLine, Verifies, RestAgrees, WriteAgrees, NoAuditor
<1>2. AuditInv /\ [AuditNext]_auditVars => AuditInv'
  <2> SUFFICES ASSUME AuditInv, [AuditNext]_auditVars
               PROVE  AuditInv'
    OBVIOUS
  <2>1. CASE RecordWritten
    <3>1. CASE cut
      <4>1. cut'
        BY <2>1, <3>1 DEF RecordWritten
      <4> QED
        BY <2>1, <4>1, WriteTypes DEF AuditInv
    <3> QED
      BY <2>1, <3>1, LineAdded
  <2>2. CASE UNCHANGED auditVars
    BY <2>2 DEF AuditInv, AuditTypes, OpenLine, Verifies, RestAgrees, WriteAgrees, Macs, auditVars
  <2> QED
    BY <2>1, <2>2, LineEnded, OpenContinues, BreaksKeepAudit DEF AuditNext
<1>3. AuditInv => AckedRecordsVerify
  <2>1. AuditTypes => DOMAIN log = 1 .. Len(log)
    BY DEF AuditTypes
  <2> QED
    BY <2>1 DEF AuditInv, RestAgrees, Macs, AckedRecordsVerify
<1> QED
  BY <1>1, <1>2, <1>3, PTL DEF AuditSpec

-----------------------------------------------------------------------------
(* The host's reflexes *)

\* The engine, its budget and its sink, and nothing beside them.
ReflexSpec == ReflexInit /\ [][ReflexNext]_reflexVars

WorldFacts == [Watched -> [id : Nat, value : {0, 1}]]
FiredRule == [id : RuleIds, evidence : SUBSET Nat, escalates : BOOLEAN]

EngineTypes ==
  /\ engine = [lastFire |-> engine.lastFire, evidence |-> engine.evidence, since |-> engine.since]
  /\ engine.lastFire \in [RuleIds -> Nat \cup {Never0}]
  /\ engine.since \in [RuleIds -> Nat \cup {Never0}]
  /\ engine.evidence \in [RuleIds -> SUBSET Nat]

ReadingTypes ==
  /\ reading = [todo |-> reading.todo, snap |-> reading.snap, on |-> reading.on]
  /\ reading.on \in BOOLEAN
  /\ reading.todo \in SUBSET Watched
  /\ reading.on => reading.snap \in WorldFacts
  /\ ~reading.on => reading = NoTick

SinkTypes ==
  /\ fired \in Seq(FiredRule)
  /\ budget \in Seq(Nat)
  /\ acted \in [RuleIds -> SUBSET Nat]
  /\ dropped \in SUBSET RuleIds
  /\ sent \in SUBSET ((0 .. tickNow) \X RuleIds)
  /\ IsFiniteSet(sent)

ReflexTypes ==
  /\ tickNow \in Nat /\ factsMade \in Nat /\ sinkFaults \in Nat
  /\ world \in WorldFacts
  /\ EngineTypes
  /\ ReadingTypes
  /\ SinkTypes

\* What is on its way to the sink was fired once, on what the engine remembers
\* it fired on; a rule that does not fire on change remembers nothing.
WayKnown ==
  /\ reading.on => fired = << >>
  /\ \A i, j \in DOMAIN fired : fired[i].id = fired[j].id => i = j
  /\ \A j \in DOMAIN fired :
       engine.evidence[fired[j].id] # NoEvidence => fired[j].evidence = engine.evidence[fired[j].id]
  /\ \A i \in DOMAIN Rules : ~Rules[i].onChange => engine.evidence[Rules[i].id] = NoEvidence

\* An escalation that may share a window with one yet to come.
Late(s) == s[1] + Window >= tickNow

\* Each of those has an entry of the budget to itself.
Backs(f) ==
  /\ f \in [sent -> Int]
  /\ \A s \in sent : Late(s) => f[s] \in DOMAIN budget /\ budget[f[s]] = s[1]
  /\ \A s, q \in sent : Late(s) /\ Late(q) /\ f[s] = f[q] => s = q

Stretch(t) == {s \in sent : s[1] \in t .. t + Window}

WithinBudget ==
  MaxInWindow > 0 =>
    /\ \E f : Backs(f)
    /\ \A t \in Nat : Cardinality(Stretch(t)) <= MaxInWindow

ReflexInv == ReflexTypes /\ WayKnown /\ FiredIsDone /\ WithinBudget

\* A rule is the one its id names.
LEMMA RuleOfId ==
  ASSUME NEW i \in DOMAIN Rules
  PROVE  (CHOOSE j \in DOMAIN Rules : Rules[j].id = Rules[i].id) = i
BY ReflexAssumption

\* The oldest entries that have left the window are a first part of the budget.
LEMMA RecentIsRest ==
  ASSUME tickNow \in Nat, budget \in Seq(Nat)
  PROVE  /\ Lapsed \in 0 .. Len(budget)
         /\ \A i \in 1 .. Lapsed : budget[i] + Window < tickNow
         /\ Recent \in Seq(Nat)
         /\ Len(Recent) = Len(budget) - Lapsed
         /\ \A i \in 1 .. Len(Recent) : Recent[i] = budget[i + Lapsed]
<1>1. Len(budget) \in Nat /\ DOMAIN budget = 1 .. Len(budget) /\ \A i \in 1 .. Len(budget) : budget[i] \in Nat
  OBVIOUS
<1> DEFINE Fits(n) == /\ \A i \in 1 .. n : ~InWindow(budget[i])
                      /\ n < Len(budget) => InWindow(budget[n + 1])
<1>2. \E n \in 0 .. Len(budget) : Fits(n)
  <2>1. CASE \A i \in 1 .. Len(budget) : ~InWindow(budget[i])
    BY <1>1, <2>1
  <2>2. CASE \E i \in 1 .. Len(budget) : InWindow(budget[i])
    <3> DEFINE T == {i \in 1 .. Len(budget) : InWindow(budget[i])}
    <3>1. T # {} /\ T \subseteq Nat
      BY <1>1, <2>2
    <3>2. PICK n \in T : \A m \in T : ~(<<m, n>> \in OpToRel(<, Nat))
      BY <3>1, NatLessThanWellFounded, WFMin
    <3>3. \A m \in T : ~(m \in Nat /\ n \in Nat /\ m < n)
      BY <3>2, Zenon DEF OpToRel
    <3>4. n \in 1 .. Len(budget) /\ InWindow(budget[n])
      BY <3>2
    <3>5. \A m \in 1 .. n - 1 : ~InWindow(budget[m])
      BY <1>1, <3>3, <3>4
    <3>6. n - 1 \in 0 .. Len(budget) /\ (n - 1) + 1 = n
      BY <1>1, <3>4
    <3> QED
      BY <3>4, <3>5, <3>6
  <2> QED
    BY <2>1, <2>2
<1>3. Lapsed = CHOOSE n \in 0 .. Len(budget) : Fits(n)
  BY DEF Lapsed
<1>4. Lapsed \in 0 .. Len(budget) /\ Fits(Lapsed)
  BY <1>2, <1>3
<1>5. \A i \in 1 .. Lapsed : budget[i] + Window < tickNow
  BY <1>1, <1>4, ReflexAssumption DEF InWindow
<1>6. /\ Recent \in Seq(Nat)
      /\ Len(Recent) = Len(budget) - Lapsed
      /\ \A i \in 1 .. Len(Recent) : Recent[i] = budget[i + Lapsed]
  <2>1. PICK n \in 0 .. Len(budget) : n = Lapsed
    BY <1>4
  <2>2. Recent = SubSeq(budget, n + 1, Len(budget))
    BY <2>1 DEF Recent
  <2>3. /\ SubSeq(budget, n + 1, Len(budget)) \in Seq(Nat)
        /\ Len(SubSeq(budget, n + 1, Len(budget))) = Len(budget) - n
        /\ \A i \in 1 .. Len(budget) - n : SubSeq(budget, n + 1, Len(budget))[i] = budget[i + n]
    <3>1. PICK k \in Nat : k = Len(budget)
      BY <1>1
    <3>2. PICK m \in Nat : m = n + 1
      BY <1>1
    <3>3. \A i \in m .. k : budget[i] \in Nat
      BY <1>1, <3>1, <3>2
    <3>4. /\ SubSeq(budget, m, k) \in Seq(Nat)
          /\ Len(SubSeq(budget, m, k)) = IF m <= k THEN k - m + 1 ELSE 0
          /\ \A i \in 1 .. k - m + 1 : SubSeq(budget, m, k)[i] = budget[m + i - 1]
      BY <3>3, SubSeqProperties
    <3>5. \A i \in 1 .. k - n : m + i - 1 = i + n /\ i \in 1 .. k - m + 1
      BY <3>1, <3>2
    <3>6. SubSeq(budget, n + 1, Len(budget)) = SubSeq(budget, m, k)
      BY <3>1, <3>2
    <3>7. (IF m <= k THEN k - m + 1 ELSE 0) = k - n
      BY <3>1, <3>2
    <3> QED
      BY <3>1, <3>4, <3>5, <3>6, <3>7
  <2> QED
    BY <2>1, <2>2, <2>3
<1> QED
  BY <1>4, <1>5, <1>6

\* The entry of an escalation still in the window stays, further to the front.
LEMMA LateStays ==
  ASSUME ReflexTypes, NEW f, Backs(f)
  PROVE  \A s \in sent : Late(s) =>
           /\ f[s] \in Int /\ f[s] - Lapsed \in 1 .. Len(Recent)
           /\ Recent[f[s] - Lapsed] = s[1]
<1>1. tickNow \in Nat /\ budget \in Seq(Nat)
  BY DEF ReflexTypes, SinkTypes
<1>2. /\ Lapsed \in 0 .. Len(budget) /\ Len(budget) \in Nat /\ DOMAIN budget = 1 .. Len(budget)
      /\ \A i \in 1 .. Lapsed : budget[i] + Window < tickNow
      /\ Len(Recent) = Len(budget) - Lapsed
      /\ \A i \in 1 .. Len(Recent) : Recent[i] = budget[i + Lapsed]
  BY <1>1, RecentIsRest
<1> SUFFICES ASSUME NEW s \in sent, Late(s)
             PROVE  /\ f[s] \in Int /\ f[s] - Lapsed \in 1 .. Len(Recent)
                    /\ Recent[f[s] - Lapsed] = s[1]
  OBVIOUS
<1>3. f[s] \in 1 .. Len(budget) /\ budget[f[s]] = s[1]
  BY <1>2 DEF Backs
<1>4. ~(budget[f[s]] + Window < tickNow)
  <2>1. s[1] \in Nat /\ s[1] + Window >= tickNow
    BY DEF ReflexTypes, SinkTypes, Late
  <2> QED
    BY <1>1, <1>3, <2>1, ReflexAssumption
<1>5. f[s] \notin 1 .. Lapsed
  BY <1>2, <1>4
<1>6. f[s] - Lapsed \in 1 .. Len(Recent) /\ (f[s] - Lapsed) + Lapsed = f[s]
  BY <1>2, <1>3, <1>5
<1> QED
  BY <1>2, <1>3, <1>6

\* The escalations still in the window are no more than the entries there.
LEMMA LateWithinRecent ==
  ASSUME ReflexTypes, NEW f, Backs(f)
  PROVE  LET late == {s \in sent : Late(s)}
         IN IsFiniteSet(late) /\ Cardinality(late) <= Len(Recent)
<1> DEFINE late == {s \in sent : Late(s)}
           g == [s \in late |-> f[s] - Lapsed]
<1>1. tickNow \in Nat /\ budget \in Seq(Nat) /\ IsFiniteSet(sent)
  BY DEF ReflexTypes, SinkTypes
<1>2. Lapsed \in Nat /\ Len(Recent) \in Nat
  BY <1>1, RecentIsRest
<1>4. \A s \in late : f[s] \in Int /\ g[s] \in 1 .. Len(Recent)
  BY LateStays
<1>5. \A s, q \in late : g[s] = g[q] => s = q
  BY <1>2, <1>4 DEF Backs
<1>6. g \in Injection(late, 1 .. Len(Recent))
  BY <1>4, <1>5 DEF Injection, IsInjective
<1>7. PICK n \in Nat : n = Len(Recent)
  <2>1. Len(Recent) \in Nat
    BY <1>2
  <2> QED
    BY <2>1
<1>8. IsFiniteSet(1 .. Len(Recent)) /\ Cardinality(1 .. Len(Recent)) = Len(Recent)
  <2>1. IsFiniteSet(1 .. n) /\ Cardinality(1 .. n) = n
    BY FS_Interval
  <2> QED
    BY <1>7, <2>1
<1> QED
  BY <1>6, <1>8, FS_Injection


LEMMA ReflexStarts == ReflexInit => ReflexInv
<1> SUFFICES ASSUME ReflexInit
             PROVE  ReflexInv
  OBVIOUS
<1>1. ReflexTypes
  <2>1. EngineTypes
    BY DEF ReflexInit, EngineTypes, FreshEngine, NoEvidence
  <2>2. ReadingTypes
    BY DEF ReflexInit, ReadingTypes, NoTick
  <2>3. SinkTypes
    BY FS_EmptySet DEF ReflexInit, SinkTypes, NoEvidence
  <2>4. world \in WorldFacts
    BY DEF ReflexInit, WorldFacts
  <2> QED
    BY <2>1, <2>2, <2>3, <2>4 DEF ReflexInit, ReflexTypes
<1>2. fired = << >> /\ sent = {} /\ reading.on = FALSE
  BY DEF ReflexInit, NoTick
<1>3. \A i \in DOMAIN Rules : engine.evidence[Rules[i].id] = NoEvidence
  BY DEF ReflexInit, FreshEngine, RuleIds
<1>4. WayKnown
  BY <1>2, <1>3 DEF WayKnown
<1>5. FiredIsDone
  BY <1>3 DEF FiredIsDone
<1>6. WithinBudget
  <2>1. Backs([s \in sent |-> 0])
    BY <1>2 DEF Backs
  <2>2. \A t \in Nat : Stretch(t) = {}
    BY <1>2 DEF Stretch
  <2>3. \A t \in Nat : Cardinality(Stretch(t)) = 0
    BY <2>2, FS_EmptySet
  <2>4. \E f : Backs(f)
    BY <2>1
  <2> QED
    BY <2>3, <2>4, ReflexAssumption DEF WithinBudget
<1> QED
  BY <1>1, <1>4, <1>5, <1>6 DEF ReflexInv

\* Time that passes takes nothing from the budget.
LEMMA BudgetWaits ==
  ASSUME ReflexInv, tickNow' \in Nat, tickNow' >= tickNow, UNCHANGED <<sent, budget>>
  PROVE  WithinBudget'
<1> SUFFICES ASSUME MaxInWindow > 0
             PROVE  /\ (\E f : Backs(f))'
                    /\ (\A t \in Nat : Cardinality(Stretch(t)) <= MaxInWindow)'
  BY DEF WithinBudget
<1>1. /\ tickNow \in Nat /\ sent \in SUBSET ((0 .. tickNow) \X RuleIds)
      /\ \E f : Backs(f)
      /\ \A t \in Nat : Cardinality(Stretch(t)) <= MaxInWindow
  BY DEF ReflexInv, ReflexTypes, SinkTypes, WithinBudget
<1>2. PICK f : Backs(f)
  BY <1>1
<1>3. \A s \in sent : Late(s)' => Late(s)
  BY <1>1, ReflexAssumption DEF Late
<1>4. Backs(f)'
  BY <1>2, <1>3 DEF Backs
<1>5. \A t \in Nat : Stretch(t)' = Stretch(t)
  BY DEF Stretch
<1>6. (\A t \in Nat : Cardinality(Stretch(t)) <= MaxInWindow)'
  BY <1>1, <1>5
<1> QED
  BY <1>4, <1>6

\* An entry may lapse, and one be added for an escalation that is sent or not.
LEMMA BudgetTurns ==
  ASSUME ReflexInv, tickNow' = tickNow, budget' \in {Recent, Append(Recent, tickNow)}, sent' = sent
  PROVE  WithinBudget' /\ budget' \in Seq(Nat)
<1>1. /\ tickNow \in Nat /\ budget \in Seq(Nat) /\ ReflexTypes
  BY DEF ReflexInv, ReflexTypes, SinkTypes
<1>2. Recent \in Seq(Nat) /\ Lapsed \in Nat
  BY <1>1, RecentIsRest
<1>3. /\ budget' \in Seq(Nat) /\ Len(Recent) \in Nat
      /\ \A i \in 1 .. Len(Recent) : i \in DOMAIN budget' /\ budget'[i] = Recent[i]
  <2>1. CASE budget' = Recent
    BY <1>2, <2>1
  <2>2. CASE budget' = Append(Recent, tickNow)
    BY <1>1, <1>2, <2>2
  <2> QED
    BY <2>1, <2>2
<1> SUFFICES ASSUME MaxInWindow > 0
             PROVE  /\ (\E f : Backs(f))'
                    /\ (\A t \in Nat : Cardinality(Stretch(t)) <= MaxInWindow)'
  BY <1>3 DEF WithinBudget
<1>4. /\ \E f : Backs(f)
      /\ \A t \in Nat : Cardinality(Stretch(t)) <= MaxInWindow
  BY DEF ReflexInv, WithinBudget
<1>5. PICK f : Backs(f)
  BY <1>4
<1> DEFINE g == [s \in sent |-> f[s] - Lapsed]
<1>6. \A s \in sent : Late(s) => f[s] \in Int /\ g[s] \in 1 .. Len(Recent) /\ Recent[g[s]] = s[1]
  BY <1>1, <1>5, LateStays
<1>7. \A s \in sent : Late(s)' = Late(s)
  BY DEF Late
<1>8. g \in [sent -> Int]
  BY <1>2, <1>5 DEF Backs
<1>9. \A s, q \in sent : Late(s) /\ Late(q) /\ g[s] = g[q] => s = q
  BY <1>2, <1>5, <1>6 DEF Backs
<1>10. (\E h : Backs(h))'
  <2>1. PICK h : h = g
    OBVIOUS
  <2>2. h \in [sent' -> Int]
    BY <1>8, <2>1
  <2>3. \A s \in sent' : Late(s)' => h[s] \in DOMAIN budget' /\ budget'[h[s]] = s[1]
    BY <1>3, <1>6, <1>7, <2>1
  <2>4. \A s, q \in sent' : Late(s)' /\ Late(q)' /\ h[s] = h[q] => s = q
    BY <1>7, <1>9, <2>1
  <2>5. Backs(h)'
    BY <2>2, <2>3, <2>4 DEF Backs
  <2> QED
    BY <2>5
<1>11. \A t \in Nat : Stretch(t)' = Stretch(t)
  BY DEF Stretch
<1> QED
  BY <1>4, <1>10, <1>11

\* An escalation goes out on an entry of its own, where there is room for one.
LEMMA BudgetPays ==
  ASSUME ReflexInv, tickNow' = tickNow, NEW id \in RuleIds,
         MaxInWindow > 0, Len(Recent) < MaxInWindow,
         budget' = Append(Recent, tickNow), sent' = sent \cup {<<tickNow, id>>}
  PROVE  WithinBudget' /\ budget' \in Seq(Nat)
<1>1. /\ tickNow \in Nat /\ budget \in Seq(Nat) /\ ReflexTypes
      /\ IsFiniteSet(sent) /\ sent \in SUBSET ((0 .. tickNow) \X RuleIds)
      /\ \E f : Backs(f)
      /\ \A t \in Nat : Cardinality(Stretch(t)) <= MaxInWindow
  BY DEF ReflexInv, ReflexTypes, SinkTypes, WithinBudget
<1>2. Recent \in Seq(Nat) /\ Lapsed \in Nat
  BY <1>1, RecentIsRest
<1>3. /\ budget' \in Seq(Nat) /\ Len(Recent) \in Nat
      /\ DOMAIN budget' = 1 .. Len(Recent) + 1
      /\ \A i \in 1 .. Len(Recent) : budget'[i] = Recent[i]
      /\ budget'[Len(Recent) + 1] = tickNow
  BY <1>1, <1>2
<1>4. PICK f : Backs(f)
  BY <1>1
<1> DEFINE new == <<tickNow, id>>
           g == [s \in sent' |-> IF s = new THEN Len(Recent) + 1 ELSE f[s] - Lapsed]
<1>5. \A s \in sent : Late(s) => f[s] \in Int /\ f[s] - Lapsed \in 1 .. Len(Recent) /\ Recent[f[s] - Lapsed] = s[1]
  BY <1>1, <1>4, LateStays
<1>6. \A s \in sent' : Late(s)' <=> Late(s)
  BY DEF Late
<1>7. new[1] = tickNow /\ \A s \in sent' : s # new => s \in sent
  OBVIOUS
<1>8. \A s \in sent' : Late(s) => g[s] \in 1 .. Len(Recent) + 1 /\ budget'[g[s]] = s[1]
  <2> SUFFICES ASSUME NEW s \in sent', Late(s)
               PROVE  g[s] \in 1 .. Len(Recent) + 1 /\ budget'[g[s]] = s[1]
    OBVIOUS
  <2>1. CASE s = new
    BY <1>3, <1>7, <2>1
  <2>2. CASE s # new
    <3>1. s \in sent /\ g[s] = f[s] - Lapsed
      BY <1>7, <2>2
    <3> QED
      BY <1>3, <1>5, <3>1
  <2> QED
    BY <2>1, <2>2
<1>9. \A s, q \in sent' : Late(s) /\ Late(q) /\ g[s] = g[q] => s = q
  <2> SUFFICES ASSUME NEW s \in sent', NEW q \in sent', Late(s), Late(q), s # q
               PROVE  g[s] # g[q]
    OBVIOUS
  <2>1. CASE s = new \/ q = new
    <3>1. \A p \in sent' : Late(p) /\ p # new => g[p] \in 1 .. Len(Recent)
      BY <1>5, <1>7
    <3>2. \A p \in sent' : p = new => g[p] = Len(Recent) + 1
      OBVIOUS
    <3>3. Len(Recent) \in Nat
      BY <1>3
    <3> HIDE DEF g, new
    <3> QED
      BY <2>1, <3>1, <3>2, <3>3
  <2>2. CASE s # new /\ q # new
    <3>1. s \in sent /\ q \in sent /\ f[s] # f[q]
      BY <1>4, <1>7, <2>2 DEF Backs
    <3> QED
      BY <1>2, <1>5, <2>2, <3>1
  <2> QED
    BY <2>1, <2>2
<1>10. g \in [sent' -> Int]
  BY <1>2, <1>3, <1>4, <1>7 DEF Backs
<1>11. (\E h : Backs(h))'
  <2>1. PICK h : h = g
    OBVIOUS
  <2>2. \A s \in sent' : Late(s)' => h[s] \in DOMAIN budget' /\ budget'[h[s]] = s[1]
    BY <1>3, <1>6, <1>8, <2>1
  <2>3. \A s, q \in sent' : Late(s)' /\ Late(q)' /\ h[s] = h[q] => s = q
    BY <1>6, <1>9, <2>1
  <2>4. Backs(h)'
    BY <1>10, <2>1, <2>2, <2>3 DEF Backs
  <2> QED
    BY <2>4
<1>12. ASSUME NEW t \in Nat
       PROVE  Cardinality(Stretch(t)') <= MaxInWindow
  <2>1. Stretch(t)' = {s \in sent \cup {new} : s[1] \in t .. t + Window}
    BY DEF Stretch
  <2>2. CASE tickNow \notin t .. t + Window
    BY <1>1, <1>7, <2>1, <2>2 DEF Stretch
  <2>3. CASE tickNow \in t .. t + Window
    <3> DEFINE late == {s \in sent : Late(s)}
    <3>1. IsFiniteSet(late) /\ Cardinality(late) <= Len(Recent)
      BY <1>1, <1>4, LateWithinRecent
    <3>2. Stretch(t)' \subseteq late \cup {new}
      <4> SUFFICES ASSUME NEW s \in sent, s[1] \in t .. t + Window
                   PROVE  Late(s)
        BY <2>1
      <4> QED
        BY <1>1, <2>3, ReflexAssumption DEF Late
    <3>3. IsFiniteSet(late \cup {new}) /\ Cardinality(late \cup {new}) <= Cardinality(late) + 1
      <4>1. Cardinality(late) \in Nat
        BY <3>1, FS_CardinalityType
      <4>2. Cardinality(late \cup {new}) = IF new \in late THEN Cardinality(late) ELSE Cardinality(late) + 1
        BY <3>1, FS_AddElement
      <4>3. IsFiniteSet(late \cup {new})
        BY <3>1, FS_AddElement
      <4> HIDE DEF late, new
      <4> QED
        BY <4>1, <4>2, <4>3
    <3>4. IsFiniteSet(Stretch(t)') /\ Cardinality(Stretch(t)') <= Cardinality(late \cup {new})
      BY <3>2, <3>3, FS_Subset
    <3>5. Cardinality(late) \in Nat /\ Cardinality(late \cup {new}) \in Nat /\ Cardinality(Stretch(t)') \in Nat
      BY <3>1, <3>3, <3>4, FS_CardinalityType
    <3> QED
      BY <1>3, <3>1, <3>3, <3>4, <3>5, ReflexAssumption
  <2> QED
    BY <2>2, <2>3
<1>13. (\E h : Backs(h))' /\ (\A t \in Nat : Cardinality(Stretch(t)) <= MaxInWindow)'
  BY <1>11, <1>12
<1> QED
  BY <1>3, <1>13 DEF WithinBudget

\* The writers, the clock and the reads.
LEMMA WriterKeepsReflex ==
  ASSUME ReflexInv, NEW e \in Watched, NEW v \in {0, 1}, WriteFact(e, v) \/ Withhold(e) \/ ReadEntity(e)
  PROVE  ReflexInv'
<1>1. /\ tickNow \in Nat /\ factsMade \in Nat /\ sinkFaults \in Nat /\ world \in WorldFacts
      /\ EngineTypes /\ ReadingTypes /\ SinkTypes /\ WayKnown /\ FiredIsDone
  BY DEF ReflexInv, ReflexTypes
<1>2. UNCHANGED <<tickNow, engine, fired, budget, acted, dropped, sent, sinkFaults>>
  BY DEF WriteFact, Withhold, ReadEntity
<1>3. factsMade' \in Nat /\ world' \in WorldFacts
  BY <1>1 DEF WriteFact, Withhold, ReadEntity, WorldFacts
<1>4. ReadingTypes' /\ reading'.on = reading.on
  <2>1. CASE UNCHANGED reading
    BY <1>1, <2>1 DEF ReadingTypes, NoTick
  <2>2. CASE ReadEntity(e)
    <3>1. reading' = [reading EXCEPT !.todo = @ \ {e}, !.snap[e] = world[e]] /\ e \in reading.todo
      BY <2>2 DEF ReadEntity
    <3>2. PICK todo, snap, on : reading = [todo |-> todo, snap |-> snap, on |-> on]
      BY <1>1 DEF ReadingTypes
    <3>3. on /\ snap \in WorldFacts /\ todo \in SUBSET Watched
      BY <1>1, <3>1, <3>2 DEF ReadingTypes, NoTick
    <3>4. reading' = [todo |-> todo \ {e}, snap |-> [snap EXCEPT ![e] = world[e]], on |-> on]
      BY <3>1, <3>2
    <3>5. [snap EXCEPT ![e] = world[e]] \in WorldFacts
      BY <1>1, <3>3 DEF WorldFacts
    <3> QED
      BY <3>2, <3>3, <3>4, <3>5 DEF ReadingTypes
  <2> QED
    BY <2>1, <2>2 DEF WriteFact, Withhold
<1>5. EngineTypes' /\ SinkTypes'
  BY <1>1, <1>2 DEF EngineTypes, SinkTypes
<1>6. WayKnown' /\ FiredIsDone'
  BY <1>1, <1>2, <1>4 DEF WayKnown, FiredIsDone
<1>7. WithinBudget'
  BY <1>1, <1>2, BudgetWaits
<1> QED
  BY <1>1, <1>2, <1>3, <1>4, <1>5, <1>6, <1>7 DEF ReflexInv, ReflexTypes

LEMMA TickKeepsReflex ==
  ASSUME ReflexInv, TickStarts
  PROVE  ReflexInv'
<1>1. /\ tickNow \in Nat /\ factsMade \in Nat /\ sinkFaults \in Nat /\ world \in WorldFacts
      /\ EngineTypes /\ ReadingTypes /\ SinkTypes /\ WayKnown /\ FiredIsDone
  BY DEF ReflexInv, ReflexTypes
<1>2. /\ UNCHANGED <<world, engine, fired, budget, factsMade, sinkFaults, acted, dropped, sent>>
      /\ tickNow' = tickNow + 1 /\ fired = << >>
      /\ reading' = [todo |-> Watched, snap |-> [e \in Watched |-> [id |-> 0, value |-> 0]], on |-> TRUE]
  BY DEF TickStarts
<1>3. ReadingTypes'
  BY <1>2 DEF ReadingTypes, WorldFacts
<1>4. EngineTypes' /\ SinkTypes'
  <2>1. 0 .. tickNow \subseteq 0 .. tickNow'
    BY <1>1, <1>2
  <2> QED
    BY <1>1, <1>2, <2>1 DEF EngineTypes, SinkTypes
<1>5. WayKnown' /\ FiredIsDone'
  BY <1>1, <1>2 DEF WayKnown, FiredIsDone
<1>6. WithinBudget'
  BY <1>1, <1>2, BudgetWaits
<1> QED
  BY <1>1, <1>2, <1>3, <1>4, <1>5, <1>6 DEF ReflexInv, ReflexTypes

\* A rule that fires on change remembers what it goes to the sink with.
LEMMA EvaluateKeepsReflex ==
  ASSUME ReflexInv, Evaluate
  PROVE  ReflexInv'
<1> DEFINE hits == {i \in DOMAIN Rules : Fires(Rules[i])}
           ids == {Rules[i].id : i \in hits}
           RuleOf(r) == Rules[CHOOSE i \in DOMAIN Rules : Rules[i].id = r]
           Sent(i) == [id |-> Rules[i].id, evidence |-> Evidence(Rules[i]),
                       escalates |-> Rules[i].escalates]
<1>1. /\ tickNow \in Nat /\ factsMade \in Nat /\ sinkFaults \in Nat /\ world \in WorldFacts
      /\ EngineTypes /\ ReadingTypes /\ SinkTypes /\ WayKnown /\ FiredIsDone
  BY DEF ReflexInv, ReflexTypes
<1>2. /\ UNCHANGED <<tickNow, world, budget, factsMade, sinkFaults, acted, sent>>
      /\ reading.on /\ fired = << >> /\ reading' = NoTick
      /\ dropped' = dropped \ ids
  BY <1>1 DEF Evaluate, WayKnown
<1>3. PICK hit \in Ascending(hits) : fired' = [k \in DOMAIN hit |-> Sent(hit[k])]
  BY DEF Evaluate
<1>4. engine' = [lastFire |-> [r \in RuleIds |-> IF r \in ids THEN tickNow ELSE engine.lastFire[r]],
                 evidence |-> [r \in RuleIds |->
                   IF r \in ids /\ RuleOf(r).onChange THEN Evidence(RuleOf(r))
                   ELSE engine.evidence[r]],
                 since    |-> [r \in RuleIds |-> Since(RuleOf(r))]]
  BY DEF Evaluate
<1>5. \A i \in DOMAIN Rules : /\ RuleOf(Rules[i].id) = Rules[i]
                              /\ Rules[i] \in Rule /\ Rules[i].id \in RuleIds
  BY RuleOfId, ReflexAssumption DEF RuleIds
<1>6. reading.snap \in WorldFacts
  BY <1>1, <1>2 DEF ReadingTypes
<1>7. \A i \in DOMAIN Rules : Evidence(Rules[i]) \in SUBSET Nat
  <2> SUFFICES ASSUME NEW i \in DOMAIN Rules, NEW e \in Rules[i].entities
               PROVE  reading.snap[e].id \in Nat
    BY DEF Evidence
  <2> QED
    BY <1>5, <1>6 DEF Rule, WorldFacts
<1>8. \A i \in DOMAIN Rules : Since(Rules[i]) \in Nat \cup {Never0}
  BY <1>1, <1>5 DEF Since, EngineTypes
<1>9. EngineTypes'
  <2>1. \A r \in RuleIds : \E i \in DOMAIN Rules : RuleOf(r) = Rules[i]
    BY <1>5 DEF RuleIds
  <2>2. engine'.evidence \in [RuleIds -> SUBSET Nat]
    BY <1>1, <1>4, <1>7, <2>1 DEF EngineTypes
  <2>3. engine'.since \in [RuleIds -> Nat \cup {Never0}]
    BY <1>4, <1>8, <2>1
  <2>4. engine'.lastFire \in [RuleIds -> Nat \cup {Never0}]
    BY <1>1, <1>4 DEF EngineTypes
  <2> QED
    BY <1>4, <2>2, <2>3, <2>4 DEF EngineTypes
<1>10. /\ \A k \in DOMAIN hit : hit[k] \in hits
       /\ \A i \in hits : \E k \in DOMAIN hit : hit[k] = i
       /\ \A k, l \in DOMAIN hit : hit[k] = hit[l] => k = l
       /\ [k \in DOMAIN hit |-> Rules[hit[k]]] \in Seq(Rule)
  <2>1. hits \subseteq DOMAIN Rules /\ Rules \in Seq(Rule) /\ hit \in Ascending(hits)
    BY <1>3, ReflexAssumption
  <2> HIDE DEF hits
  <2> QED
    BY <2>1, AscendingCovers
<1>11. /\ DOMAIN fired' = DOMAIN hit
       /\ \A k \in DOMAIN hit : fired'[k] = Sent(hit[k])
  BY <1>3
<1>12. fired' \in Seq(FiredRule)
  <2>1. PICK n \in Nat : DOMAIN hit = 1 .. n
    <3>1. DOMAIN [k \in DOMAIN hit |-> Rules[hit[k]]] = 1 .. Len([k \in DOMAIN hit |-> Rules[hit[k]]])
      BY <1>10
    <3>2. Len([k \in DOMAIN hit |-> Rules[hit[k]]]) \in Nat
      BY <1>10
    <3> QED
      BY <3>1, <3>2
  <2>2. \A i \in DOMAIN Rules : Sent(i) \in FiredRule
    BY <1>5, <1>7 DEF FiredRule, Rule
  <2>3. \A k \in 1 .. n : fired'[k] \in FiredRule
    BY <1>10, <1>11, <2>1, <2>2
  <2> QED
    BY <1>3, <1>11, <2>1, <2>3
<1>13. SinkTypes'
  BY <1>1, <1>2, <1>12 DEF SinkTypes
<1>14. \A i \in DOMAIN Rules : engine'.evidence[Rules[i].id] =
          IF i \in hits /\ Rules[i].onChange THEN Evidence(Rules[i]) ELSE engine.evidence[Rules[i].id]
  <2>1. \A i \in DOMAIN Rules : Rules[i].id \in ids <=> i \in hits
    BY ReflexAssumption
  <2> QED
    BY <1>4, <1>5, <2>1
<1>15. WayKnown'
  <2>1. \A i, j \in DOMAIN fired' : fired'[i].id = fired'[j].id => i = j
    <3> SUFFICES ASSUME NEW i \in DOMAIN hit, NEW j \in DOMAIN hit, fired'[i].id = fired'[j].id
                 PROVE  i = j
      BY <1>11
    <3>1. hit[i] \in DOMAIN Rules /\ hit[j] \in DOMAIN Rules
      BY <1>10
    <3>2. Rules[hit[i]].id = Rules[hit[j]].id
      BY <1>11
    <3> QED
      BY <1>10, <3>1, <3>2, ReflexAssumption
  <2>2. \A j \in DOMAIN fired' :
          engine'.evidence[fired'[j].id] # NoEvidence => fired'[j].evidence = engine'.evidence[fired'[j].id]
    BY <1>1, <1>10, <1>11, <1>14 DEF WayKnown
  <2>3. \A i \in DOMAIN Rules : ~Rules[i].onChange => engine'.evidence[Rules[i].id] = NoEvidence
    BY <1>1, <1>14 DEF WayKnown
  <2> QED
    BY <1>2, <2>1, <2>2, <2>3 DEF WayKnown, NoTick
<1>16. FiredIsDone'
  <2> SUFFICES ASSUME NEW i \in DOMAIN Rules, engine'.evidence[Rules[i].id] # NoEvidence
               PROVE  \/ acted'[Rules[i].id] = engine'.evidence[Rules[i].id]
                      \/ \E j \in DOMAIN fired' : fired'[j].id = Rules[i].id
                      \/ Rules[i].id \in dropped'
    BY DEF FiredIsDone
  <2>1. CASE i \in hits
    BY <1>10, <1>11, <2>1
  <2>2. CASE i \notin hits
    <3>1. Rules[i].id \notin ids
      BY <2>2, ReflexAssumption
    <3>2. engine'.evidence[Rules[i].id] = engine.evidence[Rules[i].id]
      BY <1>14, <2>2
    <3> QED
      BY <1>1, <1>2, <3>1, <3>2 DEF FiredIsDone
  <2> QED
    BY <2>1, <2>2
<1>17. WithinBudget'
  BY <1>1, <1>2, BudgetWaits
<1>18. ReadingTypes'
  BY <1>2 DEF ReadingTypes, NoTick
<1> QED
  BY <1>1, <1>2, <1>9, <1>13, <1>15, <1>16, <1>17, <1>18 DEF ReflexInv, ReflexTypes

\* The sink takes the fired rules one after the other.
LEMMA NextFired ==
  ASSUME ReflexInv, fired # << >>
  PROVE  /\ First = fired[1] /\ First \in FiredRule /\ 1 \in DOMAIN fired /\ ~reading.on
         /\ Tail(fired) \in Seq(FiredRule)
         /\ \A j \in DOMAIN Tail(fired) : j + 1 \in DOMAIN fired /\ Tail(fired)[j] = fired[j + 1]
         /\ \A j \in DOMAIN fired : j # 1 => j - 1 \in DOMAIN Tail(fired) /\ Tail(fired)[j - 1] = fired[j]
         /\ \A j \in DOMAIN Tail(fired) : Tail(fired)[j].id # First.id
<1>1. /\ fired \in Seq(FiredRule) /\ ReadingTypes
      /\ reading.on => fired = << >>
      /\ \A i, j \in DOMAIN fired : fired[i].id = fired[j].id => i = j
  BY DEF ReflexInv, ReflexTypes, SinkTypes, WayKnown
<1>2. PICK n \in Nat : n = Len(fired) /\ DOMAIN fired = 1 .. n /\ n > 0
  BY <1>1
<1>3. First = fired[1] /\ First \in FiredRule /\ 1 \in DOMAIN fired
  BY <1>1, <1>2 DEF First
<1>4. Tail(fired) \in Seq(FiredRule) /\ DOMAIN Tail(fired) = 1 .. n - 1
      /\ \A j \in 1 .. n - 1 : Tail(fired)[j] = fired[j + 1]
  BY <1>1, <1>2
<1>5. \A j \in 1 .. n - 1 : Tail(fired)[j].id # First.id
  BY <1>1, <1>2, <1>3, <1>4
<1>6. \A j \in 2 .. n : Tail(fired)[j - 1] = fired[j]
  BY <1>2, <1>4
<1> QED
  BY <1>1, <1>2, <1>3, <1>4, <1>5, <1>6 DEF ReadingTypes

LEMMA DoneKeepsReflex ==
  ASSUME ReflexInv, SinkDoes
  PROVE  ReflexInv'
<1>1. /\ ReflexTypes /\ WayKnown /\ FiredIsDone
      /\ UNCHANGED <<tickNow, world, engine, reading, factsMade, sinkFaults, dropped>>
      /\ fired # << >> /\ fired' = Tail(fired)
      /\ acted' = [acted EXCEPT ![First.id] = First.evidence]
  BY DEF ReflexInv, SinkDoes
<1>2. /\ First = fired[1] /\ First \in FiredRule /\ 1 \in DOMAIN fired /\ ~reading.on
      /\ Tail(fired) \in Seq(FiredRule)
      /\ \A j \in DOMAIN Tail(fired) : j + 1 \in DOMAIN fired /\ Tail(fired)[j] = fired[j + 1]
      /\ \A j \in DOMAIN fired : j # 1 => j - 1 \in DOMAIN Tail(fired) /\ Tail(fired)[j - 1] = fired[j]
      /\ \A j \in DOMAIN Tail(fired) : Tail(fired)[j].id # First.id
  BY <1>1, NextFired
<1>3. WithinBudget' /\ budget' \in Seq(Nat) /\ sent' \in SUBSET ((0 .. tickNow) \X RuleIds) /\ IsFiniteSet(sent')
  <2>1. sent \in SUBSET ((0 .. tickNow) \X RuleIds) /\ IsFiniteSet(sent) /\ tickNow \in Nat /\ budget \in Seq(Nat)
    BY <1>1 DEF ReflexTypes, SinkTypes
  <2>2. First.id \in RuleIds
    BY <1>2 DEF FiredRule
  <2>3. sent' \in SUBSET ((0 .. tickNow) \X RuleIds) /\ IsFiniteSet(sent')
    <3>1. CASE sent' = sent
      BY <2>1, <3>1
    <3>2. CASE sent' = sent \cup {<<tickNow, First.id>>}
      <4>1. <<tickNow, First.id>> \in (0 .. tickNow) \X RuleIds
        BY <2>1, <2>2
      <4>2. IsFiniteSet(sent')
        BY <2>1, <3>2, FS_AddElement
      <4> QED
        BY <1>1, <2>1, <3>2, <4>1, <4>2
    <3> QED
      BY <3>1, <3>2 DEF SinkDoes
  <2>4. CASE First.escalates /\ MaxInWindow > 0
    <3>1. /\ budget' = Append(Recent, tickNow) /\ sent' = sent \cup {<<tickNow, First.id>>}
          /\ Len(Recent) < MaxInWindow
      BY <2>4, ReflexAssumption DEF SinkDoes, Allowed
    <3> QED
      BY <1>1, <2>2, <2>3, <2>4, <3>1, BudgetPays
  <2>5. CASE ~(MaxInWindow > 0)
    <3>1. budget' = budget
      BY <2>5 DEF SinkDoes
    <3> QED
      BY <2>1, <2>3, <2>5, <3>1 DEF WithinBudget
  <2>6. CASE ~First.escalates
    <3>1. budget' = budget /\ sent' = sent /\ tickNow' \in Nat /\ tickNow' >= tickNow
      BY <1>1, <2>1, <2>6 DEF SinkDoes
    <3> QED
      BY <2>1, <2>3, <3>1, BudgetWaits
  <2> QED
    BY <2>4, <2>5, <2>6
<1>4. ReflexTypes'
  <2>1. acted' \in [RuleIds -> SUBSET Nat]
    BY <1>1, <1>2 DEF ReflexTypes, SinkTypes, FiredRule
  <2>2. SinkTypes'
    BY <1>1, <1>2, <1>3, <2>1 DEF ReflexTypes, SinkTypes
  <2> QED
    BY <1>1, <2>2 DEF ReflexTypes, EngineTypes, ReadingTypes, NoTick
<1>5. WayKnown'
  <2>1. \A i, j \in DOMAIN fired' : fired'[i].id = fired'[j].id => i = j
    <3> SUFFICES ASSUME NEW i \in DOMAIN fired', NEW j \in DOMAIN fired', fired'[i].id = fired'[j].id
                 PROVE  i = j
      OBVIOUS
    <3>1. i + 1 \in DOMAIN fired /\ j + 1 \in DOMAIN fired /\ fired[i + 1].id = fired[j + 1].id
      BY <1>1, <1>2
    <3>2. i + 1 = j + 1
      BY <1>1, <3>1 DEF WayKnown
    <3>3. i \in Int /\ j \in Int
      BY <1>1, <1>2
    <3> QED
      BY <3>2, <3>3
  <2>2. \A j \in DOMAIN fired' :
          engine'.evidence[fired'[j].id] # NoEvidence => fired'[j].evidence = engine'.evidence[fired'[j].id]
    BY <1>1, <1>2 DEF WayKnown
  <2> QED
    BY <1>1, <1>2, <2>1, <2>2 DEF WayKnown
<1>6. FiredIsDone'
  <2> SUFFICES ASSUME NEW i \in DOMAIN Rules, engine.evidence[Rules[i].id] # NoEvidence
               PROVE  \/ acted'[Rules[i].id] = engine.evidence[Rules[i].id]
                      \/ \E j \in DOMAIN fired' : fired'[j].id = Rules[i].id
                      \/ Rules[i].id \in dropped
    BY <1>1 DEF FiredIsDone
  <2>1. acted \in [RuleIds -> SUBSET Nat] /\ Rules[i].id \in RuleIds
    BY <1>1 DEF ReflexTypes, SinkTypes, RuleIds
  <2>2. CASE Rules[i].id = First.id
    <3>1. First.evidence = engine.evidence[Rules[i].id]
      BY <1>1, <1>2, <2>2 DEF WayKnown
    <3> QED
      BY <1>1, <2>1, <2>2, <3>1
  <2>3. CASE Rules[i].id # First.id
    <3>1. acted'[Rules[i].id] = acted[Rules[i].id]
      BY <1>1, <2>1, <2>3
    <3>2. \A j \in DOMAIN fired : fired[j].id = Rules[i].id => j - 1 \in DOMAIN fired' /\ fired'[j - 1] = fired[j]
      BY <1>1, <1>2, <2>3
    <3> QED
      BY <1>1, <3>1, <3>2 DEF FiredIsDone
  <2> QED
    BY <2>2, <2>3
<1> QED
  BY <1>3, <1>4, <1>5, <1>6 DEF ReflexInv

\* What the budget or the sink takes is remembered as taken.
LEMMA TakenKeepsReflex ==
  ASSUME ReflexInv, Suppress \/ SinkFails
  PROVE  ReflexInv'
<1>1. /\ ReflexTypes /\ WayKnown /\ FiredIsDone
      /\ UNCHANGED <<tickNow, world, engine, reading, factsMade, acted, sent>>
      /\ fired # << >>
  BY DEF ReflexInv, Suppress, SinkFails
<1>2. /\ First = fired[1] /\ First \in FiredRule /\ 1 \in DOMAIN fired /\ ~reading.on
      /\ Tail(fired) \in Seq(FiredRule)
      /\ \A j \in DOMAIN Tail(fired) : j + 1 \in DOMAIN fired /\ Tail(fired)[j] = fired[j + 1]
      /\ \A j \in DOMAIN fired : j # 1 => j - 1 \in DOMAIN Tail(fired) /\ Tail(fired)[j - 1] = fired[j]
  BY <1>1, NextFired
<1>3. tickNow \in Nat /\ sinkFaults \in Nat /\ fired \in Seq(FiredRule) /\ dropped \in SUBSET RuleIds /\ budget \in Seq(Nat)
  BY <1>1 DEF ReflexTypes, SinkTypes
<1>4. WithinBudget' /\ budget' \in Seq(Nat)
  <2>1. CASE budget' = budget
    BY <1>1, <1>3, <2>1, BudgetWaits
  <2>2. CASE budget' \in {Recent, Append(Recent, tickNow)}
    BY <1>1, <2>2, BudgetTurns
  <2> QED
    BY <2>1, <2>2 DEF Suppress, SinkFails
<1>5. /\ fired' \in {Tail(fired), << >>}
      /\ dropped' \in SUBSET RuleIds /\ dropped \subseteq dropped'
      /\ fired' = Tail(fired) => First.id \in dropped'
      /\ fired' = << >> => \A j \in DOMAIN fired : fired[j].id \in dropped'
      /\ sinkFaults' \in Nat
  <2>1. CASE Suppress
    <3>1. /\ fired' = Tail(fired) /\ dropped' = dropped \cup {First.id} /\ sinkFaults' = sinkFaults
      BY <2>1 DEF Suppress
    <3>2. First.id \in RuleIds
      BY <1>2 DEF FiredRule
    <3>3. fired' = << >> => \A j \in DOMAIN fired : j = 1
      BY <1>2, <3>1
    <3> QED
      BY <1>2, <1>3, <3>1, <3>2, <3>3
  <2>2. CASE SinkFails
    <3>1. /\ fired' = << >> /\ dropped' = dropped \cup {fired[i].id : i \in DOMAIN fired}
          /\ sinkFaults' = sinkFaults + 1
      BY <2>2 DEF SinkFails
    <3>2. \A j \in DOMAIN fired : fired[j].id \in RuleIds
      <4>1. \A j \in DOMAIN fired : fired[j] \in FiredRule
        BY <1>3
      <4> QED
        BY <4>1 DEF FiredRule
    <3> QED
      BY <1>2, <1>3, <3>1, <3>2
  <2> QED
    BY <2>1, <2>2
<1>6. ReflexTypes'
  <2>1. fired' \in Seq(FiredRule)
    <3>1. << >> \in Seq(FiredRule)
      OBVIOUS
    <3> QED
      BY <1>2, <1>5, <3>1
  <2>2. SinkTypes'
    BY <1>1, <1>4, <1>5, <2>1 DEF ReflexTypes, SinkTypes
  <2> QED
    BY <1>1, <1>5, <2>2 DEF ReflexTypes, EngineTypes, ReadingTypes, NoTick
<1>7. WayKnown'
  <2>1. CASE fired' = << >>
    BY <1>1, <2>1 DEF WayKnown
  <2>2. CASE fired' = Tail(fired)
    <3>1. \A i, j \in DOMAIN fired' : fired'[i].id = fired'[j].id => i = j
      <4> SUFFICES ASSUME NEW i \in DOMAIN fired', NEW j \in DOMAIN fired', fired'[i].id = fired'[j].id
                   PROVE  i = j
        OBVIOUS
      <4>1. i + 1 \in DOMAIN fired /\ j + 1 \in DOMAIN fired /\ fired[i + 1].id = fired[j + 1].id
        BY <1>2, <2>2
      <4>2. i + 1 = j + 1
        BY <1>1, <4>1 DEF WayKnown
      <4>3. i \in Int /\ j \in Int
        BY <1>2, <2>2
      <4> QED
        BY <4>2, <4>3
    <3>2. \A j \in DOMAIN fired' :
            engine'.evidence[fired'[j].id] # NoEvidence => fired'[j].evidence = engine'.evidence[fired'[j].id]
      BY <1>1, <1>2, <2>2 DEF WayKnown
    <3> QED
      BY <1>1, <1>2, <3>1, <3>2 DEF WayKnown
  <2> QED
    BY <1>5, <2>1, <2>2
<1>8. FiredIsDone'
  <2> SUFFICES ASSUME NEW i \in DOMAIN Rules, engine.evidence[Rules[i].id] # NoEvidence,
                      NEW j \in DOMAIN fired, fired[j].id = Rules[i].id
               PROVE  \/ \E k \in DOMAIN fired' : fired'[k].id = Rules[i].id
                      \/ Rules[i].id \in dropped'
    BY <1>1, <1>5 DEF FiredIsDone
  <2>1. CASE fired' = << >>
    BY <1>5, <2>1
  <2>2. CASE fired' = Tail(fired) /\ j = 1
    BY <1>2, <1>5, <2>2
  <2>3. CASE fired' = Tail(fired) /\ j # 1
    <3>1. j - 1 \in DOMAIN Tail(fired) /\ Tail(fired)[j - 1] = fired[j]
      BY <1>2, <2>3
    <3>2. j - 1 \in DOMAIN fired' /\ fired'[j - 1].id = Rules[i].id
      BY <2>3, <3>1
    <3> QED
      BY <3>2
  <2> QED
    BY <1>5, <2>1, <2>2, <2>3
<1> QED
  BY <1>4, <1>6, <1>7, <1>8 DEF ReflexInv

LEMMA RestartKeepsReflex ==
  ASSUME ReflexInv, ReflexRestarts
  PROVE  ReflexInv'
<1>1. /\ ReflexTypes
      /\ UNCHANGED <<tickNow, world, factsMade, acted>>
      /\ engine' = FreshEngine /\ reading' = NoTick /\ fired' = << >> /\ budget' = << >>
      /\ dropped' = {} /\ sent' = {} /\ sinkFaults' = sinkFaults + 1
  BY DEF ReflexInv, ReflexRestarts
<1>2. EngineTypes' /\ \A r \in RuleIds : engine'.evidence[r] = NoEvidence
  BY <1>1 DEF EngineTypes, FreshEngine, NoEvidence
<1>3. ReflexTypes'
  BY <1>1, <1>2, FS_EmptySet DEF ReflexTypes, ReadingTypes, SinkTypes, NoTick
<1>4. WayKnown' /\ FiredIsDone'
  BY <1>1, <1>2 DEF WayKnown, FiredIsDone, RuleIds, NoTick
<1>5. WithinBudget'
  <2>1. (\E f : Backs(f))'
    <3>1. PICK f : f = [s \in {} |-> 0]
      OBVIOUS
    <3>2. Backs(f)'
      BY <1>1, <3>1 DEF Backs
    <3> QED
      BY <3>2
  <2>2. \A t \in Nat : Stretch(t)' = {}
    BY <1>1 DEF Stretch
  <2>3. \A t \in Nat : Cardinality(Stretch(t)') = 0
    BY <2>2, FS_EmptySet
  <2>4. (\A t \in Nat : Cardinality(Stretch(t)) <= MaxInWindow)'
    BY <2>3, ReflexAssumption
  <2> QED
    BY <2>1, <2>4 DEF WithinBudget
<1> QED
  BY <1>3, <1>4, <1>5 DEF ReflexInv

LEMMA ReflexInvStep == ReflexInv /\ [ReflexNext]_reflexVars => ReflexInv'
<1> SUFFICES ASSUME ReflexInv, [ReflexNext]_reflexVars
             PROVE  ReflexInv'
  OBVIOUS
<1>1. CASE UNCHANGED reflexVars
  <2>1. UNCHANGED <<tickNow, world, engine, reading, fired, budget, factsMade, sinkFaults, acted, dropped, sent>>
    BY <1>1 DEF reflexVars
  <2>2. WithinBudget'
    BY <2>1, BudgetWaits DEF ReflexInv, ReflexTypes
  <2> QED
    BY <2>1, <2>2 DEF ReflexInv, ReflexTypes, EngineTypes, ReadingTypes, SinkTypes, NoTick, WayKnown, FiredIsDone
<1>2. CASE ReflexNext
  <2>1. ASSUME NEW e \in Watched, NEW v \in {0, 1}, WriteFact(e, v) \/ Withhold(e) \/ ReadEntity(e)
        PROVE  ReflexInv'
    BY <2>1, WriterKeepsReflex
  <2> QED
    BY <1>2, <2>1, TickKeepsReflex, EvaluateKeepsReflex, DoneKeepsReflex, TakenKeepsReflex, RestartKeepsReflex
    DEF ReflexNext
<1> QED
  BY <1>1, <1>2

\* Whatever a rule fired on is done, about to be, or was taken from it by the
\* budget or a failing sink; and no window of the life of a process sees more
\* escalations than the budget allows (evaluate, tick_and_dispatch, allow).
THEOREM FiresWithinBudgetHolds == ReflexSpec => []FiresWithinBudget
<1>1. ReflexInv => FiresWithinBudget
  BY ReflexAssumption DEF ReflexInv, WithinBudget, FiresWithinBudget, EscalationsBounded, Stretch
<1> QED
  BY <1>1, ReflexStarts, ReflexInvStep, PTL DEF ReflexSpec

-----------------------------------------------------------------------------
(* Limits of a node *)

\* What is well formed, with the facts as the sequence they are.
LimitsInv == TypeOK /\ facts \in Seq(Frames)

\* Whatever the air drops for it, what is on it afterwards are frames.
LEMMA SentAreFrames ==
  ASSUME up \subseteq Frames, NEW f \in Frames, Send(f)
  PROVE  up' \subseteq Frames
BY DEF Send

\* A new fact of a kind takes the place of the old one: there is one of each.
LEMMA OneOfAKind ==
  ASSUME LimitsInv, NEW k, NEW rest \in WithoutKind(k)
  PROVE  /\ rest \in Seq(Frames)
         /\ \A i \in DOMAIN rest : rest[i].kind # k
         /\ \A i, j \in DOMAIN rest : rest[i].kind = rest[j].kind => i = j
<1> DEFINE is == {i \in DOMAIN facts : facts[i].kind # k}
<1>1. PICK r \in Ascending(is) : rest = [n \in DOMAIN r |-> facts[r[n]]]
  BY DEF WithoutKind
<1>2. facts \in Seq(Frames) /\ is \subseteq DOMAIN facts
  BY DEF LimitsInv
<1>3. /\ rest \in Seq(Frames)
      /\ \A i \in DOMAIN r : r[i] \in is
      /\ \A i, j \in DOMAIN r : r[i] = r[j] => i = j
  <2> HIDE DEF is
  <2> QED
    BY <1>1, <1>2, AscendingCovers
<1>4. DOMAIN rest = DOMAIN r /\ \A i \in DOMAIN r : rest[i] = facts[r[i]]
  BY <1>1
<1>5. \A i, j \in DOMAIN facts : facts[i].kind = facts[j].kind => i = j
  BY DEF LimitsInv, TypeOK
<1> QED
  BY <1>3, <1>4, <1>5

\* The boot named last is one of the node's, or none.
LEMMA LatestIsABoot ==
  ASSUME LimitsInv
  PROVE  Latest \in 0 .. MaxBoots /\ (facts # << >> => Latest \in 1 .. MaxBoots)
<1>1. MaxBoots \in Nat \ {0} /\ facts \in Seq(Frames)
  BY IntervalsAssumption DEF LimitsInv
<1>2. CASE facts = << >>
  BY <1>1, <1>2 DEF Latest, NoBoot
<1>3. CASE facts # << >>
  <2>1. Len(facts) \in Nat \ {0} /\ facts[Len(facts)] \in Frames
    BY <1>1, <1>3
  <2>2. Latest = facts[Len(facts)].boot
    BY <1>3 DEF Latest, Last
  <2>3. Latest \in 1 .. MaxBoots
    BY <2>1, <2>2 DEF Frames
  <2> QED
    BY <1>1, <2>3
<1> QED
  BY <1>2, <1>3

\* Facts that are frames, one of a kind, are what TypeOK says of them.
LEMMA FactsFit ==
  ASSUME NEW s \in Seq(Frames)
  PROVE  ToSet(s) \subseteq Frames
BY DEF ToSet

LEMMA LimitsStart == Init => LimitsInv
<1> SUFFICES ASSUME Init PROVE LimitsInv
  OBVIOUS
<1>1. MaxBoots \in Nat \ {0} /\ BeaconEvery \in Nat \ {0} /\ RetryAfter \in Nat \ {0}
  BY IntervalsAssumption
<1>2. Frame("announce", 1, TRUE) \in Frames
  BY <1>1 DEF Frame, Frames, Kinds
<1>3. facts = << >> /\ facts \in Seq(Frames) /\ ToSet(facts) \subseteq Frames
  <2>1. facts = << >>
    BY DEF Init
  <2>2. facts \in Seq(Frames)
    BY <2>1
  <2> QED
    BY <2>1, <2>2, FactsFit
<1>4. up \subseteq Frames /\ down \subseteq 1 .. MaxBoots
  BY <1>2 DEF Init
<1>5. pushed \in [boot : 0 .. MaxBoots, refused : BOOLEAN]
  BY <1>1 DEF Init, NoPush, NoBoot
<1>6. /\ config \in {"none", "fits", "too_long"} /\ boot \in 1 .. MaxBoots
      /\ told \in BOOLEAN /\ beaconAge \in 0 .. BeaconEvery /\ pushAge \in 0 .. RetryAfter
      /\ link \in BOOLEAN
  <2>1. boot = 1 /\ beaconAge = 0 /\ pushAge = RetryAfter
    BY DEF Init
  <2>2. boot \in 1 .. MaxBoots /\ beaconAge \in 0 .. BeaconEvery /\ pushAge \in 0 .. RetryAfter
    BY <1>1, <2>1
  <2>3. config \in {"none", "fits", "too_long"} /\ told \in BOOLEAN /\ link \in BOOLEAN
    BY DEF Init
  <2> QED
    BY <2>2, <2>3
<1>7. \A i, j \in DOMAIN facts : facts[i].kind = facts[j].kind => i = j
  BY <1>3
<1> QED
  BY <1>3, <1>4, <1>5, <1>6, <1>7 DEF LimitsInv, TypeOK

LEMMA LimitsKeep == LimitsInv /\ [Next]_vars => LimitsInv'
<1> SUFFICES ASSUME LimitsInv, [Next]_vars PROVE LimitsInv'
  OBVIOUS
<1>1. MaxBoots \in Nat \ {0} /\ BeaconEvery \in Nat \ {0} /\ RetryAfter \in Nat \ {0}
  BY IntervalsAssumption
<1> USE <1>1 DEF LimitsInv
<1>2. CASE Reboot
  <2>1. boot' \in 1 .. MaxBoots /\ Send(Frame("announce", boot', TRUE))
    <3>1. boot < MaxBoots /\ boot' = boot + 1 /\ Send(Frame("announce", boot', TRUE))
      BY <1>2 DEF Reboot
    <3>2. boot \in 1 .. MaxBoots
      BY DEF TypeOK
    <3>3. boot' \in 1 .. MaxBoots
      BY <3>1, <3>2
    <3> QED
      BY <3>1, <3>3
  <2>2. Frame("announce", boot', TRUE) \in Frames
    BY <2>1 DEF Frame, Frames, Kinds
  <2>3. up' \subseteq Frames
    BY <2>1, <2>2, SentAreFrames DEF TypeOK
  <2> QED
    <3>1. told' = FALSE /\ beaconAge' = 0
      BY <1>2 DEF Reboot
    <3>2. told' \in BOOLEAN /\ beaconAge' \in 0 .. BeaconEvery
      <4>1. beaconAge' \in 0 .. BeaconEvery
        BY <3>1
      <4>2. told' \in BOOLEAN
        BY <3>1
      <4> QED
        BY <4>1, <4>2
    <3>3. UNCHANGED <<config, down, facts, pushed, pushAge, link>>
      BY <1>2 DEF Reboot, host
    <3> QED
      BY <2>1, <2>3, <3>2, <3>3 DEF TypeOK
<1>3. CASE Beacon
  <2>1. Send(Frame("beacon", boot, ~told))
    BY <1>3 DEF Beacon
  <2>2. Frame("beacon", boot, ~told) \in Frames
    BY DEF Frame, Frames, Kinds, TypeOK
  <2>3. up' \subseteq Frames
    BY <2>1, <2>2, SentAreFrames DEF TypeOK
  <2> QED
    BY <1>3, <2>3 DEF Beacon, TypeOK, host
<1>4. CASE \E c \in down : TakeLimits(c)
  <2>1. PICK c \in down : TakeLimits(c)
    BY <1>4
  <2>2. Frame("reply", boot, FALSE) \in Frames
    BY DEF Frame, Frames, Kinds, TypeOK
  <2>3. up' \subseteq Frames
    BY <2>1, <2>2, SentAreFrames DEF TakeLimits, TypeOK
  <2> QED
    BY <2>1, <2>3 DEF TakeLimits, TypeOK, host
<1>5. CASE \E f \in up : Arrive(f)
  <2>1. PICK f \in up : Arrive(f)
    BY <1>5
  <2>2. PICK rest \in WithoutKind(f.kind) : facts' = Append(rest, f)
    BY <2>1 DEF Arrive
  <2>3. /\ rest \in Seq(Frames) /\ f \in Frames
        /\ \A i \in DOMAIN rest : rest[i].kind # f.kind
        /\ \A i, j \in DOMAIN rest : rest[i].kind = rest[j].kind => i = j
    BY <2>2, OneOfAKind DEF TypeOK
  <2>4. facts' \in Seq(Frames)
    BY <2>2, <2>3
  <2>5. \A i, j \in DOMAIN facts' : facts'[i].kind = facts'[j].kind => i = j
    <3>1. /\ DOMAIN facts' = 1 .. (Len(rest) + 1) /\ DOMAIN rest = 1 .. Len(rest) /\ Len(rest) \in Nat
          /\ \A i \in 1 .. Len(rest) : facts'[i] = rest[i]
          /\ facts'[Len(rest) + 1] = f
      BY <2>2, <2>3
    <3> QED
      BY <2>3, <3>1
  <2>6. ToSet(facts') \subseteq Frames
    BY <2>4, FactsFit
  <2> QED
    BY <2>1, <2>4, <2>5, <2>6 DEF Arrive, TypeOK, node
<1>6. CASE \E f \in up : LoseFrame(f)
  BY <1>6 DEF LoseFrame, TypeOK, node, host
<1>7. CASE \E c \in down : LosePush(c)
  BY <1>7 DEF LosePush, TypeOK, node, host
<1>8. CASE OtherReply
  <2>1. facts' \in WithoutKind("reply")
    BY <1>8 DEF OtherReply
  <2>2. /\ facts' \in Seq(Frames)
        /\ \A i, j \in DOMAIN facts' : facts'[i].kind = facts'[j].kind => i = j
    BY <2>1, OneOfAKind
  <2>3. ToSet(facts') \subseteq Frames
    BY <2>2, FactsFit
  <2> QED
    BY <1>8, <2>2, <2>3 DEF OtherReply, TypeOK, node
<1>9. CASE LinkChanges
  BY <1>9 DEF LinkChanges, TypeOK, node, host
<1>10. CASE Hydrate
  <2>1. facts # << >>
    BY <1>10 DEF Hydrate, Owed, Latest
  <2>2. Latest \in 1 .. MaxBoots
    BY <2>1, LatestIsABoot
  <2>3. pushed' \in [boot : 0 .. MaxBoots, refused : BOOLEAN] /\ down' \subseteq 1 .. MaxBoots
    <3>1. /\ pushed' = [boot |-> Latest, refused |-> config = "too_long"]
          /\ down' = IF config = "fits" THEN down \cup {Latest} ELSE down
      BY <1>10 DEF Hydrate
    <3>2. (config = "too_long") \in BOOLEAN
      OBVIOUS
    <3>3. Latest \in 0 .. MaxBoots
      BY <2>2
    <3> DEFINE r == config = "too_long"
    <3>4. [boot |-> Latest, refused |-> r] \in [boot : 0 .. MaxBoots, refused : BOOLEAN]
      <4> HIDE DEF r
      <4> QED
        BY <3>2, <3>3 DEF r
    <3>5. down' \subseteq 1 .. MaxBoots
      BY <2>2, <3>1 DEF TypeOK
    <3> QED
      BY <3>1, <3>4, <3>5
  <2> QED
    BY <1>10, <2>3 DEF Hydrate, TypeOK, node
<1>11. CASE Elapse
  BY <1>11 DEF Elapse, TypeOK
<1>12. CASE UNCHANGED vars
  BY <1>12 DEF vars, node, host, TypeOK
<1> QED
  BY <1>2, <1>3, <1>4, <1>5, <1>6, <1>7, <1>8, <1>9, <1>10, <1>11, <1>12 DEF Next

\* There is one fact of each kind, and all the host reads is well formed, for
\* any number of boots and frames (boot_snapshot).
THEOREM LimitsTypeCorrect == Spec => []TypeOK
<1>1. LimitsInv => TypeOK
  BY DEF LimitsInv
<1> QED
  BY <1>1, LimitsStart, LimitsKeep, PTL DEF Spec

\* The host never pushes limits that no frame carries, and limits refused for
\* their size stay refused until the node names another boot (limits_to_push,
\* hydrate_limits).
THEOREM OnlyFittingLimitsGo == Spec => OnlyFittingLimitsTravel
<1> DEFINE Step == /\ down' \subseteq down \/ config = "fits"
                   /\ pushed.refused /\ Latest = pushed.boot => pushed' = pushed /\ pushAge' >= pushAge
<1>1. LimitsInv /\ [Next]_vars => [Step]_vars
  <2> SUFFICES ASSUME LimitsInv, Next PROVE Step
    OBVIOUS
  <2>1. pushAge \in Nat /\ RetryAfter \in Nat
    BY IntervalsAssumption DEF LimitsInv, TypeOK
  <2>2. CASE Hydrate
    BY <2>2 DEF Hydrate, Owed
  <2>3. CASE Elapse
    BY <2>1, <2>3 DEF Elapse
  <2>4. CASE \/ Reboot \/ Beacon \/ (\E c \in down : TakeLimits(c)) \/ (\E c \in down : LosePush(c))
             \/ (\E f \in up : Arrive(f) \/ LoseFrame(f)) \/ OtherReply \/ LinkChanges
    <3>1. CASE \/ \E f \in up : Arrive(f)
               \/ \E c \in down : TakeLimits(c)
               \/ \E c \in down : LosePush(c)
      <4>1. down' \subseteq down /\ UNCHANGED <<pushed, pushAge>>
        <5>1. CASE \E f \in up : Arrive(f)
          BY <5>1 DEF Arrive
        <5>2. CASE \E c \in down : TakeLimits(c)
          BY <5>2 DEF TakeLimits, host
        <5>3. CASE \E c \in down : LosePush(c)
          BY <5>3 DEF LosePush, host
        <5> QED
          BY <3>1, <5>1, <5>2, <5>3
      <4> QED
        BY <2>1, <4>1
    <3>2. CASE \/ Reboot \/ Beacon \/ OtherReply \/ LinkChanges \/ (\E f \in up : LoseFrame(f))
      <4>1. UNCHANGED <<down, pushed, pushAge>>
        BY <3>2 DEF Reboot, Beacon, LoseFrame, OtherReply, LinkChanges, host
      <4> QED
        BY <2>1, <4>1
    <3> QED
      BY <2>4, <3>1, <3>2
  <2> QED
    BY <2>2, <2>3, <2>4 DEF Next
<1> QED
  BY <1>1, LimitsStart, LimitsKeep, PTL DEF Spec, OnlyFittingLimitsTravel
================================================================================
