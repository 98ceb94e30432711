---------------------------- MODULE Beliefs_proofs ----------------------------
(* What holds of world memory for any set of producers, any policy and any    *)
(* number of rows: a closed row is final, an observation leaves no earlier     *)
(* fact of its entity open, markers are withdrawn by the operator only, and    *)
(* the cascade withdraws nothing that still has a justification.               *)
EXTENDS Beliefs, TLAPS, SequenceTheorems

-----------------------------------------------------------------------------
(* The inductive invariant.                                                   *)

RowSet == [entity : Entities \cup Sources, from : 0 .. MaxTime, to : {Open} \cup 0 .. MaxTime,
           at : 0 .. MaxTime, source : Sources, support : SUBSET (SUBSET Nat), reason : Reasons]

Whys == {"none", "source-stopped", "expired"}
SweepSet ==
  [phase : {"idle", "judged", "marked", "closing", "walking"}, why : Whys, source : Sources,
   todo : SUBSET (Nat \cup [id : Nat, open : BOOLEAN]), queue : Seq(Nat),
   seen : SUBSET Nat, closed : SUBSET Nat, since : Nat]

\* What a belief rests on was written before it.
SupportInv == \A i \in Ids : UNION rows[i].support \subseteq 1 .. i - 1

\* An open row has no reason yet; a marker is the liveness source's and rests
\* on nothing.
RowInv ==
  \A i \in Ids :
    /\ Believed(i) => rows[i].reason = "none"
    /\ IsMarker(rows[i].entity) => rows[i].source = Liveness /\ rows[i].support = {}

\* A sweep lists no marker, and nothing that is not a row.
SweepInv ==
  /\ sweep.phase \in {"judged", "marked"} => sweep.source # Liveness
  /\ sweep.phase = "closing" =>
       /\ sweep.todo \subseteq {i \in Ids : ~IsMarker(rows[i].entity)}
       /\ sweep.why # "none"
  /\ sweep.phase = "walking" => sweep.todo \subseteq [id : Ids, open : BOOLEAN]
  /\ sweep.closed \cup sweep.seen \subseteq Ids

RowsOK ==
  /\ rows \in Seq(RowSet) /\ Len(rows) <= MaxRows
  /\ SupportInv /\ RowInv /\ OneOpenInOrder /\ MarkersStand

IInv == RowsOK /\ now \in 0 .. MaxTime /\ sweep \in SweepSet /\ SweepInv

-----------------------------------------------------------------------------
(* What a statement does to the rows that were there.                         *)

\* Each is left alone or, if it was open, closed; its reason then is r's.
Finishes(i, r) ==
  \/ rows'[i] = rows[i]
  \/ /\ Believed(i)
     /\ \E t \in 0 .. MaxTime : rows'[i] = [rows[i] EXCEPT !.to = t, !.reason = r]

\* Rows stay, and new ones come only at the end.
Grows == rows' \in Seq(RowSet) /\ Len(rows) <= Len(rows') /\ Len(rows') <= MaxRows

\* What the assumptions on the constants give.
LEMMA ConstantsTyped ==
  /\ MaxTime \in Nat /\ MaxRows \in Nat /\ Agent \in Sources /\ Liveness \in Sources
  /\ \A e \in Entities : ~IsMarker(e)
  /\ \A s \in Sources : IsMarker(Marker(s))
BY BoundsAssumption, NamesAssumption DEF Sources, Entities, IsMarker, Marker

\* Every id names a row.
LEMMA RowIsTyped ==
  ASSUME rows \in Seq(RowSet), NEW i \in Ids
  PROVE  rows[i] \in RowSet
BY DEF Ids

\* A row closed at a time of the clock is a row.
LEMMA ClosedRowTyped ==
  ASSUME NEW x \in RowSet, NEW t \in 0 .. MaxTime, NEW r \in Reasons
  PROVE  /\ [x EXCEPT !.to = t, !.reason = r] \in RowSet
         /\ [x EXCEPT !.to = t] \in RowSet
BY DEF RowSet

\* insert's UPDATE keeps every row and closes those it must.
LEMMA ClosedByFacts ==
  ASSUME rows \in Seq(RowSet), NEW e, NEW from \in 0 .. MaxTime
  PROVE  /\ ClosedBy(e, from) \in Seq(RowSet)
         /\ Len(ClosedBy(e, from)) = Len(rows)
         /\ \A i \in Ids : ClosedBy(e, from)[i] =
              IF rows[i].entity = e /\ Believed(i) /\ rows[i].from <= from
              THEN [rows[i] EXCEPT !.to = from] ELSE rows[i]
<1>1. \A i \in Ids : rows[i] \in RowSet
  BY RowIsTyped
<1>2. \A i \in Ids : [rows[i] EXCEPT !.to = from] \in RowSet
  BY <1>1 DEF RowSet
<1>3. ClosedBy(e, from) \in [1 .. Len(rows) -> RowSet]
  BY <1>1, <1>2 DEF ClosedBy, Ids
<1>4. Len(rows) \in Nat
  OBVIOUS
<1> QED
  BY <1>3, <1>4, IsASeq, LenProperties DEF ClosedBy, Ids

-----------------------------------------------------------------------------
(* Rows survive each statement.                                               *)

\* Closings preserve what is known of rows, provided no marker is closed
\* without the operator.
LEMMA ClosingKeepsRows ==
  ASSUME RowsOK, NEW r \in Reasons,
         rows' \in Seq(RowSet), Len(rows') = Len(rows),
         \A i \in Ids : Finishes(i, r),
         r \in {"none", "operator"} \/
           \A i \in Ids : IsMarker(rows[i].entity) => rows'[i] = rows[i]
  PROVE  RowsOK'
<1> USE DEF RowsOK
<1>1. Ids' = Ids
  BY DEF Ids
<1>2. \A i \in Ids : rows[i] \in RowSet
  BY RowIsTyped
<1>3. \A i \in Ids : /\ rows'[i].entity = rows[i].entity /\ rows'[i].from = rows[i].from
                     /\ rows'[i].source = rows[i].source /\ rows'[i].support = rows[i].support
  BY <1>2 DEF Finishes, RowSet
<1>4. \A i \in Ids : /\ Believed(i)' => rows'[i] = rows[i]
                     /\ rows'[i].reason \in {rows[i].reason, r}
  <2> TAKE i \in Ids
  <2>1. CASE rows'[i] = rows[i]
    BY <2>1
  <2>2. ASSUME NEW u \in 0 .. MaxTime, rows'[i] = [rows[i] EXCEPT !.to = u, !.reason = r]
        PROVE  rows'[i].to = u /\ rows'[i].reason = r
    BY <1>2, <2>2 DEF RowSet
  <2>3. \A u \in 0 .. MaxTime : u # -1
    BY ConstantsTyped
  <2> QED
    BY <2>1, <2>2, <2>3 DEF Finishes, Believed, Open
<1>5. SupportInv'
  BY <1>1, <1>3 DEF SupportInv
<1>6. RowInv'
  BY <1>1, <1>3, <1>4 DEF RowInv, Believed
<1>7. OneOpenInOrder'
  BY <1>1, <1>3, <1>4 DEF OneOpenInOrder, Believed
<1>8. MarkersStand'
  BY <1>1, <1>3, <1>4 DEF MarkersStand
<1> QED
  BY <1>5, <1>6, <1>7, <1>8

\* An insert: its UPDATE finishes the predecessors, and the new row is the one
\* open fact that starts at or after them.
LEMMA InsertKeepsRows ==
  ASSUME RowsOK, now \in 0 .. MaxTime,
         NEW e \in Entities \cup Sources, NEW from \in 0 .. MaxTime, NEW s \in Sources,
         NEW support \in SUBSET (SUBSET Ids),
         IsMarker(e) => s = Liveness /\ support = {},
         Insert(e, from, s, support)
  PROVE  /\ RowsOK' /\ Grows
         /\ \A i \in Ids : Finishes(i, rows[i].reason)
<1> USE DEF RowsOK
<1> DEFINE old == ClosedBy(e, from)
           new == Row(e, from, s, support)
<1>1. /\ old \in Seq(RowSet) /\ Len(old) = Len(rows)
      /\ \A i \in Ids : old[i] = IF rows[i].entity = e /\ Believed(i) /\ rows[i].from <= from
                                 THEN [rows[i] EXCEPT !.to = from] ELSE rows[i]
  BY ClosedByFacts
<1>2. /\ Len(rows) < MaxRows /\ rows' = Append(old, new)
      /\ new = [entity |-> e, from |-> from, to |-> Open, at |-> now, source |-> s,
                support |-> support, reason |-> "none"]
  BY DEF Insert, Row
<1>3. new \in RowSet
  BY <1>2 DEF RowSet, Reasons, Ids
<1>0. /\ new.entity = e /\ new.from = from /\ new.to = Open /\ new.source = s
      /\ new.support = support /\ new.reason = "none"
  BY <1>2
<1> HIDE DEF old, new
<1>4. Len(rows) \in Nat
  OBVIOUS
<1>5. /\ rows' \in Seq(RowSet) /\ Len(rows') = Len(rows) + 1
      /\ \A i \in Ids : rows'[i] = old[i]
      /\ rows'[Len(rows) + 1] = new
  BY <1>1, <1>2, <1>3, <1>4, AppendProperties DEF Ids
<1>6. \A i \in Ids : rows[i] \in RowSet
  BY RowIsTyped
<1>7. \A i \in Ids : /\ rows'[i].entity = rows[i].entity /\ rows'[i].from = rows[i].from
                     /\ rows'[i].source = rows[i].source /\ rows'[i].support = rows[i].support
                     /\ rows'[i].reason = rows[i].reason
                     /\ rows'[i].to = IF rows[i].entity = e /\ Believed(i) /\ rows[i].from <= from
                                     THEN from ELSE rows[i].to
  BY <1>1, <1>5, <1>6 DEF RowSet
<1>8. \A i \in Ids : Finishes(i, rows[i].reason)
  <2> TAKE i \in Ids
  <2>1. rows[i] \in RowSet
    BY <1>6
  <2>2. [rows[i] EXCEPT !.to = from] = [rows[i] EXCEPT !.to = from, !.reason = rows[i].reason]
    BY <2>1 DEF RowSet
  <2> QED
    BY <1>1, <1>5, <2>2 DEF Finishes
<1>9. Ids' = Ids \cup {Len(rows) + 1} /\ \A i \in Ids : i < Len(rows) + 1 /\ i \in Nat
  BY <1>4, <1>5 DEF Ids
<1>10. from # Open
  BY ConstantsTyped DEF Open
<1>11. SupportInv'
  <2> SUFFICES ASSUME NEW i \in Ids' PROVE UNION rows'[i].support \subseteq 1 .. i - 1
    BY DEF SupportInv
  <2>1. CASE i \in Ids
    BY <2>1, <1>7 DEF SupportInv
  <2>2. CASE i = Len(rows) + 1
    <3>1. UNION support \subseteq Ids
      OBVIOUS
    <3>2. i - 1 = Len(rows) /\ rows'[i].support = support
      BY <2>2, <1>0, <1>4, <1>5
    <3> QED
      BY <3>1, <3>2 DEF Ids
  <2> QED
    BY <1>9, <2>1, <2>2
<1>12. RowInv'
  <2> SUFFICES ASSUME NEW i \in Ids'
               PROVE  /\ rows'[i].to = Open => rows'[i].reason = "none"
                      /\ IsMarker(rows'[i].entity) =>
                           rows'[i].source = Liveness /\ rows'[i].support = {}
    BY DEF RowInv, Believed, IsMarker
  <2>1. CASE i \in Ids
    BY <2>1, <1>7, <1>10 DEF RowInv, Believed
  <2>2. CASE i = Len(rows) + 1
    BY <2>2, <1>0, <1>5
  <2> QED
    BY <1>9, <2>1, <2>2
<1>13. OneOpenInOrder'
  <2> SUFFICES ASSUME NEW i \in Ids', NEW k \in Ids', i < k,
                      rows'[i].entity = rows'[k].entity, rows'[i].from <= rows'[k].from
               PROVE  rows'[i].to # Open
    BY DEF OneOpenInOrder, Believed
  <2>1. i \in Ids
    BY <1>4, <1>9
  <2>2. CASE k \in Ids
    <3>1. rows[i].entity = rows[k].entity /\ rows[i].from <= rows[k].from
      BY <2>1, <2>2, <1>7
    <3>2. ~Believed(i)
      BY <2>1, <2>2, <3>1 DEF OneOpenInOrder
    <3> QED
      BY <2>1, <3>2, <1>7 DEF Believed
  <2>3. CASE k = Len(rows) + 1
    <3>1. rows[i].entity = e /\ rows[i].from <= from
      BY <2>1, <2>3, <1>0, <1>5, <1>7
    <3> QED
      BY <2>1, <3>1, <1>7, <1>10 DEF Believed
  <2> QED
    BY <1>9, <2>2, <2>3
<1>14. MarkersStand'
  <2> SUFFICES ASSUME NEW i \in Ids', IsMarker(rows'[i].entity)
               PROVE  rows'[i].reason \in {"none", "operator"}
    BY DEF MarkersStand, IsMarker
  <2>1. CASE i \in Ids
    BY <2>1, <1>7 DEF MarkersStand
  <2>2. CASE i = Len(rows) + 1
    BY <2>2, <1>0, <1>5
  <2> QED
    BY <1>9, <2>1, <2>2
<1>15. Len(rows') <= MaxRows /\ Len(rows) <= Len(rows')
  BY <1>2, <1>4, <1>5, ConstantsTyped
<1> QED
  BY <1>5, <1>8, <1>11, <1>12, <1>13, <1>14, <1>15 DEF Grows

-----------------------------------------------------------------------------
(* Every statement, one by one.                                               *)

\* What a step may do to a row: finish it, with "unsupported" as the reason
\* only if none of its justifications stands.
Finished(i) ==
  \E r \in Reasons : Finishes(i, r) /\ (Believed(i) /\ r = "unsupported" => HasFailed(i))

RowStep == Len(rows) <= Len(rows') /\ \A i \in Ids : Finished(i)

\* A step that leaves the table alone.
LEMMA UnchangedRows ==
  ASSUME RowsOK, rows' = rows
  PROVE  RowsOK' /\ RowStep
<1>1. RowsOK'
  BY DEF RowsOK, SupportInv, RowInv, OneOpenInOrder, MarkersStand, Ids, Believed
<1>2. Len(rows) <= Len(rows')
  BY DEF RowsOK
<1>3. ASSUME NEW i \in Ids PROVE Finished(i)
  BY <1>3 DEF Finished, Finishes, Reasons
<1> QED
  BY <1>1, <1>2, <1>3 DEF RowStep

\* An insert, as a step: what it closes it closes without a reason.
LEMMA InsertStep ==
  ASSUME RowsOK, now \in 0 .. MaxTime,
         NEW e \in Entities \cup Sources, NEW from \in 0 .. MaxTime, NEW s \in Sources,
         NEW support \in SUBSET (SUBSET Ids),
         IsMarker(e) => s = Liveness /\ support = {},
         Insert(e, from, s, support)
  PROVE  RowsOK' /\ RowStep
<1>1. RowsOK' /\ Grows /\ \A i \in Ids : Finishes(i, rows[i].reason)
  BY InsertKeepsRows
<1>2. ASSUME NEW i \in Ids PROVE Finished(i)
  <2>1. rows[i].reason \in Reasons
    BY RowIsTyped DEF RowsOK, RowSet
  <2>2. Believed(i) => rows[i].reason = "none"
    BY DEF RowsOK, RowInv
  <2> QED
    BY <1>1, <2>1, <2>2 DEF Finished
<1> QED
  BY <1>1, <1>2 DEF RowStep, Grows

\* A step that only closes, under one reason.
LEMMA ClosingStep ==
  ASSUME RowsOK, NEW r \in Reasons,
         rows' \in Seq(RowSet), Len(rows') = Len(rows),
         \A i \in Ids : Finishes(i, r),
         r \in {"none", "operator"} \/
           \A i \in Ids : IsMarker(rows[i].entity) => rows'[i] = rows[i],
         r # "unsupported" \/ \A i \in Ids : rows'[i] = rows[i] \/ HasFailed(i)
  PROVE  RowsOK' /\ RowStep
<1>1. RowsOK'
  BY ClosingKeepsRows
<1>2. ASSUME NEW i \in Ids PROVE Finished(i)
  <2>1. CASE r # "unsupported" \/ HasFailed(i)
    BY <2>1 DEF Finished
  <2>2. CASE r = "unsupported" /\ ~HasFailed(i)
    BY <2>2 DEF Finished, Finishes, Reasons
  <2> QED
    BY <2>1, <2>2
<1>3. Len(rows) \in Nat
  BY DEF RowsOK
<1> QED
  BY <1>1, <1>2, <1>3 DEF RowStep

\* A step keeps the ids there are and the entity of each.
LEMMA KeptRows ==
  ASSUME RowsOK, RowsOK', RowStep
  PROVE  /\ Ids \subseteq Ids'
         /\ \A i \in Ids : rows'[i].entity = rows[i].entity
<1>1. Len(rows) \in Nat /\ Len(rows') \in Nat /\ Len(rows) <= Len(rows')
  BY DEF RowsOK, RowStep
<1>2. ASSUME NEW i \in Ids PROVE rows'[i].entity = rows[i].entity
  <2>1. rows[i] \in RowSet
    BY RowIsTyped DEF RowsOK
  <2> QED
    BY <2>1 DEF RowStep, Finished, Finishes, RowSet
<1> QED
  BY <1>1, <1>2 DEF Ids

\* No sweep, or a forgotten one.
LEMMA NoSweepTyped ==
  /\ NoSweep \in SweepSet
  /\ sweep' = NoSweep => SweepInv'
<1>1. NoSweep \in SweepSet
  BY ConstantsTyped, EmptySeq DEF NoSweep, SweepSet, Whys
<1>2. sweep' = NoSweep => SweepInv'
  BY DEF NoSweep, SweepInv
<1> QED
  BY <1>1, <1>2

\* A sweep under way survives what writers do to the rows.
LEMMA SweepSurvives ==
  ASSUME IInv, RowsOK', RowStep, sweep' = sweep
  PROVE  sweep' \in SweepSet /\ SweepInv'
<1>1. Ids \subseteq Ids' /\ \A i \in Ids : rows'[i].entity = rows[i].entity
  BY KeptRows DEF IInv
<1>2. sweep.phase = "closing" => sweep.todo \subseteq {i \in Ids' : ~IsMarker(rows'[i].entity)}
  BY <1>1 DEF IInv, SweepInv
<1>3. sweep.phase = "walking" => sweep.todo \subseteq [id : Ids', open : BOOLEAN]
  BY <1>1 DEF IInv, SweepInv
<1>4. sweep.closed \cup sweep.seen \subseteq Ids'
  BY <1>1 DEF IInv, SweepInv
<1> QED
  BY <1>2, <1>3, <1>4 DEF IInv, SweepInv, IsMarker

\* What a component may have read is what was written.
LEMMA SupportsTyped ==
  ASSUME NEW p \in Producers, NEW support \in Supports(p)
  PROVE  support \in SUBSET (SUBSET Ids)
<1>0. PICK alts \in Offered(p) :
        support \in {Justified(alts, f) : f \in Readings(UNION alts)}
  BY DEF Supports
<1>1. PICK f \in Readings(UNION alts) : support = Justified(alts, f)
  BY <1>0
<1>2. f \in [UNION alts -> Ids]
  BY <1>1 DEF Readings
<1>3. ASSUME NEW j \in alts PROVE {f[e] : e \in j} \subseteq Ids
  BY <1>2, <1>3
<1> QED
  BY <1>1, <1>3 DEF Justified

\* An observation.
LEMMA ObserveStep ==
  ASSUME IInv, NEW p \in Producers, Observe(p)
  PROVE  RowsOK' /\ RowStep
<1>1. PICK support \in Supports(p) : Insert(p.entity, now, p.source, support)
  BY DEF Observe
<1>2. support \in SUBSET (SUBSET Ids)
  BY SupportsTyped
<1>3. p.entity \in Entities /\ p.source \in Sources
  BY DEF Entities, Sources
<1>4. ~IsMarker(p.entity)
  BY <1>3, ConstantsTyped
<1> QED
  BY <1>1, <1>2, <1>3, <1>4, InsertStep DEF IInv

\* A claim of the agent, from whatever time it names.
LEMMA ClaimStep ==
  ASSUME IInv, NEW e \in Claimable, NEW from \in 0 .. MaxTime, Claim(e, from)
  PROVE  RowsOK' /\ RowStep
<1>1. e \in Entities /\ ~IsMarker(e) /\ Agent \in Sources
  BY NamesAssumption, ConstantsTyped
<1>2. Insert(e, from, Agent, {}) /\ {} \in SUBSET (SUBSET Ids)
  BY DEF Claim
<1> QED
  BY <1>1, <1>2, InsertStep DEF IInv

\* The write cut in two closes the predecessor and no more.
LEMMA TornInsertStep ==
  ASSUME IInv, NEW e \in Torn, TornInsert(e)
  PROVE  RowsOK' /\ RowStep
<1>1. rows' = ClosedBy(e, now) /\ rows \in Seq(RowSet) /\ now \in 0 .. MaxTime
  BY DEF TornInsert, IInv, RowsOK
<1>2. /\ rows' \in Seq(RowSet) /\ Len(rows') = Len(rows)
      /\ \A i \in Ids : rows'[i] = IF rows[i].entity = e /\ Believed(i) /\ rows[i].from <= now
                                   THEN [rows[i] EXCEPT !.to = now] ELSE rows[i]
  BY <1>1, ClosedByFacts
<1>3. ASSUME NEW i \in Ids PROVE Finishes(i, "none")
  <2>1. rows[i] \in RowSet
    BY <1>1, RowIsTyped
  <2>2. CASE Believed(i)
    <3>1. rows[i].reason = "none"
      BY <2>2 DEF IInv, RowsOK, RowInv
    <3>2. [rows[i] EXCEPT !.to = now] = [rows[i] EXCEPT !.to = now, !.reason = "none"]
      BY <2>1, <3>1 DEF RowSet
    <3> QED
      BY <1>1, <1>2, <2>2, <3>2 DEF Finishes
  <2>3. CASE ~Believed(i)
    BY <1>2, <2>3 DEF Finishes
  <2> QED
    BY <2>2, <2>3
<1>4. "none" \in Reasons
  BY DEF Reasons
<1> QED
  BY <1>2, <1>3, <1>4, ClosingStep DEF IInv

\* The operator's withdrawal, a marker's included.
LEMMA WithdrawStep ==
  ASSUME IInv, NEW e \in Withdrawable, Withdraw(e)
  PROVE  RowsOK' /\ RowStep
<1>0. rows \in Seq(RowSet) /\ now \in 0 .. MaxTime /\ Len(rows) \in Nat
  BY DEF IInv, RowsOK
<1> DEFINE after(i) == IF i \in OpenOf(e)
                       THEN [rows[i] EXCEPT !.to = now, !.reason = "operator"] ELSE rows[i]
<1>1. rows' = [i \in Ids |-> after(i)]
  BY Zenon DEF Withdraw
<1>2. \A i \in Ids : rows[i] \in RowSet
  BY <1>0, RowIsTyped
<1>3. \A i \in Ids : after(i) \in RowSet
  BY <1>0, <1>2, ClosedRowTyped DEF Reasons
<1>6. \A i \in Ids : after(i) = rows[i] \/
        (Believed(i) /\ after(i) = [rows[i] EXCEPT !.to = now, !.reason = "operator"])
  BY DEF OpenOf
<1> HIDE DEF after
<1>4. rows' \in [1 .. Len(rows) -> RowSet] /\ \A i \in Ids : rows'[i] = after(i)
  BY <1>1, <1>3 DEF Ids
<1>5. rows' \in Seq(RowSet) /\ Len(rows') = Len(rows)
  <2>1. rows' \in Seq(RowSet)
    BY <1>0, <1>4, IsASeq
  <2> QED
    BY <2>1, <1>0, <1>4, LenProperties
<1>7. \A i \in Ids : Finishes(i, "operator")
  BY <1>0, <1>4, <1>6 DEF Finishes
<1>8. "operator" \in Reasons
  BY DEF Reasons
<1> QED
  BY <1>0, <1>5, <1>7, <1>8, ClosingStep DEF IInv

\* close_fact on one row.
LEMMA CloseFacts ==
  ASSUME rows \in Seq(RowSet), now \in 0 .. MaxTime, NEW i \in Ids, NEW r \in Reasons,
         rows' = Close(i, r)
  PROVE  /\ rows' \in Seq(RowSet) /\ Len(rows') = Len(rows)
         /\ \A k \in Ids : Finishes(k, r) /\ (k # i => rows'[k] = rows[k])
<1>1. rows[i] \in RowSet /\ i \in 1 .. Len(rows) /\ Len(rows) \in Nat
  BY RowIsTyped DEF Ids
<1>2. CASE ~Believed(i)
  BY <1>2 DEF Close, Finishes
<1>3. CASE Believed(i)
  <2> DEFINE x == [rows[i] EXCEPT !.to = now, !.reason = r]
  <2>1. x \in RowSet
    BY <1>1, ClosedRowTyped
  <2>2. rows' = [rows EXCEPT ![i] = x]
    BY <1>3 DEF Close
  <2> HIDE DEF x
  <2>3. rows' \in Seq(RowSet) /\ Len(rows') = Len(rows) /\ rows'[i] = x
        /\ \A k \in Ids : k # i => rows'[k] = rows[k]
    BY <2>1, <2>2, <1>1, ExceptSeq DEF Ids
  <2>4. Finishes(i, r)
    BY <2>3, <1>3 DEF x, Finishes
  <2>5. \A k \in Ids : k # i => Finishes(k, r)
    BY <2>3 DEF Finishes
  <2> QED
    BY <2>3, <2>4, <2>5
<1> QED
  BY <1>2, <1>3

-----------------------------------------------------------------------------
(* The sweep's own steps.                                                     *)

\* Sweeps start from nothing.
LEMMA SweepShapes ==
  ASSUME NEW s \in Sources, NEW ids \in SUBSET Nat, NEW why \in Whys, NEW n \in Nat
  PROVE  /\ [NoSweep EXCEPT !.phase = "judged", !.source = s] \in SweepSet
         /\ [NoSweep EXCEPT !.phase = "marked", !.source = s] \in SweepSet
         /\ [NoSweep EXCEPT !.phase = "closing", !.why = why, !.since = n, !.todo = ids] \in SweepSet
BY NoSweepTyped DEF SweepSet

\* A source is judged silent; nothing is written yet.
LEMMA JudgeStep ==
  ASSUME IInv, NEW s \in Stoppable, Judge(s)
  PROVE  IInv' /\ RowStep
<1>1. s \in Sources /\ s # Liveness /\ rows' = rows /\ now' = now
      /\ sweep' = [NoSweep EXCEPT !.phase = "judged", !.source = s]
  BY NamesAssumption DEF Judge
<1>2. sweep' \in SweepSet
  <2>1. "none" \in Whys /\ 0 \in Nat /\ {} \in SUBSET Nat
    BY DEF Whys
  <2> QED
    BY <1>1, <2>1, SweepShapes
<1>3. SweepInv'
  BY <1>1 DEF SweepInv, NoSweep
<1>4. RowsOK' /\ RowStep
  BY <1>1, UnchangedRows DEF IInv
<1> QED
  BY <1>1, <1>2, <1>3, <1>4 DEF IInv

\* The marker is written under its own name, with nothing to rest on.
LEMMA StoppedStep ==
  ASSUME IInv, NEW s \in Sources, Stopped(s)
  PROVE  IInv' /\ RowStep
<1>1. Insert(Marker(s), now, Liveness, {}) /\ sweep' = Marked(s) /\ now' = now
  BY DEF Stopped
<1>2. Marker(s) \in Entities \cup Sources /\ Liveness \in Sources
  BY ConstantsTyped DEF Marker
<1>3. RowsOK' /\ RowStep
  BY <1>1, <1>2, InsertStep DEF IInv
<1>4. CASE s = Liveness
  BY <1>1, <1>3, <1>4, NoSweepTyped DEF Marked, IInv
<1>5. CASE s # Liveness
  <2>1. sweep' = [NoSweep EXCEPT !.phase = "marked", !.source = s]
    BY <1>1, <1>5 DEF Marked
  <2>2. sweep' \in SweepSet
    <3>1. "none" \in Whys /\ 0 \in Nat /\ {} \in SUBSET Nat
      BY DEF Whys
    <3> QED
      BY <2>1, <3>1, SweepShapes
  <2>3. SweepInv'
    BY <2>1, <1>5 DEF SweepInv, NoSweep
  <2> QED
    BY <1>1, <1>3, <2>2, <2>3 DEF IInv
<1> QED
  BY <1>4, <1>5

\* A list of rows to close names no marker.
LEMMA ClosingListStep ==
  ASSUME IInv, NEW ids \in SUBSET Ids, NEW why \in Whys \ {"none"},
         \A i \in ids : ~IsMarker(rows[i].entity),
         sweep' = Closing(ids, why), UNCHANGED <<rows, now>>
  PROVE  IInv' /\ RowStep
<1>1. RowsOK' /\ RowStep
  BY UnchangedRows DEF IInv
<1>2. CASE ids = {}
  BY <1>1, <1>2, NoSweepTyped DEF Closing, IInv
<1>3. CASE ids # {}
  <2>1. sweep' = [NoSweep EXCEPT !.phase = "closing", !.why = why, !.since = Len(rows),
                                 !.todo = ids]
    BY <1>3 DEF Closing
  <2>2. Len(rows) \in Nat /\ ids \in SUBSET Nat
    BY DEF IInv, RowsOK, Ids
  <2>3. sweep' \in SweepSet
    <3>1. why \in Whys /\ Liveness \in Sources
      BY ConstantsTyped
    <3>2. [NoSweep EXCEPT !.phase = "closing", !.why = why, !.since = Len(rows), !.todo = ids]
            \in SweepSet
      BY <2>2, <3>1, SweepShapes
    <3> QED
      BY <2>1, <3>2
  <2>4. sweep'.phase = "closing" /\ sweep'.why = why /\ sweep'.todo = ids
        /\ sweep'.closed = {} /\ sweep'.seen = {}
    BY <2>1 DEF NoSweep
  <2>5. SweepInv'
    BY <2>4 DEF SweepInv, Ids, IsMarker
  <2> QED
    BY <1>1, <2>3, <2>5 DEF IInv
<1> QED
  BY <1>2, <1>3

\* What a source other than liveness wrote is no marker.
LEMMA ListOwnStep ==
  ASSUME IInv, ListOwn
  PROVE  IInv' /\ RowStep
<1>1. sweep.source # Liveness
  BY DEF ListOwn, IInv, SweepInv
<1>2. OpenBy(sweep.source) \in SUBSET Ids
  BY DEF OpenBy
<1>3. \A i \in OpenBy(sweep.source) : ~IsMarker(rows[i].entity)
  BY <1>1 DEF OpenBy, IInv, RowsOK, RowInv
<1> QED
  BY <1>2, <1>3, ClosingListStep DEF ListOwn, Whys

\* A policy lists what is due, and no marker is.
LEMMA ExpireStep ==
  ASSUME IInv, Expire
  PROVE  IInv' /\ RowStep
<1>1. {i \in Ids : Due(i)} \in SUBSET Ids
      /\ \A i \in {k \in Ids : Due(k)} : ~IsMarker(rows[i].entity)
  BY DEF Due
<1> QED
  BY <1>1, ClosingListStep DEF Expire, Whys

\* One close of the list.
LEMMA CloseListedStep ==
  ASSUME IInv, CloseListed
  PROVE  IInv' /\ RowStep
<1> DEFINE hit(i) == {k \in {i} : Believed(k)}
<1>1. PICK i \in sweep.todo :
        /\ rows' = Close(i, sweep.why)
        /\ sweep' = [sweep EXCEPT !.todo = @ \ {i},
                       !.phase = IF sweep.todo = {i} THEN "walking" ELSE @,
                       !.queue = IF hit(i) = {} THEN @ ELSE Append(@, i),
                       !.seen = @ \cup hit(i), !.closed = @ \cup hit(i)]
  BY DEF CloseListed
<1>2. sweep.phase = "closing" /\ now' = now
  BY DEF CloseListed
<1>3. /\ i \in Ids /\ ~IsMarker(rows[i].entity) /\ sweep.why \in Reasons /\ sweep.why # "unsupported"
      /\ sweep.todo \subseteq {k \in Ids : ~IsMarker(rows[k].entity)} /\ sweep.why # "none"
  BY <1>2 DEF IInv, SweepInv, SweepSet, Whys, Reasons
<1>4. /\ rows' \in Seq(RowSet) /\ Len(rows') = Len(rows)
      /\ \A k \in Ids : Finishes(k, sweep.why) /\ (k # i => rows'[k] = rows[k])
  BY <1>1, <1>3, CloseFacts DEF IInv, RowsOK
<1>5. RowsOK' /\ RowStep
  BY <1>3, <1>4, ClosingStep DEF IInv
<1>6. Ids' = Ids /\ \A k \in Ids : rows'[k].entity = rows[k].entity
  BY <1>4, <1>5, KeptRows DEF IInv, Ids
<1>7. i \in Nat /\ hit(i) \subseteq Ids /\ hit(i) \subseteq Nat
  BY <1>3 DEF Ids
<1> HIDE DEF hit
<1>8. Append(sweep.queue, i) \in Seq(Nat)
  BY <1>7, AppendProperties DEF IInv, SweepSet
<1>9. sweep' \in SweepSet
  BY <1>1, <1>7, <1>8 DEF IInv, SweepSet
<1>10. /\ sweep'.todo = sweep.todo \ {i} /\ sweep'.why = sweep.why
       /\ sweep'.phase = IF sweep.todo = {i} THEN "walking" ELSE "closing"
       /\ sweep'.seen = sweep.seen \cup hit(i) /\ sweep'.closed = sweep.closed \cup hit(i)
  BY <1>1, <1>2 DEF IInv, SweepSet
<1>11. SweepInv'
  <2>1. sweep'.phase = "closing" => sweep'.todo \subseteq {k \in Ids' : ~IsMarker(rows'[k].entity)}
    BY <1>3, <1>6, <1>10
  <2>2. sweep'.phase = "walking" => sweep'.todo = {}
    BY <1>10
  <2>3. sweep'.closed \cup sweep'.seen \subseteq Ids'
    BY <1>6, <1>7, <1>10 DEF IInv, SweepInv
  <2> QED
    BY <2>1, <2>2, <2>3, <1>3, <1>10 DEF SweepInv, IsMarker
<1> QED
  BY <1>2, <1>5, <1>9, <1>11 DEF IInv

\* The dependents of the next fact of the walk are listed.
LEMMA AskStep ==
  ASSUME IInv, Ask
  PROVE  IInv' /\ RowStep
<1> DEFINE deps == {[id |-> i, open |-> Believed(i)] : i \in Dependents(Head(sweep.queue))}
<1>1. /\ sweep.phase = "walking" /\ sweep.queue # << >> /\ rows' = rows /\ now' = now
      /\ sweep' = [sweep EXCEPT !.queue = Tail(@), !.todo = deps]
  BY DEF Ask
<1>2. RowsOK' /\ RowStep
  BY <1>1, UnchangedRows DEF IInv
<1>3. deps \subseteq [id : Ids, open : BOOLEAN] /\ Ids \subseteq Nat
  <2>1. \A i \in Ids : Believed(i) \in BOOLEAN
    BY DEF Believed
  <2>2. Dependents(Head(sweep.queue)) \subseteq Ids
    BY DEF Dependents
  <2>3. Ids \subseteq Nat
    BY DEF Ids
  <2>4. ASSUME NEW i \in Ids, NEW open \in BOOLEAN
        PROVE  [id |-> i, open |-> open] \in [id : Ids, open : BOOLEAN]
    OBVIOUS
  <2>5. ASSUME NEW i \in Dependents(Head(sweep.queue))
        PROVE  [id |-> i, open |-> Believed(i)] \in [id : Ids, open : BOOLEAN]
    BY <2>1, <2>2, <2>4, Zenon
  <2> QED
    BY <2>3, <2>5, Zenon
<1> HIDE DEF deps
<1>4. Tail(sweep.queue) \in Seq(Nat)
  BY <1>1, HeadTailProperties DEF IInv, SweepSet
<1>5. deps \in SUBSET (Nat \cup [id : Nat, open : BOOLEAN])
  BY <1>3
<1>6. sweep' \in SweepSet
  BY <1>1, <1>4, <1>5 DEF IInv, SweepSet
<1>7. /\ sweep'.phase = "walking" /\ sweep'.todo = deps
      /\ sweep'.seen = sweep.seen /\ sweep'.closed = sweep.closed
  BY <1>1 DEF IInv, SweepSet
<1>8. SweepInv'
  BY <1>1, <1>3, <1>7 DEF IInv, SweepInv, Ids
<1> QED
  BY <1>1, <1>2, <1>6, <1>8 DEF IInv

\* A belief the cascade withdraws rests on something, so it is no marker.
LEMMA VisitStep ==
  ASSUME IInv, Visit
  PROVE  IInv' /\ RowStep
<1> DEFINE new(dep) == dep.id \notin sweep.seen
<1>1. PICK dep \in sweep.todo :
        /\ rows' = IF new(dep) /\ Withdraws(dep) THEN Close(dep.id, "unsupported") ELSE rows
        /\ sweep' = [sweep EXCEPT !.todo = @ \ {dep}, !.seen = @ \cup {dep.id},
                       !.queue  = IF new(dep) /\ Follows(dep) THEN Append(@, dep.id) ELSE @,
                       !.closed = IF new(dep) /\ Withdraws(dep) THEN @ \cup {dep.id} ELSE @]
  BY DEF Visit
<1>2. sweep.phase = "walking" /\ now' = now
  BY DEF Visit
<1> DEFINE i == dep.id
<1>3. /\ i \in Ids /\ i \in Nat /\ sweep.todo \subseteq [id : Ids, open : BOOLEAN]
      /\ sweep.closed \cup sweep.seen \subseteq Ids
  BY <1>1, <1>2 DEF IInv, SweepInv, Ids
<1>4. RowsOK' /\ RowStep /\ Len(rows') = Len(rows)
  <2>1. CASE new(dep) /\ Withdraws(dep)
    <3>1. HasFailed(i) /\ ~IsMarker(rows[i].entity)
      BY <2>1, <1>3 DEF Withdraws, HasFailed, IInv, RowsOK, RowInv
    <3>2. "unsupported" \in Reasons
      BY DEF Reasons
    <3>3. /\ rows' \in Seq(RowSet) /\ Len(rows') = Len(rows)
          /\ \A k \in Ids : Finishes(k, "unsupported") /\ (k # i => rows'[k] = rows[k])
      BY <1>1, <1>3, <2>1, <3>2, CloseFacts DEF IInv, RowsOK
    <3> QED
      BY <3>1, <3>2, <3>3, ClosingStep DEF IInv
  <2>2. CASE ~(new(dep) /\ Withdraws(dep))
    BY <1>1, <2>2, UnchangedRows DEF IInv
  <2> QED
    BY <2>1, <2>2
<1>5. Ids' = Ids
  BY <1>4 DEF Ids
<1>6. Append(sweep.queue, i) \in Seq(Nat)
  BY <1>3, AppendProperties DEF IInv, SweepSet
<1>7. sweep' \in SweepSet
  BY <1>1, <1>3, <1>6 DEF IInv, SweepSet
<1>8. /\ sweep'.phase = "walking" /\ sweep'.todo = sweep.todo \ {dep}
      /\ sweep'.seen = sweep.seen \cup {i} /\ sweep'.closed \subseteq sweep.closed \cup {i}
  BY <1>1, <1>2 DEF IInv, SweepSet
<1>9. SweepInv'
  BY <1>3, <1>5, <1>8 DEF SweepInv
<1> QED
  BY <1>2, <1>4, <1>7, <1>9 DEF IInv

-----------------------------------------------------------------------------
(* The invariant is inductive, and what follows from it.                      *)

\* An empty table.
LEMMA InitIInv == Init => IInv
<1> SUFFICES ASSUME Init PROVE IInv
  OBVIOUS
<1>1. rows = << >> /\ now = 0 /\ sweep = NoSweep
  BY DEF Init
<1>2. rows \in Seq(RowSet) /\ Len(rows) = 0 /\ Ids = {}
  BY <1>1, EmptySeq DEF Ids
<1>3. RowsOK
  BY <1>2, ConstantsTyped DEF RowsOK, SupportInv, RowInv, OneOpenInOrder, MarkersStand
<1>4. SweepInv
  BY <1>1 DEF SweepInv, NoSweep
<1> QED
  BY <1>1, <1>3, <1>4, NoSweepTyped, ConstantsTyped DEF IInv

\* Every action keeps the invariant and does to a row what a step may.
LEMMA StepIInv == IInv /\ [Next]_vars => IInv' /\ RowStep
<1> SUFFICES ASSUME IInv, [Next]_vars PROVE IInv' /\ RowStep
  OBVIOUS
<1>0. ASSUME RowsOK', RowStep, sweep' = sweep, now' \in 0 .. MaxTime PROVE IInv' /\ RowStep
  BY <1>0, SweepSurvives DEF IInv
<1>1. CASE \E p \in Producers : Observe(p)
  BY <1>0, <1>1, ObserveStep DEF Observe, IInv
<1>2. CASE \E e \in Claimable, from \in 0 .. MaxTime : Claim(e, from)
  BY <1>0, <1>2, ClaimStep DEF Claim, IInv
<1>3. CASE \E e \in Torn : TornInsert(e)
  BY <1>3, TornInsertStep, NoSweepTyped DEF TornInsert, IInv
<1>4. CASE \E e \in Withdrawable : Withdraw(e)
  BY <1>0, <1>4, WithdrawStep DEF Withdraw, IInv
<1>5. CASE Crash
  BY <1>5, UnchangedRows, NoSweepTyped DEF Crash, IInv
<1>6. CASE Elapse
  <2>1. now' \in 0 .. MaxTime /\ rows' = rows /\ sweep' = sweep
    BY <1>6, ConstantsTyped DEF Elapse, IInv
  <2> QED
    BY <1>0, <2>1, UnchangedRows DEF IInv
<1>7. CASE \E s \in Stoppable : Judge(s) \/ Retire(s)
  <2>1. PICK s \in Stoppable : Judge(s) \/ Retire(s)
    BY <1>7
  <2>2. s \in Sources
    BY NamesAssumption
  <2> QED
    BY <2>1, <2>2, JudgeStep, StoppedStep DEF Retire
<1>8. CASE SweepSilent
  <2>1. sweep.source \in Sources
    BY DEF IInv, SweepSet
  <2> QED
    BY <1>8, <2>1, StoppedStep DEF SweepSilent
<1>9. CASE ListOwn
  BY <1>9, ListOwnStep
<1>10. CASE Expire
  BY <1>10, ExpireStep
<1>11. CASE CloseListed
  BY <1>11, CloseListedStep
<1>12. CASE Ask
  BY <1>12, AskStep
<1>13. CASE Visit
  BY <1>13, VisitStep
<1>14. CASE Finish
  BY <1>14, UnchangedRows, NoSweepTyped DEF Finish, IInv
<1>15. CASE UNCHANGED vars
  BY <1>0, <1>15, UnchangedRows DEF vars, IInv
<1> QED
  BY <1>1, <1>2, <1>3, <1>4, <1>5, <1>6, <1>7, <1>8, <1>9, <1>10, <1>11, <1>12, <1>13, <1>14,
     <1>15 DEF Next

\* So the invariant holds for good.
LEMMA Inductive == Spec => []IInv
<1>1. Init => IInv
  BY InitIInv
<1>2. IInv /\ [Next]_vars => IInv'
  BY StepIInv
<1> QED
  BY <1>1, <1>2, PTL DEF Spec

\* The rows and the sweep have their shape in every reachable state.
THEOREM TypeCorrect == Spec => []TypeOK
<1>1. IInv => TypeOK
  <2> SUFFICES ASSUME IInv PROVE TypeOK
    OBVIOUS
  <2>1. \A i \in Ids : rows[i] \in RowSet
    BY RowIsTyped DEF IInv, RowsOK
  <2> QED
    BY <2>1 DEF TypeOK, IInv, RowsOK, RowSet, SupportInv, SweepInv, SweepSet
<1> QED
  BY <1>1, Inductive, PTL

\* No fact of an entity stays open behind a later row that started no earlier,
\* whoever wrote them and wherever a write was cut in two.
THEOREM OneOpenCorrect == Spec => []OneOpenInOrder
<1>1. IInv => OneOpenInOrder
  BY DEF IInv, RowsOK
<1> QED
  BY <1>1, Inductive, PTL

\* No sweep, policy or cascade ever withdraws a liveness marker.
THEOREM MarkersCorrect == Spec => []MarkersStand
<1>1. IInv => MarkersStand
  BY DEF IInv, RowsOK
<1> QED
  BY <1>1, Inductive, PTL

\* A closed row is final.
THEOREM ClosedRowsFinal == Spec => ClosedForGood
<1> DEFINE A == /\ Len(rows') >= Len(rows)
                /\ \A i \in Ids : \/ rows'[i] = rows[i]
                                  \/ Believed(i) /\ rows'[i] = [rows[i] EXCEPT !.to = rows'[i].to,
                                                                              !.reason = rows'[i].reason]
<1>1. IInv /\ RowStep => A
  <2> SUFFICES ASSUME IInv, RowStep PROVE A
    OBVIOUS
  <2>1. ASSUME NEW i \in Ids
        PROVE  \/ rows'[i] = rows[i]
               \/ Believed(i) /\ rows'[i] = [rows[i] EXCEPT !.to = rows'[i].to,
                                                            !.reason = rows'[i].reason]
    <3>1. rows[i] \in RowSet
      BY RowIsTyped DEF IInv, RowsOK
    <3>2. ASSUME NEW t, NEW r, rows'[i] = [rows[i] EXCEPT !.to = t, !.reason = r]
          PROVE  rows'[i].to = t /\ rows'[i].reason = r
      BY <3>1, <3>2 DEF RowSet
    <3> QED
      BY <3>2 DEF RowStep, Finished, Finishes
  <2>2. Len(rows') >= Len(rows)
    BY DEF RowStep
  <2> QED
    BY <2>1, <2>2
<1>2. IInv /\ [Next]_vars => [A]_vars
  BY <1>1, StepIInv
<1> HIDE DEF A
<1>3. Spec => [][A]_vars
  BY <1>2, Inductive, PTL DEF Spec
<1> QED
  BY <1>3 DEF A, ClosedForGood

\* The cascade withdraws nothing that still has a justification, whatever was
\* written between its statements.
THEOREM CascadeSound == Spec => OnlyUngroundedWithdrawn
<1> DEFINE A == \A i \in Ids : Believed(i) /\ rows'[i].reason = "unsupported" => HasFailed(i)
<1>1. IInv /\ RowStep => A
  <2> SUFFICES ASSUME IInv, RowStep, NEW i \in Ids,
                      Believed(i), rows'[i].reason = "unsupported"
               PROVE  HasFailed(i)
    OBVIOUS
  <2>1. rows[i] \in RowSet
    BY RowIsTyped DEF IInv, RowsOK
  <2>2. rows[i].reason = "none"
    BY DEF IInv, RowsOK, RowInv
  <2>3. PICK r \in Reasons : Finishes(i, r) /\ (r = "unsupported" => HasFailed(i))
    BY DEF RowStep, Finished
  <2>4. r = "unsupported"
    BY <2>1, <2>2, <2>3 DEF Finishes, RowSet
  <2> QED
    BY <2>3, <2>4
<1>2. IInv /\ [Next]_vars => [A]_vars
  BY <1>1, StepIInv
<1> HIDE DEF A
<1>3. Spec => [][A]_vars
  BY <1>2, Inductive, PTL DEF Spec
<1> QED
  BY <1>3 DEF A, OnlyUngroundedWithdrawn

\* The history of beliefs is kept, by both.
THEOREM HistoryIsKept == Spec => HistoryKept
BY ClosedRowsFinal, CascadeSound DEF HistoryKept
-----------------------------------------------------------------------------
(* How far the cascade reaches.                                               *)

\* The ids in a queue.
IdsIn(q) == {q[n] : n \in 1 .. Len(q)}

\* One justification is all there is of row i.
Single(i) ==
  rows[i].support # {} /\ (\A j \in rows[i].support : \A k \in rows[i].support : j = k)

\* Row i rests, in one of its justifications, on a row that is closed.
Shaken(i) == \E j \in rows[i].support : \E k \in j : k \in Ids /\ ~Believed(k)

\* What a walk knows on its way: what waits in the queue is closed, and so is
\* what it has seen of the beliefs with a single justification; what it is
\* visiting is shaken; and of each row it closed it has yet to ask for the
\* dependents, or has seen or is visiting all that were there when it began.
WalkInv ==
  /\ sweep.phase \in {"closing", "walking"} =>
       /\ sweep.since <= Len(rows)
       /\ \A k \in IdsIn(sweep.queue) : k \in Ids /\ ~Believed(k)
       /\ \A i \in sweep.seen : Single(i) => ~Believed(i)
  /\ sweep.phase = "closing" => sweep.closed \subseteq IdsIn(sweep.queue)
  /\ sweep.phase = "walking" =>
       /\ \A dep \in sweep.todo : Shaken(dep.id) /\ (~dep.open => ~Believed(dep.id))
       /\ \A k \in sweep.closed :
            \/ k \in IdsIn(sweep.queue)
            \/ \A i \in Dependents(k) :
                 i <= sweep.since => i \in sweep.seen \/ \E dep \in sweep.todo : dep.id = i

\* A queue one longer holds one more; one shorter, all but its head.
LEMMA QueueIds ==
  ASSUME NEW q \in Seq(Nat), NEW i \in Nat
  PROVE  /\ IdsIn(Append(q, i)) = IdsIn(q) \cup {i}
         /\ q # << >> => IdsIn(q) = {Head(q)} \cup IdsIn(Tail(q))
<1>1. Len(q) \in Nat
  OBVIOUS
<1>2. IdsIn(Append(q, i)) = IdsIn(q) \cup {i}
  <2>1. /\ Len(Append(q, i)) = Len(q) + 1 /\ Append(q, i)[Len(q) + 1] = i
        /\ \A n \in 1 .. Len(q) : Append(q, i)[n] = q[n]
    OBVIOUS
  <2>2. 1 .. Len(q) + 1 = (1 .. Len(q)) \cup {Len(q) + 1}
    BY <1>1
  <2> QED
    BY <2>1, <2>2 DEF IdsIn
<1>3. CASE q # << >>
  <2>1. /\ Head(q) = q[1] /\ Len(Tail(q)) = Len(q) - 1 /\ Len(q) > 0
        /\ \A n \in 1 .. Len(q) - 1 : Tail(q)[n] = q[n + 1]
    BY <1>3
  <2>2. ASSUME NEW x PROVE x \in IdsIn(q) <=> x = Head(q) \/ x \in IdsIn(Tail(q))
    <3>1. ASSUME NEW n \in 1 .. Len(q) PROVE n = 1 \/ (n - 1 \in 1 .. Len(q) - 1 /\ q[n] = Tail(q)[n - 1])
      BY <1>1, <2>1
    <3>2. ASSUME NEW n \in 1 .. Len(q) - 1 PROVE n + 1 \in 1 .. Len(q) /\ q[n + 1] = Tail(q)[n]
      BY <1>1, <2>1
    <3>3. 1 \in 1 .. Len(q)
      BY <1>1, <2>1
    <3>4. ASSUME x \in IdsIn(q) PROVE x = Head(q) \/ x \in IdsIn(Tail(q))
      <4>1. PICK n \in 1 .. Len(q) : x = q[n]
        BY <3>4 DEF IdsIn
      <4>2. n = 1 \/ (n - 1 \in 1 .. Len(Tail(q)) /\ x = Tail(q)[n - 1])
        BY <2>1, <3>1, <4>1
      <4> QED
        BY <2>1, <4>1, <4>2 DEF IdsIn
    <3>5. Head(q) \in IdsIn(q)
      BY <2>1, <3>3 DEF IdsIn
    <3>6. ASSUME x \in IdsIn(Tail(q)) PROVE x \in IdsIn(q)
      <4>1. PICK n \in 1 .. Len(q) - 1 : x = Tail(q)[n]
        BY <2>1, <3>6 DEF IdsIn
      <4>2. n + 1 \in 1 .. Len(q) /\ x = q[n + 1]
        BY <3>2, <4>1
      <4> QED
        BY <4>2 DEF IdsIn
    <3> QED
      BY <3>4, <3>5, <3>6
  <2>3. IdsIn(q) = {Head(q)} \cup IdsIn(Tail(q))
    BY <2>2
  <2> QED
    BY <1>2, <2>3
<1> QED
  BY <1>2, <1>3

\* What a step leaves of the rows that were there: their support, and, of the
\* closed, that they are closed.
LEMMA RowsPersist ==
  ASSUME RowsOK, RowsOK', RowStep
  PROVE  /\ Ids \subseteq Ids' /\ Len(rows) <= Len(rows')
         /\ \A i \in Ids : /\ rows'[i].support = rows[i].support
                           /\ ~Believed(i) => ~Believed(i)'
                           /\ Single(i)' => Single(i)
                           /\ Shaken(i) => Shaken(i)'
<1>1. Ids \subseteq Ids' /\ Len(rows) <= Len(rows')
  BY KeptRows DEF RowStep
<1>2. ASSUME NEW i \in Ids
      PROVE  rows'[i].support = rows[i].support /\ (~Believed(i) => ~Believed(i)')
  <2>1. rows[i] \in RowSet
    BY RowIsTyped DEF RowsOK
  <2>2. PICK r \in Reasons : Finishes(i, r)
    BY DEF RowStep, Finished
  <2>3. CASE rows'[i] = rows[i]
    BY <2>3 DEF Believed
  <2>4. CASE Believed(i) /\ \E t \in 0 .. MaxTime : rows'[i] = [rows[i] EXCEPT !.to = t, !.reason = r]
    BY <2>1, <2>4 DEF RowSet
  <2> QED
    BY <2>2, <2>3, <2>4 DEF Finishes
<1>3. ASSUME NEW i \in Ids PROVE (Single(i)' => Single(i)) /\ (Shaken(i) => Shaken(i)')
  <2>1. rows'[i].support = rows[i].support
    BY <1>2
  <2>2. Single(i)' => Single(i)
    BY <2>1 DEF Single
  <2>3. ASSUME Shaken(i) PROVE Shaken(i)'
    <3>1. PICK j \in rows[i].support : \E k \in j : k \in Ids /\ ~Believed(k)
      BY <2>3 DEF Shaken
    <3>2. PICK k \in j : k \in Ids /\ ~Believed(k)
      BY <3>1
    <3>3. k \in Ids' /\ ~Believed(k)' /\ j \in rows'[i].support
      BY <1>1, <1>2, <2>1, <3>2
    <3> QED
      BY <3>3 DEF Shaken
  <2> QED
    BY <2>2, <2>3
<1> QED
  BY <1>1, <1>2, <1>3

\* The rows that were there rest on what they rested on.
LEMMA DependentsPersist ==
  ASSUME RowsOK, RowsOK', RowStep, NEW k, NEW i \in Dependents(k)', i \in Ids
  PROVE  i \in Dependents(k)
<1>1. rows'[i].support = rows[i].support
  BY RowsPersist
<1> QED
  BY <1>1 DEF Dependents

\* A walk under way survives what is written meanwhile.
LEMMA WalkSurvives ==
  ASSUME IInv, IInv', RowStep, WalkInv, sweep' = sweep
  PROVE  WalkInv'
<1> USE DEF IInv
<1>1. /\ Ids \subseteq Ids' /\ Len(rows) <= Len(rows')
      /\ \A i \in Ids : /\ ~Believed(i) => ~Believed(i)'
                        /\ Single(i)' => Single(i)
                        /\ Shaken(i) => Shaken(i)'
  BY RowsPersist
<1>2. /\ sweep.seen \subseteq Ids
      /\ sweep.phase = "walking" => \A dep \in sweep.todo : dep.id \in Ids
  BY DEF SweepInv
<1>3. Len(rows) \in Nat /\ Len(rows') \in Nat /\ sweep.since \in Nat
  BY DEF RowsOK, SweepSet
<1>4. ASSUME sweep.phase \in {"closing", "walking"}
      PROVE  /\ sweep.since <= Len(rows')
             /\ \A k \in IdsIn(sweep.queue) : k \in Ids' /\ ~Believed(k)'
             /\ \A i \in sweep.seen : Single(i)' => ~Believed(i)'
  BY <1>1, <1>2, <1>3, <1>4 DEF WalkInv
<1>5. ASSUME sweep.phase = "walking"
      PROVE  \A dep \in sweep.todo : Shaken(dep.id)' /\ (~dep.open => ~Believed(dep.id)')
  BY <1>1, <1>2, <1>5 DEF WalkInv
<1>6. ASSUME sweep.phase = "walking", NEW k \in sweep.closed, k \notin IdsIn(sweep.queue),
             NEW i \in Dependents(k)', i <= sweep.since
      PROVE  i \in sweep.seen \/ \E dep \in sweep.todo : dep.id = i
  <2>1. i \in Ids'
    BY DEF Dependents
  <2>2. i \in Ids
    BY <1>3, <1>4, <1>6, <2>1 DEF WalkInv, Ids
  <2>3. i \in Dependents(k)
    BY <2>2, DependentsPersist
  <2> QED
    BY <1>6, <2>3 DEF WalkInv
<1> QED
  BY <1>4, <1>5, <1>6 DEF WalkInv

\* close_fact leaves the row closed.
LEMMA ClosesIt ==
  ASSUME IInv, NEW i \in Ids, NEW r \in Reasons, rows' = Close(i, r)
  PROVE  ~Believed(i)'
<1>1. rows[i] \in RowSet /\ now # Open /\ i \in 1 .. Len(rows)
  BY RowIsTyped DEF IInv, RowsOK, Open, Ids
<1>2. CASE Believed(i)
  <2> DEFINE x == [rows[i] EXCEPT !.to = now, !.reason = r]
  <2>1. rows' = [rows EXCEPT ![i] = x] /\ x.to = now
    BY <1>1, <1>2 DEF Close, RowSet
  <2> HIDE DEF x
  <2>2. rows'[i] = x
    BY <1>1, <2>1 DEF IInv, RowsOK
  <2> QED
    BY <1>1, <2>1, <2>2 DEF Believed
<1>3. CASE ~Believed(i)
  BY <1>3 DEF Close, Believed
<1> QED
  BY <1>2, <1>3

\* A close of the list puts what it closed in the queue.
LEMMA WalkCloseListed ==
  ASSUME IInv, WalkInv, CloseListed
  PROVE  WalkInv'
<1> DEFINE hit(i) == {k \in {i} : Believed(k)}
<1>0. IInv' /\ RowStep /\ sweep.phase = "closing"
  BY CloseListedStep DEF CloseListed
<1>1. PICK i \in sweep.todo :
        /\ rows' = Close(i, sweep.why)
        /\ sweep' = [sweep EXCEPT !.todo = @ \ {i},
                       !.phase = IF sweep.todo = {i} THEN "walking" ELSE @,
                       !.queue = IF hit(i) = {} THEN @ ELSE Append(@, i),
                       !.seen = @ \cup hit(i), !.closed = @ \cup hit(i)]
  BY DEF CloseListed
<1>2. i \in Ids /\ i \in Nat /\ sweep.why \in Reasons /\ sweep.queue \in Seq(Nat)
  BY <1>0 DEF IInv, SweepInv, SweepSet, Whys, Reasons, Ids
<1>3. ~Believed(i)'
  BY <1>1, <1>2, ClosesIt
<1>4. hit(i) \subseteq {i} /\ (hit(i) # {} => hit(i) = {i})
  OBVIOUS
<1> HIDE DEF hit
<1>5. /\ sweep'.since = sweep.since
      /\ sweep'.seen = sweep.seen \cup hit(i) /\ sweep'.closed = sweep.closed \cup hit(i)
      /\ sweep'.queue = IF hit(i) = {} THEN sweep.queue ELSE Append(sweep.queue, i)
      /\ sweep'.phase \in {"closing", "walking"}
      /\ sweep'.phase = "walking" => sweep'.todo = {}
  BY <1>0, <1>1 DEF IInv, SweepSet
<1>6. IdsIn(sweep'.queue) = IdsIn(sweep.queue) \cup hit(i)
  BY <1>2, <1>4, <1>5, QueueIds
<1>7. /\ Ids \subseteq Ids' /\ Len(rows) <= Len(rows')
      /\ \A k \in Ids : (~Believed(k) => ~Believed(k)') /\ (Single(k)' => Single(k))
  BY <1>0, RowsPersist DEF IInv
<1>8. /\ sweep.since <= Len(rows)
      /\ \A k \in IdsIn(sweep.queue) : k \in Ids /\ ~Believed(k)
      /\ \A k \in sweep.seen : k \in Ids /\ (Single(k) => ~Believed(k))
      /\ sweep.closed \subseteq IdsIn(sweep.queue)
  BY <1>0 DEF WalkInv, IInv, SweepInv
<1>9. sweep'.since <= Len(rows')
  <2>1. Len(rows) \in Nat /\ Len(rows') \in Nat /\ sweep.since \in Nat
    BY <1>0 DEF IInv, RowsOK, SweepSet
  <2> QED
    BY <1>5, <1>7, <1>8, <2>1
<1>10. \A k \in IdsIn(sweep'.queue) : k \in Ids' /\ ~Believed(k)'
  BY <1>2, <1>3, <1>4, <1>6, <1>7, <1>8
<1>11. \A k \in sweep'.seen : Single(k)' => ~Believed(k)'
  BY <1>3, <1>4, <1>5, <1>7, <1>8
<1>12. sweep'.closed \subseteq IdsIn(sweep'.queue)
  BY <1>5, <1>6, <1>8
<1> QED
  BY <1>5, <1>9, <1>10, <1>11, <1>12 DEF WalkInv

\* What is asked for is every dependent there is, each shaken by the row asked
\* about.
LEMMA WalkAsk ==
  ASSUME IInv, WalkInv, Ask
  PROVE  WalkInv'
<1> DEFINE h == Head(sweep.queue)
           deps == {[id |-> i, open |-> Believed(i)] : i \in Dependents(h)}
<1>1. /\ sweep.phase = "walking" /\ sweep.todo = {} /\ sweep.queue # << >> /\ rows' = rows
      /\ sweep' = [sweep EXCEPT !.queue = Tail(@), !.todo = deps]
  BY DEF Ask
<1>2. sweep.queue \in Seq(Nat)
  BY DEF IInv, SweepSet
<1>3. IdsIn(sweep.queue) = {h} \cup IdsIn(Tail(sweep.queue))
  BY <1>1, <1>2, QueueIds
<1>4. h \in Ids /\ ~Believed(h)
  BY <1>1, <1>3 DEF WalkInv
<1>5. ASSUME NEW dep \in deps PROVE Shaken(dep.id) /\ (~dep.open => ~Believed(dep.id))
  <2>1. PICK i \in Dependents(h) : dep = [id |-> i, open |-> Believed(i)]
    OBVIOUS
  <2>2. dep.id = i /\ dep.open = Believed(i)
    BY <2>1
  <2>3. Shaken(i)
    BY <1>4 DEF Dependents, Shaken
  <2> QED
    BY <2>2, <2>3
<1>6. \A i \in Dependents(h) : \E dep \in deps : dep.id = i
  <2> SUFFICES ASSUME NEW i \in Dependents(h) PROVE \E dep \in deps : dep.id = i
    OBVIOUS
  <2>1. [id |-> i, open |-> Believed(i)] \in deps
    OBVIOUS
  <2>2. [id |-> i, open |-> Believed(i)].id = i
    OBVIOUS
  <2> HIDE DEF deps
  <2> QED
    BY <2>1, <2>2
<1> HIDE DEF deps, h
<1>7. /\ sweep'.phase = "walking" /\ sweep'.todo = deps /\ sweep'.queue = Tail(sweep.queue)
      /\ sweep'.seen = sweep.seen /\ sweep'.closed = sweep.closed
      /\ sweep'.since = sweep.since
  BY <1>1 DEF IInv, SweepSet
<1>8. /\ Ids' = Ids /\ \A k : (Believed(k)' <=> Believed(k)) /\ Dependents(k)' = Dependents(k)
      /\ \A k : (Single(k)' <=> Single(k)) /\ (Shaken(k)' <=> Shaken(k))
  BY <1>1 DEF Ids, Believed, Dependents, Single, Shaken
<1>9. \A k \in sweep.closed :
        \/ k \in IdsIn(Tail(sweep.queue))
        \/ \A i \in Dependents(k) :
             i <= sweep.since => i \in sweep.seen \/ \E dep \in deps : dep.id = i
  <2> SUFFICES ASSUME NEW k \in sweep.closed, k \notin IdsIn(Tail(sweep.queue)),
                      NEW i \in Dependents(k), i <= sweep.since
               PROVE  i \in sweep.seen \/ \E dep \in deps : dep.id = i
    OBVIOUS
  <2>1. CASE k = h
    BY <1>6, <2>1
  <2>2. CASE k # h
    <3>1. k \notin IdsIn(sweep.queue)
      BY <1>3, <2>2
    <3> QED
      BY <1>1, <3>1 DEF WalkInv
  <2> QED
    BY <2>1, <2>2
<1>10. /\ sweep.since <= Len(rows)
       /\ \A k \in IdsIn(Tail(sweep.queue)) : k \in Ids /\ ~Believed(k)
       /\ \A i \in sweep.seen : Single(i) => ~Believed(i)
  BY <1>1, <1>3 DEF WalkInv
<1> QED
  BY <1>1, <1>5, <1>7, <1>8, <1>9, <1>10 DEF WalkInv

\* A shaken belief with a single justification has failed.
LEMMA ShakenSingleFails ==
  ASSUME RowsOK, NEW i \in Ids, Single(i), Shaken(i)
  PROVE  HasFailed(i)
BY DEF Single, Shaken, HasFailed

\* A visit leaves the belief it visits seen, and closed if that was its only
\* justification.
LEMMA WalkVisit ==
  ASSUME IInv, WalkInv, Visit
  PROVE  WalkInv'
<1> DEFINE new(dep) == dep.id \notin sweep.seen
<1>0. IInv' /\ RowStep /\ sweep.phase = "walking"
  BY VisitStep DEF Visit
<1>1. PICK dep \in sweep.todo :
        /\ rows' = IF new(dep) /\ Withdraws(dep) THEN Close(dep.id, "unsupported") ELSE rows
        /\ sweep' = [sweep EXCEPT !.todo = @ \ {dep}, !.seen = @ \cup {dep.id},
                       !.queue  = IF new(dep) /\ Follows(dep) THEN Append(@, dep.id) ELSE @,
                       !.closed = IF new(dep) /\ Withdraws(dep) THEN @ \cup {dep.id} ELSE @]
  BY DEF Visit
<1> DEFINE i == dep.id
           n == new(dep)
<1>2. /\ i \in Ids /\ i \in Nat /\ sweep.queue \in Seq(Nat) /\ "unsupported" \in Reasons
      /\ Shaken(i) /\ (~dep.open => ~Believed(i)) /\ (n <=> i \notin sweep.seen)
      /\ \A d \in sweep.todo : d.id \in Ids
  BY <1>0, <1>1 DEF IInv, SweepInv, SweepSet, Reasons, Ids, WalkInv
<1>3. /\ sweep'.phase = "walking" /\ sweep'.todo = sweep.todo \ {dep}
      /\ sweep'.since = sweep.since /\ sweep'.seen = sweep.seen \cup {i}
      /\ sweep'.queue = IF n /\ Follows(dep) THEN Append(sweep.queue, i) ELSE sweep.queue
      /\ sweep'.closed = IF n /\ Withdraws(dep) THEN sweep.closed \cup {i} ELSE sweep.closed
  BY <1>0, <1>1 DEF IInv, SweepSet
<1>4. n /\ Withdraws(dep) => ~Believed(i)'
  BY <1>1, <1>2, ClosesIt
<1> HIDE DEF new, i, n
<1>5. /\ Ids \subseteq Ids' /\ Len(rows) <= Len(rows')
      /\ \A k \in Ids : /\ ~Believed(k) => ~Believed(k)'
                        /\ Single(k)' => Single(k)
                        /\ Shaken(k) => Shaken(k)'
  BY <1>0, RowsPersist DEF IInv
<1>6. n /\ Follows(dep) => ~Believed(i)'
  BY <1>2, <1>4, <1>5 DEF Follows
<1>7. Single(i)' => ~Believed(i)'
  <2> SUFFICES ASSUME Single(i)' PROVE ~Believed(i)'
    OBVIOUS
  <2>1. Single(i) /\ HasFailed(i)
    BY <1>0, <1>2, <1>5, ShakenSingleFails DEF IInv
  <2>2. CASE ~n
    BY <1>0, <1>2, <1>5, <2>1, <2>2 DEF WalkInv
  <2>3. CASE n /\ Believed(i)
    <3>1. Withdraws(dep)
      BY <1>2, <2>1, <2>3 DEF Withdraws, i
    <3> QED
      BY <1>4, <2>3, <3>1
  <2>4. CASE ~Believed(i)
    BY <1>2, <1>5, <2>4
  <2> QED
    BY <2>2, <2>3, <2>4
<1>8. IdsIn(sweep'.queue) = IF n /\ Follows(dep) THEN IdsIn(sweep.queue) \cup {i}
                            ELSE IdsIn(sweep.queue)
  BY <1>2, <1>3, QueueIds
<1>9. \A k \in IdsIn(sweep'.queue) : k \in Ids' /\ ~Believed(k)'
  BY <1>0, <1>2, <1>5, <1>6, <1>8 DEF WalkInv
<1>10. \A k \in sweep'.seen : Single(k)' => ~Believed(k)'
  <2>1. \A k \in sweep.seen : k \in Ids /\ (Single(k) => ~Believed(k))
    BY <1>0 DEF IInv, SweepInv, WalkInv
  <2> QED
    BY <1>3, <1>5, <1>7, <2>1
<1>11. \A d \in sweep'.todo : Shaken(d.id)' /\ (~d.open => ~Believed(d.id)')
  BY <1>0, <1>2, <1>3, <1>5 DEF WalkInv
<1>12. \A k \in sweep'.closed :
         \/ k \in IdsIn(sweep'.queue)
         \/ \A m \in Dependents(k)' :
              m <= sweep'.since => m \in sweep'.seen \/ \E d \in sweep'.todo : d.id = m
  <2> SUFFICES ASSUME NEW k \in sweep'.closed, k \notin IdsIn(sweep'.queue),
                      NEW m \in Dependents(k)', m <= sweep.since
               PROVE  m \in sweep'.seen \/ \E d \in sweep'.todo : d.id = m
    BY <1>3
  <2>1. Withdraws(dep) => Follows(dep)
    BY DEF Follows
  <2>2. k \in sweep.closed /\ k \notin IdsIn(sweep.queue)
    BY <1>3, <1>8, <2>1
  <2>3. m \in Ids
    <3>1. m \in Nat /\ 1 <= m /\ sweep.since <= Len(rows) /\ Len(rows) \in Nat /\ sweep.since \in Nat
      BY <1>0 DEF Dependents, Ids, WalkInv, IInv, RowsOK, SweepSet
    <3> QED
      BY <3>1 DEF Ids
  <2>4. m \in Dependents(k)
    BY <1>0, <2>3, DependentsPersist DEF IInv
  <2>5. m \in sweep.seen \/ \E d \in sweep.todo : d.id = m
    BY <1>0, <2>2, <2>4 DEF WalkInv
  <2> QED
    BY <1>3, <2>5 DEF i
<1>13. sweep'.since <= Len(rows')
  <2>1. Len(rows) \in Nat /\ Len(rows') \in Nat /\ sweep.since \in Nat /\ sweep.since <= Len(rows)
    BY <1>0 DEF IInv, RowsOK, SweepSet, WalkInv
  <2> QED
    BY <1>3, <1>5, <2>1
<1> QED
  BY <1>3, <1>9, <1>10, <1>11, <1>12, <1>13 DEF WalkInv

\* Before a list there is no walk.
LEMMA NoWalk == sweep'.phase \notin {"closing", "walking"} => WalkInv'
BY DEF WalkInv

\* A list has nothing behind it.
LEMMA WalkLists ==
  ASSUME IInv, rows' = rows, NEW ids \in SUBSET Ids, NEW why \in Whys, sweep' = Closing(ids, why)
  PROVE  WalkInv'
<1>1. CASE ids = {}
  <2>1. sweep'.phase = "idle"
    BY <1>1 DEF Closing, NoSweep
  <2> QED
    BY <2>1, NoWalk
<1>2. CASE ids # {}
  <2>1. /\ sweep'.phase = "closing" /\ sweep'.since = Len(rows)
        /\ sweep'.queue = << >> /\ sweep'.seen = {} /\ sweep'.closed = {}
    BY <1>2 DEF Closing, NoSweep
  <2>2. IdsIn(sweep'.queue) = {}
    BY <2>1 DEF IdsIn
  <2>3. Len(rows) \in Nat
    BY DEF IInv, RowsOK
  <2> QED
    BY <2>1, <2>2, <2>3 DEF WalkInv
<1> QED
  BY <1>1, <1>2

\* Every action keeps what a walk knows.
LEMMA WalkStep == IInv /\ WalkInv /\ [Next]_vars => WalkInv'
<1> SUFFICES ASSUME IInv, WalkInv, [Next]_vars PROVE WalkInv'
  OBVIOUS
<1>0. IInv' /\ RowStep
  BY StepIInv
<1>1. CASE sweep' = sweep
  BY <1>0, <1>1, WalkSurvives
<1>2. CASE (\E e \in Torn : TornInsert(e)) \/ Crash \/ Finish
  <2>1. sweep'.phase = "idle"
    BY <1>2 DEF TornInsert, Crash, Finish, NoSweep
  <2> QED
    BY <2>1, NoWalk
<1>3. CASE SweepSilent \/ \E s \in Stoppable : Judge(s) \/ Retire(s)
  <2>1. ASSUME NEW s, Stopped(s) PROVE sweep'.phase \in {"idle", "marked"}
    BY <2>1 DEF Stopped, Marked, NoSweep
  <2>2. ASSUME NEW s, Judge(s) PROVE sweep'.phase = "judged"
    BY <2>2 DEF Judge, NoSweep
  <2>3. sweep'.phase \in {"idle", "judged", "marked"}
    BY <1>3, <2>1, <2>2 DEF SweepSilent, Retire
  <2> QED
    BY <2>3, NoWalk
<1>4. CASE ListOwn
  <2>1. OpenBy(sweep.source) \in SUBSET Ids /\ "source-stopped" \in Whys
    BY DEF OpenBy, Whys
  <2> QED
    BY <1>4, <2>1, WalkLists DEF ListOwn
<1>5. CASE Expire
  <2>1. {i \in Ids : Due(i)} \in SUBSET Ids /\ "expired" \in Whys
    BY DEF Whys
  <2> QED
    BY <1>5, <2>1, WalkLists DEF Expire
<1>6. CASE CloseListed
  BY <1>6, WalkCloseListed
<1>7. CASE Ask
  BY <1>7, WalkAsk
<1>8. CASE Visit
  BY <1>8, WalkVisit
<1> QED
  BY <1>1, <1>2, <1>3, <1>4, <1>5, <1>6, <1>7, <1>8
     DEF Next, Observe, Claim, Withdraw, Elapse, vars

\* When a sweep is over, no belief with a single justification that was there
\* when it began stands on a row it closed, at any depth and whatever was
\* written meanwhile.
THEOREM ChainsFollow == Spec => []SingleChainsWithdrawn
<1>1. Init => WalkInv
  BY DEF Init, NoSweep, WalkInv
<1>2. IInv /\ WalkInv /\ [Next]_vars => WalkInv'
  BY WalkStep
<1>3. IInv /\ WalkInv => SingleChainsWithdrawn
  <2> SUFFICES ASSUME IInv, WalkInv, SweepOver, NEW i \in 1 .. sweep.since,
                      Single(i), NEW j \in rows[i].support, NEW k \in j, k \in sweep.closed
               PROVE  ~Believed(i)
    BY DEF SingleChainsWithdrawn, Single
  <2>1. /\ sweep.phase = "walking" /\ sweep.todo = {} /\ sweep.queue = << >>
        /\ sweep.since <= Len(rows) /\ sweep.since \in Nat /\ Len(rows) \in Nat
    BY DEF SweepOver, WalkInv, IInv, RowsOK, SweepSet
  <2>2. i \in Dependents(k) /\ i <= sweep.since
    BY <2>1 DEF Dependents, Ids
  <2>3. k \notin IdsIn(sweep.queue)
    BY <2>1 DEF IdsIn
  <2>4. i \in sweep.seen
    BY <2>1, <2>2, <2>3 DEF WalkInv
  <2> QED
    BY <2>1, <2>4 DEF WalkInv
<1> QED
  BY <1>1, <1>2, <1>3, Inductive, PTL DEF Spec

==============================================================================
